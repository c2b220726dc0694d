--------------------------- MODULE DocumentSpend ----------------------------
(***************************************************************************)
(* What whole-document analysis spends from a batch                        *)
(* (report_analysis/documents.py _request, ops/db_budget.py).  Every chunk *)
(* of a run is one request: the estimate is reserved in batches.spent_usd  *)
(* and the transaction commits; the provider is asked with no transaction  *)
(* open; then what it charged replaces the estimate.  The reservation is   *)
(* one conditional UPDATE; the settlement reads the column through the ORM *)
(* and writes a value back.  The runs of different documents of a batch    *)
(* are jobs of different workers, so these steps interleave; one document  *)
(* has one run at a time (_run_lock), and its chunks go in order.          *)
(***************************************************************************)
EXTENDS Integers, FiniteSets, Functions

CONSTANTS AnalysisRuns,   \* runs of different documents, one batch
          Chunks,         \* chunks of each run, 1..Chunks
          Estimate,       \* 0.02 per page of a chunk
          SpendLimit,     \* batches.budget_limit_usd
          Costs,          \* what an answer may cost
          MaxTries        \* bound on the requests of one chunk

ASSUME SpendAssumption ==
    /\ Chunks \in Nat /\ SpendLimit \in Nat /\ MaxTries \in Nat
    /\ Estimate \in Nat /\ Costs \subseteq Nat /\ IsFiniteSet(AnalysisRuns)

VARIABLES
    batchSpent,   \* batches.spent_usd
    chunk,        \* document_analysis_chunks: status and attempts
    request,      \* _request of each run: where it is and what it holds
    providerBill, \* what the provider charged (no row holds it)
    owed,         \* history: answers charged plus estimates without an answer
    overlapped    \* history: a commit fell between a read and its write

spendVars == <<batchSpent, chunk, request, providerBill, owed, overlapped>>

ChunkKeys == AnalysisRuns \X (1..Chunks)
AtRest == [pc |-> "idle", at |-> 1, cost |-> 0, answered |-> FALSE,
           valid |-> FALSE, seen |-> 0]

SpendTypeOK ==
    /\ batchSpent \in Nat /\ providerBill \in Nat /\ owed \in Int
    /\ overlapped \in BOOLEAN
    /\ chunk \in [ChunkKeys -> [status : {"none", "running", "failed", "complete"},
                                attempts : 0..MaxTries, cost : Nat]]
    /\ request \in [AnalysisRuns ->
            [pc : {"idle", "asking", "failing", "settling", "writing", "over"},
             at : 1..(Chunks + 1), cost : Nat, answered : BOOLEAN,
             valid : BOOLEAN, seen : Nat]]

SpendInit ==
    /\ batchSpent = 0 /\ providerBill = 0 /\ owed = 0 /\ overlapped = FALSE
    /\ chunk = [k \in ChunkKeys |-> [status |-> "none", attempts |-> 0, cost |-> 0]]
    /\ request = [r \in AnalysisRuns |-> AtRest]

Key(r) == <<r, request[r].at>>
NextChunk(r) == [AtRest EXCEPT !.at = request[r].at + 1]

(* Somebody else has read the column and not yet written it. *)
Overlap(r) == overlapped \/ \E q \in AnalysisRuns \ {r} : request[q].pc = "writing"

(* A chunk that is complete is validated from its saved payload. *)
SkipComplete(r) ==
    /\ request[r].pc = "idle" /\ request[r].at <= Chunks
    /\ chunk[Key(r)].status = "complete"
    /\ request' = [request EXCEPT ![r] = NextChunk(r)]
    /\ UNCHANGED <<batchSpent, chunk, providerBill, owed, overlapped>>

(* reserve_budget: the conditional UPDATE of the column.  (A batch without a
   limit always reserves and promises nothing of its spending; it is left out.) *)
Reservable == batchSpent + Estimate <= SpendLimit

ReserveChunk(r) ==
    /\ request[r].pc = "idle" /\ request[r].at <= Chunks
    /\ chunk[Key(r)].status # "complete"
    /\ chunk[Key(r)].attempts < MaxTries
    /\ IF Reservable
       THEN /\ batchSpent' = batchSpent + Estimate
            /\ owed' = owed + Estimate
            /\ overlapped' = Overlap(r)
            /\ chunk' = [chunk EXCEPT ![Key(r)].status = "running",
                                      ![Key(r)].attempts = @ + 1]
            /\ request' = [request EXCEPT ![r].pc = "asking"]
       ELSE (* BudgetPaused: the run is over until somebody reanalyzes *)
            /\ request' = [request EXCEPT ![r].pc = "over"]
            /\ UNCHANGED <<batchSpent, owed, overlapped, chunk>>
    /\ UNCHANGED providerBill

(* The provider answers, and the payload is valid or not. *)
Answer(r, c, valid) ==
    /\ request[r].pc = "asking"
    /\ providerBill' = providerBill + c
    /\ request' = [request EXCEPT ![r] = [@ EXCEPT !.cost = c, !.answered = TRUE,
                        !.valid = valid, !.pc = IF valid THEN "settling" ELSE "failing"]]
    /\ UNCHANGED <<batchSpent, chunk, owed, overlapped>>

(* No answer arrives; the provider may have charged for it all the same. *)
NoAnswer(r, c) ==
    /\ request[r].pc = "asking"
    /\ providerBill' = providerBill + c
    /\ request' = [request EXCEPT ![r].pc = "failing"]
    /\ UNCHANGED <<batchSpent, chunk, owed, overlapped>>

(* The except branch, a transaction of its own. *)
MarkFailed(r) ==
    /\ request[r].pc = "failing"
    /\ chunk' = [chunk EXCEPT ![Key(r)].status = "failed"]
    /\ request' = [request EXCEPT ![r].pc = "settling"]
    /\ UNCHANGED <<batchSpent, providerBill, owed, overlapped>>

(* The finally branch.  An outcome that is not known keeps the reservation:
   the run tries the chunk again, later, or goes on without it. *)
KeepReservation(r) ==
    /\ request[r].pc = "settling" /\ ~request[r].answered
    /\ \E next \in {[AtRest EXCEPT !.at = request[r].at], NextChunk(r)} :
          request' = [request EXCEPT ![r] = next]
    /\ UNCHANGED <<batchSpent, chunk, providerBill, owed, overlapped>>

ReadSpent(r) ==
    /\ request[r].pc = "settling" /\ request[r].answered
    /\ request' = [request EXCEPT ![r] = [@ EXCEPT !.pc = "writing", !.seen = batchSpent]]
    /\ UNCHANGED <<batchSpent, chunk, providerBill, owed, overlapped>>

(* Mistake: the estimate is not given back. *)
SettledOnTop(seen, c) == seen + c

(* batch.spent_usd = max(0, batch.spent_usd + cost - estimate) *)
Settled(seen, c) == IF seen + c < Estimate THEN 0 ELSE seen + c - Estimate

WriteSpent(r) ==
    LET me == request[r]
    IN  /\ me.pc = "writing"
        /\ batchSpent' = Settled(me.seen, me.cost)
        /\ owed' = owed + me.cost - Estimate
        /\ overlapped' = Overlap(r)
        /\ chunk' = [chunk EXCEPT ![Key(r)].cost = @ + me.cost,
                        ![Key(r)].status = IF me.valid THEN "complete" ELSE @]
        /\ \E next \in {[AtRest EXCEPT !.at = me.at], NextChunk(r)} :
              /\ me.valid => next = NextChunk(r)
              /\ request' = [request EXCEPT ![r] = next]
        /\ UNCHANGED providerBill

(* The worker dies between two transactions; the job is claimed again and
   replays its chunks from the first. *)
WorkerDies(r) ==
    /\ request[r].pc # "over" /\ request[r] # AtRest
    /\ request' = [request EXCEPT ![r] = AtRest]
    /\ UNCHANGED <<batchSpent, chunk, providerBill, owed, overlapped>>

SpendNext ==
    \E r \in AnalysisRuns :
        \/ SkipComplete(r) \/ ReserveChunk(r) \/ MarkFailed(r)
        \/ \E c \in Costs : \/ \E valid \in BOOLEAN : Answer(r, c, valid)
                            \/ NoAnswer(r, c)
        \/ KeepReservation(r) \/ ReadSpent(r) \/ WriteSpent(r) \/ WorkerDies(r)

SpendSpec == SpendInit /\ [][SpendNext]_spendVars

-----------------------------------------------------------------------------
(* Properties *)

(* The column is exact unless two transactions overlapped on it: crashes,
   retries and answers that fail validation never make it drift. *)
DriftOnlyIfOverlapped == overlapped \/ batchSpent = owed

(* Without such an overlap the column is exact, and the batch has set aside at
   least what the provider charged, in every state and however the runs were
   interrupted, as long as no answer costs more than its estimate. *)
SpendAccounted ==
    /\ DriftOnlyIfOverlapped
    /\ (\A c \in Costs : c <= Estimate) => overlapped \/ providerBill <= batchSpent
=============================================================================
