------------------------------- MODULE JobQueue --------------------------------
(***************************************************************************)
(* The jobs table (jobs/postgres.py) and the worker processes that poll it *)
(* (pipeline/worker.py, pipeline/run_worker.py).                           *)
(*                                                                         *)
(* A row is identified by its dedupe key.  Every action is one committed   *)
(* transaction, or an event between two of them: a crash, a timer, the     *)
(* handler's return.  Time is abstracted to two facts about a row: whether *)
(* run_after has been reached ("due") and whether locked_at is null, less  *)
(* than 15 minutes old, or older ("lease").                                *)
(***************************************************************************)
EXTENDS Naturals

CONSTANTS
  Keys,         \* dedupe keys
  Workers,      \* worker processes
  NoKey,        \* "no job in hand"
  NoWorker,     \* "nobody runs the job"
  MaxAttempts,  \* jobs.max_attempts
  MaxSubmits,   \* bound: how many times rows are inserted or reset
  MaxLost,      \* bound: how many runs of one job are lost
  HandlersOutliveLease  \* may a handler run for 15 minutes without a heartbeat?

ASSUME QueueAssumption ==
  /\ NoKey \notin Keys
  /\ NoWorker \notin Workers
  /\ MaxAttempts \in Nat \ {0}
  /\ MaxSubmits \in Nat
  /\ MaxLost \in Nat
  /\ HandlersOutliveLease \in BOOLEAN

VARIABLES
  status,    \* the table: one row per key, "absent" before the insert
  attempts,  \* claims since the row was inserted or reset
  due,       \* run_after has been reached
  lease,     \* locked_at: null, recent, or older than 15 minutes
  backfill,  \* payload->>'backfill' = 'true'
  created,   \* created_at, as the row's rank
  pc,        \* what each worker process is doing
  task,      \* the key of the job a worker has claimed
  attempt,   \* the attempts value the claim returned to the worker
  submits,   \* history: inserts and resets so far
  lost       \* history: runs of each job whose worker never settled them

row    == <<status, attempts, due, lease, backfill, created>>
worker == <<pc, task, attempt>>
vars   == <<row, worker, submits, lost>>

\* Mistake: a running row is not counted as active by the enqueue.
QueuedOnly == {"queued"}

Statuses == {"absent", "queued", "running", "complete", "dead"}
Active   == {"queued", "running"}
Settled  == {"complete", "dead"}

TypeOK == /\ status \in [Keys -> Statuses]
          /\ attempts \in [Keys -> Nat]
          /\ due \in [Keys -> BOOLEAN]
          /\ lease \in [Keys -> {"none", "fresh", "expired"}]
          /\ backfill \in [Keys -> BOOLEAN]
          /\ created \in [Keys -> Nat]
          /\ pc \in [Workers -> {"down", "idle", "busy"}]
          /\ task \in [Workers -> Keys \cup {NoKey}]
          /\ attempt \in [Workers -> Nat]
          /\ submits \in Nat
          /\ lost \in [Keys -> Nat]

Handles(w, k) == pc[w] = "busy" /\ task[w] = k

\* Running, and no worker process will ever complete or fail it.
Orphan(k) == status[k] = "running" /\ \A w \in Workers : ~Handles(w, k)

Init == /\ status = [k \in Keys |-> "absent"]
        /\ attempts = [k \in Keys |-> 0]
        /\ due = [k \in Keys |-> FALSE]
        /\ lease = [k \in Keys |-> "none"]
        /\ backfill = [k \in Keys |-> FALSE]
        /\ created = [k \in Keys |-> 0]
        /\ pc = [w \in Workers |-> "down"]
        /\ task = [w \in Workers |-> NoKey]
        /\ attempt = [w \in Workers |-> 0]
        /\ submits = 0
        /\ lost = [k \in Keys |-> 0]

--------------------------------------------------------------------------------
(* ENQUEUE_SQL: insert, or on a dedupe key conflict keep the active row or *)
(* reset the settled one.  created_at is written by the insert only.       *)

Coalesce(k) ==
  /\ status[k] \in Active
  /\ UNCHANGED <<row, submits>>

InsertOrReset(k, background) ==
  /\ status' = [status EXCEPT ![k] = "queued"]
  /\ attempts' = [attempts EXCEPT ![k] = 0]
  /\ due' = [due EXCEPT ![k] = TRUE]
  /\ lease' = [lease EXCEPT ![k] = "none"]
  /\ backfill' = [backfill EXCEPT ![k] = background]
  /\ created' = IF status[k] = "absent" THEN [created EXCEPT ![k] = submits] ELSE created
  /\ submits' = submits + 1

Enqueue(k) ==
  /\ \/ Coalesce(k)
     \/ /\ status[k] \notin Active
        /\ submits < MaxSubmits
        /\ \E background \in BOOLEAN : InsertOrReset(k, background)
  /\ UNCHANGED <<worker, lost>>

--------------------------------------------------------------------------------
(* CLAIM_SQL: due queued rows, backfill last, oldest first.                *)

\* Mistake: rows out of attempts are left in the queue.
ClaimableFewTries(k) == status[k] = "queued" /\ due[k] /\ attempts[k] < MaxAttempts

Claimable(k) == status[k] = "queued" /\ due[k]

Precedes(k, l) ==
  \/ ~backfill[k] /\ backfill[l]
  \/ backfill[k] = backfill[l] /\ created[k] < created[l]

Claim(w, k) ==
  /\ pc[w] = "idle"
  /\ Claimable(k)
  /\ \A l \in Keys : Claimable(l) => ~Precedes(l, k)
  /\ status' = [status EXCEPT ![k] = "running"]
  /\ lease' = [lease EXCEPT ![k] = "fresh"]
  /\ attempts' = [attempts EXCEPT ![k] = @ + 1]
  /\ pc' = [pc EXCEPT ![w] = "busy"]
  /\ task' = [task EXCEPT ![w] = k]
  /\ attempt' = [attempt EXCEPT ![w] = attempts[k] + 1]
  /\ UNCHANGED <<due, backfill, created, submits, lost>>

--------------------------------------------------------------------------------
(* The end of Worker.run_once.  Both updates select the row by id alone.   *)

LetGo(w, next) == /\ pc' = [pc EXCEPT ![w] = next]
                  /\ task' = [task EXCEPT ![w] = NoKey]
                  /\ attempt' = [attempt EXCEPT ![w] = 0]

Complete(w) ==
  /\ pc[w] = "busy"
  /\ status' = [status EXCEPT ![task[w]] = "complete"]
  /\ lease' = [lease EXCEPT ![task[w]] = "none"]
  /\ LetGo(w, "idle")
  /\ UNCHANGED <<attempts, due, backfill, created, submits, lost>>

\* Mistakes: one attempt too many; the wrong word for a dead letter.
OutcomeLate(w, permanent) ==
  IF permanent \/ attempt[w] > MaxAttempts THEN "dead" ELSE "queued"
OutcomeFailed(w, permanent) ==
  IF permanent \/ attempt[w] >= MaxAttempts THEN "failed" ELSE "queued"

\* permanent: the handler raised PermanentJobFailure.
Outcome(w, permanent) ==
  IF permanent \/ attempt[w] >= MaxAttempts THEN "dead" ELSE "queued"

Fail(w, permanent) ==
  /\ pc[w] = "busy"
  /\ status' = [status EXCEPT ![task[w]] = Outcome(w, permanent)]
  /\ due' = [due EXCEPT ![task[w]] = FALSE]
  /\ lease' = [lease EXCEPT ![task[w]] = "none"]
  /\ LetGo(w, "idle")
  /\ UNCHANGED <<attempts, backfill, created, submits, lost>>

\* The worker dies, or the transaction that should settle the job raises and
\* the polling loop goes on: the row stays as it is.
LoseRun(w, next) ==
  /\ pc[w] = "busy"
  /\ lost[task[w]] < MaxLost
  /\ lost' = [lost EXCEPT ![task[w]] = @ + 1]
  /\ LetGo(w, next)
  /\ UNCHANGED <<row, submits>>

CrashBusy(w)   == LoseRun(w, "down")
SettleError(w) == LoseRun(w, "idle")

CrashIdle(w) == /\ pc[w] = "idle"
                /\ pc' = [pc EXCEPT ![w] = "down"]
                /\ UNCHANGED <<row, task, attempt, submits, lost>>

--------------------------------------------------------------------------------
(* Startup: recover_stale releases the running rows whose lease has run    *)
(* out; it runs here and nowhere else.                                     *)

\* Mistakes: a release that ignores the lease, or the status.
StaleAnyLease(k)  == status[k] = "running"
StaleAnyStatus(k) == lease[k] # "fresh"

Stale(k) == status[k] = "running" /\ lease[k] # "fresh"

RecoverStale ==
  /\ status' = [k \in Keys |-> IF Stale(k) THEN "queued" ELSE status[k]]
  /\ lease' = [k \in Keys |-> IF Stale(k) THEN "none" ELSE lease[k]]
  /\ due' = [k \in Keys |-> Stale(k) \/ due[k]]
  /\ UNCHANGED <<attempts, backfill, created>>

Start(w) == /\ pc[w] = "down"
            /\ RecoverStale
            /\ pc' = [pc EXCEPT ![w] = "idle"]
            /\ UNCHANGED <<task, attempt, submits, lost>>

\* Document analysis renews locked_at around each provider call, by job id.
Heartbeat(w) == /\ pc[w] = "busy"
                /\ lease' = [lease EXCEPT ![task[w]] = "fresh"]
                /\ UNCHANGED <<status, attempts, due, backfill, created,
                               worker, submits, lost>>

--------------------------------------------------------------------------------
(* The clock.                                                              *)

BackoffEnds(k) == /\ status[k] = "queued"
                  /\ ~due[k]
                  /\ due' = [due EXCEPT ![k] = TRUE]
                  /\ UNCHANGED <<status, attempts, lease, backfill, created,
                                 worker, submits, lost>>

LeaseExpires(k) == /\ status[k] = "running"
                   /\ lease[k] = "fresh"
                   /\ HandlersOutliveLease \/ Orphan(k)
                   /\ lease' = [lease EXCEPT ![k] = "expired"]
                   /\ UNCHANGED <<status, attempts, due, backfill, created,
                                  worker, submits, lost>>

--------------------------------------------------------------------------------
Settles(w) == Complete(w) \/ \E permanent \in BOOLEAN : Fail(w, permanent)

Next == \/ \E k \in Keys : Enqueue(k) \/ BackoffEnds(k) \/ LeaseExpires(k)
        \/ \E w \in Workers, k \in Keys : Claim(w, k)
        \/ \E w \in Workers : \/ Settles(w) \/ Heartbeat(w) \/ Start(w)
                              \/ CrashBusy(w) \/ SettleError(w) \/ CrashIdle(w)

Spec == Init /\ [][Next]_vars

\* The platform restarts a worker that is down, a worker that keeps coming up
\* with work waiting gets to poll (the loop polls first thing after startup),
\* and every handler returns or raises; requests, crashes and heartbeats may
\* never happen.
Fairness == /\ \A w \in Workers : WF_vars(Start(w))
            /\ \A w \in Workers : SF_vars(\E k \in Keys : Claim(w, k))
            /\ \A w \in Workers : WF_vars(Settles(w))
            /\ \A k \in Keys : WF_vars(BackoffEnds(k)) /\ WF_vars(LeaseExpires(k))

FairSpec == Spec /\ Fairness
--------------------------------------------------------------------------------
(* Properties.                                                             *)

\* While no handler outlives its lease, a worker that has a job in hand owns
\* it: the row is running on the very attempt the worker claimed, and nobody
\* else runs it.  Complete and fail select by id only, so this is what keeps
\* a late answer from settling somebody else's run.
OwnerHoldsRow ==
  \A w \in Workers : pc[w] = "busy" =>
     /\ status[task[w]] = "running"
     /\ attempts[task[w]] = attempt[w]
     /\ \A v \in Workers : Handles(v, task[w]) => v = w

\* Attempts beyond max_attempts are each paid for by a run that was lost: no
\* sequence of reported failures, resets and releases buys a job extra runs.
AttemptsPaidFor ==
  \A k \in Keys : attempts[k] <= MaxAttempts + lost[k]

\* A settled row changes only when it is enqueued again, from a clean slate:
\* no late completion, failure, release or timer touches it.
SettledIsFinal ==
  [][\A k \in Keys : status[k] \in Settled /\ status'[k] # status[k] =>
        status'[k] = "queued" /\ attempts'[k] = 0 /\ submits' = submits + 1]_vars

\* Every job that waits in the queue is eventually settled or orphaned: no
\* ordering, backoff, coalescing or release strands it.
QueuedIsHandled ==
  \A k \in Keys : status[k] \in Active
                    ~> (status[k] \in Settled \/ Orphan(k))

\* A job orphaned by a crash is released once workers are back up.
OrphansReleased == \A k \in Keys : Orphan(k) ~> status[k] # "running"

\* The contract, with a row's status read as the phase and the worker that
\* handles it as the owner.
PhaseOf == [absent |-> "idle", queued |-> "pending", running |-> "working",
            complete |-> "done", dead |-> "dead"]
Phase == [k \in Keys |-> PhaseOf[status[k]]]
Owner == [k \in Keys |-> IF \E w \in Workers : Handles(w, k)
                         THEN CHOOSE w \in Workers : Handles(w, k)
                         ELSE NoWorker]

Contract == INSTANCE JobContract WITH phase <- Phase, owner <- Owner

\* While no handler outlives its lease the table and its workers implement the
\* contract: single ownership, settlement by the owner, release of lost runs.
ImplementsContract == Contract!Spec
================================================================================
