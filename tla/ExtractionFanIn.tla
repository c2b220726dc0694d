---------------------------- MODULE ExtractionFanIn ----------------------------
(***************************************************************************)
(* One batch of extraction units: the API estimates and starts it, workers *)
(* run one extract_unit job per unit (pipeline/orchestrator.py), the last  *)
(* unit of a property triggers its recompute, the last unit of the batch   *)
(* closes it (pipeline/batch.py).                                          *)
(*                                                                         *)
(* Jobs follow JobContract.  The transaction that finishes a unit is split *)
(* at the points where others see or block it: what it reads, the row and  *)
(* advisory locks it waits for, the counts it takes, its commit.  Reads    *)
(* see committed rows only (READ COMMITTED).                               *)
(***************************************************************************)
EXTENDS Naturals, FiniteSets, FiniteSetsExt

CONSTANTS
  Units, Reports, Properties, Workers,
  None,              \* no property, no worker
  ReportOf,          \* the report a unit is cut from
  PropertyOf,        \* the property the report's address resolves to
  Locating,          \* the units whose facts hold a usable street address
  Attached,          \* reports whose property is known before extraction
  Price,             \* provider cost of a unit; 0 when no usage is reported
  Limits,            \* what batches.budget_limit_usd may be
  MaxAttempts,       \* jobs.max_attempts
  MaxCrashes,        \* bound: worker crashes
  MaxEstimates,      \* bound: POST /batches/{id}/estimate
  RecomputeMayFail   \* may a recompute raise (an archived property, say)?

ASSUME FanInAssumption ==
  /\ IsFiniteSet(Units)
  /\ None \notin Properties \cup Workers
  /\ {"none", "loose"} \cap Properties = {}
  /\ ReportOf \in [Units -> Reports]
  /\ PropertyOf \in [Reports -> Properties]
  /\ Locating \subseteq Units
  /\ Attached \subseteq Reports
  /\ Price \in [Units -> Nat]
  /\ Limits \subseteq Nat
  /\ MaxAttempts \in Nat \ {0}
  /\ MaxCrashes \in Nat
  /\ MaxEstimates \in Nat
  /\ RecomputeMayFail \in BOOLEAN

VARIABLES
  phase, owner, attempts,  \* the extract_unit job of each unit
  unit,       \* extraction_units.status
  facts,      \* where a unit's facts are: nowhere, loose, or at a property
  report,     \* reports.status; "unresolved": failed for want of an identity
  property,   \* reports.property_id
  batch, awaiting, total, completed, failed, spent, limit,  \* the batches row
  computed,   \* the units whose facts the property's results are based on
  pc,         \* the next step of each worker's handler
  prop,       \* property_id in the handler's finish_unit
  others,     \* the outstanding units finish_unit has counted
  billed,     \* history: what the provider has charged
  crashes,    \* history: workers lost
  estimates   \* history: estimates asked for

jobs     == <<phase, owner, attempts>>
ledger   == <<unit, facts, report, property>>
batchRow == <<batch, awaiting, total, completed, failed, spent, limit>>
local    == <<pc, prop, others>>
history  == <<billed, crashes, estimates>>
vars     == <<jobs, ledger, batchRow, computed, local, history>>

Queue == INSTANCE JobContract WITH Keys <- Units, NoWorker <- None

Outstanding == {"queued", "running"}
UnitsOf(r)  == {u \in Units : ReportOf[u] = r}
FactsAt(p)  == {u \in Units : facts[u] = p}

Init == /\ Queue!Init
        /\ attempts = [u \in Units |-> 0]
        /\ unit = [u \in Units |-> "queued"]
        /\ facts = [u \in Units |-> "none"]
        /\ report = [r \in Reports |-> "classified"]
        /\ property = [r \in Reports |-> IF r \in Attached THEN PropertyOf[r] ELSE None]
        /\ batch = "uploaded"
        /\ awaiting = FALSE
        /\ total = 0 /\ completed = 0 /\ failed = 0 /\ spent = 0
        /\ limit \in Limits
        /\ computed = [p \in Properties |-> {}]
        /\ pc = [w \in Workers |-> "idle"]
        /\ prop = [w \in Workers |-> None]
        /\ others = [w \in Workers |-> {}]
        /\ billed = 0 /\ crashes = 0 /\ estimates = 0

--------------------------------------------------------------------------------
(* Locks held until commit.                                                *)

\* Mistake: the reservation commits on its own.
HoldsBatchBriefly(w) == FALSE

\* reserve_budget has updated the batches row for a unit that costs something.
HoldsBatch(w) ==
  /\ pc[w] \in {"resolve", "lock", "count", "commit"}
  /\ \E u \in Units : owner[u] = w /\ unit[u] \in Outstanding /\ Price[u] > 0

BatchUnlocked == \A w \in Workers : ~HoldsBatch(w)

\* resolve_property's advisory lock on the identity the report resolves to.
HoldsIdentity(w, p) ==
  /\ pc[w] \in {"lock", "count", "commit"}
  /\ prop[w] = p
  /\ \E u \in Units : owner[u] = w /\ property[ReportOf[u]] = None

\* Mistake: the property is read without FOR UPDATE.
HoldsNothing(w, p) == FALSE

\* SELECT ... FROM properties FOR UPDATE.
HoldsProperty(w, p) == pc[w] \in {"count", "commit"} /\ prop[w] = p

--------------------------------------------------------------------------------
(* The batch API.                                                          *)

\* The endpoint accepts a batch in any state whose units exist.
Estimate ==
  /\ estimates < MaxEstimates
  /\ BatchUnlocked
  /\ batch' = "awaiting_confirmation"
  /\ awaiting' = TRUE
  /\ estimates' = estimates + 1
  /\ UNCHANGED <<jobs, ledger, total, completed, failed, spent, limit, computed,
                 local, billed, crashes>>

Start ==
  LET queued == {u \in Units : unit[u] = "queued"}
      asked  == {u \in queued : phase[u] \notin {"pending", "working"}}
  IN
  /\ awaiting
  /\ queued # {}
  /\ BatchUnlocked
  /\ batch' = "running"
  /\ awaiting' = FALSE
  /\ total' = Cardinality(queued)
  /\ completed' = 0
  /\ failed' = 0
  /\ report' = [r \in Reports |-> IF report[r] \in {"failed", "unresolved"}
                                  THEN report[r] ELSE "extracting"]
  /\ IF asked = {} THEN UNCHANGED <<phase, owner>> ELSE Queue!Submit(asked)
  /\ attempts' = [u \in Units |-> IF u \in asked THEN 0 ELSE attempts[u]]
  /\ UNCHANGED <<unit, facts, property, spent, limit, computed, local, history>>

--------------------------------------------------------------------------------
(* The handler of one extract_unit job, step by step.                      *)

At(w, u, step) == owner[u] = w /\ pc[w] = step
Goto(w, step)  == pc' = [pc EXCEPT ![w] = step]

Take(w, u) ==
  /\ pc[w] = "idle"
  /\ Queue!Begin(u, w)
  /\ attempts' = [attempts EXCEPT ![u] = @ + 1]
  /\ Goto(w, "mark")
  /\ UNCHANGED <<ledger, batchRow, computed, prop, others, history>>

\* A transaction of its own: the unit is seen as running from here on.
Mark(w, u) ==
  /\ At(w, u, "mark")
  /\ unit' = [unit EXCEPT ![u] = IF @ = "queued" THEN "running" ELSE @]
  /\ Goto(w, "check")
  /\ UNCHANGED <<jobs, facts, report, property, batchRow, computed, prop, others, history>>

Paused == batch = "paused_budget" \/ awaiting

Check(w, u) ==
  /\ At(w, u, "check")
  /\ Goto(w, IF unit[u] \notin Outstanding THEN "resolve"
             ELSE IF Paused THEN "raise" ELSE "call")
  /\ UNCHANGED <<jobs, ledger, batchRow, computed, prop, others, history>>

\* The provider answers and is paid, or the call fails.
Call(w, u) ==
  /\ At(w, u, "call")
  /\ \/ Goto(w, "reserve") /\ billed' = billed + Price[u]
     \/ Goto(w, "raise") /\ UNCHANGED billed
  /\ UNCHANGED <<jobs, ledger, batchRow, computed, prop, others, crashes, estimates>>

\* The conditional update of spent_usd; it is visible when the unit commits.
Affordable(u) == spent + Price[u] <= limit

Reserve(w, u) ==
  /\ At(w, u, "reserve")
  /\ Price[u] > 0 => BatchUnlocked
  /\ IF Price[u] > 0 /\ ~Affordable(u)
     THEN Goto(w, "raise") /\ batch' = "paused_budget"
     ELSE Goto(w, "resolve") /\ UNCHANGED batch
  /\ UNCHANGED <<jobs, ledger, awaiting, total, completed, failed, spent, limit,
                 computed, prop, others, history>>

\* finish_unit looks for the report's property: the one it has, or the one its
\* facts so far point to.
Resolve(w, u) ==
  LET r     == ReportOf[u]
      known == {v \in UnitsOf(r) : facts[v] # "none" \/ (v = u /\ unit[u] \in Outstanding)}
  IN
  /\ At(w, u, "resolve")
  /\ \/ /\ property[r] # None
        /\ prop' = [prop EXCEPT ![w] = property[r]]
        /\ Goto(w, "lock")
     \/ /\ property[r] = None
        /\ known \cap Locating = {}
        /\ prop' = [prop EXCEPT ![w] = None]
        /\ Goto(w, "count")
     \/ /\ property[r] = None
        /\ known \cap Locating # {}
        /\ \A v \in Workers : ~HoldsIdentity(v, PropertyOf[r])
        /\ prop' = [prop EXCEPT ![w] = PropertyOf[r]]
        /\ Goto(w, "lock")
  /\ UNCHANGED <<jobs, ledger, batchRow, computed, others, history>>

Lock(w, u) ==
  /\ At(w, u, "lock")
  /\ \A v \in Workers : ~HoldsProperty(v, prop[w])
  /\ Goto(w, "count")
  /\ UNCHANGED <<jobs, ledger, batchRow, computed, prop, others, history>>

\* Outstanding units of the report and, through reports.property_id, of the
\* property; its own unit counts as extracted already.
Count(w, u) ==
  /\ At(w, u, "count")
  /\ others' = [others EXCEPT ![w] =
       {v \in Units \ {u} :
          /\ unit[v] \in Outstanding
          /\ \/ ReportOf[v] = ReportOf[u]
             \/ (prop[w] # None /\ property[ReportOf[v]] = prop[w])}]
  /\ Goto(w, "commit")
  /\ UNCHANGED <<jobs, ledger, batchRow, computed, prop, history>>

\* The report's own outstanding count is zero.
LastOfReport(w, r) == others[w] \cap UnitsOf(r) = {}

\* Mistake: facts are assigned to the property whether or not there is one.
FactsSeenUnresolved(w, v, brings) ==
  IF brings \/ facts[v] # "none" THEN prop[w] ELSE facts[v]

\* Where w leaves the facts of a unit of its report that it has seen: at the
\* property, if there is one; facts it brings itself stay loose otherwise.
FactsSeen(w, v, brings) ==
  IF prop[w] # None /\ (brings \/ facts[v] # "none") THEN prop[w]
  ELSE IF brings THEN "loose" ELSE facts[v]

\* Mistakes: a retry accounts for its unit, or pays for it, again.
AccountAgain(extracts) == "account"
ChargeAgain(extracts, u) == spent + Price[u]

\* A unit is accounted for by the run that extracted it, and by no retry.
AfterCommit(extracts) == IF extracts THEN "account" ELSE "recompute"

Charge(extracts, u) == IF extracts THEN spent + Price[u] ELSE spent

Commit(w, u) ==
  LET r        == ReportOf[u]
      extracts == unit[u] \in Outstanding
  IN
  /\ At(w, u, "commit")
  /\ unit' = [unit EXCEPT ![u] = IF extracts THEN "extracted" ELSE @]
  /\ facts' = [v \in Units |-> IF v \in UnitsOf(r) \ others[w]
                               THEN FactsSeen(w, v, v = u /\ extracts) ELSE facts[v]]
  /\ property' = [property EXCEPT ![r] = IF prop[w] # None THEN prop[w] ELSE @]
  /\ report' = [report EXCEPT ![r] = IF ~LastOfReport(w, r) THEN @
                                     ELSE IF prop[w] = None THEN "unresolved" ELSE "extracted"]
  /\ spent' = Charge(extracts, u)
  /\ Goto(w, AfterCommit(extracts))
  /\ UNCHANGED <<jobs, batch, awaiting, total, completed, failed, limit, computed,
                 prop, others, history>>

\* Mistake: one unit more is waited for than there are.
OverLanded(landed) == total > 0 /\ landed > total

AllLanded(landed) == total > 0 /\ landed >= total

\* batch.unit_finished: a transaction of its own.
Account(w, u) ==
  LET unresolved == prop[w] = None /\ LastOfReport(w, ReportOf[u])
  IN
  /\ At(w, u, "account")
  /\ BatchUnlocked
  /\ completed' = IF unresolved THEN completed ELSE completed + 1
  /\ failed' = IF unresolved THEN failed + 1 ELSE failed
  /\ batch' = IF AllLanded(completed + failed + 1)
              THEN IF completed' = 0 THEN "failed" ELSE "computing"
              ELSE batch
  /\ Goto(w, "recompute")
  /\ UNCHANGED <<jobs, ledger, awaiting, total, spent, limit, computed, prop, others,
                 history>>

\* The property's own outstanding count was zero: recompute it, in one
\* transaction under the property's advisory lock.
Recompute(w, u) ==
  LET fansIn == prop[w] # None /\ others[w] = {}
  IN
  /\ At(w, u, "recompute")
  /\ \/ /\ ~fansIn
        /\ Goto(w, "close")
        /\ UNCHANGED computed
     \/ /\ fansIn
        /\ computed' = [computed EXCEPT ![prop[w]] = FactsAt(prop[w])]
        /\ Goto(w, "close")
     \/ /\ fansIn
        /\ RecomputeMayFail
        /\ Goto(w, "raise")
        /\ UNCHANGED computed
  /\ UNCHANGED <<jobs, ledger, batchRow, prop, others, history>>

\* The last transaction closes a batch that is found computing.
Close(w, u) ==
  LET unresolved == \E r \in Reports : property[r] = None /\ report[r] = "unresolved"
      resolved   == \E r \in Reports : property[r] # None
  IN
  /\ At(w, u, "close")
  /\ IF batch = "computing"
     THEN BatchUnlocked /\ batch' = IF unresolved \/ ~resolved THEN "failed" ELSE "complete"
     ELSE UNCHANGED batch
  /\ Goto(w, "settle")
  /\ UNCHANGED <<jobs, ledger, awaiting, total, completed, failed, spent, limit,
                 computed, prop, others, history>>

--------------------------------------------------------------------------------
(* How a job ends.                                                         *)

Rest(w) == /\ Goto(w, "idle")
           /\ prop' = [prop EXCEPT ![w] = None]
           /\ others' = [others EXCEPT ![w] = {}]

Complete(w, u) ==
  /\ At(w, u, "settle")
  /\ Queue!Settle(u, w)
  /\ phase'[u] = "done"
  /\ Rest(w)
  /\ UNCHANGED <<attempts, ledger, batchRow, computed, history>>

Retry(w, u) ==
  /\ At(w, u, "raise")
  /\ attempts[u] < MaxAttempts
  /\ Queue!Settle(u, w)
  /\ phase'[u] = "pending"
  /\ Rest(w)
  /\ UNCHANGED <<attempts, ledger, batchRow, computed, history>>

\* The job is dead: _mark_terminal_failure fails its unit, report and batch.
GiveUp(w, u) ==
  /\ At(w, u, "raise")
  /\ attempts[u] >= MaxAttempts
  /\ BatchUnlocked
  /\ Queue!Settle(u, w)
  /\ phase'[u] = "dead"
  /\ unit' = [unit EXCEPT ![u] = "failed"]
  /\ report' = [report EXCEPT ![ReportOf[u]] = "failed"]
  /\ failed' = IF unit[u] = "failed" THEN failed ELSE failed + 1
  /\ batch' = "failed"
  /\ Rest(w)
  /\ UNCHANGED <<attempts, facts, property, awaiting, total, completed, spent,
                 limit, computed, history>>

\* A worker dies; whatever it had not committed is rolled back.
Crash(w, u) ==
  /\ crashes < MaxCrashes
  /\ pc[w] # "idle"
  /\ Queue!Lose(u, w)
  /\ crashes' = crashes + 1
  /\ Rest(w)
  /\ UNCHANGED <<attempts, ledger, batchRow, computed, billed, estimates>>

\* Startup recovery puts lost jobs back in the queue, whatever their attempts.
Reclaim ==
  /\ Queue!Reclaim
  /\ UNCHANGED <<attempts, ledger, batchRow, computed, local, history>>

--------------------------------------------------------------------------------
Step(w, u) == \/ Mark(w, u) \/ Check(w, u) \/ Call(w, u) \/ Reserve(w, u)
              \/ Resolve(w, u) \/ Lock(w, u) \/ Count(w, u) \/ Commit(w, u)
              \/ Account(w, u) \/ Recompute(w, u) \/ Close(w, u)
              \/ Complete(w, u) \/ Retry(w, u) \/ GiveUp(w, u)

\* No job is left and nobody asks for more; anything else that stops is a deadlock.
Finished == /\ \A u \in Units : phase[u] \notin {"pending", "working"}
            /\ estimates = MaxEstimates
            /\ UNCHANGED vars

Next == \/ Estimate \/ Start \/ Reclaim \/ Finished
        \/ \E w \in Workers, u \in Units : Take(w, u) \/ Step(w, u) \/ Crash(w, u)

Spec == Init /\ [][Next]_vars

\* Idle workers poll and handlers go on to their end; users need not start a
\* batch, and nothing says that a lost job is ever released.
Fairness == \A w \in Workers : /\ WF_vars(\E u \in Units : Take(w, u))
                               /\ WF_vars(\E u \in Units : Step(w, u))

FairSpec == Spec /\ Fairness
--------------------------------------------------------------------------------
(* Properties.                                                             *)

TypeOK == /\ Queue!TypeOK
          /\ attempts \in [Units -> Nat]
          /\ unit \in [Units -> {"queued", "running", "extracted", "failed"}]
          /\ facts \in [Units -> {"none", "loose"} \cup Properties]
          /\ report \in [Reports -> {"classified", "extracting", "extracted",
                                     "unresolved", "failed"}]
          /\ property \in [Reports -> Properties \cup {None}]
          /\ batch \in {"uploaded", "awaiting_confirmation", "running", "computing",
                        "complete", "paused_budget", "failed"}
          /\ awaiting \in BOOLEAN
          /\ {total, completed, failed, spent, billed, crashes, estimates} \subseteq Nat
          /\ limit \in Limits
          /\ computed \in [Properties -> SUBSET Units]
          /\ pc \in [Workers -> {"idle", "mark", "check", "call", "reserve", "resolve",
                                 "lock", "count", "commit", "account", "recompute",
                                 "close", "settle", "raise"}]
          /\ prop \in [Workers -> Properties \cup {None}]
          /\ others \in [Workers -> SUBSET Units]

\* The batch has not been estimated again: a second start resets its counters
\* and its reports under the units that are still at work.
StartedOnce == estimates <= 1

\* finish_unit and the recompute after it leave nothing behind: once every job
\* of a property's reports is done, the property's results are based on all of
\* their facts and each report has reached its final status.
NothingLeftBehind ==
  \A p \in Properties :
     LET mine == {u \in Units : property[ReportOf[u]] = p}
     IN  StartedOnce /\ mine # {} /\ (\A u \in mine : phase[u] = "done")
           => /\ computed[p] = mine
              /\ \A u \in mine : report[ReportOf[u]] # "extracting"

\* Reservation and extraction are one transaction: the batch has spent exactly
\* what its extracted units cost, whatever crashes, retries or runs concurrently.
SpendIsExact ==
  spent = MapThenSumSet(LAMBDA u : Price[u], {u \in Units : facts[u] # "none"})

\* Concurrent reservations never take the batch over its limit.
WithinLimit == spent <= limit

\* No unit was given up after it had been extracted, because its recompute went
\* on raising; such a unit is counted as completed and as failed.
FailedUnextracted == \A u \in Units : unit[u] = "failed" => facts[u] = "none"

\* A batch that is computing or complete has no unit left to extract: retries
\* and crashes do not make a unit count twice.
CountedUnitsLanded ==
  StartedOnce /\ FailedUnextracted /\ batch \in {"computing", "complete"}
    => \A u \in Units : unit[u] \notin Outstanding

\* A batch that runs comes to an end, be it success, failure or a pause.
BatchEnds == batch = "running" ~> batch # "running"

================================================================================
