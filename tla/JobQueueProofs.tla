---------------------------- MODULE JobQueueProofs -----------------------------
(***************************************************************************)
(* Theorems about JobQueue for every set of keys and workers and every     *)
(* max_attempts.  Those about ownership assume that no handler outlives    *)
(* its lease; README.md says what happens otherwise.                       *)
(***************************************************************************)
EXTENDS JobQueue, TLAPS

\* A worker has a job in hand while it is busy.
BusyHasTask == \A w \in Workers : pc[w] = "busy" => task[w] \in Keys

\* A running row that startup recovery would release has no worker.
StaleIsOrphan == \A k \in Keys : Stale(k) => Orphan(k)

\* A row that may be claimed again has an attempt left, or a lost run has paid
\* for the next one.
AttemptsLeft ==
  \A k \in Keys : status[k] = "queued" \/ Orphan(k)
                    => attempts[k] < MaxAttempts + lost[k]

--------------------------------------------------------------------------------
\* Every variable keeps its type; a busy worker has a key in hand.
THEOREM TypeCorrect == Spec => [](TypeOK /\ BusyHasTask)
<1> USE QueueAssumption DEF TypeOK, BusyHasTask
<1>1. Init => TypeOK /\ BusyHasTask
  BY DEF Init, Statuses
<1>2. TypeOK /\ BusyHasTask /\ [Next]_vars => (TypeOK /\ BusyHasTask)'
  <2> SUFFICES ASSUME TypeOK, BusyHasTask, [Next]_vars
               PROVE  (TypeOK /\ BusyHasTask)'
    OBVIOUS
  <2> USE DEF row, worker, Statuses
  <2>1. ASSUME NEW k \in Keys, Enqueue(k)
        PROVE  (TypeOK /\ BusyHasTask)'
    <3>1. CASE Coalesce(k)
      BY <2>1, <3>1 DEF Enqueue, Coalesce
    <3>2. ASSUME NEW background \in BOOLEAN, InsertOrReset(k, background)
          PROVE  (TypeOK /\ BusyHasTask)'
      BY <2>1, <3>2 DEF Enqueue, InsertOrReset
    <3>3. QED
      BY <2>1, <3>1, <3>2 DEF Enqueue
  <2>2. ASSUME NEW k \in Keys, BackoffEnds(k) \/ LeaseExpires(k)
        PROVE  (TypeOK /\ BusyHasTask)'
    BY <2>2 DEF BackoffEnds, LeaseExpires
  <2>3. ASSUME NEW w \in Workers, NEW k \in Keys, Claim(w, k)
        PROVE  (TypeOK /\ BusyHasTask)'
    BY <2>3 DEF Claim
  <2>4. ASSUME NEW w \in Workers, Complete(w)
        PROVE  (TypeOK /\ BusyHasTask)'
    BY <2>4 DEF Complete, LetGo
  <2>5. ASSUME NEW w \in Workers, NEW permanent \in BOOLEAN, Fail(w, permanent)
        PROVE  (TypeOK /\ BusyHasTask)'
    BY <2>5 DEF Fail, Outcome, LetGo
  <2>6. ASSUME NEW w \in Workers, Heartbeat(w) \/ CrashIdle(w)
        PROVE  (TypeOK /\ BusyHasTask)'
    BY <2>6 DEF Heartbeat, CrashIdle
  <2>7. ASSUME NEW w \in Workers, Start(w)
        PROVE  (TypeOK /\ BusyHasTask)'
    BY <2>7 DEF Start, RecoverStale
  <2>8. ASSUME NEW w \in Workers, NEW next \in {"down", "idle"}, LoseRun(w, next)
        PROVE  (TypeOK /\ BusyHasTask)'
    BY <2>8 DEF LoseRun, LetGo
  <2>9. CASE UNCHANGED vars
    BY <2>9 DEF vars
  <2>10. QED
    BY <2>1, <2>2, <2>3, <2>4, <2>5, <2>6, <2>7, <2>8, <2>9
       DEF Next, Settles, CrashBusy, SettleError
<1>3. QED
  BY <1>1, <1>2, PTL DEF Spec

--------------------------------------------------------------------------------
\* The inductive invariant behind ownership: the release at startup reaches
\* orphans only, so no step takes the row away from the worker that runs it.
OwnerInv == TypeOK /\ BusyHasTask /\ OwnerHoldsRow /\ StaleIsOrphan

\* Each step keeps ownership: a claim takes a queued row, which nobody runs, and
\* with no expired lease under a live worker a release takes nobody's row.
LEMMA OwnerStep ==
  ASSUME HandlersOutliveLease = FALSE, OwnerInv, [Next]_vars
  PROVE  OwnerHoldsRow' /\ StaleIsOrphan'
<1> USE DEF OwnerInv, TypeOK, BusyHasTask, OwnerHoldsRow, StaleIsOrphan,
            Stale, Orphan, Handles, row, worker
<1>1. ASSUME NEW k \in Keys, Enqueue(k)
      PROVE  OwnerHoldsRow' /\ StaleIsOrphan'
  <2>1. CASE Coalesce(k)
    BY <1>1, <2>1 DEF Enqueue, Coalesce
  <2>2. ASSUME NEW background \in BOOLEAN, InsertOrReset(k, background),
               status[k] \notin Active
        PROVE  OwnerHoldsRow' /\ StaleIsOrphan'
    BY <1>1, <2>2 DEF Enqueue, InsertOrReset, Active
  <2>3. QED
    BY <1>1, <2>1, <2>2 DEF Enqueue
<1>2. ASSUME NEW k \in Keys, BackoffEnds(k) \/ LeaseExpires(k)
      PROVE  OwnerHoldsRow' /\ StaleIsOrphan'
  BY <1>2 DEF BackoffEnds, LeaseExpires
<1>3. ASSUME NEW w \in Workers, NEW k \in Keys, Claim(w, k)
      PROVE  OwnerHoldsRow' /\ StaleIsOrphan'
  BY <1>3 DEF Claim, Claimable
<1>4. ASSUME NEW w \in Workers, Complete(w)
      PROVE  OwnerHoldsRow' /\ StaleIsOrphan'
  BY <1>4 DEF Complete, LetGo
<1>5. ASSUME NEW w \in Workers, NEW permanent \in BOOLEAN, Fail(w, permanent)
      PROVE  OwnerHoldsRow' /\ StaleIsOrphan'
  BY <1>5 DEF Fail, Outcome, LetGo
<1>6. ASSUME NEW w \in Workers, Heartbeat(w) \/ CrashIdle(w)
      PROVE  OwnerHoldsRow' /\ StaleIsOrphan'
  BY <1>6 DEF Heartbeat, CrashIdle
<1>7. ASSUME NEW w \in Workers, Start(w)
      PROVE  OwnerHoldsRow' /\ StaleIsOrphan'
  BY <1>7 DEF Start, RecoverStale
<1>8. ASSUME NEW w \in Workers, NEW next \in {"down", "idle"}, LoseRun(w, next)
      PROVE  OwnerHoldsRow' /\ StaleIsOrphan'
  BY <1>8 DEF LoseRun, LetGo
<1>9. CASE UNCHANGED vars
  BY <1>9 DEF vars
<1>10. QED
  BY <1>1, <1>2, <1>3, <1>4, <1>5, <1>6, <1>7, <1>8, <1>9
     DEF Next, Settles, CrashBusy, SettleError

\* If no handler outlives its lease the ownership invariant holds throughout.
THEOREM OwnerInvariant ==
  ASSUME HandlersOutliveLease = FALSE
  PROVE  Spec => []OwnerInv
<1>1. Init => OwnerHoldsRow /\ StaleIsOrphan
  BY DEF Init, OwnerHoldsRow, StaleIsOrphan, Stale
<1>2. TypeOK /\ BusyHasTask /\ OwnerHoldsRow /\ StaleIsOrphan /\ [Next]_vars
        => OwnerHoldsRow' /\ StaleIsOrphan'
  BY OwnerStep DEF OwnerInv
<1>3. QED
  BY <1>1, <1>2, TypeCorrect, PTL DEF Spec, OwnerInv

\* In particular a busy worker always owns the running row of its job, on the
\* attempt it claimed, and alone.
THEOREM SingleOwner ==
  ASSUME HandlersOutliveLease = FALSE
  PROVE  Spec => []OwnerHoldsRow
<1>1. OwnerInv => OwnerHoldsRow
  BY DEF OwnerInv
<1>2. QED
  BY <1>1, OwnerInvariant, PTL

--------------------------------------------------------------------------------
\* Each step keeps the account of attempts: a failure queues the row only below
\* max_attempts, a lost run raises the allowance by one.
LEMMA AttemptsStep ==
  ASSUME OwnerInv, AttemptsLeft, AttemptsPaidFor, [Next]_vars
  PROVE  AttemptsLeft' /\ AttemptsPaidFor'
<1> USE QueueAssumption DEF OwnerInv, TypeOK, BusyHasTask, OwnerHoldsRow,
        StaleIsOrphan, AttemptsLeft, AttemptsPaidFor, Stale, Orphan, Handles,
        row, worker
<1>1. ASSUME NEW k \in Keys, Enqueue(k)
      PROVE  AttemptsLeft' /\ AttemptsPaidFor'
  <2>1. CASE Coalesce(k)
    BY <1>1, <2>1 DEF Enqueue, Coalesce
  <2>2. ASSUME NEW background \in BOOLEAN, InsertOrReset(k, background)
        PROVE  AttemptsLeft' /\ AttemptsPaidFor'
    BY <1>1, <2>2 DEF Enqueue, InsertOrReset
  <2>3. QED
    BY <1>1, <2>1, <2>2 DEF Enqueue
<1>2. ASSUME NEW k \in Keys, BackoffEnds(k) \/ LeaseExpires(k)
      PROVE  AttemptsLeft' /\ AttemptsPaidFor'
  BY <1>2 DEF BackoffEnds, LeaseExpires
<1>3. ASSUME NEW w \in Workers, NEW k \in Keys, Claim(w, k)
      PROVE  AttemptsLeft' /\ AttemptsPaidFor'
  BY <1>3 DEF Claim, Claimable
<1>4. ASSUME NEW w \in Workers, Complete(w)
      PROVE  AttemptsLeft' /\ AttemptsPaidFor'
  BY <1>4 DEF Complete, LetGo
<1>5. ASSUME NEW w \in Workers, NEW permanent \in BOOLEAN, Fail(w, permanent)
      PROVE  AttemptsLeft' /\ AttemptsPaidFor'
  BY <1>5 DEF Fail, Outcome, LetGo
<1>6. ASSUME NEW w \in Workers, Heartbeat(w) \/ CrashIdle(w)
      PROVE  AttemptsLeft' /\ AttemptsPaidFor'
  BY <1>6 DEF Heartbeat, CrashIdle
<1>7. ASSUME NEW w \in Workers, Start(w)
      PROVE  AttemptsLeft' /\ AttemptsPaidFor'
  BY <1>7 DEF Start, RecoverStale
<1>8. ASSUME NEW w \in Workers, NEW next \in {"down", "idle"}, LoseRun(w, next)
      PROVE  AttemptsLeft' /\ AttemptsPaidFor'
  BY <1>8 DEF LoseRun, LetGo
<1>9. CASE UNCHANGED vars
  BY <1>9 DEF vars
<1>10. QED
  BY <1>1, <1>2, <1>3, <1>4, <1>5, <1>6, <1>7, <1>8, <1>9
     DEF Next, Settles, CrashBusy, SettleError

\* If no handler outlives its lease, every attempt beyond max_attempts is paid
\* for by a run of that job that was lost with its worker.
THEOREM AttemptsArePaidFor ==
  ASSUME HandlersOutliveLease = FALSE
  PROVE  Spec => []AttemptsPaidFor
<1>1. Init => AttemptsLeft /\ AttemptsPaidFor
  BY QueueAssumption DEF Init, AttemptsLeft, AttemptsPaidFor
<1>2. OwnerInv /\ AttemptsLeft /\ AttemptsPaidFor /\ [Next]_vars
        => AttemptsLeft' /\ AttemptsPaidFor'
  BY AttemptsStep
<1>3. QED
  BY <1>1, <1>2, OwnerInvariant, PTL DEF Spec

--------------------------------------------------------------------------------
\* If no handler outlives its lease, a settled row changes only by an enqueue
\* that resets it.
THEOREM SettledStaysSettled ==
  ASSUME HandlersOutliveLease = FALSE
  PROVE  Spec => SettledIsFinal
<1> DEFINE Final == \A k \in Keys : status[k] \in Settled /\ status'[k] # status[k] =>
                       status'[k] = "queued" /\ attempts'[k] = 0 /\ submits' = submits + 1
<1>1. OwnerInv /\ [Next]_vars => [Final]_vars
  <2> SUFFICES ASSUME OwnerInv, Next
               PROVE  Final
    BY DEF vars
  <2> USE DEF OwnerInv, TypeOK, BusyHasTask, OwnerHoldsRow, Settled, row
  <2>1. ASSUME NEW k \in Keys, Enqueue(k)
        PROVE  Final
    <3>1. CASE Coalesce(k)
      BY <3>1 DEF Coalesce
    <3>2. ASSUME NEW background \in BOOLEAN, InsertOrReset(k, background)
          PROVE  Final
      BY <3>2 DEF InsertOrReset
    <3>3. QED
      BY <2>1, <3>1, <3>2 DEF Enqueue
  <2>2. ASSUME NEW k \in Keys, BackoffEnds(k) \/ LeaseExpires(k)
        PROVE  Final
    BY <2>2 DEF BackoffEnds, LeaseExpires
  <2>3. ASSUME NEW w \in Workers, NEW k \in Keys, Claim(w, k)
        PROVE  Final
    BY <2>3 DEF Claim, Claimable
  <2>4. ASSUME NEW w \in Workers, Complete(w)
        PROVE  Final
    BY <2>4 DEF Complete
  <2>5. ASSUME NEW w \in Workers, NEW permanent \in BOOLEAN, Fail(w, permanent)
        PROVE  Final
    BY <2>5 DEF Fail, Outcome
  <2>6. ASSUME NEW w \in Workers, Heartbeat(w) \/ CrashIdle(w)
        PROVE  Final
    BY <2>6 DEF Heartbeat, CrashIdle
  <2>7. ASSUME NEW w \in Workers, Start(w)
        PROVE  Final
    BY <2>7 DEF Start, RecoverStale, Stale
  <2>8. ASSUME NEW w \in Workers, NEW next \in {"down", "idle"}, LoseRun(w, next)
        PROVE  Final
    BY <2>8 DEF LoseRun
  <2>9. QED
    BY <2>1, <2>2, <2>3, <2>4, <2>5, <2>6, <2>7, <2>8
       DEF Next, Settles, CrashBusy, SettleError
<1>2. QED
  BY <1>1, OwnerInvariant, PTL DEF Spec, SettledIsFinal

--------------------------------------------------------------------------------
(* Refinement: each step of the queue is a step of JobContract or none.    *)

\* The mapped owner of a job is the one worker that handles it.
LEMMA OwnerIs ==
  ASSUME OwnerHoldsRow, NEW k \in Keys
  PROVE  /\ \A w \in Workers : Handles(w, k) => Owner[k] = w
         /\ (\A w \in Workers : ~Handles(w, k)) => Owner[k] = NoWorker
  BY DEF OwnerHoldsRow, Owner, Handles

\* The same of the next state.
LEMMA OwnerIsNext ==
  ASSUME OwnerHoldsRow', NEW k \in Keys
  PROVE  /\ \A w \in Workers : Handles(w, k)' => Owner'[k] = w
         /\ (\A w \in Workers : ~Handles(w, k)') => Owner'[k] = NoWorker
  BY DEF OwnerHoldsRow, Owner, Handles

\* The mapped owner is a function on the keys, before and after a step.
LEMMA OwnerIsFunction ==
  Owner = [k \in Keys |-> Owner[k]] /\ Owner' = [k \in Keys |-> Owner'[k]]
  BY DEF Owner

\* The statuses a claim moves between, as phases of the contract.
LEMMA PhaseValues ==
  /\ PhaseOf["queued"] = "pending"
  /\ PhaseOf["running"] = "working"
  BY DEF PhaseOf

\* An action that leaves the workers' hands and the statuses alone is invisible.
LEMMA Invisible ==
  ASSUME UNCHANGED <<status, task>>,
         \A w \in Workers : pc[w] = "busy" <=> pc'[w] = "busy"
  PROVE  UNCHANGED Contract!vars
<1>1. \A w \in Workers, k \in Keys : Handles(w, k)' <=> Handles(w, k)
  BY DEF Handles
<1>2. UNCHANGED Owner
  BY <1>1 DEF Owner
<1>3. UNCHANGED Phase
  BY DEF Phase
<1>4. QED
  BY <1>2, <1>3 DEF Contract!vars

\* Under ownership every action of the queue is the contract's action of the job
\* it touches, or leaves the mapped state alone.
LEMMA ContractStep ==
  ASSUME OwnerInv, OwnerInv', Next
  PROVE  Contract!Next \/ UNCHANGED Contract!vars
<1> USE DEF OwnerInv, TypeOK, BusyHasTask, row, worker
<1>1. ASSUME NEW k \in Keys, Enqueue(k)
      PROVE  Contract!Next \/ UNCHANGED Contract!vars
  <2>1. CASE Coalesce(k)
    BY <1>1, <2>1, Invisible DEF Enqueue, Coalesce
  <2>2. ASSUME NEW background \in BOOLEAN, InsertOrReset(k, background),
               status[k] \notin Active
        PROVE  Contract!Submit({k})
    <3>1. Phase[k] \in {"idle", "done", "dead"}
      BY <2>2 DEF Phase, PhaseOf, Statuses, Active
    <3>2. Phase' = [l \in Keys |-> IF l \in {k} THEN "pending" ELSE Phase[l]]
      BY <2>2 DEF Phase, PhaseOf, InsertOrReset
    <3>3. Owner' = Owner
      BY <1>1 DEF Owner, Handles, Enqueue
    <3>4. QED
      BY <3>1, <3>2, <3>3 DEF Contract!Submit
  <2>3. QED
    BY <1>1, <2>1, <2>2 DEF Enqueue, Contract!Next
<1>2. ASSUME NEW k \in Keys, BackoffEnds(k) \/ LeaseExpires(k)
      PROVE  UNCHANGED Contract!vars
  BY <1>2, Invisible DEF BackoffEnds, LeaseExpires
<1>3. ASSUME NEW w \in Workers, NEW k \in Keys, Claim(w, k)
      PROVE  Contract!Begin(k, w)
  <2>1. Phase[k] = "pending" /\ Phase' = [Phase EXCEPT ![k] = "working"]
    BY <1>3, PhaseValues DEF Claim, Claimable, Phase
  <2>2. \A l \in Keys : l # k => \A v \in Workers : Handles(v, l)' <=> Handles(v, l)
    BY <1>3 DEF Claim, Handles
  <2>3. \A l \in Keys : l # k => Owner'[l] = Owner[l]
    BY <2>2 DEF Owner
  <2>4. Owner'[k] = w
    BY <1>3, OwnerIsNext DEF Claim, Handles
  <2>5. Owner' = [Owner EXCEPT ![k] = w]
    BY <2>3, <2>4, OwnerIsFunction
  <2>6. QED
    BY <2>1, <2>5 DEF Contract!Begin
<1>4. ASSUME NEW w \in Workers, pc[w] = "busy",
             LetGo(w, "idle") \/ LetGo(w, "down")
      PROVE  Owner[task[w]] = w /\ Owner' = [Owner EXCEPT ![task[w]] = NoWorker]
  <2>1. Owner[task[w]] = w
    BY <1>4, OwnerIs DEF Handles
  <2>2. \A l \in Keys : l # task[w] =>
           \A v \in Workers : Handles(v, l)' <=> Handles(v, l)
    BY <1>4 DEF LetGo, Handles
  <2>3. \A l \in Keys : l # task[w] => Owner'[l] = Owner[l]
    BY <2>2 DEF Owner
  <2>4. \A v \in Workers : ~(pc'[v] = "busy" /\ task'[v] = task[w])
    BY <1>4 DEF LetGo, Handles, OwnerHoldsRow
  <2>5. Owner'[task[w]] = NoWorker
    BY <1>4, <2>4 DEF Owner, Handles
  <2>6. QED
    BY <1>4, <2>1, <2>3, <2>5, OwnerIsFunction
<1>5. ASSUME NEW w \in Workers, Settles(w)
      PROVE  Contract!Settle(task[w], w)
  <2>1. PICK s \in {"complete", "queued", "dead"} :
           status' = [status EXCEPT ![task[w]] = s]
    BY <1>5 DEF Settles, Complete, Fail, Outcome
  <2>2. pc[w] = "busy" /\ LetGo(w, "idle")
    BY <1>5 DEF Settles, Complete, Fail, Outcome
  <2>3. Phase[task[w]] = "working"
    BY <2>2 DEF Phase, PhaseOf, OwnerHoldsRow
  <2>4. Phase' = [Phase EXCEPT ![task[w]] = PhaseOf[s]]
    BY <2>1, <2>2 DEF Phase
  <2>5. PhaseOf[s] \in {"done", "pending", "dead"}
    BY DEF PhaseOf
  <2>6. QED
    BY <1>4, <2>2, <2>3, <2>4, <2>5 DEF Contract!Settle
<1>6. ASSUME NEW w \in Workers, Heartbeat(w) \/ CrashIdle(w)
      PROVE  UNCHANGED Contract!vars
  BY <1>6, Invisible DEF Heartbeat, CrashIdle
<1>7. ASSUME NEW w \in Workers, Start(w)
      PROVE  Contract!Next \/ UNCHANGED Contract!vars
  <2> DEFINE released == {k \in Keys : Stale(k)}
  <2>1. Owner' = Owner
    BY <1>7 DEF Start, Owner, Handles
  <2>2. released \in SUBSET {k \in Keys : Phase[k] = "working" /\ Owner[k] = NoWorker}
    BY OwnerIs DEF StaleIsOrphan, Stale, Orphan, Phase, PhaseOf
  <2>3. Phase' = [k \in Keys |-> IF k \in released THEN "pending" ELSE Phase[k]]
    BY <1>7 DEF Start, RecoverStale, Phase, PhaseOf
  <2>4. CASE released = {}
    BY <2>1, <2>3, <2>4 DEF Contract!vars, Phase
  <2>5. CASE released # {}
    BY <2>1, <2>2, <2>3, <2>5 DEF Contract!Next, Contract!Reclaim
  <2>6. QED
    BY <2>4, <2>5
<1>8. ASSUME NEW w \in Workers, NEW next \in {"down", "idle"}, LoseRun(w, next)
      PROVE  Contract!Lose(task[w], w)
  <2>1. Phase[task[w]] = "working" /\ Phase' = Phase
    BY <1>8 DEF LoseRun, Phase, PhaseOf, OwnerHoldsRow
  <2>2. QED
    BY <1>4, <1>8, <2>1 DEF LoseRun, Contract!Lose
<1>9. \A w \in Workers : Settles(w) => task[w] \in Keys
  BY DEF Settles, Complete, Fail, Outcome
<1>10. \A w \in Workers : CrashBusy(w) \/ SettleError(w) => task[w] \in Keys
  BY DEF CrashBusy, SettleError, LoseRun
<1>11. QED
  BY <1>1, <1>2, <1>3, <1>5, <1>6, <1>7, <1>8, <1>9, <1>10
     DEF Next, CrashBusy, SettleError, Contract!Next

\* If no handler outlives its lease, the jobs table and its workers implement
\* the job contract.
THEOREM QueueImplementsContract ==
  ASSUME HandlersOutliveLease = FALSE
  PROVE  Spec => ImplementsContract
<1>1. Init => Contract!Init
  BY DEF Init, Contract!Init, Phase, PhaseOf, Owner, Handles
<1>2. OwnerInv /\ OwnerInv' /\ [Next]_vars => [Contract!Next]_(Contract!vars)
  <2>1. CASE UNCHANGED vars
    BY <2>1, Invisible DEF vars, row, worker
  <2>2. QED
    BY <2>1, ContractStep
<1>3. QED
  BY <1>1, <1>2, OwnerInvariant, PTL DEF Spec, ImplementsContract, Contract!Spec
================================================================================
