------------------------- MODULE ExtractionFanInProofs -------------------------
(***************************************************************************)
(* Theorems about ExtractionFanIn for every set of units, reports and      *)
(* workers, every price list and every limit: the types; what the batch    *)
(* spends is exact and within its limit; what it counts has landed; a paid *)
(* batch leaves no unit behind; a running batch is always attended to, and *)
(* its handlers never wait in a circle; its jobs keep JobContract.         *)
(***************************************************************************)
EXTENDS ExtractionFanIn, FiniteSetTheorems, SumTheorems, TLAPS

--------------------------------------------------------------------------------
(* Type correctness.                                                       *)

\* The job table keeps its type in every step of the contract a unit takes.
LEMMA QueueTypes ==
  ASSUME Queue!TypeOK, NEW w \in Workers, NEW u \in Units,
         Queue!Begin(u, w) \/ Queue!Settle(u, w) \/ Queue!Lose(u, w)
  PROVE  Queue!TypeOK'
BY DEF Queue!TypeOK, Queue!Phases, Queue!Begin, Queue!Settle, Queue!Lose

\* Every variable keeps its type.
THEOREM TypeCorrect == Spec => []TypeOK
<1> USE FanInAssumption DEF TypeOK
<1>1. Init => TypeOK
  <2> SUFFICES ASSUME Init PROVE TypeOK
    OBVIOUS
  <2>1. Queue!TypeOK
    BY DEF Init, Queue!Init, Queue!TypeOK, Queue!Phases
  <2>2. property \in [Reports -> Properties \cup {None}]
    BY DEF Init
  <2>3. /\ computed \in [Properties -> SUBSET Units]
        /\ others \in [Workers -> SUBSET Units]
        /\ prop \in [Workers -> Properties \cup {None}]
        /\ facts \in [Units -> {"none", "loose"} \cup Properties]
    BY DEF Init
  <2>4. {total, completed, failed, spent, billed, crashes, estimates} \subseteq Nat
    BY DEF Init
  <2>5. /\ attempts \in [Units -> Nat]
        /\ unit \in [Units -> {"queued", "running", "extracted", "failed"}]
        /\ report \in [Reports -> {"classified", "extracting", "extracted",
                                   "unresolved", "failed"}]
    BY DEF Init
  <2>6. QED
    BY <2>1, <2>2, <2>3, <2>4, <2>5 DEF Init
<1>2. TypeOK /\ [Next]_vars => TypeOK'
  <2> SUFFICES ASSUME TypeOK, [Next]_vars PROVE TypeOK'
    OBVIOUS
  <2> USE DEF jobs, ledger, batchRow, local, history, Goto
  <2>1. CASE Estimate
    BY <2>1 DEF Estimate, Queue!TypeOK
  <2>2. CASE Start
    <3> DEFINE queued == {u \in Units : unit[u] = "queued"}
               asked  == {u \in queued : phase[u] \notin {"pending", "working"}}
    <3>1. total' \in Nat
      <4>1. IsFiniteSet(queued)
        BY FS_Subset
      <4>2. Cardinality(queued) \in Nat
        BY <4>1, FS_CardinalityType
      <4>3. total' = Cardinality(queued)
        BY <2>2 DEF Start
      <4>4. QED
        BY <4>2, <4>3
    <3>2. Queue!TypeOK'
      <4>1. CASE asked = {}
        BY <2>2, <4>1 DEF Start, Queue!TypeOK
      <4>2. CASE asked # {}
        BY <2>2, <4>2 DEF Start, Queue!Submit, Queue!TypeOK, Queue!Phases
      <4>3. QED
        BY <4>1, <4>2
    <3>3. attempts' \in [Units -> Nat]
      BY <2>2 DEF Start
    <3>4. report' \in [Reports -> {"classified", "extracting", "extracted",
                                   "unresolved", "failed"}]
      BY <2>2 DEF Start
    <3>5. /\ batch' = "running" /\ awaiting' = FALSE
          /\ completed' = 0 /\ failed' = 0
          /\ UNCHANGED <<unit, facts, property, spent, limit, computed, local, history>>
      BY <2>2 DEF Start
    <3>6. {total', completed', failed', spent', billed', crashes', estimates'}
            \subseteq Nat
      BY <2>2, <3>1 DEF Start
    <3>7. QED
      <4> HIDE DEF queued, asked
      <4> QED
        BY <3>1, <3>2, <3>3, <3>4, <3>5, <3>6
  <2>3. CASE Reclaim
    <3>1. Queue!TypeOK'
      BY <2>3 DEF Reclaim, Queue!Reclaim, Queue!TypeOK, Queue!Phases
    <3>2. QED
      BY <2>3, <3>1 DEF Reclaim
  <2>4. CASE UNCHANGED vars
    BY <2>4 DEF vars, Queue!TypeOK
  <2> SUFFICES ASSUME NEW w \in Workers, NEW u \in Units,
                      Take(w, u) \/ Step(w, u) \/ Crash(w, u)
               PROVE  TypeOK'
    BY <2>1, <2>2, <2>3, <2>4 DEF Next, Finished
  <2>5. CASE Take(w, u)
    BY <2>5, QueueTypes DEF Take
  <2>6. CASE Mark(w, u)
    BY <2>6 DEF Mark, Queue!TypeOK
  <2>7. CASE Check(w, u)
    BY <2>7 DEF Check, Queue!TypeOK
  <2>8. CASE Call(w, u)
    BY <2>8 DEF Call, Queue!TypeOK
  <2>9. CASE Reserve(w, u)
    BY <2>9 DEF Reserve, Queue!TypeOK
  <2>10. CASE Resolve(w, u)
    BY <2>10 DEF Resolve, Queue!TypeOK
  <2>11. CASE Lock(w, u)
    BY <2>11 DEF Lock, Queue!TypeOK
  <2>12. CASE Count(w, u)
    BY <2>12 DEF Count, Queue!TypeOK
  <2>13. CASE Commit(w, u)
    <3>1. facts' \in [Units -> {"none", "loose"} \cup Properties]
      BY <2>13 DEF Commit, FactsSeen
    <3>2. property' \in [Reports -> Properties \cup {None}]
      BY <2>13 DEF Commit
    <3>3. unit' \in [Units -> {"queued", "running", "extracted", "failed"}]
      BY <2>13 DEF Commit
    <3>4. report' \in [Reports -> {"classified", "extracting", "extracted",
                                   "unresolved", "failed"}]
      BY <2>13 DEF Commit
    <3>5. spent' \in Nat
      BY <2>13 DEF Commit, Charge
    <3>6. QED
      BY <2>13, <3>1, <3>2, <3>3, <3>4, <3>5 DEF Commit, AfterCommit, Queue!TypeOK
  <2>14. CASE Account(w, u)
    BY <2>14 DEF Account, Queue!TypeOK
  <2>15. CASE Recompute(w, u)
    BY <2>15 DEF Recompute, FactsAt, Queue!TypeOK
  <2>16. CASE Close(w, u)
    BY <2>16 DEF Close, Queue!TypeOK
  <2>17. CASE Complete(w, u) \/ Retry(w, u) \/ Crash(w, u)
    BY <2>17, QueueTypes DEF Complete, Retry, Crash, Rest
  <2>18. CASE GiveUp(w, u)
    BY <2>18, QueueTypes DEF GiveUp, Rest
  <2>19. QED
    BY <2>5, <2>6, <2>7, <2>8, <2>9, <2>10, <2>11, <2>12, <2>13, <2>14, <2>15,
       <2>16, <2>17, <2>18 DEF Step
<1>3. QED
  BY <1>1, <1>2, PTL DEF Spec
--------------------------------------------------------------------------------
(* The budget.  What keeps concurrent workers from overspending is the row *)
(* lock that a successful reservation takes and its commit releases: only  *)
(* one worker holds it, and the limit still has room for that worker's     *)
(* unit when it commits.                                                   *)

\* A worker handles one unit at a time, and none while it is idle.
OneUnit == \A w \in Workers, u \in Units : owner[u] = w =>
              /\ pc[w] # "idle"
              /\ \A v \in Units : owner[v] = w => v = u

\* One worker at most has reserved and not yet committed.
OneHolder == \A w, v \in Workers : HoldsBatch(w) /\ HoldsBatch(v) => w = v

\* What it has reserved fits.
HolderFits == \A w \in Workers, u \in Units :
                 HoldsBatch(w) /\ owner[u] = w /\ unit[u] \in Outstanding
                   => spent + Price[u] <= limit

BudgetInv == OneUnit /\ OneHolder /\ HolderFits /\ WithinLimit

Reserved == {"resolve", "lock", "count", "commit"}

\* The invariant survives any step that adds no holder and nothing to what
\* holders have reserved.
LEMMA HoldersKept ==
  ASSUME BudgetInv, OneUnit', UNCHANGED <<spent, limit>>,
         \A v \in Workers : HoldsBatch(v)' => HoldsBatch(v),
         \A v \in Workers, x \in Units :
            HoldsBatch(v)' /\ owner'[x] = v /\ unit'[x] \in Outstanding
               => owner[x] = v /\ unit[x] \in Outstanding
  PROVE  BudgetInv'
<1>1. OneHolder'
  BY DEF BudgetInv, OneHolder
<1>2. HolderFits'
  BY DEF BudgetInv, HolderFits
<1>3. QED
  BY <1>1, <1>2 DEF BudgetInv, WithinLimit

\* A handler's step keeps it unless the worker comes to hold the batch by it.
LEMMA StepKept ==
  ASSUME TypeOK, BudgetInv, NEW w \in Workers, NEW u \in Units, NEW step,
         owner[u] = w, step # "idle", Goto(w, step), UNCHANGED <<owner, spent, limit>>,
         unit' = [unit EXCEPT ![u] = unit'[u]],
         unit'[u] \in Outstanding => unit[u] \in Outstanding,
         step \in Reserved /\ unit'[u] \in Outstanding /\ Price[u] > 0 => pc[w] \in Reserved
  PROVE  BudgetInv'
<1> USE DEF TypeOK, Queue!TypeOK, Goto
<1>1. OneUnit'
  BY DEF BudgetInv, OneUnit
<1>2. ASSUME NEW x \in Units, unit'[x] \in Outstanding
      PROVE  unit[x] \in Outstanding
  BY <1>2
<1>3. ASSUME NEW v \in Workers, HoldsBatch(v)'
      PROVE  HoldsBatch(v)
  <2>1. PICK x \in Units : owner[x] = v /\ unit'[x] \in Outstanding /\ Price[x] > 0
    BY <1>3 DEF HoldsBatch
  <2>2. CASE v = w
    <3>1. x = u
      BY <2>1, <2>2 DEF BudgetInv, OneUnit
    <3>2. pc[w] \in Reserved
      BY <1>3, <2>1, <2>2, <3>1 DEF HoldsBatch, Reserved
    <3>3. QED
      BY <1>2, <2>1, <2>2, <3>2 DEF HoldsBatch, Reserved
  <2>3. CASE v # w
    BY <1>2, <1>3, <2>1, <2>3 DEF HoldsBatch
  <2>4. QED
    BY <2>2, <2>3
<1>4. QED
  BY <1>1, <1>2, <1>3, HoldersKept

\* So does the end of a handler, whatever the unit's status is then.
LEMMA EndKept ==
  ASSUME TypeOK, BudgetInv, NEW w \in Workers, NEW u \in Units,
         owner[u] = w, Goto(w, "idle"), owner' = [owner EXCEPT ![u] = None],
         UNCHANGED <<spent, limit>>,
         unit' = [unit EXCEPT ![u] = unit'[u]]
  PROVE  BudgetInv'
<1> USE FanInAssumption DEF TypeOK, Queue!TypeOK, Goto
<1>1. ASSUME NEW v \in Workers, NEW x \in Units, owner'[x] = v
      PROVE  x # u /\ v # w /\ owner[x] = v
  BY <1>1 DEF BudgetInv, OneUnit
<1>2. OneUnit'
  BY <1>1 DEF BudgetInv, OneUnit
<1>3. ASSUME NEW v \in Workers, HoldsBatch(v)'
      PROVE  HoldsBatch(v)
  BY <1>1, <1>3 DEF HoldsBatch
<1>4. ASSUME NEW v \in Workers, NEW x \in Units,
             owner'[x] = v, unit'[x] \in Outstanding
      PROVE  owner[x] = v /\ unit[x] \in Outstanding
  BY <1>1, <1>4
<1>5. QED
  BY <1>2, <1>3, <1>4, HoldersKept

LEMMA BudgetInvariant == Spec => []BudgetInv
<1> USE FanInAssumption
<1>1. Init => BudgetInv
  BY DEF Init, Queue!Init, BudgetInv, OneUnit, OneHolder, HolderFits, HoldsBatch, WithinLimit
<1>2. TypeOK /\ BudgetInv /\ [Next]_vars => BudgetInv'
  <2> SUFFICES ASSUME TypeOK, BudgetInv, [Next]_vars PROVE BudgetInv'
    OBVIOUS
  <2>a. \A u \in Units : UNCHANGED unit => unit' = [unit EXCEPT ![u] = unit'[u]]
    BY DEF TypeOK
  <2> USE DEF jobs, ledger, batchRow, local, history
  <2>1. CASE UNCHANGED <<owner, pc, unit, spent, limit>>
    BY <2>1 DEF BudgetInv, OneUnit, OneHolder, HolderFits, HoldsBatch, WithinLimit
  <2>2. CASE Estimate \/ Start \/ Reclaim \/ UNCHANGED vars
    BY <2>1, <2>2 DEF Estimate, Start, Reclaim, Queue!Submit, Queue!Reclaim, vars
  <2> SUFFICES ASSUME NEW w \in Workers, NEW u \in Units,
                      Take(w, u) \/ Step(w, u) \/ Crash(w, u)
               PROVE  BudgetInv'
    BY <2>2 DEF Next, Finished
  <2>3. CASE Take(w, u)
    <3> USE <2>3 DEF Take, Queue!Begin, Goto, TypeOK, Queue!TypeOK
    <3>1. ASSUME NEW v \in Workers, NEW x \in Units, owner'[x] = v
          PROVE  IF v = w THEN x = u ELSE owner[x] = v
      BY <3>1 DEF BudgetInv, OneUnit
    <3>2. OneUnit'
      BY <3>1 DEF BudgetInv, OneUnit
    <3>3. ASSUME NEW v \in Workers, HoldsBatch(v)'
          PROVE  v # w /\ HoldsBatch(v)
      BY <3>1, <3>3 DEF HoldsBatch
    <3>4. QED
      BY <3>1, <3>2, <3>3, HoldersKept
  <2>4. CASE Mark(w, u)
    <3>1. /\ unit' = [unit EXCEPT ![u] = unit'[u]]
          /\ unit'[u] \in Outstanding => unit[u] \in Outstanding
      BY <2>4 DEF Mark, Outstanding, TypeOK
    <3>2. owner[u] = w /\ Goto(w, "check") /\ UNCHANGED <<owner, spent, limit>>
      BY <2>4 DEF Mark, At
    <3>3. QED
      BY <3>1, <3>2, StepKept DEF Reserved
  <2>5. CASE Check(w, u)
    BY <2>5, <2>a, StepKept DEF Check, At, Reserved
  <2>6. CASE Call(w, u)
    <3>1. owner[u] = w /\ UNCHANGED <<owner, unit, spent, limit>>
      BY <2>6 DEF Call, At
    <3>2. CASE Goto(w, "reserve")
      BY <2>a, <3>1, <3>2, StepKept DEF Reserved
    <3>3. CASE Goto(w, "raise")
      BY <2>a, <3>1, <3>3, StepKept DEF Reserved
    <3>4. QED
      BY <2>6, <3>2, <3>3 DEF Call
  <2>7. CASE Resolve(w, u) \/ Lock(w, u) \/ Count(w, u)
    BY <2>7, <2>a, StepKept DEF Resolve, Lock, Count, At, Reserved
  <2>8. CASE Account(w, u) \/ Recompute(w, u) \/ Close(w, u)
    <3>1. owner[u] = w /\ UNCHANGED <<owner, unit, spent, limit>>
      BY <2>8 DEF Account, Recompute, Close, At
    <3>2. PICK step \in {"recompute", "close", "raise", "settle"} : Goto(w, step)
      BY <2>8 DEF Account, Recompute, Close
    <3>3. QED
      BY <2>a, <3>1, <3>2, StepKept DEF Reserved
  <2>9. CASE Reserve(w, u)
    <3>1. CASE Price[u] > 0 /\ ~Affordable(u)
      BY <2>9, <2>a, <3>1, StepKept DEF Reserve, At, Reserved
    <3>2. CASE ~(Price[u] > 0)
      BY <2>9, <2>a, <3>2, StepKept DEF Reserve, At, Reserved
    <3>3. CASE Price[u] > 0 /\ Affordable(u)
      <4> USE <2>9, <3>3 DEF Reserve, At, Goto, TypeOK, Queue!TypeOK
      <4>1. OneUnit'
        BY DEF BudgetInv, OneUnit
      <4>2. ASSUME NEW v \in Workers, HoldsBatch(v)'
            PROVE  v = w
        BY <4>2 DEF HoldsBatch, BatchUnlocked
      <4>3. HolderFits'
        <5> SUFFICES ASSUME NEW v \in Workers, NEW x \in Units, HoldsBatch(v)', owner[x] = v
                     PROVE  spent + Price[x] <= limit
          BY DEF HolderFits
        <5>1. x = u
          BY <4>2 DEF BudgetInv, OneUnit
        <5>2. QED
          BY <5>1 DEF Affordable
      <4>4. QED
        BY <4>1, <4>2, <4>3 DEF BudgetInv, OneHolder, WithinLimit
    <3>4. QED
      BY <3>1, <3>2, <3>3
  <2>10. CASE Commit(w, u)
    <3> USE <2>10 DEF Commit, At, Goto, TypeOK, Queue!TypeOK
    <3>1. CASE unit[u] \notin Outstanding
      BY <2>a, <3>1, StepKept DEF Charge, AfterCommit, Reserved
    <3>2. CASE unit[u] \in Outstanding /\ Price[u] = 0
      <4>1. spent' = spent
        BY <3>2 DEF Charge
      <4>2. unit' = [unit EXCEPT ![u] = unit'[u]] /\ unit'[u] = "extracted"
        BY <3>2
      <4>3. owner[u] = w /\ Goto(w, "account") /\ UNCHANGED <<owner, limit>>
        BY <3>2 DEF AfterCommit
      <4>4. "extracted" \notin Outstanding /\ "account" \notin Reserved
        BY DEF Outstanding, Reserved
      <4>5. QED
        <5> HIDE <2>10 DEF Commit, At, Goto, TypeOK, Queue!TypeOK
        <5> QED
          BY <4>1, <4>2, <4>3, <4>4, StepKept
    <3>3. CASE unit[u] \in Outstanding /\ Price[u] > 0
      <4>1. HoldsBatch(w)
        BY <3>3 DEF HoldsBatch
      <4>2. WithinLimit'
        BY <3>3, <4>1 DEF BudgetInv, HolderFits, WithinLimit, Charge
      <4>3. OneUnit'
        BY DEF BudgetInv, OneUnit, AfterCommit
      <4>4. ASSUME NEW v \in Workers, HoldsBatch(v)'
            PROVE  FALSE
        <5>1. v # w
          BY <4>4 DEF HoldsBatch, AfterCommit
        <5>2. HoldsBatch(v)
          BY <4>4, <5>1 DEF HoldsBatch, Outstanding
        <5>3. QED
          BY <4>1, <5>1, <5>2 DEF BudgetInv, OneHolder
      <4>5. QED
        BY <4>2, <4>3, <4>4 DEF BudgetInv, OneHolder, HolderFits
    <3>4. QED
      BY <3>1, <3>2, <3>3
  <2>11. CASE Complete(w, u) \/ Retry(w, u) \/ Crash(w, u)
    <3>1. owner[u] = w /\ Goto(w, "idle") /\ owner' = [owner EXCEPT ![u] = None]
      BY <2>11 DEF Complete, Retry, Crash, Rest, Queue!Settle, Queue!Lose
    <3>2. UNCHANGED <<unit, spent, limit>>
      BY <2>11 DEF Complete, Retry, Crash
    <3>3. QED
      BY <2>a, <3>1, <3>2, EndKept
  <2>12. CASE GiveUp(w, u)
    <3>1. owner[u] = w /\ Goto(w, "idle") /\ owner' = [owner EXCEPT ![u] = None]
      BY <2>12 DEF GiveUp, Rest, Queue!Settle
    <3>2. UNCHANGED <<spent, limit>>
      BY <2>12 DEF GiveUp
    <3>3. unit' = [unit EXCEPT ![u] = unit'[u]]
      BY <2>12 DEF GiveUp, TypeOK
    <3>4. QED
      BY <3>1, <3>2, <3>3, EndKept
  <2>13. QED
    BY <2>3, <2>4, <2>5, <2>6, <2>7, <2>8, <2>9, <2>10, <2>11, <2>12 DEF Step
<1>3. QED
  BY <1>1, <1>2, TypeCorrect, PTL DEF Spec

\* "Concurrent reservations never take the batch over its limit", whatever the
\* units cost and however many workers there are.
THEOREM SpendStaysWithinLimit == Spec => []WithinLimit
<1>1. BudgetInv => WithinLimit
  BY DEF BudgetInv
<1>2. QED
  BY <1>1, BudgetInvariant, PTL
--------------------------------------------------------------------------------
(* What a unit's job, its status and its facts say of each other.          *)

UnitInv ==
  \A u \in Units :
    /\ unit[u] \in Outstanding => facts[u] = "none"
    /\ unit[u] = "extracted" => facts[u] # "none"
    /\ unit[u] = "failed" <=> phase[u] = "dead"
    /\ phase[u] = "done" => unit[u] = "extracted"
    /\ owner[u] # None => phase[u] = "working"
    /\ \A w \in Workers : owner[u] = w =>
         /\ pc[w] = "commit" => u \notin others[w]
         /\ pc[w] \in {"account", "recompute", "close", "settle"} => unit[u] = "extracted"

LEMMA UnitInvariant == Spec => []UnitInv
<1> USE FanInAssumption DEF Outstanding
<1>1. Init => UnitInv
  BY DEF Init, Queue!Init, UnitInv
<1>2. TypeOK /\ BudgetInv /\ UnitInv /\ [Next]_vars => UnitInv'
  <2> SUFFICES ASSUME TypeOK, BudgetInv, UnitInv, [Next]_vars PROVE UnitInv'
    OBVIOUS
  <2> USE DEF jobs, ledger, batchRow, local, history, TypeOK, Queue!TypeOK, Queue!Phases
  <2>1. CASE Estimate \/ UNCHANGED vars
    BY <2>1 DEF Estimate, vars, UnitInv
  <2>2. CASE Start
    <3>1. UNCHANGED <<owner, unit, facts, local>>
      BY <2>2 DEF Start, Queue!Submit
    <3>2. \A u \in Units : \/ phase'[u] = phase[u]
                           \/ unit[u] = "queued" /\ phase[u] # "working" /\ phase'[u] = "pending"
      BY <2>2 DEF Start, Queue!Submit
    <3>3. QED
      BY <3>1, <3>2 DEF UnitInv
  <2>3. CASE Reclaim
    <3>1. UNCHANGED <<owner, unit, facts, local>>
      BY <2>3 DEF Reclaim, Queue!Reclaim
    <3>2. \A u \in Units : \/ phase'[u] = phase[u]
                           \/ owner[u] = None /\ phase[u] = "working" /\ phase'[u] = "pending"
      BY <2>3 DEF Reclaim, Queue!Reclaim
    <3>3. QED
      BY <3>1, <3>2 DEF UnitInv
  <2> SUFFICES ASSUME NEW w \in Workers, NEW u \in Units,
                      Take(w, u) \/ Step(w, u) \/ Crash(w, u)
               PROVE  UnitInv'
    BY <2>1, <2>2, <2>3 DEF Next, Finished
  <2>o. \A x \in Units, v \in Workers : owner[u] = w /\ owner[x] = v /\ x # u => v # w
    BY DEF BudgetInv, OneUnit
  <2>4. CASE Take(w, u)
    BY <2>4 DEF Take, Queue!Begin, Goto, UnitInv, BudgetInv, OneUnit
  <2>5. CASE Mark(w, u)
    BY <2>5, <2>o DEF Mark, At, Goto, UnitInv
  <2>6. CASE Check(w, u) \/ Call(w, u) \/ Reserve(w, u) \/ Resolve(w, u) \/ Lock(w, u)
    <3>1. owner[u] = w /\ UNCHANGED <<jobs, unit, facts, others>>
      BY <2>6 DEF Check, Call, Reserve, Resolve, Lock, At
    <3>2. PICK step \in {"resolve", "raise", "call", "reserve", "lock", "count"} : Goto(w, step)
      BY <2>6 DEF Check, Call, Reserve, Resolve, Lock
    <3>3. QED
      BY <2>o, <3>1, <3>2 DEF Goto, UnitInv
  <2>7. CASE Count(w, u)
    BY <2>7, <2>o DEF Count, At, Goto, UnitInv
  <2>8. CASE Commit(w, u)
    <3> DEFINE r == ReportOf[u]
               extracts == unit[u] \in Outstanding
    <3>1. u \notin others[w] /\ u \in UnitsOf(r) /\ unit[u] # "failed"
      BY <2>8 DEF Commit, At, UnitsOf, UnitInv
    <3>2. facts'[u] = FactsSeen(w, u, extracts)
      BY <2>8, <3>1 DEF Commit
    <3>3. facts'[u] # "none"
      BY <3>1, <3>2 DEF FactsSeen, UnitInv
    <3>4. \A x \in Units \ {u} : facts'[x] = "none" <=> facts[x] = "none"
      BY <2>8 DEF Commit, FactsSeen
    <3>5. /\ owner[u] = w /\ UNCHANGED <<jobs, others>> /\ unit'[u] = "extracted"
          /\ \A x \in Units \ {u} : unit'[x] = unit[x]
          /\ Goto(w, "account") \/ Goto(w, "recompute")
      BY <2>8, <3>1 DEF Commit, At, AfterCommit
    <3>6. QED
      BY <2>o, <3>3, <3>4, <3>5 DEF Goto, UnitInv
  <2>9. CASE Account(w, u) \/ Recompute(w, u) \/ Close(w, u)
    <3>1. /\ owner[u] = w /\ UNCHANGED <<jobs, unit, facts, others>>
          /\ pc[w] \in {"account", "recompute", "close"}
      BY <2>9 DEF Account, Recompute, Close, At
    <3>2. PICK step \in {"recompute", "close", "raise", "settle"} : Goto(w, step)
      BY <2>9 DEF Account, Recompute, Close
    <3>3. QED
      BY <2>o, <3>1, <3>2 DEF Goto, UnitInv
  <2>10. CASE Complete(w, u) \/ Retry(w, u) \/ Crash(w, u)
    BY <2>10, <2>o DEF Complete, Retry, Crash, Rest, At, Goto, Queue!Settle, Queue!Lose, UnitInv
  <2>11. CASE GiveUp(w, u)
    BY <2>11, <2>o DEF GiveUp, Rest, At, Goto, Queue!Settle, UnitInv
  <2>12. QED
    BY <2>4, <2>5, <2>6, <2>7, <2>8, <2>9, <2>10, <2>11 DEF Step
<1>3. QED
  BY <1>1, <1>2, TypeCorrect, BudgetInvariant, PTL DEF Spec
--------------------------------------------------------------------------------
(* The spend.  A unit is charged for by the commit that brings its facts,  *)
(* so what is spent is the sum over the units that have facts.             *)

WithFacts == {u \in Units : facts[u] # "none"}

\* Only a commit gives a unit facts, its own, the first time.
LEMMA FactsStay ==
  ASSUME TypeOK, UnitInv, [Next]_vars,
         \A w \in Workers, u \in Units : ~(Commit(w, u) /\ unit[u] \in Outstanding)
  PROVE  WithFacts' = WithFacts /\ spent' = spent
<1> USE DEF jobs, ledger, batchRow, local, history, WithFacts
<1>1. CASE UNCHANGED <<facts, spent>>
  BY <1>1
<1>2. CASE Estimate \/ Start \/ Reclaim \/ UNCHANGED vars
  BY <1>1, <1>2 DEF Estimate, Start, Reclaim, vars
<1> SUFFICES ASSUME NEW w \in Workers, NEW u \in Units,
                    Take(w, u) \/ Step(w, u) \/ Crash(w, u)
             PROVE  WithFacts' = WithFacts /\ spent' = spent
  BY <1>2 DEF Next, Finished
<1>3. CASE Commit(w, u)
  <2>1. unit[u] \notin Outstanding
    BY <1>3
  <2>2. spent' = spent
    BY <1>3, <2>1 DEF Commit, Charge
  <2>3. \A x \in Units : facts'[x] # "none" <=> facts[x] # "none"
    BY <1>3, <2>1, FanInAssumption DEF Commit, FactsSeen, TypeOK
  <2> QED
    BY <2>2, <2>3
<1>4. CASE ~Commit(w, u)
  BY <1>1, <1>4 DEF Take, Step, Crash, Mark, Check, Call, Reserve, Resolve, Lock, Count,
                    Account, Recompute, Close, Complete, Retry, GiveUp
<1> QED
  BY <1>3, <1>4

\* "The batch has spent exactly what its extracted units cost", for every price
\* list: no crash, retry or concurrent worker charges a unit twice or not at all.
THEOREM SpendIsAlwaysExact == Spec => []SpendIsExact
<1> USE FanInAssumption
<1>1. /\ SpendIsExact <=> spent = SumFunctionOnSet(Price, WithFacts)
      /\ SpendIsExact' <=> spent' = SumFunctionOnSet(Price, WithFacts')
  <2>1. SpendIsExact <=> spent = SumFunctionOnSet(Price, WithFacts)
    BY DEF SpendIsExact, WithFacts, MapThenSumSet, SumFunctionOnSet, FoldFunctionOnSet,
           MapThenFoldSet
  <2>2. SpendIsExact' <=> spent' = SumFunctionOnSet(Price, WithFacts')
    BY DEF SpendIsExact, WithFacts, MapThenSumSet, SumFunctionOnSet, FoldFunctionOnSet,
           MapThenFoldSet
  <2> QED
    BY <2>1, <2>2
<1>2. Init => SpendIsExact
  <2> SUFFICES ASSUME Init PROVE spent = SumFunctionOnSet(Price, WithFacts)
    BY <1>1
  <2>1. WithFacts = {} /\ spent = 0
    BY DEF Init, WithFacts
  <2> QED
    BY <2>1, SumEmpty
<1>3. TypeOK /\ UnitInv /\ SpendIsExact /\ [Next]_vars => SpendIsExact'
  <2> SUFFICES ASSUME TypeOK, UnitInv, SpendIsExact, [Next]_vars PROVE SpendIsExact'
    OBVIOUS
  <2>1. CASE \A w \in Workers, u \in Units : ~(Commit(w, u) /\ unit[u] \in Outstanding)
    BY <1>1, <2>1, FactsStay
  <2>2. ASSUME NEW w \in Workers, NEW u \in Units, Commit(w, u), unit[u] \in Outstanding
        PROVE  SpendIsExact'
    <3>1. u \notin WithFacts /\ u \notin others[w]
      BY <2>2 DEF WithFacts, UnitInv, Commit, At
    <3>2. facts'[u] # "none"
      BY <2>2, <3>1 DEF Commit, FactsSeen, UnitsOf, TypeOK
    <3>3. \A x \in Units \ {u} : facts'[x] # "none" <=> facts[x] # "none"
      BY <2>2 DEF Commit, FactsSeen, TypeOK
    <3>4. WithFacts' = WithFacts \cup {u}
      BY <3>2, <3>3 DEF WithFacts
    <3>5. spent' = spent + Price[u]
      BY <2>2 DEF Commit, Charge
    <3>6. \A x \in Units : Price[x] \in Int
      OBVIOUS
    <3>7. WithFacts \in SUBSET Units
      BY DEF WithFacts
    <3>8. SumFunctionOnSet(Price, WithFacts \cup {u})
            = SumFunctionOnSet(Price, WithFacts) + Price[u]
      BY <3>1, <3>6, <3>7, SumAdd
    <3> QED
      BY <1>1, <3>4, <3>5, <3>8
  <2> QED
    BY <2>1, <2>2
<1> QED
  BY <1>2, <1>3, TypeCorrect, UnitInvariant, PTL DEF Spec
--------------------------------------------------------------------------------
(* The counters.  A unit has landed once it is extracted or failed and the *)
(* worker that extracted it, if it is still there, has accounted for it.   *)
(* The counters never exceed the number of landed units, so they reach the *)
(* total only when every unit has landed.                                  *)

Fresh == \A u \in Units : unit[u] = "queued" /\ phase[u] = "idle" /\ owner[u] = None

\* Before the one start nothing has happened to any unit.
StartInv ==
  /\ estimates = 0 => ~awaiting
  /\ StartedOnce /\ (estimates = 0 \/ awaiting)
       => Fresh /\ batch \notin {"computing", "complete"}

LEMMA StartInvariant == Spec => []StartInv
<1> USE FanInAssumption DEF Fresh, StartedOnce
<1>1. Init => StartInv
  BY DEF Init, Queue!Init, StartInv
<1>2. TypeOK /\ StartInv /\ [Next]_vars => StartInv'
  <2> SUFFICES ASSUME TypeOK, StartInv, [Next]_vars PROVE StartInv'
    OBVIOUS
  <2> USE DEF StartInv, TypeOK, jobs, ledger, batchRow, local, history
  <2>1. CASE Estimate
    BY <2>1 DEF Estimate
  <2>2. CASE Start
    BY <2>2 DEF Start
  <2>3. CASE Reclaim
    BY <2>3 DEF Reclaim, Queue!Reclaim
  <2>4. CASE UNCHANGED vars
    BY <2>4 DEF vars
  <2> SUFFICES ASSUME NEW w \in Workers, NEW u \in Units,
                      Take(w, u) \/ Step(w, u) \/ Crash(w, u)
               PROVE  StartInv'
    BY <2>1, <2>2, <2>3, <2>4 DEF Next, Finished
  <2>5. phase[u] = "pending" \/ owner[u] = w
    BY DEF Take, Step, Crash, Queue!Begin, Queue!Lose, Mark, Check, Call, Reserve, Resolve,
           Lock, Count, Commit, Account, Recompute, Close, Complete, Retry, GiveUp, At,
           Queue!Settle
  <2>6. ~Fresh /\ UNCHANGED <<awaiting, estimates>>
    BY <2>5 DEF Take, Step, Crash, Mark, Check, Call, Reserve, Resolve, Lock, Count, Commit,
                Account, Recompute, Close, Complete, Retry, GiveUp
  <2>7. QED
    BY <2>6
<1>3. QED
  BY <1>1, <1>2, TypeCorrect, PTL DEF Spec

\* What a step may do to a unit.
LEMMA UnitMoves ==
  ASSUME TypeOK, UnitInv, [Next]_vars, NEW u \in Units
  PROVE  /\ facts[u] # "none" => facts'[u] # "none"
         /\ unit[u] = "failed" => unit'[u] = "failed"
         /\ unit[u] \notin Outstanding => unit'[u] \notin Outstanding
<1> USE FanInAssumption DEF TypeOK, jobs, ledger, batchRow, local, history, Outstanding
<1>1. CASE UNCHANGED <<facts, unit>>
  BY <1>1
<1>2. CASE Estimate \/ Start \/ Reclaim \/ UNCHANGED vars
  BY <1>1, <1>2 DEF Estimate, Start, Reclaim, vars
<1> SUFFICES ASSUME NEW w \in Workers, NEW v \in Units,
                    Take(w, v) \/ Step(w, v) \/ Crash(w, v)
             PROVE  /\ facts[u] # "none" => facts'[u] # "none"
                    /\ unit[u] = "failed" => unit'[u] = "failed"
                    /\ unit[u] \notin Outstanding => unit'[u] \notin Outstanding
  BY <1>2 DEF Next, Finished
<1>3. CASE Mark(w, v)
  BY <1>3 DEF Mark
<1>4. CASE Commit(w, v)
  <2>1. unit[v] # "failed"
    BY <1>4 DEF Commit, At, UnitInv
  <2>2. facts[u] # "none" => facts'[u] # "none"
    BY <1>4 DEF Commit, FactsSeen
  <2>3. unit' = [unit EXCEPT ![v] = IF unit[v] \in Outstanding THEN "extracted" ELSE @]
    BY <1>4 DEF Commit
  <2>4. QED
    BY <2>1, <2>2, <2>3
<1>5. CASE GiveUp(w, v)
  BY <1>5 DEF GiveUp
<1>6. CASE ~Mark(w, v) /\ ~Commit(w, v) /\ ~GiveUp(w, v)
  BY <1>1, <1>6 DEF Take, Step, Crash, Check, Call, Reserve, Resolve, Lock, Count,
                    Account, Recompute, Close, Complete, Retry
<1>7. QED
  BY <1>3, <1>4, <1>5, <1>6

Landed == {u \in Units : /\ unit[u] \notin Outstanding
                         /\ \A w \in Workers : owner[u] = w => pc[w] # "account"}

CountInv ==
  StartedOnce /\ FailedUnextracted /\ estimates # 0 /\ ~awaiting
    => /\ total = Cardinality(Units)
       /\ completed + failed <= Cardinality(Landed)
       /\ batch \in {"computing", "complete"} => \A u \in Units : unit[u] \notin Outstanding

\* A step that makes no unit less landed and does not touch the counters.
LEMMA CountKept ==
  ASSUME TypeOK, TypeOK', UnitInv, CountInv, [Next]_vars, Landed \subseteq Landed',
         UNCHANGED <<total, awaiting, estimates>>, completed' + failed' = completed + failed,
         batch' \in {"computing", "complete"} => batch \in {"computing", "complete"}
  PROVE  CountInv'
<1> SUFFICES ASSUME StartedOnce', FailedUnextracted', estimates' # 0, ~awaiting'
             PROVE  /\ total' = Cardinality(Units)
                    /\ completed' + failed' <= Cardinality(Landed')
                    /\ batch' \in {"computing", "complete"}
                         => \A u \in Units : unit'[u] \notin Outstanding
  BY DEF CountInv
<1>1. StartedOnce /\ FailedUnextracted /\ estimates # 0 /\ ~awaiting
  BY UnitMoves DEF StartedOnce, FailedUnextracted
<1>2. Cardinality(Landed) <= Cardinality(Landed')
  <2>1. IsFiniteSet(Landed')
    BY FanInAssumption, FS_Subset DEF Landed
  <2>2. QED
    BY <2>1, FS_Subset
<1>3. Cardinality(Landed) \in Nat /\ Cardinality(Landed') \in Nat
  BY FanInAssumption, FS_Subset, FS_CardinalityType DEF Landed
<1>4. completed + failed \in Nat /\ completed' + failed' \in Nat
  BY DEF TypeOK
<1>5. QED
  BY <1>1, <1>2, <1>3, <1>4, UnitMoves DEF CountInv

\* "A batch that is computing or complete has no unit left to extract", for any
\* number of units and workers, whatever crashes and retries, as long as it was
\* started once and no extracted unit was given up.
THEOREM CountedUnitsHaveLanded == Spec => []CountedUnitsLanded
<1> USE FanInAssumption
<1>1. Init => CountInv
  BY DEF Init, CountInv
<1>2. /\ TypeOK /\ TypeOK' /\ BudgetInv /\ BudgetInv' /\ UnitInv /\ UnitInv' /\ StartInv
      /\ CountInv /\ [Next]_vars
      => CountInv'
  <2> SUFFICES ASSUME TypeOK, TypeOK', BudgetInv, BudgetInv', UnitInv, UnitInv', StartInv,
                      CountInv, [Next]_vars
               PROVE  CountInv'
    OBVIOUS
  <2> USE DEF jobs, ledger, batchRow, local, history
  <2>1. CASE UNCHANGED <<owner, unit, pc>> /\ UNCHANGED <<awaiting, estimates, batchRow>>
    BY <2>1, CountKept DEF Landed
  <2>2. CASE Reclaim \/ UNCHANGED vars
    BY <2>1, <2>2 DEF Reclaim, Queue!Reclaim, vars
  <2>3. CASE Estimate
    BY <2>3 DEF Estimate, CountInv
  <2>4. CASE Start
    <3> SUFFICES ASSUME StartedOnce'
                 PROVE  /\ total' = Cardinality(Units)
                        /\ completed' + failed' <= Cardinality(Landed')
      BY <2>4 DEF CountInv, Start
    <3>1. Fresh
      BY <2>4 DEF Start, StartInv, StartedOnce
    <3>2. {u \in Units : unit[u] = "queued"} = Units
      BY <3>1 DEF Fresh
    <3>3. Cardinality(Landed') \in Nat
      BY FS_Subset, FS_CardinalityType DEF Landed
    <3>4. total' = Cardinality(Units)
      BY <2>4, <3>2 DEF Start
    <3>5. completed' = 0 /\ failed' = 0
      BY <2>4 DEF Start
    <3>6. QED
      BY <3>3, <3>4, <3>5
  <2> SUFFICES ASSUME NEW w \in Workers, NEW u \in Units,
                      Take(w, u) \/ Step(w, u) \/ Crash(w, u)
               PROVE  CountInv'
    BY <2>2, <2>3, <2>4 DEF Next, Finished
  <2>5. ASSUME \A v \in Units, x \in Workers :
                  owner'[v] = x /\ pc'[x] = "account" => owner[v] = x /\ pc[x] = "account"
        PROVE  Landed \subseteq Landed'
    BY <2>5, UnitMoves DEF Landed
  <2> USE DEF TypeOK, Queue!TypeOK
  <2>6. CASE Take(w, u)
    <3>1. Landed \subseteq Landed'
      BY <2>5, <2>6 DEF Take, Queue!Begin, Goto
    <3>2. QED
      BY <2>6, <3>1, CountKept DEF Take
  <2>7. CASE \/ Mark(w, u) \/ Check(w, u) \/ Call(w, u) \/ Reserve(w, u) \/ Resolve(w, u)
             \/ Lock(w, u) \/ Count(w, u) \/ Recompute(w, u)
    <3>1. Landed \subseteq Landed'
      BY <2>5, <2>7 DEF Mark, Check, Call, Reserve, Resolve, Lock, Count, Recompute, Goto
    <3>2. /\ UNCHANGED <<total, awaiting, estimates, completed, failed>>
          /\ batch' = batch \/ batch' = "paused_budget"
      BY <2>7 DEF Mark, Check, Call, Reserve, Resolve, Lock, Count, Recompute
    <3>3. QED
      BY <3>1, <3>2, CountKept
  <2>8. CASE Commit(w, u)
    <3>1. ASSUME NEW v \in Landed
          PROVE  v \in Landed'
      <4>1. unit'[v] \notin Outstanding
        BY UnitMoves DEF Landed
      <4>2. CASE v = u
        BY <2>8, <4>1, <4>2 DEF Commit, At, AfterCommit, Goto, Landed, BudgetInv, OneUnit
      <4>3. CASE v # u
        <5>1. owner[v] # w
          BY <2>8, <4>3 DEF Commit, At, BudgetInv, OneUnit, Landed
        <5>2. QED
          BY <2>8, <4>1, <5>1 DEF Commit, Goto, Landed
      <4>4. QED
        BY <4>2, <4>3
    <3>2. QED
      BY <2>8, <3>1, CountKept DEF Commit
  <2>9. CASE Close(w, u)
    <3>1. Landed \subseteq Landed'
      BY <2>5, <2>9 DEF Close, Goto
    <3>2. QED
      BY <2>9, <3>1, CountKept DEF Close
  <2>10. CASE Complete(w, u) \/ Retry(w, u) \/ Crash(w, u)
    <3>1. Landed \subseteq Landed'
      BY <2>5, <2>10 DEF Complete, Retry, Crash, Rest, Goto, Queue!Settle, Queue!Lose
    <3>2. UNCHANGED <<total, awaiting, estimates, completed, failed, batch>>
      BY <2>10 DEF Complete, Retry, Crash
    <3>3. QED
      BY <3>1, <3>2, CountKept
  <2> DEFINE S == Landed
             n == Cardinality(Units)
  <2>11. ASSUME u \notin S, S \cup {u} \subseteq Landed'
         PROVE  /\ Cardinality(S) + 1 <= Cardinality(Landed')
                /\ Cardinality(S) \in Nat /\ Cardinality(Landed') \in Nat /\ n \in Nat
                /\ Cardinality(S) + 1 <= n
                /\ Cardinality(S) + 1 >= n => S \cup {u} = Units
    <3>1. IsFiniteSet(S) /\ IsFiniteSet(Landed') /\ S \cup {u} \subseteq Units
      BY FS_Subset DEF Landed
    <3>2. Cardinality(S \cup {u}) = Cardinality(S) + 1
      BY <2>11, <3>1, FS_AddElement
    <3>3. Cardinality(S \cup {u}) <= Cardinality(Landed')
      BY <2>11, <3>1, FS_Subset
    <3>4. /\ Cardinality(S \cup {u}) <= n
          /\ Cardinality(S \cup {u}) = n => S \cup {u} = Units
      BY <3>1, FS_Subset
    <3>5. Cardinality(S) \in Nat /\ Cardinality(Landed') \in Nat /\ n \in Nat
      BY <3>1, FS_CardinalityType
    <3>6. QED
      BY <3>2, <3>3, <3>4, <3>5
  <2>12. CASE Account(w, u)
    <3> SUFFICES ASSUME StartedOnce', FailedUnextracted', estimates' # 0, ~awaiting'
                 PROVE  /\ total' = n
                        /\ completed' + failed' <= Cardinality(Landed')
                        /\ batch' \in {"computing", "complete"}
                             => \A v \in Units : unit'[v] \notin Outstanding
      BY DEF CountInv
    <3>1. /\ total = n /\ completed + failed <= Cardinality(S)
          /\ batch \in {"computing", "complete"} => \A v \in Units : unit[v] \notin Outstanding
      BY <2>12 DEF Account, CountInv, StartedOnce, FailedUnextracted
    <3>2. u \notin S /\ unit[u] \notin Outstanding
      BY <2>12 DEF Account, At, Landed, UnitInv, Outstanding
    <3>3. S \cup {u} \subseteq Landed'
      <4>1. ASSUME NEW v \in Units, NEW x \in Workers,
                   owner'[v] = x, pc'[x] = "account"
            PROVE  v # u /\ owner[v] = x /\ pc[x] = "account"
        BY <2>12, <4>1 DEF Account, At, Goto
      <4>2. QED
        BY <2>12, <3>2, <4>1 DEF Account, Landed
    <3>4. /\ completed' + failed' = completed + failed + 1
          /\ total' = total /\ unit' = unit
          /\ batch' = batch \/ AllLanded(completed + failed + 1)
      BY <2>12 DEF Account
    <3>5. AllLanded(completed + failed + 1) => S \cup {u} = Units
      BY <2>11, <3>1, <3>2, <3>3 DEF AllLanded
    <3>6. \A v \in S \cup {u} : unit[v] \notin Outstanding
      BY <3>2 DEF Landed
    <3> HIDE DEF n, S
    <3>7. completed' + failed' <= Cardinality(Landed')
      BY <2>11, <3>1, <3>2, <3>3, <3>4
    <3>8. QED
      BY <3>1, <3>4, <3>5, <3>6, <3>7
  <2>13. CASE GiveUp(w, u)
    <3> SUFFICES ASSUME StartedOnce', FailedUnextracted', estimates' # 0, ~awaiting'
                 PROVE  /\ total' = n
                        /\ completed' + failed' <= Cardinality(Landed')
      BY <2>13 DEF CountInv, GiveUp
    <3>1. total = n /\ completed + failed <= Cardinality(S)
      BY <2>13, UnitMoves DEF GiveUp, CountInv, StartedOnce, FailedUnextracted
    <3>2. unit[u] \in Outstanding
      <4>1. unit'[u] = "failed" /\ facts'[u] = facts[u]
        BY <2>13 DEF GiveUp
      <4>2. unit[u] # "extracted"
        BY <4>1 DEF UnitInv, FailedUnextracted
      <4>3. unit[u] # "failed"
        BY <2>13 DEF GiveUp, Queue!Settle, UnitInv
      <4>4. QED
        BY <4>2, <4>3 DEF Outstanding
    <3>3. u \notin S /\ S \cup {u} \subseteq Landed'
      <4>1. ASSUME NEW v \in Units, NEW x \in Workers,
                   owner'[v] = x, pc'[x] = "account"
            PROVE  v # u /\ owner[v] = x /\ pc[x] = "account"
        BY <2>13, <4>1 DEF GiveUp, Rest, Goto, Queue!Settle, At
      <4>2. unit'[u] \notin Outstanding
        BY <2>13 DEF GiveUp, Outstanding
      <4>3. QED
        BY <3>2, <4>1, <4>2, UnitMoves DEF Landed
    <3>4. completed' + failed' = completed + failed + 1 /\ total' = total
      <4>1. completed' = completed /\ failed' = failed + 1 /\ total' = total
        BY <2>13, <3>2 DEF GiveUp, Outstanding
      <4>2. QED
        BY <4>1
    <3> HIDE DEF n, S
    <3>5. QED
      BY <2>11, <3>1, <3>3, <3>4
  <2>14. QED
    BY <2>6, <2>7, <2>8, <2>9, <2>10, <2>12, <2>13 DEF Step
<1>3. StartInv /\ CountInv => CountedUnitsLanded
  BY DEF CountInv, CountedUnitsLanded, StartInv, StartedOnce, Fresh
<1>4. QED
  BY <1>1, <1>2, <1>3, TypeCorrect, BudgetInvariant, UnitInvariant, StartInvariant, PTL DEF Spec
--------------------------------------------------------------------------------
(* The fan-in, when every unit costs something.  Then the row lock of the  *)
(* batch makes the end of an extraction, from its reservation to its       *)
(* commit, one atomic step for all other extractions: what a handler has   *)
(* resolved and counted is still true when it commits.  A retry of an      *)
(* extracted unit takes no such lock and must find everything in place.    *)

Paid == \A u \in Units : Price[u] > 0

Extracting(w, u) == owner[u] = w /\ unit[u] \in Outstanding /\ pc[w] \in Reserved

\* The outstanding units that finish_unit counts for the property it has resolved.
CountedBy(w, u) == {v \in Units \ {u} :
                      /\ unit[v] \in Outstanding
                      /\ \/ ReportOf[v] = ReportOf[u]
                         \/ prop[w] # None /\ property[ReportOf[v]] = prop[w]}

\* What a handler has resolved and counted holds until it has used it.
Informed(w, u) ==
  LET p == property[ReportOf[u]] IN
  /\ pc[w] = "lock" => prop[w] # None
  /\ prop[w] # None => p = prop[w] \/ (p = None /\ unit[u] \in Outstanding)
  /\ unit[u] \in Outstanding =>
       /\ prop[w] = None => p = None /\ u \notin Locating
       /\ pc[w] = "commit" => others[w] = CountedBy(w, u)

HasResolved == {"lock", "count", "commit", "account", "recompute"}

HandlerInv == \A w \in Workers, u \in Units :
                 owner[u] = w /\ pc[w] \in HasResolved => Informed(w, u)

\* Facts are where their report is: loose while it has no property (and then
\* none of them tells its address), at its property otherwise.
FactsInv ==
  \A u \in Units : LET p == property[ReportOf[u]] IN
     IF p = None THEN facts[u] = "none" \/ (facts[u] = "loose" /\ u \notin Locating)
     ELSE facts[u] \in {"none", p}

PlaceInv == HandlerInv /\ FactsInv

LEMMA OneExtracts ==
  ASSUME Paid, BudgetInv, TypeOK, NEW w \in Workers, NEW u \in Units, Extracting(w, u)
  PROVE  /\ ~BatchUnlocked
         /\ \A x \in Workers, v \in Units : Extracting(x, v) => x = w /\ v = u
<1>1. \A x \in Workers, v \in Units : Extracting(x, v) => HoldsBatch(x)
  BY DEF Paid, Extracting, HoldsBatch, Reserved
<1>2. \A x \in Workers, v \in Units : Extracting(x, v) => x = w
  BY <1>1 DEF BudgetInv, OneHolder
<1>3. QED
  BY <1>1, <1>2 DEF BatchUnlocked, BudgetInv, OneUnit, Extracting

\* A handler stays informed while nothing it has read changes.
LEMMA StaysInformed ==
  ASSUME NEW w \in Workers, NEW u \in Units, Informed(w, u),
         UNCHANGED property, prop'[w] = prop[w], others'[w] = others[w],
         pc'[w] = pc[w] \/ pc'[w] \in {"account", "recompute"},
         \A x \in Units : unit'[x] \in Outstanding <=> unit[x] \in Outstanding
  PROVE  Informed(w, u)'
<1>1. CountedBy(w, u)' = CountedBy(w, u)
  BY DEF CountedBy
<1>2. QED
  BY <1>1 DEF Informed

\* A step that changes no report's property and no unit's state keeps the
\* invariant if its own worker stays informed.
LEMMA PlaceKept ==
  ASSUME TypeOK, BudgetInv, PlaceInv, UNCHANGED <<facts, property>>,
         NEW w \in Workers, NEW u \in Units,
         \A x \in Units : unit'[x] \in Outstanding <=> unit[x] \in Outstanding,
         \A x \in Units : x # u => owner'[x] = owner[x] /\ owner[x] # w,
         owner'[u] \in {w, None},
         \A v \in Workers : v # w => pc'[v] = pc[v] /\ prop'[v] = prop[v]
                                       /\ others'[v] = others[v],
         owner'[u] = w /\ pc'[w] \in HasResolved => Informed(w, u)'
  PROVE  PlaceInv'
<1>1. HandlerInv'
  <2> SUFFICES ASSUME NEW v \in Workers, NEW x \in Units, owner'[x] = v,
                      pc'[v] \in HasResolved
               PROVE  Informed(v, x)'
    BY DEF HandlerInv
  <2>1. CASE v = w /\ x = u
    BY <2>1
  <2>2. CASE v # w /\ owner[x] = v
    <3>1. Informed(v, x)
      BY <2>2 DEF PlaceInv, HandlerInv
    <3>2. QED
      BY <2>2, <3>1, StaysInformed
  <2>3. QED
    BY <2>1, <2>2, FanInAssumption
<1>2. FactsInv'
  BY DEF PlaceInv, FactsInv
<1>3. QED
  BY <1>1, <1>2 DEF PlaceInv

\* Beside a commit or at a final failure no other handler is extracting: each
\* of them has settled on its report's property, and keeps it.
LEMMA SettledStaysInformed ==
  ASSUME UnitInv, HandlerInv, NEW w \in Workers, NEW u \in Units, owner[u] = w,
         pc[w] \in HasResolved, ~Extracting(w, u), prop'[w] = prop[w], pc'[w] = pc[w],
         unit'[u] \notin Outstanding,
         property[ReportOf[u]] # None => property'[ReportOf[u]] = property[ReportOf[u]]
  PROVE  Informed(w, u)'
<1>1. unit[u] \notin Outstanding
  BY DEF UnitInv, HasResolved, Reserved, Extracting, Outstanding
<1>2. Informed(w, u)
  BY DEF HandlerInv
<1>3. QED
  BY <1>1, <1>2 DEF Informed

LEMMA PlaceInvariant == ASSUME Paid PROVE Spec => []PlaceInv
<1> USE FanInAssumption
<1>1. Init => PlaceInv
  BY DEF Init, Queue!Init, PlaceInv, HandlerInv, FactsInv
<1>2. TypeOK /\ BudgetInv /\ UnitInv /\ PlaceInv /\ [Next]_vars => PlaceInv'
  <2> SUFFICES ASSUME TypeOK, BudgetInv, UnitInv, PlaceInv, [Next]_vars PROVE PlaceInv'
    OBVIOUS
  <2> USE DEF jobs, ledger, batchRow, local, history
  <2>1. CASE UNCHANGED <<owner, unit, facts, property, local>>
    BY <2>1 DEF PlaceInv, HandlerInv, FactsInv, Informed, CountedBy
  <2>2. CASE Estimate \/ Start \/ Reclaim \/ UNCHANGED vars
    BY <2>1, <2>2 DEF Estimate, Start, Reclaim, Queue!Submit, Queue!Reclaim, vars
  <2> SUFFICES ASSUME NEW w \in Workers, NEW u \in Units,
                      Take(w, u) \/ Step(w, u) \/ Crash(w, u)
               PROVE  PlaceInv'
    BY <2>2 DEF Next, Finished
  <2> USE DEF TypeOK, Queue!TypeOK
  <2>3. CASE Take(w, u)
    <3>1. \A x \in Units : x # u => owner'[x] = owner[x] /\ owner[x] # w
      BY <2>3 DEF Take, Queue!Begin, BudgetInv, OneUnit
    <3>2. QED
      BY <2>3, <3>1, PlaceKept DEF Take, Queue!Begin, Goto, HasResolved
  <2>o. owner[u] = w => \A x \in Units : x # u => owner[x] # w
    BY DEF BudgetInv, OneUnit
  <2>4. CASE Mark(w, u) \/ Check(w, u) \/ Call(w, u) \/ Reserve(w, u)
    <3>1. /\ owner[u] = w
          /\ UNCHANGED <<jobs, facts, property, prop, others>>
      BY <2>4 DEF Mark, Check, Call, Reserve, At
    <3>2. \A x \in Units : unit'[x] \in Outstanding <=> unit[x] \in Outstanding
      BY <2>4 DEF Mark, Check, Call, Reserve, Outstanding
    <3>3. PICK step \in {"check", "resolve", "raise", "call", "reserve"} : Goto(w, step)
      BY <2>4 DEF Mark, Check, Call, Reserve
    <3>4. QED
      BY <2>o, <3>1, <3>2, <3>3, PlaceKept DEF Goto, HasResolved
  <2>5. CASE Resolve(w, u)
    <3> DEFINE r == ReportOf[u]
    <3>1. /\ owner[u] = w /\ UNCHANGED <<jobs, unit, facts, property, others>>
          /\ pc' = [pc EXCEPT ![w] = pc'[w]] /\ prop' = [prop EXCEPT ![w] = prop'[w]]
      BY <2>5 DEF Resolve, At, Goto
    <3>2. \/ property[r] # None /\ prop'[w] = property[r] /\ pc'[w] = "lock"
          \/ /\ property[r] = None /\ prop'[w] = None /\ pc'[w] = "count"
             /\ unit[u] \in Outstanding => u \notin Locating
          \/ /\ property[r] = None /\ prop'[w] = PropertyOf[r] /\ pc'[w] = "lock"
             /\ unit[u] \in Outstanding
      <4>1. ASSUME property[r] = None, NEW v \in UnitsOf(r), facts[v] # "none"
            PROVE  v \notin Locating
        BY <4>1 DEF PlaceInv, FactsInv, UnitsOf
      <4>2. QED
        BY <2>5, <4>1 DEF Resolve, Goto, UnitsOf
    <3>3. Informed(w, u)'
      <4>1. PropertyOf[r] # None
        OBVIOUS
      <4>2. QED
        BY <3>1, <3>2, <4>1 DEF Informed
    <3>4. QED
      BY <2>o, <3>1, <3>3, PlaceKept
  <2>6. CASE Lock(w, u) \/ Count(w, u)
    <3>1. /\ owner[u] = w /\ UNCHANGED <<jobs, unit, facts, property, prop>>
          /\ pc' = [pc EXCEPT ![w] = pc'[w]] /\ others' = [others EXCEPT ![w] = others'[w]]
          /\ pc[w] \in {"lock", "count"} /\ pc'[w] \in {"count", "commit"}
          /\ pc'[w] = "commit" => others'[w] = CountedBy(w, u)
      BY <2>6 DEF Lock, Count, At, Goto, CountedBy
    <3>2. Informed(w, u)
      BY <3>1 DEF PlaceInv, HandlerInv, HasResolved
    <3>3. CountedBy(w, u)' = CountedBy(w, u)
      BY <3>1 DEF CountedBy
    <3>4. Informed(w, u)'
      BY <3>1, <3>2, <3>3 DEF Informed
    <3>5. QED
      BY <2>o, <3>1, <3>4, PlaceKept
  <2>7. CASE Account(w, u) \/ Recompute(w, u) \/ Close(w, u)
    <3>1. /\ owner[u] = w /\ UNCHANGED <<jobs, unit, facts, property, prop, others>>
          /\ pc' = [pc EXCEPT ![w] = pc'[w]]
          /\ \/ pc[w] = "account" /\ pc'[w] = "recompute"
             \/ pc'[w] \in {"close", "raise", "settle"}
      BY <2>7 DEF Account, Recompute, Close, At, Goto
    <3>2. pc'[w] \in HasResolved => Informed(w, u)'
      BY <3>1, StaysInformed DEF PlaceInv, HandlerInv, HasResolved
    <3>3. QED
      BY <2>o, <3>1, <3>2, PlaceKept
  <2>8. CASE Complete(w, u) \/ Retry(w, u) \/ Crash(w, u)
    <3>1. /\ owner[u] = w /\ UNCHANGED <<unit, facts, property>>
          /\ owner' = [owner EXCEPT ![u] = None]
          /\ Rest(w)
      BY <2>8 DEF Complete, Retry, Crash, Queue!Settle, Queue!Lose
    <3>2. QED
      BY <2>o, <3>1, PlaceKept DEF Rest, Goto
  <2>9. CASE GiveUp(w, u)
    <3>1. /\ owner' = [owner EXCEPT ![u] = None] /\ owner[u] = w
          /\ UNCHANGED <<facts, property>> /\ Rest(w) /\ BatchUnlocked
          /\ unit' = [unit EXCEPT ![u] = "failed"]
      BY <2>9 DEF GiveUp, Queue!Settle
    <3>2. ASSUME NEW v \in Workers, NEW x \in Units, owner'[x] = v, pc'[v] \in HasResolved
          PROVE  Informed(v, x)'
      <4>1. x # u /\ v # w /\ owner[x] = v
        BY <2>o, <3>1, <3>2
      <4>2. ~Extracting(v, x)
        BY <3>1, OneExtracts
      <4>3. pc'[v] = pc[v] /\ prop'[v] = prop[v] /\ unit'[x] = unit[x]
        BY <3>1, <4>1 DEF Rest, Goto
      <4>4. unit[x] \notin Outstanding
        BY <3>2, <4>1, <4>2, <4>3 DEF UnitInv, HasResolved, Reserved, Extracting, Outstanding
      <4>5. QED
        BY <3>1, <3>2, <4>1, <4>2, <4>3, <4>4, SettledStaysInformed DEF PlaceInv
    <3>3. FactsInv'
      BY <3>1 DEF PlaceInv, FactsInv
    <3>4. QED
      BY <3>2, <3>3 DEF PlaceInv, HandlerInv
  <2>10. CASE Commit(w, u)
    <3> DEFINE r == ReportOf[u]
               extracts == unit[u] \in Outstanding
    <3>1. /\ owner[u] = w /\ pc[w] = "commit" /\ UNCHANGED <<jobs, prop, others>>
          /\ pc' = [pc EXCEPT ![w] = IF extracts THEN "account" ELSE "recompute"]
          /\ unit' = [unit EXCEPT ![u] = IF extracts THEN "extracted" ELSE @]
          /\ property' = [property EXCEPT ![r] = IF prop[w] # None THEN prop[w] ELSE @]
      BY <2>10 DEF Commit, At, Goto, AfterCommit
    <3>2. Informed(w, u)
      BY <3>1 DEF PlaceInv, HandlerInv, HasResolved
    <3>3. ~extracts => UNCHANGED <<unit, property>>
      BY <3>1, <3>2 DEF Informed
    <3>4. property[r] # None => property' = property
      BY <3>1, <3>2 DEF Informed
    <3>5. ASSUME NEW v \in Workers, NEW x \in Units, owner'[x] = v, pc'[v] \in HasResolved
          PROVE  Informed(v, x)'
      <4>1. CASE x = u
        BY <3>1, <3>2, <3>3, <3>5, <4>1 DEF Informed, Outstanding
      <4>2. CASE x # u
        <5>1. v # w /\ owner[x] = v /\ pc'[v] = pc[v] /\ Informed(v, x)
          BY <2>o, <3>1, <3>5, <4>2 DEF PlaceInv, HandlerInv
        <5>2. CASE ~extracts
          BY <3>1, <3>3, <5>1, <5>2, StaysInformed
        <5>3. CASE extracts
          <6>1. ~Extracting(v, x)
            BY <3>1, <4>2, <5>3, OneExtracts DEF Extracting, Reserved
          <6>2. unit'[x] = unit[x] /\ unit[x] \notin Outstanding
            BY <3>1, <3>5, <4>2, <5>1, <6>1
               DEF UnitInv, HasResolved, Reserved, Extracting, Outstanding
          <6>3. property[ReportOf[x]] # None => property'[ReportOf[x]] = property[ReportOf[x]]
            BY <3>1, <3>4
          <6>4. QED
            BY <3>1, <3>5, <5>1, <6>1, <6>2, <6>3, SettledStaysInformed DEF PlaceInv
        <5>4. QED
          BY <5>2, <5>3
      <4>3. QED
        BY <4>1, <4>2
    <3>6. FactsInv'
      <4> SUFFICES ASSUME NEW v \in Units
                   PROVE  LET p == property'[ReportOf[v]] IN
                          IF p = None
                          THEN facts'[v] = "none" \/ (facts'[v] = "loose" /\ v \notin Locating)
                          ELSE facts'[v] \in {"none", p}
        BY DEF FactsInv
      <4>1. IF property[ReportOf[v]] = None
            THEN facts[v] = "none" \/ (facts[v] = "loose" /\ v \notin Locating)
            ELSE facts[v] \in {"none", property[ReportOf[v]]}
        BY DEF PlaceInv, FactsInv
      <4>2. CASE v \notin UnitsOf(r)
        BY <2>10, <3>1, <4>1, <4>2 DEF Commit, UnitsOf
      <4>3. CASE v \in others[w] /\ v \in UnitsOf(r)
        <5>1. facts'[v] = facts[v]
          BY <2>10, <4>3 DEF Commit
        <5>2. CASE extracts
          BY <3>1, <3>2, <4>3, <5>1, <5>2 DEF Informed, CountedBy, UnitInv
        <5>3. QED
          BY <3>3, <4>1, <5>1, <5>2
      <4>4. CASE v \in UnitsOf(r) \ others[w]
        <5>1. facts'[v] = FactsSeen(w, v, v = u /\ extracts)
          BY <2>10, <4>4 DEF Commit
        <5>2. ReportOf[v] = r
          BY <4>4 DEF UnitsOf
        <5>3. CASE prop[w] = None
          BY <3>1, <3>2, <4>1, <5>1, <5>2, <5>3 DEF FactsSeen, Informed
        <5>4. CASE prop[w] # None
          <6>1. property'[ReportOf[v]] = prop[w]
            BY <3>1, <5>2, <5>4
          <6>2. facts'[v] = prop[w] \/ (facts'[v] = facts[v] /\ facts[v] = "none")
            BY <5>1, <5>4 DEF FactsSeen
          <6>3. QED
            BY <5>4, <6>1, <6>2
        <5>5. QED
          BY <5>3, <5>4
      <4>5. QED
        BY <4>2, <4>3, <4>4
    <3>7. QED
      BY <3>5, <3>6 DEF PlaceInv, HandlerInv
  <2> QED
    BY <2>3, <2>4, <2>5, <2>6, <2>7, <2>8, <2>9, <2>10 DEF Step
<1>3. QED
  BY <1>1, <1>2, TypeCorrect, BudgetInvariant, UnitInvariant, PTL DEF Spec

--------------------------------------------------------------------------------
(* The fan-in, when every report has its property from the start.  Then the *)
(* row lock of the property orders what finish_unit counts, whatever the    *)
(* units cost: only a final failure, which takes no such lock, can come     *)
(* between a handler's count and its commit.                                *)

AllAttached == Attached = Reports

\* What the handler has counted is still outstanding or has been given up since.
Counted(w, u) ==
  /\ CountedBy(w, u) \subseteq others[w]
  /\ \A x \in others[w] \ CountedBy(w, u) :
        /\ unit[x] = "failed"
        /\ ReportOf[x] = ReportOf[u] \/ (prop[w] # None /\ property[ReportOf[x]] = prop[w])

Counts(w) == pc[w] \in {"count", "commit"}

AttachedInv ==
  /\ \A r \in Reports : property[r] = PropertyOf[r]
  /\ \A u \in Units : facts[u] \in {"none", PropertyOf[ReportOf[u]]}
  /\ \A w \in Workers, u \in Units :
        owner[u] = w => /\ pc[w] \in HasResolved => prop[w] = PropertyOf[ReportOf[u]]
                        /\ pc[w] = "commit" => Counted(w, u)
  /\ \A w, v \in Workers : Counts(w) /\ Counts(v) /\ prop[w] = prop[v] => w = v

\* A unit keeps its state, is marked as running, given up, or extracted by w.
Moves(w, x) == \/ unit'[x] = unit[x]
               \/ unit[x] \in Outstanding /\ unit'[x] \in Outstanding
               \/ unit'[x] = "failed"
               \/ At(w, x, "commit") /\ unit'[x] = "extracted"

\* What v has counted stays so in the step of another worker: that one extracts
\* nothing at the property that v holds.
LEMMA CountedKept ==
  ASSUME TypeOK, UnitInv, AttachedInv, UNCHANGED property,
         NEW w \in Workers, NEW v \in Workers, NEW u \in Units, v # w,
         owner[u] = v, pc[v] = "commit", prop'[v] = prop[v], others'[v] = others[v],
         \A x \in Units : Moves(w, x)
  PROVE  Counted(v, u)'
<1> USE FanInAssumption DEF TypeOK
<1> DEFINE Ours(x) == ReportOf[x] = ReportOf[u]
                        \/ (prop[v] # None /\ property[ReportOf[x]] = prop[v])
<1>1. /\ prop[v] = PropertyOf[ReportOf[u]] /\ Counted(v, u) /\ Counts(v)
      /\ \A r \in Reports : property[r] = PropertyOf[r]
  BY DEF AttachedInv, HasResolved, Counts
<1>2. ASSUME NEW x \in Units, Ours(x), At(w, x, "commit")
      PROVE  FALSE
  <2>1. prop[w] = PropertyOf[ReportOf[x]] /\ Counts(w)
    BY <1>2 DEF AttachedInv, HasResolved, Counts, At
  <2>2. PropertyOf[ReportOf[x]] = prop[v]
    BY <1>1, <1>2
  <2>3. QED
    BY <1>1, <2>1, <2>2 DEF AttachedInv
<1>3. \A x \in Units : unit[x] = "failed" => ~At(w, x, "commit")
  BY DEF UnitInv, At, Outstanding
<1>4. \A x \in Units : x \in CountedBy(v, u) <=> x # u /\ unit[x] \in Outstanding /\ Ours(x)
  BY DEF CountedBy
<1>5. \A x \in Units : x \in CountedBy(v, u)' <=> x # u /\ unit'[x] \in Outstanding /\ Ours(x)
  BY DEF CountedBy
<1>6. CountedBy(v, u)' \subseteq others'[v]
  <2> SUFFICES ASSUME NEW x \in Units, x # u, unit'[x] \in Outstanding, Ours(x)
               PROVE  x \in others[v]
    BY <1>5 DEF CountedBy
  <2>1. unit[x] \in Outstanding
    BY DEF Moves, Outstanding
  <2>2. QED
    BY <1>1, <1>4, <2>1 DEF Counted
<1>7. ASSUME NEW x \in others[v], x \notin CountedBy(v, u)'
      PROVE  unit'[x] = "failed" /\ Ours(x)
  <2>0. x \in Units
    OBVIOUS
  <2>1. CASE x \in CountedBy(v, u)
    <3>1. x # u /\ unit[x] \in Outstanding /\ Ours(x) /\ unit'[x] \notin Outstanding
      BY <1>4, <1>5, <1>7, <2>0, <2>1
    <3>2. ~At(w, x, "commit")
      BY <1>2, <2>0, <3>1
    <3>3. QED
      BY <2>0, <3>1, <3>2 DEF Moves
  <2>2. CASE x \notin CountedBy(v, u)
    <3>1. unit[x] = "failed" /\ Ours(x)
      BY <1>1, <1>7, <2>2 DEF Counted
    <3>2. QED
      BY <1>3, <2>0, <3>1 DEF Moves, Outstanding
  <2>3. QED
    BY <2>1, <2>2
<1>8. QED
  BY <1>6, <1>7 DEF Counted

\* A step of w on unit u keeps the invariant if w itself has resolved and
\* counted rightly and holds the property alone.
LEMMA AttachmentKept ==
  ASSUME TypeOK, UnitInv, AttachedInv, UNCHANGED property,
         NEW w \in Workers, NEW u \in Units,
         \A x \in Units : Moves(w, x) /\ facts'[x] \in {facts[x], PropertyOf[ReportOf[x]]},
         \A x \in Units : x # u => owner'[x] = owner[x] /\ owner[x] # w,
         owner'[u] \in {w, None},
         \A v \in Workers : v # w => pc'[v] = pc[v] /\ prop'[v] = prop[v]
                                       /\ others'[v] = others[v],
         owner'[u] = w => /\ pc'[w] \in HasResolved => prop'[w] = PropertyOf[ReportOf[u]]
                          /\ pc'[w] = "commit" => Counted(w, u)',
         \A v \in Workers : v # w /\ Counts(v) /\ Counts(w)' => prop[v] # prop'[w]
  PROVE  AttachedInv'
<1> USE FanInAssumption
<1>1. /\ \A r \in Reports : property'[r] = PropertyOf[r]
      /\ \A x \in Units : facts'[x] \in {"none", PropertyOf[ReportOf[x]]}
  BY DEF AttachedInv
<1>2. ASSUME NEW v \in Workers, NEW x \in Units, owner'[x] = v
      PROVE  /\ pc'[v] \in HasResolved => prop'[v] = PropertyOf[ReportOf[x]]
             /\ pc'[v] = "commit" => Counted(v, x)'
  <2>1. CASE v = w
    BY <1>2, <2>1
  <2>2. CASE v # w
    <3>1. owner[x] = v /\ pc'[v] = pc[v] /\ prop'[v] = prop[v] /\ others'[v] = others[v]
      BY <1>2, <2>2
    <3>2. pc[v] = "commit" => Counted(v, x)'
      BY <2>2, <3>1, CountedKept
    <3>3. QED
      BY <3>1, <3>2 DEF AttachedInv
  <2>3. QED
    BY <2>1, <2>2
<1>3. ASSUME NEW v \in Workers, NEW x \in Workers, Counts(v)', Counts(x)', prop'[v] = prop'[x]
      PROVE  v = x
  BY <1>3 DEF AttachedInv, Counts
<1>4. QED
  BY <1>1, <1>2, <1>3 DEF AttachedInv

LEMMA AttachedInvariant == ASSUME AllAttached PROVE Spec => []AttachedInv
<1> USE FanInAssumption
<1>1. Init => AttachedInv
  BY DEF Init, Queue!Init, AttachedInv, AllAttached, Counts
<1>2. TypeOK /\ BudgetInv /\ UnitInv /\ AttachedInv /\ [Next]_vars => AttachedInv'
  <2> SUFFICES ASSUME TypeOK, BudgetInv, UnitInv, AttachedInv, [Next]_vars PROVE AttachedInv'
    OBVIOUS
  <2> USE DEF jobs, ledger, batchRow, local, history
  <2>1. CASE UNCHANGED <<owner, unit, facts, property, local>>
    BY <2>1 DEF AttachedInv, Counts, Counted, CountedBy
  <2>2. CASE Estimate \/ Start \/ Reclaim \/ UNCHANGED vars
    BY <2>1, <2>2 DEF Estimate, Start, Reclaim, Queue!Submit, Queue!Reclaim, vars
  <2> SUFFICES ASSUME NEW w \in Workers, NEW u \in Units,
                      Take(w, u) \/ Step(w, u) \/ Crash(w, u)
               PROVE  AttachedInv'
    BY <2>2 DEF Next, Finished
  <2> USE DEF TypeOK, Queue!TypeOK
  <2>o. owner[u] = w => \A x \in Units : x # u => owner[x] # w
    BY DEF BudgetInv, OneUnit
  <2>p. property[ReportOf[u]] = PropertyOf[ReportOf[u]] /\ PropertyOf[ReportOf[u]] # None
    BY DEF AttachedInv
  \* Most steps leave units and facts alone and count nothing.
  <2>3. ASSUME UNCHANGED <<unit, facts, property>>, owner[u] = w, owner'[u] \in {w, None},
               \A x \in Units : x # u => owner'[x] = owner[x],
               \A v \in Workers : v # w => pc'[v] = pc[v] /\ prop'[v] = prop[v]
                                             /\ others'[v] = others[v],
               owner'[u] = w => /\ pc'[w] \in HasResolved => prop'[w] = PropertyOf[ReportOf[u]]
                                /\ pc'[w] = "commit" => Counted(w, u)',
               \A v \in Workers : v # w /\ Counts(v) /\ Counts(w)' => prop[v] # prop'[w]
        PROVE  AttachedInv'
    BY <2>o, <2>3, AttachmentKept DEF Moves
  <2>4. CASE Take(w, u)
    <3>1. \A x \in Units : x # u => owner'[x] = owner[x] /\ owner[x] # w
      BY <2>4 DEF Take, Queue!Begin, BudgetInv, OneUnit
    <3>2. pc'[w] = "mark" /\ owner'[u] = w
      BY <2>4 DEF Take, Queue!Begin, Goto
    <3>3. QED
      BY <2>4, <3>1, <3>2, AttachmentKept DEF Take, Goto, Moves, HasResolved, Counts
  <2>5. CASE Mark(w, u)
    <3>1. \A x \in Units : Moves(w, x)
      BY <2>5 DEF Mark, Moves, Outstanding
    <3>2. QED
      BY <2>5, <2>o, <3>1, AttachmentKept DEF Mark, At, Goto, HasResolved, Counts
  <2>6. CASE Check(w, u) \/ Call(w, u) \/ Reserve(w, u)
    <3>1. /\ owner[u] = w /\ UNCHANGED <<jobs, unit, facts, property, prop, others>>
      BY <2>6 DEF Check, Call, Reserve, At
    <3>2. PICK step \in {"resolve", "raise", "call", "reserve"} : Goto(w, step)
      BY <2>6 DEF Check, Call, Reserve
    <3>3. QED
      BY <2>3, <3>1, <3>2 DEF Goto, HasResolved, Counts
  <2>7. CASE Resolve(w, u)
    <3>1. /\ owner[u] = w /\ UNCHANGED <<jobs, unit, facts, property, others>>
          /\ pc' = [pc EXCEPT ![w] = "lock"]
          /\ prop' = [prop EXCEPT ![w] = PropertyOf[ReportOf[u]]]
      BY <2>7, <2>p DEF Resolve, At, Goto
    <3>2. QED
      BY <2>3, <3>1 DEF Counts
  <2>8. CASE Lock(w, u)
    <3>1. /\ owner[u] = w /\ UNCHANGED <<jobs, unit, facts, property, prop, others>>
          /\ pc[w] = "lock" /\ pc' = [pc EXCEPT ![w] = "count"]
          /\ \A v \in Workers : Counts(v) => prop[v] # prop[w]
      BY <2>8 DEF Lock, At, Goto, HoldsProperty, Counts
    <3>2. prop[w] = PropertyOf[ReportOf[u]]
      BY <3>1 DEF AttachedInv, HasResolved
    <3>3. QED
      BY <2>3, <3>1, <3>2 DEF Counts
  <2>9. CASE Count(w, u)
    <3>1. /\ owner[u] = w /\ UNCHANGED <<jobs, unit, facts, property, prop>>
          /\ pc[w] = "count" /\ pc' = [pc EXCEPT ![w] = "commit"]
          /\ others' = [others EXCEPT ![w] = CountedBy(w, u)]
      BY <2>9 DEF Count, At, Goto, CountedBy
    <3>2. prop[w] = PropertyOf[ReportOf[u]]
      BY <3>1 DEF AttachedInv, HasResolved
    <3>3. CountedBy(w, u)' = CountedBy(w, u)
      BY <3>1 DEF CountedBy
    <3>4. others'[w] = CountedBy(w, u)
      BY <3>1
    <3>5. Counted(w, u)'
      BY <3>3, <3>4 DEF Counted
    <3>6. \A v \in Workers : v # w /\ Counts(v) => prop[v] # prop[w]
      BY <3>1 DEF AttachedInv, Counts
    <3>7. QED
      BY <2>3, <3>1, <3>2, <3>5, <3>6
  <2>10. CASE Commit(w, u)
    <3> DEFINE r == ReportOf[u]
               extracts == unit[u] \in Outstanding
    <3>1. /\ owner[u] = w /\ pc[w] = "commit" /\ UNCHANGED <<jobs, prop, others>>
          /\ pc' = [pc EXCEPT ![w] = IF extracts THEN "account" ELSE "recompute"]
          /\ unit' = [unit EXCEPT ![u] = IF extracts THEN "extracted" ELSE @]
          /\ property' = [property EXCEPT ![r] = IF prop[w] # None THEN prop[w] ELSE @]
      BY <2>10 DEF Commit, At, Goto, AfterCommit
    <3>2. prop[w] = PropertyOf[r]
      BY <3>1 DEF AttachedInv, HasResolved
    <3>3. UNCHANGED property
      BY <2>p, <3>1, <3>2
    <3>4. \A x \in Units : Moves(w, x)
      BY <3>1 DEF Moves, At, Outstanding
    <3>5. ASSUME NEW x \in Units
          PROVE  facts'[x] \in {facts[x], PropertyOf[ReportOf[x]]}
      <4>1. CASE x \in UnitsOf(r) \ others[w]
        <5>1. facts'[x] = FactsSeen(w, x, x = u /\ extracts) /\ ReportOf[x] = r
          BY <2>10, <4>1 DEF Commit, UnitsOf
        <5>2. QED
          BY <2>p, <3>2, <5>1 DEF FactsSeen
      <4>2. CASE x \notin UnitsOf(r) \ others[w]
        BY <2>10, <4>2 DEF Commit
      <4>3. QED
        BY <4>1, <4>2
    <3>6. QED
      BY <2>o, <3>1, <3>2, <3>3, <3>4, <3>5, AttachmentKept DEF Counts
  <2>11. CASE Account(w, u) \/ Recompute(w, u) \/ Close(w, u)
    <3>1. /\ owner[u] = w /\ UNCHANGED <<jobs, unit, facts, property, prop, others>>
          /\ pc' = [pc EXCEPT ![w] = pc'[w]]
          /\ \/ pc[w] = "account" /\ pc'[w] = "recompute"
             \/ pc'[w] \in {"close", "raise", "settle"}
      BY <2>11 DEF Account, Recompute, Close, At, Goto
    <3>2. pc'[w] \in HasResolved => prop[w] = PropertyOf[ReportOf[u]]
      BY <3>1 DEF AttachedInv, HasResolved
    <3>3. QED
      BY <2>3, <3>1, <3>2 DEF Counts
  <2>12. CASE Complete(w, u) \/ Retry(w, u) \/ Crash(w, u)
    <3>1. /\ owner[u] = w /\ UNCHANGED <<unit, facts, property>>
          /\ owner' = [owner EXCEPT ![u] = None]
          /\ Rest(w)
      BY <2>12 DEF Complete, Retry, Crash, Queue!Settle, Queue!Lose
    <3>2. QED
      BY <2>3, <3>1 DEF Rest, Goto, Counts
  <2>13. CASE GiveUp(w, u)
    <3>1. /\ owner' = [owner EXCEPT ![u] = None] /\ owner[u] = w
          /\ UNCHANGED <<facts, property>> /\ Rest(w)
          /\ unit' = [unit EXCEPT ![u] = "failed"]
      BY <2>13 DEF GiveUp, Queue!Settle
    <3>2. \A x \in Units : Moves(w, x)
      BY <3>1 DEF Moves
    <3>3. QED
      BY <2>o, <3>1, <3>2, AttachmentKept DEF Rest, Goto, Counts
  <2>14. QED
    BY <2>4, <2>5, <2>6, <2>7, <2>8, <2>9, <2>10, <2>11, <2>12, <2>13 DEF Step
<1>3. QED
  BY <1>1, <1>2, TypeCorrect, BudgetInvariant, UnitInvariant, PTL DEF Spec
--------------------------------------------------------------------------------
(* What the fan-in rests on, by the batch's lock or by the property's.     *)

Reliable(w, u) ==
  LET p == property[ReportOf[u]] IN
  /\ prop[w] # None => p = prop[w] \/ (p = None /\ unit[u] \in Outstanding)
  /\ unit[u] \in Outstanding =>
       /\ prop[w] = None => p = None
       /\ pc[w] = "commit" => Counted(w, u)

ReliableInv ==
  /\ \A w \in Workers, u \in Units : owner[u] = w /\ pc[w] \in HasResolved => Reliable(w, u)
  /\ FactsInv

LEMMA ReliableInvariant == ASSUME Paid \/ AllAttached PROVE Spec => []ReliableInv
<1>1. PlaceInv => ReliableInv
  BY DEF PlaceInv, HandlerInv, Informed, ReliableInv, Reliable, Counted
<1>2. AttachedInv => ReliableInv
  BY FanInAssumption DEF AttachedInv, ReliableInv, Reliable, FactsInv
<1>3. CASE Paid
  BY <1>1, <1>3, PlaceInvariant, PTL
<1>4. CASE AllAttached
  BY <1>2, <1>4, AttachedInvariant, PTL
<1>5. QED
  BY <1>3, <1>4

\* A job that will recompute property p before it is done: it waits to be run
\* (again), or its handler has yet to look for p or has found p complete.
Owes(u, p) ==
  \/ phase[u] \in {"pending", "dead"}
  \/ phase[u] = "working" /\ owner[u] = None
  \/ \E w \in Workers :
       /\ owner[u] = w
       /\ \/ pc[w] \in {"mark", "check", "resolve", "raise"}
          \/ pc[w] \in {"lock", "count"} /\ prop[w] = p
          \/ pc[w] \in {"commit", "account", "recompute"} /\ prop[w] = p /\ others[w] = {}

UnitsAt(p) == {u \in Units : property[ReportOf[u]] = p}
AllIn(p)   == \A u \in UnitsAt(p) : unit[u] \notin Outstanding

\* When all units of a property are in, its results are based on all of its
\* facts, or one of their jobs still has to recompute it.
OwedInv == \A p \in Properties :
              AllIn(p) => computed[p] = FactsAt(p) \/ \E u \in UnitsAt(p) : Owes(u, p)

\* A step of one worker leaves what the other jobs owe alone.
LEMMA OthersOwe ==
  ASSUME NEW w \in Workers, NEW u \in Units, NEW x \in Units, NEW p \in Properties,
         x # u, owner[x] # w, owner'[x] = owner[x], phase'[x] = phase[x],
         \A v \in Workers : v # w => pc'[v] = pc[v] /\ prop'[v] = prop[v]
                                       /\ others'[v] = others[v],
         Owes(x, p)
  PROVE  Owes(x, p)'
BY DEF Owes

\* A step that settles nothing for a property and nothing about it keeps the
\* invariant if its own job goes on owing what it owed.
LEMMA OwedKept ==
  ASSUME OwedInv, UNCHANGED <<facts, property, computed>>,
         NEW w \in Workers, NEW u \in Units,
         \A x \in Units : unit'[x] \in Outstanding <=> unit[x] \in Outstanding,
         \A x \in Units : x # u => owner'[x] = owner[x] /\ owner[x] # w /\ phase'[x] = phase[x],
         \A v \in Workers : v # w => pc'[v] = pc[v] /\ prop'[v] = prop[v]
                                       /\ others'[v] = others[v],
         \A p \in Properties : u \in UnitsAt(p) /\ AllIn(p) /\ Owes(u, p) => Owes(u, p)'
  PROVE  OwedInv'
<1> SUFFICES ASSUME NEW p \in Properties, AllIn(p)'
             PROVE  computed'[p] = FactsAt(p)' \/ \E x \in UnitsAt(p)' : Owes(x, p)'
  BY DEF OwedInv
<1>1. UnitsAt(p)' = UnitsAt(p) /\ FactsAt(p)' = FactsAt(p) /\ AllIn(p)
  BY DEF UnitsAt, FactsAt, AllIn
<1>2. CASE computed[p] = FactsAt(p)
  BY <1>1, <1>2
<1>3. CASE \E x \in UnitsAt(p) : Owes(x, p)
  <2>1. PICK x \in UnitsAt(p) : Owes(x, p)
    BY <1>3
  <2>2. x \in Units
    BY DEF UnitsAt
  <2>3. CASE x = u
    BY <1>1, <2>1, <2>3
  <2>4. CASE x # u
    BY <1>1, <2>1, <2>2, <2>4, OthersOwe
  <2>5. QED
    BY <2>3, <2>4
<1>4. QED
  BY <1>1, <1>2, <1>3 DEF OwedInv

LEMMA OwedInvariant == ASSUME Paid \/ AllAttached PROVE Spec => []OwedInv
<1> USE FanInAssumption
<1>1. Init => OwedInv
  BY DEF Init, Queue!Init, OwedInv, AllIn, UnitsAt, FactsAt, Outstanding
<1>2. TypeOK /\ BudgetInv /\ UnitInv /\ ReliableInv /\ OwedInv /\ [Next]_vars => OwedInv'
  <2> SUFFICES ASSUME TypeOK, BudgetInv, UnitInv, ReliableInv, OwedInv, [Next]_vars
               PROVE  OwedInv'
    OBVIOUS
  <2> USE DEF jobs, ledger, batchRow, local, history
  <2>1. ASSUME UNCHANGED <<owner, unit, facts, property, local, computed>>,
               \A x \in Units : phase'[x] \in {phase[x], "pending"}
        PROVE  OwedInv'
    <3>1. \A p \in Properties, x \in Units : Owes(x, p) => Owes(x, p)'
      BY <2>1 DEF Owes
    <3>2. QED
      BY <2>1, <3>1 DEF OwedInv, AllIn, UnitsAt, FactsAt
  <2>2. CASE Estimate \/ Start \/ Reclaim \/ UNCHANGED vars
    <3>1. UNCHANGED <<owner, unit, facts, property, local, computed>>
      BY <2>2 DEF Estimate, Start, Reclaim, Queue!Submit, Queue!Reclaim, vars
    <3>2. \A x \in Units : phase'[x] \in {phase[x], "pending"}
      BY <2>2 DEF Estimate, Start, Reclaim, Queue!Submit, Queue!Reclaim, vars
    <3>3. QED
      BY <2>1, <3>1, <3>2
  <2> SUFFICES ASSUME NEW w \in Workers, NEW u \in Units,
                      Take(w, u) \/ Step(w, u) \/ Crash(w, u)
               PROVE  OwedInv'
    BY <2>2 DEF Next, Finished
  <2> USE DEF TypeOK, Queue!TypeOK
  <2>3. CASE Take(w, u)
    <3>1. \A x \in Units : x # u => owner'[x] = owner[x] /\ owner[x] # w /\ phase'[x] = phase[x]
      BY <2>3 DEF Take, Queue!Begin, BudgetInv, OneUnit
    <3>2. \A p \in Properties : Owes(u, p)'
      BY <2>3 DEF Take, Queue!Begin, Goto, Owes
    <3>3. QED
      BY <2>3, <3>1, <3>2, OwedKept DEF Take, Goto
  <2>o. owner[u] = w => \A x \in Units : x # u => owner[x] # w
    BY DEF BudgetInv, OneUnit
  <2>s. ASSUME NEW p \in Properties, u \in UnitsAt(p), AllIn(p)
        PROVE  property[ReportOf[u]] = p /\ p # None /\ unit[u] \notin Outstanding
    BY <2>s DEF UnitsAt, AllIn
  <2>4. CASE Mark(w, u) \/ Check(w, u) \/ Call(w, u) \/ Reserve(w, u)
    <3>1. /\ owner[u] = w /\ UNCHANGED <<jobs, facts, property, prop, others, computed>>
      BY <2>4 DEF Mark, Check, Call, Reserve, At
    <3>2. \A x \in Units : unit'[x] \in Outstanding <=> unit[x] \in Outstanding
      BY <2>4 DEF Mark, Check, Call, Reserve, Outstanding
    <3>3. \/ pc[w] = "mark" /\ Goto(w, "check")
          \/ pc[w] = "check" /\ (unit[u] \notin Outstanding => Goto(w, "resolve"))
          \/ pc[w] \in {"call", "reserve"}
      BY <2>4 DEF Mark, Check, Call, Reserve, At
    <3>4. \A v \in Workers : v # w => pc'[v] = pc[v]
      BY <2>4 DEF Mark, Check, Call, Reserve, Goto
    <3>5. ASSUME NEW p \in Properties, u \in UnitsAt(p), AllIn(p), Owes(u, p)
          PROVE  Owes(u, p)'
      BY <2>s, <3>1, <3>3, <3>5 DEF Owes, Goto
    <3>6. QED
      BY <2>o, <3>1, <3>2, <3>4, <3>5, OwedKept
  <2>5. CASE Resolve(w, u)
    <3>1. /\ owner[u] = w /\ UNCHANGED <<jobs, unit, facts, property, computed, others>>
          /\ pc' = [pc EXCEPT ![w] = pc'[w]] /\ prop' = [prop EXCEPT ![w] = prop'[w]]
          /\ property[ReportOf[u]] # None
               => prop'[w] = property[ReportOf[u]] /\ pc'[w] = "lock"
      BY <2>5 DEF Resolve, At, Goto
    <3>2. ASSUME NEW p \in Properties, u \in UnitsAt(p), AllIn(p), Owes(u, p)
          PROVE  Owes(u, p)'
      BY <2>s, <3>1, <3>2 DEF Owes
    <3>3. QED
      BY <2>o, <3>1, <3>2, OwedKept
  <2>6. CASE Lock(w, u) \/ Count(w, u)
    <3>1. /\ owner[u] = w /\ UNCHANGED <<jobs, unit, facts, property, computed, prop>>
          /\ pc' = [pc EXCEPT ![w] = pc'[w]] /\ others' = [others EXCEPT ![w] = others'[w]]
          /\ \/ pc[w] = "lock" /\ pc'[w] = "count"
             \/ pc[w] = "count" /\ pc'[w] = "commit" /\ others'[w] = CountedBy(w, u)
      BY <2>6 DEF Lock, Count, At, Goto, CountedBy
    <3>2. ASSUME NEW p \in Properties, u \in UnitsAt(p), AllIn(p), Owes(u, p)
          PROVE  Owes(u, p)'
      <4>1. prop[w] = p /\ phase[u] = "working"
        BY <3>1, <3>2 DEF Owes, UnitInv
      <4>2. CountedBy(w, u) = {}
        BY <2>s, <3>2, <4>1 DEF CountedBy, UnitsAt, AllIn
      <4>3. QED
        BY <3>1, <4>1, <4>2 DEF Owes
    <3>3. QED
      BY <2>o, <3>1, <3>2, OwedKept
  <2>7. CASE Account(w, u) \/ Close(w, u)
    <3>1. /\ owner[u] = w /\ UNCHANGED <<jobs, unit, facts, property, computed, prop, others>>
          /\ pc' = [pc EXCEPT ![w] = pc'[w]]
          /\ \/ pc[w] = "account" /\ pc'[w] = "recompute"
             \/ pc[w] = "close"
      BY <2>7 DEF Account, Close, At, Goto
    <3>2. \A p \in Properties : Owes(u, p) => Owes(u, p)'
      BY <3>1 DEF Owes, UnitInv
    <3>3. QED
      BY <2>o, <3>1, <3>2, OwedKept
  <2>8. CASE Recompute(w, u)
    <3>1. /\ owner[u] = w /\ pc[w] = "recompute"
          /\ UNCHANGED <<jobs, unit, facts, property, prop, others>>
          /\ pc' = [pc EXCEPT ![w] = pc'[w]]
      BY <2>8 DEF Recompute, At, Goto
    <3>2. CASE UNCHANGED computed
      <4>1. \A p \in Properties : Owes(u, p) => Owes(u, p)' \/ computed[p] = FactsAt(p)
        <5> SUFFICES ASSUME NEW p \in Properties, Owes(u, p)
                     PROVE  Owes(u, p)' \/ computed[p] = FactsAt(p)
          OBVIOUS
        <5>1. prop[w] = p /\ others[w] = {} /\ phase[u] = "working"
          BY <3>1 DEF Owes, UnitInv
        <5>2. pc'[w] = "raise" \/ computed'[p] = FactsAt(p)
          BY <2>8, <3>1, <5>1 DEF Recompute, Goto
        <5>3. QED
          BY <3>1, <3>2, <5>1, <5>2 DEF Owes
      <4> SUFFICES ASSUME NEW p \in Properties, AllIn(p)'
                   PROVE  computed'[p] = FactsAt(p)' \/ \E x \in UnitsAt(p)' : Owes(x, p)'
        BY DEF OwedInv
      <4>2. UnitsAt(p)' = UnitsAt(p) /\ FactsAt(p)' = FactsAt(p) /\ AllIn(p)
        BY <3>1 DEF UnitsAt, FactsAt, AllIn
      <4>3. CASE \E x \in UnitsAt(p) : Owes(x, p)
        <5>1. PICK x \in UnitsAt(p) : Owes(x, p)
          BY <4>3
        <5>2. x \in Units
          BY DEF UnitsAt
        <5>3. x # u => Owes(x, p)'
          BY <2>o, <3>1, <5>1, <5>2, OthersOwe
        <5>4. QED
          BY <3>2, <4>1, <4>2, <5>1, <5>3
      <4>4. QED
        BY <3>2, <4>2, <4>3 DEF OwedInv
    <3>3. CASE computed' # computed
      <4>1. /\ prop[w] \in Properties
            /\ computed' = [computed EXCEPT ![prop[w]] = FactsAt(prop[w])]
        BY <2>8, <3>3 DEF Recompute
      <4> SUFFICES ASSUME NEW p \in Properties, AllIn(p)', p # prop[w]
                   PROVE  computed'[p] = FactsAt(p)' \/ \E x \in UnitsAt(p)' : Owes(x, p)'
        BY <3>1, <4>1 DEF OwedInv, FactsAt
      <4>2. UnitsAt(p)' = UnitsAt(p) /\ FactsAt(p)' = FactsAt(p) /\ AllIn(p)
        BY <3>1 DEF UnitsAt, FactsAt, AllIn
      <4>3. ~Owes(u, p)
        BY <3>1 DEF Owes, UnitInv
      <4>4. \A x \in UnitsAt(p) : Owes(x, p) => Owes(x, p)'
        BY <2>o, <3>1, <4>3, OthersOwe DEF UnitsAt
      <4>5. QED
        BY <4>1, <4>2, <4>4 DEF OwedInv
    <3>4. QED
      BY <3>2, <3>3
  <2>9. CASE Complete(w, u) \/ Retry(w, u) \/ Crash(w, u)
    <3>1. /\ owner[u] = w /\ UNCHANGED <<unit, facts, property, computed>>
          /\ owner' = [owner EXCEPT ![u] = None] /\ Rest(w)
          /\ \A x \in Units : x # u => phase'[x] = phase[x]
          /\ phase[u] = "working"
          /\ pc[w] = "settle" \/ phase'[u] \in {"pending", "working"}
      BY <2>9 DEF Complete, Retry, Crash, Queue!Settle, Queue!Lose, At
    <3>2. \A p \in Properties : Owes(u, p) => Owes(u, p)'
      BY <3>1 DEF Owes
    <3>3. QED
      BY <2>o, <3>1, <3>2, OwedKept DEF Rest, Goto
  <2>10. ASSUME NEW p \in Properties, UnitsAt(p)' = UnitsAt(p), FactsAt(p)' = FactsAt(p),
                u \notin UnitsAt(p), computed' = computed, owner[u] = w,
                \A x \in Units : x # u => /\ unit'[x] = unit[x]
                                          /\ owner'[x] = owner[x] /\ phase'[x] = phase[x],
                \A v \in Workers : v # w => pc'[v] = pc[v] /\ prop'[v] = prop[v]
                                              /\ others'[v] = others[v],
                AllIn(p)'
         PROVE  computed'[p] = FactsAt(p)' \/ \E x \in UnitsAt(p)' : Owes(x, p)'
    <3>1. AllIn(p)
      BY <2>10 DEF AllIn, UnitsAt
    <3>2. \A x \in UnitsAt(p) : Owes(x, p) => Owes(x, p)'
      BY <2>o, <2>10, OthersOwe DEF UnitsAt
    <3>3. QED
      BY <2>10, <3>1, <3>2 DEF OwedInv
  <2>11. CASE GiveUp(w, u)
    <3>1. /\ owner[u] = w /\ UNCHANGED <<facts, property, computed>>
          /\ owner' = [owner EXCEPT ![u] = None] /\ Rest(w)
          /\ unit' = [unit EXCEPT ![u] = "failed"]
          /\ phase'[u] = "dead" /\ \A x \in Units : x # u => phase'[x] = phase[x]
      BY <2>11 DEF GiveUp, Queue!Settle, At
    <3> SUFFICES ASSUME NEW p \in Properties, AllIn(p)'
                 PROVE  computed'[p] = FactsAt(p)' \/ \E x \in UnitsAt(p)' : Owes(x, p)'
      BY DEF OwedInv
    <3>2. UnitsAt(p)' = UnitsAt(p) /\ FactsAt(p)' = FactsAt(p)
      BY <3>1 DEF UnitsAt, FactsAt
    <3>3. CASE u \in UnitsAt(p)
      BY <3>1, <3>2, <3>3 DEF Owes
    <3>4. CASE u \notin UnitsAt(p)
      BY <2>10, <3>1, <3>2, <3>4 DEF Rest, Goto
    <3>5. QED
      BY <3>3, <3>4
  <2>12. CASE Commit(w, u)
    <3> DEFINE r == ReportOf[u]
               extracts == unit[u] \in Outstanding
    <3>1. /\ owner[u] = w /\ pc[w] = "commit" /\ UNCHANGED <<jobs, prop, others, computed>>
          /\ pc' = [pc EXCEPT ![w] = IF extracts THEN "account" ELSE "recompute"]
          /\ unit' = [unit EXCEPT ![u] = IF extracts THEN "extracted" ELSE @]
          /\ property' = [property EXCEPT ![r] = IF prop[w] # None THEN prop[w] ELSE @]
      BY <2>12 DEF Commit, At, Goto, AfterCommit
    <3>2. Reliable(w, u)
      BY <3>1 DEF ReliableInv, HasResolved
    <3>3. property[r] # None => property' = property
      BY <3>1, <3>2 DEF Reliable
    <3>4. CASE ~extracts
      <4>1. UNCHANGED <<unit, property>>
        BY <3>1, <3>2, <3>4 DEF Reliable
      <4>2. \A x \in Units : facts'[x] = facts[x]
        <5> SUFFICES ASSUME NEW x \in UnitsOf(r) \ others[w]
                     PROVE  FactsSeen(w, x, FALSE) = facts[x]
          BY <2>12, <3>4 DEF Commit
        <5>1. prop[w] # None => facts[x] \in {"none", prop[w]}
          BY <3>2, <3>4 DEF ReliableInv, FactsInv, Reliable, UnitsOf
        <5>2. QED
          BY <5>1 DEF FactsSeen
      <4>3. facts' = facts
        BY <2>12, <4>2 DEF Commit
      <4>4. \A p \in Properties : Owes(u, p) => Owes(u, p)'
        BY <3>1, <3>4 DEF Owes, UnitInv
      <4>5. QED
        BY <2>o, <3>1, <4>1, <4>3, <4>4, OwedKept
    <3>5. CASE extracts
      <4> SUFFICES ASSUME NEW p \in Properties, AllIn(p)'
                   PROVE  computed'[p] = FactsAt(p)' \/ \E x \in UnitsAt(p)' : Owes(x, p)'
        BY DEF OwedInv
      <4>1. CASE u \in UnitsAt(p)'
        <5>1. prop[w] = p /\ p # None
          BY <3>1, <3>2, <3>5, <4>1 DEF UnitsAt, Reliable
        <5>2. Counted(w, u) /\ u \notin others[w]
          BY <3>1, <3>2, <3>5 DEF Reliable, UnitInv
        <5>3. \A x \in Units \ {u} : unit'[x] = unit[x] /\ phase'[x] = phase[x]
          BY <3>1
        <5>4. \A x \in others[w] : x \in Units /\ property'[ReportOf[x]] = p
          BY <3>1, <5>1, <5>2 DEF Counted, CountedBy
        \* Whoever was counted has been given up since, and owes.
        <5>5. ASSUME NEW x \in others[w]
              PROVE  x \in UnitsAt(p)' /\ Owes(x, p)'
          <6>1. x \in UnitsAt(p)' /\ x \in Units \ {u}
            BY <5>2, <5>4 DEF UnitsAt
          <6>2. unit[x] \notin Outstanding
            BY <5>3, <6>1 DEF AllIn
          <6>3. unit[x] = "failed"
            BY <5>2, <6>1, <6>2 DEF Counted, CountedBy
          <6>4. phase'[x] = "dead"
            BY <5>3, <6>1, <6>3 DEF UnitInv
          <6>5. QED
            BY <6>1, <6>4 DEF Owes
        <5>6. others[w] = {} => Owes(u, p)'
          BY <3>1, <3>5, <5>1 DEF Owes
        <5>7. QED
          BY <4>1, <5>5, <5>6
      <4>2. CASE u \notin UnitsAt(p)'
        <5>1. property'[r] # p /\ property[r] # p
          BY <3>3, <4>2 DEF UnitsAt
        <5>2. UnitsAt(p)' = UnitsAt(p)
          BY <3>1, <5>1 DEF UnitsAt
        <5>3. ASSUME NEW x \in Units
              PROVE  facts'[x] = p <=> facts[x] = p
          <6>1. CASE x \in UnitsOf(r)
            <7>1. facts[x] # p
              BY <5>1, <6>1 DEF ReliableInv, FactsInv, UnitsOf
            <7>2. prop[w] # p
              BY <3>1, <5>1
            <7>3. facts'[x] \in {facts[x], "loose", prop[w]}
              BY <2>12 DEF Commit, FactsSeen
            <7>4. QED
              BY <7>1, <7>2, <7>3
          <6>2. CASE x \notin UnitsOf(r)
            BY <2>12, <6>2 DEF Commit
          <6>3. QED
            BY <6>1, <6>2
        <5>4. FactsAt(p)' = FactsAt(p)
          BY <5>3 DEF FactsAt
        <5>5. QED
          BY <2>10, <3>1, <4>2, <5>2, <5>4
      <4>3. QED
        BY <4>1, <4>2
    <3>6. QED
      BY <3>4, <3>5
  <2>13. QED
    BY <2>3, <2>4, <2>5, <2>6, <2>7, <2>8, <2>9, <2>11, <2>12 DEF Step
<1>3. QED
  BY <1>1, <1>2, TypeCorrect, BudgetInvariant, UnitInvariant, ReliableInvariant, PTL DEF Spec

\* A report whose units are all in, or one of whose units was given up, has
\* reached its final status.
ReportInv ==
  StartedOnce => \A r \in Reports :
      (UnitsOf(r) # {} /\ \A u \in UnitsOf(r) : unit[u] \notin Outstanding)
        \/ (\E u \in UnitsOf(r) : unit[u] = "failed")
      => report[r] # "extracting"

LEMMA ReportInvariant == ASSUME Paid \/ AllAttached PROVE Spec => []ReportInv
<1> USE FanInAssumption
<1>1. Init => ReportInv
  BY DEF Init, ReportInv
<1>2. TypeOK /\ UnitInv /\ ReliableInv /\ StartInv /\ ReportInv /\ [Next]_vars => ReportInv'
  <2> SUFFICES ASSUME TypeOK, UnitInv, ReliableInv, StartInv, ReportInv, [Next]_vars
               PROVE  ReportInv'
    OBVIOUS
  <2> USE DEF jobs, ledger, batchRow, local, history, TypeOK
  <2>1. ASSUME UNCHANGED <<report, estimates>>,
               \A x \in Units : /\ (unit'[x] \in Outstanding) <=> (unit[x] \in Outstanding)
                                /\ (unit'[x] = "failed") <=> (unit[x] = "failed")
        PROVE  ReportInv'
    BY <2>1 DEF ReportInv, StartedOnce, UnitsOf
  <2>2. CASE Estimate
    BY <2>2 DEF Estimate, ReportInv, StartedOnce, UnitsOf
  <2>3. CASE Start
    BY <2>3 DEF Start, StartInv, Fresh, ReportInv, StartedOnce, UnitsOf, Outstanding
  <2>4. CASE Reclaim \/ UNCHANGED vars
    BY <2>1, <2>4 DEF Reclaim, vars
  <2> SUFFICES ASSUME NEW w \in Workers, NEW u \in Units,
                      Take(w, u) \/ Step(w, u) \/ Crash(w, u)
               PROVE  ReportInv'
    BY <2>2, <2>3, <2>4 DEF Next, Finished
  <2>5. CASE Mark(w, u)
    BY <2>1, <2>5 DEF Mark, Outstanding
  <2>6. CASE Commit(w, u)
    <3> DEFINE r == ReportOf[u]
               extracts == unit[u] \in Outstanding
    <3>1. /\ owner[u] = w /\ pc[w] = "commit" /\ estimates' = estimates
          /\ unit' = [unit EXCEPT ![u] = IF extracts THEN "extracted" ELSE @]
          /\ report' = [report EXCEPT ![r] = IF ~LastOfReport(w, r) THEN @
                                 ELSE IF prop[w] = None THEN "unresolved" ELSE "extracted"]
      BY <2>6 DEF Commit, At
    <3>2. Reliable(w, u)
      BY <3>1 DEF ReliableInv, HasResolved
    <3>3. \A x \in Units \ {u} : unit'[x] = unit[x]
      BY <3>1
    <3> SUFFICES ASSUME StartedOnce, NEW q \in Reports,
                        (UnitsOf(q) # {} /\ \A x \in UnitsOf(q) : unit'[x] \notin Outstanding)
                          \/ (\E x \in UnitsOf(q) : unit'[x] = "failed")
                 PROVE  report'[q] # "extracting"
      BY <3>1 DEF ReportInv, StartedOnce, UnitsOf
    <3>4. report'[q] \in {report[q], "unresolved", "extracted"}
      BY <3>1
    <3>5. CASE \E x \in UnitsOf(q) : unit'[x] = "failed"
      <4>1. \E x \in UnitsOf(q) : unit[x] = "failed"
        BY <3>1, <3>5 DEF UnitsOf
      <4>2. QED
        BY <3>4, <4>1 DEF ReportInv
    <3>6. CASE q = r /\ extracts /\ \A x \in UnitsOf(q) : unit'[x] \notin Outstanding
      <4>1. Counted(w, u) /\ u \notin others[w]
        BY <3>1, <3>2, <3>6 DEF Reliable, UnitInv
      <4>2. ASSUME NEW x \in others[w] \cap UnitsOf(r)
            PROVE  x \in UnitsOf(q) /\ unit'[x] = "failed"
        <5>1. x \in Units \ {u} /\ unit[x] \notin Outstanding
          BY <3>3, <3>6, <4>1 DEF UnitsOf
        <5>2. unit[x] = "failed"
          BY <4>1, <5>1 DEF Counted, CountedBy
        <5>3. QED
          BY <3>3, <3>6, <5>1, <5>2
      <4>3. CASE LastOfReport(w, r)
        BY <3>1, <3>6, <4>3
      <4>4. CASE ~LastOfReport(w, r)
        BY <3>5, <4>2, <4>4 DEF LastOfReport
      <4>5. QED
        BY <4>3, <4>4
    <3>7. CASE /\ ~(q = r /\ extracts)
               /\ UnitsOf(q) # {} /\ \A x \in UnitsOf(q) : unit'[x] \notin Outstanding
      <4>1. \A x \in UnitsOf(q) : unit[x] \notin Outstanding
        BY <3>1, <3>7 DEF UnitsOf
      <4>2. report[q] # "extracting"
        BY <3>7, <4>1 DEF ReportInv
      <4>3. QED
        BY <3>4, <4>2
    <3>8. QED
      BY <3>5, <3>6, <3>7
  <2>7. CASE GiveUp(w, u)
    BY <2>7 DEF GiveUp, ReportInv, StartedOnce, UnitsOf, Outstanding
  <2>8. CASE ~Mark(w, u) /\ ~Commit(w, u) /\ ~GiveUp(w, u)
    BY <2>1, <2>8 DEF Take, Step, Crash, Check, Call, Reserve, Resolve, Lock, Count,
                      Account, Recompute, Close, Complete, Retry
  <2>9. QED
    BY <2>5, <2>6, <2>7, <2>8
<1>3. QED
  BY <1>1, <1>2, TypeCorrect, UnitInvariant, ReliableInvariant, StartInvariant, PTL DEF Spec

\* "finish_unit and the recompute after it leave nothing behind" whenever every
\* unit costs something or every report has its property from the start, for any
\* number of units, reports, properties and workers, whatever crashes, retries or
\* is given up: the row lock of the batch, taken for the money, or that of the
\* property (finish_unit: "lock the property row") is what the fan-in rests on.
THEOREM NothingIsLeftBehind == ASSUME Paid \/ AllAttached PROVE Spec => []NothingLeftBehind
<1> USE FanInAssumption
<1>1. TypeOK /\ UnitInv /\ ReliableInv /\ OwedInv /\ ReportInv => NothingLeftBehind
  <2> SUFFICES ASSUME TypeOK, UnitInv, ReliableInv, OwedInv, ReportInv, StartedOnce,
                      NEW p \in Properties, UnitsAt(p) # {},
                      \A u \in UnitsAt(p) : phase[u] = "done"
               PROVE  /\ computed[p] = UnitsAt(p)
                      /\ \A u \in UnitsAt(p) : report[ReportOf[u]] # "extracting"
    BY DEF NothingLeftBehind, UnitsAt
  <2> USE DEF TypeOK, Queue!TypeOK
  <2>1. \A u \in UnitsAt(p) : u \in Units /\ unit[u] = "extracted"
    BY DEF UnitsAt, UnitInv
  <2>2. FactsAt(p) = UnitsAt(p)
    BY <2>1 DEF FactsAt, UnitsAt, UnitInv, ReliableInv, FactsInv
  <2>3. \A u \in UnitsAt(p) : ~Owes(u, p)
    BY <2>1 DEF Owes, UnitInv
  <2>4. AllIn(p)
    BY <2>1 DEF AllIn, Outstanding
  <2>5. computed[p] = UnitsAt(p)
    BY <2>2, <2>3, <2>4 DEF OwedInv
  <2>6. ASSUME NEW u \in UnitsAt(p)
        PROVE  report[ReportOf[u]] # "extracting"
    <3>1. u \in UnitsOf(ReportOf[u]) /\ UnitsOf(ReportOf[u]) \subseteq UnitsAt(p)
      BY <2>1 DEF UnitsOf, UnitsAt
    <3>2. \A x \in UnitsOf(ReportOf[u]) : unit[x] \notin Outstanding
      BY <2>4, <3>1 DEF AllIn
    <3>3. QED
      BY <2>1, <3>1, <3>2 DEF ReportInv
  <2>7. QED
    BY <2>5, <2>6
<1>2. QED
  BY <1>1, TypeCorrect, UnitInvariant, ReliableInvariant, OwedInvariant, ReportInvariant, PTL
--------------------------------------------------------------------------------
(* What BatchEnds rests on.  TLC checks that a running batch ends; that it *)
(* never runs with nobody left to end it, and that its handlers never wait *)
(* in a circle, are invariants, and hold for any number of units.          *)

Wanted == {"pending", "working"}

\* The units the counters have yet to hear of: one that is still to be extracted,
\* or whose worker is about to account for it.
Due == {u \in Units : \/ unit[u] \in Outstanding /\ phase[u] \in Wanted
                      \/ \E w \in Workers : At(w, u, "account")}

AttendedInv == crashes = 0 /\ batch = "running" =>
                 /\ completed + failed < total
                 /\ total <= completed + failed + Cardinality(Due)

\* A running batch that has lost no worker has a unit whose job will be run: it is
\* never left running, its counters short of the total, with its queue empty.
BatchIsAttended == crashes = 0 /\ batch = "running" => \E u \in Units : phase[u] \in Wanted

\* A step that settles nobody's account and does not touch the counters.
LEMMA AttendedKept ==
  ASSUME TypeOK, TypeOK', AttendedInv, Due \subseteq Due',
         UNCHANGED <<total, completed, failed, crashes>>,
         batch' = "running" => batch = "running"
  PROVE  AttendedInv'
<1>1. Cardinality(Due) <= Cardinality(Due')
  <2>1. IsFiniteSet(Due')
    BY FanInAssumption, FS_Subset DEF Due
  <2>2. QED
    BY <2>1, FS_Subset
<1>2. Cardinality(Due) \in Nat /\ Cardinality(Due') \in Nat
  BY FanInAssumption, FS_Subset, FS_CardinalityType DEF Due
<1>3. QED
  BY <1>1, <1>2 DEF AttendedInv, TypeOK

LEMMA AttendedInvariant == Spec => []AttendedInv
<1> USE FanInAssumption DEF Outstanding, Wanted
<1>1. Init => AttendedInv
  BY DEF Init, AttendedInv
<1>2. TypeOK /\ TypeOK' /\ BudgetInv /\ UnitInv /\ AttendedInv /\ [Next]_vars => AttendedInv'
  <2> SUFFICES ASSUME TypeOK, TypeOK', BudgetInv, UnitInv, AttendedInv, [Next]_vars
               PROVE  AttendedInv'
    OBVIOUS
  <2> USE DEF jobs, ledger, batchRow, local, history
  <2>1. CASE Estimate \/ UNCHANGED vars
    <3>1. /\ UNCHANGED <<unit, phase, owner, pc, total, completed, failed, crashes>>
          /\ batch' = "running" => batch = "running"
      BY <2>1 DEF Estimate, vars
    <3>2. QED
      BY <3>1, AttendedKept DEF Due, At
  <2>2. CASE Start
    <3> DEFINE queued == {u \in Units : unit[u] = "queued"}
    <3>1. queued \subseteq Due'
      BY <2>2 DEF Start, Queue!Submit, Due
    <3>2. IsFiniteSet(Due') /\ IsFiniteSet(queued)
      BY FS_Subset DEF Due
    <3>3. Cardinality(queued) <= Cardinality(Due')
      BY <3>1, <3>2, FS_Subset
    <3>4. Cardinality(queued) \in Nat /\ Cardinality(Due') \in Nat
      BY <3>2, FS_CardinalityType
    <3>5. Cardinality(queued) # 0
      BY <2>2, <3>2, FS_EmptySet DEF Start
    <3>6. total' = Cardinality(queued) /\ completed' = 0 /\ failed' = 0
      BY <2>2 DEF Start
    <3>7. QED
      BY <3>3, <3>4, <3>5, <3>6 DEF AttendedInv
  <2>3. CASE Reclaim
    <3>1. UNCHANGED <<unit, owner, pc, batch, total, completed, failed, crashes>>
      BY <2>3 DEF Reclaim, Queue!Reclaim
    <3>2. \A u \in Units : phase[u] \in Wanted => phase'[u] \in Wanted
      BY <2>3 DEF Reclaim, Queue!Reclaim
    <3>3. Due \subseteq Due'
      BY <3>1, <3>2 DEF Due, At
    <3>4. QED
      BY <3>1, <3>3, AttendedKept
  <2> SUFFICES ASSUME NEW w \in Workers, NEW u \in Units,
                      Take(w, u) \/ Step(w, u) \/ Crash(w, u)
               PROVE  AttendedInv'
    BY <2>1, <2>2, <2>3 DEF Next, Finished
  <2>4. CASE Crash(w, u)
    BY <2>4 DEF Crash, AttendedInv, TypeOK
  <2>5. CASE GiveUp(w, u)
    BY <2>5 DEF GiveUp, AttendedInv
  <2>6. CASE Take(w, u)
    <3>1. owner[u] = None /\ pc[w] = "idle" /\ phase[u] = "pending"
      BY <2>6 DEF Take, Queue!Begin, UnitInv, TypeOK, Queue!TypeOK
    <3>2. Due \subseteq Due'
      BY <2>6, <3>1 DEF Take, Queue!Begin, Goto, Due, At, TypeOK, Queue!TypeOK
    <3>3. UNCHANGED <<batch, total, completed, failed, crashes>>
      BY <2>6 DEF Take
    <3>4. QED
      BY <3>2, <3>3, AttendedKept
  <2>o. \A x \in Units, v \in Workers : owner[u] = w /\ owner[x] = v /\ x # u => v # w
    BY DEF BudgetInv, OneUnit
  <2>7. CASE Account(w, u)
    <3>1. /\ owner[u] = w /\ UNCHANGED <<unit, phase, owner>>
          /\ Goto(w, "recompute")
      BY <2>7 DEF Account, At
    <3>2. Due \ {u} \subseteq Due'
      <4> SUFFICES ASSUME NEW x \in Units, x \in Due, x # u
                   PROVE  x \in Due'
        BY DEF Due
      <4>1. \A v \in Workers : owner[x] = v => v # w /\ pc'[v] = pc[v]
        BY <2>o, <3>1 DEF Goto, TypeOK
      <4>2. QED
        BY <3>1, <4>1 DEF Due, At
    <3>3. IsFiniteSet(Due) /\ IsFiniteSet(Due')
      BY FS_Subset DEF Due
    <3>4. Cardinality(Due) - 1 <= Cardinality(Due')
      <4>1. Cardinality(Due \ {u}) <= Cardinality(Due')
        BY <3>2, <3>3, FS_Subset
      <4>2. /\ Cardinality(Due) \in Nat
            /\ Cardinality(Due \ {u}) = IF u \in Due THEN Cardinality(Due) - 1
                                        ELSE Cardinality(Due)
            /\ Cardinality(Due') \in Nat
        BY <3>3, FS_RemoveElement, FS_CardinalityType
      <4>3. QED
        BY <4>1, <4>2
    <3>5. completed' + failed' = completed + failed + 1
      BY <2>7 DEF Account, TypeOK
    <3>6. batch' = "running" => batch = "running" /\ ~AllLanded(completed + failed + 1)
      BY <2>7 DEF Account
    <3>7. UNCHANGED <<total, crashes>>
      BY <2>7 DEF Account
    <3>8. Cardinality(Due) \in Nat /\ Cardinality(Due') \in Nat
      BY <3>3, FS_CardinalityType
    <3>9. QED
      BY <3>4, <3>5, <3>6, <3>7, <3>8 DEF AttendedInv, AllLanded, TypeOK
  <2>8. CASE Step(w, u) /\ ~Account(w, u) /\ ~GiveUp(w, u)
    <3>1. /\ UNCHANGED <<total, completed, failed, crashes>>
          /\ batch' = "running" => batch = "running"
      BY <2>8 DEF Step, Mark, Check, Call, Reserve, Resolve, Lock, Count, Commit,
                  Recompute, Close, Complete, Retry
    <3>2. owner[u] = w /\ pc[w] # "account"
      BY <2>8 DEF Step, At, Mark, Check, Call, Reserve, Resolve, Lock, Count, Commit,
                  Recompute, Close, Complete, Retry
    <3>3. \A v \in Workers : v # w => pc'[v] = pc[v]
      BY <2>8 DEF Step, Mark, Check, Call, Reserve, Resolve, Lock, Count, Commit,
                  Recompute, Close, Complete, Retry, Rest, Goto, TypeOK
    <3>4. \A x \in Units : x # u => /\ unit'[x] = unit[x]
                                    /\ phase'[x] = phase[x]
                                    /\ owner'[x] = owner[x]
      BY <2>8 DEF Step, Mark, Check, Call, Reserve, Resolve, Lock, Count, Commit,
                  Recompute, Close, Complete, Retry, Queue!Settle, TypeOK, Queue!TypeOK
    <3>5. u \in Due => u \in Due'
      <4> SUFFICES ASSUME u \in Due PROVE u \in Due'
        OBVIOUS
      <4>1. unit[u] \in Outstanding /\ phase[u] \in Wanted
        BY <2>o, <3>2 DEF Due, At
      <4>2. CASE Commit(w, u)
        BY <4>1, <4>2 DEF Commit, AfterCommit, Goto, Due, At, TypeOK
      <4>3. CASE Complete(w, u)
        BY <4>1, <4>3 DEF Complete, At, UnitInv
      <4>4. CASE Retry(w, u)
        BY <4>1, <4>4 DEF Retry, Due
      <4>5. CASE Mark(w, u)
        BY <4>1, <4>5 DEF Mark, Due, TypeOK
      <4>6. CASE UNCHANGED <<unit, phase>>
        BY <4>1, <4>6 DEF Due
      <4>7. QED
        BY <2>8, <4>2, <4>3, <4>4, <4>5, <4>6
           DEF Step, Check, Call, Reserve, Resolve, Lock, Count, Recompute, Close
    <3>6. Due \subseteq Due'
      <4> SUFFICES ASSUME NEW x \in Units, x \in Due, x # u
                   PROVE  x \in Due'
        BY <3>5 DEF Due
      <4>1. \A v \in Workers : owner[x] = v => v # w
        BY <2>o, <3>2
      <4>2. QED
        BY <3>3, <3>4, <4>1 DEF Due, At
    <3>7. QED
      BY <3>1, <3>6, AttendedKept
  <2>9. QED
    BY <2>4, <2>5, <2>6, <2>7, <2>8
<1>3. QED
  BY <1>1, <1>2, TypeCorrect, BudgetInvariant, UnitInvariant, PTL DEF Spec

\* Nobody is forgotten, for any number of units and workers, however often the
\* batch is estimated and started: the counters fall short of the total by no more
\* than the units that will still be counted.
THEOREM RunningBatchIsAttended == Spec => []BatchIsAttended
<1>1. TypeOK /\ UnitInv /\ AttendedInv => BatchIsAttended
  <2> SUFFICES ASSUME TypeOK, UnitInv, AttendedInv, crashes = 0, batch = "running"
               PROVE  \E u \in Units : phase[u] \in Wanted
    BY DEF BatchIsAttended
  <2>1. Due # {}
    <3>1. Cardinality(Due) # 0
      <4> Cardinality(Due) \in Nat
        BY FanInAssumption, FS_Subset, FS_CardinalityType DEF Due
      <4> QED
        BY DEF AttendedInv, TypeOK
    <3>2. QED
      BY <3>1, FS_EmptySet
  <2>2. PICK u \in Units : u \in Due
    BY <2>1 DEF Due
  <2>3. QED
    BY <2>2, FanInAssumption DEF Due, At, UnitInv, Wanted
<1>2. QED
  BY <1>1, TypeCorrect, UnitInvariant, AttendedInvariant, PTL
--------------------------------------------------------------------------------
(* Locks.  A handler takes the batches row, the identity and the property  *)
(* in that order, and what it takes after them needs no lock; so somebody  *)
(* among those at work is never waiting.                                   *)

KnownTo(u) == {v \in UnitsOf(ReportOf[u]) :
                 facts[v] # "none" \/ (v = u /\ unit[u] \in Outstanding)}

\* The handler's next step is blocked by a lock: the negation of its guard.
Waits(w, u) ==
  \/ pc[w] = "reserve" /\ Price[u] > 0 /\ ~BatchUnlocked
  \/ pc[w] = "account" /\ ~BatchUnlocked
  \/ pc[w] = "close" /\ batch = "computing" /\ ~BatchUnlocked
  \/ pc[w] = "raise" /\ attempts[u] >= MaxAttempts /\ ~BatchUnlocked
  \/ /\ pc[w] = "resolve"
     /\ property[ReportOf[u]] = None /\ KnownTo(u) \cap Locating # {}
     /\ \E v \in Workers : HoldsIdentity(v, PropertyOf[ReportOf[u]])
  \/ pc[w] = "lock" /\ \E v \in Workers : HoldsProperty(v, prop[w])

\* A busy worker has a unit, the converse of OneUnit.
OwnsOne == \A w \in Workers : pc[w] # "idle" => \E u \in Units : owner[u] = w

LEMMA OwnsOneInvariant == Spec => []OwnsOne
<1> USE FanInAssumption
<1>1. Init => OwnsOne
  BY DEF Init, OwnsOne
<1>2. TypeOK /\ BudgetInv /\ UnitInv /\ OwnsOne /\ [Next]_vars => OwnsOne'
  <2> SUFFICES ASSUME TypeOK, BudgetInv, UnitInv, OwnsOne, [Next]_vars PROVE OwnsOne'
    OBVIOUS
  <2> USE DEF jobs, ledger, batchRow, local, history
  <2>1. CASE UNCHANGED <<owner, pc>>
    BY <2>1 DEF OwnsOne
  <2>2. CASE Estimate \/ Start \/ Reclaim \/ UNCHANGED vars
    BY <2>1, <2>2 DEF Estimate, Start, Reclaim, Queue!Submit, Queue!Reclaim, vars
  <2> SUFFICES ASSUME NEW w \in Workers, NEW u \in Units,
                      Take(w, u) \/ Step(w, u) \/ Crash(w, u), NEW v \in Workers,
                      pc'[v] # "idle"
               PROVE  \E x \in Units : owner'[x] = v
    BY <2>2 DEF Next, Finished, OwnsOne
  <2>3. CASE Take(w, u)
    <3>1. owner[u] = None
      BY <2>3 DEF Take, Queue!Begin, UnitInv, TypeOK, Queue!TypeOK
    <3>2. owner' = [owner EXCEPT ![u] = w] /\ Goto(w, "mark")
      BY <2>3 DEF Take, Queue!Begin
    <3>3. QED
      BY <3>1, <3>2 DEF Goto, OwnsOne, TypeOK, Queue!TypeOK
  <2>4. CASE Complete(w, u) \/ Retry(w, u) \/ GiveUp(w, u) \/ Crash(w, u)
    <3>1. /\ owner[u] = w /\ owner' = [owner EXCEPT ![u] = None]
          /\ Goto(w, "idle")
      BY <2>4 DEF Complete, Retry, GiveUp, Crash, Rest, At, Queue!Settle, Queue!Lose
    <3>2. v # w /\ pc'[v] = pc[v]
      BY <3>1 DEF Goto, TypeOK
    <3>3. QED
      BY <3>1, <3>2 DEF OwnsOne, TypeOK, Queue!TypeOK
  <2>5. CASE Step(w, u) /\ UNCHANGED owner
    <3>1. owner[u] = w /\ pc' = [pc EXCEPT ![w] = pc'[w]]
      BY <2>5 DEF Step, Mark, Check, Call, Reserve, Resolve, Lock, Count, Commit, Account,
                  Recompute, Close, Complete, Retry, GiveUp, Rest, Goto, At, TypeOK
    <3>2. QED
      BY <2>5, <3>1 DEF OwnsOne, TypeOK
  <2>6. QED
    BY <2>3, <2>4, <2>5 DEF Step, Mark, Check, Call, Reserve, Resolve, Lock, Count,
                            Commit, Account, Recompute, Close
<1>3. QED
  BY <1>1, <1>2, TypeCorrect, BudgetInvariant, UnitInvariant, PTL DEF Spec

\* Of the handlers at work, the one that is farthest along waits for nobody.
LEMMA SomeoneIsFree ==
  ASSUME TypeOK, OwnsOne, NEW w \in Workers, pc[w] # "idle"
  PROVE  \E v \in Workers, u \in Units : owner[u] = v /\ ~Waits(v, u)
<1>1. ASSUME NEW v \in Workers, pc[v] # "idle", \A u \in Units : ~Waits(v, u)
      PROVE  \E x \in Workers, u \in Units : owner[u] = x /\ ~Waits(x, u)
  BY <1>1 DEF OwnsOne
<1>2. CASE \E v \in Workers : pc[v] \in {"count", "commit"}
  BY <1>1, <1>2 DEF Waits
<1>3. CASE ~ \E v \in Workers : pc[v] \in {"count", "commit"}
  <2>1. \A v \in Workers : \A p : ~HoldsProperty(v, p)
    BY <1>3 DEF HoldsProperty
  <2>2. CASE \E v \in Workers : pc[v] = "lock"
    BY <1>1, <2>1, <2>2 DEF Waits
  <2>3. CASE ~ \E v \in Workers : pc[v] = "lock"
    <3>1. \A v \in Workers : \A p : ~HoldsIdentity(v, p)
      BY <1>3, <2>3 DEF HoldsIdentity
    <3>2. CASE \E v \in Workers : pc[v] = "resolve"
      BY <1>1, <3>1, <3>2 DEF Waits
    <3>3. CASE ~ \E v \in Workers : pc[v] = "resolve"
      <4>1. BatchUnlocked
        BY <1>3, <2>3, <3>3 DEF BatchUnlocked, HoldsBatch
      <4>2. \A u \in Units : ~Waits(w, u)
        BY <2>1, <3>1, <4>1 DEF Waits
      <4>3. QED
        BY <1>1, <4>2
    <3>4. QED
      BY <3>2, <3>3
  <2>4. QED
    BY <2>2, <2>3
<1>4. QED
  BY <1>2, <1>3

\* While a unit's job is wanted, a step other than a crash is possible: a lost job
\* can be put back, an idle worker can take one, or a busy one goes on.
WorkGoesOn ==
  (\E u \in Units : phase[u] \in Wanted)
    => \/ \E u \in Units : phase[u] = "working" /\ owner[u] = None
       \/ \E w \in Workers, u \in Units : pc[w] = "idle" /\ phase[u] = "pending"
       \/ \E w \in Workers, u \in Units : owner[u] = w /\ ~Waits(w, u)

\* Handlers never wait in a circle on the batches row, the advisory lock of an
\* identity and the FOR UPDATE on a property, for any number of workers.
THEOREM WorkNeverStops == ASSUME Workers # {} PROVE Spec => []WorkGoesOn
<1>1. TypeOK /\ OwnsOne /\ BudgetInv => WorkGoesOn
  <2> SUFFICES ASSUME TypeOK, OwnsOne, BudgetInv, NEW u \in Units, phase[u] \in Wanted
               PROVE  \/ \E x \in Units : phase[x] = "working" /\ owner[x] = None
                      \/ \E w \in Workers, x \in Units : pc[w] = "idle" /\ phase[x] = "pending"
                      \/ \E w \in Workers, x \in Units : owner[x] = w /\ ~Waits(w, x)
    BY DEF WorkGoesOn
  <2>1. CASE phase[u] = "working" /\ owner[u] = None
    BY <2>1
  <2>2. CASE phase[u] = "working" /\ owner[u] # None
    <3>1. owner[u] \in Workers /\ pc[owner[u]] # "idle"
      BY <2>2 DEF TypeOK, Queue!TypeOK, BudgetInv, OneUnit
    <3>2. QED
      BY <3>1, SomeoneIsFree
  <2>3. CASE phase[u] = "pending"
    BY <2>3, SomeoneIsFree
  <2>4. QED
    BY <2>1, <2>2, <2>3 DEF Wanted
<1>2. QED
  BY <1>1, TypeCorrect, BudgetInvariant, OwnsOneInvariant, PTL
--------------------------------------------------------------------------------
(* The unit jobs keep JobContract: handlers take, settle and lose them as  *)
(* the queue promises, whatever else their transactions do.                *)

\* Every step of the batch is a step of the queue's contract or leaves the jobs
\* alone, so the model of the batch rests on nothing the queue does not promise.
THEOREM UnitJobsKeepContract == Spec => Queue!Spec
<1>1. Init => Queue!Init
  BY DEF Init
<1>2. [Next]_vars => [Queue!Next]_Queue!vars
  <2> SUFFICES ASSUME [Next]_vars PROVE Queue!Next \/ UNCHANGED <<phase, owner>>
    BY DEF Queue!vars
  <2> USE DEF jobs, Queue!Next
  <2>1. CASE UNCHANGED <<phase, owner>>
    BY <2>1
  <2>2. CASE Start
    <3> DEFINE asked == {u \in Units : unit[u] = "queued" /\ phase[u] \notin {"pending", "working"}}
    <3>1. UNCHANGED <<phase, owner>> \/ Queue!Submit(asked)
      BY <2>2 DEF Start
    <3>2. asked \in SUBSET Units
      OBVIOUS
    <3>3. QED
      BY <3>1, <3>2
  <2>3. CASE Estimate \/ Reclaim \/ UNCHANGED vars
    BY <2>3 DEF Estimate, Reclaim, vars
  <2> SUFFICES ASSUME NEW w \in Workers, NEW u \in Units,
                      Take(w, u) \/ Step(w, u) \/ Crash(w, u)
               PROVE  Queue!Next \/ UNCHANGED <<phase, owner>>
    BY <2>2, <2>3 DEF Next, Finished
  <2>4. CASE Take(w, u) \/ Complete(w, u) \/ Retry(w, u) \/ GiveUp(w, u) \/ Crash(w, u)
    BY <2>4 DEF Take, Complete, Retry, GiveUp, Crash
  <2>5. QED
    BY <2>1, <2>4 DEF Step, Mark, Check, Call, Reserve, Resolve, Lock, Count,
                      Commit, Account, Recompute, Close
<1>3. QED
  BY <1>1, <1>2, PTL DEF Spec, Queue!Spec
================================================================================
