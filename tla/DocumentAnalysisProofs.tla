------------------------ MODULE DocumentAnalysisProofs ------------------------
(***************************************************************************)
(* Theorems about DocumentAnalysis for any documents, entities, properties *)
(* and workers, and any number of runs, attempts, requests and crashes:    *)
(* the types; results and the evidence they are computed from; what stays  *)
(* published; complete batches; runs that are never forgotten; locks.      *)
(***************************************************************************)
EXTENDS DocumentAnalysis, FiniteSetTheorems, TLAPS

\* The steps of a handler that holds its document, and those in which it
\* publishes an entity.
Busy       == {"discover", "entities", "stage", "load", "activate", "refresh", "status"}
Publishing == {"stage", "load", "activate"}

\* A handler knows what it works on.
Knows == \A w \in Workers : /\ pc[w] \in Busy => cur[w] \in Runs
                            /\ pc[w] \in Publishing => item[w] \in Entities
                            /\ pc[w] \in {"refresh", "status"} => verdict[w] \in Terminal

Typed == TypeOK /\ Knows

--------------------------------------------------------------------------------
(* Type correctness.                                                       *)

\* An update with a value of the range keeps a function's type.
LEMMA UpdateType ==
  ASSUME NEW S, NEW T, NEW f \in [S -> T], NEW x, NEW y \in T
  PROVE  [f EXCEPT ![x] = y] \in [S -> T]
OBVIOUS

\* The job table keeps its type in every step of the contract a job takes.
LEMMA QueueTypes ==
  ASSUME Queue!TypeOK, NEW w \in Workers, NEW j \in Jobs,
         Queue!Begin(j, w) \/ Queue!Settle(j, w) \/ Queue!Lose(j, w)
  PROVE  Queue!TypeOK'
BY DEF Queue!TypeOK, Queue!Phases, Queue!Begin, Queue!Settle, Queue!Lose

\* The latest generation is a generation, or 0.
LEMMA LatestType ==
  ASSUME NEW d
  PROVE  Latest(d) \in 0..MaxRuns
<1> DEFINE made == {g \in Generations : run[<<d, g>>] # "none"}
<1>1. IsFiniteSet(Generations) /\ Cardinality(Generations) = MaxRuns
  BY AnalysisAssumption, FS_Interval DEF Generations
<1>2. made \in SUBSET Generations
  OBVIOUS
<1>3. IsFiniteSet(made) /\ Cardinality(made) <= MaxRuns
  BY <1>1, <1>2, FS_Subset
<1>4. Cardinality(made) \in Nat
  BY <1>3, FS_CardinalityType
<1>5. QED
  BY <1>3, <1>4, AnalysisAssumption DEF Latest

\* A batch's derived status is a status, and so is a run's conclusion.
LEMMA StatusTypes ==
  /\ \A status : BatchStatus(status) \in {"analyzing"} \cup Terminal
  /\ \A r, flagged : Conclusion(r, flagged) \in Terminal
BY DEF BatchStatus, Conclusion, Terminal, Finished

\* What a row stands for is extractions of its run.
LEMMA ContentType ==
  ASSUME sources \in [Rows -> SUBSET Entities], NEW row \in Rows
  PROVE  Content(row) \subseteq Rows
<1>1. row[1] \in Runs /\ sources[row] \subseteq Entities
  BY DEF Rows
<1>2. QED
  BY <1>1 DEF Content, Rows

\* Every variable keeps its type.
THEOREM TypeCorrect == Spec => [](TypeOK /\ Knows)
<1> USE AnalysisAssumption DEF Knows, Busy, Publishing
<1>1. Init => Typed
  <2> SUFFICES ASSUME Init PROVE Typed
    OBVIOUS
  <2>1. Queue!TypeOK
    BY DEF Init, Queue!TypeOK, Queue!Phases
  <2>2. /\ results \in [Properties -> SUBSET Rows]
        /\ found \in [Runs -> SUBSET Entities]
        /\ sources \in [Rows -> SUBSET Entities]
    BY DEF Init
  <2>3. /\ todo \in [Workers -> SUBSET Entities]
        /\ staged \in [Workers -> SUBSET Rows]
    BY DEF Init
  <2>4. /\ report \in [Documents -> {"analyzing"} \cup Terminal]
        /\ run \in [Runs -> {"none"} \cup InFlight \cup Terminal]
    BY DEF Init
  <2>5. QED
    BY <2>1, <2>2, <2>3, <2>4 DEF Init, TypeOK, Typed
<1>2. Typed /\ [Next]_vars => Typed'
  <2> SUFFICES ASSUME Typed, [Next]_vars PROVE Typed'
    OBVIOUS
  <2> USE DEF jobs, runs, rows, local, history, Goto, On, TypeOK, Typed
  <2>1. CASE UNCHANGED vars \/ Rests
    BY <2>1 DEF vars, Rests, Queue!TypeOK
  <2>2. ASSUME NEW d \in Documents, NEW reanalyze \in BOOLEAN, Schedule(d, reanalyze)
        PROVE  Typed'
    <3> DEFINE g == Latest(d)
               fresh == g = 0 \/ (reanalyze /\ run[<<d, g>>] \notin InFlight)
               last == <<d, IF fresh THEN g + 1 ELSE g>>
    <3>1. last \in Runs /\ last \in Jobs
      BY <2>2, LatestType DEF Schedule, Runs, Jobs, Generations
    <3>2. run' \in [Runs -> {"none"} \cup InFlight \cup Terminal]
      BY <2>2 DEF Schedule, InFlight
    <3>3. report' \in [Documents -> {"analyzing"} \cup Terminal]
      BY <2>2 DEF Schedule
    <3>4. Queue!TypeOK' /\ attempts' \in [Jobs -> Nat]
      <4>1. \/ UNCHANGED jobs
            \/ Queue!Submit({last}) /\ attempts' = [attempts EXCEPT ![last] = 0]
        BY <2>2 DEF Schedule
      <4> HIDE DEF last
      <4>2. CASE UNCHANGED jobs
        BY <4>2 DEF Queue!TypeOK
      <4>3. CASE Queue!Submit({last}) /\ attempts' = [attempts EXCEPT ![last] = 0]
        BY <3>1, <4>3 DEF Queue!Submit, Queue!TypeOK, Queue!Phases
      <4>4. QED
        BY <4>1, <4>2, <4>3
    <3>5. {requests', crashes'} \subseteq Nat
      BY <2>2 DEF Schedule
    <3>6. UNCHANGED <<discovered, found, rows, batch, results, pc, local, crashes>>
      BY <2>2 DEF Schedule
    <3>7. QED
      BY <3>2, <3>3, <3>4, <3>5, <3>6
  <2>3. CASE Reclaim
    <3>1. Queue!TypeOK'
      BY <2>3 DEF Reclaim, Queue!Reclaim, Queue!TypeOK, Queue!Phases
    <3>2. QED
      BY <2>3, <3>1 DEF Reclaim
  <2> SUFFICES ASSUME NEW w \in Workers, NEW j \in Jobs, Take(w, j) \/ Step(w, j) \/ Crash(w, j)
               PROVE  Typed'
    BY <2>1, <2>2, <2>3 DEF Next
  <2>a. j[1] \in Documents
    BY DEF Jobs
  <2>4. CASE Take(w, j)
    BY <2>4, QueueTypes DEF Take
  <2>5. CASE Open(w, j)
    <3>1. cur' \in [Workers -> Runs \cup {None}] /\ cur'[w] \in Runs
      <4>1. <<j[1], IF j[2] > 0 THEN j[2] ELSE IF Latest(j[1]) = 0 THEN 1 ELSE Latest(j[1])>> \in Runs
        BY <2>a, LatestType DEF Jobs, Runs, Generations
      <4>2. QED
        BY <2>5, <4>1 DEF Open
    <3>2. run' \in [Runs -> {"none"} \cup InFlight \cup Terminal]
      BY <2>5 DEF Open, InFlight
    <3>3. /\ verdict' \in [Workers -> Terminal \cup {None}]
          /\ pc'[w] = "refresh" => verdict'[w] \in Terminal
      BY <2>5 DEF Open, Verdict, Terminal
    <3>4. /\ pc' = [pc EXCEPT ![w] = pc'[w]] /\ pc'[w] \in {"refresh", "discover"}
          /\ \A v \in Workers : v # w => cur'[v] = cur[v] /\ verdict'[v] = verdict[v]
      BY <2>5 DEF Open, Verdict
    <3>5. UNCHANGED <<jobs, discovered, found, rows, report, batch, results, todo, item,
                 staged, mark, history>>
      BY <2>5 DEF Open
    <3>6. QED
      BY <3>1, <3>2, <3>3, <3>4, <3>5 DEF Queue!TypeOK
  <2>6. CASE Discover(w, j)
    <3>1. cur[w] \in Runs
      BY <2>6 DEF Discover
    <3>2. found' \in [Runs -> SUBSET Entities] /\ discovered' \in [Runs -> BOOLEAN]
      <4>1. CASE UNCHANGED <<discovered, found>>
        BY <4>1
      <4>2. ASSUME NEW S \in SUBSET Entities, NEW all \in BOOLEAN,
                   found' = [found EXCEPT ![cur[w]] = IF all THEN S ELSE @],
                   discovered' = [discovered EXCEPT ![cur[w]] = all]
            PROVE  found' \in [Runs -> SUBSET Entities] /\ discovered' \in [Runs -> BOOLEAN]
        BY <3>1, <4>2
      <4>3. QED
        BY <2>6, <4>1, <4>2 DEF Discover
    <3>3. todo' \in [Workers -> SUBSET Entities]
      BY <2>6, <3>1, <3>2 DEF Discover
    <3>4. /\ verdict' \in [Workers -> Terminal \cup {None}]
          /\ pc'[w] = "refresh" => verdict'[w] \in Terminal
          /\ \A v \in Workers : v # w => verdict'[v] = verdict[v]
      BY <2>6 DEF Discover, GiveUp, Verdict, Terminal
    <3>5. pc' = [pc EXCEPT ![w] = pc'[w]] /\ pc'[w] \in {"refresh", "entities", "raise"}
      BY <2>6 DEF Discover, GiveUp, Verdict
    <3>6. UNCHANGED <<jobs, run, rows, report, batch, results, cur, item, staged, mark, history>>
      BY <2>6 DEF Discover
    <3>7. QED
      BY <3>1, <3>2, <3>3, <3>4, <3>5, <3>6 DEF Queue!TypeOK
  <2>7. CASE Skip(w, j)
    <3>1. /\ verdict' \in [Workers -> Terminal \cup {None}]
          /\ pc'[w] = "refresh" => verdict'[w] \in Terminal
          /\ \A v \in Workers : v # w => verdict'[v] = verdict[v]
      BY <2>7 DEF Skip, GiveUp, Verdict, Terminal
    <3>2. pc' = [pc EXCEPT ![w] = pc'[w]] /\ pc'[w] \in {"refresh", "entities", "raise"}
      BY <2>7 DEF Skip, On, GiveUp, Verdict
    <3>3. todo' \in [Workers -> SUBSET Entities]
      BY <2>7 DEF Skip, Drop
    <3>4. UNCHANGED <<jobs, runs, rows, report, batch, results, cur, item, staged, mark, history>>
      BY <2>7 DEF Skip
    <3>5. pc[w] = "entities"
      BY <2>7 DEF Skip, On
    <3>6. QED
      BY <3>1, <3>2, <3>3, <3>4, <3>5 DEF Queue!TypeOK
  <2>8. CASE Extract(w, j)
    <3> PICK e \in todo[w] :
           /\ entity[<<cur[w], e>>] # "complete"
           /\ \/ /\ Record(<<cur[w], e>>)
                 /\ Drop(w, e)
                 /\ \/ Goto(w, "stage") /\ item' = [item EXCEPT ![w] = e]
                    \/ UNCHANGED <<pc, item>>
                 /\ UNCHANGED verdict
              \/ /\ Record(<<cur[w], e>>)
                 /\ Verdict(w, "paused_budget")
                 /\ UNCHANGED <<todo, item>>
              \/ /\ GiveUp(w)
                 /\ verdict'[w] # "paused_budget"
                 /\ UNCHANGED <<entity, sources, todo, item>>
      BY <2>8 DEF Extract
    <3>1. e \in Entities /\ cur[w] \in Runs
      BY <2>8 DEF Extract
    <3>2. /\ entity' \in [Rows -> {"none", "needs_review", "computing", "complete"}]
          /\ sources' \in [Rows -> SUBSET Entities]
      <4>1. CASE UNCHANGED <<entity, sources>>
        BY <4>1
      <4>2. CASE Record(<<cur[w], e>>)
        <5>1. {<<cur[w], e>>[2]} \in SUBSET Entities
          BY <3>1
        <5>2. QED
          BY <4>2, <5>1, UpdateType DEF Record
      <4>3. QED
        BY <4>1, <4>2
    <3>3. todo' \in [Workers -> SUBSET Entities]
      BY DEF Drop
    <3>4. /\ item' \in [Workers -> Entities \cup {None}]
          /\ pc'[w] = "stage" => item'[w] \in Entities
          /\ \A v \in Workers : v # w => item'[v] = item[v]
      BY <2>8, <3>1 DEF Verdict, GiveUp, Extract
    <3>5. /\ verdict' \in [Workers -> Terminal \cup {None}]
          /\ pc'[w] = "refresh" => verdict'[w] \in Terminal
          /\ \A v \in Workers : v # w => verdict'[v] = verdict[v]
      <4>1. UNCHANGED verdict \/ \E s \in {"paused_budget", "failed"} : Verdict(w, s)
        BY DEF GiveUp
      <4>2. CASE UNCHANGED verdict
        BY <2>8, <4>2 DEF Extract, Verdict, GiveUp, Terminal
      <4>3. ASSUME NEW s \in {"paused_budget", "failed"}, Verdict(w, s)
            PROVE  /\ verdict' \in [Workers -> Terminal \cup {None}]
                   /\ pc'[w] = "refresh" => verdict'[w] \in Terminal
                   /\ \A v \in Workers : v # w => verdict'[v] = verdict[v]
        BY <4>3 DEF Verdict, Terminal
      <4>4. QED
        BY <4>1, <4>2, <4>3
    <3>6. /\ pc' = [pc EXCEPT ![w] = pc'[w]]
          /\ pc'[w] \in {"entities", "stage", "refresh", "raise"}
      BY <2>8 DEF Verdict, GiveUp, Extract
    <3>7. UNCHANGED <<jobs, runs, active, report, batch, results, cur, staged, mark, history>>
      BY <2>8 DEF Extract
    <3>8. QED
      BY <3>1, <3>2, <3>3, <3>4, <3>5, <3>6, <3>7 DEF Queue!TypeOK
  <2>9. CASE Stage(w, j)
    <3>1. cur[w] \in Runs /\ item[w] \in Entities
      BY <2>9 DEF Stage
    <3>2. entity' \in [Rows -> {"none", "needs_review", "computing", "complete"}]
      BY <2>9 DEF Stage, Rejected
    <3>3. sources' \in [Rows -> SUBSET Entities]
      <4>1. \A o \in SameRun(<<cur[w], item[w]>>) : sources[o] \subseteq Entities
        BY DEF SameRun, ActiveAt
      <4>2. {item[w]} \cup UNION {sources[o] : o \in SameRun(<<cur[w], item[w]>>)} \subseteq Entities
        BY <3>1, <4>1
      <4>3. CASE UNCHANGED sources
        BY <4>3
      <4>4. CASE sources' = [sources EXCEPT ![<<cur[w], item[w]>>] =
                   {item[w]} \cup UNION {sources[o] : o \in SameRun(<<cur[w], item[w]>>)}]
        BY <4>2, <4>4, UpdateType
      <4>5. QED
        BY <2>9, <4>3, <4>4 DEF Stage
    <3>4. pc' = [pc EXCEPT ![w] = pc'[w]] /\ pc'[w] \in {"load", "entities"}
      BY <2>9 DEF Stage, Rejected
    <3>5. UNCHANGED <<jobs, runs, active, report, batch, results, local, history>>
      BY <2>9 DEF Stage
    <3>6. QED
      BY <3>1, <3>2, <3>3, <3>4, <3>5 DEF Queue!TypeOK
  <2>10. CASE Load(w, j)
    <3>1. cur[w] \in Runs /\ item[w] \in Entities
      BY <2>10 DEF Load
    <3>2. <<cur[w], item[w]>> \in Rows
      BY <3>1 DEF Rows
    <3>3. staged' \in [Workers -> SUBSET Rows]
      <4> DEFINE row == <<cur[w], item[w]>>
                 others == OthersAt(Doc(row), At(row))
      <4>1. \A o \in others : Content(o) \subseteq Rows
        BY ContentType DEF OthersAt, ActiveAt
      <4>2. Content(row) \subseteq Rows
        BY <3>2, ContentType
      <4>3. Content(row) \cup UNION {Content(o) : o \in others} \subseteq Rows
        <5> HIDE DEF row, others
        <5> QED
          BY <4>1, <4>2
      <4>4. QED
        BY <2>10, <4>3 DEF Load
    <3>4. QED
      BY <2>10, <3>1, <3>3 DEF Load, Queue!TypeOK
  <2>11. CASE Activate(w, j)
    <3>1. results' \in [Properties -> SUBSET Rows]
      BY <2>11 DEF Activate
    <3>2. /\ active' \in [Rows -> BOOLEAN]
          /\ entity' \in [Rows -> {"none", "needs_review", "computing", "complete"}]
      <4> DEFINE row == <<cur[w], item[w]>>
                 now == [o \in Rows |-> o = row \/ (active[o] /\ o \notin Superseded(row))]
      <4>1. now \in [Rows -> BOOLEAN]
        OBVIOUS
      <4>2. active' = active \/ active' = now
        BY <2>11 DEF Activate
      <4>3. \E st \in {"complete", "needs_review"} : entity' = [entity EXCEPT ![row] = st]
        BY <2>11 DEF Activate, Rejected
      <4>4. entity' \in [Rows -> {"none", "needs_review", "computing", "complete"}]
        <5>1. entity \in [Rows -> {"none", "needs_review", "computing", "complete"}]
          OBVIOUS
        <5>2. PICK st \in {"complete", "needs_review"} : entity' = [entity EXCEPT ![row] = st]
          BY <4>3
        <5> HIDE DEF row, TypeOK, Typed
        <5>3. QED
          BY <5>1, <5>2, UpdateType
      <4>5. active' \in [Rows -> BOOLEAN]
        <5> HIDE DEF now
        <5> QED
          BY <4>1, <4>2
      <4>6. QED
        BY <4>4, <4>5
    <3>3. /\ staged' \in [Workers -> SUBSET Rows]
          /\ item' \in [Workers -> Entities \cup {None}]
          /\ \A v \in Workers : v # w => item'[v] = item[v]
      BY <2>11 DEF Activate
    <3>4. pc' = [pc EXCEPT ![w] = "entities"] /\ cur[w] \in Runs
      BY <2>11 DEF Activate, Rejected
    <3>5. UNCHANGED <<jobs, runs, sources, report, batch, cur, todo, verdict, mark, history>>
      BY <2>11 DEF Activate
    <3>6. QED
      BY <3>1, <3>2, <3>3, <3>4, <3>5 DEF Queue!TypeOK
  <2>12. CASE Conclude(w, j)
    BY <2>12, StatusTypes DEF Conclude, Verdict, Queue!TypeOK
  <2>13. CASE Refresh(w, j)
    BY <2>13, StatusTypes DEF Refresh, Queue!TypeOK
  <2>14. CASE SetStatus(w, j)
    <3>1. verdict[w] \in Terminal
      BY <2>14 DEF SetStatus
    <3>2. run' \in [Runs -> {"none"} \cup InFlight \cup Terminal]
      BY <2>14, <3>1, UpdateType DEF SetStatus
    <3>3. report' \in [Documents -> {"analyzing"} \cup Terminal]
      BY <2>14, <3>1, UpdateType DEF SetStatus
    <3>4. batch' = batch \/ (batch' = mark[w] /\ mark[w] # None)
      BY <2>14 DEF SetStatus
    <3>5. QED
      BY <2>14, <3>2, <3>3, <3>4 DEF SetStatus, Queue!TypeOK
  <2> USE DEF Rest
  <2>15. CASE Complete(w, j)
    BY <2>15, QueueTypes DEF Complete
  <2>16. CASE Retry(w, j)
    BY <2>16, QueueTypes DEF Retry
  <2>17. CASE Die(w, j)
    <3>1. Queue!TypeOK'
      BY <2>17, QueueTypes DEF Die
    <3>2. /\ run' \in [Runs -> {"none"} \cup InFlight \cup Terminal]
          /\ report' \in [Documents -> {"analyzing"} \cup Terminal]
      <4>1. \/ UNCHANGED <<run, report>>
            \/ /\ run' = [run EXCEPT ![j] = "failed"]
               /\ report' = [report EXCEPT ![j[1]] = "failed"]
        BY <2>17 DEF Die
      <4>2. "failed" \in Terminal
        BY DEF Terminal
      <4>3. /\ run \in [Runs -> {"none"} \cup InFlight \cup Terminal]
            /\ report \in [Documents -> {"analyzing"} \cup Terminal]
        OBVIOUS
      <4> HIDE DEF TypeOK, Typed
      <4>4. run' \in [Runs -> {"none"} \cup InFlight \cup Terminal]
        BY <4>1, <4>2, <4>3, UpdateType
      <4>5. report' \in [Documents -> {"analyzing"} \cup Terminal]
        BY <4>1, <4>2, <4>3, UpdateType
      <4>6. QED
        BY <4>4, <4>5
    <3>3. batch' \in {"analyzing"} \cup Terminal
      BY <2>17, StatusTypes DEF Die, Terminal
    <3>4. QED
      BY <2>17, <3>1, <3>2, <3>3 DEF Die
  <2>18. CASE Crash(w, j)
    BY <2>18, QueueTypes DEF Crash
  <2>19. QED
    BY <2>4, <2>5, <2>6, <2>7, <2>8, <2>9, <2>10, <2>11, <2>12, <2>13, <2>14, <2>15,
       <2>16, <2>17, <2>18 DEF Step
<1>3. QED
  BY <1>1, <1>2, PTL DEF Spec, Typed
--------------------------------------------------------------------------------
(* Results and evidence.                                                   *)

\* The row a handler publishes.
RowOf(w) == <<cur[w], item[w]>>

\* The document's lock admits one handler, the property's lock one publication.
DocumentExclusive ==
  \A v, w \in Workers : pc[v] \in Busy /\ pc[w] \in Busy /\ cur[v][1] = cur[w][1] => v = w
PropertyExclusive ==
  \A v, w \in Workers :
     /\ pc[v] = "activate" /\ pc[w] = "activate"
     /\ PropertyOf[item[v]] = PropertyOf[item[w]]
     => v = w

\* Active rows are complete, and a row that is being published is not.
ActiveIsComplete == \A row \in Rows : active[row] => entity[row] = "complete"
ItemIsOpen == \A w \in Workers : pc[w] \in Publishing => entity[RowOf(w)] # "complete"

\* The evidence of a row's property once the row stands for its document.
After(row) == Content(row) \cup UNION {Content(o) : o \in OthersAt(Doc(row), At(row))}

\* What is staged is the evidence that there will be.
StagedIsAfter == \A w \in Workers : pc[w] = "activate" => staged[w] = After(RowOf(w))

EvidenceInv == /\ DocumentExclusive /\ PropertyExclusive
               /\ ActiveIsComplete /\ ItemIsOpen
               /\ StagedIsAfter /\ ResultsMatchEvidence

\* Evidence is a matter of what is active and of what active rows are made of.
LEMMA EvidenceKept ==
  ASSUME NEW p, UNCHANGED active, \A o \in Rows : active[o] => sources'[o] = sources[o]
  PROVE  Evidence(p)' = Evidence(p)
<1>1. ActiveAt(p)' = ActiveAt(p)
  BY DEF ActiveAt, At
<1>2. \A o \in ActiveAt(p) : Content(o)' = Content(o)
  BY DEF ActiveAt, Content
<1>3. Evidence(p)' = UNION {Content(o)' : o \in ActiveAt(p)}
  BY <1>1 DEF Evidence
<1>4. QED
  BY <1>2, <1>3 DEF Evidence

\* So is the evidence there will be, and of what the pending row is made of.
LEMMA AfterKept ==
  ASSUME NEW row, ActiveAt(At(row))' = ActiveAt(At(row)), sources'[row] = sources[row],
         \A o \in ActiveAt(At(row)) : sources'[o] = sources[o]
  PROVE  After(row)' = After(row)
<1> DEFINE others == OthersAt(Doc(row), At(row))
<1>1. others' = others
  BY DEF OthersAt, Doc, At
<1>2. \A o \in others : Content(o)' = Content(o)
  BY DEF OthersAt, Content
<1>3. Content(row)' = Content(row)
  BY DEF Content
<1>4. After(row)' = Content(row)' \cup UNION {Content(o)' : o \in others}
  BY <1>1 DEF After
<1> HIDE DEF others
<1>5. QED
  <2>1. After(row) = Content(row) \cup UNION {Content(o) : o \in others}
    BY DEF After, others
  <2>2. QED
    BY <1>2, <1>3, <1>4, <2>1

\* A step that writes no row, and after which the worker publishes nothing,
\* disturbs nothing: its document stays locked by it, or is let go.
LEMMA BystanderStep ==
  ASSUME Typed, EvidenceInv, NEW w \in Workers,
         UNCHANGED <<entity, active, sources, results>>,
         \A v \in Workers : v # w => /\ pc'[v] = pc[v] /\ cur'[v] = cur[v]
                                     /\ item'[v] = item[v] /\ staged'[v] = staged[v],
         pc'[w] \notin Publishing,
         pc'[w] \in Busy => pc[w] \in Busy /\ cur'[w] = cur[w]
  PROVE  EvidenceInv'
<1> USE DEF EvidenceInv
<1>1. DocumentExclusive'
  BY DEF DocumentExclusive
<1>2. PropertyExclusive'
  BY DEF PropertyExclusive, Publishing
<1>3. ActiveIsComplete' /\ ItemIsOpen'
  BY DEF ActiveIsComplete, ItemIsOpen, RowOf
<1>4. StagedIsAfter'
  <2> SUFFICES ASSUME NEW v \in Workers, pc'[v] = "activate"
               PROVE  staged'[v] = After(RowOf(v))'
    BY DEF StagedIsAfter
  <2>1. v # w
    BY DEF Publishing
  <2>2. After(RowOf(v))' = After(RowOf(v))
    <3>1. RowOf(v)' = RowOf(v)
      BY <2>1 DEF RowOf
    <3>2. QED
      BY <3>1 DEF After, Content, OthersAt, ActiveAt, Doc, At
  <2>3. QED
    BY <2>1, <2>2 DEF StagedIsAfter
<1>5. ResultsMatchEvidence'
  BY EvidenceKept DEF ResultsMatchEvidence
<1>6. QED
  BY <1>1, <1>2, <1>3, <1>4, <1>5

\* A step that writes a row which is not complete, in the run of its worker.
LEMMA RowStep ==
  ASSUME Typed, EvidenceInv, NEW w \in Workers, NEW row \in Rows,
         pc[w] \in Busy, pc[w] # "activate", cur[w] = row[1], entity[row] # "complete",
         UNCHANGED <<active, results, cur>>,
         entity' = [entity EXCEPT ![row] = entity'[row]], entity'[row] # "complete",
         \A o \in Rows : o # row => sources'[o] = sources[o],
         \A v \in Workers : v # w => /\ pc'[v] = pc[v] /\ item'[v] = item[v]
                                     /\ staged'[v] = staged[v],
         pc'[w] # "activate", pc'[w] \in Publishing => RowOf(w)' = row
  PROVE  EvidenceInv'
<1> USE DEF EvidenceInv
<1>1. ~active[row]
  BY DEF ActiveIsComplete
<1>2. \A o \in Rows : active[o] => sources'[o] = sources[o]
  BY <1>1
<1>3. DocumentExclusive'
  BY DEF DocumentExclusive
<1>4. PropertyExclusive'
  BY DEF PropertyExclusive
<1>5. ActiveIsComplete'
  BY <1>1 DEF ActiveIsComplete, Typed, TypeOK
<1>6. ASSUME NEW v \in Workers, v # w, pc[v] \in Publishing
      PROVE  /\ RowOf(v) \in Rows /\ RowOf(v)' = RowOf(v) /\ RowOf(v) # row
  <2>1. cur[v] # cur[w] /\ cur[v] \in Runs /\ item[v] \in Entities
    BY <1>6 DEF DocumentExclusive, Publishing, Busy, Typed, Knows
  <2>2. QED
    BY <1>6, <2>1 DEF RowOf, Rows
<1>7. ItemIsOpen'
  <2> SUFFICES ASSUME NEW v \in Workers, pc'[v] \in Publishing
               PROVE  entity'[RowOf(v)'] # "complete"
    BY DEF ItemIsOpen
  <2>1. CASE v = w
    BY <2>1
  <2>2. CASE v # w
    BY <1>6, <2>2 DEF ItemIsOpen, Typed, TypeOK
  <2>3. QED
    BY <2>1, <2>2
<1>8. StagedIsAfter'
  <2> SUFFICES ASSUME NEW v \in Workers, pc'[v] = "activate"
               PROVE  staged'[v] = After(RowOf(v))'
    BY DEF StagedIsAfter
  <2>1. v # w /\ pc[v] = "activate" /\ RowOf(v) \in Rows /\ RowOf(v) # row
    BY <1>6 DEF Publishing
  <2>2. PICK mine \in Rows : mine = RowOf(v) /\ mine = RowOf(v)' /\ mine # row
    BY <1>6, <2>1 DEF Publishing
  <2>3. After(mine)' = After(mine)
    <3>1. ActiveAt(At(mine))' = ActiveAt(At(mine))
      BY DEF ActiveAt, At
    <3>2. \A o \in ActiveAt(At(mine)) : sources'[o] = sources[o]
      BY <1>2 DEF ActiveAt
    <3>3. QED
      BY <2>2, <3>1, <3>2, AfterKept
  <2>4. After(RowOf(v))' = After(mine)'
    BY <2>2 DEF After, Content, OthersAt, ActiveAt, Doc, At
  <2>5. QED
    BY <2>1, <2>2, <2>3, <2>4 DEF StagedIsAfter
<1>9. ResultsMatchEvidence'
  BY <1>2, EvidenceKept DEF ResultsMatchEvidence
<1>10. QED
  BY <1>3, <1>4, <1>5, <1>7, <1>8, <1>9

\* A handler enters a document only when no other is in it.
LEMMA OpenStep ==
  ASSUME Typed, EvidenceInv, NEW w \in Workers, NEW j \in Jobs, Open(w, j)
  PROVE  EvidenceInv'
<1> USE DEF EvidenceInv, Goto, On, Verdict, rows
<1>1. /\ pc[w] = "open" /\ pc'[w] \in {"discover", "refresh"}
      /\ UNCHANGED <<entity, active, sources, results, item, staged>>
      /\ \A v \in Workers : v # w => pc'[v] = pc[v] /\ cur'[v] = cur[v]
  BY DEF Open, Typed, TypeOK
<1>2. cur'[w][1] = j[1]
  BY DEF Open, Typed, TypeOK
<1>3. \A v \in Workers : pc[v] \in Busy => cur[v][1] # j[1]
  BY DEF Open, HoldsDocument, Busy
<1>4. DocumentExclusive'
  BY <1>1, <1>2, <1>3 DEF DocumentExclusive
<1>5. PropertyExclusive' /\ ActiveIsComplete' /\ ItemIsOpen'
  BY <1>1 DEF PropertyExclusive, ActiveIsComplete, ItemIsOpen, RowOf, Publishing
<1>6. StagedIsAfter'
  <2> SUFFICES ASSUME NEW v \in Workers, pc'[v] = "activate"
               PROVE  staged'[v] = After(RowOf(v))'
    BY DEF StagedIsAfter
  <2>1. v # w /\ RowOf(v)' = RowOf(v)
    BY <1>1 DEF RowOf
  <2>2. After(RowOf(v))' = After(RowOf(v))
    BY <1>1, <2>1 DEF After, Content, OthersAt, ActiveAt, Doc, At
  <2>3. QED
    BY <1>1, <2>1, <2>2 DEF StagedIsAfter
<1>7. ResultsMatchEvidence'
  BY <1>1, EvidenceKept DEF ResultsMatchEvidence
<1>8. QED
  BY <1>4, <1>5, <1>6, <1>7

\* The property's lock is free when the evidence is read again.
LEMMA LoadStep ==
  ASSUME Typed, EvidenceInv, NEW w \in Workers, NEW j \in Jobs, Load(w, j)
  PROVE  EvidenceInv'
<1> USE DEF EvidenceInv, Goto, On, rows
<1>1. /\ pc[w] = "load" /\ pc'[w] = "activate"
      /\ UNCHANGED <<entity, active, sources, results, cur, item>>
      /\ \A v \in Workers : v # w => pc'[v] = pc[v] /\ staged'[v] = staged[v]
      /\ staged'[w] = After(RowOf(w))
  BY DEF Load, Typed, TypeOK, After, RowOf, Doc, At
<1>2. DocumentExclusive' /\ ActiveIsComplete' /\ ItemIsOpen'
  BY <1>1 DEF DocumentExclusive, ActiveIsComplete, ItemIsOpen, RowOf, Publishing, Busy
<1>3. PropertyExclusive'
  <2>1. \A v \in Workers : pc[v] = "activate" => PropertyOf[item[v]] # PropertyOf[item[w]]
    BY DEF Load, HoldsProperty, At
  <2>2. QED
    BY <1>1, <2>1 DEF PropertyExclusive
<1>4. StagedIsAfter'
  <2> SUFFICES ASSUME NEW v \in Workers, pc'[v] = "activate"
               PROVE  staged'[v] = After(RowOf(v))'
    BY DEF StagedIsAfter
  <2>1. RowOf(v)' = RowOf(v)
    BY <1>1 DEF RowOf
  <2>2. After(RowOf(v))' = After(RowOf(v))
    BY <1>1, <2>1 DEF After, Content, OthersAt, ActiveAt, Doc, At
  <2>3. QED
    BY <1>1, <2>2 DEF StagedIsAfter
<1>5. ResultsMatchEvidence'
  BY <1>1, EvidenceKept DEF ResultsMatchEvidence
<1>6. QED
  BY <1>2, <1>3, <1>4, <1>5

\* Results and active evidence switch in one transaction.
LEMMA ActivateStep ==
  ASSUME Typed, EvidenceInv, NEW w \in Workers, NEW j \in Jobs, Activate(w, j)
  PROVE  EvidenceInv'
<1> USE DEF EvidenceInv, Goto, On, Rejected
<1> DEFINE row == RowOf(w)
<1>1. /\ pc[w] = "activate" /\ pc'[w] = "entities" /\ row \in Rows
      /\ UNCHANGED <<sources, cur>>
      /\ \A v \in Workers : v # w => /\ pc'[v] = pc[v] /\ item'[v] = item[v]
                                     /\ staged'[v] = staged[v]
  BY DEF Activate, Typed, TypeOK, Knows, RowOf, Rows, Busy, Publishing
<1>2. DocumentExclusive' /\ PropertyExclusive'
  BY <1>1 DEF DocumentExclusive, PropertyExclusive, Busy
<1>3. ASSUME NEW v \in Workers, pc'[v] \in Publishing
      PROVE  /\ v # w /\ pc[v] \in Publishing /\ RowOf(v)' = RowOf(v)
             /\ RowOf(v) \in Rows /\ RowOf(v) # row
  <2>1. v # w /\ pc[v] = pc'[v]
    BY <1>1, <1>3 DEF Publishing
  <2>2. cur[v] # cur[w] /\ cur[v] \in Runs /\ item[v] \in Entities
    BY <1>1, <1>3, <2>1 DEF DocumentExclusive, Publishing, Busy, Typed, Knows
  <2>3. QED
    BY <1>1, <1>3, <2>1, <2>2 DEF RowOf, Rows
<1>4. ~active[row]
  BY <1>1 DEF ActiveIsComplete, ItemIsOpen, Publishing
<1>5. \E st \in {"complete", "needs_review"} : entity' = [entity EXCEPT ![row] = st]
  BY DEF Activate, RowOf
<1>6. ItemIsOpen'
  <2> SUFFICES ASSUME NEW v \in Workers, pc'[v] \in Publishing
               PROVE  entity'[RowOf(v)'] # "complete"
    BY DEF ItemIsOpen
  <2> HIDE DEF row
  <2>1. QED
    BY <1>3, <1>5 DEF ItemIsOpen, Typed, TypeOK
<1>7. CASE UNCHANGED <<results, active>> /\ entity' = [entity EXCEPT ![row] = "needs_review"]
  <2>1. ActiveIsComplete'
    BY <1>4, <1>7 DEF ActiveIsComplete, Typed, TypeOK
  <2>2. StagedIsAfter'
    <3> SUFFICES ASSUME NEW v \in Workers, pc'[v] = "activate"
                 PROVE  staged'[v] = After(RowOf(v))'
      BY DEF StagedIsAfter
    <3>1. v # w /\ pc[v] = "activate" /\ RowOf(v)' = RowOf(v)
      BY <1>1, <1>3 DEF Publishing
    <3>2. After(RowOf(v))' = After(RowOf(v))
      BY <1>1, <1>7, <3>1 DEF After, Content, OthersAt, ActiveAt, Doc, At
    <3>3. QED
      BY <1>1, <3>1, <3>2 DEF StagedIsAfter
  <2>3. ResultsMatchEvidence'
    BY <1>1, <1>7, EvidenceKept DEF ResultsMatchEvidence
  <2>4. QED
    BY <1>2, <1>6, <2>1, <2>2, <2>3
<1>8. CASE /\ results' = [results EXCEPT ![At(row)] = staged[w]]
           /\ active' = [o \in Rows |-> o = row \/ (active[o] /\ o \notin Superseded(row))]
           /\ entity' = [entity EXCEPT ![row] = "complete"]
  <2>1. ActiveIsComplete'
    BY <1>1, <1>8 DEF ActiveIsComplete, Typed, TypeOK
  <2>2. \A o : Content(o)' = Content(o)
    BY <1>1 DEF Content
  <2>3. ASSUME NEW q, q # At(row)
        PROVE  ActiveAt(q)' = ActiveAt(q)
    BY <1>8, <2>3 DEF ActiveAt, Superseded, At
  <2>4. ASSUME NEW p, p = At(row)
        PROVE  ActiveAt(p)' = {row} \cup OthersAt(Doc(row), p)
    <3> DEFINE next == {row} \cup OthersAt(Doc(row), p)
    <3>1. ASSUME NEW o \in Rows
          PROVE  active'[o] /\ At(o) = p <=> o \in next
      <4>1. active'[o] <=> o = row \/ (active[o] /\ o \notin Superseded(row))
        BY <1>8
      <4>2. o \in Superseded(row) <=> /\ active[o] /\ At(o) = p
                                     /\ Doc(o) = Doc(row) /\ o # row
        BY <2>4 DEF Superseded, ActiveAt
      <4>3. o \in OthersAt(Doc(row), p) <=> /\ active[o] /\ At(o) = p
                                                 /\ Doc(o) # Doc(row)
        BY DEF OthersAt, ActiveAt
      <4> HIDE DEF row
      <4>4. QED
        BY <2>4, <4>1, <4>2, <4>3
    <3>2. ActiveAt(p)' = {o \in Rows : active'[o] /\ At(o) = p}
      BY DEF ActiveAt, At
    <3>3. next \subseteq Rows
      BY <1>1 DEF OthersAt, ActiveAt
    <3>4. QED
      BY <3>1, <3>2, <3>3
  <2>5. StagedIsAfter'
    <3> SUFFICES ASSUME NEW v \in Workers, pc'[v] = "activate"
                 PROVE  staged'[v] = After(RowOf(v))'
      BY DEF StagedIsAfter
    <3>1. v # w /\ pc[v] = "activate"
      BY <1>1, <1>3 DEF Publishing
    <3>2. PICK mine \in Rows : mine = RowOf(v) /\ mine = RowOf(v)'
      BY <1>3 DEF Publishing
    <3>3. At(mine) # At(row)
      BY <1>1, <3>1, <3>2 DEF PropertyExclusive, At, RowOf
    <3>4. After(mine)' = After(mine)
      BY <1>1, <2>3, <3>3, AfterKept
    <3>5. After(RowOf(v))' = After(mine)'
      BY <3>2 DEF After, Content, OthersAt, ActiveAt, Doc, At
    <3>6. QED
      BY <1>1, <3>1, <3>2, <3>4, <3>5 DEF StagedIsAfter
  <2>6. ResultsMatchEvidence'
    <3> SUFFICES ASSUME NEW p \in Properties
                 PROVE  results'[p] = Evidence(p)'
      BY DEF ResultsMatchEvidence
    <3>1. CASE p # At(row)
      <4>1. Evidence(p)' = Evidence(p)
        BY <2>2, <2>3, <3>1 DEF Evidence
      <4>2. results'[p] = results[p]
        BY <1>8, <3>1 DEF Typed, TypeOK
      <4>3. QED
        BY <4>1, <4>2 DEF ResultsMatchEvidence
    <3>2. CASE p = At(row)
      <4>1. results'[p] = After(row)
        BY <1>1, <1>8, <3>2 DEF Typed, TypeOK, StagedIsAfter
      <4>2. Evidence(p)' = UNION {Content(o) : o \in {row} \cup OthersAt(Doc(row), p)}
        BY <2>2, <2>4, <3>2 DEF Evidence
      <4>3. QED
        <5> HIDE DEF row
        <5>1. QED
          BY <3>2, <4>1, <4>2 DEF After
    <3>3. QED
      BY <3>1, <3>2
  <2>7. QED
    BY <1>2, <1>6, <2>1, <2>5, <2>6
<1>9. QED
  BY <1>7, <1>8 DEF Activate, RowOf

\* Every step keeps results and evidence together.
LEMMA EvidenceStep ==
  ASSUME Typed, EvidenceInv, [Next]_vars
  PROVE  EvidenceInv'
<1> USE DEF jobs, runs, rows, local, history, Goto, On, Busy, Publishing, Typed, TypeOK
<1>1. CASE UNCHANGED <<rows, results, pc, local>>
  BY <1>1 DEF EvidenceInv, DocumentExclusive, PropertyExclusive, ActiveIsComplete,
              ItemIsOpen, StagedIsAfter, ResultsMatchEvidence, RowOf, After, Evidence,
              Content, OthersAt, ActiveAt, Doc, At
<1>2. CASE Reclaim \/ Rests \/ UNCHANGED vars
  BY <1>1, <1>2 DEF Reclaim, Rests, vars
<1>3. CASE \E d \in Documents, reanalyze \in BOOLEAN : Schedule(d, reanalyze)
  BY <1>1, <1>3 DEF Schedule
<1> SUFFICES ASSUME NEW w \in Workers, NEW j \in Jobs, Take(w, j) \/ Step(w, j) \/ Crash(w, j)
             PROVE  EvidenceInv'
  BY <1>2, <1>3 DEF Next
<1>4. CASE Take(w, j)
  BY <1>4, BystanderStep DEF Take
<1>5. CASE Open(w, j)
  BY <1>5, OpenStep
<1>6. CASE Discover(w, j)
  BY <1>6, BystanderStep DEF Discover, GiveUp, Verdict
<1>7. CASE Skip(w, j)
  BY <1>7, BystanderStep DEF Skip, GiveUp, Verdict
<1>8. CASE Extract(w, j)
  <2>1. PICK e \in todo[w] :
           /\ entity[<<cur[w], e>>] # "complete"
           /\ \/ /\ Record(<<cur[w], e>>)
                 /\ Drop(w, e)
                 /\ \/ Goto(w, "stage") /\ item' = [item EXCEPT ![w] = e]
                    \/ UNCHANGED <<pc, item>>
                 /\ UNCHANGED verdict
              \/ /\ Record(<<cur[w], e>>)
                 /\ Verdict(w, "paused_budget")
                 /\ UNCHANGED <<todo, item>>
              \/ /\ GiveUp(w)
                 /\ verdict'[w] # "paused_budget"
                 /\ UNCHANGED <<entity, sources, todo, item>>
    BY <1>8 DEF Extract
  <2>2. /\ pc[w] = "entities"
        /\ UNCHANGED <<active, results, cur, staged>>
    BY <1>8 DEF Extract
  <2>3. cur[w] \in Runs /\ e \in Entities /\ <<cur[w], e>> \in Rows
    BY <2>2 DEF Knows, Rows
  <2>4. CASE UNCHANGED <<entity, sources, item>> /\ GiveUp(w)
    BY <2>2, <2>4, BystanderStep DEF GiveUp, Verdict
  <2>5. CASE Record(<<cur[w], e>>)
    <3>1. /\ pc' = [pc EXCEPT ![w] = pc'[w]]
          /\ \/ pc'[w] = "stage" /\ item' = [item EXCEPT ![w] = e]
             \/ pc'[w] \in {"entities", "refresh", "raise"} /\ UNCHANGED item
      BY <2>1, <2>2 DEF Verdict, GiveUp
    <3>2. PICK row \in Rows : row = <<cur[w], e>>
      BY <2>3
    <3>3. /\ entity' = [entity EXCEPT ![row] = "needs_review"]
          /\ \A o \in Rows : o # row => sources'[o] = sources[o]
      BY <2>5, <3>2 DEF Record
    <3>4. entity[row] # "complete" /\ cur[w] = row[1]
      BY <2>1, <3>2
    <3>5. pc'[w] \in Publishing => RowOf(w)' = row
      BY <2>2, <3>1, <3>2 DEF RowOf
    <3>6. pc[w] \in Busy /\ pc[w] # "activate" /\ pc'[w] # "activate"
      BY <2>2, <3>1
    <3>7. \A v \in Workers : v # w => /\ pc'[v] = pc[v] /\ item'[v] = item[v]
                                     /\ staged'[v] = staged[v]
      BY <2>2, <3>1
    <3>8. entity' = [entity EXCEPT ![row] = entity'[row]] /\ entity'[row] # "complete"
      BY <3>3
    <3> HIDE DEF Goto, On, Busy, Publishing, Typed, TypeOK
    <3>9. QED
      BY <2>2, <3>3, <3>4, <3>5, <3>6, <3>7, <3>8, RowStep
  <2>6. QED
    BY <2>1, <2>4, <2>5
<1>9. CASE Stage(w, j)
  <2>1. pc[w] = "stage" /\ UNCHANGED <<active, results, cur, item, staged>>
    BY <1>9 DEF Stage
  <2>2. PICK row \in Rows : row = RowOf(w) /\ row = <<cur[w], item[w]>>
    BY <2>1 DEF Knows, Rows, RowOf
  <2>3. /\ \E st \in {"computing", "needs_review"} : entity' = [entity EXCEPT ![row] = st]
        /\ \A o \in Rows : o # row => sources'[o] = sources[o]
        /\ pc' = [pc EXCEPT ![w] = pc'[w]] /\ pc'[w] \in {"load", "entities"}
    BY <1>9, <2>2 DEF Stage, Rejected
  <2>4. entity' = [entity EXCEPT ![row] = entity'[row]] /\ entity'[row] # "complete"
    BY <2>3
  <2>5. entity[row] # "complete" /\ cur[w] = row[1] /\ RowOf(w)' = row
    BY <2>1, <2>2 DEF EvidenceInv, ItemIsOpen, RowOf
  <2>6. /\ pc[w] \in Busy /\ pc[w] # "activate" /\ pc'[w] # "activate"
        /\ \A v \in Workers : v # w => /\ pc'[v] = pc[v] /\ item'[v] = item[v]
                                       /\ staged'[v] = staged[v]
    BY <2>1, <2>3
  <2> HIDE DEF Goto, On, Busy, Publishing, Typed, TypeOK
  <2>7. QED
    BY <2>1, <2>3, <2>4, <2>5, <2>6, RowStep
<1>10. CASE Load(w, j)
  BY <1>10, LoadStep
<1>11. CASE Activate(w, j)
  BY <1>11, ActivateStep
<1>12. CASE Conclude(w, j)
  BY <1>12, BystanderStep DEF Conclude, Verdict
<1>13. CASE Refresh(w, j)
  BY <1>13, BystanderStep DEF Refresh
<1>14. CASE SetStatus(w, j)
  BY <1>14, BystanderStep DEF SetStatus
<1>15. CASE Complete(w, j) \/ Retry(w, j) \/ Crash(w, j)
  BY <1>15, BystanderStep DEF Complete, Retry, Crash, Rest
<1>16. CASE Die(w, j)
  BY <1>16, BystanderStep DEF Die, Rest
<1>17. QED
  BY <1>4, <1>5, <1>6, <1>7, <1>8, <1>9, <1>10, <1>11, <1>12, <1>13, <1>14, <1>15, <1>16
     DEF Step

LEMMA EvidenceInvariant == Spec => []EvidenceInv
<1>1. Init => EvidenceInv
  BY DEF Init, EvidenceInv, DocumentExclusive, PropertyExclusive, ActiveIsComplete, ItemIsOpen,
         StagedIsAfter, ResultsMatchEvidence, Evidence, ActiveAt, Busy, Publishing
<1>2. Typed /\ EvidenceInv /\ [Next]_vars => EvidenceInv'
  BY EvidenceStep
<1>3. QED
  BY <1>1, <1>2, TypeCorrect, PTL DEF Spec, Typed

\* "Calculation tables and active evidence switch in the SAME transaction": a
\* property's results are at all times those of its active evidence, whatever
\* the number of documents, runs and workers that publish at it.
THEOREM ResultsAreOfEvidence == Spec => []ResultsMatchEvidence
<1>1. EvidenceInv => ResultsMatchEvidence
  BY DEF EvidenceInv
<1>2. QED
  BY <1>1, EvidenceInvariant, PTL

--------------------------------------------------------------------------------
(* Publications.                                                           *)

Twins(a, b) == active[a] /\ active[b] /\ Doc(a) = Doc(b) /\ At(a) = At(b)
NoTwins == \A a, b \in Rows : Twins(a, b) => a = b

\* What is active once a worker has published its row.
ActiveOnce(w) == [o \in Rows |-> o = RowOf(w) \/ (active[o] /\ o \notin Superseded(RowOf(w)))]

\* Only a publication activates or withdraws rows.
LEMMA OnlyActivate ==
  ASSUME [Next]_vars, active' # active
  PROVE  \E w \in Workers, j \in Jobs : Activate(w, j) /\ active' = ActiveOnce(w)
<1> USE DEF rows
<1>1. PICK w \in Workers, j \in Jobs : Step(w, j)
  BY DEF Next, Schedule, Take, Crash, Reclaim, Rests, vars
<1>2. Activate(w, j)
  BY <1>1 DEF Step, Open, Discover, Skip, Extract, Stage, Load, Conclude, Refresh,
              SetStatus, Complete, Retry, Die
<1>3. UNCHANGED active \/ active' = ActiveOnce(w)
  BY <1>2 DEF Activate, RowOf, ActiveOnce
<1>4. QED
  BY <1>2, <1>3

\* A publication withdraws the document's other rows at the property.
LEMMA NoTwinsStep ==
  ASSUME NoTwins, [Next]_vars
  PROVE  NoTwins'
<1>1. CASE UNCHANGED active
  BY <1>1 DEF NoTwins, Twins, Doc, At
<1>2. CASE active' # active
  <2>1. PICK w \in Workers : active' = ActiveOnce(w)
    BY <1>2, OnlyActivate
  <2>2. PICK row : row = RowOf(w)
    OBVIOUS
  <2>3. ASSUME NEW o \in Rows, active'[o], Doc(o) = Doc(row), At(o) = At(row)
        PROVE  o = row
    BY <2>1, <2>2, <2>3 DEF ActiveOnce, Superseded, ActiveAt
  <2>4. \A o \in Rows : active'[o] => o = row \/ active[o]
    BY <2>1, <2>2 DEF ActiveOnce
  <2>5. ASSUME NEW a \in Rows, NEW b \in Rows, active'[a], active'[b],
               Doc(a) = Doc(b), At(a) = At(b)
        PROVE  a = b
    BY <2>3, <2>4, <2>5 DEF NoTwins, Twins
  <2>6. QED
    BY <2>5 DEF NoTwins, Twins, Doc, At
<1>3. QED
  BY <1>1, <1>2

\* A report has at most one active row at a property, whatever is reanalyzed,
\* replayed or merged.
THEOREM OneActive == Spec => []OneActivePerReport
<1>1. Init => NoTwins
  BY DEF Init, NoTwins, Twins
<1>2. NoTwins /\ [Next]_vars => NoTwins'
  BY NoTwinsStep
<1>3. NoTwins => OneActivePerReport
  <2> SUFFICES ASSUME NoTwins, NEW p \in Properties, NEW d \in Documents
               PROVE  Cardinality({row \in ActiveAt(p) : Doc(row) = d}) <= 1
    BY DEF OneActivePerReport
  <2> DEFINE S == {row \in ActiveAt(p) : Doc(row) = d}
  <2>1. \A a, b \in S : a = b
    BY DEF NoTwins, Twins, ActiveAt
  <2> HIDE DEF S
  <2>2. CASE S = {}
    BY <2>2, FS_EmptySet DEF S
  <2>3. CASE S # {}
    <3>1. PICK a \in S : S = {a}
      <4>1. PICK a : a \in S
        BY <2>3
      <4>2. \A b \in S : b = a
        BY <2>1, <4>1
      <4>3. S = {a}
        BY <4>1, <4>2
      <4>4. QED
        BY <4>1, <4>3
    <3>2. Cardinality(S) = 1
      BY <3>1, FS_Singleton
    <3>3. QED
      BY <3>2 DEF S
  <2>4. QED
    BY <2>2, <2>3
<1>4. QED
  BY <1>1, <1>2, <1>3, PTL DEF Spec

\* What a document has published at a property is replaced, never withdrawn.
THEOREM NeverWithdrawn == Spec => PublishedStays
<1>1. ASSUME Typed, [Next]_vars, NEW d \in Documents, NEW p \in Properties, Published(d, p)
      PROVE  Published(d, p)'
  <2>1. PICK old \in Rows : active[old] /\ Doc(old) = d /\ At(old) = p
    BY <1>1 DEF Published, ActiveAt
  <2>2. CASE UNCHANGED active
    BY <2>1, <2>2 DEF Published, ActiveAt, Doc, At
  <2>3. CASE active' # active
    <3>1. PICK w \in Workers, j \in Jobs : Activate(w, j) /\ active' = ActiveOnce(w)
      BY <1>1, <2>3, OnlyActivate
    <3>2. PICK row \in Rows : row = RowOf(w)
      BY <1>1, <3>1 DEF Activate, On, Typed, Knows, Busy, Publishing, RowOf, Rows
    <3>3. active'[row]
      <4>1. active'[row] <=> row = RowOf(w) \/ (active[row] /\ row \notin Superseded(RowOf(w)))
        BY <3>1 DEF ActiveOnce
      <4>2. QED
        BY <3>2, <4>1
    <3>4. CASE active'[old]
      BY <2>1, <3>4 DEF Published, ActiveAt, Doc, At
    <3>5. CASE ~active'[old]
      <4>1. old \in Superseded(row)
        BY <2>1, <3>1, <3>2, <3>5 DEF ActiveOnce
      <4>2. Doc(row) = d /\ At(row) = p
        BY <2>1, <4>1 DEF Superseded, ActiveAt
      <4>3. QED
        BY <3>3, <4>2 DEF Published, ActiveAt, Doc, At
    <3>6. QED
      BY <3>4, <3>5
  <2>4. QED
    BY <2>2, <2>3
<1>2. Typed /\ [Next]_vars
        => [\A d \in Documents, p \in Properties : Published(d, p) => Published(d, p)']_vars
  BY <1>1
<1>3. QED
  BY <1>2, TypeCorrect, PTL DEF Spec, PublishedStays, Typed

--------------------------------------------------------------------------------
(* Complete batches.                                                       *)

\* A worker has one job at a time, and works on the document of that job.
OwnedIsWorking == \A j \in Jobs : owner[j] # None => phase[j] = "working"
OneJob == \A w \in Workers, j \in Jobs :
            owner[j] = w => pc[w] # "idle" /\ \A k \in Jobs : owner[k] = w => k = j
OwnDocument == \A w \in Workers, j \in Jobs :
                 owner[j] = w /\ pc[w] \in Busy => cur[w][1] = j[1]
JobsInv == OwnedIsWorking /\ OneJob /\ OwnDocument

\* The generations of a document are numbered without a gap, a job that names
\* one names one that exists, and a handler leaves a finished run finished.
Contiguous == \A d \in Documents : \E n \in 0..MaxRuns :
                \A g \in Generations : run[<<d, g>>] # "none" <=> g <= n
NamedExists == \A j \in Jobs : j[2] > 0 /\ phase[j] # "idle" => run[j] # "none"
AtWork == \A w \in Workers : pc[w] \in Busy =>
            /\ run[cur[w]] # "none"
            /\ run[cur[w]] \in Finished => /\ pc[w] \in {"refresh", "status"}
                                           /\ verdict[w] \in Finished
RunsInv == Contiguous /\ NamedExists /\ AtWork

\* A document whose report says so has a finished run, and a batch is about to
\* be complete only if every other document has one.
Ended(d) == \E g \in Generations : run[<<d, g>>] \in Finished
ReportsEarned == \A d \in Documents : report[d] \in Finished => Ended(d)
MarkEarned == \A w \in Workers : pc[w] = "status" /\ mark[w] = "complete" /\ mark[w] # None =>
                /\ verdict[w] \in Finished
                /\ \A d \in Documents : d # cur[w][1] => Ended(d)
BatchInv == ReportsEarned /\ MarkEarned /\ CompleteBatchIsDone

\* The steps of a handler between its first and its last transaction.
Within(w, j) == \/ Discover(w, j) \/ Skip(w, j) \/ Extract(w, j) \/ Stage(w, j)
                \/ Load(w, j) \/ Activate(w, j) \/ Conclude(w, j)

LEMMA WithinShape ==
  ASSUME Typed, NEW w \in Workers, NEW j \in Jobs, Within(w, j)
  PROVE  /\ pc[w] \in Busy \ {"refresh", "status"}
         /\ pc'[w] \in (Busy \ {"status"}) \cup {"raise"}
         /\ \A v \in Workers : v # w => pc'[v] = pc[v] /\ verdict'[v] = verdict[v]
         /\ UNCHANGED <<phase, owner, run, report, batch, cur, mark>>
<1> USE DEF Goto, On, Verdict, GiveUp, Rejected, jobs, runs, rows, local, history, Busy
<1>0. /\ pc \in [Workers -> {"idle", "open", "discover", "entities", "stage", "load",
                              "activate", "refresh", "status", "settle", "raise"}]
      /\ verdict \in [Workers -> Terminal \cup {None}]
  BY DEF Typed, TypeOK
<1>1. CASE Discover(w, j)
  BY <1>0, <1>1 DEF Discover
<1>2. CASE Skip(w, j)
  BY <1>0, <1>2 DEF Skip
<1>3. CASE Extract(w, j)
  BY <1>0, <1>3 DEF Extract
<1>4. CASE Stage(w, j)
  BY <1>0, <1>4 DEF Stage
<1>5. CASE Load(w, j)
  BY <1>0, <1>5 DEF Load
<1>6. CASE Activate(w, j)
  BY <1>0, <1>6 DEF Activate
<1>7. CASE Conclude(w, j)
  BY <1>0, <1>7 DEF Conclude
<1>8. QED
  BY <1>1, <1>2, <1>3, <1>4, <1>5, <1>6, <1>7 DEF Within

\* How a handler lets go of its job.
Leaves(w, j) == Complete(w, j) \/ Retry(w, j) \/ Die(w, j) \/ Crash(w, j)

LEMMA LeavesShape ==
  ASSUME Typed, NEW w \in Workers, NEW j \in Jobs, Leaves(w, j)
  PROVE  /\ owner[j] = w /\ phase[j] = "working"
         /\ owner' = [owner EXCEPT ![j] = None]
         /\ \A k \in Jobs : k # j => phase'[k] = phase[k]
         /\ pc' = [pc EXCEPT ![w] = "idle"]
         /\ \A v \in Workers : v # w => /\ cur'[v] = cur[v] /\ verdict'[v] = verdict[v]
                                        /\ mark'[v] = mark[v]
<1>1. Queue!Settle(j, w) \/ Queue!Lose(j, w)
  BY DEF Leaves, Complete, Retry, Die, Crash
<1>2. Rest(w)
  BY DEF Leaves, Complete, Retry, Die, Crash
<1>3. phase \in [Jobs -> Queue!Phases]
  BY DEF Typed, TypeOK, Queue!TypeOK
<1>4. QED
  BY <1>1, <1>2, <1>3 DEF Queue!Settle, Queue!Lose, Rest, Goto, Typed, TypeOK

\* A request makes a new generation or none, and submits a job of one that is.
LEMMA ScheduleShape ==
  ASSUME Typed, NEW d \in Documents, NEW reanalyze \in BOOLEAN, Schedule(d, reanalyze)
  PROVE  \E last \in Runs :
           /\ \/ UNCHANGED run /\ last = <<d, Latest(d)>>
              \/ /\ run' = [run EXCEPT ![last] = "queued"]
                 /\ last = <<d, Latest(d) + 1>> /\ Latest(d) < MaxRuns
           /\ \/ UNCHANGED <<phase, owner>>
              \/ Queue!Submit({last})
           /\ \A c \in Documents : report'[c] \in Finished => report[c] \in Finished
           /\ UNCHANGED <<batch, pc, cur, verdict, mark>>
<1> DEFINE g == Latest(d)
           fresh == g = 0 \/ (reanalyze /\ run[<<d, g>>] \notin InFlight)
           last == <<d, IF fresh THEN g + 1 ELSE g>>
<1>1. last \in Runs
  BY LatestType, AnalysisAssumption DEF Schedule, Runs, Generations
<1>2. /\ fresh => g < MaxRuns
      /\ run' = IF fresh THEN [run EXCEPT ![last] = "queued"] ELSE run
  BY DEF Schedule
<1>3. \/ UNCHANGED run /\ last = <<d, Latest(d)>>
      \/ /\ run' = [run EXCEPT ![last] = "queued"]
         /\ last = <<d, Latest(d) + 1>> /\ Latest(d) < MaxRuns
  BY <1>2
<1>4. UNCHANGED jobs \/ Queue!Submit({last})
  BY DEF Schedule
<1>5. report' = [report EXCEPT ![d] = "analyzing"] \/ UNCHANGED report
  BY DEF Schedule
<1>6. \A c \in Documents : report'[c] \in Finished => report[c] \in Finished
  BY <1>5 DEF Typed, TypeOK, Finished
<1>7. UNCHANGED <<batch, pc, cur, verdict, mark>>
  BY DEF Schedule, local
<1> HIDE DEF last
<1>8. QED
  BY <1>1, <1>3, <1>4, <1>6, <1>7 DEF jobs

\* Reclaim puts lost jobs back and touches nothing else.
LEMMA ReclaimShape ==
  ASSUME Typed, Reclaim
  PROVE  /\ \A j \in Jobs : \/ phase'[j] = phase[j]
                            \/ phase[j] = "working" /\ owner[j] = None
         /\ UNCHANGED <<owner, run, report, batch, pc, cur, verdict, mark>>
BY DEF Reclaim, Queue!Reclaim, runs, local

LEMMA JobsStep ==
  ASSUME Typed, JobsInv, [Next]_vars
  PROVE  JobsInv'
<1> USE DEF JobsInv, OwnedIsWorking, OneJob, OwnDocument
<1>0. /\ owner \in [Jobs -> Workers \cup {None}] /\ phase \in [Jobs -> Queue!Phases]
      /\ cur \in [Workers -> Runs \cup {None}]
      /\ pc \in [Workers -> {"idle", "open", "discover", "entities", "stage", "load",
                              "activate", "refresh", "status", "settle", "raise"}]
      /\ None \notin Workers
  BY AnalysisAssumption DEF Typed, TypeOK, Queue!TypeOK
<1>1. CASE UNCHANGED <<phase, owner, pc, cur>>
  BY <1>1
<1>2. CASE Rests \/ UNCHANGED vars
  BY <1>1, <1>2 DEF Rests, vars, jobs, local
<1>3. CASE Reclaim
  BY <1>3, ReclaimShape
<1>4. ASSUME NEW d \in Documents, NEW reanalyze \in BOOLEAN, Schedule(d, reanalyze)
      PROVE  JobsInv'
  <2>1. PICK last \in Runs : /\ UNCHANGED <<phase, owner>> \/ Queue!Submit({last})
                             /\ UNCHANGED <<pc, cur>>
    BY <1>4, ScheduleShape
  <2>2. CASE Queue!Submit({last})
    <3>1. \A j \in Jobs : phase[j] = "working" => phase'[j] = "working"
      BY <2>2 DEF Queue!Submit
    <3>2. UNCHANGED <<owner, pc, cur>>
      BY <2>1, <2>2 DEF Queue!Submit
    <3>3. QED
      BY <3>1, <3>2
  <2>3. QED
    BY <1>1, <2>1, <2>2
<1>5. ASSUME NEW w \in Workers, NEW j \in Jobs, Take(w, j) PROVE JobsInv'
  <2>1. /\ pc[w] = "idle" /\ phase' = [phase EXCEPT ![j] = "working"]
        /\ owner' = [owner EXCEPT ![j] = w] /\ pc' = [pc EXCEPT ![w] = "open"]
        /\ UNCHANGED cur /\ phase[j] = "pending"
    BY <1>5 DEF Take, Queue!Begin, Goto, local
  <2>2. owner[j] = None
    BY <1>0, <2>1
  <2>3. pc'[w] \notin Busy
    BY <1>0, <2>1 DEF Busy
  <2>4. QED
    BY <1>0, <2>1, <2>2, <2>3
<1>6. ASSUME NEW w \in Workers, NEW j \in Jobs, Open(w, j) PROVE JobsInv'
  <2>1. /\ owner[j] = w /\ UNCHANGED <<phase, owner>>
        /\ \A v \in Workers : v # w => pc'[v] = pc[v] /\ cur'[v] = cur[v]
        /\ cur'[w][1] = j[1]
        /\ pc'[w] # "idle"
    BY <1>0, <1>6 DEF Open, On, Verdict, Goto, jobs
  <2>2. QED
    BY <1>0, <2>1
<1>7. ASSUME NEW w \in Workers, NEW j \in Jobs, Within(w, j) PROVE JobsInv'
  <2>1. "idle" \notin Busy /\ UNCHANGED <<phase, owner, cur>> /\ pc[w] \in Busy
    BY <1>7, WithinShape DEF Busy
  <2>2. QED
    BY <1>7, <2>1, WithinShape
<1>8. ASSUME NEW w \in Workers, NEW j \in Jobs, Refresh(w, j) \/ SetStatus(w, j) PROVE JobsInv'
  <2>1. /\ UNCHANGED <<phase, owner, cur>> /\ pc[w] \in Busy
        /\ \A v \in Workers : v # w => pc'[v] = pc[v]
        /\ pc'[w] \in {"status", "settle"}
    BY <1>0, <1>8 DEF Refresh, SetStatus, On, Goto, jobs, local, Busy
  <2>2. QED
    BY <2>1
<1>9. ASSUME NEW w \in Workers, NEW j \in Jobs, Leaves(w, j) PROVE JobsInv'
  <2>1. /\ owner[j] = w /\ phase[j] = "working"
        /\ owner' = [owner EXCEPT ![j] = None]
        /\ \A k \in Jobs : k # j => phase'[k] = phase[k]
        /\ pc' = [pc EXCEPT ![w] = "idle"]
        /\ \A v \in Workers : v # w => cur'[v] = cur[v]
    BY <1>9, LeavesShape
  <2>2. \A v \in Workers, k \in Jobs : owner'[k] = v => v # w /\ k # j /\ owner[k] = v
    BY <1>0, <2>1
  <2>3. QED
    BY <1>0, <2>1, <2>2
<1>10. QED
  BY <1>2, <1>3, <1>4, <1>5, <1>6, <1>7, <1>8, <1>9 DEF Next, Step, Within, Leaves

--------------------------------------------------------------------------------
\* The number of a document's latest generation is the number of them.
LEMMA LatestNumber ==
  ASSUME Contiguous, NEW d \in Documents, NEW g \in Generations
  PROVE  run[<<d, g>>] # "none" <=> g <= Latest(d)
<1>1. PICK n \in 0..MaxRuns : \A i \in Generations : run[<<d, i>>] # "none" <=> i <= n
  BY DEF Contiguous
<1>2. {i \in Generations : run[<<d, i>>] # "none"} = 1..n
  BY <1>1, AnalysisAssumption DEF Generations
<1>3. Cardinality(1..n) = n
  BY FS_Interval
<1>4. QED
  BY <1>1, <1>2, <1>3 DEF Latest

\* What happens to runs: none is unmade, at most the next generation is made.
Makes(d) == /\ Latest(d) < MaxRuns
            /\ \A r \in Runs : run'[r] # "none" <=> run[r] # "none" \/ r = <<d, Latest(d) + 1>>
MakesNone == \A r \in Runs : run'[r] # "none" <=> run[r] # "none"

LEMMA ContiguousStep ==
  ASSUME Contiguous, MakesNone \/ \E d \in Documents : Makes(d)
  PROVE  Contiguous'
<1> SUFFICES ASSUME NEW d \in Documents
             PROVE  \E n \in 0..MaxRuns : \A g \in Generations : run'[<<d, g>>] # "none" <=> g <= n
  BY DEF Contiguous
<1>1. Latest(d) \in 0..MaxRuns
  BY LatestType
<1>2. \A g \in Generations : <<d, g>> \in Runs /\ (run[<<d, g>>] # "none" <=> g <= Latest(d))
  BY LatestNumber DEF Runs
<1>3. CASE MakesNone
  BY <1>1, <1>2, <1>3 DEF MakesNone
<1>4. ASSUME NEW c \in Documents, Makes(c), c # d
      PROVE  \A g \in Generations : run'[<<d, g>>] # "none" <=> g <= Latest(d)
  BY <1>2, <1>4 DEF Makes
<1>5. CASE Makes(d)
  <2>1. \A g \in Generations : run'[<<d, g>>] # "none" <=> g <= Latest(d) \/ g = Latest(d) + 1
    BY <1>2, <1>5 DEF Makes
  <2>2. Latest(d) + 1 \in 0..MaxRuns
    BY <1>1, <1>5, AnalysisAssumption DEF Makes
  <2>3. \A g \in Generations : run'[<<d, g>>] # "none" <=> g <= Latest(d) + 1
    BY <1>1, <2>1, AnalysisAssumption DEF Generations
  <2>4. QED
    BY <2>2, <2>3
<1>6. QED
  BY <1>1, <1>3, <1>4, <1>5

\* The run that a job opens is the latest, a named one, or a first one.
LEMMA OpenShape ==
  ASSUME Typed, JobsInv, RunsInv, NEW w \in Workers, NEW j \in Jobs, Open(w, j)
  PROVE  \E r \in Runs :
           /\ r[1] = j[1]
           /\ cur' = [cur EXCEPT ![w] = r]
           /\ run[r] # "none" \/ (Latest(r[1]) = 0 /\ r = <<r[1], 1>>)
           /\ \/ run[r] \in Finished /\ UNCHANGED run /\ pc'[w] = "refresh"
                                     /\ verdict' = [verdict EXCEPT ![w] = run[r]]
              \/ /\ run[r] \notin Finished /\ run' = [run EXCEPT ![r] = "analyzing"]
                 /\ pc'[w] = "discover" /\ UNCHANGED verdict
           /\ \A v \in Workers : pc[v] \in Busy => cur[v][1] # r[1]
           /\ pc[w] = "open" /\ \A v \in Workers : v # w => pc'[v] = pc[v]
           /\ UNCHANGED <<phase, owner, report, batch, mark>>
<1> DEFINE d == j[1]
           g == IF j[2] > 0 THEN j[2] ELSE IF Latest(d) = 0 THEN 1 ELSE Latest(d)
           r == <<d, g>>
<1>1. d \in Documents /\ j[2] \in 0..MaxRuns /\ j = <<j[1], j[2]>>
  BY DEF Jobs
<1>2. Latest(d) \in 0..MaxRuns
  BY LatestType
<1>3. r \in Runs /\ r[1] = d
  BY <1>1, <1>2, AnalysisAssumption DEF Runs, Generations
<1>4. run[r] # "none" \/ (Latest(d) = 0 /\ r = <<d, 1>>)
  <2>1. CASE j[2] > 0
    <3>1. owner[j] = w /\ w # None
      BY AnalysisAssumption DEF Open, On
    <3>2. phase[j] = "working"
      BY <3>1 DEF JobsInv, OwnedIsWorking
    <3>3. r = j
      BY <1>1, <2>1
    <3> HIDE DEF r
    <3>4. QED
      BY <2>1, <3>2, <3>3 DEF RunsInv, NamedExists
  <2>2. CASE ~(j[2] > 0) /\ Latest(d) # 0
    <3>1. g = Latest(d) /\ g \in Generations /\ g <= Latest(d)
      BY <1>2, <2>2, AnalysisAssumption DEF Generations
    <3>2. QED
      BY <1>1, <3>1, LatestNumber DEF RunsInv
  <2>3. QED
    BY <2>1, <2>2
<1>5. \A v \in Workers : pc[v] \in Busy => cur[v][1] # d
  BY DEF Open, HoldsDocument, Busy
<1>6. /\ cur' = [cur EXCEPT ![w] = r]
      /\ \/ run[r] \in Finished /\ UNCHANGED run /\ Verdict(w, run[r])
         \/ /\ run[r] \notin Finished /\ run' = [run EXCEPT ![r] = "analyzing"]
            /\ Goto(w, "discover") /\ UNCHANGED verdict
      /\ pc[w] = "open"
      /\ UNCHANGED <<phase, owner, report, batch, mark>>
  BY DEF Open, On, jobs
<1>7. pc \in [Workers -> {"idle", "open", "discover", "entities", "stage", "load",
                           "activate", "refresh", "status", "settle", "raise"}]
  BY DEF Typed, TypeOK
<1>8. \A v \in Workers : v # w => pc'[v] = pc[v]
  BY <1>6, <1>7 DEF Verdict, Goto
<1>9. \/ run[r] \in Finished /\ UNCHANGED run /\ pc'[w] = "refresh"
                         /\ verdict' = [verdict EXCEPT ![w] = run[r]]
      \/ /\ run[r] \notin Finished /\ run' = [run EXCEPT ![r] = "analyzing"]
         /\ pc'[w] = "discover" /\ UNCHANGED verdict
  BY <1>6, <1>7 DEF Verdict, Goto
<1>10. run[r] # "none" \/ (Latest(r[1]) = 0 /\ r = <<r[1], 1>>)
  BY <1>3, <1>4
<1>11. \A v \in Workers : pc[v] \in Busy => cur[v][1] # r[1]
  BY <1>3, <1>5
<1> HIDE DEF r
<1>12. QED
  BY <1>3, <1>6, <1>8, <1>9, <1>10, <1>11

LEMMA RunsStep ==
  ASSUME Typed, JobsInv, RunsInv, DocumentExclusive, [Next]_vars
  PROVE  RunsInv' /\ \A r \in Runs : run[r] \in Finished => run'[r] \in Finished
<1> USE DEF RunsInv
<1>0. /\ phase \in [Jobs -> Queue!Phases]
      /\ run \in [Runs -> {"none"} \cup InFlight \cup Terminal]
      /\ verdict \in [Workers -> Terminal \cup {None}]
      /\ pc \in [Workers -> {"idle", "open", "discover", "entities", "stage", "load",
                              "activate", "refresh", "status", "settle", "raise"}]
      /\ \A w \in Workers : pc[w] \in Busy => cur[w] \in Runs
      /\ \A w \in Workers : pc[w] \in {"refresh", "status"} => verdict[w] \in Terminal
      /\ "none" \notin Terminal /\ "none" \notin Finished /\ Finished \subseteq Terminal
      /\ {"queued", "analyzing"} \cap Finished = {}
  BY DEF Typed, TypeOK, Knows, Queue!TypeOK, Finished, Terminal
<1>a. \A j \in Jobs : j[2] > 0 => j \in Runs
  BY AnalysisAssumption DEF Jobs, Runs, Generations
<1> DEFINE Goal == RunsInv' /\ \A r \in Runs : run[r] \in Finished => run'[r] \in Finished
\* A step that writes no run and starts no job.
<1>1. ASSUME UNCHANGED run, \A j \in Jobs : phase'[j] # "idle" => phase[j] # "idle", AtWork'
      PROVE  Goal
  <2>1. Contiguous' /\ NamedExists'
    BY <1>1 DEF Contiguous, NamedExists
  <2>2. QED
    BY <1>1, <2>1
<1>2. ASSUME UNCHANGED <<run, phase, pc, cur, verdict>> PROVE Goal
  BY <1>1, <1>2 DEF AtWork
<1>3. CASE Rests \/ UNCHANGED vars
  BY <1>2, <1>3 DEF Rests, vars, jobs, runs, local
<1>4. CASE Reclaim
  BY <1>1, <1>4, ReclaimShape DEF AtWork
<1>5. ASSUME NEW d \in Documents, NEW reanalyze \in BOOLEAN, Schedule(d, reanalyze)
      PROVE  Goal
  <2>1. PICK last \in Runs :
           /\ \/ UNCHANGED run /\ last = <<d, Latest(d)>>
              \/ /\ run' = [run EXCEPT ![last] = "queued"]
                 /\ last = <<d, Latest(d) + 1>> /\ Latest(d) < MaxRuns
           /\ \/ UNCHANGED <<phase, owner>>
              \/ Queue!Submit({last})
           /\ UNCHANGED <<pc, cur, verdict>>
    BY <1>5, ScheduleShape
  <2>2. \A j \in Jobs : phase'[j] # "idle" => phase[j] # "idle" \/ j = last
    BY <2>1 DEF Queue!Submit
  <2>3. CASE UNCHANGED run /\ last = <<d, Latest(d)>>
    <3>1. Latest(d) \in Generations
      BY <2>1, <2>3 DEF Runs
    <3>2. run[last] # "none"
      <4>1. Latest(d) <= Latest(d)
        BY LatestType, AnalysisAssumption
      <4>2. QED
        BY <2>3, <3>1, <4>1, LatestNumber
    <3>3. NamedExists'
      BY <2>2, <2>3, <3>2 DEF NamedExists
    <3>4. QED
      BY <2>1, <2>3, <3>3 DEF Contiguous, AtWork
  <2>4. CASE /\ run' = [run EXCEPT ![last] = "queued"]
             /\ last = <<d, Latest(d) + 1>> /\ Latest(d) < MaxRuns
    <3>1. run[last] = "none"
      <4>1. Latest(d) + 1 \in Generations /\ ~(Latest(d) + 1 <= Latest(d))
        BY <2>4, LatestType, AnalysisAssumption DEF Generations
      <4>2. QED
        BY <2>4, <4>1, LatestNumber
    <3>2. Makes(d)
      BY <1>0, <2>4 DEF Makes
    <3>3. \A r \in Runs : r # last => run'[r] = run[r]
      BY <1>0, <2>4
    <3>4. run'[last] = "queued"
      BY <1>0, <2>4
    <3>5. NamedExists'
      BY <1>a, <2>2, <3>3, <3>4 DEF NamedExists
    <3>6. AtWork'
      BY <1>0, <2>1, <3>1, <3>3 DEF AtWork
    <3>7. Contiguous'
      BY <3>2, ContiguousStep
    <3>8. QED
      BY <1>0, <3>1, <3>3, <3>5, <3>6, <3>7
  <2>5. QED
    BY <2>1, <2>3, <2>4
<1>6. ASSUME NEW w \in Workers, NEW j \in Jobs, Take(w, j) PROVE Goal
  <2>1. /\ phase' = [phase EXCEPT ![j] = "working"] /\ phase[j] = "pending"
        /\ pc' = [pc EXCEPT ![w] = "open"] /\ UNCHANGED <<run, cur, verdict>>
    BY <1>6 DEF Take, Queue!Begin, Goto, runs, local
  <2>2. AtWork'
    BY <1>0, <2>1 DEF AtWork, Busy
  <2>3. QED
    BY <1>0, <1>1, <2>1, <2>2
<1>7. ASSUME NEW w \in Workers, NEW j \in Jobs, Open(w, j) PROVE Goal
  <2>1. PICK r \in Runs :
           /\ cur' = [cur EXCEPT ![w] = r]
           /\ run[r] # "none" \/ (Latest(r[1]) = 0 /\ r = <<r[1], 1>>)
           /\ \/ run[r] \in Finished /\ UNCHANGED run /\ pc'[w] = "refresh"
                                     /\ verdict' = [verdict EXCEPT ![w] = run[r]]
              \/ /\ run[r] \notin Finished /\ run' = [run EXCEPT ![r] = "analyzing"]
                 /\ pc'[w] = "discover" /\ UNCHANGED verdict
           /\ \A v \in Workers : pc[v] \in Busy => cur[v][1] # r[1]
           /\ pc[w] = "open" /\ \A v \in Workers : v # w => pc'[v] = pc[v]
           /\ UNCHANGED <<phase, owner, report, batch, mark>>
    BY <1>7, OpenShape
  <2>2. /\ \A o \in Runs : o # r => run'[o] = run[o]
        /\ run'[r] # "none" /\ (run'[r] \in Finished <=> run[r] \in Finished)
        /\ run[r] \in Finished => run'[r] = run[r]
    BY <1>0, <2>1
  <2>3. AtWork'
    <3>1. ASSUME NEW v \in Workers, v # w, pc[v] \in Busy
          PROVE  cur'[v] = cur[v] /\ run'[cur[v]] = run[cur[v]] /\ verdict'[v] = verdict[v]
      BY <1>0, <2>1, <2>2, <3>1
    <3>2. cur'[w] = r
      <4>1. cur \in [Workers -> Runs \cup {None}]
        BY DEF Typed, TypeOK
      <4>2. QED
        BY <2>1, <4>1
    <3>3. run'[r] \in Finished => pc'[w] = "refresh" /\ verdict'[w] \in Finished
      BY <1>0, <2>1, <2>2
    <3>4. QED
      BY <2>1, <2>2, <3>1, <3>2, <3>3 DEF AtWork
  <2>4. Contiguous'
    <3>1. CASE run[r] # "none"
      BY <2>2, <3>1, ContiguousStep DEF MakesNone
    <3>2. CASE Latest(r[1]) = 0 /\ r = <<r[1], 1>>
      <4>1. r[1] \in Documents
        BY DEF Runs
      <4>2. Makes(r[1])
        BY <2>2, <3>2, AnalysisAssumption DEF Makes
      <4>3. QED
        BY <4>1, <4>2, ContiguousStep
    <3>3. QED
      BY <2>1, <3>1, <3>2
  <2>5. NamedExists'
    BY <1>a, <2>1, <2>2 DEF NamedExists
  <2>6. QED
    BY <2>2, <2>3, <2>4, <2>5
<1>8. ASSUME NEW w \in Workers, NEW j \in Jobs, Within(w, j) PROVE Goal
  <2>1. pc[w] \in Busy \ {"refresh", "status"} /\ UNCHANGED <<run, phase, cur>>
    BY <1>8, WithinShape
  <2>2. run[cur[w]] # "none" /\ run[cur[w]] \notin Finished
    BY <2>1 DEF AtWork
  <2>3. AtWork'
    BY <1>8, <2>1, <2>2, WithinShape DEF AtWork
  <2>4. QED
    BY <1>1, <2>1, <2>3
<1>9. ASSUME NEW w \in Workers, NEW j \in Jobs, Refresh(w, j) PROVE Goal
  <2>1. /\ pc[w] = "refresh" /\ pc' = [pc EXCEPT ![w] = "status"]
        /\ UNCHANGED <<run, phase, cur, verdict>>
    BY <1>9 DEF Refresh, On, Goto, jobs, runs
  <2>2. AtWork'
    BY <1>0, <2>1 DEF AtWork, Busy
  <2>3. QED
    BY <1>1, <2>1, <2>2
<1>10. ASSUME NEW w \in Workers, NEW j \in Jobs, SetStatus(w, j) PROVE Goal
  <2>1. /\ pc[w] = "status" /\ pc' = [pc EXCEPT ![w] = "settle"]
        /\ run' = [run EXCEPT ![cur[w]] = verdict[w]]
        /\ UNCHANGED <<phase, cur, verdict>>
    BY <1>10 DEF SetStatus, On, Goto, jobs, local
  <2>2. /\ pc[w] \in Busy /\ cur[w] \in Runs /\ verdict[w] \in Terminal
        /\ run[cur[w]] # "none" /\ (run[cur[w]] \in Finished => verdict[w] \in Finished)
    BY <1>0, <2>1 DEF AtWork, Busy
  <2>3. /\ \A o \in Runs : o # cur[w] => run'[o] = run[o]
        /\ run'[cur[w]] = verdict[w]
    BY <1>0, <2>1, <2>2
  <2>4. MakesNone
    BY <1>0, <2>2, <2>3 DEF MakesNone
  <2>5. AtWork'
    <3>1. ASSUME NEW v \in Workers, pc'[v] \in Busy
          PROVE  v # w /\ pc[v] \in Busy /\ pc'[v] = pc[v] /\ cur[v] # cur[w] /\ cur[v] \in Runs
      BY <1>0, <2>1, <2>2, <3>1 DEF DocumentExclusive, Busy
    <3>2. QED
      BY <2>1, <2>3, <3>1 DEF AtWork
  <2>6. NamedExists'
    BY <1>a, <2>1, <2>4 DEF NamedExists, MakesNone
  <2>7. Contiguous'
    BY <2>4, ContiguousStep
  <2>8. QED
    BY <2>2, <2>3, <2>5, <2>6, <2>7
<1>11. ASSUME NEW w \in Workers, NEW j \in Jobs, Leaves(w, j) PROVE Goal
  <2>1. /\ phase[j] = "working" /\ \A k \in Jobs : k # j => phase'[k] = phase[k]
        /\ pc' = [pc EXCEPT ![w] = "idle"]
        /\ \A v \in Workers : v # w => cur'[v] = cur[v] /\ verdict'[v] = verdict[v]
    BY <1>11, LeavesShape
  <2>2. \/ UNCHANGED run
        \/ j \in Runs /\ run[j] = "analyzing" /\ run' = [run EXCEPT ![j] = "failed"]
    BY <1>11 DEF Leaves, Complete, Retry, Die, Crash, runs
  <2>3. /\ \A r \in Runs : run'[r] = run[r] \/ (run[r] = "analyzing" /\ run'[r] = "failed")
        /\ "failed" \notin Finished
    BY <1>0, <2>2 DEF Finished
  <2>4. MakesNone
    BY <2>3 DEF MakesNone
  <2>5. AtWork'
    <3>1. ASSUME NEW v \in Workers, pc'[v] \in Busy
          PROVE  v # w /\ pc[v] \in Busy /\ pc'[v] = pc[v] /\ cur[v] \in Runs
      BY <1>0, <2>1, <3>1 DEF Busy
    <3>2. QED
      BY <2>1, <2>3, <3>1 DEF AtWork
  <2>6. NamedExists'
    BY <1>a, <2>1, <2>4 DEF NamedExists, MakesNone
  <2>7. Contiguous'
    BY <2>4, ContiguousStep
  <2>8. QED
    BY <1>0, <2>3, <2>5, <2>6, <2>7
<1>12. QED
  BY <1>3, <1>4, <1>5, <1>6, <1>7, <1>8, <1>9, <1>10, <1>11 DEF Next, Step, Within, Leaves

--------------------------------------------------------------------------------
\* A batch is derived complete only from finished documents.
LEMMA DerivedComplete ==
  ASSUME NEW status, BatchStatus(status) = "complete"
  PROVE  \A d \in Documents : status[d] \in Finished
BY DEF BatchStatus, Terminal, Finished

LEMMA BatchStep ==
  ASSUME Typed, JobsInv, RunsInv, BatchInv, [Next]_vars,
         \A r \in Runs : run[r] \in Finished => run'[r] \in Finished
  PROVE  BatchInv'
<1> USE DEF BatchInv
<1>0. /\ report \in [Documents -> {"analyzing"} \cup Terminal]
      /\ run \in [Runs -> {"none"} \cup InFlight \cup Terminal]
      /\ verdict \in [Workers -> Terminal \cup {None}]
      /\ mark \in [Workers -> Terminal \cup {"analyzing", None}]
      /\ cur \in [Workers -> Runs \cup {None}]
      /\ pc \in [Workers -> {"idle", "open", "discover", "entities", "stage", "load",
                              "activate", "refresh", "status", "settle", "raise"}]
      /\ \A w \in Workers : pc[w] \in Busy => cur[w] \in Runs
  BY DEF Typed, TypeOK, Knows
<1>1. \A d \in Documents : Ended(d) => Ended(d)'
  BY DEF Ended, Runs
<1>2. ASSUME UNCHANGED batch,
             \A d \in Documents : report'[d] \in Finished => report[d] \in Finished,
             \A w \in Workers : pc'[w] = "status" =>
                pc[w] = "status" /\ mark'[w] = mark[w] /\ verdict'[w] = verdict[w] /\ cur'[w] = cur[w]
      PROVE  BatchInv'
  <2>1. ReportsEarned'
    BY <1>1, <1>2 DEF ReportsEarned
  <2>2. MarkEarned'
    BY <1>1, <1>2 DEF MarkEarned
  <2>3. CompleteBatchIsDone'
    BY <1>1, <1>2 DEF CompleteBatchIsDone, Ended
  <2>4. QED
    BY <2>1, <2>2, <2>3
<1>3. CASE Rests \/ UNCHANGED vars
  BY <1>2, <1>3 DEF Rests, vars, local
<1>4. CASE Reclaim
  BY <1>2, <1>4, ReclaimShape
<1>5. ASSUME NEW d \in Documents, NEW reanalyze \in BOOLEAN, Schedule(d, reanalyze)
      PROVE  BatchInv'
  BY <1>2, <1>5, ScheduleShape
<1>6. ASSUME NEW w \in Workers, NEW j \in Jobs, Take(w, j) PROVE BatchInv'
  <2>1. /\ pc' = [pc EXCEPT ![w] = "open"] /\ UNCHANGED <<report, batch, cur, verdict, mark>>
    BY <1>6 DEF Take, Goto, local
  <2>2. QED
    BY <1>0, <1>2, <2>1
<1>7. ASSUME NEW w \in Workers, NEW j \in Jobs, Open(w, j) PROVE BatchInv'
  <2>1. PICK r \in Runs :
          /\ cur' = [cur EXCEPT ![w] = r]
          /\ \/ verdict' = [verdict EXCEPT ![w] = run[r]]
             \/ UNCHANGED verdict
          /\ pc'[w] \in {"refresh", "discover"}
          /\ \A v \in Workers : v # w => pc'[v] = pc[v]
          /\ UNCHANGED <<report, batch, mark>>
    BY <1>7, OpenShape
  <2>2. ASSUME NEW v \in Workers, pc'[v] = "status"
        PROVE  pc[v] = "status" /\ mark'[v] = mark[v] /\ verdict'[v] = verdict[v] /\ cur'[v] = cur[v]
    BY <1>0, <2>1, <2>2
  <2>3. QED
    BY <1>2, <2>1, <2>2
<1>8. ASSUME NEW w \in Workers, NEW j \in Jobs, Within(w, j) PROVE BatchInv'
  <2>1. pc'[w] # "status"
    BY <1>8, WithinShape DEF Busy
  <2>2. QED
    BY <1>2, <1>8, <2>1, WithinShape
<1>9. ASSUME NEW w \in Workers, NEW j \in Jobs, Refresh(w, j) PROVE BatchInv'
  <2>1. /\ pc[w] = "refresh" /\ pc' = [pc EXCEPT ![w] = "status"] /\ owner[j] = w
        /\ UNCHANGED <<run, report, batch, cur, verdict>>
        /\ mark' = [mark EXCEPT ![w] = IF BatchStatus(States(w, j[1])) = batch
                                       THEN None ELSE BatchStatus(States(w, j[1]))]
    BY <1>9 DEF Refresh, On, Goto, runs
  <2>2. cur[w][1] = j[1] /\ j[1] \in Documents
    BY <2>1 DEF JobsInv, OwnDocument, Busy, Jobs
  <2>3. ASSUME mark'[w] = "complete", mark'[w] # None
        PROVE  verdict[w] \in Finished /\ \A d \in Documents : d # cur[w][1] => Ended(d)
    <3>1. BatchStatus(States(w, j[1])) = "complete"
      BY <1>0, <2>1, <2>3
    <3>2. \A d \in Documents : States(w, j[1])[d] \in Finished
      BY <3>1, DerivedComplete
    <3>3. verdict[w] \in Finished /\ \A d \in Documents : d # j[1] => report[d] \in Finished
      BY <1>0, <2>2, <3>2 DEF States
    <3>4. QED
      BY <2>2, <3>3 DEF ReportsEarned
  <2>4. MarkEarned'
    BY <1>0, <1>1, <2>1, <2>3 DEF MarkEarned
  <2>5. QED
    BY <1>1, <2>1, <2>4 DEF ReportsEarned, CompleteBatchIsDone, Ended
<1>10. ASSUME NEW w \in Workers, NEW j \in Jobs, SetStatus(w, j) PROVE BatchInv'
  <2>1. /\ pc[w] = "status" /\ pc' = [pc EXCEPT ![w] = "settle"] /\ owner[j] = w
        /\ run' = [run EXCEPT ![cur[w]] = verdict[w]]
        /\ report' = [report EXCEPT ![j[1]] = verdict[w]]
        /\ batch' = IF mark[w] = None THEN batch ELSE mark[w]
        /\ UNCHANGED <<cur, verdict, mark>>
    BY <1>10 DEF SetStatus, On, Goto, local
  <2>2. cur[w][1] = j[1] /\ j[1] \in Documents /\ cur[w] \in Runs
    BY <1>0, <2>1 DEF JobsInv, OwnDocument, Busy, Jobs
  <2>3. verdict[w] \in Finished => Ended(j[1])'
    <3>1. cur[w] = <<j[1], cur[w][2]>> /\ cur[w][2] \in Generations
      BY <2>2 DEF Runs
    <3>2. run'[cur[w]] = verdict[w]
      BY <1>0, <2>1, <2>2
    <3>3. QED
      BY <3>1, <3>2 DEF Ended
  <2>4. ReportsEarned'
    BY <1>0, <1>1, <2>1, <2>2, <2>3 DEF ReportsEarned
  <2>5. MarkEarned'
    BY <1>0, <1>1, <2>1 DEF MarkEarned
  <2>6. CompleteBatchIsDone'
    <3>1. CASE batch' = batch
      BY <1>1, <3>1 DEF CompleteBatchIsDone, Ended
    <3>2. CASE batch' = mark[w] /\ mark[w] # None
      <4>1. mark[w] = "complete" => \A d \in Documents : Ended(d)'
        BY <1>1, <2>1, <2>2, <2>3, <3>2 DEF MarkEarned
      <4>2. QED
        BY <3>2, <4>1 DEF CompleteBatchIsDone, Ended
    <3>3. QED
      BY <2>1, <3>1, <3>2
  <2>7. QED
    BY <2>4, <2>5, <2>6
<1>11. ASSUME NEW w \in Workers, NEW j \in Jobs, Leaves(w, j) PROVE BatchInv'
  <2>1. /\ pc' = [pc EXCEPT ![w] = "idle"]
        /\ \A v \in Workers : v # w => /\ cur'[v] = cur[v] /\ verdict'[v] = verdict[v]
                                       /\ mark'[v] = mark[v]
    BY <1>11, LeavesShape
  <2>2. \A v \in Workers : pc'[v] = "status" => v # w /\ pc[v] = "status"
    BY <1>0, <2>1
  <2>3. CASE UNCHANGED <<report, batch>>
    BY <1>2, <2>1, <2>2, <2>3
  <2>4. CASE Die(w, j)
    <3>1. \/ report' = [report EXCEPT ![j[1]] = "failed"] /\ batch' = BatchStatus(report')
          \/ UNCHANGED report /\ batch' = "failed"
      BY <2>4 DEF Die
    <3>2. j[1] \in Documents /\ "failed" \notin Finished
      BY DEF Jobs, Finished
    <3>3. \A d \in Documents : report'[d] \in Finished => report[d] \in Finished
      BY <1>0, <3>1, <3>2
    <3>4. batch' # "complete"
      <4>1. CASE report' = [report EXCEPT ![j[1]] = "failed"] /\ batch' = BatchStatus(report')
        <5>1. report'[j[1]] \notin Finished
          BY <1>0, <3>2, <4>1
        <5>2. QED
          BY <3>2, <4>1, <5>1, DerivedComplete
      <4>2. QED
        BY <3>1, <4>1
    <3>5. ReportsEarned' /\ MarkEarned'
      BY <1>1, <2>1, <2>2, <3>3 DEF ReportsEarned, MarkEarned
    <3>6. QED
      BY <3>4, <3>5 DEF CompleteBatchIsDone
  <2>5. QED
    BY <1>11, <2>3, <2>4 DEF Leaves, Complete, Retry, Crash
<1>12. QED
  BY <1>3, <1>4, <1>5, <1>6, <1>7, <1>8, <1>9, <1>10, <1>11 DEF Next, Step, Within, Leaves

LEMMA InitialRuns == Init => JobsInv /\ RunsInv
<1> SUFFICES ASSUME Init PROVE JobsInv /\ RunsInv
  OBVIOUS
<1>1. JobsInv
  BY AnalysisAssumption DEF Init, JobsInv, OwnedIsWorking, OneJob, OwnDocument, Busy
<1>2. Contiguous
  <2>1. \A d \in Documents, g \in Generations : run[<<d, g>>] = "none"
    BY DEF Init, Runs
  <2>2. 0 \in 0..MaxRuns /\ \A g \in Generations : ~(g <= 0)
    BY AnalysisAssumption DEF Generations
  <2>3. QED
    BY <2>1, <2>2 DEF Contiguous
<1>3. NamedExists /\ AtWork
  BY DEF Init, NamedExists, AtWork, Busy, Jobs
<1>4. QED
  BY <1>1, <1>2, <1>3 DEF RunsInv

\* A batch is complete only when each of its documents has a run that has ended
\* well, for any number of documents that are analyzed, fail, are retried and
\* asked for again at the same time (refresh_batches, _set_status).
THEOREM CompleteIsDone == Spec => []CompleteBatchIsDone
<1>1. Init => BatchInv
  BY DEF Init, BatchInv, ReportsEarned, MarkEarned, CompleteBatchIsDone, Finished
<1>2. /\ Typed /\ EvidenceInv /\ JobsInv /\ RunsInv /\ BatchInv
      /\ [Next]_vars
      => JobsInv' /\ RunsInv' /\ BatchInv'
  BY JobsStep, RunsStep, BatchStep DEF EvidenceInv
<1>3. BatchInv => CompleteBatchIsDone
  BY DEF BatchInv
<1>4. QED
  BY <1>1, <1>2, <1>3, InitialRuns, TypeCorrect, EvidenceInvariant, PTL DEF Spec, Typed

--------------------------------------------------------------------------------
(* What a run has found, and what the document has published.              *)

\* Every active row is of an entity its run lists.
Inventory == \A row \in Rows : active[row] => entity[row] # "none"

\* A run that is about to end complete lists every property at which the
\* document has evidence, unless it was complete before.
Covered(r) == \A row \in Rows : active[row] /\ Doc(row) = r[1]
                 => \E e \in Listed(r) : PropertyOf[e] = At(row)
VerdictCovers ==
  \A w \in Workers : pc[w] \in {"refresh", "status"} /\ verdict[w] = "complete"
     => run[cur[w]] = "complete" \/ Covered(cur[w])

\* Active rows are of runs that exist.  A job that names a run works on it; the
\* upload's job works on a run that no active row of the document is newer than.
ActiveMade == \A row \in Rows : active[row] => run[row[1]] # "none"
NoNewerActive ==
  \A w \in Workers, j \in Jobs : owner[j] = w /\ pc[w] \in Busy =>
     IF j[2] > 0 THEN cur[w] = j
     ELSE \A row \in Rows : active[row] /\ Doc(row) = j[1] => Gen(row) <= cur[w][2]

PublishedInv == Inventory /\ VerdictCovers /\ ActiveMade /\ NoNewerActive

\* What others leave to a worker at work: its run, and what its document has
\* published.
Undisturbed(w) ==
  /\ cur'[w] = cur[w]
  /\ run[cur[w]] = "complete" => run'[cur[w]] = "complete"
  /\ \A row \in Rows : active'[row] /\ Doc(row) = cur[w][1] => active[row]
Unmoved(w) == pc'[w] = pc[w] /\ verdict'[w] = verdict[w]

\* A handler goes on with its run and comes to a verdict, or opens a run.
Concludes(w) == /\ Undisturbed(w)
                /\ \/ pc[w] \in {"refresh", "status"} /\ verdict[w] = "complete"
                   \/ Covered(cur[w])
GoesOn(w) == /\ pc[w] \in Busy /\ cur'[w] = cur[w]
             /\ pc'[w] \in {"refresh", "status"} /\ verdict'[w] = "complete" => Concludes(w)
Opens(w) == pc'[w] \in {"refresh", "status"} /\ verdict'[w] = "complete"
              => run'[cur'[w]] = "complete"

\* No row is forgotten.
LEMMA RowsRemain ==
  ASSUME Typed, [Next]_vars
  PROVE  \A row \in Rows : entity[row] # "none" => entity'[row] # "none"
<1>0. entity \in [Rows -> {"none", "needs_review", "computing", "complete"}]
  BY DEF Typed, TypeOK
<1> DEFINE Writes(s) == \E row : entity' = [entity EXCEPT ![row] = s]
<1>1. ASSUME NEW s, s # "none", Writes(s)
      PROVE  \A row \in Rows : entity[row] # "none" => entity'[row] # "none"
  BY <1>0, <1>1
<1>2. UNCHANGED entity \/ Writes("needs_review") \/ Writes("computing") \/ Writes("complete")
  <2>1. CASE Reclaim \/ Rests \/ UNCHANGED vars
    BY <2>1 DEF Reclaim, Rests, vars, rows
  <2>2. ASSUME NEW d \in Documents, NEW reanalyze \in BOOLEAN, Schedule(d, reanalyze)
        PROVE  UNCHANGED entity
    BY <2>2 DEF Schedule, rows
  <2>3. ASSUME NEW w \in Workers, NEW j \in Jobs,
               Take(w, j) \/ Open(w, j) \/ Discover(w, j) \/ Skip(w, j) \/ Load(w, j)
               \/ Conclude(w, j) \/ Refresh(w, j) \/ SetStatus(w, j) \/ Leaves(w, j)
        PROVE  UNCHANGED entity
    BY <2>3 DEF Take, Open, Discover, Skip, Load, Conclude, Refresh, SetStatus, Leaves,
                Complete, Retry, Die, Crash, rows
  <2>4. ASSUME NEW w \in Workers, NEW j \in Jobs, Extract(w, j)
        PROVE  UNCHANGED entity \/ Writes("needs_review")
    <3>1. UNCHANGED entity \/ \E e \in todo[w] : Record(<<cur[w], e>>)
      BY <2>4 DEF Extract
    <3>2. QED
      BY <3>1 DEF Record
  <2>5. ASSUME NEW w \in Workers, NEW j \in Jobs, Stage(w, j)
        PROVE  Writes("needs_review") \/ Writes("computing")
    BY <2>5 DEF Stage, Rejected
  <2>6. ASSUME NEW w \in Workers, NEW j \in Jobs, Activate(w, j)
        PROVE  Writes("needs_review") \/ Writes("complete")
    BY <2>6 DEF Activate, Rejected
  <2>7. QED
    BY <2>1, <2>2, <2>3, <2>4, <2>5, <2>6 DEF Next, Step, Leaves
<1>3. QED
  BY <1>0, <1>1, <1>2

LEMMA PublishedKept ==
  ASSUME Typed, PublishedInv, NoNewerActive',
         \A row \in Rows : entity[row] # "none" => entity'[row] # "none",
         \A r \in Runs : run[r] # "none" => run'[r] # "none",
         \A row \in Rows : active'[row] =>
            active[row] \/ (entity'[row] # "none" /\ run[row[1]] # "none"),
         \A w \in Workers : pc'[w] \in Busy =>
            (pc[w] \in Busy /\ Undisturbed(w) /\ Unmoved(w)) \/ GoesOn(w) \/ Opens(w)
  PROVE  PublishedInv'
<1> USE DEF PublishedInv
<1>0. /\ {"refresh", "status"} \subseteq Busy
      /\ \A w \in Workers : pc[w] \in Busy => cur[w] \in Runs
      /\ \A row \in Rows : row[1] \in Runs
  BY DEF Busy, Typed, Knows, Rows
<1>1. Inventory'
  BY DEF Inventory
<1>2. VerdictCovers'
  <2>1. ASSUME NEW w \in Workers, pc'[w] \in {"refresh", "status"}, verdict'[w] = "complete"
        PROVE  run'[cur'[w]] = "complete" \/ Covered(cur[w])'
    <3>1. CASE pc[w] \in Busy /\ Undisturbed(w) /\ Covered(cur[w])
      <4>1. \A e \in Listed(cur[w]) : e \in Listed(cur[w])'
        <5>1. cur'[w] = cur[w] /\ \A e \in Entities : <<cur[w], e>> \in Rows
          BY <1>0, <3>1 DEF Rows, Undisturbed
        <5>2. QED
          BY <5>1 DEF Listed
      <4>2. \A row \in Rows : active'[row] /\ Doc(row) = cur'[w][1]
              => \E e \in Listed(cur[w])' : PropertyOf[e] = At(row)
        BY <3>1, <4>1 DEF Covered, Undisturbed
      <4>3. QED
        BY <4>2 DEF Covered, Doc, At
    <3>2. CASE Undisturbed(w) /\ run[cur[w]] = "complete"
      BY <3>2 DEF Undisturbed
    <3>3. \/ pc[w] \in Busy /\ Undisturbed(w) /\ (run[cur[w]] = "complete" \/ Covered(cur[w]))
          \/ run'[cur'[w]] = "complete"
      BY <1>0, <2>1 DEF VerdictCovers, Unmoved, GoesOn, Opens, Concludes
    <3>4. QED
      BY <3>1, <3>2, <3>3
  <2>2. QED
    BY <2>1 DEF VerdictCovers
<1>3. ActiveMade'
  BY <1>0 DEF ActiveMade
<1>4. QED
  BY <1>1, <1>2, <1>3

\* No run is unmade, and nobody else ends a handler's run.
LEMMA RunsRemain ==
  ASSUME Typed, JobsInv, RunsInv, DocumentExclusive, [Next]_vars
  PROVE  /\ \A r \in Runs : run[r] # "none" => run'[r] # "none"
         /\ \A r \in Runs : run[r] # "complete" /\ run'[r] = "complete" =>
               \E w \in Workers, j \in Jobs :
                  SetStatus(w, j) /\ r = cur[w] /\ verdict[w] = "complete"
         /\ \A w \in Workers : pc[w] \in Busy /\ pc'[w] \in Busy /\ run[cur[w]] = "complete"
               => run'[cur[w]] = "complete"
<1>0. /\ run \in [Runs -> {"none"} \cup InFlight \cup Terminal]
      /\ \A w \in Workers : pc[w] \in Busy => cur[w] \in Runs
      /\ \A w \in Workers : pc[w] \in {"refresh", "status"} => verdict[w] \in Terminal
      /\ pc \in [Workers -> {"idle", "open", "discover", "entities", "stage", "load",
                              "activate", "refresh", "status", "settle", "raise"}]
  BY DEF Typed, TypeOK, Knows
<1>1. ASSUME NEW w \in Workers, NEW j \in Jobs, SetStatus(w, j) PROVE
         /\ \A r \in Runs : run[r] # "none" => run'[r] # "none"
         /\ \A r \in Runs : run[r] # "complete" /\ run'[r] = "complete" =>
               r = cur[w] /\ verdict[w] = "complete"
         /\ \A v \in Workers : pc[v] \in Busy /\ pc'[v] \in Busy /\ run[cur[v]] = "complete"
               => run'[cur[v]] = "complete"
  <2>1. /\ pc[w] = "status" /\ pc' = [pc EXCEPT ![w] = "settle"]
        /\ run' = [run EXCEPT ![cur[w]] = verdict[w]]
    BY <1>1 DEF SetStatus, On, Goto
  <2>2. verdict[w] # "none" /\ cur[w] \in Runs /\ pc[w] \in Busy /\ pc'[w] \notin Busy
    BY <1>0, <2>1 DEF Terminal, Finished, Busy
  <2>3. /\ \A r \in Runs : r # cur[w] => run'[r] = run[r]
        /\ run'[cur[w]] = verdict[w]
    BY <1>0, <2>1, <2>2
  <2>4. \A v \in Workers : pc[v] \in Busy /\ pc'[v] \in Busy => cur[v] # cur[w] /\ cur[v] \in Runs
    BY <1>0, <2>2 DEF DocumentExclusive
  <2>5. QED
    BY <2>2, <2>3, <2>4
<1>2. ASSUME \A w \in Workers, j \in Jobs : ~SetStatus(w, j)
      PROVE  \A r \in Runs : run'[r] = run[r] \/ run'[r] \in {"queued", "analyzing", "failed"}
  <2> DEFINE Writes(s) == \E r \in Runs : run' = [run EXCEPT ![r] = s]
  <2>1. UNCHANGED run \/ Writes("queued") \/ Writes("analyzing") \/ Writes("failed")
    <3>1. ASSUME NEW d \in Documents, NEW reanalyze \in BOOLEAN, Schedule(d, reanalyze)
          PROVE  UNCHANGED run \/ Writes("queued")
      BY <3>1, ScheduleShape
    <3>2. ASSUME NEW w \in Workers, NEW j \in Jobs, Open(w, j)
          PROVE  UNCHANGED run \/ Writes("analyzing")
      BY <3>2, OpenShape
    <3>3. ASSUME NEW w \in Workers, NEW j \in Jobs, Leaves(w, j)
          PROVE  UNCHANGED run \/ Writes("failed")
      BY <3>3 DEF Leaves, Complete, Retry, Die, Crash, runs
    <3>4. ASSUME NEW w \in Workers, NEW j \in Jobs, Within(w, j)
          PROVE  UNCHANGED run
      BY <3>4, WithinShape
    <3>5. ASSUME NEW w \in Workers, NEW j \in Jobs, Take(w, j) \/ Refresh(w, j)
          PROVE  UNCHANGED run
      BY <3>5 DEF Take, Refresh, runs
    <3>6. CASE Reclaim \/ Rests \/ UNCHANGED vars
      BY <3>6 DEF Reclaim, Rests, vars, runs
    <3>7. QED
      BY <1>2, <3>1, <3>2, <3>3, <3>4, <3>5, <3>6 DEF Next, Step, Within, Leaves
  <2>2. QED
    BY <1>0, <2>1
<1>3. \A r \in Runs : run[r] \in Finished => run'[r] \in Finished
  BY RunsStep
<1>4. CASE \A w \in Workers, j \in Jobs : ~SetStatus(w, j)
  BY <1>0, <1>2, <1>3, <1>4 DEF Finished
<1>5. QED
  BY <1>1, <1>4

\* A run ends complete only if nothing at a property it does not list stays
\* published.
LEMMA ConclusionCovers ==
  ASSUME Typed, Inventory, NEW r \in Runs, NEW flagged, Conclusion(r, flagged) = "complete"
  PROVE  Covered(r)
<1> SUFFICES ASSUME NEW row \in Rows, active[row], Doc(row) = r[1]
             PROVE  \E e \in Listed(r) : PropertyOf[e] = At(row)
  BY DEF Covered
<1>1. CASE row[1] = r
  <2>1. row = <<r, row[2]>> /\ row[2] \in Entities
    BY <1>1 DEF Rows
  <2>2. row[2] \in Listed(r)
    BY <2>1 DEF Inventory, Listed
  <2>3. QED
    BY <2>2 DEF At
<1>2. CASE row[1] # r
  <2>1. At(row) \in {PropertyOf[e] : e \in Listed(r)}
    BY <1>2 DEF Conclusion
  <2>2. QED
    BY <2>1
<1>3. QED
  BY <1>1, <1>2

\* The run a job opens: the one it names, else the latest, else the first.
LEMMA OpenRun ==
  ASSUME Typed, NEW w \in Workers, NEW j \in Jobs, Open(w, j)
  PROVE  /\ cur'[w][1] = j[1]
         /\ j[2] > 0 => cur'[w] = j
         /\ ~(j[2] > 0) /\ Latest(j[1]) # 0 => cur'[w][2] = Latest(j[1])
<1>1. cur \in [Workers -> Runs \cup {None}] /\ j = <<j[1], j[2]>>
  BY DEF Typed, TypeOK, Jobs
<1>2. QED
  BY <1>1 DEF Open

LEMMA NoNewerStep ==
  ASSUME Typed, JobsInv, RunsInv, DocumentExclusive, ActiveMade, NoNewerActive, [Next]_vars
  PROVE  NoNewerActive'
<1>0. /\ owner \in [Jobs -> Workers \cup {None}] /\ None \notin Workers
      /\ pc \in [Workers -> {"idle", "open", "discover", "entities", "stage", "load",
                              "activate", "refresh", "status", "settle", "raise"}]
      /\ \A w \in Workers : pc[w] \in Busy => cur[w] \in Runs
      /\ \A w \in Workers, j \in Jobs : owner[j] = w /\ pc[w] \in Busy => cur[w][1] = j[1]
      /\ \A row \in Rows : row[1] \in Runs /\ Doc(row) \in Documents /\ Gen(row) \in Generations
  BY AnalysisAssumption DEF Typed, TypeOK, Knows, Queue!TypeOK, JobsInv, OwnDocument, Rows,
                            Runs, Doc, Gen
<1>1. ASSUME \A w \in Workers, j \in Jobs : owner'[j] = w /\ pc'[w] \in Busy =>
                /\ owner[j] = w /\ pc[w] \in Busy /\ cur'[w] = cur[w]
                /\ \A row \in Rows : active'[row] /\ Doc(row) = j[1] =>
                      active[row] \/ Gen(row) <= cur[w][2]
      PROVE  NoNewerActive'
  BY <1>1 DEF NoNewerActive, Doc, Gen
<1>2. CASE Rests \/ UNCHANGED vars
  BY <1>1, <1>2 DEF Rests, vars, jobs, rows, local
<1>3. CASE Reclaim
  BY <1>1, <1>3, ReclaimShape DEF Reclaim, rows
<1>4. ASSUME NEW d \in Documents, NEW reanalyze \in BOOLEAN, Schedule(d, reanalyze)
      PROVE  NoNewerActive'
  <2>1. UNCHANGED <<active, pc, cur>> /\ (UNCHANGED owner)
    BY <1>4, ScheduleShape DEF Schedule, rows, Queue!Submit
  <2>2. QED
    BY <1>1, <2>1
<1>5. ASSUME NEW w \in Workers, NEW j \in Jobs, Take(w, j) PROVE NoNewerActive'
  <2>1. /\ owner' = [owner EXCEPT ![j] = w] /\ pc' = [pc EXCEPT ![w] = "open"]
        /\ UNCHANGED <<active, cur>>
    BY <1>5 DEF Take, Queue!Begin, Goto, rows, local
  <2>2. \A v \in Workers, k \in Jobs : owner'[k] = v /\ pc'[v] \in Busy =>
           v # w /\ owner[k] = v /\ pc'[v] = pc[v]
    BY <1>0, <2>1 DEF Busy
  <2>3. QED
    BY <1>1, <2>1, <2>2
<1>6. ASSUME NEW w \in Workers, NEW j \in Jobs, Open(w, j) PROVE NoNewerActive'
  <2>1. /\ UNCHANGED <<owner, active>> /\ owner[j] = w
        /\ \A v \in Workers : v # w => pc'[v] = pc[v] /\ cur'[v] = cur[v]
    BY <1>0, <1>6 DEF Open, On, Goto, Verdict, jobs, rows
  <2>2. \A k \in Jobs : owner[k] = w => k = j
    BY <2>1 DEF JobsInv, OneJob
  <2>3. ASSUME ~(j[2] > 0), NEW row \in Rows, active[row], Doc(row) = j[1]
        PROVE  Gen(row) <= cur'[w][2]
    <3>1. row[1] = <<j[1], Gen(row)>> /\ Gen(row) \in Generations /\ j[1] \in Documents
      BY <2>3 DEF Rows, Runs, Doc, Gen
    <3>2. run[row[1]] # "none"
      BY <2>3 DEF ActiveMade
    <3>3. Gen(row) <= Latest(j[1])
      BY <3>1, <3>2, LatestNumber DEF RunsInv
    <3>4. Latest(j[1]) # 0
      BY <3>1, <3>3, LatestType, AnalysisAssumption DEF Generations
    <3>5. QED
      BY <1>6, <2>3, <3>3, <3>4, OpenRun
  <2>4. ASSUME NEW v \in Workers, NEW k \in Jobs, owner'[k] = v, pc'[v] \in Busy
        PROVE  IF k[2] > 0 THEN cur'[v] = k
               ELSE \A row \in Rows : active'[row] /\ Doc(row) = k[1] => Gen(row) <= cur'[v][2]
    <3>1. CASE v = w
      BY <1>6, <2>1, <2>2, <2>3, <2>4, <3>1, OpenRun
    <3>2. CASE v # w
      BY <2>1, <2>4, <3>2 DEF NoNewerActive
    <3>3. QED
      BY <3>1, <3>2
  <2>5. QED
    BY <2>4 DEF NoNewerActive, Doc, Gen
<1>7. ASSUME NEW w \in Workers, NEW j \in Jobs, Within(w, j) PROVE NoNewerActive'
  <2>1. /\ pc[w] \in Busy /\ UNCHANGED <<owner, cur>>
        /\ \A v \in Workers : pc'[v] \in Busy => pc[v] \in Busy
    BY <1>7, WithinShape
  <2>2. CASE UNCHANGED active
    BY <1>1, <2>1, <2>2
  <2>3. CASE active' # active
    <3>1. PICK v \in Workers, k \in Jobs : Activate(v, k) /\ active' = ActiveOnce(v)
      BY <2>3, OnlyActivate
    <3>2. pc[v] \in Busy /\ cur[v] \in Runs
      BY <1>0, <3>1 DEF Activate, On, Busy
    <3>3. \A row \in Rows : active'[row] => active[row] \/ row = RowOf(v)
      BY <3>1 DEF ActiveOnce
    <3>4. ASSUME NEW u \in Workers, NEW i \in Jobs, owner[i] = u, pc[u] \in Busy,
                 NEW row \in Rows, active'[row], Doc(row) = i[1], ~active[row]
          PROVE  Gen(row) <= cur[u][2]
      <4>1. row = RowOf(v) /\ Doc(row) = cur[v][1] /\ Gen(row) = cur[v][2]
        BY <3>3, <3>4 DEF RowOf, Doc, Gen
      <4>2. cur[u][1] = cur[v][1]
        BY <1>0, <3>4, <4>1
      <4>3. u = v
        BY <3>2, <3>4, <4>2 DEF DocumentExclusive
      <4>4. Gen(row) \in Nat
        BY <1>0, AnalysisAssumption DEF Generations
      <4>5. QED
        BY <4>1, <4>3, <4>4
    <3>5. QED
      BY <1>1, <2>1, <3>4
  <2>4. QED
    BY <2>2, <2>3
<1>8. ASSUME NEW w \in Workers, NEW j \in Jobs, Refresh(w, j) \/ SetStatus(w, j)
      PROVE  NoNewerActive'
  <2>1. /\ UNCHANGED <<owner, cur, active>>
        /\ \A v \in Workers : pc'[v] \in Busy => pc[v] \in Busy
    BY <1>0, <1>8 DEF Refresh, SetStatus, On, Goto, jobs, local, rows, Busy
  <2>2. QED
    BY <1>1, <2>1
<1>9. ASSUME NEW w \in Workers, NEW j \in Jobs, Leaves(w, j) PROVE NoNewerActive'
  <2>1. /\ owner[j] = w
        /\ owner' = [owner EXCEPT ![j] = None]
        /\ pc' = [pc EXCEPT ![w] = "idle"]
        /\ \A v \in Workers : v # w => cur'[v] = cur[v]
    BY <1>9, LeavesShape
  <2>2. UNCHANGED active
    BY <1>9 DEF Leaves, Complete, Retry, Die, Crash, rows
  <2>3. \A v \in Workers : pc'[v] \in Busy => v # w /\ pc[v] \in Busy
    BY <1>0, <2>1 DEF Busy
  <2>4. \A v \in Workers, k \in Jobs : owner'[k] = v => owner[k] = v
    BY <1>0, <2>1
  <2>5. QED
    BY <1>1, <2>1, <2>2, <2>3, <2>4
<1>10. QED
  BY <1>2, <1>3, <1>4, <1>5, <1>6, <1>7, <1>8, <1>9 DEF Next, Step, Within, Leaves

\* Every step keeps what is published in line with what runs have found.
LEMMA PublishedStep ==
  ASSUME Typed, JobsInv, RunsInv, DocumentExclusive, PublishedInv, [Next]_vars
  PROVE  PublishedInv'
<1>0. /\ pc \in [Workers -> {"idle", "open", "discover", "entities", "stage", "load",
                              "activate", "refresh", "status", "settle", "raise"}]
      /\ \A w \in Workers : pc[w] \in Busy => cur[w] \in Runs
      /\ cur \in [Workers -> Runs \cup {None}]
      /\ item \in [Workers -> Entities \cup {None}]
      /\ verdict \in [Workers -> Terminal \cup {None}]
  BY DEF Typed, TypeOK, Knows, Busy
<1>a. NoNewerActive'
  BY NoNewerStep DEF PublishedInv
<1>b. \A r \in Runs : run[r] # "none" => run'[r] # "none"
  BY RunsRemain
<1>c. \A w \in Workers : pc[w] \in Busy /\ pc'[w] \in Busy /\ run[cur[w]] = "complete"
         => run'[cur[w]] = "complete"
  BY RunsRemain
<1>d. \A row \in Rows : entity[row] # "none" => entity'[row] # "none"
  BY RowsRemain
\* A step of one worker, or of none, that publishes nothing.
<1>1. ASSUME NEW w, UNCHANGED active,
             \A v \in Workers : v # w => UNCHANGED <<pc[v], cur[v], verdict[v]>>,
             w \in Workers /\ pc'[w] \in Busy =>
                UNCHANGED <<pc[w], cur[w], verdict[w]>> \/ GoesOn(w) \/ Opens(w)
      PROVE  PublishedInv'
  <2>1. ASSUME NEW v \in Workers, pc'[v] \in Busy,
               UNCHANGED <<pc[v], cur[v], verdict[v]>>
        PROVE  pc[v] \in Busy /\ Undisturbed(v) /\ Unmoved(v)
    BY <1>c, <1>1, <2>1 DEF Undisturbed, Unmoved
  <2>2. \A v \in Workers : pc'[v] \in Busy =>
           (pc[v] \in Busy /\ Undisturbed(v) /\ Unmoved(v)) \/ GoesOn(v) \/ Opens(v)
    BY <1>1, <2>1
  <2>3. \A row \in Rows : active'[row] => active[row]
    BY <1>1
  <2>4. QED
    BY <1>a, <1>b, <1>d, <2>2, <2>3, PublishedKept
<1>2. CASE Rests \/ UNCHANGED vars
  BY <1>1, <1>2 DEF Rests, vars, rows, runs, local
<1>3. CASE Reclaim
  BY <1>1, <1>3 DEF Reclaim, rows, runs, local
<1>4. ASSUME NEW d \in Documents, NEW reanalyze \in BOOLEAN, Schedule(d, reanalyze)
      PROVE  PublishedInv'
  BY <1>1, <1>4 DEF Schedule, rows, local
<1> SUFFICES ASSUME NEW w \in Workers, NEW j \in Jobs, Take(w, j) \/ Step(w, j) \/ Crash(w, j)
             PROVE  PublishedInv'
  BY <1>2, <1>3, <1>4 DEF Next
<1>5. CASE Take(w, j)
  <2>1. /\ pc' = [pc EXCEPT ![w] = "open"] /\ pc'[w] = "open"
        /\ UNCHANGED <<active, cur, verdict>>
    BY <1>0, <1>5 DEF Take, Goto, rows, local
  <2>2. pc'[w] \notin Busy /\ \A v \in Workers : v # w => pc'[v] = pc[v]
    BY <1>0, <2>1 DEF Busy
  <2>3. QED
    BY <1>1, <2>1, <2>2
<1>6. CASE Open(w, j)
  <2>1. PICK r \in Runs :
           /\ cur' = [cur EXCEPT ![w] = r]
           /\ \/ run[r] \in Finished /\ UNCHANGED run /\ pc'[w] = "refresh"
                                     /\ verdict' = [verdict EXCEPT ![w] = run[r]]
              \/ /\ run[r] \notin Finished /\ run' = [run EXCEPT ![r] = "analyzing"]
                 /\ pc'[w] = "discover" /\ UNCHANGED verdict
           /\ \A v \in Workers : v # w => pc'[v] = pc[v]
    BY <1>6, OpenShape, <1>a DEF JobsInv, RunsInv
  <2>2. UNCHANGED active
    BY <1>6 DEF Open, rows
  <2>3. \A v \in Workers : v # w => cur'[v] = cur[v] /\ verdict'[v] = verdict[v]
    BY <1>0, <2>1
  <2>4. cur'[w] = r /\ (pc'[w] = "refresh" => verdict'[w] = run'[r])
    BY <1>0, <2>1
  <2>5. Opens(w)
    BY <1>0, <2>1, <2>4 DEF Opens
  <2>6. QED
    BY <1>1, <2>1, <2>2, <2>3, <2>5
\* Until its run is concluded a handler gives no verdict that the run is complete.
<1>7. CASE Discover(w, j) \/ Skip(w, j) \/ Extract(w, j) \/ Stage(w, j) \/ Load(w, j)
  <2>1. pc[w] \in Busy \ {"refresh", "status"} /\ UNCHANGED <<active, cur>>
    BY <1>7, WithinShape DEF Within, Discover, Skip, Extract, Stage, Load, rows, local
  <2>2. \A v \in Workers : v # w => UNCHANGED <<pc[v], cur[v], verdict[v]>>
    BY <1>7, <2>1, WithinShape DEF Within
  <2>3. pc'[w] = "refresh" => verdict'[w] \in {"paused_budget", "failed"}
    <3> USE DEF Goto, Verdict, GiveUp
    <3>1. CASE Discover(w, j)
      BY <1>0, <3>1 DEF Discover, On
    <3>2. CASE Skip(w, j)
      BY <1>0, <3>2 DEF Skip, On
    <3>3. CASE Extract(w, j)
      BY <1>0, <3>3 DEF Extract, On
    <3>4. CASE Stage(w, j) \/ Load(w, j)
      BY <1>0, <3>4 DEF Stage, Load, On, Rejected
    <3>5. QED
      BY <1>7, <3>1, <3>2, <3>3, <3>4
  <2>4. pc'[w] # "status"
    BY <1>7, WithinShape DEF Within, Busy
  <2>5. GoesOn(w)
    BY <2>1, <2>3, <2>4 DEF GoesOn
  <2>6. QED
    BY <1>1, <2>1, <2>2, <2>5
<1>11. CASE Activate(w, j)
  <2>1. /\ pc[w] = "activate" /\ pc'[w] = "entities"
        /\ \A v \in Workers : v # w => pc'[v] = pc[v] /\ item'[v] = item[v]
        /\ UNCHANGED <<cur, verdict>>
    BY <1>0, <1>11 DEF Activate, On, Goto, Rejected
  <2>2. cur[w] \in Runs /\ pc[w] \in Busy
    BY <1>0, <2>1 DEF Busy
  <2>3. \A row \in Rows : active'[row] => active[row] \/ row = RowOf(w)
    BY <1>11 DEF Activate, RowOf
  <2>4. run[cur[w]] # "none"
    BY <2>2 DEF RunsInv, AtWork
  <2>5. ASSUME NEW row \in Rows, active'[row], ~active[row]
        PROVE  entity'[row] # "none" /\ run[row[1]] # "none"
    <3>1. row = RowOf(w) /\ row[1] = cur[w]
      BY <2>3, <2>5 DEF RowOf
    <3>2. entity' = [entity EXCEPT ![RowOf(w)] = "complete"]
      BY <1>11, <2>5 DEF Activate, RowOf
    <3>3. QED
      BY <2>4, <3>1, <3>2 DEF Typed, TypeOK
  <2>6. GoesOn(w)
    BY <2>1 DEF GoesOn, Busy
  <2>7. ASSUME NEW v \in Workers, v # w, pc'[v] \in Busy
        PROVE  pc[v] \in Busy /\ Undisturbed(v) /\ Unmoved(v)
    <3>1. pc[v] \in Busy /\ cur[v][1] # cur[w][1]
      BY <2>1, <2>2, <2>7 DEF DocumentExclusive
    <3>2. \A row \in Rows : active'[row] /\ Doc(row) = cur[v][1] => active[row]
      BY <2>3, <3>1 DEF RowOf, Doc
    <3>3. QED
      BY <1>c, <2>1, <2>7, <3>1, <3>2 DEF Undisturbed, Unmoved
  <2>8. QED
    BY <1>a, <1>b, <1>d, <2>1, <2>5, <2>6, <2>7, PublishedKept
<1>12. CASE Conclude(w, j)
  <2>1. PICK flagged \in BOOLEAN : Verdict(w, Conclusion(cur[w], flagged))
    BY <1>12 DEF Conclude
  <2>2. pc[w] = "entities" /\ UNCHANGED <<active, cur>>
    BY <1>12 DEF Conclude, On, rows
  <2>3. /\ pc'[w] = "refresh" /\ verdict'[w] = Conclusion(cur[w], flagged)
        /\ \A v \in Workers : v # w => pc'[v] = pc[v] /\ verdict'[v] = verdict[v]
    BY <1>0, <2>1 DEF Verdict, Goto
  <2>4. pc[w] \in Busy /\ pc'[w] \in Busy /\ cur[w] \in Runs
    BY <1>0, <2>2, <2>3 DEF Busy
  <2>5. Undisturbed(w)
    BY <1>c, <2>2, <2>4 DEF Undisturbed
  <2>6. verdict'[w] = "complete" => Covered(cur[w])
    BY <2>3, <2>4, ConclusionCovers DEF PublishedInv
  <2>7. GoesOn(w)
    BY <1>0, <2>2, <2>3, <2>4, <2>5, <2>6 DEF GoesOn, Concludes
  <2>8. QED
    BY <1>1, <2>2, <2>3, <2>7
<1>13. CASE Refresh(w, j)
  <2>1. /\ pc[w] = "refresh" /\ pc'[w] = "status"
        /\ \A v \in Workers : v # w => pc'[v] = pc[v]
        /\ UNCHANGED <<active, cur, verdict>>
    BY <1>0, <1>13 DEF Refresh, On, Goto, rows
  <2>2. pc[w] \in Busy /\ pc'[w] \in Busy
    BY <2>1 DEF Busy
  <2>3. Undisturbed(w)
    BY <1>c, <2>1, <2>2 DEF Undisturbed
  <2>4. GoesOn(w)
    BY <1>0, <2>1, <2>2, <2>3 DEF GoesOn, Concludes
  <2>5. QED
    BY <1>1, <2>1, <2>4
<1>14. CASE SetStatus(w, j)
  <2>1. /\ pc'[w] = "settle" /\ \A v \in Workers : v # w => pc'[v] = pc[v]
        /\ UNCHANGED <<active, cur, verdict>>
    BY <1>0, <1>14 DEF SetStatus, Goto, rows, local
  <2>2. pc'[w] \notin Busy
    BY <2>1 DEF Busy
  <2>3. QED
    BY <1>1, <2>1, <2>2
<1>15. CASE Leaves(w, j)
  <2>1. /\ pc'[w] = "idle" /\ UNCHANGED active
        /\ \A v \in Workers : v # w => UNCHANGED <<pc[v], cur[v], verdict[v]>>
    BY <1>0, <1>15 DEF Leaves, Complete, Retry, Die, Crash, Rest, Goto, rows
  <2>2. pc'[w] \notin Busy
    BY <2>1 DEF Busy
  <2>3. QED
    BY <1>1, <2>1, <2>2
<1>16. QED
  BY <1>5, <1>6, <1>7, <1>11, <1>12, <1>13, <1>14, <1>15 DEF Step, Leaves

LEMMA PublishedInvariant == Spec => [](JobsInv /\ RunsInv /\ PublishedInv)
<1>1. Init => PublishedInv
  BY DEF Init, PublishedInv, Inventory, VerdictCovers, ActiveMade, NoNewerActive, Busy
<1>2. Typed /\ EvidenceInv /\ JobsInv /\ RunsInv /\ PublishedInv /\ [Next]_vars
      => JobsInv' /\ RunsInv' /\ PublishedInv'
  BY JobsStep, RunsStep, PublishedStep DEF EvidenceInv
<1>3. QED
  BY <1>1, <1>2, InitialRuns, TypeCorrect, EvidenceInvariant, PTL DEF Spec, Typed

\* "Do not silently detach old data when a new inventory disagrees": whatever is
\* published between a run's conclusion and the transaction that records it, a
\* run that ends complete lists every property its document has evidence at.
THEOREM NothingIsDetached == Spec => NothingDetached
<1>1. ASSUME Typed, EvidenceInv, JobsInv, RunsInv, PublishedInv, [Next]_vars,
             NEW r \in Runs, NEW row \in Rows, Completes(r), active'[row], Doc(row) = r[1]
      PROVE  \E e \in Listed(r)' : PropertyOf[e] = At(row)
  <2>1. PICK w \in Workers, j \in Jobs : SetStatus(w, j) /\ r = cur[w] /\ verdict[w] = "complete"
    BY <1>1, RunsRemain DEF Completes, EvidenceInv
  <2>2. Covered(r)
    BY <1>1, <2>1 DEF PublishedInv, VerdictCovers, SetStatus, On, Completes
  <2>3. UNCHANGED <<active, Listed(r)>>
    BY <2>1 DEF SetStatus, rows, Listed
  <2>4. QED
    BY <1>1, <2>2, <2>3 DEF Covered
<1>2. Typed /\ EvidenceInv /\ JobsInv /\ RunsInv /\ PublishedInv /\ [Next]_vars
      => \A r \in Runs, row \in Rows :
            Completes(r) /\ active'[row] /\ Doc(row) = r[1]
              => \E e \in Listed(r)' : PropertyOf[e] = At(row)
  BY <1>1
<1>3. QED
  BY <1>2, TypeCorrect, EvidenceInvariant, PublishedInvariant, PTL
     DEF Spec, Typed, NothingDetached

\* Data of an older run takes the place of a newer generation's only by the job
\* that names that run: a late retry of the upload's job, which opens the latest
\* run, never does, however many requests, retries and crashes there were.
THEOREM NewerStaysUnlessNamed == Spec => NewerStands
<1>1. ASSUME Typed, JobsInv, PublishedInv, NoTwins, [Next]_vars,
             NEW o \in Rows, NEW n \in Rows, Overtaken(o, n), active'[o]
      PROVE  phase[o[1]] = "working"
  <2>1. Gen(o) < Gen(n) /\ Gen(o) \in Nat /\ Gen(n) \in Nat
    BY <1>1, AnalysisAssumption DEF Overtaken, Rows, Runs, Gen, Generations
  <2>2. ~active[o]
    BY <1>1, <2>1 DEF Overtaken, NoTwins, Twins
  <2>3. PICK w \in Workers, j \in Jobs : Activate(w, j) /\ active' = ActiveOnce(w)
    BY <1>1, <2>2, OnlyActivate
  <2>4. o = RowOf(w) /\ owner[j] = w /\ pc[w] \in Busy
    BY <1>1, <2>2, <2>3 DEF ActiveOnce, Activate, On, Busy
  <2>5. o[1] = cur[w] /\ cur[w][1] = j[1] /\ Gen(o) = cur[w][2] /\ Doc(n) = j[1] /\ active[n]
    BY <1>1, <2>4 DEF JobsInv, OwnDocument, RowOf, Doc, Gen, Overtaken
  <2>6. j[2] > 0
    BY <1>1, <2>1, <2>4, <2>5 DEF PublishedInv, NoNewerActive
  <2>7. o[1] = j
    BY <2>4, <2>5, <2>6, <1>1 DEF PublishedInv, NoNewerActive
  <2>8. owner[j] # None
    BY <2>4, AnalysisAssumption
  <2>9. QED
    BY <1>1, <2>7, <2>8 DEF JobsInv, OwnedIsWorking
<1>2. Typed /\ JobsInv /\ PublishedInv /\ NoTwins /\ [Next]_vars
      => \A o, n \in Rows : Overtaken(o, n) /\ active'[o] => phase[o[1]] = "working"
  BY <1>1
<1>3. Init => NoTwins
  BY DEF Init, NoTwins, Twins
<1>4. NoTwins /\ [Next]_vars => NoTwins'
  BY NoTwinsStep
<1>5. QED
  BY <1>2, <1>3, <1>4, TypeCorrect, PublishedInvariant, PTL DEF Spec, Typed, NewerStands
--------------------------------------------------------------------------------
(* What RunEnds rests on.  TLC checks that an in-flight run comes to an    *)
(* end; that there is always a job that will see to it is an invariant.    *)

\* The run r is in the hands of job j: j is queued or lost, its handler has not
\* opened a run yet or will be retried, or it works on r.
Held(j, r) == \/ phase[j] = "pending"
              \/ /\ phase[j] = "working"
                 /\ \/ owner[j] = None
                    \/ pc[owner[j]] \in {"open", "raise"}
                    \/ pc[owner[j]] \in Busy /\ cur[owner[j]] = r

UploadJob(r) == <<r[1], 0>>

Attended(r) == \/ Held(r, r)
               \/ /\ r[2] = Latest(r[1])
                  /\ Held(UploadJob(r), r) \/ phase[UploadJob(r)] = "dead"

\* An in-flight run is in the hands of its own job, or it is its document's latest
\* and the upload's job, which opens the latest, has it or is exhausted.
RunsAreAttended == \A r \in Runs : run[r] \in InFlight => Attended(r)

\* A named run is no longer queued once its job's handler has opened it.
NamedIsOpened == \A j \in Runs, w \in Workers :
                    owner[j] = w /\ pc[w] # "open" => run[j] \notin {"none", "queued"}

RunJobs ==
  \A r \in Runs : /\ r \in Jobs /\ UploadJob(r) \in Jobs /\ UploadJob(r) # r
                  /\ r[1] \in Documents /\ r[2] \in Generations /\ r = <<r[1], r[2]>>
                  /\ UploadJob(r)[2] = 0 /\ UploadJob(r)[1] = r[1] /\ r[2] > 0

LEMMA RunsHaveJobs == RunJobs
BY AnalysisAssumption DEF RunJobs, Runs, Jobs, Generations, UploadJob

\* While no run is made or unmade, the latest generation stays.
LEMMA LatestStays ==
  ASSUME NEW d, \A g \in Generations : run'[<<d, g>>] # "none" <=> run[<<d, g>>] # "none"
  PROVE  Latest(d)' = Latest(d)
<1>1. {g \in Generations : run'[<<d, g>>] # "none"} = {g \in Generations : run[<<d, g>>] # "none"}
  OBVIOUS
<1>2. QED
  BY <1>1 DEF Latest

\* A step that puts no run in flight, and takes none in flight from a job unless
\* that is the upload's, which dies.
LEMMA AttendedKept ==
  ASSUME RunsAreAttended,
         \A r \in Runs : run'[r] \in InFlight => run[r] \in InFlight,
         \A d \in Documents : Latest(d)' = Latest(d),
         \A r \in Runs, j \in Jobs : run'[r] \in InFlight /\ Held(j, r)
                                     => Held(j, r)' \/ (j[2] = 0 /\ phase'[j] = "dead"),
         \A j \in Jobs : j[2] = 0 /\ phase[j] = "dead" => phase'[j] = "dead"
  PROVE  RunsAreAttended'
<1> SUFFICES ASSUME NEW r \in Runs, run'[r] \in InFlight
             PROVE  Attended(r)'
  BY DEF RunsAreAttended
<1> DEFINE d == r[1]
           up == UploadJob(r)
<1>1. /\ r \in Jobs /\ up \in Jobs /\ d \in Documents /\ up[2] = 0 /\ ~(r[2] = 0)
  BY RunsHaveJobs DEF RunJobs
<1>2. up' = up
  BY DEF UploadJob
<1>3. Attended(r)
  BY DEF RunsAreAttended
<1>4. CASE Held(r, r)
  BY <1>1, <1>4 DEF Attended
<1>5. CASE r[2] = Latest(d) /\ (Held(up, r) \/ phase[up] = "dead")
  <2>1. Held(up, r)' \/ phase'[up] = "dead"
    BY <1>1, <1>5
  <2>2. Latest(d)' = r[2]
    BY <1>1, <1>5
  <2>3. QED
    BY <2>1, <2>2 DEF Attended, UploadJob
<1>6. QED
  BY <1>3, <1>4, <1>5 DEF Attended

\* What the shape of a step means for who holds what.
LEMMA HeldKept ==
  ASSUME Typed, NEW w \in Workers, NEW r \in Runs, NEW j \in Jobs, Held(j, r),
         UNCHANGED <<phase, owner>>,
         \A v \in Workers : v # w => pc'[v] = pc[v] /\ cur'[v] = cur[v],
         owner[j] = w => pc'[w] = "raise" \/ (pc[w] \in Busy /\ pc'[w] \in Busy /\ cur'[w] = cur[w])
  PROVE  Held(j, r)'
BY DEF Held, Typed, TypeOK, Queue!TypeOK, Busy

LEMMA NamedIsOpenedStep ==
  ASSUME Typed, JobsInv, RunsInv, DocumentExclusive, NamedIsOpened, [Next]_vars
  PROVE  NamedIsOpened'
<1>0. /\ owner \in [Jobs -> Workers \cup {None}] /\ None \notin Workers
      /\ run \in [Runs -> {"none"} \cup InFlight \cup Terminal]
      /\ pc \in [Workers -> {"idle", "open", "discover", "entities", "stage", "load",
                              "activate", "refresh", "status", "settle", "raise"}]
      /\ \A w \in Workers : pc[w] \in Busy => cur[w] \in Runs
      /\ \A w \in Workers : pc[w] \in {"refresh", "status"} => verdict[w] \in Terminal
      /\ \A r \in Runs : r \in Jobs /\ r[2] > 0
      /\ Terminal \cap {"none", "queued"} = {}
  BY AnalysisAssumption, RunsHaveJobs
     DEF Typed, TypeOK, Knows, Queue!TypeOK, Terminal, Finished, RunJobs
<1> USE DEF NamedIsOpened
\* A step that queues no run, by which no handler opens one.
<1>1. ASSUME \A r \in Runs : run'[r] = run[r] \/ run'[r] \notin {"none", "queued"},
             \A j \in Runs, v \in Workers : owner'[j] = v /\ pc'[v] # "open"
                => owner[j] = v /\ pc[v] # "open"
      PROVE  NamedIsOpened'
  BY <1>1
<1>2. CASE Reclaim \/ Rests \/ UNCHANGED vars
  <2>1. UNCHANGED <<owner, run, pc>>
    BY <1>2, ReclaimShape DEF Rests, vars, jobs, runs
  <2>2. QED
    BY <1>1, <2>1
<1>3. ASSUME NEW d \in Documents, NEW reanalyze \in BOOLEAN, Schedule(d, reanalyze)
      PROVE  NamedIsOpened'
  <2>1. PICK last \in Runs :
           /\ \/ UNCHANGED run
              \/ /\ run' = [run EXCEPT ![last] = "queued"]
                 /\ last = <<d, Latest(d) + 1>> /\ Latest(d) < MaxRuns
           /\ UNCHANGED <<owner, pc>>
    BY <1>3, ScheduleShape DEF Queue!Submit
  <2>2. CASE UNCHANGED run
    BY <1>1, <2>1, <2>2
  <2>3. CASE run' = [run EXCEPT ![last] = "queued"] /\ last = <<d, Latest(d) + 1>>
    <3>1. Latest(d) \in Nat /\ Latest(d) + 1 \in Generations
      BY <2>3, LatestType, RunsHaveJobs, AnalysisAssumption DEF RunJobs
    <3>2. run[last] = "none"
      BY <2>3, <3>1, LatestNumber DEF RunsInv
    <3>3. owner[last] = None
      BY <1>0, <3>2 DEF RunsInv, NamedExists, JobsInv, OwnedIsWorking
    <3>4. QED
      BY <1>0, <2>1, <2>3, <3>3
  <2>4. QED
    BY <2>1, <2>2, <2>3
<1>4. ASSUME NEW w \in Workers, NEW j \in Jobs, Take(w, j) PROVE NamedIsOpened'
  <2>1. /\ owner' = [owner EXCEPT ![j] = w] /\ pc' = [pc EXCEPT ![w] = "open"]
        /\ UNCHANGED run
    BY <1>4 DEF Take, Queue!Begin, Goto, runs
  <2>2. QED
    BY <1>0, <1>1, <2>1
<1>5. ASSUME NEW w \in Workers, NEW j \in Jobs, Open(w, j) PROVE NamedIsOpened'
  <2>1. PICK r \in Runs :
           /\ cur' = [cur EXCEPT ![w] = r]
           /\ \/ run[r] \in Finished /\ UNCHANGED run
              \/ run' = [run EXCEPT ![r] = "analyzing"]
           /\ \A v \in Workers : v # w => pc'[v] = pc[v]
           /\ UNCHANGED owner
    BY <1>5, OpenShape
  <2>2. owner[j] = w /\ cur \in [Workers -> Runs \cup {None}]
    BY <1>5 DEF Open, On, Typed, TypeOK
  <2>3. \A k \in Runs : owner[k] = w => k = r
    BY <1>0, <1>5, <2>1, <2>2, OpenRun DEF JobsInv, OneJob
  <2>4. run'[r] \notin {"none", "queued"}
    BY <1>0, <2>1 DEF Finished
  <2>5. \A k \in Runs : k # r => run'[k] = run[k]
    BY <1>0, <2>1
  <2>6. QED
    BY <2>1, <2>3, <2>4, <2>5
<1>6. ASSUME NEW w \in Workers, NEW j \in Jobs, Within(w, j) PROVE NamedIsOpened'
  <2>1. /\ pc[w] # "open" /\ UNCHANGED <<owner, run>>
        /\ \A v \in Workers : v # w => pc'[v] = pc[v]
    BY <1>6, WithinShape DEF Busy
  <2>2. QED
    BY <1>1, <2>1
<1>7. ASSUME NEW w \in Workers, NEW j \in Jobs, Refresh(w, j) \/ SetStatus(w, j)
      PROVE  NamedIsOpened'
  <2>1. /\ pc[w] \in {"refresh", "status"} /\ UNCHANGED owner
        /\ \A v \in Workers : v # w => pc'[v] = pc[v]
        /\ UNCHANGED run \/ run' = [run EXCEPT ![cur[w]] = verdict[w]]
    BY <1>0, <1>7 DEF Refresh, SetStatus, On, Goto, jobs, runs
  <2>2. \A r \in Runs : run'[r] = run[r] \/ run'[r] \notin {"none", "queued"}
    BY <1>0, <2>1
  <2>3. QED
    BY <1>1, <2>1, <2>2
<1>8. ASSUME NEW w \in Workers, NEW j \in Jobs, Leaves(w, j) PROVE NamedIsOpened'
  <2>1. /\ owner[j] = w /\ owner' = [owner EXCEPT ![j] = None]
        /\ pc' = [pc EXCEPT ![w] = "idle"]
    BY <1>8, LeavesShape
  <2>2. UNCHANGED run \/ run' = [run EXCEPT ![j] = "failed"]
    BY <1>8 DEF Leaves, Complete, Retry, Die, Crash, runs
  <2>3. \A k \in Jobs, v \in Workers : owner'[k] = v => owner[k] = v /\ v # w /\ pc'[v] = pc[v]
    BY <1>0, <2>1 DEF JobsInv, OneJob
  <2>4. \A r \in Runs : run'[r] = run[r] \/ run'[r] \notin {"none", "queued"}
    BY <1>0, <2>2
  <2>5. QED
    BY <1>0, <1>1, <2>3, <2>4
<1>9. QED
  BY <1>2, <1>3, <1>4, <1>5, <1>6, <1>7, <1>8 DEF Next, Step, Within, Leaves

LEMMA AttendedStep ==
  ASSUME Typed, JobsInv, RunsInv, DocumentExclusive, NamedIsOpened, RunsAreAttended,
         [Next]_vars
  PROVE  RunsAreAttended'
<1>0. /\ owner \in [Jobs -> Workers \cup {None}] /\ None \notin Workers
      /\ phase \in [Jobs -> Queue!Phases]
      /\ run \in [Runs -> {"none"} \cup InFlight \cup Terminal]
      /\ cur \in [Workers -> Runs \cup {None}]
      /\ pc \in [Workers -> {"idle", "open", "discover", "entities", "stage", "load",
                              "activate", "refresh", "status", "settle", "raise"}]
      /\ \A w \in Workers : pc[w] \in Busy => cur[w] \in Runs
      /\ \A w \in Workers : pc[w] \in {"refresh", "status"} => verdict[w] \in Terminal
      /\ {"none"} \cap InFlight = {} /\ Terminal \cap InFlight = {} /\ "none" \notin Terminal
      /\ \A d \in Documents, g \in Generations : <<d, g>> \in Runs
  BY AnalysisAssumption
     DEF Typed, TypeOK, Knows, Queue!TypeOK, Terminal, Finished, InFlight, Runs
\* A step that makes no run.
<1>1. ASSUME MakesNone PROVE \A d \in Documents : Latest(d)' = Latest(d)
  <2> SUFFICES ASSUME NEW d \in Documents PROVE Latest(d)' = Latest(d)
    OBVIOUS
  <2>1. \A g \in Generations : run'[<<d, g>>] # "none" <=> run[<<d, g>>] # "none"
    BY <1>0, <1>1 DEF MakesNone
  <2>2. QED
    BY <2>1, LatestStays
\* A step that writes no run and lets go of none.
<1>2. ASSUME UNCHANGED run,
             \A r \in Runs, j \in Jobs : Held(j, r) => Held(j, r)' \/ (j[2] = 0 /\ phase'[j] = "dead"),
             \A j \in Jobs : j[2] = 0 /\ phase[j] = "dead" => phase'[j] = "dead"
      PROVE  RunsAreAttended'
  BY <1>1, <1>2, AttendedKept DEF MakesNone
<1>3. CASE Rests \/ UNCHANGED vars
  <2>1. UNCHANGED <<run, phase, owner, pc, cur>>
    BY <1>3 DEF Rests, vars, jobs, runs, local
  <2>2. QED
    BY <1>2, <2>1 DEF Held
<1>4. CASE Reclaim
  <2>1. /\ \A j \in Jobs : phase'[j] = phase[j] \/ (phase[j] = "working" /\ phase'[j] = "pending")
        /\ UNCHANGED <<run, owner, pc, cur>>
    BY <1>4 DEF Reclaim, Queue!Reclaim, runs, local
  <2>2. QED
    BY <1>2, <2>1 DEF Held
<1>5. ASSUME NEW d \in Documents, NEW reanalyze \in BOOLEAN, Schedule(d, reanalyze)
      PROVE  RunsAreAttended'
  <2> DEFINE g == Latest(d)
             fresh == g = 0 \/ (reanalyze /\ run[<<d, g>>] \notin InFlight)
  <2>1. PICK last \in Runs : last = <<d, IF fresh THEN g + 1 ELSE g>>
    BY <1>5, LatestType, AnalysisAssumption DEF Schedule, Runs, Generations
  <2>2. /\ run' = IF fresh THEN [run EXCEPT ![last] = "queued"] ELSE run
        /\ UNCHANGED <<owner, pc, cur>>
        /\ UNCHANGED phase \/ Queue!Submit({last})
        /\ (run'[last] \notin Finished /\ phase[last] \notin {"pending", "working"})
             => Queue!Submit({last})
    BY <1>5, <2>1 DEF Schedule, Queue!Submit, jobs, local
  <2>3. \A j \in Jobs : phase'[j] = phase[j] \/ (j = last /\ phase'[j] = "pending")
    BY <2>2 DEF Queue!Submit
  <2>4. \A r \in Runs, j \in Jobs : Held(j, r) => Held(j, r)'
    BY <2>2, <2>3 DEF Held
  <2>5. \A j \in Jobs : j[2] = 0 => phase'[j] = phase[j]
    BY <2>1, <2>3, RunsHaveJobs DEF RunJobs, Generations
  <2>6. CASE ~fresh
    <3>1. UNCHANGED run
      BY <2>2, <2>6
    <3>2. QED
      BY <1>2, <2>4, <2>5, <3>1
  <2>7. CASE fresh
    <3>1. g \in Nat /\ last = <<d, g + 1>> /\ g + 1 \in Generations
      BY <2>1, <2>7, LatestType, RunsHaveJobs, AnalysisAssumption DEF RunJobs
    <3>2. run[last] = "none"
      BY <1>0, <3>1, LatestNumber DEF RunsInv
    <3>3. phase[last] = "idle"
      BY <2>1, <3>2, RunsHaveJobs DEF RunsInv, NamedExists, RunJobs
    <3>4. run'[last] = "queued" /\ phase'[last] = "pending"
      BY <1>0, <2>1, <2>2, <2>7, <3>3, RunsHaveJobs DEF Finished, Queue!Submit, RunJobs
    <3>5. g # 0 => run[<<d, g>>] \notin InFlight
      BY <2>7
    <3>6. ASSUME NEW r \in Runs, run'[r] \in InFlight, r # last
          PROVE  Attended(r)'
      <4>1. run[r] \in InFlight /\ Attended(r)
        BY <1>0, <2>1, <2>2, <2>7, <3>6 DEF RunsAreAttended
      <4>2. r[1] \in Documents /\ r[2] \in Generations /\ r = <<r[1], r[2]>> /\ r \in Jobs
            /\ UploadJob(r) \in Jobs /\ UploadJob(r)[2] = 0
        BY RunsHaveJobs DEF RunJobs
      <4>3. CASE r[1] = d
        <5>1. r[2] # g
          BY <3>1, <3>5, <4>1, <4>2, <4>3, AnalysisAssumption DEF Generations
        <5>2. Held(r, r)
          BY <4>1, <4>3, <5>1 DEF Attended
        <5>3. QED
          BY <2>4, <4>2, <5>2 DEF Attended
      <4>4. CASE r[1] # d
        <5>1. \A i \in Generations : run'[<<r[1], i>>] = run[<<r[1], i>>]
          BY <1>0, <2>2, <3>1, <4>2, <4>4
        <5>2. Latest(r[1])' = Latest(r[1])
          BY <5>1, LatestStays
        <5>3. QED
          BY <2>4, <2>5, <4>1, <4>2, <5>2 DEF Attended, UploadJob
      <4>5. QED
        BY <4>3, <4>4
    <3>7. Attended(last)'
      BY <3>4 DEF Attended, Held
    <3> HIDE DEF fresh
    <3>8. QED
      BY <3>6, <3>7 DEF RunsAreAttended
  <2>8. QED
    BY <2>6, <2>7
<1>6. ASSUME NEW w \in Workers, NEW j \in Jobs, Take(w, j) PROVE RunsAreAttended'
  <2>1. /\ pc[w] = "idle" /\ phase[j] = "pending" /\ phase' = [phase EXCEPT ![j] = "working"]
        /\ owner' = [owner EXCEPT ![j] = w] /\ pc' = [pc EXCEPT ![w] = "open"]
        /\ UNCHANGED <<run, cur>>
    BY <1>6 DEF Take, Queue!Begin, Goto, runs, local
  <2>2. \A k \in Jobs : owner[k] # w
    BY <2>1 DEF JobsInv, OneJob
  <2>3. \A r \in Runs, k \in Jobs : Held(k, r) => Held(k, r)'
    BY <1>0, <2>1, <2>2 DEF Held
  <2>4. QED
    BY <1>0, <1>2, <2>1, <2>3
<1>7. ASSUME NEW w \in Workers, NEW j \in Jobs, Open(w, j) PROVE RunsAreAttended'
  <2>1. PICK r \in Runs :
           /\ r[1] = j[1]
           /\ cur' = [cur EXCEPT ![w] = r]
           /\ run[r] # "none" \/ (Latest(r[1]) = 0 /\ r = <<r[1], 1>>)
           /\ \/ run[r] \in Finished /\ UNCHANGED run
              \/ run' = [run EXCEPT ![r] = "analyzing"] /\ pc'[w] = "discover"
           /\ pc[w] = "open" /\ \A v \in Workers : v # w => pc'[v] = pc[v]
           /\ UNCHANGED <<phase, owner>>
    BY <1>7, OpenShape
  <2>2. owner[j] = w /\ phase[j] = "working"
    BY <1>0, <1>7 DEF Open, On, JobsInv, OwnedIsWorking
  <2>3. /\ cur'[w] = r
        /\ j[2] > 0 => r = j
        /\ ~(j[2] > 0) /\ Latest(j[1]) # 0 => r[2] = Latest(j[1])
    BY <1>0, <1>7, <2>1, OpenRun
  <2>4. \A k \in Jobs : k # j => owner[k] # w
    BY <2>2 DEF JobsInv, OneJob
  <2>5. \A s \in Runs, k \in Jobs : k # j /\ Held(k, s) => Held(k, s)'
    BY <1>0, <2>1, <2>4 DEF Held
  <2>6. j[1] \in Documents /\ j[2] \in 0..MaxRuns /\ j = <<j[1], j[2]>>
    BY DEF Jobs
  <2>7. ASSUME NEW s \in Runs, s # r, run[s] \in InFlight, Attended(s),
               Latest(s[1])' = Latest(s[1])
        PROVE  Attended(s)'
    <3>1. /\ s \in Jobs /\ UploadJob(s) \in Jobs /\ s = <<s[1], s[2]>>
          /\ s[1] \in Documents /\ s[2] \in Generations
          /\ UploadJob(s)[2] = 0 /\ UploadJob(s)[1] = s[1] /\ s[2] > 0
          /\ r = <<r[1], r[2]>>
      BY RunsHaveJobs DEF RunJobs
    <3>2. CASE Held(s, s)
      <4>1. s # j
        BY <2>3, <2>7, <3>1
      <4>2. QED
        BY <2>5, <3>1, <3>2, <4>1 DEF Attended
    <3>3. CASE s[2] = Latest(s[1]) /\ Held(UploadJob(s), s)
      <4>1. Latest(s[1]) # 0
        BY <3>1, <3>3, AnalysisAssumption DEF Generations
      <4>2. UploadJob(s) # j
        BY <2>1, <2>3, <2>7, <3>1, <3>3, <4>1
      <4>3. Held(UploadJob(s), s)'
        BY <2>5, <3>1, <3>3, <4>2
      <4>4. QED
        BY <2>7, <3>3, <4>3 DEF Attended, UploadJob
    <3>4. CASE s[2] = Latest(s[1]) /\ phase[UploadJob(s)] = "dead"
      BY <2>1, <2>7, <3>4 DEF Attended, UploadJob
    <3>5. QED
      BY <2>7, <3>2, <3>3, <3>4 DEF Attended
  <2>8. CASE run[r] \in Finished /\ UNCHANGED run
    <3>1. \A d \in Documents : Latest(d)' = Latest(d)
      BY <1>1, <2>8 DEF MakesNone
    <3>2. run[r] \notin InFlight
      BY <1>0, <2>8 DEF Terminal
    <3>3. QED
      BY <2>7, <2>8, <3>1, <3>2, RunsHaveJobs DEF RunsAreAttended, RunJobs
  <2>9. CASE run' = [run EXCEPT ![r] = "analyzing"] /\ pc'[w] = "discover"
    <3>1. Held(j, r)'
      BY <2>1, <2>2, <2>3, <2>9 DEF Held, Busy
    <3>2. \A s \in Runs : s # r => run'[s] = run[s]
      BY <1>0, <2>9
    <3>3. run'[r] = "analyzing"
      BY <1>0, <2>9
    <3>4. ASSUME NEW s \in Runs, s # r, run'[s] \in InFlight
          PROVE  Latest(s[1])' = Latest(s[1]) /\ run[s] \in InFlight
      <4>1. /\ s[1] \in Documents /\ s[2] \in Generations /\ s = <<s[1], s[2]>>
            /\ run[s] \in InFlight
        BY <3>2, <3>4, RunsHaveJobs DEF RunJobs
      <4>2. run[r] # "none" \/ s[1] # r[1]
        <5>1. run[<<s[1], s[2]>>] # "none"
          BY <1>0, <4>1
        <5>2. s[2] <= Latest(s[1])
          BY <4>1, <5>1, LatestNumber DEF RunsInv
        <5>3. Latest(s[1]) # 0
          BY <4>1, <5>2, AnalysisAssumption DEF Generations
        <5>4. QED
          BY <2>1, <5>3
      <4>3. \A i \in Generations : run'[<<s[1], i>>] # "none" <=> run[<<s[1], i>>] # "none"
        BY <1>0, <3>2, <3>3, <4>1, <4>2
      <4>4. QED
        BY <4>1, <4>3, LatestStays
    <3>5. Attended(r)'
      <4>1. CASE j[2] > 0
        BY <2>3, <3>1, <4>1 DEF Attended
      <4>2. CASE ~(j[2] > 0)
        <5>1. j = UploadJob(r)
          BY <2>1, <2>6, <4>2, AnalysisAssumption DEF UploadJob
        <5>2. r[2] = Latest(r[1])'
          <6>1. r[1] \in Documents /\ r = <<r[1], r[2]>> /\ r[2] \in Generations
            BY RunsHaveJobs DEF RunJobs
          <6>2. CASE Latest(r[1]) # 0
            <7>1. r[2] = Latest(r[1])
              BY <2>1, <2>3, <4>2, <6>2
            <7>2. run[r] # "none"
              BY <2>1, <6>2
            <7>3. \A i \in Generations : run'[<<r[1], i>>] # "none" <=> run[<<r[1], i>>] # "none"
              BY <1>0, <3>2, <3>3, <6>1, <7>2
            <7>4. QED
              BY <7>1, <7>3, LatestStays
          <6>3. CASE Latest(r[1]) = 0
            <7>1. \A i \in Generations : run[<<r[1], i>>] = "none"
              <8>1. \A i \in Generations : ~(i <= 0)
                BY AnalysisAssumption DEF Generations
              <8>2. QED
                BY <6>1, <6>3, <8>1, LatestNumber DEF RunsInv
            <7>2. r = <<r[1], 1>> /\ r[2] = 1
              BY <2>1, <6>1, <7>1
            <7>3. {i \in Generations : run'[<<r[1], i>>] # "none"} = {1}
              BY <1>0, <3>2, <3>3, <6>1, <7>1, <7>2
            <7>4. Cardinality({1}) = 1
              BY FS_Singleton
            <7>5. Latest(r[1])' = Cardinality({i \in Generations : run'[<<r[1], i>>] # "none"})
              BY DEF Latest
            <7>6. QED
              BY <7>2, <7>3, <7>4, <7>5
          <6>4. QED
            BY <6>2, <6>3
        <5>3. QED
          BY <3>1, <5>1, <5>2 DEF Attended, UploadJob
      <4>3. QED
        BY <4>1, <4>2
    <3>6. QED
      BY <2>7, <3>4, <3>5 DEF RunsAreAttended
  <2>10. QED
    BY <2>1, <2>8, <2>9
<1>8. ASSUME NEW w \in Workers, NEW j \in Jobs, Within(w, j) PROVE RunsAreAttended'
  <2>1. /\ pc[w] \in Busy /\ pc'[w] \in Busy \cup {"raise"}
        /\ \A v \in Workers : v # w => pc'[v] = pc[v]
        /\ UNCHANGED <<phase, owner, run, cur>>
    BY <1>8, WithinShape
  <2>2. \A r \in Runs, k \in Jobs : Held(k, r) => Held(k, r)'
    BY <2>1, HeldKept
  <2>3. QED
    BY <1>2, <2>1, <2>2
<1>9. ASSUME NEW w \in Workers, NEW j \in Jobs, Refresh(w, j) PROVE RunsAreAttended'
  <2>1. /\ pc[w] \in Busy /\ pc'[w] \in Busy
        /\ \A v \in Workers : v # w => pc'[v] = pc[v]
        /\ UNCHANGED <<phase, owner, run, cur>>
    BY <1>0, <1>9 DEF Refresh, On, Goto, jobs, runs, Busy
  <2>2. \A r \in Runs, k \in Jobs : Held(k, r) => Held(k, r)'
    BY <2>1, HeldKept
  <2>3. QED
    BY <1>2, <2>1, <2>2
<1>10. ASSUME NEW w \in Workers, NEW j \in Jobs, SetStatus(w, j) PROVE RunsAreAttended'
  <2>1. /\ pc[w] = "status" /\ run' = [run EXCEPT ![cur[w]] = verdict[w]]
        /\ \A v \in Workers : v # w => pc'[v] = pc[v]
        /\ UNCHANGED <<phase, owner, cur>>
    BY <1>0, <1>10 DEF SetStatus, On, Goto, jobs, local
  <2>2. cur[w] \in Runs /\ verdict[w] \in Terminal /\ run[cur[w]] # "none"
    BY <1>0, <2>1 DEF Busy, RunsInv, AtWork
  <2>3. \A r \in Runs : run'[r] \in InFlight => r # cur[w] /\ run[r] \in InFlight
    BY <1>0, <2>1, <2>2
  <2>4. MakesNone
    BY <1>0, <2>1, <2>2 DEF MakesNone
  <2>5. \A r \in Runs, k \in Jobs : r # cur[w] /\ Held(k, r) => Held(k, r)'
    BY <1>0, <2>1 DEF Held
  <2>6. QED
    BY <1>1, <2>1, <2>3, <2>4, <2>5, AttendedKept
<1>11. ASSUME NEW w \in Workers, NEW j \in Jobs, Leaves(w, j) PROVE RunsAreAttended'
  <2>1. /\ owner[j] = w /\ phase[j] = "working"
        /\ owner' = [owner EXCEPT ![j] = None]
        /\ \A k \in Jobs : k # j => phase'[k] = phase[k]
        /\ pc' = [pc EXCEPT ![w] = "idle"]
        /\ \A v \in Workers : v # w => cur'[v] = cur[v]
    BY <1>11, LeavesShape
  <2>2. \A r \in Runs, k \in Jobs : k # j /\ Held(k, r) => Held(k, r)'
    BY <1>0, <2>1 DEF Held, JobsInv, OneJob
  <2>3. \A k \in Jobs : phase[k] = "dead" => phase'[k] = "dead"
    BY <2>1
  <2>4. CASE Complete(w, j)
    <3>1. \A r \in Runs : ~Held(j, r)
      BY <1>0, <2>1, <2>4 DEF Held, Complete, On, Busy
    <3>2. UNCHANGED run
      BY <2>4 DEF Complete, runs
    <3>3. QED
      BY <1>2, <2>2, <2>3, <3>1, <3>2
  <2>5. CASE Retry(w, j) \/ Crash(w, j)
    <3>1. UNCHANGED run
      BY <2>5 DEF Retry, Crash, runs
    <3>2. phase'[j] = "pending" \/ (phase'[j] = "working" /\ owner'[j] = None)
      BY <1>0, <2>1, <2>5 DEF Retry, Crash, Queue!Lose
    <3>3. QED
      BY <1>2, <2>2, <2>3, <3>1, <3>2 DEF Held
  <2>6. CASE Die(w, j)
    <3>1. /\ pc[w] = "raise" /\ phase'[j] = "dead"
          /\ IF j \in Runs /\ run[j] = "analyzing" THEN run' = [run EXCEPT ![j] = "failed"]
             ELSE UNCHANGED run
      BY <2>6 DEF Die, On
    <3>2. \A r \in Runs : run'[r] \in InFlight => run[r] \in InFlight
      BY <1>0, <3>1 DEF InFlight
    <3>3. MakesNone
      BY <1>0, <3>1 DEF MakesNone
    <3>4. j \in Runs => run'[j] \notin InFlight
      BY <1>0, <2>1, <3>1 DEF NamedIsOpened, InFlight
    <3>5. j \notin Runs => j[2] = 0
      BY AnalysisAssumption DEF Jobs, Runs, Generations
    <3>6. ASSUME NEW r \in Runs, run'[r] \in InFlight PROVE Attended(r)'
      <4>1. /\ r \in Jobs /\ UploadJob(r) \in Jobs /\ r[1] \in Documents
            /\ UploadJob(r)[2] = 0 /\ UploadJob(r) \notin Runs
        BY RunsHaveJobs, AnalysisAssumption DEF RunJobs, Runs, UploadJob, Generations
      <4>2. Attended(r) /\ Latest(r[1])' = Latest(r[1]) /\ r # j
        BY <1>1, <3>2, <3>3, <3>4, <3>6, <4>1 DEF RunsAreAttended
      <4>3. CASE Held(r, r)
        BY <2>2, <4>1, <4>2, <4>3 DEF Attended
      <4>4. CASE r[2] = Latest(r[1]) /\ (Held(UploadJob(r), r) \/ phase[UploadJob(r)] = "dead")
        <5>1. Held(UploadJob(r), r)' \/ phase'[UploadJob(r)] = "dead"
          BY <2>2, <2>3, <3>1, <4>1, <4>4
        <5>2. QED
          BY <4>2, <4>4, <5>1 DEF Attended, UploadJob
      <4>5. QED
        BY <4>2, <4>3, <4>4 DEF Attended
    <3>7. QED
      BY <3>6 DEF RunsAreAttended
  <2>7. QED
    BY <1>11, <2>4, <2>5, <2>6 DEF Leaves
<1>12. QED
  BY <1>3, <1>4, <1>5, <1>6, <1>7, <1>8, <1>9, <1>10, <1>11 DEF Next, Step, Within, Leaves

\* Nobody is forgotten, for any documents, workers and generations, whatever is
\* requested, retried, coalesced or lost: an in-flight run is in the hands of the
\* job that names it, or it is the latest and the upload's job has it, or is dead.
THEOREM RunsAreNeverForgotten == Spec => []RunsAreAttended
<1>1. Init => NamedIsOpened /\ RunsAreAttended
  BY AnalysisAssumption DEF Init, NamedIsOpened, RunsAreAttended, InFlight, Runs, Jobs, Generations
<1>2. Typed /\ EvidenceInv /\ JobsInv /\ RunsInv /\ NamedIsOpened /\ RunsAreAttended /\ [Next]_vars
      => NamedIsOpened' /\ RunsAreAttended'
  BY NamedIsOpenedStep, AttendedStep DEF EvidenceInv
<1>3. QED
  BY <1>1, <1>2, TypeCorrect, EvidenceInvariant, PublishedInvariant, PTL DEF Spec, Typed
--------------------------------------------------------------------------------
(* Locks.  A handler takes its document's lock before a property's, and    *)
(* nothing after that, so somebody among those at work is never waiting.   *)

\* The handler's next step is blocked by a lock: the negation of its guard.
Waits(w, j) ==
  \/ pc[w] = "open" /\ \E v \in Workers : HoldsDocument(v, j[1])
  \/ pc[w] = "load" /\ \E v \in Workers : HoldsProperty(v, PropertyOf[item[w]])

\* A busy worker has a job, the converse of OneJob.
OwnsOne == \A w \in Workers : pc[w] # "idle" => \E j \in Jobs : owner[j] = w

LEMMA OwnsOneStep ==
  ASSUME Typed, JobsInv, OwnsOne, [Next]_vars
  PROVE  OwnsOne'
<1>0. /\ owner \in [Jobs -> Workers \cup {None}] /\ None \notin Workers
      /\ pc \in [Workers -> {"idle", "open", "discover", "entities", "stage", "load",
                              "activate", "refresh", "status", "settle", "raise"}]
  BY AnalysisAssumption DEF Typed, TypeOK, Queue!TypeOK
<1> USE DEF OwnsOne
\* A step by which no worker changes jobs.
<1>1. ASSUME UNCHANGED owner, NEW w \in Workers, pc[w] # "idle",
             \A v \in Workers : v # w => pc'[v] = pc[v]
      PROVE  OwnsOne'
  BY <1>1
<1>2. CASE UNCHANGED <<owner, pc>>
  BY <1>2
<1>3. CASE Reclaim \/ Rests \/ UNCHANGED vars
  BY <1>2, <1>3, ReclaimShape DEF Rests, vars, jobs
<1>4. ASSUME NEW d \in Documents, NEW reanalyze \in BOOLEAN, Schedule(d, reanalyze)
      PROVE  OwnsOne'
  BY <1>2, <1>4, ScheduleShape DEF Queue!Submit
<1>5. ASSUME NEW w \in Workers, NEW j \in Jobs, Take(w, j) PROVE OwnsOne'
  <2>1. /\ phase[j] = "pending" /\ owner' = [owner EXCEPT ![j] = w]
        /\ pc' = [pc EXCEPT ![w] = "open"]
    BY <1>5 DEF Take, Queue!Begin, Goto
  <2>2. owner[j] = None
    BY <1>0, <2>1 DEF JobsInv, OwnedIsWorking
  <2>3. QED
    BY <1>0, <2>1, <2>2
<1>6. ASSUME NEW w \in Workers, NEW j \in Jobs, Within(w, j) PROVE OwnsOne'
  BY <1>1, <1>6, WithinShape DEF Busy
<1>7. ASSUME NEW w \in Workers, NEW j \in Jobs,
             Open(w, j) \/ Refresh(w, j) \/ SetStatus(w, j)
      PROVE  OwnsOne'
  <2>1. /\ pc[w] # "idle" /\ UNCHANGED owner
        /\ \A v \in Workers : v # w => pc'[v] = pc[v]
    BY <1>0, <1>7 DEF Open, Refresh, SetStatus, On, Verdict, Goto, jobs
  <2>2. QED
    BY <1>1, <2>1
<1>8. ASSUME NEW w \in Workers, NEW j \in Jobs, Leaves(w, j) PROVE OwnsOne'
  <2>1. /\ owner[j] = w /\ owner' = [owner EXCEPT ![j] = None]
        /\ pc' = [pc EXCEPT ![w] = "idle"]
    BY <1>8, LeavesShape
  <2>2. QED
    BY <1>0, <2>1
<1>9. QED
  BY <1>3, <1>4, <1>5, <1>6, <1>7, <1>8 DEF Next, Step, Within, Leaves

\* While a job is wanted, a step other than a crash is possible: a lost job can be
\* put back, an idle worker can take one, or a busy one goes on.
WorkGoesOn ==
  ~Quiet => \/ \E j \in Jobs : phase[j] = "working" /\ owner[j] = None
            \/ \E w \in Workers, j \in Jobs : pc[w] = "idle" /\ phase[j] = "pending"
            \/ \E w \in Workers, j \in Jobs : owner[j] = w /\ ~Waits(w, j)

\* Of the handlers at work, the one that is farthest along waits for nobody.
LEMMA SomeoneIsFree ==
  ASSUME OwnsOne, NEW w \in Workers, pc[w] # "idle"
  PROVE  \E v \in Workers, j \in Jobs : owner[j] = v /\ ~Waits(v, j)
<1>1. ASSUME NEW v \in Workers, pc[v] # "idle", \A j \in Jobs : ~Waits(v, j)
      PROVE  \E x \in Workers, j \in Jobs : owner[j] = x /\ ~Waits(x, j)
  BY <1>1 DEF OwnsOne
<1>2. CASE \E v \in Workers : pc[v] = "activate"
  BY <1>1, <1>2 DEF Waits
<1>3. CASE ~ \E v \in Workers : pc[v] = "activate"
  <2>1. \A v \in Workers : \A p : ~HoldsProperty(v, p)
    BY <1>3 DEF HoldsProperty
  <2>2. CASE \E v \in Workers : pc[v] \notin {"idle", "open"}
    BY <1>1, <2>1, <2>2 DEF Waits
  <2>3. CASE ~ \E v \in Workers : pc[v] \notin {"idle", "open"}
    BY <1>1, <2>1, <2>3 DEF Waits, HoldsDocument
  <2>4. QED
    BY <2>2, <2>3
<1>4. QED
  BY <1>2, <1>3

\* Handlers never wait in a circle on the locks of documents and properties, for
\* any number of documents that publish at the same properties.
THEOREM WorkNeverStops == ASSUME Workers # {} PROVE Spec => []WorkGoesOn
<1>1. Typed /\ JobsInv /\ OwnsOne => WorkGoesOn
  <2> SUFFICES ASSUME Typed, JobsInv, OwnsOne, NEW j \in Jobs, phase[j] \in {"pending", "working"}
               PROVE  \/ \E k \in Jobs : phase[k] = "working" /\ owner[k] = None
                      \/ \E w \in Workers, k \in Jobs : pc[w] = "idle" /\ phase[k] = "pending"
                      \/ \E w \in Workers, k \in Jobs : owner[k] = w /\ ~Waits(w, k)
    BY DEF WorkGoesOn, Quiet
  <2>1. CASE phase[j] = "working" /\ owner[j] # None
    <3>1. owner[j] \in Workers /\ pc[owner[j]] # "idle"
      BY <2>1 DEF Typed, TypeOK, Queue!TypeOK, JobsInv, OneJob
    <3>2. QED
      BY <3>1, SomeoneIsFree
  <2>2. CASE phase[j] = "pending"
    BY <2>2, SomeoneIsFree
  <2>3. QED
    BY <2>1, <2>2
<1>2. Init => OwnsOne
  BY DEF Init, OwnsOne
<1>3. Typed /\ JobsInv /\ OwnsOne /\ [Next]_vars => OwnsOne'
  BY OwnsOneStep
<1>4. QED
  BY <1>1, <1>2, <1>3, TypeCorrect, PublishedInvariant, PTL DEF Spec, Typed
--------------------------------------------------------------------------------
(* The analysis jobs keep JobContract.  It starts with idle jobs; here the *)
(* upload has submitted one for each document before the first state.      *)

\* The first state is the contract's after the uploads' jobs are submitted.
Uploaded == {j \in Jobs : j[2] = 0}
StartsUploaded == /\ owner = [j \in Jobs |-> None]
                  /\ phase = [j \in Jobs |-> IF j \in Uploaded THEN "pending" ELSE "idle"]

\* Every step of an analysis is a step of the queue's contract or leaves the jobs
\* alone, from a state the contract reaches by one submission.
THEOREM AnalysisJobsKeepContract == Spec => StartsUploaded /\ [][Queue!Next]_(Queue!vars)
<1>1. Init => StartsUploaded
  BY DEF Init, StartsUploaded, Uploaded
<1>2. [Next]_vars => [Queue!Next]_(Queue!vars)
  <2> SUFFICES ASSUME [Next]_vars PROVE Queue!Next \/ UNCHANGED <<phase, owner>>
    BY DEF Queue!vars
  <2> USE DEF jobs, Queue!Next
  <2>1. CASE UNCHANGED <<phase, owner>>
    BY <2>1
  <2>2. CASE Reclaim \/ Rests \/ UNCHANGED vars
    BY <2>2 DEF Reclaim, Rests, vars
  <2>3. ASSUME NEW d \in Documents, NEW reanalyze \in BOOLEAN, Schedule(d, reanalyze)
        PROVE  Queue!Next \/ UNCHANGED <<phase, owner>>
    <3>1. PICK last : last \in Jobs /\ (UNCHANGED <<phase, owner>> \/ Queue!Submit({last}))
      <4>1. Latest(d) \in 0..MaxRuns
        BY LatestType
      <4>2. \A g \in 0..MaxRuns : <<d, g>> \in Jobs
        BY DEF Jobs
      <4>3. Latest(d) < MaxRuns => Latest(d) + 1 \in 0..MaxRuns
        BY <4>1, AnalysisAssumption
      <4>4. QED
        BY <2>3, <4>1, <4>2, <4>3 DEF Schedule
    <3>2. QED
      BY <3>1
  <2> SUFFICES ASSUME NEW w \in Workers, NEW j \in Jobs,
                      Take(w, j) \/ Step(w, j) \/ Crash(w, j)
               PROVE  Queue!Next \/ UNCHANGED <<phase, owner>>
    BY <2>2, <2>3 DEF Next
  <2>4. CASE Take(w, j) \/ Complete(w, j) \/ Retry(w, j) \/ Die(w, j) \/ Crash(w, j)
    BY <2>4 DEF Take, Complete, Retry, Die, Crash
  <2>5. QED
    BY <2>1, <2>4 DEF Step, Open, Discover, Skip, Extract, Stage, Load, Activate, Conclude,
                      Refresh, SetStatus
<1>3. QED
  BY <1>1, <1>2, PTL DEF Spec
================================================================================
