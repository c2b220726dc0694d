---------------------------- MODULE DocumentAnalysis ---------------------------
(***************************************************************************)
(* Whole-PDF analysis (report_analysis/documents.py): a run of a document  *)
(* discovers its entities, extracts each, resolves it to a property, and   *)
(* publishes it by computing the property's results and activating the     *)
(* entity's row in one transaction.  Documents of one upload share a batch *)
(* whose status is derived from theirs.                                    *)
(*                                                                         *)
(* Jobs follow JobContract.  <<d, 0>> is the upload's job, which names no  *)
(* run; <<d, g>> is the job of generation g.  Owner profiles, duplicate    *)
(* uploads and budget arithmetic are left out, and so are properties that  *)
(* were merged into another: load_record also reads what was published at  *)
(* those, here a property's evidence is what was published at itself.      *)
(***************************************************************************)
EXTENDS Naturals, FiniteSets, FiniteSetsExt

CONSTANTS
  Documents, Entities, Properties, Workers,
  None,          \* no run, no entity, no worker
  PropertyOf,    \* the property an entity's identity resolves to
  MaxRuns,       \* bound: generations of a document
  MaxAttempts,   \* jobs.max_attempts
  MaxRequests,   \* bound: reanalyze requests
  MaxCrashes     \* bound: worker crashes

ASSUME AnalysisAssumption ==
  /\ None \notin Workers \cup Entities
  /\ PropertyOf \in [Entities -> Properties]
  /\ MaxRuns \in Nat \ {0}
  /\ MaxAttempts \in Nat \ {0}
  /\ MaxRequests \in Nat
  /\ MaxCrashes \in Nat

VARIABLES
  phase, owner, attempts,  \* the analyze_report jobs
  run,         \* document_analysis_runs.status
  discovered,  \* all of the run's discovery chunks are complete
  found,       \* the entities they then hold
  entity,      \* report_entity_extractions.status
  active,      \* report_entity_extractions.active
  sources,     \* the extractions a row's raw_json is merged from
  report,      \* reports.status
  batch,       \* batches.status
  results,     \* the extractions a property's results are computed from
  pc,          \* the next step of each worker's handler
  cur,         \* the run it works on
  todo,        \* the entities it has yet to publish
  item,        \* the entity it is publishing
  staged,      \* the evidence it has read for the property
  verdict,     \* the status it is about to give the run
  mark,        \* the status it is about to give the batch, None to leave it
  requests, crashes  \* history

jobs    == <<phase, owner, attempts>>
runs    == <<run, discovered, found>>
rows    == <<entity, active, sources>>
local   == <<cur, todo, item, staged, verdict, mark>>
history == <<requests, crashes>>
vars    == <<jobs, runs, rows, report, batch, results, pc, local, history>>

Generations == 1..MaxRuns
Runs == Documents \X Generations
Rows == Runs \X Entities
Jobs == Documents \X (0..MaxRuns)

Queue == INSTANCE JobContract WITH Keys <- Jobs, NoWorker <- None

Doc(row) == row[1][1]
Gen(row) == row[1][2]
At(row)  == PropertyOf[row[2]]

InFlight == {"queued", "analyzing"}
Finished == {"complete", "no_properties"}
Terminal == Finished \cup {"partial", "needs_review", "failed", "paused_budget"}

\* read_model.load_record: the extractions behind the active rows of a property.
ActiveAt(p)  == {row \in Rows : active[row] /\ At(row) = p}
Content(row) == {<<row[1], e>> : e \in sources[row]}
Evidence(p)  == UNION {Content(row) : row \in ActiveAt(p)}

Init == /\ phase = [j \in Jobs |-> IF j[2] = 0 THEN "pending" ELSE "idle"]
        /\ owner = [j \in Jobs |-> None]
        /\ attempts = [j \in Jobs |-> 0]
        /\ run = [r \in Runs |-> "none"]
        /\ discovered = [r \in Runs |-> FALSE]
        /\ found = [r \in Runs |-> {}]
        /\ entity = [row \in Rows |-> "none"]
        /\ active = [row \in Rows |-> FALSE]
        /\ sources = [row \in Rows |-> {}]
        /\ report = [d \in Documents |-> "analyzing"]
        /\ batch = "analyzing"
        /\ results = [p \in Properties |-> {}]
        /\ pc = [w \in Workers |-> "idle"]
        /\ cur = [w \in Workers |-> None]
        /\ todo = [w \in Workers |-> {}]
        /\ item = [w \in Workers |-> None]
        /\ staged = [w \in Workers |-> {}]
        /\ verdict = [w \in Workers |-> None]
        /\ mark = [w \in Workers |-> None]
        /\ requests = 0 /\ crashes = 0

\* Mistake: the job that names no run takes the first.
Earliest(d) == IF \E g \in Generations : run[<<d, g>>] # "none" THEN 1 ELSE 0

\* The latest generation of a document, 0 before the first.
Latest(d) == Cardinality({g \in Generations : run[<<d, g>>] # "none"})

\* Mistake: documents that are still analyzed are not waited for.
BatchStatusEager(status) ==
  LET some(S) == \E d \in Documents : status[d] \in S
  IN  IF some({"paused_budget"}) THEN "paused_budget"
      ELSE IF ~some(Terminal \ Finished) THEN "complete"
      ELSE IF some(Finished \cup {"partial"}) THEN "partial" ELSE "needs_review"

\* refresh_batches: the batch's status as a function of its reports'.
BatchStatus(status) ==
  LET some(S) == \E d \in Documents : status[d] \in S
  IN  IF some({"paused_budget"}) THEN "paused_budget"
      ELSE IF \E d \in Documents : status[d] \notin Terminal THEN "analyzing"
      ELSE IF ~some(Terminal \ Finished) THEN "complete"
      ELSE IF some(Finished \cup {"partial"}) THEN "partial" ELSE "needs_review"

--------------------------------------------------------------------------------
(* Requests.                                                               *)

\* POST /reports/{id}/reanalyze: backfill.schedule makes a new generation
\* unless one is in flight, and enqueues the latest unless it is finished.
Schedule(d, reanalyze) ==
  LET g     == Latest(d)
      fresh == g = 0 \/ (reanalyze /\ run[<<d, g>>] \notin InFlight)
      last  == <<d, IF fresh THEN g + 1 ELSE g>>
  IN
  /\ requests < MaxRequests
  /\ requests' = requests + 1
  /\ fresh => g < MaxRuns
  /\ run' = IF fresh THEN [run EXCEPT ![last] = "queued"] ELSE run
  /\ IF run'[last] \notin Finished
     THEN /\ report' = [report EXCEPT ![d] = "analyzing"]
          /\ IF phase[last] \in {"pending", "working"}
             THEN UNCHANGED jobs
             ELSE Queue!Submit({last}) /\ attempts' = [attempts EXCEPT ![last] = 0]
     ELSE UNCHANGED <<jobs, report>>
  /\ UNCHANGED <<discovered, found, rows, batch, results, pc, local, crashes>>

--------------------------------------------------------------------------------
(* analyze_document.                                                       *)

Goto(w, step)   == pc' = [pc EXCEPT ![w] = step]
On(w, j, step)  == owner[j] = w /\ pc[w] = step
Verdict(w, s)   == verdict' = [verdict EXCEPT ![w] = s] /\ Goto(w, "refresh")

\* The advisory lock on the document, held until the handler leaves it.
HoldsDocument(w, d) ==
  pc[w] \notin {"idle", "open", "settle", "raise"} /\ cur[w][1] = d

Take(w, j) ==
  /\ pc[w] = "idle"
  /\ Queue!Begin(j, w)
  /\ attempts' = [attempts EXCEPT ![j] = @ + 1]
  /\ Goto(w, "open")
  /\ UNCHANGED <<runs, rows, report, batch, results, local, history>>

\* The run the job names, or else the latest, or else a first one.
Open(w, j) ==
  LET d == j[1]
      g == IF j[2] > 0 THEN j[2] ELSE IF Latest(d) = 0 THEN 1 ELSE Latest(d)
      r == <<d, g>>
  IN
  /\ On(w, j, "open")
  /\ \A v \in Workers : ~HoldsDocument(v, d)
  /\ cur' = [cur EXCEPT ![w] = r]
  /\ IF run[r] \in Finished
     THEN Verdict(w, run[r]) /\ UNCHANGED run
     ELSE /\ run' = [run EXCEPT ![r] = "analyzing"]
          /\ Goto(w, "discover")
          /\ UNCHANGED verdict
  /\ UNCHANGED <<jobs, discovered, found, rows, report, batch, results, todo, item,
                 staged, mark, history>>

\* Mistake: the provider's error is caught, and the job completes.
SwallowError(w) == \/ Goto(w, "settle") /\ UNCHANGED verdict
                   \/ \E s \in {"paused_budget", "failed"} : Verdict(w, s)

\* A handler that gives up: a provider error is left to the queue, a spent
\* budget or a broken document ends the run.
GiveUp(w) == \/ Goto(w, "raise") /\ UNCHANGED verdict
             \/ \E s \in {"paused_budget", "failed"} : Verdict(w, s)

\* Checkpointed chunks are not asked for again, those whose answer was no good
\* are: their pages were then read in smaller parts, or not at all, and a later
\* attempt may find other entities on them.
Discover(w, j) ==
  /\ On(w, j, "discover")
  /\ \/ /\ \E S \in SUBSET Entities, all \in BOOLEAN :
              /\ discovered[cur[w]] => all /\ S = found[cur[w]]
              /\ discovered' = [discovered EXCEPT ![cur[w]] = all]
              /\ found' = [found EXCEPT ![cur[w]] = IF all THEN S ELSE @]
              /\ todo' = [todo EXCEPT ![w] = S]
        /\ Goto(w, "entities")
        /\ UNCHANGED verdict
     \/ /\ ~discovered[cur[w]]
        /\ GiveUp(w)
        /\ UNCHANGED <<discovered, found, todo>>
  /\ UNCHANGED <<jobs, run, rows, report, batch, results, cur, item, staged, mark, history>>

Drop(w, e) == todo' = [todo EXCEPT ![w] = @ \ {e}]

\* An entity whose row is complete is not published again, but what other
\* chunks now say of it is asked for.
Skip(w, j) ==
  /\ On(w, j, "entities")
  /\ \E e \in todo[w] :
       /\ entity[<<cur[w], e>>] = "complete"
       /\ \/ Drop(w, e) /\ UNCHANGED <<pc, verdict>>
          \/ ~discovered[cur[w]] /\ GiveUp(w) /\ UNCHANGED todo
  /\ UNCHANGED <<jobs, runs, rows, report, batch, results, cur, item, staged, mark, history>>

Record(row) == /\ entity' = [entity EXCEPT ![row] = "needs_review"]
               /\ sources' = [sources EXCEPT ![row] = {row[2]}]

\* The extraction, and the transaction that records it for review: it is then
\* published, or left there if it has issues.
Extract(w, j) ==
  /\ On(w, j, "entities")
  /\ \E e \in todo[w] :
       /\ entity[<<cur[w], e>>] # "complete"
       /\ \/ /\ Record(<<cur[w], e>>)
             /\ Drop(w, e)
             /\ \/ Goto(w, "stage") /\ item' = [item EXCEPT ![w] = e]
                \/ UNCHANGED <<pc, item>>
             /\ UNCHANGED verdict
          \/ /\ Record(<<cur[w], e>>)
             /\ Verdict(w, "paused_budget")
             /\ UNCHANGED <<todo, item>>
          \/ /\ GiveUp(w)
             /\ verdict'[w] # "paused_budget"
             /\ UNCHANGED <<entity, sources, todo, item>>
  /\ UNCHANGED <<jobs, runs, active, report, batch, results, cur, staged, mark, history>>

\* Rows of the same run already published at the property.
SameRun(row) == {o \in ActiveAt(At(row)) : o[1] = row[1] /\ o # row}

\* Needs review or has failed: nothing tells the two apart later.
Rejected(w, row) ==
  /\ entity' = [entity EXCEPT ![row] = "needs_review"]
  /\ Goto(w, "entities")

\* First transaction of publishing: resolve, merge with the run's other rows.
Stage(w, j) ==
  LET row == <<cur[w], item[w]>>
  IN
  /\ On(w, j, "stage")
  /\ \/ /\ entity' = [entity EXCEPT ![row] = "computing"]
        /\ sources' = [sources EXCEPT ![row] =
                         {item[w]} \cup UNION {sources[o] : o \in SameRun(row)}]
        /\ Goto(w, "load")
     \/ Rejected(w, row) /\ UNCHANGED sources
  /\ UNCHANGED <<jobs, runs, active, report, batch, results, local, history>>

\* Mistake: the second transaction does not take the property's lock.
NoPropertyLock(w, p) == FALSE

\* Second transaction: under the property's lock, read the evidence again.
HoldsProperty(w, p) == pc[w] = "activate" /\ PropertyOf[item[w]] = p

\* Active rows of other reports: the pending row stands for its own report.
OthersAt(d, p) == {o \in ActiveAt(p) : Doc(o) # d}

Load(w, j) ==
  LET row == <<cur[w], item[w]>>
  IN
  /\ On(w, j, "load")
  /\ \A v \in Workers : ~HoldsProperty(v, At(row))
  /\ staged' = [staged EXCEPT ![w] =
                  Content(row) \cup UNION {Content(o) : o \in OthersAt(Doc(row), At(row))}]
  /\ Goto(w, "activate")
  /\ UNCHANGED <<jobs, runs, rows, report, batch, results, cur, todo, item, verdict,
                 mark, history>>

\* Mistakes: only rows of the same run are replaced, or rows at all properties.
SupersededInRun(row)     == SameRun(row)
SupersededAnywhere(row) == {o \in Rows : active[o] /\ Doc(o) = Doc(row) /\ o # row}

\* Active rows of the report at the property that the new row replaces.
Superseded(row) == {o \in ActiveAt(At(row)) : Doc(o) = Doc(row) /\ o # row}

Activate(w, j) ==
  LET row == <<cur[w], item[w]>>
  IN
  /\ On(w, j, "activate")
  /\ \/ /\ results' = [results EXCEPT ![At(row)] = staged[w]]
        /\ active' = [o \in Rows |-> o = row \/ (active[o] /\ o \notin Superseded(row))]
        /\ entity' = [entity EXCEPT ![row] = "complete"]
        /\ Goto(w, "entities")
     \/ Rejected(w, row) /\ UNCHANGED <<results, active>>
  /\ staged' = [staged EXCEPT ![w] = {}]
  /\ item' = [item EXCEPT ![w] = None]
  /\ UNCHANGED <<jobs, runs, sources, report, batch, cur, todo, verdict, mark, history>>

\* The entities a run has rows of, found by any of its attempts.
Listed(r) == {e \in Entities : entity[<<r, e>>] # "none"}
HasGood(r) == \E e \in Listed(r) : entity[<<r, e>>] = "complete"
HasBad(r)  == \E e \in Listed(r) : entity[<<r, e>>] # "complete"

\* Mistakes: old rows are not looked at; a document without entities has a
\* status of its own.
ConclusionBlind(r, flagged) ==
  IF flagged \/ HasBad(r) THEN IF HasGood(r) THEN "partial" ELSE "needs_review"
  ELSE IF Listed(r) = {} THEN "no_properties" ELSE "complete"
ConclusionEmpty(r, flagged) == IF Listed(r) = {} THEN "empty" ELSE "complete"

\* The run's status: old rows at properties it has not found again count
\* against it, and so do unreadable pages and issues of its rows (flagged).
Conclusion(r, flagged) ==
  LET before == {row \in Rows : active[row] /\ Doc(row) = r[1] /\ row[1] # r}
      lost   == \E row \in before : At(row) \notin {PropertyOf[e] : e \in Listed(r)}
  IN  IF flagged \/ HasBad(r) \/ lost
      THEN IF HasGood(r) THEN "partial" ELSE "needs_review"
      ELSE IF Listed(r) = {} THEN "no_properties" ELSE "complete"

Conclude(w, j) ==
  /\ On(w, j, "entities")
  /\ todo[w] = {}
  /\ \E flagged \in BOOLEAN : Verdict(w, Conclusion(cur[w], flagged))
  /\ UNCHANGED <<jobs, runs, rows, report, batch, results, cur, todo, item, staged,
                 mark, history>>

\* What the transaction sees of the batch's reports: its own flushed.
States(w, d) == [report EXCEPT ![d] = verdict[w]]

\* _set_status: the batch's status is read and derived, then all is written.
\* An unchanged value is not written.
Refresh(w, j) ==
  LET new == BatchStatus(States(w, j[1]))
  IN
  /\ On(w, j, "refresh")
  /\ mark' = [mark EXCEPT ![w] = IF new = batch THEN None ELSE new]
  /\ Goto(w, "status")
  /\ UNCHANGED <<jobs, runs, rows, report, batch, results, cur, todo, item, staged,
                 verdict, history>>

SetStatus(w, j) ==
  /\ On(w, j, "status")
  /\ run' = [run EXCEPT ![cur[w]] = verdict[w]]
  /\ report' = [report EXCEPT ![j[1]] = verdict[w]]
  /\ batch' = IF mark[w] = None THEN batch ELSE mark[w]
  /\ Goto(w, "settle")
  /\ UNCHANGED <<jobs, discovered, found, rows, results, local, history>>

--------------------------------------------------------------------------------
(* How a job ends.                                                         *)

Rest(w) == /\ Goto(w, "idle")
           /\ cur' = [cur EXCEPT ![w] = None]
           /\ todo' = [todo EXCEPT ![w] = {}]
           /\ item' = [item EXCEPT ![w] = None]
           /\ staged' = [staged EXCEPT ![w] = {}]
           /\ verdict' = [verdict EXCEPT ![w] = None]
           /\ mark' = [mark EXCEPT ![w] = None]

Complete(w, j) ==
  /\ On(w, j, "settle")
  /\ Queue!Settle(j, w)
  /\ phase'[j] = "done"
  /\ Rest(w)
  /\ UNCHANGED <<attempts, runs, rows, report, batch, results, history>>

Retry(w, j) ==
  /\ On(w, j, "raise")
  /\ attempts[j] < MaxAttempts
  /\ Queue!Settle(j, w)
  /\ phase'[j] = "pending"
  /\ Rest(w)
  /\ UNCHANGED <<attempts, runs, rows, report, batch, results, history>>

\* _mark_terminal_failure: the run is failed if the job's payload names it,
\* the batch otherwise.
Die(w, j) ==
  /\ On(w, j, "raise")
  /\ attempts[j] >= MaxAttempts
  /\ Queue!Settle(j, w)
  /\ phase'[j] = "dead"
  /\ IF j \in Runs /\ run[j] = "analyzing"
     THEN /\ run' = [run EXCEPT ![j] = "failed"]
          /\ report' = [report EXCEPT ![j[1]] = "failed"]
          /\ batch' = BatchStatus(report')
     ELSE batch' = "failed" /\ UNCHANGED <<run, report>>
  /\ Rest(w)
  /\ UNCHANGED <<attempts, discovered, found, rows, results, history>>

Crash(w, j) ==
  /\ crashes < MaxCrashes
  /\ Queue!Lose(j, w)
  /\ crashes' = crashes + 1
  /\ Rest(w)
  /\ UNCHANGED <<attempts, runs, rows, report, batch, results, requests>>

Reclaim ==
  /\ Queue!Reclaim
  /\ UNCHANGED <<attempts, runs, rows, report, batch, results, pc, local, history>>

--------------------------------------------------------------------------------
Step(w, j) == \/ Open(w, j) \/ Discover(w, j) \/ Skip(w, j) \/ Extract(w, j)
              \/ Stage(w, j) \/ Load(w, j) \/ Activate(w, j) \/ Conclude(w, j)
              \/ Refresh(w, j) \/ SetStatus(w, j) \/ Complete(w, j)
              \/ Retry(w, j) \/ Die(w, j)

Quiet == \A j \in Jobs : phase[j] \notin {"pending", "working"}

\* Nothing left to do: anything else that stops is a deadlock.
Rests == Quiet /\ UNCHANGED vars

Next == \/ \E d \in Documents, reanalyze \in BOOLEAN : Schedule(d, reanalyze)
        \/ \E w \in Workers, j \in Jobs : Take(w, j) \/ Step(w, j) \/ Crash(w, j)
        \/ Reclaim \/ Rests

Spec == Init /\ [][Next]_vars

\* Idle workers poll and handlers go on to their end; users need not ask again,
\* and nothing says that a lost job is ever released (jobs/postgres.py
\* release_stale runs when a worker starts and takes old leases only).
Fairness == \A w \in Workers : /\ WF_vars(\E j \in Jobs : Take(w, j))
                               /\ WF_vars(\E j \in Jobs : Step(w, j))

FairSpec == Spec /\ Fairness
--------------------------------------------------------------------------------
(* Properties.                                                             *)

TypeOK == /\ Queue!TypeOK
          /\ attempts \in [Jobs -> Nat]
          /\ run \in [Runs -> {"none"} \cup InFlight \cup Terminal]
          /\ discovered \in [Runs -> BOOLEAN]
          /\ found \in [Runs -> SUBSET Entities]
          /\ entity \in [Rows -> {"none", "needs_review", "computing", "complete"}]
          /\ active \in [Rows -> BOOLEAN]
          /\ sources \in [Rows -> SUBSET Entities]
          /\ report \in [Documents -> {"analyzing"} \cup Terminal]
          /\ batch \in {"analyzing"} \cup Terminal
          /\ results \in [Properties -> SUBSET Rows]
          /\ pc \in [Workers -> {"idle", "open", "discover", "entities", "stage", "load",
                                 "activate", "refresh", "status", "settle", "raise"}]
          /\ cur \in [Workers -> Runs \cup {None}]
          /\ todo \in [Workers -> SUBSET Entities]
          /\ item \in [Workers -> Entities \cup {None}]
          /\ staged \in [Workers -> SUBSET Rows]
          /\ verdict \in [Workers -> Terminal \cup {None}]
          /\ mark \in [Workers -> Terminal \cup {"analyzing", None}]
          /\ {requests, crashes} \subseteq Nat

\* "Calculation tables and active evidence switch in the SAME transaction": a
\* property's results are at all times those of its active evidence, although
\* several documents are published at it concurrently.
ResultsMatchEvidence == \A p \in Properties : results[p] = Evidence(p)

\* A report has at most one active row at a property.
OneActivePerReport ==
  \A p \in Properties, d \in Documents :
     Cardinality({row \in ActiveAt(p) : Doc(row) = d}) <= 1

\* "Do not silently detach old data when a new inventory disagrees": the document
\* has no evidence at a property which a run that ends complete has not found.
Completes(r) == run[r] # "complete" /\ run'[r] = "complete"
NothingDetached ==
  [][\A r \in Runs, row \in Rows :
        Completes(r) /\ active'[row] /\ Doc(row) = r[1]
          => \E e \in Listed(r)' : PropertyOf[e] = At(row)]_vars

\* A batch is complete only when each of its documents has a run that has ended
\* well, although a worker derives its status from what the others have
\* committed by then.  (Its report may be analyzed anew meanwhile.)
CompleteBatchIsDone ==
  batch = "complete" => \A d \in Documents : \E g \in Generations : run[<<d, g>>] \in Finished

\* What a document has published at a property is replaced in one step, never
\* withdrawn first: the property does not lose the document's evidence.
Published(d, p) == \E row \in ActiveAt(p) : Doc(row) = d
PublishedStays ==
  [][\A d \in Documents, p \in Properties : Published(d, p) => Published(d, p)']_vars

\* Data of an older run takes the place of a newer generation's only by the job
\* that names that run: a late retry of the upload's job never does.
Overtaken(o, n) == Doc(o) = Doc(n) /\ At(o) = At(n) /\ Gen(o) < Gen(n) /\ active[n]
NewerStands ==
  [][\A o, n \in Rows : Overtaken(o, n) /\ active'[o] => phase[o[1]] = "working"]_vars

\* "The caller can safely replay the same job": a second attempt at a run's job
\* does not put the run's data in the place of a newer generation's.
ReplayIsSafe ==
  [][\A o, n \in Rows : Overtaken(o, n) /\ attempts[o[1]] > 1 => ~active'[o]]_vars

\* A run that is queued or analyzed comes to an end, through retries, crashes
\* and coalesced requests, unless the upload's own job is exhausted, or a job of
\* the run's is lost to a crash and never released.
Lost(r) == \E j \in {<<r[1], 0>>, r} : phase[j] = "working" /\ owner[j] = None
RunEnds ==
  \A r \in Runs :
     \/ run[r] \in InFlight ~> (run[r] \in Terminal \/ phase[<<r[1], 0>>] = "dead")
     \/ <>[]Lost(r)
================================================================================
