------------------------------- MODULE Uploads -------------------------------
(***************************************************************************)
(* Uploading PDFs (api/app.py upload, ingestion/service.py register_pdf).  *)
(* A request makes one batch and registers its files in order, all in one  *)
(* transaction.  The first report of a file is the original; whoever       *)
(* uploads the same bytes again gets a report that refers to it and copies *)
(* its status as it was READ, which another transaction may have changed   *)
(* since.  A unique index on the digests of originals decides which of two *)
(* concurrent uploads is first: the other waits for it to commit.          *)
(*                                                                         *)
(* Every report has a job, and all jobs of one file share one analysis     *)
(* run, whose verdict is written to all its reports and their batches      *)
(* (documents.py _set_status, refresh_batches).  What a run does is in     *)
(* DocumentAnalysis; here it ends with a verdict.  Storage that changed    *)
(* its backend, and a file twice in one request, are left out.             *)
(***************************************************************************)
EXTENDS Naturals, Sequences, FiniteSets

CONSTANTS Uploaders,   \* upload requests, each with its batch
          Files,       \* contents, by digest
          FilesOf,     \* FilesOf[u]: the files of a request, in their order
          MaxDeaths    \* bound: jobs that use up their attempts

ASSUME UploadAssumption ==
    /\ FilesOf \in [Uploaders -> Seq(Files) \ {<<>>}] /\ MaxDeaths \in Nat
    /\ \A u \in Uploaders : \A i, j \in DOMAIN FilesOf[u] :
          FilesOf[u][i] = FilesOf[u][j] => i = j

VARIABLES
    upload,     \* the transaction of each request
    original,   \* the requests that committed the original of a file
    status,     \* reports.status
    analysis,   \* document_analysis_runs.status of a file
    analyzeJob, \* the analyze_report job of a report
    batch,      \* batches.status
    deaths      \* history: reports whose job used up its attempts

uploadVars == <<upload, original, status, analysis, analyzeJob, batch, deaths>>

FileRows == {k \in Uploaders \X Files : k[2] \in {FilesOf[k[1]][i] : i \in DOMAIN FilesOf[k[1]]}}
Verdicts == {"complete", "needs_review"}
RowStates == Verdicts \cup {"analyzing"}

(* known: what each registered file of the open transaction will be. *)
NotBegun == [pc |-> "idle", seen |-> "unread", known |-> <<>>]

UploadInit ==
    /\ upload = [u \in Uploaders |-> NotBegun]
    /\ original = [f \in Files |-> {}]
    /\ status = [k \in FileRows |-> "none"]
    /\ analysis = [f \in Files |-> "none"]
    /\ analyzeJob = [k \in FileRows |-> "none"]
    /\ batch = [u \in Uploaders |-> "none"]
    /\ deaths = {}

-----------------------------------------------------------------------------
(* The request *)

Registering(u) == upload[u].pc = "open" /\ Len(upload[u].known) < Len(FilesOf[u])
Current(u) == FilesOf[u][Len(upload[u].known) + 1]
StatusOfOriginal(f) == status[<<CHOOSE u \in original[f] : TRUE, f>>]

Unchanged == UNCHANGED <<original, status, analysis, analyzeJob, batch, deaths>>

Begin(u) ==
    /\ upload[u].pc = "idle"
    /\ upload' = [upload EXCEPT ![u].pc = "open"]
    /\ Unchanged

(* find_by_sha256: committed originals only. *)
FindByDigest(u) ==
    /\ Registering(u) /\ upload[u].seen = "unread"
    /\ upload' = [upload EXCEPT ![u].seen = IF original[Current(u)] = {} THEN "absent"
                                            ELSE StatusOfOriginal(Current(u))]
    /\ Unchanged

Registered(u, row) ==
    upload' = [upload EXCEPT ![u].seen = "unread", ![u].known = Append(@, row)]

(* The original of f that an open transaction has inserted. *)
Inserter(f) ==
    {u \in Uploaders : upload[u].pc = "open" /\ \E i \in DOMAIN upload[u].known :
        FilesOf[u][i] = f /\ upload[u].known[i] = "original"}

InsertOriginal(u) ==
    /\ Registering(u) /\ upload[u].seen = "absent"
    /\ original[Current(u)] = {} /\ Inserter(Current(u)) = {}
    /\ Registered(u, "original")
    /\ Unchanged

(* _create_duplicate_reference: a finished original is copied, any other
   report is to be analysed. *)
Reference(seen) == IF seen = "complete" THEN "complete" ELSE "analyzing"

ReferToSeen(u) ==
    /\ Registering(u) /\ upload[u].seen \in RowStates
    /\ Registered(u, Reference(upload[u].seen))
    /\ Unchanged

(* IntegrityError: somebody was first; it is read again. *)
LoseTheRace(u) ==
    /\ Registering(u) /\ upload[u].seen = "absent" /\ original[Current(u)] # {}
    /\ Registered(u, Reference(StatusOfOriginal(Current(u))))
    /\ Unchanged

WaitsFor(u, v) == /\ Registering(u) /\ upload[u].seen = "absent"
                  /\ v \in Inserter(Current(u))

(* Two requests wait for one another's originals: the database ends one of
   them, and get_session rolls it back. *)
DeadlockVictim(u) ==
    /\ \E v \in Uploaders : WaitsFor(u, v) /\ WaitsFor(v, u)
    /\ upload' = [upload EXCEPT ![u] = [NotBegun EXCEPT !.pc = "rolled_back"]]
    /\ Unchanged

RowsOfUpload(u) == {k \in FileRows : k[1] = u}
IsOriginal(u, f) == \E i \in DOMAIN FilesOf[u] :
                       FilesOf[u][i] = f /\ upload[u].known[i] = "original"

(* Mistake: a reference gets no job, its original has one. *)
OriginalsToAnalyze(u) == {k \in RowsOfUpload(u) : IsOriginal(u, k[2])}

(* "Both paths enqueue unconditionally." *)
RowsToAnalyze(u) == RowsOfUpload(u)

CommitUpload(u) ==
    /\ upload[u].pc = "open" /\ ~Registering(u)
    /\ upload' = [upload EXCEPT ![u].pc = "done"]
    /\ original' = [f \in Files |-> IF <<u, f>> \in FileRows /\ IsOriginal(u, f)
                                    THEN {u} ELSE original[f]]
    /\ status' = [k \in FileRows |->
          IF k[1] # u THEN status[k]
          ELSE LET i == CHOOSE j \in DOMAIN FilesOf[u] : FilesOf[u][j] = k[2]
               IN  IF upload[u].known[i] = "complete" THEN "complete" ELSE "analyzing"]
    /\ analyzeJob' = [k \in FileRows |-> IF k \in RowsToAnalyze(u) THEN "queued"
                                        ELSE analyzeJob[k]]
    /\ batch' = [batch EXCEPT ![u] = "analyzing"]
    /\ UNCHANGED <<analysis, deaths>>

-----------------------------------------------------------------------------
(* The job of a report *)

(* refresh_batches, for the reports as they are to be. *)
BatchOf(rows) == IF "analyzing" \in rows THEN "analyzing"
                 ELSE IF "needs_review" \in rows THEN "needs_review" ELSE "complete"

(* _set_status: all reports of the file, and the batches they are in. *)
SetStatusOf(f, verdict) ==
    LET after == [k \in FileRows |-> IF k[2] = f /\ status[k] # "none" THEN verdict ELSE status[k]]
    IN  /\ status' = after
        /\ batch' = [u \in Uploaders |->
              IF <<u, f>> \in FileRows /\ status[<<u, f>>] # "none"
              THEN BatchOf({after[k] : k \in RowsOfUpload(u)}) ELSE batch[u]]

(* Claimed, and the run lock of the original is free. *)
TakeJob(k) ==
    /\ analyzeJob[k] = "queued"
    /\ \A other \in FileRows : other[2] = k[2] => analyzeJob[other] # "running"
    /\ analyzeJob' = [analyzeJob EXCEPT ![k] = "running"]
    /\ analysis' = [analysis EXCEPT ![k[2]] = IF @ = "complete" THEN @ ELSE "analyzing"]
    /\ UNCHANGED <<upload, original, status, batch, deaths>>

(* analyze_document: a run that is complete is not repeated, its verdict is
   written again. *)
Conclude(k, verdict) ==
    /\ analyzeJob[k] = "running"
    /\ analysis[k[2]] = "complete" => verdict = "complete"
    /\ analysis' = [analysis EXCEPT ![k[2]] = verdict]
    /\ SetStatusOf(k[2], verdict)
    /\ analyzeJob' = [analyzeJob EXCEPT ![k] = "settled"]
    /\ UNCHANGED <<upload, original, deaths>>

(* ProviderError or a lost worker: the run stays as it is. *)
Defer(k) ==
    /\ analyzeJob[k] = "running"
    /\ analyzeJob' = [analyzeJob EXCEPT ![k] = "queued"]
    /\ UNCHANGED <<upload, original, status, analysis, batch, deaths>>

(* _mark_terminal_failure: the payload of an upload names no run, so only the
   batch fails. *)
JobDies(k) ==
    /\ analyzeJob[k] = "running" /\ Cardinality(deaths) < MaxDeaths
    /\ analyzeJob' = [analyzeJob EXCEPT ![k] = "dead"]
    /\ batch' = [batch EXCEPT ![k[1]] = "failed"]
    /\ deaths' = deaths \cup {k}
    /\ UNCHANGED <<upload, original, status, analysis>>

UploadNext ==
    \/ \E u \in Uploaders : \/ Begin(u) \/ FindByDigest(u) \/ InsertOriginal(u)
                            \/ ReferToSeen(u) \/ LoseTheRace(u) \/ DeadlockVictim(u)
                            \/ CommitUpload(u)
    \/ \E k \in FileRows : \/ TakeJob(k) \/ Defer(k) \/ JobDies(k)
                       \/ \E verdict \in Verdicts : Conclude(k, verdict)

UploadSpec == UploadInit /\ [][UploadNext]_uploadVars

-----------------------------------------------------------------------------
UploadTypeOK ==
    /\ upload \in [Uploaders -> [pc : {"idle", "open", "done", "rolled_back"},
                                 seen : {"unread", "absent"} \cup RowStates,
                                 known : Seq({"original"} \cup RowStates)]]
    /\ original \in [Files -> {{}} \cup {{u} : u \in Uploaders}]
    /\ status \in [FileRows -> RowStates \cup {"none"}]
    /\ analysis \in [Files -> RowStates \cup {"none"}]
    /\ analyzeJob \in [FileRows -> {"none", "queued", "running", "settled", "dead"}]
    /\ batch \in [Uploaders -> RowStates \cup {"none", "failed"}]
    /\ deaths \subseteq FileRows

(* A report whose file nobody is working on any more shows the verdict of the *)
(* file's run, whoever uploaded it and whatever the run's status was when it  *)
(* was registered; a batch that is analysing has a report with a job to come. *)
(* A job that used up its attempts is the exception: it leaves its report as  *)
(* it was, in every batch it is in (register_pdf, upload, _set_status).       *)
Active(k) == analyzeJob[k] \in {"queued", "running"}
Exempt(u) == \E k \in deaths, f \in Files : k[2] = f /\ <<u, f>> \in FileRows

UploadAttended ==
    /\ \A k \in FileRows : status[k] # "none" /\ k[2] \notin {d[2] : d \in deaths} =>
          \/ status[k] = analysis[k[2]]
          \/ \E other \in FileRows : other[2] = k[2] /\ Active(other)
    /\ \A u \in Uploaders : batch[u] = "analyzing" =>
          Exempt(u) \/ \E k \in RowsOfUpload(u) : Active(k)
==============================================================================
