------------------------------- MODULE Intake -------------------------------
(* How pasted text becomes extraction units: POST /ingest/paste, the       *)
(* ingest_document job (ingestion/service.py, ingestion/worker.py and the  *)
(* handlers of pipeline/worker.py), and what the batch endpoints and the   *)
(* extract_unit jobs then do with the units.  Every paste makes a batch of *)
(* its own; a text pasted before keeps its one report, which moves to the  *)
(* new batch and is ingested again.  Extraction itself is ExtractionFanIn; *)
(* here a report has one unit and its extraction is two steps.             *)
EXTENDS Naturals, FiniteSets

CONSTANTS
    Pastes,     \* requests to paste; each one names its batch too
    Texts,      \* what is pasted
    TextOf,     \* TextOf[r]: the text of a paste
    MaxLosses,  \* how often a job is lost with its worker, or dies
    Nobody      \* no batch, no report

ASSUME IntakeAssumption ==
    /\ TextOf \in [Pastes -> Texts]
    /\ MaxLosses \in Nat
    /\ Nobody \notin Pastes

VARIABLES
    paste,      \* paste[r]: what a paste has seen so far
    batchOf,    \* reports.batch_id of the text's report; Nobody: no report
    reportIs,   \* reports.status
    unitIs,     \* extraction_units.status of its unit
    batchIs,    \* batches.status
    ingest,     \* the ingest_document job of a text
    refreshes,  \* the batch the job will refresh: as it was at its commit
    extract,    \* the extract_unit job of a text's unit
    losses,     \* jobs lost so far
    inserted,   \* history: how often the unit's facts were inserted
    queueings,  \* history: how often an ingestion made the unit "queued"
    overtaken   \* history: batches whose report a later paste took

intakeVars == <<paste, batchOf, reportIs, unitIs, batchIs, ingest, refreshes, extract,
                losses, inserted, queueings, overtaken>>

IntakeTypeOK ==
    /\ paste \in [Pastes -> {"idle", "absent", "found", "done"}]
    /\ batchOf \in [Texts -> Pastes \cup {Nobody}]
    /\ reportIs \in [Texts -> {"none", "text_extracted", "classified", "extracting",
                               "extracted", "failed"}]
    /\ unitIs \in [Texts -> {"none", "queued", "running", "extracted"}]
    /\ batchIs \in [Pastes -> {"none", "ingesting", "uploaded", "awaiting_confirmation",
                               "running", "computing", "failed"}]
    /\ ingest \in [Texts -> {"none", "queued", "running", "committed"}]
    /\ refreshes \in [Texts -> Pastes \cup {Nobody}]
    /\ extract \in [Texts -> {"none", "queued", "running", "finished"}]
    /\ losses \in 0..MaxLosses
    /\ inserted \in [Texts -> Nat]
    /\ queueings \in [Texts -> Nat]
    /\ overtaken \subseteq Pastes

IntakeInit ==
    /\ paste = [r \in Pastes |-> "idle"]
    /\ batchOf = [t \in Texts |-> Nobody]
    /\ reportIs = [t \in Texts |-> "none"]
    /\ unitIs = [t \in Texts |-> "none"]
    /\ batchIs = [r \in Pastes |-> "none"]
    /\ ingest = [t \in Texts |-> "none"]
    /\ refreshes = [t \in Texts |-> Nobody]
    /\ extract = [t \in Texts |-> "none"]
    /\ losses = 0
    /\ inserted = [t \in Texts |-> 0]
    /\ queueings = [t \in Texts |-> 0]
    /\ overtaken = {}

----------------------------------------------------------------------------
(* Pasting.                                                                *)

(* find_by_sha256. *)
LookUp(r) ==
    /\ paste[r] = "idle"
    /\ paste' = [paste EXCEPT ![r] = IF batchOf[TextOf[r]] = Nobody THEN "absent" ELSE "found"]
    /\ UNCHANGED <<batchOf, reportIs, unitIs, batchIs, ingest, refreshes, extract,
                   losses, inserted, queueings, overtaken>>

(* The paste commits its batch, its report's new batch and the job. *)
Accept(r) ==
    LET t == TextOf[r] IN
    /\ paste' = [paste EXCEPT ![r] = "done"]
    /\ batchOf' = [batchOf EXCEPT ![t] = r]
    /\ batchIs' = [batchIs EXCEPT ![r] = "ingesting"]
    /\ ingest' = IF ingest[t] = "none" THEN [ingest EXCEPT ![t] = "queued"] ELSE ingest
    /\ overtaken' = overtaken \cup ({batchOf[t]} \ {Nobody})
    /\ UNCHANGED <<unitIs, refreshes, extract, losses, inserted, queueings>>

CreateReport(r) ==
    /\ paste[r] = "absent" /\ batchOf[TextOf[r]] = Nobody
    /\ Accept(r)
    /\ reportIs' = [reportIs EXCEPT ![TextOf[r]] = "text_extracted"]

(* Found, or lost the race for the unique digest and found then. *)
TakeOver(r) ==
    /\ paste[r] = "found" \/ (paste[r] = "absent" /\ batchOf[TextOf[r]] # Nobody)
    /\ Accept(r)
    /\ UNCHANGED reportIs

----------------------------------------------------------------------------
(* The ingest_document job.                                                *)

ClaimIngest(t) ==
    /\ ingest[t] = "queued"
    /\ ingest' = [ingest EXCEPT ![t] = "running"]
    /\ UNCHANGED <<paste, batchOf, reportIs, unitIs, batchIs, refreshes, extract,
                   losses, inserted, queueings, overtaken>>

(* run_ingest: the unit is created, or made "queued" whatever became of it. *)
Ingest(t) ==
    /\ ingest[t] = "running"
    /\ ingest' = [ingest EXCEPT ![t] = "committed"]
    /\ refreshes' = [refreshes EXCEPT ![t] = batchOf[t]]
    /\ reportIs' = [reportIs EXCEPT ![t] = "classified"]
    /\ unitIs' = [unitIs EXCEPT ![t] = "queued"]
    /\ queueings' = [queueings EXCEPT ![t] = @ + (IF unitIs[t] \in {"queued", "running"} THEN 0 ELSE 1)]
    /\ UNCHANGED <<paste, batchOf, batchIs, extract, losses, inserted, overtaken>>

EndIngest(t) ==
    /\ ingest' = [ingest EXCEPT ![t] = "none"]
    /\ refreshes' = [refreshes EXCEPT ![t] = Nobody]
    /\ UNCHANGED <<paste, batchOf, unitIs, extract, inserted, queueings, overtaken>>

(* _refresh_batch_after_ingest, in a transaction of its own. *)
RefreshBatch(t) ==
    /\ ingest[t] = "committed" /\ refreshes[t] = batchOf[t]
    /\ EndIngest(t)
    /\ batchIs' = [batchIs EXCEPT ![batchOf[t]] =
                      IF reportIs[t] = "failed" THEN "failed" ELSE "uploaded"]
    /\ UNCHANGED <<reportIs, losses>>

(* The report has moved on: its old batch has no reports, all of which have *)
(* failed; the job has no units, and fails for good.                        *)
RefreshEmptied(t) ==
    /\ ingest[t] = "committed" /\ refreshes[t] # batchOf[t]
    /\ EndIngest(t)
    /\ batchIs' = [batchIs EXCEPT ![refreshes[t]] = "failed", ![batchOf[t]] = "failed"]
    /\ reportIs' = [reportIs EXCEPT ![t] = "failed"]
    /\ UNCHANGED losses

(* Out of attempts, or no section was found: _mark_terminal_failure. *)
IngestDies(t) ==
    /\ ingest[t] \in {"running", "committed"}
    /\ losses < MaxLosses /\ losses' = losses + 1
    /\ EndIngest(t)
    /\ reportIs' = [reportIs EXCEPT ![t] = "failed"]
    /\ batchIs' = [batchIs EXCEPT ![batchOf[t]] = "failed"]

IngestLost(t) ==
    /\ ingest[t] \in {"running", "committed"}
    /\ losses < MaxLosses /\ losses' = losses + 1
    /\ ingest' = [ingest EXCEPT ![t] = "queued"]
    /\ refreshes' = [refreshes EXCEPT ![t] = Nobody]
    /\ UNCHANGED <<paste, batchOf, reportIs, unitIs, batchIs, extract, inserted,
                   queueings, overtaken>>

----------------------------------------------------------------------------
(* The batch endpoints and the extract_unit job.                           *)

Owns(r) == batchOf[TextOf[r]] = r

EstimateBatch(r) ==
    /\ Owns(r) /\ unitIs[TextOf[r]] # "none" /\ batchIs[r] # "awaiting_confirmation"
    /\ batchIs' = [batchIs EXCEPT ![r] = "awaiting_confirmation"]
    /\ UNCHANGED <<paste, batchOf, reportIs, unitIs, ingest, refreshes, extract,
                   losses, inserted, queueings, overtaken>>

StartBatch(r) ==
    LET t == TextOf[r] IN
    /\ batchIs[r] = "awaiting_confirmation" /\ Owns(r) /\ unitIs[t] = "queued"
    /\ batchIs' = [batchIs EXCEPT ![r] = "running"]
    /\ reportIs' = [reportIs EXCEPT ![t] = IF @ = "failed" THEN @ ELSE "extracting"]
    /\ extract' = IF extract[t] = "none" THEN [extract EXCEPT ![t] = "queued"] ELSE extract
    /\ UNCHANGED <<paste, batchOf, unitIs, ingest, refreshes, losses, inserted,
                   queueings, overtaken>>

(* Mistake: the unit is marked "running" whatever it is. *)
TakeAnyUnit(t) ==
    /\ extract[t] = "queued"
    /\ extract' = [extract EXCEPT ![t] = "running"]
    /\ unitIs' = [unitIs EXCEPT ![t] = "running"]
    /\ UNCHANGED <<paste, batchOf, reportIs, batchIs, ingest, refreshes, losses,
                   inserted, queueings, overtaken>>

TakeUnit(t) ==
    /\ extract[t] = "queued"
    /\ extract' = [extract EXCEPT ![t] = "running"]
    /\ unitIs' = [unitIs EXCEPT ![t] = IF @ = "queued" THEN "running" ELSE @]
    /\ UNCHANGED <<paste, batchOf, reportIs, batchIs, ingest, refreshes, losses,
                   inserted, queueings, overtaken>>

(* A unit that is not outstanding gets no facts; a paused batch fails the job. *)
Paused(t) == batchIs[batchOf[t]] = "awaiting_confirmation"

FinishUnit(t) ==
    /\ extract[t] = "running"
    /\ unitIs[t] \in {"queued", "running"} => ~Paused(t)
    /\ extract' = [extract EXCEPT ![t] = "finished"]
    /\ unitIs' = [unitIs EXCEPT ![t] = "extracted"]
    /\ inserted' = [inserted EXCEPT ![t] = @ + (IF unitIs[t] = "extracted" THEN 0 ELSE 1)]
    /\ reportIs' = [reportIs EXCEPT ![t] = "extracted"]
    /\ batchIs' = IF unitIs[t] = "extracted" THEN batchIs
                  ELSE [batchIs EXCEPT ![batchOf[t]] = "computing"]
    /\ UNCHANGED <<paste, batchOf, ingest, refreshes, losses, queueings, overtaken>>

(* The job completes after its commit, in a transaction of the queue. *)
CompleteExtract(t) ==
    /\ extract[t] = "finished"
    /\ extract' = [extract EXCEPT ![t] = "none"]
    /\ UNCHANGED <<paste, batchOf, reportIs, unitIs, batchIs, ingest, refreshes,
                   losses, inserted, queueings, overtaken>>

ExtractLost(t) ==
    /\ extract[t] \in {"running", "finished"}
    /\ LET paused == extract[t] = "running" /\ Paused(t) IN
       /\ losses < MaxLosses \/ paused
       /\ losses' = IF paused THEN losses ELSE losses + 1
    /\ extract' = [extract EXCEPT ![t] = "queued"]
    /\ UNCHANGED <<paste, batchOf, reportIs, unitIs, batchIs, ingest, refreshes,
                   inserted, queueings, overtaken>>

IntakeNext ==
    \/ \E r \in Pastes : \/ LookUp(r) \/ CreateReport(r) \/ TakeOver(r)
                         \/ EstimateBatch(r) \/ StartBatch(r)
    \/ \E t \in Texts : \/ ClaimIngest(t) \/ Ingest(t) \/ RefreshBatch(t) \/ RefreshEmptied(t)
                        \/ IngestDies(t) \/ IngestLost(t)
                        \/ TakeUnit(t) \/ FinishUnit(t) \/ CompleteExtract(t) \/ ExtractLost(t)

IntakeSpec == IntakeInit /\ [][IntakeNext]_intakeVars
----------------------------------------------------------------------------
(* Properties.                                                             *)

(* "Nothing can move it off `ingesting`" (register_pdf) is what must not    *)
(* befall a batch: one that is ingesting has its report, and a job that    *)
(* will settle it, unless a later paste took the report.                   *)
BatchAttended ==
    \A r \in Pastes : batchIs[r] = "ingesting" =>
        r \in overtaken \/ (Owns(r) /\ ingest[TextOf[r]] # "none")

(* Facts are inserted once for each time the unit was put in the queue from *)
(* outside it, however often its job is lost, repeated or overtaken.       *)
InsertedOncePerQueueing ==
    \A t \in Texts :
        inserted[t] + (IF unitIs[t] \in {"queued", "running"} THEN 1 ELSE 0) = queueings[t]
=============================================================================
