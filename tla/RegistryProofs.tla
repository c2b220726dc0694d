--------------------------- MODULE RegistryProofs ----------------------------
(*****************************************************************************)
(* Theorems about the components of the register: pastes (Intake), uploads   *)
(* (Uploads), the review queue (FlagLedger), and scores and ranks (Ranking); *)
(* then about all of them as MCRegistry puts them side by side.              *)
(*****************************************************************************)
EXTENDS MCRegistry, IdentityProofs, SumTheorems, SequenceTheorems,
        FiniteSetTheorems, TLAPS

(*****************************************************************************)
(* Intake, for any pastes, texts and number of lost jobs.                    *)
(*****************************************************************************)

(* A unit has an extract_unit job only once an ingestion has made it. *)
JobsHaveUnits == \A t \in Texts : extract[t] # "none" => unitIs[t] # "none"

IntakeInv == /\ IntakeTypeOK /\ JobsHaveUnits
             /\ InsertedOncePerQueueing /\ BatchAttended

(* No text is pasted at first.                                                  *)
LEMMA IntakeInitial == IntakeInit => IntakeInv
  BY IntakeAssumption DEF IntakeInit, IntakeInv, IntakeTypeOK, JobsHaveUnits,
     InsertedOncePerQueueing, BatchAttended

------------------------------------------------------------------------------
(* A paste leaves units alone; the batch whose report it takes is overtaken. *)
LEMMA PasteStep ==
  ASSUME IntakeInv, NEW r \in Pastes, LookUp(r) \/ CreateReport(r) \/ TakeOver(r)
  PROVE  IntakeInv'
<1> USE IntakeAssumption DEF IntakeInv, IntakeTypeOK, JobsHaveUnits, InsertedOncePerQueueing,
                             BatchAttended, Owns
<1>1. CASE LookUp(r)
  BY <1>1 DEF LookUp
<1>2. CASE CreateReport(r) \/ TakeOver(r)
  <2>1. Accept(r) /\ reportIs' \in [Texts -> {"none", "text_extracted", "classified",
                                              "extracting", "extracted", "failed"}]
    BY <1>2 DEF CreateReport, TakeOver
  <2>2. IntakeTypeOK'
    BY <2>1 DEF Accept
  <2>3. BatchAttended'
    BY <2>1 DEF Accept
  <2> QED
    BY <2>1, <2>2, <2>3 DEF Accept
<1> QED
  BY <1>1, <1>2

(* Ingestion makes a unit queued and counts it unless it still was; when the  *)
(* job ends, the batch that owns the report has left `ingesting`.            *)
LEMMA IngestStep ==
  ASSUME IntakeInv, NEW t \in Texts,
         \/ ClaimIngest(t) \/ Ingest(t) \/ RefreshBatch(t) \/ RefreshEmptied(t)
         \/ IngestDies(t) \/ IngestLost(t)
  PROVE  IntakeInv'
<1> USE IntakeAssumption DEF IntakeInv, IntakeTypeOK, JobsHaveUnits, InsertedOncePerQueueing,
                             BatchAttended, Owns
<1>1. CASE ClaimIngest(t)
  BY <1>1 DEF ClaimIngest
<1>2. CASE Ingest(t)
  BY <1>2 DEF Ingest
<1>7. ASSUME EndIngest(t), NEW next \in [Pastes -> {"none", "ingesting", "uploaded",
                         "awaiting_confirmation", "running", "computing", "failed"}],
             batchIs' = next,
             \A r \in Pastes : next[r] = "ingesting" => batchIs[r] = "ingesting" /\ r # batchOf[t],
             reportIs' \in [Texts -> {"none", "text_extracted", "classified", "extracting",
                                     "extracted", "failed"}],
             losses' \in 0..MaxLosses
      PROVE  IntakeInv'
  <2>1. /\ ingest' = [ingest EXCEPT ![t] = "none"]
        /\ refreshes' = [refreshes EXCEPT ![t] = Nobody]
        /\ UNCHANGED <<paste, batchOf, unitIs, extract, inserted, queueings, overtaken>>
    BY <1>7 DEF EndIngest
  <2>2. IntakeTypeOK'
    BY <1>7, <2>1
  <2>3. JobsHaveUnits' /\ InsertedOncePerQueueing'
    BY <2>1
  <2>4. BatchAttended'
    <3> SUFFICES ASSUME NEW r \in Pastes, batchIs'[r] = "ingesting", r \notin overtaken
                 PROVE  batchOf[TextOf[r]] = r /\ ingest'[TextOf[r]] # "none"
      BY <2>1
    <3>1. batchIs[r] = "ingesting" /\ r # batchOf[t]
      BY <1>7
    <3>2. batchOf[TextOf[r]] = r /\ ingest[TextOf[r]] # "none" /\ TextOf[r] # t
      BY <3>1
    <3> QED
      BY <2>1, <3>2
  <2> QED
    BY <2>2, <2>3, <2>4
<1>3. CASE RefreshBatch(t)
  <2> DEFINE next == [batchIs EXCEPT ![batchOf[t]] =
                        IF reportIs[t] = "failed" THEN "failed" ELSE "uploaded"]
  <2>1. EndIngest(t) /\ batchIs' = next /\ reportIs' = reportIs /\ losses' = losses
    BY <1>3 DEF RefreshBatch
  <2>2. next \in [Pastes -> {"none", "ingesting", "uploaded", "awaiting_confirmation",
                             "running", "computing", "failed"}]
    OBVIOUS
  <2>3. \A r \in Pastes : next[r] = "ingesting" => batchIs[r] = "ingesting" /\ r # batchOf[t]
    OBVIOUS
  <2>4. /\ losses' \in 0..MaxLosses
        /\ reportIs' \in [Texts -> {"none", "text_extracted", "classified", "extracting",
                                    "extracted", "failed"}]
    BY <2>1
  <2> HIDE DEF next, IntakeInv
  <2> QED
    BY <1>7, <2>1, <2>2, <2>3, <2>4
<1>4. CASE RefreshEmptied(t)
  <2> DEFINE next == [batchIs EXCEPT ![refreshes[t]] = "failed", ![batchOf[t]] = "failed"]
  <2>1. EndIngest(t) /\ batchIs' = next /\ losses' = losses
        /\ reportIs' = [reportIs EXCEPT ![t] = "failed"]
    BY <1>4 DEF RefreshEmptied
  <2>2. next \in [Pastes -> {"none", "ingesting", "uploaded", "awaiting_confirmation",
                             "running", "computing", "failed"}]
    OBVIOUS
  <2>3. \A r \in Pastes : next[r] = "ingesting" => batchIs[r] = "ingesting" /\ r # batchOf[t]
    OBVIOUS
  <2>4. /\ losses' \in 0..MaxLosses
        /\ reportIs' \in [Texts -> {"none", "text_extracted", "classified", "extracting",
                                    "extracted", "failed"}]
    BY <2>1
  <2> HIDE DEF next, IntakeInv
  <2> QED
    BY <1>7, <2>1, <2>2, <2>3, <2>4
<1>5. CASE IngestDies(t)
  <2> DEFINE next == [batchIs EXCEPT ![batchOf[t]] = "failed"]
  <2>1. EndIngest(t) /\ batchIs' = next /\ losses' \in 0..MaxLosses
        /\ reportIs' = [reportIs EXCEPT ![t] = "failed"]
    BY <1>5 DEF IngestDies
  <2>2. next \in [Pastes -> {"none", "ingesting", "uploaded", "awaiting_confirmation",
                             "running", "computing", "failed"}]
    OBVIOUS
  <2>3. \A r \in Pastes : next[r] = "ingesting" => batchIs[r] = "ingesting" /\ r # batchOf[t]
    OBVIOUS
  <2>4. /\ losses' \in 0..MaxLosses
        /\ reportIs' \in [Texts -> {"none", "text_extracted", "classified", "extracting",
                                    "extracted", "failed"}]
    BY <2>1
  <2> HIDE DEF next, IntakeInv
  <2> QED
    BY <1>7, <2>1, <2>2, <2>3, <2>4
<1>6. CASE IngestLost(t)
  BY <1>6 DEF IngestLost
<1> QED
  BY <1>1, <1>2, <1>3, <1>4, <1>5, <1>6

(* A batch is started only with a unit in the queue. *)
LEMMA BatchStep ==
  ASSUME IntakeInv, NEW r \in Pastes, EstimateBatch(r) \/ StartBatch(r)
  PROVE  IntakeInv'
<1> USE IntakeAssumption DEF IntakeInv, IntakeTypeOK, JobsHaveUnits, InsertedOncePerQueueing,
                             BatchAttended, Owns
<1>1. CASE EstimateBatch(r)
  BY <1>1 DEF EstimateBatch
<1>2. CASE StartBatch(r)
  BY <1>2 DEF StartBatch
<1> QED
  BY <1>1, <1>2

(* Extraction inserts facts only when the unit leaves the queue. *)
LEMMA ExtractStep ==
  ASSUME IntakeInv, NEW t \in Texts,
         TakeUnit(t) \/ FinishUnit(t) \/ CompleteExtract(t) \/ ExtractLost(t)
  PROVE  IntakeInv'
<1> USE IntakeAssumption DEF IntakeInv, IntakeTypeOK, JobsHaveUnits, InsertedOncePerQueueing,
                             BatchAttended, Owns
<1>1. CASE TakeUnit(t)
  BY <1>1 DEF TakeUnit
<1>2. CASE FinishUnit(t)
  <2>1. IntakeTypeOK'
    <3>1. inserted' \in [Texts -> Nat]
      BY <1>2 DEF FinishUnit
    <3>2. batchIs' \in [Pastes -> {"none", "ingesting", "uploaded", "awaiting_confirmation",
                                   "running", "computing", "failed"}]
      BY <1>2 DEF FinishUnit
    <3> QED
      BY <1>2, <3>1, <3>2 DEF FinishUnit
  <2>2. JobsHaveUnits' /\ InsertedOncePerQueueing'
    BY <1>2 DEF FinishUnit
  <2>3. BatchAttended'
    BY <1>2 DEF FinishUnit
  <2> QED
    BY <2>1, <2>2, <2>3
<1>3. CASE CompleteExtract(t)
  BY <1>3 DEF CompleteExtract
<1>4. CASE ExtractLost(t)
  BY <1>4 DEF ExtractLost
<1> QED
  BY <1>1, <1>2, <1>3, <1>4

(* The invariant holds throughout.                                              *)
LEMMA IntakeInvariant == IntakeSpec => []IntakeInv
<1>1. IntakeInv /\ UNCHANGED intakeVars => IntakeInv'
  BY DEF intakeVars, IntakeInv, IntakeTypeOK, JobsHaveUnits, InsertedOncePerQueueing,
         BatchAttended, Owns
<1>2. IntakeInv /\ IntakeNext => IntakeInv'
  BY PasteStep, IngestStep, BatchStep, ExtractStep DEF IntakeNext
<1>3. QED
  BY <1>1, <1>2, IntakeInitial, PTL DEF IntakeSpec

(* Facts are inserted once for each time a unit was queued, however often its *)
(* job is lost, repeated or overtaken by an ingestion (run_ingest,           *)
(* finish_unit).                                                             *)
THEOREM FactsInsertedOnce == IntakeSpec => []InsertedOncePerQueueing
<1>1. IntakeInv => InsertedOncePerQueueing
  BY DEF IntakeInv
<1> QED
  BY <1>1, IntakeInvariant, PTL

(* A batch that is `ingesting` has its report and a job to come, unless a     *)
(* later paste took the report (paste, register_pdf).                        *)
THEOREM IngestingIsAttended == IntakeSpec => []BatchAttended
<1>1. IntakeInv => BatchAttended
  BY DEF IntakeInv
<1> QED
  BY <1>1, IntakeInvariant, PTL

(*****************************************************************************)
(* Uploads, for any requests, files and number of lost jobs.                 *)
(*****************************************************************************)

(* The original of a file is a committed report. *)
OriginalsCommitted ==
    \A f \in Files : \A u \in original[f] : <<u, f>> \in FileRows /\ status[<<u, f>>] # "none"

(* Only committed reports have jobs; one that is still to be analysed has a    *)
(* job that will do it, or one that has used up its attempts.                 *)
JobsOfReports == \A k \in FileRows : analyzeJob[k] # "none" => status[k] # "none"

AnalyzingHasJob == \A k \in FileRows : status[k] = "analyzing" => Active(k) \/ k \in deaths

UploadInv == /\ UploadTypeOK /\ OriginalsCommitted /\ JobsOfReports /\ AnalyzingHasJob
             /\ UploadAttended

(* The reports of a request and of a file. *)
LEMMA FileRowsAre ==
  \A k \in FileRows :
     /\ k[1] \in Uploaders /\ k[2] \in Files /\ k = <<k[1], k[2]>>
     /\ k \in RowsOfUpload(k[1])
  BY DEF FileRows, RowsOfUpload

(* No upload is empty.                                                          *)
LEMMA EveryUploadHasAFile == \A u \in Uploaders : \E k \in FileRows : k \in RowsOfUpload(u)
<1> SUFFICES ASSUME NEW u \in Uploaders PROVE \E k \in FileRows : k \in RowsOfUpload(u)
  OBVIOUS
<1>1. FilesOf[u] \in Seq(Files) /\ FilesOf[u] # <<>>
  BY UploadAssumption
<1>2. 1 \in DOMAIN FilesOf[u] /\ FilesOf[u][1] \in Files
  BY <1>1
<1>3. <<u, FilesOf[u][1]>> \in FileRows
  BY <1>2 DEF FileRows
<1> QED
  BY <1>3 DEF RowsOfUpload

(* No file is uploaded at first.                                                *)
LEMMA UploadInitial == UploadInit => UploadInv
<1> SUFFICES ASSUME UploadInit PROVE UploadInv
  OBVIOUS
<1>1. UploadTypeOK
  BY DEF UploadInit, UploadTypeOK, NotBegun
<1>2. OriginalsCommitted /\ JobsOfReports /\ AnalyzingHasJob /\ UploadAttended
  BY DEF UploadInit, OriginalsCommitted, JobsOfReports, AnalyzingHasJob, UploadAttended
<1> QED
  BY <1>1, <1>2 DEF UploadInv

(* A step of an open transaction changes only what it knows. *)
LEMMA OpenStep ==
  ASSUME UploadInv, Unchanged,
         upload' \in [Uploaders -> [pc : {"idle", "open", "done", "rolled_back"},
                                   seen : {"unread", "absent"} \cup RowStates,
                                   known : Seq({"original"} \cup RowStates)]]
  PROVE  UploadInv'
<1>1. UploadTypeOK'
  BY DEF UploadInv, UploadTypeOK, Unchanged
<1>2. OriginalsCommitted' /\ JobsOfReports' /\ AnalyzingHasJob'
  BY DEF UploadInv, Unchanged, OriginalsCommitted, JobsOfReports, AnalyzingHasJob, Active
<1>3. UploadAttended'
  BY DEF UploadInv, Unchanged, UploadAttended, Active, Exempt
<1> QED
  BY <1>1, <1>2, <1>3 DEF UploadInv

(* The original of a file has a status.                                         *)
LEMMA OriginalsStatus ==
  ASSUME UploadInv, NEW f \in Files, original[f] # {}
  PROVE  StatusOfOriginal(f) \in RowStates
<1>1. (CHOOSE u \in original[f] : TRUE) \in original[f]
  OBVIOUS
<1>2. PICK u : u = CHOOSE v \in original[f] : TRUE
  OBVIOUS
<1>3. <<u, f>> \in FileRows /\ status[<<u, f>>] # "none"
  BY <1>1, <1>2 DEF UploadInv, OriginalsCommitted
<1>4. status[<<u, f>>] \in RowStates
  BY <1>3 DEF UploadInv, UploadTypeOK
<1> QED
  BY <1>2, <1>4 DEF StatusOfOriginal

(* A request that is registering is at one of its files.                        *)
LEMMA CurrentFile ==
  ASSUME UploadInv, NEW u \in Uploaders, Registering(u)
  PROVE  Current(u) \in Files
<1>1. FilesOf[u] \in Seq(Files) /\ upload[u].known \in Seq({"original"} \cup RowStates)
  BY UploadAssumption DEF UploadInv, UploadTypeOK
<1>2. Len(upload[u].known) + 1 \in 1..Len(FilesOf[u])
  BY <1>1 DEF Registering
<1> QED
  BY <1>1, <1>2 DEF Current

(* Before its commit a request changes nothing that others see.                 *)
LEMMA RequestKeeps ==
  ASSUME UploadInv, NEW u \in Uploaders,
         Begin(u) \/ FindByDigest(u) \/ InsertOriginal(u) \/ ReferToSeen(u) \/ LoseTheRace(u)
           \/ DeadlockVictim(u)
  PROVE  UploadInv'
<1>1. Unchanged
  BY DEF Begin, FindByDigest, InsertOriginal, ReferToSeen, LoseTheRace, DeadlockVictim
<1>2. upload[u] \in [pc : {"idle", "open", "done", "rolled_back"},
                    seen : {"unread", "absent"} \cup RowStates,
                    known : Seq({"original"} \cup RowStates)]
  BY DEF UploadInv, UploadTypeOK
<1>3. ASSUME NEW entry \in {"original"} \cup RowStates, Registered(u, entry)
      PROVE  UploadInv'
  <2>1. Append(upload[u].known, entry) \in Seq({"original"} \cup RowStates)
    BY <1>2, <1>3
  <2> QED
    BY <1>1, <1>2, <1>3, <2>1, OpenStep DEF Registered, UploadInv, UploadTypeOK
<1>4. \A seen : Reference(seen) \in RowStates
  BY DEF Reference, RowStates, Verdicts
<1>5. CASE Begin(u)
  BY <1>1, <1>2, <1>5, OpenStep DEF Begin, UploadInv, UploadTypeOK
<1>6. CASE FindByDigest(u)
  <2>1. Current(u) \in Files
    BY <1>6, CurrentFile DEF FindByDigest
  <2>2. PICK seen \in {"absent"} \cup RowStates : upload' = [upload EXCEPT ![u].seen = seen]
    BY <1>6, <2>1, OriginalsStatus DEF FindByDigest
  <2> QED
    BY <1>1, <1>2, <2>2, OpenStep DEF UploadInv, UploadTypeOK
<1>7. CASE InsertOriginal(u)
  BY <1>3, <1>7 DEF InsertOriginal
<1>8. CASE ReferToSeen(u)
  BY <1>3, <1>4, <1>8 DEF ReferToSeen
<1>9. CASE LoseTheRace(u)
  BY <1>3, <1>4, <1>9 DEF LoseTheRace
<1>10. CASE DeadlockVictim(u)
  <2>1. [NotBegun EXCEPT !.pc = "rolled_back"] \in
           [pc : {"idle", "open", "done", "rolled_back"},
            seen : {"unread", "absent"} \cup RowStates,
            known : Seq({"original"} \cup RowStates)]
    <3>1. <<>> \in Seq({"original"} \cup RowStates)
      OBVIOUS
    <3>2. [NotBegun EXCEPT !.pc = "rolled_back"]
             = [pc |-> "rolled_back", seen |-> "unread", known |-> <<>>]
      BY DEF NotBegun
    <3> QED
      BY <3>1, <3>2
  <2> QED
    BY <1>1, <1>10, <2>1, OpenStep DEF DeadlockVictim, UploadInv, UploadTypeOK
<1> QED
  BY <1>5, <1>6, <1>7, <1>8, <1>9, <1>10

(* The commit of a request gives every one of its reports a job. *)
LEMMA CommitUploadKeeps ==
  ASSUME UploadInv, NEW u \in Uploaders, CommitUpload(u)
  PROVE  UploadInv'
<1> USE DEF UploadInv
<1>1. /\ original' = [f \in Files |-> IF <<u, f>> \in FileRows /\ IsOriginal(u, f)
                                      THEN {u} ELSE original[f]]
      /\ analyzeJob' = [k \in FileRows |-> IF k \in RowsToAnalyze(u) THEN "queued"
                                          ELSE analyzeJob[k]]
      /\ batch' = [batch EXCEPT ![u] = "analyzing"]
      /\ analysis' = analysis /\ deaths' = deaths
      /\ upload' = [upload EXCEPT ![u].pc = "done"]
  BY DEF CommitUpload
<1>2. \A k \in FileRows :
        /\ k[1] # u => status'[k] = status[k] /\ analyzeJob'[k] = analyzeJob[k]
        /\ k[1] = u => status'[k] \in {"complete", "analyzing"} /\ analyzeJob'[k] = "queued"
        /\ Active(k) => Active(k)'
  BY <1>1 DEF CommitUpload, RowsToAnalyze, RowsOfUpload, Active
<1>3. UploadTypeOK'
  <2>1. upload' \in [Uploaders -> [pc : {"idle", "open", "done", "rolled_back"},
                                   seen : {"unread", "absent"} \cup RowStates,
                                   known : Seq({"original"} \cup RowStates)]]
    BY <1>1 DEF UploadTypeOK
  <2>2. original' \in [Files -> {{}} \cup {{v} : v \in Uploaders}]
    BY <1>1 DEF UploadTypeOK
  <2>3. status' \in [FileRows -> RowStates \cup {"none"}]
    BY <1>2 DEF CommitUpload, UploadTypeOK, RowStates, Verdicts
  <2>4. /\ analyzeJob' \in [FileRows -> {"none", "queued", "running", "settled", "dead"}]
        /\ batch' \in [Uploaders -> RowStates \cup {"none", "failed"}]
    BY <1>1 DEF UploadTypeOK, RowStates
  <2> QED
    BY <1>1, <2>1, <2>2, <2>3, <2>4 DEF UploadTypeOK
<1>4. OriginalsCommitted'
  <2> SUFFICES ASSUME NEW f \in Files, NEW v \in original'[f]
               PROVE  <<v, f>> \in FileRows /\ status'[<<v, f>>] # "none"
    BY DEF OriginalsCommitted
  <2>1. (v = u /\ <<u, f>> \in FileRows) \/ v \in original[f]
    BY <1>1
  <2>2. <<v, f>> \in FileRows /\ (v = u \/ status[<<v, f>>] # "none")
    BY <2>1 DEF OriginalsCommitted
  <2> QED
    BY <1>2, <2>2
<1>5. JobsOfReports' /\ AnalyzingHasJob'
  BY <1>1, <1>2 DEF JobsOfReports, AnalyzingHasJob, Active
<1>6. UploadAttended'
  <2>1. ASSUME NEW k \in FileRows, status'[k] # "none", k[2] \notin {d[2] : d \in deaths}
        PROVE  \/ status'[k] = analysis[k[2]]
               \/ \E other \in FileRows : other[2] = k[2] /\ Active(other)'
    <3>1. CASE k[1] = u
      BY <1>2, <3>1 DEF Active
    <3>2. CASE k[1] # u
      BY <1>2, <2>1, <3>2 DEF UploadAttended
    <3> QED
      BY <3>1, <3>2
  <2>2. ASSUME NEW v \in Uploaders, batch'[v] = "analyzing"
        PROVE  Exempt(v)' \/ \E k \in RowsOfUpload(v) : Active(k)'
    <3>1. CASE v = u
      BY <1>2, <3>1, EveryUploadHasAFile DEF RowsOfUpload, Active
    <3>2. CASE v # u
      <4>1. Exempt(v) \/ \E k \in RowsOfUpload(v) : Active(k)
        BY <1>1, <2>2, <3>2 DEF UploadAttended
      <4> QED
        BY <1>1, <1>2, <4>1 DEF Exempt, RowsOfUpload
    <3> QED
      BY <3>1, <3>2
  <2> QED
    BY <1>1, <2>1, <2>2 DEF UploadAttended, RowsOfUpload
<1> QED
  BY <1>3, <1>4, <1>5, <1>6

(* A job taken or deferred is still to come. *)
LEMMA TakeDeferKeeps ==
  ASSUME UploadInv, NEW k \in FileRows, TakeJob(k) \/ Defer(k)
  PROVE  UploadInv'
<1> USE DEF UploadInv
<1>1. /\ upload' = upload /\ original' = original /\ status' = status
      /\ batch' = batch /\ deaths' = deaths
      /\ analyzeJob[k] \in {"queued", "running"}
      /\ \E task \in {"queued", "running"} : analyzeJob' = [analyzeJob EXCEPT ![k] = task]
  BY DEF TakeJob, Defer
<1>2. \A j \in FileRows : (Active(j)' <=> Active(j)) /\ (analyzeJob'[j] # "none" => analyzeJob[j] # "none")
  BY <1>1 DEF Active, UploadTypeOK
<1>3. \A f \in Files : f # k[2] => analysis'[f] = analysis[f]
  BY DEF TakeJob, Defer, UploadTypeOK
<1>4. analysis' \in [Files -> RowStates \cup {"none"}]
  BY DEF TakeJob, Defer, UploadTypeOK, RowStates, Verdicts
<1>5. UploadTypeOK'
  BY <1>1, <1>4 DEF UploadTypeOK
<1>6. OriginalsCommitted' /\ JobsOfReports' /\ AnalyzingHasJob'
  BY <1>1, <1>2 DEF OriginalsCommitted, JobsOfReports, AnalyzingHasJob
<1>7. UploadAttended'
  <2>1. ASSUME NEW j \in FileRows, status[j] # "none", j[2] \notin {d[2] : d \in deaths}
        PROVE  \/ status[j] = analysis'[j[2]]
               \/ \E other \in FileRows : other[2] = j[2] /\ Active(other)'
    <3>1. CASE j[2] = k[2]
      BY <1>1, <1>2, <3>1 DEF Active
    <3>2. CASE j[2] # k[2]
      BY <1>2, <1>3, <2>1, <3>2, FileRowsAre DEF UploadAttended
    <3> QED
      BY <3>1, <3>2
  <2>2. ASSUME NEW v \in Uploaders, batch[v] = "analyzing"
        PROVE  Exempt(v) \/ \E j \in RowsOfUpload(v) : Active(j)'
    BY <1>2, <2>2 DEF UploadAttended, RowsOfUpload
  <2> QED
    BY <1>1, <2>1, <2>2 DEF UploadAttended, RowsOfUpload, Exempt
<1> QED
  BY <1>5, <1>6, <1>7

(* A job that used up its attempts exempts every batch that has its file. *)
LEMMA DeathKeeps ==
  ASSUME UploadInv, NEW k \in FileRows, JobDies(k)
  PROVE  UploadInv'
<1> USE DEF UploadInv
<1>1. /\ upload' = upload /\ original' = original /\ status' = status /\ analysis' = analysis
      /\ batch' = [batch EXCEPT ![k[1]] = "failed"] /\ deaths' = deaths \cup {k}
      /\ analyzeJob[k] = "running" /\ analyzeJob' = [analyzeJob EXCEPT ![k] = "dead"]
  BY DEF JobDies
<1>2. \A j \in FileRows :
        /\ j # k => (Active(j)' <=> Active(j)) /\ analyzeJob'[j] = analyzeJob[j]
        /\ analyzeJob'[j] # "none" => analyzeJob[j] # "none"
  BY <1>1 DEF Active, UploadTypeOK
<1>3. UploadTypeOK'
  BY <1>1, FileRowsAre DEF UploadTypeOK
<1>4. OriginalsCommitted' /\ JobsOfReports' /\ AnalyzingHasJob'
  BY <1>1, <1>2 DEF OriginalsCommitted, JobsOfReports, AnalyzingHasJob
<1>5. UploadAttended'
  <2>1. ASSUME NEW j \in FileRows, status[j] # "none", j[2] \notin {d[2] : d \in deaths'}
        PROVE  \/ status[j] = analysis[j[2]]
               \/ \E other \in FileRows : other[2] = j[2] /\ Active(other)'
    <3>1. j[2] # k[2] /\ j[2] \notin {d[2] : d \in deaths}
      BY <1>1, <2>1
    <3>2. \/ status[j] = analysis[j[2]]
          \/ \E other \in FileRows : other[2] = j[2] /\ Active(other)
      BY <2>1, <3>1 DEF UploadAttended
    <3> QED
      BY <1>2, <3>1, <3>2
  <2>2. ASSUME NEW v \in Uploaders, batch'[v] = "analyzing"
        PROVE  Exempt(v)' \/ \E j \in RowsOfUpload(v) : Active(j)'
    <3>1. v # k[1] /\ batch[v] = "analyzing"
      BY <1>1, <2>2, FileRowsAre DEF UploadTypeOK
    <3>2. Exempt(v) \/ \E j \in RowsOfUpload(v) : Active(j)
      BY <2>2, <3>1 DEF UploadAttended
    <3>3. Exempt(v) => Exempt(v)'
      BY <1>1 DEF Exempt
    <3>4. \A j \in RowsOfUpload(v) : j \in FileRows /\ j # k
      BY <3>1 DEF RowsOfUpload
    <3> QED
      BY <1>2, <3>2, <3>3, <3>4
  <2> QED
    BY <1>1, <2>1, <2>2 DEF UploadAttended, RowsOfUpload
<1> QED
  BY <1>3, <1>4, <1>5

(* A verdict is written to every report of the file, and their batches follow. *)
LEMMA ConcludeKeeps ==
  ASSUME UploadInv, NEW k \in FileRows, NEW verdict \in Verdicts, Conclude(k, verdict)
  PROVE  UploadInv'
<1> USE DEF UploadInv
<1>f. PICK f : f = k[2] /\ f \in Files
  BY FileRowsAre
<1>a. PICK after : after = [j \in FileRows |-> IF j[2] = f /\ status[j] # "none"
                                             THEN verdict ELSE status[j]]
  OBVIOUS
<1>1. /\ upload' = upload /\ original' = original /\ deaths' = deaths
      /\ analysis' = [analysis EXCEPT ![f] = verdict]
      /\ status' = after
      /\ batch' = [u \in Uploaders |->
              IF <<u, f>> \in FileRows /\ status[<<u, f>>] # "none"
              THEN BatchOf({after[j] : j \in RowsOfUpload(u)}) ELSE batch[u]]
      /\ analyzeJob[k] = "running" /\ analyzeJob' = [analyzeJob EXCEPT ![k] = "settled"]
  BY <1>f, <1>a DEF Conclude, SetStatusOf
<1>2. \A j \in FileRows :
        /\ status'[j] = IF j[2] = f /\ status[j] # "none" THEN verdict ELSE status[j]
        /\ j # k => (Active(j)' <=> Active(j)) /\ analyzeJob'[j] = analyzeJob[j]
        /\ analyzeJob'[j] # "none" => analyzeJob[j] # "none"
        /\ (status'[j] # "none") <=> (status[j] # "none")
  BY <1>1, <1>a DEF Active, UploadTypeOK, Verdicts
<1>3. status[k] # "none" /\ k = <<k[1], f>>
  BY <1>1, <1>f, FileRowsAre DEF JobsOfReports
<1>4. UploadTypeOK'
  <2>1. status' \in [FileRows -> RowStates \cup {"none"}]
    BY <1>1, <1>a DEF UploadTypeOK, RowStates
  <2>2. \A rows : BatchOf(rows) \in RowStates
    BY DEF BatchOf, RowStates, Verdicts
  <2>3. batch' \in [Uploaders -> RowStates \cup {"none", "failed"}]
    BY <1>1, <2>2 DEF UploadTypeOK
  <2>4. analysis' \in [Files -> RowStates \cup {"none"}]
    BY <1>1, <1>f DEF UploadTypeOK, RowStates
  <2>5. analyzeJob' \in [FileRows -> {"none", "queued", "running", "settled", "dead"}]
    BY <1>1 DEF UploadTypeOK
  <2> QED
    BY <1>1, <2>1, <2>3, <2>4, <2>5 DEF UploadTypeOK
<1>5. OriginalsCommitted'
  BY <1>1, <1>2 DEF OriginalsCommitted
<1>6. JobsOfReports'
  BY <1>2 DEF JobsOfReports
<1>7. AnalyzingHasJob'
  <2>1. ASSUME NEW j \in FileRows, status'[j] = "analyzing" PROVE j # k /\ status[j] = "analyzing"
    BY <1>2, <1>3, <1>f, <2>1 DEF Verdicts
  <2> QED
    BY <1>1, <1>2, <2>1 DEF AnalyzingHasJob
<1>8. ASSUME NEW j \in FileRows, status'[j] # "none", j[2] \notin {d[2] : d \in deaths}
      PROVE  \/ status'[j] = analysis'[j[2]]
             \/ \E other \in FileRows : other[2] = j[2] /\ Active(other)'
  <2>1. CASE j[2] = f
    BY <1>1, <1>2, <1>8, <1>f, <2>1 DEF UploadTypeOK
  <2>2. CASE j[2] # f
    <3>1. analysis'[j[2]] = analysis[j[2]] /\ status'[j] = status[j]
      BY <1>1, <1>2, <2>2, FileRowsAre DEF UploadTypeOK
    <3>2. \/ status[j] = analysis[j[2]]
          \/ \E other \in FileRows : other[2] = j[2] /\ Active(other)
      BY <1>2, <1>8 DEF UploadAttended
    <3> QED
      BY <1>2, <1>f, <2>2, <3>1, <3>2
  <2> QED
    BY <2>1, <2>2
<1>9. ASSUME NEW u \in Uploaders, batch'[u] = "analyzing"
      PROVE  Exempt(u) \/ \E j \in RowsOfUpload(u) : Active(j)'
  <2>1. CASE <<u, f>> \in FileRows /\ status[<<u, f>>] # "none"
    <3>1. "analyzing" \in {after[j] : j \in RowsOfUpload(u)}
      BY <1>1, <1>9, <2>1 DEF BatchOf
    <3>2. PICK j \in RowsOfUpload(u) : status'[j] = "analyzing"
      BY <1>1, <3>1
    <3>3. j \in FileRows /\ j[1] = u
      BY DEF RowsOfUpload
    <3>4. Active(j)' \/ j \in deaths
      BY <1>1, <1>7, <3>2, <3>3 DEF AnalyzingHasJob
    <3>5. j \in deaths => Exempt(u)
      BY <3>3, FileRowsAre DEF Exempt
    <3> QED
      BY <3>4, <3>5
  <2>2. CASE ~(<<u, f>> \in FileRows /\ status[<<u, f>>] # "none")
    <3>1. batch[u] = "analyzing"
      BY <1>1, <1>9, <2>2
    <3>2. u # k[1]
      BY <1>3, <2>2
    <3>3. \A j \in RowsOfUpload(u) : j \in FileRows /\ j # k
      BY <3>2 DEF RowsOfUpload
    <3> QED
      BY <1>2, <3>1, <3>3 DEF UploadAttended
  <2> QED
    BY <2>1, <2>2
<1>10. UploadAttended'
  BY <1>1, <1>8, <1>9 DEF UploadAttended, RowsOfUpload, Exempt
<1> QED
  BY <1>4, <1>5, <1>6, <1>7, <1>10

(* The invariant holds throughout.                                              *)
LEMMA UploadInvariant == UploadSpec => []UploadInv
<1>1. UploadInv /\ UNCHANGED uploadVars => UploadInv'
  BY DEF uploadVars, UploadInv, UploadTypeOK, OriginalsCommitted, JobsOfReports,
     AnalyzingHasJob, UploadAttended, Active, Exempt
<1>2. UploadInv /\ UploadNext => UploadInv'
  BY RequestKeeps, CommitUploadKeeps, TakeDeferKeeps, DeathKeeps, ConcludeKeeps DEF UploadNext
<1> QED
  BY <1>1, <1>2, UploadInitial, PTL DEF UploadSpec

(* No report shows a verdict that is not its file's, and no batch waits, for a *)
(* file whose jobs are over (register_pdf, upload, _set_status).              *)
THEOREM UploadsAreAttended == UploadSpec => []UploadAttended
<1>1. UploadInv => UploadAttended
  BY DEF UploadInv
<1> QED
  BY <1>1, UploadInvariant, PTL

(*****************************************************************************)
(* FlagLedger, for any issues, fingerprints and bounds.                      *)
(*****************************************************************************)

(* The phases of the jobs and what they have read. *)
JobsTyped == /\ job \in [JobKeys -> JobPhases]
             /\ saw \in [JobKeys -> [facts : Nat, findings : Findings]]
             /\ facts \in Nat /\ failures \in Nat
             /\ findings \in Findings
             /\ rankJob \in {"none", "queued", "ranked"}

Recomputing(k) == job[k] \in {"reading", "syncing"}

(* The advisory lock admits one job between its reading and its commit. *)
OneReader == \A j, k \in JobKeys : Recomputing(j) /\ Recomputing(k) => j = k

(* A job that is about to store results of old facts has a successor, unless  *)
(* the request for one was lost.                                             *)
OldReadingFollowed ==
    \A k \in JobKeys : Recomputing(k) /\ saw[k].facts # facts =>
        lost \/ \E j \in JobKeys : job[j] = "queued"

LedgerInv == /\ JobsTyped /\ OneReader /\ OldReadingFollowed
             /\ ResultsFollowFacts /\ RankFollowsResults

(* Nothing is found at first.                                                   *)
LEMMA LedgerInitial == LedgerInit => LedgerInv
<1> SUFFICES ASSUME LedgerInit PROVE LedgerInv
  OBVIOUS
<1>1. NothingFound \in Findings
  BY DEF NothingFound, Findings
<1>2. JobsTyped
  BY <1>1, LedgerAssumption DEF LedgerInit, JobsTyped, JobPhases, NothingSeen
<1> QED
  BY <1>2 DEF LedgerInit, LedgerInv, OneReader, OldReadingFollowed, Recomputing,
              ResultsFollowFacts, RankFollowsResults

------------------------------------------------------------------------------
(* An enqueue leaves a queued job, or says that the request is lost. *)
LEMMA Enqueued ==
  ASSUME JobsTyped, NEW k \in JobKeys, Enqueue(k)
  PROVE  /\ job' \in [JobKeys -> JobPhases]
         /\ job'[k] = "queued" \/ lost'
         /\ job'[k] # "none"
         /\ \A j \in JobKeys : Recomputing(j)' <=> Recomputing(j)
         /\ \A j \in JobKeys : job[j] = "queued" => job'[j] = "queued"
         /\ \A j \in JobKeys : job[j] # "none" => job'[j] # "none"
         /\ lost => lost'
  BY DEF JobsTyped, JobPhases, Enqueue, PastReading, Recomputing

(* What changes facts or flags asks for a recompute, or loses the request.      *)
LEMMA RequestStep ==
  ASSUME LedgerInv,
         \/ AddFact
         \/ \E k \in JobKeys : RequestRecompute(k)
         \/ \E n \in 1..Len(ledger) : ResolveFlag(n)
  PROVE  LedgerInv'
<1> USE DEF LedgerInv
<1>1. CASE AddFact
  <2>1. "recompute" \in JobKeys /\ Enqueue("recompute")
    BY <1>1 DEF JobKeys, AddFact
  <2>2. JobsTyped'
    BY <1>1, <2>1, Enqueued DEF AddFact, JobsTyped
  <2>3. OneReader'
    BY <1>1, <2>1, Enqueued DEF AddFact, OneReader
  <2>4. lost' \/ \E j \in JobKeys : job'[j] = "queued"
    BY <2>1, Enqueued
  <2>5. RankFollowsResults'
    BY <1>1, <2>1, Enqueued DEF AddFact, RankFollowsResults
  <2> QED
    BY <2>2, <2>3, <2>4, <2>5 DEF OldReadingFollowed, ResultsFollowFacts
<1>2. ASSUME NEW k \in JobKeys, Enqueue(k),
             UNCHANGED <<facts, findings, saw, computed, ranked, rankJob, rankLost, failures>>
      PROVE  LedgerInv'
  <2>1. JobsTyped' /\ OneReader'
    BY <1>2, Enqueued DEF JobsTyped, OneReader
  <2>2. OldReadingFollowed'
    BY <1>2, Enqueued DEF OldReadingFollowed
  <2>3. ResultsFollowFacts'
    BY <1>2, Enqueued DEF ResultsFollowFacts, Recomputing
  <2>4. RankFollowsResults'
    BY <1>2, Enqueued DEF RankFollowsResults
  <2> QED
    BY <2>1, <2>2, <2>3, <2>4
<1>3. ASSUME NEW k \in JobKeys, RequestRecompute(k) PROVE LedgerInv'
  BY <1>2, <1>3 DEF RequestRecompute
<1>4. ASSUME NEW n \in 1..Len(ledger), ResolveFlag(n) PROVE LedgerInv'
  <2>1. "recompute" \in JobKeys
    BY DEF JobKeys
  <2> QED
    BY <1>2, <1>4, <2>1 DEF ResolveFlag
<1> QED
  BY <1>1, <1>3, <1>4

(* A recompute's own steps. *)
LEMMA JobStep ==
  ASSUME LedgerInv, NEW k \in JobKeys,
         \/ ReadFacts(k) \/ ReadFlags(k) \/ Save(k)
         \/ EnqueueRank(k) \/ Retry(k) \/ Die(k)
  PROVE  LedgerInv'
<1> USE DEF LedgerInv
<1>0. NothingSeen \in [facts : Nat, findings : Findings]
  BY DEF NothingSeen, NothingFound, Findings
<1>1. CASE ReadFacts(k)
  <2>1. JobsTyped'
    BY <1>1 DEF ReadFacts, Advance, JobsTyped, JobPhases
  <2>2. \A j \in JobKeys : Recomputing(j)' => j = k
    BY <1>1 DEF ReadFacts, Advance, LockFree, Recomputing, JobsTyped
  <2>3. job'[k] = "reading" /\ saw'[k].facts = facts'
    BY <1>1 DEF ReadFacts, Advance, JobsTyped
  <2>4. RankFollowsResults'
    BY <1>1, <2>3 DEF ReadFacts, RankFollowsResults
  <2> QED
    BY <2>1, <2>2, <2>3, <2>4 DEF OneReader, OldReadingFollowed, ResultsFollowFacts
<1>2. CASE ReadFlags(k)
  BY <1>2 DEF ReadFlags, Advance, JobsTyped, JobPhases, OneReader, Recomputing,
              OldReadingFollowed, ResultsFollowFacts, RankFollowsResults
<1>3. CASE Save(k)
  <2>1. /\ job[k] = "syncing" /\ job' = [job EXCEPT ![k] = "saved"]
        /\ saw' = [saw EXCEPT ![k] = NothingSeen]
        /\ computed' = saw[k].facts
        /\ UNCHANGED <<facts, findings, lost, rankLost, rankJob, ranked, failures>>
    BY <1>3 DEF Save, Advance, Forget
  <2>2. JobsTyped'
    BY <1>0, <2>1 DEF JobsTyped, JobPhases
  <2>3. \A j \in JobKeys : ~Recomputing(j)'
    BY <2>1 DEF JobsTyped, OneReader, Recomputing
  <2>4. computed' # facts => lost \/ \E j \in JobKeys : job'[j] = "queued"
    BY <2>1 DEF OldReadingFollowed, Recomputing, JobsTyped
  <2>5. job'[k] # "none"
    BY <2>1 DEF JobsTyped
  <2> QED
    BY <2>1, <2>2, <2>3, <2>4, <2>5
       DEF OneReader, OldReadingFollowed, ResultsFollowFacts, RankFollowsResults
<1>4. CASE EnqueueRank(k)
  <2>1. /\ job[k] = "saved" /\ job' = [job EXCEPT ![k] = "none"]
        /\ UNCHANGED <<facts, findings, saw, computed, lost, ranked, failures>>
    BY <1>4 DEF EnqueueRank, Advance
  <2>2. rankJob' \in {"none", "queued", "ranked"} /\ (rankJob' = "queued" \/ rankLost')
    <3>1. CASE rankJob = "none"
      BY <1>4, <3>1 DEF EnqueueRank
    <3>2. CASE rankJob = "queued"
      BY <1>4, <3>2 DEF EnqueueRank
    <3>3. CASE rankJob = "ranked"
      BY <1>4, <3>3 DEF EnqueueRank
    <3> QED
      BY <3>1, <3>2, <3>3 DEF JobsTyped
  <2>3. JobsTyped' /\ OneReader' /\ OldReadingFollowed' /\ ResultsFollowFacts'
    BY <2>1, <2>2 DEF JobsTyped, JobPhases, OneReader, OldReadingFollowed, Recomputing,
                      ResultsFollowFacts
  <2> QED
    BY <2>2, <2>3 DEF RankFollowsResults
<1>5. CASE Retry(k) \/ Die(k)
  <2>1. /\ saw' = [saw EXCEPT ![k] = NothingSeen]
        /\ failures' = failures + 1
        /\ UNCHANGED <<facts, findings, computed, rankJob, ranked>>
        /\ job[k] # "none"
    BY <1>5 DEF Retry, Die, Fail, Forget, PastReading
  <2>2. \/ job' = [job EXCEPT ![k] = "queued"] /\ UNCHANGED <<lost, rankLost>>
        \/ /\ job' = [job EXCEPT ![k] = "none"] /\ rankLost'
           /\ lost' = (lost \/ job[k] # "saved")
    BY <1>5 DEF Retry, Die, Fail, Advance
  <2>3. JobsTyped'
    BY <1>0, <2>1, <2>2 DEF JobsTyped, JobPhases
  <2>4. OneReader'
    BY <2>2 DEF JobsTyped, OneReader, Recomputing
  <2>5. OldReadingFollowed' /\ ResultsFollowFacts'
    BY <2>1, <2>2 DEF JobsTyped, OldReadingFollowed, ResultsFollowFacts, Recomputing
  <2>6. RankFollowsResults'
    BY <2>1, <2>2 DEF JobsTyped, RankFollowsResults
  <2> QED
    BY <2>3, <2>4, <2>5, <2>6
<1> QED
  BY <1>1, <1>2, <1>3, <1>4, <1>5

(* What touches neither facts nor jobs. *)
LEMMA OtherStep ==
  ASSUME LedgerInv,
         \/ \E n \in 1..Len(ledger) : ReadOpenFlag(n)
         \/ RaiseConflict \/ ArchiveProperty \/ RestoreProperty \/ Rank \/ RankEnds
         \/ UNCHANGED ledgerVars
  PROVE  LedgerInv'
<1>1. UNCHANGED <<facts, findings, job, saw, computed, lost, failures>>
  BY DEF ReadOpenFlag, RaiseConflict, ArchiveProperty, RestoreProperty, SetArchivedAt, Rank,
         RankEnds, ledgerVars
<1>2. \/ UNCHANGED <<ranked, rankLost, rankJob>>
      \/ ranked' = computed
      \/ UNCHANGED <<ranked, rankLost>> /\ rankJob # "queued"
  BY DEF ReadOpenFlag, RaiseConflict, ArchiveProperty, RestoreProperty, SetArchivedAt, Rank,
         RankEnds, ledgerVars
<1>3. rankJob' \in {"none", "queued", "ranked"}
  BY DEF LedgerInv, JobsTyped, ReadOpenFlag, RaiseConflict, ArchiveProperty, RestoreProperty,
         SetArchivedAt, Rank, RankEnds, ledgerVars
<1>4. JobsTyped' /\ OneReader' /\ OldReadingFollowed' /\ ResultsFollowFacts'
  BY <1>1, <1>3 DEF LedgerInv, JobsTyped, OneReader, Recomputing, OldReadingFollowed,
                    ResultsFollowFacts
<1>5. RankFollowsResults'
  BY <1>1, <1>2 DEF LedgerInv, RankFollowsResults
<1> QED
  BY <1>4, <1>5 DEF LedgerInv

(* The invariant holds throughout.                                              *)
LEMMA LedgerInvariant == LedgerSpec => []LedgerInv
<1>1. LedgerInv /\ [LedgerNext]_ledgerVars => LedgerInv'
  BY RequestStep, JobStep, OtherStep DEF LedgerNext
<1> QED
  BY <1>1, LedgerInitial, PTL DEF LedgerSpec

(* Stored results are those of the present facts and the newest ranking is     *)
(* that of the stored results, or work that will make them so is on its way,  *)
(* unless a request coalesced into a job past its reading or a job died        *)
(* (Pipeline.recompute, ENQUEUE_SQL, rank_scope).                             *)
THEOREM StaleResultsAreAnnounced == LedgerSpec => []StaleOnlyIfLost
<1>1. LedgerInv => StaleOnlyIfLost
  BY DEF LedgerInv, StaleOnlyIfLost
<1> QED
  BY <1>1, LedgerInvariant, PTL

------------------------------------------------------------------------------
(* The flags themselves, and what the jobs have read of them. *)
LedgerRows == ledger \in Seq(FlagRows) /\ before \in [JobKeys -> Seq(FlagRows)]

(* A row that sync_flags rewrites is a row.                                     *)
LEMMA SyncedIsRow ==
  ASSUME NEW l \in Seq(FlagRows), NEW found \in Findings, NEW chosen, NEW n \in 1..Len(l)
  PROVE  Synced(l, found, chosen, n) \in FlagRows
<1>1. l[n] \in FlagRows
  OBVIOUS
<1> DEFINE p == IF l[n].issue = Conflict THEN Absent ELSE found[l[n].issue]
<1>2. p \in Prints \cup {Absent}
  BY <1>1 DEF FlagRows, Findings
<1>3. CASE l[n].status = "open" /\ p = Absent
  BY <1>1, <1>3 DEF Synced, FlagRows
<1>4. CASE l[n].status = "open" /\ p # Absent
  BY <1>1, <1>2, <1>4 DEF Synced, FlagRows
<1>5. CASE l[n].status # "open" /\ p # Absent /\ chosen[l[n].issue] = n
  BY <1>1, <1>5 DEF Synced, FlagRows
<1>6. CASE /\ l[n].status # "open"
           /\ ~(p # Absent /\ chosen[l[n].issue] = n)
  BY <1>1, <1>6 DEF Synced
<1> QED
  BY <1>3, <1>4, <1>5, <1>6

(* The rewritten ledger is a ledger of the same length.                         *)
LEMMA RewrittenIsLedger ==
  ASSUME LedgerRows, NEW l \in Seq(FlagRows), NEW found \in Findings, NEW chosen
  PROVE  /\ Rewritten(l, found, chosen) \in Seq(FlagRows)
         /\ Len(Rewritten(l, found, chosen)) = Len(ledger)
<1> DEFINE rows == Rewritten(l, found, chosen)
<1>1. ledger \in Seq(FlagRows) /\ Len(ledger) \in Nat
  BY DEF LedgerRows
<1>2. ASSUME NEW n \in 1..Len(ledger) PROVE rows[n] \in FlagRows
  <2>1. ledger[n] \in FlagRows
    BY <1>1
  <2>2. CASE n > Len(l)
    BY <2>1, <2>2 DEF Rewritten
  <2>3. CASE ~(n > Len(l))
    <3>1. n \in 1..Len(l)
      BY <2>3
    <3>2. Synced(l, found, chosen, n) \in FlagRows
      BY <3>1, SyncedIsRow
    <3> QED
      BY <2>1, <2>3, <3>2 DEF Rewritten, Column, FlagRows
  <2> QED
    BY <2>2, <2>3
<1>3. rows = [n \in 1..Len(ledger) |-> rows[n]]
  BY DEF Rewritten
<1>4. rows \in [1..Len(ledger) -> FlagRows]
  BY <1>2, <1>3
<1> QED
  BY <1>1, <1>4

(* What sync_flags adds are rows.                                               *)
LEMMA NewFlagsAreRows ==
  ASSUME NEW l \in Seq(FlagRows), NEW found \in Findings,
         NEW s \in NewInOrder(l, found)
  PROVE  [n \in DOMAIN s |-> NewFlag(l, found, s[n])] \in Seq(FlagRows)
<1> DEFINE S == {i \in Issues : IsNew(l, found, i)}
<1>1. IsFiniteSet(S)
  BY LedgerAssumption, FS_Subset
<1>2. Cardinality(S) \in Nat
  BY <1>1, FS_CardinalityType
<1>3. s \in [1..Cardinality(S) -> S]
  BY DEF NewInOrder, InsertOrders
<1>4. ASSUME NEW i \in S PROVE NewFlag(l, found, i) \in FlagRows
  <2>1. found[i] \in Prints
    BY DEF Findings, IsNew
  <2> QED
    BY <2>1 DEF NewFlag, FlagRows
<1>5. [n \in DOMAIN s |-> NewFlag(l, found, s[n])] \in [1..Cardinality(S) -> FlagRows]
  BY <1>3, <1>4
<1>6. \A n \in Nat : \A f \in [1..n -> FlagRows] : f \in Seq(FlagRows)
  OBVIOUS
<1> QED
  BY <1>2, <1>5, <1>6

(* Every step keeps the rows of the ledger and what jobs read of them.          *)
LEMMA RowsKept ==
  ASSUME LedgerInv, LedgerRows, [LedgerNext]_ledgerVars
  PROVE  LedgerRows'
<1>1. <<>> \in Seq(FlagRows)
  OBVIOUS
<1>2. ASSUME NEW k \in JobKeys, Save(k) PROVE LedgerRows'
  <2>2. before[k] \in Seq(FlagRows) /\ saw[k].findings \in Findings
    BY DEF LedgerRows, LedgerInv, JobsTyped
  <2>3. PICK c \in Chosen(before[k], saw[k].findings), s \in NewInOrder(before[k], saw[k].findings) :
          ledger' = SyncedLedger(before[k], saw[k].findings, c, s)
    BY <1>2 DEF Save
  <2>4. ledger' \in Seq(FlagRows)
    BY <2>2, <2>3, RewrittenIsLedger, NewFlagsAreRows, ConcatProperties DEF SyncedLedger
  <2> QED
    BY <1>1, <1>2, <2>4 DEF Save, Forget, LedgerRows
<1>3. ASSUME NEW k \in JobKeys, ReadFlags(k) PROVE LedgerRows'
  BY <1>3 DEF ReadFlags, LedgerRows
<1>4. ASSUME NEW n \in 1..Len(ledger), ResolveFlag(n) PROVE LedgerRows'
  <2>1. ledger[n] \in FlagRows
    BY DEF LedgerRows
  <2>2. [ledger[n] EXCEPT !.status = "human"] \in FlagRows
    BY <2>1 DEF FlagRows
  <2>3. ledger' = [ledger EXCEPT ![n] = [ledger[n] EXCEPT !.status = "human"]] /\ before' = before
    BY <1>4 DEF ResolveFlag
  <2> QED
    BY <2>2, <2>3, ExceptSeq DEF LedgerRows
<1>5. CASE RaiseConflict
  <2>1. [issue |-> Conflict, print |-> Conflict, status |-> "open", key |-> "base"] \in FlagRows
    BY DEF FlagRows
  <2> QED
    BY <1>5, <2>1, AppendProperties DEF RaiseConflict, LedgerRows
<1>6. ASSUME NEW k \in JobKeys, Retry(k) \/ Die(k) PROVE LedgerRows'
  BY <1>1, <1>6 DEF Retry, Die, Fail, Forget, LedgerRows
<1>7. ASSUME UNCHANGED <<ledger, before>> PROVE LedgerRows'
  BY <1>7 DEF LedgerRows
<1> QED
  BY <1>2, <1>3, <1>4, <1>5, <1>6, <1>7
     DEF LedgerNext, ledgerVars, RequestRecompute, ReadFacts, EnqueueRank, AddFact, ReadOpenFlag,
         ArchiveProperty, RestoreProperty, SetArchivedAt, Rank, RankEnds

(* A resolution that sync_flags had read is left alone. *)
LEMMA ReadResolutionKept ==
  ASSUME NEW l \in Seq(FlagRows), NEW found \in Findings, NEW chosen \in Chosen(l, found),
         NEW n \in 1..Len(l), l[n].status = "human"
  PROVE  Synced(l, found, chosen, n) = l[n]
<1>1. l[n] \in FlagRows
  OBVIOUS
<1>2. ASSUME l[n].issue # Conflict, chosen[l[n].issue] = n PROVE FALSE
  <2>1. l[n].issue \in Issues
    BY <1>1, <1>2 DEF FlagRows
  <2>2. n \in ReopenChoice(l, found, l[n].issue)
    BY <1>2, <2>1 DEF Chosen
  <2> QED
    BY <2>2 DEF ReopenChoice, Reopenable
<1> QED
  BY <1>2 DEF Synced

(* "A manually resolved finding stays resolved" (flags/store.py sync_flags): a *)
(* recompute undoes a human's resolution only if it had read the flag before  *)
(* it was made.                                                              *)
THEOREM ResolutionsStay == LedgerSpec => HumanDecisionKept
<1> DEFINE Undoes(n) == ledger[n].status = "human" /\ ledger'[n].status # "human"
           Unaware(n) == \E k \in JobKeys : /\ job[k] = "syncing" /\ n <= Len(before[k])
                                            /\ before[k][n].status # "human"
<1>1. ASSUME LedgerInv, LedgerRows, LedgerNext, NEW n \in 1..Len(ledger), Undoes(n)
      PROVE  Unaware(n)
  <2>1. ASSUME NEW k \in JobKeys, Save(k) PROVE Unaware(n)
    <3>1. before[k] \in Seq(FlagRows) /\ saw[k].findings \in Findings /\ job[k] = "syncing"
      BY <1>1, <2>1 DEF LedgerRows, LedgerInv, JobsTyped, Save
    <3> DEFINE l == before[k]
               found == saw[k].findings
    <3>2. PICK c \in Chosen(l, found), s \in NewInOrder(l, found) :
            ledger' = SyncedLedger(l, found, c, s)
      BY <2>1 DEF Save
    <3>3. ledger'[n] = Rewritten(l, found, c)[n]
      BY <1>1, <3>1, <3>2, RewrittenIsLedger, NewFlagsAreRows, ConcatProperties DEF SyncedLedger
    <3>4. CASE n > Len(l)
      BY <1>1, <3>3, <3>4 DEF Rewritten
    <3>5. CASE ~(n > Len(l))
      <4>1. n \in 1..Len(l) /\ n <= Len(l)
        BY <3>1, <3>5
      <4>2. ledger'[n].status = Column(l[n].status, Synced(l, found, c, n).status, ledger[n].status)
        BY <3>3, <3>5 DEF Rewritten
      <4>3. l[n].status # "human"
        BY <1>1, <3>1, <4>1, <4>2, ReadResolutionKept DEF Column
      <4> QED
        BY <3>1, <4>1, <4>3
    <3> QED
      BY <3>1, <3>4, <3>5
  <2>2. ASSUME NEW m \in 1..Len(ledger), ResolveFlag(m) PROVE FALSE
    <3>1. ledger' = [ledger EXCEPT ![m] = [ledger[m] EXCEPT !.status = "human"]]
      BY <2>2 DEF ResolveFlag
    <3>2. ledger[m] \in FlagRows /\ DOMAIN ledger = 1..Len(ledger)
      BY <1>1 DEF LedgerRows
    <3>3. [ledger[m] EXCEPT !.status = "human"].status = "human"
      BY <3>2 DEF FlagRows
    <3>4. ledger'[n] = IF n = m THEN [ledger[m] EXCEPT !.status = "human"] ELSE ledger[n]
      BY <3>1, <3>2
    <3> QED
      BY <1>1, <3>3, <3>4
  <2>3. ASSUME RaiseConflict PROVE FALSE
    <3>1. ledger'[n] = ledger[n]
      BY <1>1, <2>3, AppendProperties DEF RaiseConflict, LedgerRows
    <3> QED
      BY <1>1, <3>1
  <2>4. ASSUME UNCHANGED ledger PROVE FALSE
    BY <1>1, <2>4
  <2> QED
    BY <1>1, <2>1, <2>2, <2>3, <2>4
       DEF LedgerNext, RequestRecompute, ReadFacts, ReadFlags, EnqueueRank, Retry, Die, Fail,
           AddFact, ReadOpenFlag, ArchiveProperty, RestoreProperty, SetArchivedAt, Rank, RankEnds
<1>2. LedgerInit => LedgerRows
  BY DEF LedgerInit, LedgerRows
<1>3. LedgerSpec => [](LedgerInv /\ LedgerRows)
  <2>1. LedgerInv /\ LedgerRows /\ [LedgerNext]_ledgerVars => LedgerRows'
    BY RowsKept
  <2> QED
    BY <1>2, <2>1, LedgerInvariant, PTL DEF LedgerSpec
<1>4. LedgerInv /\ LedgerRows /\ [LedgerNext]_ledgerVars =>
        [\A n \in 1..Len(ledger) : Undoes(n) => Unaware(n)]_ledgerVars
  BY <1>1
<1> QED
  BY <1>3, <1>4, PTL DEF LedgerSpec, HumanDecisionKept

------------------------------------------------------------------------------
(* The bounds of the counters, which the types leave open. *)
LedgerBounded ==
    /\ facts + failures <= MaxEvents
    /\ computed \in Nat /\ computed <= facts
    /\ ranked \in Nat /\ ranked <= facts
    /\ \A k \in JobKeys : saw[k].facts <= facts
    /\ archived \in BOOLEAN /\ lost \in BOOLEAN /\ rankLost \in BOOLEAN
    /\ resolving \subseteq Nat

(* The ledger is empty at first.                                                *)
LEMMA LedgerInitBounded == LedgerInit => LedgerBounded
<1> SUFFICES ASSUME LedgerInit PROVE LedgerBounded
  OBVIOUS
<1>1. \A k \in JobKeys : saw[k].facts = 0
  BY DEF LedgerInit, NothingSeen
<1>2. MaxEvents \in Nat
  BY LedgerAssumption
<1>3. /\ facts + failures <= MaxEvents /\ computed \in Nat /\ computed <= facts
      /\ ranked \in Nat /\ ranked <= facts /\ \A k \in JobKeys : saw[k].facts <= facts
  BY <1>1, <1>2 DEF LedgerInit
<1>4. archived \in BOOLEAN /\ lost \in BOOLEAN /\ rankLost \in BOOLEAN /\ resolving \subseteq Nat
  BY DEF LedgerInit
<1> QED
  BY <1>3, <1>4 DEF LedgerBounded

(* Every step keeps the bounds of the ledger.                                   *)
LEMMA BoundsKept ==
  ASSUME LedgerInv, LedgerRows, LedgerBounded, [LedgerNext]_ledgerVars
  PROVE  LedgerBounded'
<1> USE DEF LedgerBounded
<1>1. /\ MaxEvents \in Nat /\ facts \in Nat /\ failures \in Nat
      /\ \A k \in JobKeys : saw[k].facts \in Nat
      /\ saw \in [JobKeys -> [facts : Nat, findings : Findings]]
      /\ Len(ledger) \in Nat
  BY LedgerAssumption DEF LedgerInv, JobsTyped, LedgerRows
<1>2. NothingSeen.facts = 0
  BY DEF NothingSeen
<1>3. CASE AddFact
  <2>1. /\ facts + failures < MaxEvents /\ facts' = facts + 1 /\ lost' \in BOOLEAN
        /\ UNCHANGED <<archived, saw, computed, resolving, ranked, rankLost, failures>>
    BY <1>3 DEF AddFact, Enqueue
  <2>2. facts' + failures' <= MaxEvents /\ computed' <= facts' /\ ranked' <= facts'
    BY <1>1, <2>1
  <2>3. \A k \in JobKeys : saw'[k].facts <= facts'
    BY <1>1, <2>1
  <2> QED
    BY <2>1, <2>2, <2>3
<1>4. ASSUME NEW k \in JobKeys, RequestRecompute(k) PROVE LedgerBounded'
  BY <1>4 DEF RequestRecompute, Enqueue
<1>5. ASSUME NEW n \in 1..Len(ledger), ReadOpenFlag(n) \/ ResolveFlag(n) PROVE LedgerBounded'
  <2>1. /\ UNCHANGED <<facts, archived, saw, computed, ranked, rankLost, failures>>
        /\ resolving' \in SUBSET Nat
    BY <1>1, <1>5 DEF ReadOpenFlag, ResolveFlag
  <2>2. lost' \in BOOLEAN
    BY <1>5 DEF ReadOpenFlag, ResolveFlag, Enqueue
  <2> QED
    BY <2>1, <2>2
<1>6. ASSUME NEW k \in JobKeys, ReadFacts(k) PROVE LedgerBounded'
  <2>1. /\ saw' = [saw EXCEPT ![k] = [facts |-> facts, findings |-> findings]]
        /\ lost' = FALSE
        /\ UNCHANGED <<facts, archived, computed, resolving, ranked, rankLost, failures>>
    BY <1>6 DEF ReadFacts
  <2>2. \A j \in JobKeys : saw'[j].facts <= facts'
    BY <1>1, <2>1
  <2> QED
    BY <2>1, <2>2
<1>7. ASSUME NEW k \in JobKeys, ReadFlags(k) \/ EnqueueRank(k) PROVE LedgerBounded'
  BY <1>7 DEF ReadFlags, EnqueueRank
<1>8. ASSUME NEW k \in JobKeys, Save(k) \/ Retry(k) \/ Die(k) PROVE LedgerBounded'
  <2>1. /\ saw' = [saw EXCEPT ![k] = NothingSeen]
        /\ UNCHANGED <<facts, archived, resolving, ranked>>
        /\ lost' \in BOOLEAN /\ rankLost' \in BOOLEAN
    BY <1>8 DEF Save, Retry, Die, Fail, Forget
  <2>2. \A j \in JobKeys : saw'[j].facts <= facts'
    BY <1>1, <1>2, <2>1
  <2>3. computed' \in {computed, saw[k].facts}
    BY <1>8 DEF Save, Retry, Die, Fail
  <2>4. facts' + failures' <= MaxEvents
    BY <1>1, <1>8 DEF Save, Retry, Die, Fail
  <2> QED
    BY <1>1, <2>1, <2>2, <2>3, <2>4
<1>9. CASE RaiseConflict \/ ArchiveProperty \/ RestoreProperty \/ Rank \/ RankEnds
           \/ UNCHANGED ledgerVars
  BY <1>9 DEF RaiseConflict, ArchiveProperty, RestoreProperty, SetArchivedAt, Rank, RankEnds,
              ledgerVars
<1> QED
  BY <1>3, <1>4, <1>5, <1>6, <1>7, <1>8, <1>9 DEF LedgerNext

(* While a job is between reading the flags and writing them, the flags it read *)
(* are still there and no other has opened one; what was added is a conflict.  *)
Since(l) ==
    /\ Len(l) <= Len(ledger)
    /\ \A n \in 1..Len(ledger) :
          IF n <= Len(l)
          THEN /\ ledger[n].issue = l[n].issue
               /\ ledger[n].status = "open" => l[n].status = "open"
          ELSE ledger[n].issue = Conflict

ReadsHold == \A k \in JobKeys : job[k] = "syncing" => Since(before[k])

(* What a job has read holds until the ledger is written.                       *)
LEMMA ReadsStillHold ==
  ASSUME LedgerInv, LedgerRows, ReadsHold, [LedgerNext]_ledgerVars
  PROVE  ReadsHold'
<1>1. /\ job \in [JobKeys -> JobPhases] /\ ledger \in Seq(FlagRows)
      /\ before \in [JobKeys -> Seq(FlagRows)] /\ Len(ledger) \in Nat
      /\ \A k \in JobKeys : Len(before[k]) \in Nat
  BY DEF LedgerInv, JobsTyped, LedgerRows
<1>2. ASSUME UNCHANGED ledger,
             \A k \in JobKeys : job'[k] = "syncing" => job[k] = "syncing" /\ before'[k] = before[k]
      PROVE  ReadsHold'
  BY <1>2 DEF ReadsHold, Since
<1>3. ASSUME NEW n \in 1..Len(ledger), ResolveFlag(n) PROVE ReadsHold'
  <2>1. /\ ledger' = [ledger EXCEPT ![n].status = "human"] /\ before' = before
        /\ \A k \in JobKeys : job'[k] = "syncing" => job[k] = "syncing"
    BY <1>1, <1>3 DEF ResolveFlag, Enqueue
  <2>2. /\ Len(ledger') = Len(ledger)
        /\ \A m \in 1..Len(ledger) :
              /\ ledger'[m].issue = ledger[m].issue
              /\ ledger'[m].status = "open" => ledger[m].status = "open"
    <3>1. \A m \in 1..Len(ledger) : ledger[m] \in FlagRows
      BY <1>1
    <3> QED
      BY <1>1, <2>1, <3>1 DEF FlagRows
  <2> QED
    BY <1>1, <2>1, <2>2 DEF ReadsHold, Since
<1>4. CASE RaiseConflict
  <2> PICK entry : entry = [issue |-> Conflict, print |-> Conflict, status |-> "open", key |-> "base"]
    OBVIOUS
  <2>1. /\ ledger' = Append(ledger, entry) /\ UNCHANGED <<job, before>>
    BY <1>4 DEF RaiseConflict
  <2>2. /\ Len(ledger') = Len(ledger) + 1 /\ ledger'[Len(ledger) + 1] = entry
        /\ \A m \in 1..Len(ledger) : ledger'[m] = ledger[m]
    BY <1>1, <2>1
  <2>3. ASSUME NEW k \in JobKeys, job[k] = "syncing", NEW m \in 1..Len(ledger')
        PROVE  IF m <= Len(before[k])
               THEN /\ ledger'[m].issue = before[k][m].issue
                    /\ ledger'[m].status = "open" => before[k][m].status = "open"
               ELSE ledger'[m].issue = Conflict
    <3>1. m \in 1..Len(ledger) \/ m = Len(ledger) + 1
      BY <1>1, <2>2
    <3>2. Since(before[k])
      BY <2>3 DEF ReadsHold
    <3>3. CASE m \in 1..Len(ledger)
      BY <2>2, <3>2, <3>3 DEF Since
    <3>4. CASE m = Len(ledger) + 1
      BY <1>1, <2>2, <3>2, <3>4 DEF Since
    <3> QED
      BY <3>1, <3>3, <3>4
  <2>4. ASSUME NEW k \in JobKeys, job[k] = "syncing"
        PROVE  Len(before[k]) <= Len(ledger')
    BY <1>1, <2>2, <2>4 DEF ReadsHold, Since
  <2> QED
    BY <2>1, <2>3, <2>4 DEF ReadsHold, Since
<1>5. ASSUME NEW k \in JobKeys, ReadFlags(k) PROVE ReadsHold'
  <2>1. /\ job' = [job EXCEPT ![k] = "syncing"] /\ before' = [before EXCEPT ![k] = ledger]
        /\ ledger' = ledger
    BY <1>5 DEF ReadFlags, Advance
  <2>2. Since(ledger)
    BY <1>1 DEF Since
  <2>3. \A j \in JobKeys : job'[j] = "syncing" => Since(before'[j])
    BY <1>1, <2>1, <2>2 DEF ReadsHold
  <2> QED
    BY <2>1, <2>3 DEF ReadsHold, Since
<1>6. ASSUME NEW k \in JobKeys, Save(k) PROVE ReadsHold'
  <2>1. job[k] = "syncing" /\ job' = [job EXCEPT ![k] = "saved"]
    BY <1>6 DEF Save, Advance
  <2>2. \A j \in JobKeys : job'[j] # "syncing"
    BY <1>1, <2>1 DEF LedgerInv, OneReader, Recomputing
  <2> QED
    BY <2>2 DEF ReadsHold
<1>7. ASSUME NEW k \in JobKeys, Retry(k) \/ Die(k) PROVE ReadsHold'
  <2>1. /\ job' = [job EXCEPT ![k] = "queued"] \/ job' = [job EXCEPT ![k] = "none"]
        /\ before' = [before EXCEPT ![k] = <<>>] /\ ledger' = ledger
    BY <1>7 DEF Retry, Die, Fail, Forget, Advance
  <2> QED
    BY <1>1, <1>2, <2>1
<1>8. ASSUME NEW k \in JobKeys, RequestRecompute(k) \/ ReadFacts(k) \/ EnqueueRank(k)
      PROVE  ReadsHold'
  BY <1>1, <1>2, <1>8 DEF RequestRecompute, ReadFacts, EnqueueRank, Enqueue, Advance
<1>9. CASE AddFact
  BY <1>1, <1>2, <1>9 DEF AddFact, Enqueue
<1>10. ASSUME UNCHANGED <<ledger, job, before>> PROVE ReadsHold'
  BY <1>2, <1>10
<1> QED
  BY <1>3, <1>4, <1>5, <1>6, <1>7, <1>8, <1>9, <1>10
     DEF LedgerNext, ledgerVars, ReadOpenFlag, ArchiveProperty, RestoreProperty, SetArchivedAt,
         Rank, RankEnds

LedgerKept == LedgerInv /\ LedgerRows /\ LedgerBounded /\ ReadsHold

(* The invariant holds throughout.                                              *)
LEMMA LedgerKeptInvariant == LedgerSpec => []LedgerKept
<1>1. LedgerInit => LedgerKept
  <2>1. LedgerInit => LedgerRows
    BY DEF LedgerInit, LedgerRows
  <2>2. LedgerInit => ReadsHold
    BY DEF LedgerInit, ReadsHold
  <2> QED
    BY <2>1, <2>2, LedgerInitial, LedgerInitBounded DEF LedgerKept
<1>2. LedgerKept /\ [LedgerNext]_ledgerVars => LedgerKept'
  <2>1. LedgerInv /\ [LedgerNext]_ledgerVars => LedgerInv'
    BY RequestStep, JobStep, OtherStep DEF LedgerNext
  <2> QED
    BY <2>1, RowsKept, BoundsKept, ReadsStillHold DEF LedgerKept
<1> QED
  BY <1>1, <1>2, PTL DEF LedgerSpec

(* Facts, flags, jobs and the marks of the results have their types. *)
THEOREM LedgerTyped == LedgerSpec => []LedgerTypeOK
<1>1. LedgerKept => LedgerTypeOK
  <2> SUFFICES ASSUME LedgerKept PROVE LedgerTypeOK
    OBVIOUS
  <2>1. /\ MaxEvents \in Nat /\ facts \in Nat /\ failures \in Nat /\ facts + failures <= MaxEvents
        /\ saw \in [JobKeys -> [facts : Nat, findings : Findings]]
        /\ \A k \in JobKeys : saw[k].facts <= facts
    BY LedgerAssumption DEF LedgerKept, LedgerInv, JobsTyped, LedgerBounded
  <2>2. facts \in 0..MaxEvents /\ failures \in 0..MaxEvents
    BY <2>1
  <2>3. \A k \in JobKeys : saw[k] \in Sights
    BY <2>1 DEF Sights
  <2>4. computed \in 0..MaxEvents /\ ranked \in 0..MaxEvents
    BY <2>1 DEF LedgerKept, LedgerBounded
  <2> QED
    BY <2>1, <2>2, <2>3, <2>4
       DEF LedgerKept, LedgerInv, JobsTyped, LedgerRows, LedgerBounded, LedgerTypeOK
<1> QED
  BY <1>1, LedgerKeptInvariant, PTL

------------------------------------------------------------------------------
(* What a commit writes, row by row. *)
Written(l, found, c, s) ==
    /\ l \in Seq(FlagRows) /\ found \in Findings /\ Since(l)
    /\ Len(s) \in Nat /\ DOMAIN s = 1..Len(s)
    /\ Len(ledger') = Len(ledger) + Len(s)
    /\ \A n \in 1..Len(ledger) : ledger'[n] = Rewritten(l, found, c)[n]
    /\ \A n \in 1..Len(s) : ledger'[Len(ledger) + n] = NewFlag(l, found, s[n])
    /\ \A n \in 1..Len(s) : s[n] \in Issues /\ IsNew(l, found, s[n])
    /\ \A i \in Issues : IsNew(l, found, i) => \E n \in 1..Len(s) : s[n] = i

(* The ledger that a recompute writes, row by row.                              *)
LEMMA SavedRows ==
  ASSUME LedgerKept, NEW k \in JobKeys, NEW found, found = saw[k].findings,
         NEW l, l = before[k], job[k] = "syncing",
         NEW c \in Chosen(l, found), NEW s \in NewInOrder(l, found),
         ledger' = SyncedLedger(l, found, c, s)
  PROVE  Written(l, found, c, s)
<1>1. l \in Seq(FlagRows) /\ found \in Findings /\ Since(l) /\ Len(ledger) \in Nat
  BY DEF LedgerKept, LedgerRows, LedgerInv, JobsTyped, ReadsHold
<1> DEFINE S == {i \in Issues : IsNew(l, found, i)}
           rows == Rewritten(l, found, c)
           added == [n \in DOMAIN s |-> NewFlag(l, found, s[n])]
<1>2. Cardinality(S) \in Nat
  BY LedgerAssumption, FS_Subset, FS_CardinalityType
<1>3. /\ s \in [1..Cardinality(S) -> S]
      /\ \A i \in S : \E n \in DOMAIN s : s[n] = i
  BY DEF NewInOrder, InsertOrders
<1>4. s \in Seq(S) /\ Len(s) = Cardinality(S) /\ DOMAIN s = 1..Len(s)
  BY <1>2, <1>3
<1>5. /\ rows \in Seq(FlagRows) /\ Len(rows) = Len(ledger)
  BY <1>1, RewrittenIsLedger DEF LedgerKept
<1>6. added \in Seq(FlagRows)
  BY <1>1, NewFlagsAreRows
<1>7. Len(added) = Len(s) /\ \A n \in 1..Len(s) : added[n] = NewFlag(l, found, s[n])
  <2>1. DOMAIN added = 1..Len(s) /\ DOMAIN added = 1..Len(added) /\ Len(added) \in Nat
    BY <1>4, <1>6
  <2> QED
    BY <1>2, <1>4, <2>1
<1>8. ledger' = rows \o added
  BY DEF SyncedLedger
<1> HIDE DEF rows, added
<1>9. /\ Len(ledger') = Len(rows) + Len(added)
      /\ \A n \in 1..Len(rows) : ledger'[n] = rows[n]
      /\ \A n \in 1..Len(added) : ledger'[Len(rows) + n] = added[n]
  <2>1. /\ Len(rows) \in Nat /\ Len(added) \in Nat
        /\ Len(ledger') = Len(rows) + Len(added)
        /\ \A n \in 1..Len(rows) + Len(added) :
              ledger'[n] = IF n <= Len(rows) THEN rows[n] ELSE added[n - Len(rows)]
    <3>1. /\ Len(rows \o added) = Len(rows) + Len(added)
          /\ \A n \in 1..Len(rows) + Len(added) :
                (rows \o added)[n] = IF n <= Len(rows) THEN rows[n] ELSE added[n - Len(rows)]
      BY <1>5, <1>6, ConcatProperties
    <3>2. Len(rows) \in Nat /\ Len(added) \in Nat
      BY <1>5, <1>6
    <3> QED
      BY <1>8, <3>1, <3>2
  <2>2. \A n \in 1..Len(rows) : ledger'[n] = rows[n]
    BY <2>1
  <2>3. ASSUME NEW n \in 1..Len(added) PROVE ledger'[Len(rows) + n] = added[n]
    <3> PICK m : m = Len(rows) + n
      OBVIOUS
    <3>1. m \in 1..Len(rows) + Len(added) /\ ~(m <= Len(rows)) /\ m - Len(rows) = n
      BY <2>1
    <3>2. ledger'[m] = added[m - Len(rows)]
      BY <2>1, <3>1
    <3> QED
      BY <3>1, <3>2
  <2> QED
    BY <2>1, <2>2, <2>3
<1>10. \A n \in 1..Len(s) : s[n] \in S
  BY <1>3, <1>4
<1>11. /\ Len(s) \in Nat
       /\ Len(ledger') = Len(ledger) + Len(s)
       /\ \A n \in 1..Len(ledger) : ledger'[n] = rows[n]
       /\ \A n \in 1..Len(s) : ledger'[Len(ledger) + n] = NewFlag(l, found, s[n])
  BY <1>2, <1>4, <1>5, <1>7, <1>9
<1> QED
  BY <1>1, <1>3, <1>4, <1>10, <1>11 DEF rows, Written

(* What is not found is not open. *)
LEMMA AbsentIsClosed ==
  ASSUME LedgerKept, NEW k \in JobKeys, Save(k), NEW i \in Issues,
         saw[k].findings[i] = Absent
  PROVE  OpenRows(ledger', i) = {}
<1> PICK l, found : l = before[k] /\ found = saw[k].findings
  OBVIOUS
<1>1. PICK c \in Chosen(l, found), s \in NewInOrder(l, found) : ledger' = SyncedLedger(l, found, c, s)
  BY DEF Save
<1>2. job[k] = "syncing"
  BY DEF Save
<1>0. Written(l, found, c, s)
  BY <1>1, <1>2, SavedRows
<1>3. /\ l \in Seq(FlagRows) /\ found \in Findings /\ Since(l)
      /\ Len(s) \in Nat /\ Len(ledger') = Len(ledger) + Len(s)
      /\ \A n \in 1..Len(ledger) : ledger'[n] = Rewritten(l, found, c)[n]
      /\ \A n \in 1..Len(s) : ledger'[Len(ledger) + n] = NewFlag(l, found, s[n])
      /\ \A n \in 1..Len(s) : IsNew(l, found, s[n])
  BY <1>0 DEF Written
<1>4. Len(ledger) \in Nat /\ Len(l) \in Nat /\ ledger \in Seq(FlagRows)
  BY <1>3 DEF LedgerKept, LedgerRows
<1>5. ASSUME NEW n \in 1..Len(ledger'), ledger'[n].issue = i, ledger'[n].status = "open"
      PROVE  FALSE
  <2>1. CASE n \in 1..Len(ledger) /\ n <= Len(l)
    <3>1. /\ ledger'[n].issue = ledger[n].issue
          /\ ledger'[n].status = Column(l[n].status, Synced(l, found, c, n).status, ledger[n].status)
      <4>1. n \in 1..Len(ledger) /\ ~(n > Len(l)) /\ ledger'[n] = Rewritten(l, found, c)[n]
        BY <1>3, <1>4, <2>1
      <4>2. Rewritten(l, found, c)[n] =
              [issue  |-> ledger[n].issue,
               print  |-> Column(l[n].print, Synced(l, found, c, n).print, ledger[n].print),
               status |-> Column(l[n].status, Synced(l, found, c, n).status, ledger[n].status),
               key    |-> Column(l[n].key, Synced(l, found, c, n).key, ledger[n].key)]
        BY <4>1 DEF Rewritten
      <4> QED
        BY <4>1, <4>2
    <3>2. ledger[n].issue = l[n].issue /\ (ledger[n].status = "open" => l[n].status = "open")
      BY <1>3, <2>1 DEF Since
    <3>3. l[n] \in FlagRows /\ l[n].issue = i /\ i # Conflict
      BY <1>3, <1>4, <1>5, <2>1, <3>1, <3>2, LedgerAssumption
    <3>4. CASE l[n].status = "open"
      <4>1. Synced(l, found, c, n) = [l[n] EXCEPT !.status = "recompute"]
        BY <3>3, <3>4 DEF Synced
      <4>2. Synced(l, found, c, n).status = "recompute"
        BY <3>3, <4>1 DEF FlagRows
      <4> QED
        BY <1>5, <3>1, <3>4, <4>2 DEF Column
    <3>5. CASE l[n].status # "open"
      <4>1. Synced(l, found, c, n) = l[n]
        BY <3>3, <3>5 DEF Synced
      <4> QED
        BY <1>5, <3>1, <3>2, <3>5, <4>1 DEF Column
    <3> QED
      BY <3>4, <3>5
  <2>2. CASE n \in 1..Len(ledger) /\ n > Len(l)
    <3>1. ledger'[n] = ledger[n]
      BY <1>3, <1>4, <2>2 DEF Rewritten
    <3>2. ledger[n].issue = Conflict
      BY <1>3, <1>4, <2>2 DEF Since
    <3> QED
      BY <1>5, <3>1, <3>2, LedgerAssumption
  <2>3. CASE n \notin 1..Len(ledger)
    <3> PICK m : m = n - Len(ledger)
      OBVIOUS
    <3>1. m \in 1..Len(s) /\ n = Len(ledger) + m
      BY <1>3, <1>4, <2>3
    <3>2. ledger'[n] = NewFlag(l, found, s[m]) /\ IsNew(l, found, s[m])
      BY <1>3, <3>1
    <3>3. s[m] = i
      BY <1>5, <3>2 DEF NewFlag
    <3> QED
      BY <3>2, <3>3 DEF IsNew
  <2> QED
    BY <1>4, <2>1, <2>2, <2>3
<1> QED
  BY <1>5 DEF OpenRows, RowsOf

(* What is found is open, unless a human has resolved just that. *)
LEMMA FoundIsOpen ==
  ASSUME LedgerKept, NEW k \in JobKeys, Save(k), NEW i \in Issues,
         saw[k].findings[i] # Absent
  PROVE  before[k] = ledger /\ ~HumanResolved(ledger, i, saw[k].findings[i]) =>
           \E n \in OpenRows(ledger', i) : ledger'[n].print = saw[k].findings[i]
<1> PICK l, found : l = before[k] /\ found = saw[k].findings
  OBVIOUS
<1>1. PICK c \in Chosen(l, found), s \in NewInOrder(l, found) : ledger' = SyncedLedger(l, found, c, s)
  BY DEF Save
<1>2. job[k] = "syncing"
  BY DEF Save
<1>10. Written(l, found, c, s)
  BY <1>1, <1>2, SavedRows
<1> PICK p : p = found[i]
  OBVIOUS
<1>11. p = saw[k].findings[i] /\ p # Absent
  OBVIOUS
<1> SUFFICES ASSUME before[k] = ledger, ~HumanResolved(ledger, i, p)
             PROVE  \E n \in OpenRows(ledger', i) : ledger'[n].print = p
  BY <1>11
<1>3. /\ l \in Seq(FlagRows) /\ found \in Findings /\ l = ledger
      /\ Len(s) \in Nat /\ Len(ledger') = Len(ledger) + Len(s)
      /\ \A n \in 1..Len(ledger) : ledger'[n] = Rewritten(l, found, c)[n]
      /\ \A n \in 1..Len(s) : ledger'[Len(ledger) + n] = NewFlag(l, found, s[n])
      /\ \A j \in Issues : IsNew(l, found, j) => \E n \in 1..Len(s) : s[n] = j
  BY <1>10 DEF Written
<1>4. Len(l) \in Nat /\ Len(ledger) = Len(l) /\ i # Conflict
  BY <1>3, LedgerAssumption
<1>5. ASSUME NEW n \in 1..Len(l)
      PROVE  /\ l[n] \in FlagRows
             /\ ledger'[n].issue = l[n].issue
             /\ ledger'[n].print = Synced(l, found, c, n).print
             /\ ledger'[n].status = Synced(l, found, c, n).status
  <2>1. ledger'[n] = Rewritten(l, found, c)[n] /\ ~(n > Len(l)) /\ ledger[n] = l[n]
    BY <1>3, <1>4
  <2>2. Rewritten(l, found, c)[n] =
          [issue  |-> l[n].issue,
           print  |-> Column(l[n].print, Synced(l, found, c, n).print, l[n].print),
           status |-> Column(l[n].status, Synced(l, found, c, n).status, l[n].status),
           key    |-> Column(l[n].key, Synced(l, found, c, n).key, l[n].key)]
    BY <1>3, <1>4, <2>1 DEF Rewritten
  <2>3. l[n] \in FlagRows
    BY <1>3
  <2> QED
    BY <2>1, <2>2, <2>3 DEF Column
<1>6. SUFFICES \E n \in 1..Len(ledger') : /\ ledger'[n].issue = i /\ ledger'[n].status = "open"
                                         /\ ledger'[n].print = p
  BY <1>6 DEF OpenRows, RowsOf
<1>7. CASE OpenRows(l, i) # {}
  <2>1. PICK n \in 1..Len(l) : l[n].issue = i /\ l[n].status = "open"
    BY <1>7 DEF OpenRows, RowsOf
  <2>2. Synced(l, found, c, n) =
          [l[n] EXCEPT !.print = p, !.key = IF TakenBase(l, i, n) THEN @ ELSE "base"]
    BY <1>4, <2>1 DEF Synced
  <2>3. Synced(l, found, c, n).print = p /\ Synced(l, found, c, n).status = "open"
    BY <1>5, <2>1, <2>2 DEF FlagRows
  <2>4. n \in 1..Len(ledger')
    BY <1>3, <1>4
  <2> QED
    BY <1>5, <2>1, <2>3, <2>4
<1>8. CASE OpenRows(l, i) = {} /\ Reopenable(l, i, p) # {}
  <2>1. c[i] \in Reopenable(l, i, p)
    BY <1>8 DEF Chosen, ReopenChoice
  <2> PICK n : n = c[i]
    OBVIOUS
  <2>2. n \in 1..Len(l) /\ l[n].issue = i /\ l[n].status = "recompute" /\ l[n].print = p
    BY <2>1 DEF Reopenable, RowsOf
  <2>3. Synced(l, found, c, n) = [l[n] EXCEPT !.status = "open", !.key = "base"]
    BY <1>4, <2>2 DEF Synced
  <2>4. Synced(l, found, c, n).print = p /\ Synced(l, found, c, n).status = "open"
    BY <1>5, <2>2, <2>3 DEF FlagRows
  <2>5. n \in 1..Len(ledger')
    BY <1>3, <1>4, <2>2
  <2> QED
    BY <1>5, <2>2, <2>4, <2>5
<1>9. CASE OpenRows(l, i) = {} /\ Reopenable(l, i, p) = {}
  <2>1. ASSUME NEW n \in RowsOf(l, i), l[n].print = p PROVE FALSE
    <3>1. n \in 1..Len(l) /\ l[n].issue = i
      BY DEF RowsOf
    <3>2. l[n].status \in {"open", "human", "recompute"}
      BY <1>5, <3>1 DEF FlagRows
    <3> QED
      BY <1>3, <1>9, <2>1, <3>2 DEF OpenRows, Reopenable, HumanResolved
  <2>2. IsNew(l, found, i)
    BY <1>9, <2>1 DEF IsNew
  <2>3. PICK n \in 1..Len(s) : s[n] = i
    BY <1>3, <2>2
  <2>4. ledger'[Len(ledger) + n] = NewFlag(l, found, i) /\ Len(ledger) + n \in 1..Len(ledger')
    BY <1>3, <1>4, <2>3
  <2> QED
    BY <2>4 DEF NewFlag
<1> QED
  BY <1>7, <1>8, <1>9

(* After a recompute that no human raced, a finding is on the review queue      *)
(* unless a human has resolved the same one, and what was not found is not      *)
(* (flags/store.py sync_flags).                                                *)
THEOREM FindingsAreSurfaced == LedgerSpec => FindingsSurface
<1> DEFINE Surfaces(k, i) ==
             LET p == saw[k].findings[i] IN
             IF p = Absent THEN OpenRows(ledger', i) = {}
             ELSE before[k] = ledger /\ ~HumanResolved(ledger, i, p) =>
                      \E n \in OpenRows(ledger', i) : ledger'[n].print = p
           Saving(k) == job[k] = "syncing" /\ job'[k] = "saved"
<1>1. ASSUME LedgerKept, [LedgerNext]_ledgerVars, NEW k \in JobKeys, Saving(k)
      PROVE  Save(k)
  <2>1. job \in [JobKeys -> JobPhases]
    BY <1>1 DEF LedgerKept, LedgerInv, JobsTyped
  <2>2. ASSUME NEW j \in JobKeys, j # k \/ ~Save(j),
               \/ Save(j) \/ ReadFacts(j) \/ ReadFlags(j) \/ EnqueueRank(j)
               \/ Retry(j) \/ Die(j)
        PROVE  FALSE
    BY <1>1, <2>1, <2>2 DEF ReadFacts, ReadFlags, EnqueueRank, Retry, Die, Fail, Advance, Save
  <2>3. ASSUME \/ \E j \in JobKeys : RequestRecompute(j)
               \/ AddFact \/ \E n \in 1..Len(ledger) : ResolveFlag(n)
        PROVE  FALSE
    <3>1. \E j \in JobKeys : Enqueue(j)
      BY <2>3 DEF RequestRecompute, AddFact, ResolveFlag, JobKeys
    <3> QED
      BY <1>1, <2>1, <3>1 DEF Enqueue
  <2>4. ASSUME UNCHANGED job PROVE FALSE
    BY <1>1, <2>4
  <2> QED
    BY <1>1, <2>2, <2>3, <2>4
       DEF LedgerNext, ledgerVars, ReadOpenFlag, RaiseConflict, ArchiveProperty,
           RestoreProperty, SetArchivedAt, Rank, RankEnds
<1>2. ASSUME LedgerKept, [LedgerNext]_ledgerVars, NEW k \in JobKeys, Saving(k), NEW i \in Issues
      PROVE  Surfaces(k, i)
  <2>1. Save(k)
    BY <1>1, <1>2
  <2> QED
    BY <1>2, <2>1, AbsentIsClosed, FoundIsOpen
<1>3. LedgerKept /\ [LedgerNext]_ledgerVars =>
        [\A k \in JobKeys : Saving(k) => \A i \in Issues : Surfaces(k, i)]_ledgerVars
  BY <1>2
<1> QED
  BY <1>3, LedgerKeptInvariant, PTL DEF LedgerSpec, FindingsSurface

(*****************************************************************************)
(* Ranking.  The first part is about the score of a file: every part of it   *)
(* is a whole number, and better data about the same facts add no gate and   *)
(* lower the score only where they let wholesale be recommended.  The second *)
(* part is about the ranks that are stored and shown.                        *)
(*****************************************************************************)

(***************************************************************************)
(* Scores are whole numbers                                                *)
(***************************************************************************)
\* What is left of the points of a dated event.
LEMMA DecayedType ==
  ASSUME NEW n \in Nat, NEW age \in Ages
  PROVE  Decayed(n, age) \in Int
<1>1. PICK d : d = 2^age
  OBVIOUS
<1>2. d \in Nat \ {0}
  BY <1>1 DEF Ages
<1>3. Points(n) \in Int
  BY DEF Points
<1>4. Points(n) \div d \in Int
  BY <1>2, <1>3
<1> QED
  BY <1>1, <1>4 DEF Decayed

\* Caps and conditions.
LEMMA BoundedTypes ==
  /\ \A n, high \in Int : AtMost(n, high) \in Int /\ Clamp(n, high) \in Int
  /\ \A n \in Nat : Points(n) \in Nat
  /\ \A condition : \A n \in Nat : If(condition, n) \in Nat
BY DEF AtMost, Clamp, Points, If

\* The liens of a file that are open.
LEMMA LiensFinite ==
  ASSUME NEW f, IsFile(f), NEW S \in SUBSET f.liens
  PROVE  IsFiniteSet(S) /\ Cardinality(S) \in Nat /\ \A l \in S : l.age \in Ages
<1>1. IsFiniteSet(f.liens) /\ \A l \in f.liens : l.age \in Ages
  BY DEF IsFile
<1> QED
  BY <1>1, FS_Subset, FS_CardinalityType

(* What a foreclosure adds to the distress of a file.                           *)
LEMMA ForeclosureDistressType ==
  ASSUME NEW f, IsFile(f)
  PROVE  ForeclosureDistress(f) \in Int
<1> DEFINE since == IF f.foreclosure.nts THEN f.foreclosure.age ELSE 0
           sale == IF f.foreclosure.saleNear THEN 30 ELSE 24
<1>1. f.foreclosure.age \in Ages /\ 0 \in Ages /\ f.foreclosure.rescissions \in Nat
  BY DEF IsFile
<1>2. Decayed(sale, since) \in Int /\ Decayed(18, f.foreclosure.age) \in Int
  <2>1. since \in Ages /\ sale \in Nat
    BY <1>1
  <2> HIDE DEF since, sale
  <2> QED
    BY <1>1, <2>1, DecayedType
<1>3. AtMost(Points(8) * f.foreclosure.rescissions, Points(16)) \in Int
  BY <1>1 DEF AtMost, Points
<1>4. \/ ForeclosureDistress(f) = 0
      \/ ForeclosureDistress(f) =
            (IF ~f.foreclosure.nts /\ f.foreclosure.stage \notin NearSale THEN 0
             ELSE Decayed(sale, since))
          + (IF f.foreclosure.nod THEN Decayed(18, f.foreclosure.age) ELSE 0)
          + AtMost(Points(8) * f.foreclosure.rescissions, Points(16))
  BY DEF ForeclosureDistress
<1> HIDE DEF since, sale
<1> QED
  BY <1>2, <1>3, <1>4

\* A sum of what is left of several events.
LEMMA TotalType ==
  ASSUME NEW S, IsFiniteSet(S), NEW points \in [S -> Int]
  PROVE  Total(points) \in Int
<1>1. DOMAIN points = S /\ \A x \in S : points[x] \in Int
  OBVIOUS
<1> QED
  BY <1>1, SumType DEF Total

(* What bankruptcies add to it.                                                 *)
LEMMA BankruptcyDistressType ==
  ASSUME NEW f, IsFile(f)
  PROVE  BankruptcyDistress(f) \in Int
<1> DEFINE active == {b \in f.bankruptcies : b.status = "active"}
           prior == {b \in f.bankruptcies : b.status \in {"dismissed", "discharged", "closed"}}
           faded == [b \in prior |-> Decayed(6, b.age)]
           now == {Decayed(12, b.age) : b \in active}
           most == [b \in active |-> Decayed(12, b.age)]
<1>1. IsFiniteSet(f.bankruptcies) /\ \A b \in f.bankruptcies : b.age \in Ages
  BY DEF IsFile
<1>2. \A b \in f.bankruptcies : Decayed(6, b.age) \in Int /\ Decayed(12, b.age) \in Int
  BY <1>1, DecayedType
<1>3. IsFiniteSet(prior) /\ IsFiniteSet(active)
  BY <1>1, FS_Subset
<1>4. Total(faded) \in Int
  <2>1. faded \in [prior -> Int]
    BY <1>2
  <2> HIDE DEF faded, prior
  <2> QED
    BY <1>3, <2>1, TotalType
<1>5. ASSUME active # {} PROVE Max(now) \in Int
  <2>1. now = {most[b] : b \in active}
    OBVIOUS
  <2>2. most \in Surjection(active, now)
    BY DEF Surjection
  <2>3. IsFiniteSet(now)
    <3> HIDE DEF most, now, active
    <3> QED
      BY <1>3, <2>2, FS_Surjection
  <2>4. now # {} /\ now \subseteq Int
    BY <1>2, <1>5
  <2> HIDE DEF now
  <2> QED
    BY <2>3, <2>4, MaxMin
<1>6. BankruptcyDistress(f) = (IF active = {} THEN 0 ELSE Max(now))
        + AtMost(Total(faded), Points(18))
        + If(\E b \in f.bankruptcies : b.sequence > 1, 8)
  BY DEF BankruptcyDistress
<1> DEFINE highest == IF active = {} THEN 0 ELSE Max(now)
           second == \E b \in f.bankruptcies : b.sequence > 1
<1>7. highest \in Int
  BY <1>5
<1>10. BankruptcyDistress(f) = highest + AtMost(Total(faded), Points(18)) + If(second, 8)
  BY <1>6
<1>8. AtMost(Total(faded), Points(18)) \in Int
  BY <1>4, BoundedTypes
<1> HIDE DEF active, prior, faded, now, highest, second
<1>9. If(second, 8) \in Int
  BY DEF If, Points
<1> QED
  BY <1>7, <1>8, <1>9, <1>10

(* What open liens add to it.                                                   *)
LEMMA LienDistressType ==
  ASSUME NEW f, IsFile(f)
  PROVE  LienDistress(f) \in Int
<1> DEFINE tax == {l \in OpenLiens(f) : l.kind \in TaxKinds}
           other == OpenLiens(f) \ tax
           taxed == [l \in tax |-> Decayed(IF l.basis = "recorded" THEN 10 ELSE 4, l.age)]
           rest == [l \in other |-> Decayed(3, l.age)]
<1>1. tax \in SUBSET f.liens /\ other \in SUBSET f.liens
  BY DEF OpenLiens
<1>2. /\ IsFiniteSet(tax) /\ \A l \in tax : l.age \in Ages
      /\ IsFiniteSet(other) /\ \A l \in other : l.age \in Ages
  <2> HIDE DEF tax, other
  <2> QED
    BY <1>1, LiensFinite
<1>3. taxed \in [tax -> Int] /\ rest \in [other -> Int]
  <2>1. \A l \in tax : Decayed(10, l.age) \in Int /\ Decayed(4, l.age) \in Int
    BY <1>2, DecayedType
  <2>2. \A l \in other : Decayed(3, l.age) \in Int
    BY <1>2, DecayedType
  <2>3. \A l \in tax : Decayed(IF l.basis = "recorded" THEN 10 ELSE 4, l.age) \in Int
    BY <2>1
  <2> HIDE DEF tax, other
  <2> QED
    BY <2>2, <2>3
<1> HIDE DEF taxed, rest
<1>4. Total(taxed) \in Int /\ Total(rest) \in Int
  <2> HIDE DEF tax, other
  <2> QED
    BY <1>2, <1>3, TotalType
<1>5. If(f.hoa = "lien", 3) \in Int
  BY DEF If, Points
<1>6. AtMost(Total(rest) + If(f.hoa = "lien", 3), Points(12)) \in Int
  BY <1>4, <1>5, BoundedTypes
<1>7. LienDistress(f) = Total(taxed)
                          + AtMost(Total(rest) + If(f.hoa = "lien", 3), Points(12))
  BY DEF LienDistress, taxed, rest
<1> QED
  BY <1>4, <1>6, <1>7

(* The distress of a file is a whole number.                                    *)
LEMMA DistressType ==
  ASSUME NEW f, IsFile(f)
  PROVE  Distress(f) \in Int
<1> DEFINE failed == [l \in f.failedListings |-> Decayed(6, l.age)]
           pressure ==
             ForeclosureDistress(f) + BankruptcyDistress(f) + LienDistress(f)
               + If(f.yearsDelinquent >= 2, 10) + If(f.absentee, 5) + If(f.yearsOwned > 15, 4)
               + AtMost(Total(failed), Points(12))
<1>1. IsFiniteSet(f.failedListings) /\ \A l \in f.failedListings : l.age \in Ages
  BY DEF IsFile
<1>2. \A l \in f.failedListings : Decayed(6, l.age) \in Int
  BY <1>1, DecayedType
<1>3. Total(failed) \in Int
  <2>1. failed \in [f.failedListings -> Int]
    BY <1>2
  <2> HIDE DEF failed
  <2> QED
    BY <1>1, <2>1, TotalType
<1> HIDE DEF failed
<1>4. AtMost(Total(failed), Points(12)) \in Int
  BY <1>3, BoundedTypes
<1>5. /\ If(f.yearsDelinquent >= 2, 10) \in Int
      /\ If(f.absentee, 5) \in Int
      /\ If(f.yearsOwned > 15, 4) \in Int
  BY DEF If, Points
<1>6. pressure \in Int
  BY <1>4, <1>5, ForeclosureDistressType, BankruptcyDistressType, LienDistressType
<1>7. Distress(f) = Clamp(pressure + If(f.equityPct >= 50 /\ pressure > 0, 5), Points(100))
  BY DEF Distress, failed
<1> HIDE DEF pressure
<1>8. If(f.equityPct >= 50 /\ pressure > 0, 5) \in Int
  BY DEF If, Points
<1> QED
  BY <1>6, <1>7, <1>8, BoundedTypes

(***************************************************************************)
(* Better data of the same facts                                           *)
(***************************************************************************)
\* Confidence grows with every share and falls with every conflict.
LEMMA ConfidenceGrows ==
  ASSUME NEW q, NEW than, IsQuality(q), IsQuality(than), Better(q, than)
  PROVE  Confidence(q) \in Int /\ Confidence(than) \in Int /\ Confidence(than) <= Confidence(q)
<1>1. /\ q.coverage \in Int /\ q.corroboration \in Int /\ q.recency \in Int
      /\ q.verification \in Int /\ q.extraction \in Int /\ q.conflicts \in Nat
      /\ than.coverage \in Int /\ than.corroboration \in Int /\ than.recency \in Int
      /\ than.verification \in Int /\ than.extraction \in Int /\ than.conflicts \in Nat
  BY DEF IsQuality
<1>2. /\ q.coverage >= than.coverage /\ q.corroboration >= than.corroboration
      /\ q.recency >= than.recency /\ q.verification >= than.verification
      /\ q.extraction >= than.extraction /\ q.conflicts <= than.conflicts
  BY DEF Better
<1>3. /\ AtMost(20 * q.conflicts, 100) \in Int /\ AtMost(20 * than.conflicts, 100) \in Int
      /\ AtMost(20 * q.conflicts, 100) <= AtMost(20 * than.conflicts, 100)
  BY <1>1, <1>2 DEF AtMost
<1> QED
  BY <1>1, <1>2, <1>3 DEF Confidence

\* Risk is what the file says, and two parts that fall with better data.
LEMMA RiskFalls ==
  ASSUME NEW f, IsFile(f),
         NEW q, NEW than, IsQuality(q), IsQuality(than), Better(q, than)
  PROVE  Risk(f, q) \in Int /\ Risk(f, than) \in Int /\ Risk(f, q) <= Risk(f, than)
<1> DEFINE open == Cardinality(OpenLiens(f))
           large == Cardinality(LargeOwnerOnly(f))
           bankrupt == If(\E b \in f.bankruptcies : b.status = "active", 15)
           near == If(f.foreclosure.active /\ f.foreclosure.stage \in NearSale, 12)
           federal == If(\E l \in OpenLiens(f) : l.kind = "federal_tax", 6)
           known == Points(6) * open + bankrupt + near + Points(10) * large
                      + Points(10) * f.titleFlags + If(f.occupied, 8) + If(f.hoa # "none", 8)
           Doubt(x) == If(Confidence(x) < Points(50), 12)
<1>1. open \in Nat /\ large \in Nat
  <2>1. OpenLiens(f) \in SUBSET f.liens /\ LargeOwnerOnly(f) \in SUBSET f.liens
    BY DEF OpenLiens, LargeOwnerOnly
  <2> QED
    BY <2>1, LiensFinite
<1>2. /\ bankrupt \in Int /\ near \in Int /\ federal \in Int
      /\ If(f.occupied, 8) \in Int /\ If(f.hoa # "none", 8) \in Int
  BY DEF If, Points
<1>3. f.titleFlags \in Nat
  BY DEF IsFile
<1>4. ASSUME NEW x
      PROVE  Risk(f, x) = Clamp(known + Points(10) * x.conflicts + Doubt(x) + federal, Points(100))
  BY DEF Risk
<1> HIDE DEF open, large, bankrupt, near, federal
<1>5. known \in Int
  BY <1>1, <1>2, <1>3 DEF Points
<1> HIDE DEF known
<1>11. /\ Confidence(q) \in Int /\ Confidence(than) \in Int
       /\ Confidence(than) <= Confidence(q)
  BY ConfidenceGrows
<1>6. Doubt(q) \in Int /\ Doubt(than) \in Int /\ Doubt(q) <= Doubt(than)
  BY <1>11 DEF If, Points
<1> HIDE DEF Doubt
<1>7. q.conflicts \in Nat /\ than.conflicts \in Nat /\ q.conflicts <= than.conflicts
  BY DEF IsQuality, Better
<1>8. /\ Points(10) * q.conflicts \in Int /\ Points(10) * than.conflicts \in Int
      /\ Points(10) * q.conflicts <= Points(10) * than.conflicts
  BY <1>7 DEF Points
<1> DEFINE Sum(x) == known + Points(10) * x.conflicts + Doubt(x) + federal
<1>9. Sum(q) \in Int /\ Sum(than) \in Int /\ Sum(q) <= Sum(than)
  BY <1>2, <1>5, <1>6, <1>8
<1>10. Risk(f, q) = Clamp(Sum(q), Points(100)) /\ Risk(f, than) = Clamp(Sum(than), Points(100))
  BY <1>4
<1> HIDE DEF Sum
<1> QED
  BY <1>9, <1>10 DEF Clamp, Points

\* Clamping keeps the order.
LEMMA ClampGrows ==
  ASSUME NEW low \in Int, NEW high \in Int, low <= high
  PROVE  /\ Clamp(high, 10000) \in Int /\ Clamp(low, 10000) \in Int
         /\ Clamp(low, 10000) <= Clamp(high, 10000)
<1>1. Clamp(low, 10000) = IF low < 0 THEN 0 ELSE IF low > 10000 THEN 10000 ELSE low
  BY DEF Clamp
<1>2. Clamp(high, 10000) = IF high < 0 THEN 0 ELSE IF high > 10000 THEN 10000 ELSE high
  BY DEF Clamp
<1>3. Clamp(low, 10000) \in Int /\ Clamp(high, 10000) \in Int
  BY <1>1, <1>2
<1>5. Clamp(low, 10000) <= Clamp(high, 10000)
  BY <1>1, <1>2
<1> QED
  BY <1>3, <1>5

\* What is recommended is viable, and stands before everything that is.
LEMMA RecommendedIsBest ==
  ASSUME NEW f, IsFile(f), NEW q, Viable(f, q) # {}
  PROVE  /\ Recommended(f, q) \in Viable(f, q)
         /\ \A o \in Viable(f, q) : Standing(o) <= Standing(Recommended(f, q))
<1> DEFINE V == Viable(f, q)
           heights == {Standing(o) : o \in V}
           height == [o \in V |-> Standing(o)]
<1>1. V \subseteq f.offers
  BY DEF Viable
<1>2. IsFiniteSet(f.offers) /\ \A o \in f.offers : o.strategy \in 1..6 /\ o.profit \in Nat
  BY DEF IsFile
<1>3. heights \subseteq Int /\ heights # {}
  BY <1>1, <1>2 DEF Standing
<1>4. IsFiniteSet(heights)
  <2>1. heights = {height[o] : o \in V}
    OBVIOUS
  <2>2. height \in Surjection(V, heights)
    BY DEF Surjection
  <2>3. IsFiniteSet(V)
    BY <1>1, <1>2, FS_Subset
  <2> HIDE DEF height, heights, V
  <2> QED
    BY <2>2, <2>3, FS_Surjection
<1>5. Max(heights) \in heights /\ \A h \in heights : h <= Max(heights)
  <2> HIDE DEF heights
  <2> QED
    BY <1>3, <1>4, MaxMin
<1>6. \E o \in V : \A other \in V : Standing(other) <= Standing(o)
  BY <1>5
<1>7. Recommended(f, q)
        = CHOOSE o \in V : \A other \in V : Standing(other) <= Standing(o)
  BY DEF Recommended
<1> QED
  BY <1>6, <1>7

\* Better data leave the recommendation as it is or open wholesale, and do not
\* lower its profit.
LEMMA RecommendationGrows ==
  ASSUME NEW f, IsFile(f),
         NEW q, NEW than, IsQuality(q), IsQuality(than), Better(q, than)
  PROVE  /\ Recommended(f, q).profit >= Recommended(f, than).profit
         /\ \/ Recommended(f, q) = Recommended(f, than)
            \/ /\ Recommended(f, q).strategy = Wholesale
               /\ Recommended(f, than).strategy # Wholesale
<1> DEFINE now == Recommended(f, q)
           old == Recommended(f, than)
<1>1. /\ \A o \in f.offers : o.strategy \in 1..6 /\ o.profit \in Nat
      /\ \A o, other \in f.offers : o.strategy = other.strategy => o = other
  BY DEF IsFile
<1>2. /\ Confidence(q) \in Int /\ Confidence(than) \in Int
      /\ Confidence(than) <= Confidence(q)
  BY ConfidenceGrows
<1>3. /\ Viable(f, than) \subseteq Viable(f, q) /\ Viable(f, q) \subseteq f.offers
      /\ \A o \in Viable(f, q) \ Viable(f, than) :
            o.strategy = Wholesale /\ \A x \in Viable(f, than) : x.strategy # Wholesale
  BY <1>2 DEF Viable, Points
<1>4. CASE Viable(f, q) = {}
  <2>1. now = NoOffer /\ old = NoOffer
    BY <1>3, <1>4 DEF Recommended
  <2> QED
    BY <2>1 DEF NoOffer
<1>5. CASE Viable(f, q) # {} /\ Viable(f, than) = {}
  <2>1. old = NoOffer /\ now \in Viable(f, q)
    BY <1>5, RecommendedIsBest DEF Recommended
  <2>2. now.strategy = Wholesale /\ now.profit \in Nat
    BY <1>1, <1>3, <1>5, <2>1
  <2> QED
    BY <2>1, <2>2 DEF NoOffer, Wholesale
<1>6. CASE Viable(f, q) # {} /\ Viable(f, than) # {}
  <2>1. /\ now \in Viable(f, q) /\ old \in Viable(f, than)
        /\ \A o \in Viable(f, q) : Standing(o) <= Standing(now)
        /\ \A o \in Viable(f, than) : Standing(o) <= Standing(old)
    BY <1>6, RecommendedIsBest
  <2>2. now \in f.offers /\ old \in f.offers /\ Standing(old) <= Standing(now)
    BY <1>3, <2>1
  <2> HIDE DEF now, old
  <2>3. /\ now.strategy \in 1..6 /\ old.strategy \in 1..6
        /\ now.profit \in Nat /\ old.profit \in Nat
    BY <1>1, <2>2
  <2>4. now.profit >= old.profit
    BY <2>2, <2>3 DEF Standing
  <2>5. now = old \/ (now.strategy = Wholesale /\ old.strategy # Wholesale)
    <3>1. CASE now \in Viable(f, than)
      <4>1. Standing(now) <= Standing(old)
        BY <2>1, <3>1
      <4>2. now.strategy = old.strategy
        BY <2>2, <2>3, <4>1 DEF Standing
      <4> QED
        BY <1>1, <2>2, <4>2
    <3>2. CASE now \notin Viable(f, than)
      BY <1>3, <2>1, <3>2
    <3> QED
      BY <3>1, <3>2
  <2> QED
    BY <2>4, <2>5 DEF now, old
<1> QED
  BY <1>4, <1>5, <1>6

\* The opportunity of a file is a whole number.
LEMMA OpportunityType ==
  ASSUME NEW f, IsFile(f), NEW q
  PROVE  Opportunity(f, q) \in Int
<1> DEFINE o == Recommended(f, q)
           sum == 30 * o.profit + 25 * o.roi + 20 * f.equityShare + 15 * o.discount
                    + 10 * o.margin
<1>1. o = NoOffer \/ o \in f.offers
  BY RecommendedIsBest DEF Recommended, Viable
<1>2. o.profit \in Int /\ o.roi \in Int /\ o.discount \in Int /\ o.margin \in Int
  <2>1. /\ \A x \in f.offers : x.profit \in Int /\ x.roi \in Int /\ x.discount \in Int
                              /\ x.margin \in Int
    BY DEF IsFile
  <2> HIDE DEF o
  <2> QED
    BY <1>1, <2>1 DEF NoOffer
<1>3. f.equityShare \in Int
  BY DEF IsFile
<1>4. Opportunity(f, q) = Clamp(sum, Points(100))
  BY DEF Opportunity
<1>5. sum \in Int
  <2> HIDE DEF o
  <2> QED
    BY <1>2, <1>3
<1> HIDE DEF sum
<1> QED
  BY <1>4, <1>5 DEF Clamp, Points

\* The weighted sum of whole numbers, before the caps.
LEMMA WeightedType ==
  ASSUME NEW f, IsFile(f), NEW q, IsQuality(q)
  PROVE  Weighted(f, q) \in Int
<1>1. Better(q, q)
  BY DEF IsQuality, Better
<1>2. /\ Opportunity(f, q) \in Int /\ Distress(f) \in Int
      /\ Confidence(q) \in Int /\ Risk(f, q) \in Int
  BY <1>1, OpportunityType, DistressType, ConfidenceGrows, RiskFalls
<1> DEFINE sum == 50 * Opportunity(f, q) + 20 * Distress(f) + 20 * Confidence(q)
                    - 25 * Risk(f, q)
<1>3. sum \div 100 \in Int
  BY <1>2
<1>4. Weighted(f, q) = Clamp(sum \div 100, Points(100))
  BY DEF Weighted
<1> HIDE DEF sum
<1> QED
  BY <1>3, <1>4 DEF Clamp, Points

\* With one recommendation it grows with better data.
LEMMA WeightedGrows ==
  ASSUME NEW f, IsFile(f),
         NEW q, NEW than, IsQuality(q), IsQuality(than), Better(q, than),
         Recommended(f, q) = Recommended(f, than)
  PROVE  Weighted(f, than) <= Weighted(f, q)
<1>1. Opportunity(f, q) \in Int /\ Opportunity(f, than) = Opportunity(f, q)
  BY OpportunityType DEF Opportunity
<1>2. Distress(f) \in Int
  BY DistressType
<1>3. /\ Confidence(q) \in Int /\ Confidence(than) \in Int
      /\ Confidence(than) <= Confidence(q)
  BY ConfidenceGrows
<1>4. Risk(f, q) \in Int /\ Risk(f, than) \in Int /\ Risk(f, q) <= Risk(f, than)
  BY RiskFalls
<1> DEFINE Sum(x) == 50 * Opportunity(f, x) + 20 * Distress(f) + 20 * Confidence(x)
                      - 25 * Risk(f, x)
<1>5. Sum(q) \in Int /\ Sum(than) \in Int /\ Sum(than) <= Sum(q)
  BY <1>1, <1>2, <1>3, <1>4
<1>6. /\ Weighted(f, q) = Clamp(Sum(q) \div 100, Points(100))
      /\ Weighted(f, than) = Clamp(Sum(than) \div 100, Points(100))
  BY DEF Weighted
<1> HIDE DEF Sum
<1>7. /\ Sum(q) \div 100 \in Int /\ Sum(than) \div 100 \in Int
      /\ Sum(than) \div 100 <= Sum(q) \div 100
  BY <1>5
<1> DEFINE low == Sum(than) \div 100
           high == Sum(q) \div 100
<1>8. Weighted(f, q) = Clamp(high, 10000) /\ Weighted(f, than) = Clamp(low, 10000)
  BY <1>6 DEF Points
<1>10. low \in Int /\ high \in Int /\ low <= high
  BY <1>7
<1> HIDE DEF low, high
<1>9. /\ Clamp(high, 10000) \in Int /\ Clamp(low, 10000) \in Int
      /\ Clamp(low, 10000) <= Clamp(high, 10000)
  BY <1>10, ClampGrows
<1> QED
  BY <1>8, <1>9 DEF Points

\* Better data close no gate.
LEMMA GatesFall ==
  ASSUME NEW f, NEW q, NEW than, IsQuality(q), IsQuality(than), Better(q, than)
  PROVE  Gates(f, q) \subseteq Gates(f, than)
<1>1. /\ Confidence(q) \in Int /\ Confidence(than) \in Int
      /\ Confidence(than) <= Confidence(q)
  BY ConfidenceGrows
<1> QED
  BY <1>1 DEF Gates, Points

\* The score is the least of the weighted sum and the caps.
LEMMA OverallIsLeast ==
  ASSUME NEW f, NEW q, Weighted(f, q) \in Int
  PROVE  LET bounds == {Weighted(f, q)} \cup {CapOf(g) : g \in Gates(f, q)}
         IN  Overall(f, q) \in bounds /\ \A b \in bounds : b \in Int /\ Overall(f, q) <= b
<1> DEFINE bounds == {Weighted(f, q)} \cup {CapOf(g) : g \in Gates(f, q)}
           most == {Weighted(f, q), Points(45), Points(70), Points(100)}
<1>1. bounds \subseteq most /\ most \subseteq Int /\ bounds # {}
  BY DEF CapOf, Points
<1>2. IsFiniteSet(most)
  <2>1. IsFiniteSet({Weighted(f, q)})
    BY FS_Singleton
  <2>3. IsFiniteSet({Weighted(f, q)} \cup {Points(45)})
    BY <2>1, FS_AddElement
  <2>4. IsFiniteSet({Weighted(f, q)} \cup {Points(45)} \cup {Points(70)})
    BY <2>3, FS_AddElement
  <2>5. IsFiniteSet({Weighted(f, q)} \cup {Points(45)} \cup {Points(70)} \cup {Points(100)})
    BY <2>4, FS_AddElement
  <2>2. most = {Weighted(f, q)} \cup {Points(45)} \cup {Points(70)} \cup {Points(100)}
    OBVIOUS
  <2> QED
    BY <2>5, <2>2
<1>3. IsFiniteSet(bounds)
  BY <1>1, <1>2, FS_Subset
<1>4. Overall(f, q) = Min(bounds)
  BY DEF Overall
<1> HIDE DEF most
<1> HIDE DEF bounds
<1>5. Min(bounds) \in bounds /\ \A b \in bounds : Min(bounds) <= b
  BY <1>1, <1>3, MaxMin
<1>6. bounds \subseteq Int
  BY <1>1
<1> QED
  BY <1>4, <1>5, <1>6 DEF bounds

\* Neither the penalties, nor the caps, nor the gates work against better data.
LEMMA BetterDataScoreHigher ==
  ASSUME NEW f, IsFile(f),
         NEW q, NEW than, IsQuality(q), IsQuality(than), Better(q, than)
  PROVE  /\ Recommended(f, q) = Recommended(f, than) => Overall(f, than) <= Overall(f, q)
         /\ Gates(f, q) \subseteq Gates(f, than)
<1>1. /\ Weighted(f, q) \in Int /\ Weighted(f, than) \in Int
      /\ Recommended(f, q) = Recommended(f, than) => Weighted(f, than) <= Weighted(f, q)
  BY WeightedType, WeightedGrows
<1>2. Gates(f, q) \subseteq Gates(f, than)
  BY GatesFall
<1>3. /\ Overall(f, q) \in {Weighted(f, q)} \cup {CapOf(g) : g \in Gates(f, q)}
      /\ Overall(f, q) \in Int /\ Overall(f, than) \in Int
  BY <1>1, OverallIsLeast
<1>4. /\ Overall(f, than) <= Weighted(f, than)
      /\ \A g \in Gates(f, than) : Overall(f, than) <= CapOf(g)
  BY <1>1, OverallIsLeast
<1> QED
  BY <1>1, <1>2, <1>3, <1>4

\* Every stored score is a whole number of hundredths.
LEMMA OverallType ==
  ASSUME NEW c \in Cases
  PROVE  RowOf[c].overall \in Int
<1>1. IsFile(c.file) /\ IsQuality(c.quality)
  BY CasesAssumption
<1>3. Weighted(c.file, c.quality) \in Int
  BY <1>1, WeightedType
<1>4. Overall(c.file, c.quality) \in Int
  BY <1>3, OverallIsLeast
<1> QED
  BY <1>4 DEF RowOf, Row

(***************************************************************************)
(* The stored rankings                                                     *)
(***************************************************************************)
\* The times of rankings are different and past.
Times ==
    /\ \A r \in Rankers : ranking[r] < clock
    /\ \A entry \in rankRows : entry.at < clock
    /\ \A r \in Rankers : \A entry \in rankRows : entry.at # ranking[r]
    /\ \A r, s \in Rankers : r # s /\ ranking[r] # 0 => ranking[r] # ranking[s]

\* A ranking gives each of its ranks to one property.
RanksDiffer ==
    \A entry, other \in rankRows :
        entry.at = other.at /\ entry.rank = other.rank => entry.property = other.property

\* Rankings that do not overlap are stored in the order they began.
InTurn ==
    overlapped \/ /\ \A r, s \in Rankers : ranking[r] # 0 /\ ranking[s] # 0 => r = s
                  /\ \A r \in Rankers : \A entry \in rankRows :
                        ranking[r] # 0 => entry.at < ranking[r]
                  /\ MovementIsFromLast

\* Of some rows, those before a time.
Earlier(rows, t) == {entry \in rows : entry.at < t}

RankInv == RankingTypeOK /\ Times /\ RanksDiffer /\ InTurn

\* The fields of a stored row.
LEMMA RowFields ==
  ASSUME RankingTypeOK, NEW entry \in rankRows
  PROVE  /\ entry.property \in Listed /\ entry.rank \in Nat \ {0} /\ entry.previous \in Nat
         /\ entry.at \in 1..MaxRankings /\ entry.at \in Int
BY RankingAssumption DEF RankingTypeOK

\* The order of the window function has no ties.
LEMMA AheadIsOrder ==
  ASSUME RankingTypeOK
  PROVE  /\ \A p, q \in Contestants : p # q => Ahead(p, q) \/ Ahead(q, p)
         /\ \A p \in Contestants : ~Ahead(p, p)
         /\ \A p, q, x \in Contestants : Ahead(x, p) /\ Ahead(p, q) => Ahead(x, q)
<1>1. \A p \in Contestants : p \in Int /\ ScoreOf(p) \in Int
  <2>1. ASSUME NEW p \in Contestants PROVE p \in Int /\ ScoreOf(p) \in Int
    <3>1. p \in Listed /\ case[p] \in Cases
      BY DEF Contestants, Rankable, RankingTypeOK
    <3>2. p \in Int
      BY <3>1, RankingAssumption
    <3>3. ScoreOf(p) \in Int
      BY <3>1, OverallType DEF ScoreOf
    <3> QED
      BY <3>2, <3>3
  <2> QED
    BY <2>1
<1> HIDE DEF Contestants
<1> QED
  BY <1>1 DEF Ahead

\* How many contestants are before one.
PlaceOf(p) == Cardinality({q \in Contestants : Ahead(q, p)})

\* So no two contestants have as many before them.
LEMMA RankOfContestant ==
  ASSUME RankingTypeOK
  PROVE  /\ \A p \in Contestants : PlaceOf(p) \in Nat
         /\ \A p, q \in Contestants : PlaceOf(p) = PlaceOf(q) => p = q
<1> DEFINE Before_(p) == {x \in Contestants : Ahead(x, p)}
<1>1. IsFiniteSet(Contestants)
  BY RankingAssumption, FS_Subset DEF Contestants
<1>2. \A p : IsFiniteSet(Before_(p)) /\ Cardinality(Before_(p)) \in Nat
  <2>1. \A p : Before_(p) \in SUBSET Contestants
    OBVIOUS
  <2> HIDE DEF Before_
  <2> QED
    BY <1>1, <2>1, FS_Subset, FS_CardinalityType
<1>3. ASSUME NEW p \in Contestants, NEW q \in Contestants, Ahead(p, q)
      PROVE  Cardinality(Before_(p)) # Cardinality(Before_(q))
  <2>1. Before_(p) \in SUBSET Before_(q)
    BY <1>3, AheadIsOrder
  <2>2. p \in Before_(q) /\ p \notin Before_(p)
    BY <1>3, AheadIsOrder
  <2> HIDE DEF Before_
  <2> QED
    BY <1>2, <2>1, <2>2, FS_Subset
<1>4. ASSUME NEW p \in Contestants, NEW q \in Contestants,
             Cardinality(Before_(p)) = Cardinality(Before_(q)), p # q
      PROVE  FALSE
  <2> HIDE DEF Before_
  <2> QED
    BY <1>3, <1>4, AheadIsOrder
<1> QED
  BY <1>2, <1>4 DEF PlaceOf

\* The row a ranking writes of a property.
RankRow(p, t) ==
    [property |-> p, rank |-> 1 + PlaceOf(p), previous |-> PreviousRank(p), at |-> t]

\* What the newest ranking says of a property.
LEMMA PreviousRankIs ==
  ASSUME RankingTypeOK, NEW p
  PROVE  LET last == {entry \in Newest(rankRows) : entry.property = p}
         IN  /\ PreviousRank(p) \in Nat
             /\ last = {} => PreviousRank(p) = 0
             /\ last # {} => \E entry \in last : entry.rank = PreviousRank(p)
<1> DEFINE last == {entry \in Newest(rankRows) : entry.property = p}
           chosen == CHOOSE entry \in last : TRUE
<1>1. PreviousRank(p) = IF last = {} THEN 0 ELSE chosen.rank
  BY DEF PreviousRank
<1>2. last # {} => chosen \in last
  OBVIOUS
<1>3. \A entry \in last : entry \in rankRows
  BY DEF Newest
<1>4. last # {} => chosen.rank \in Nat
  <2> HIDE DEF last, chosen
  <2> QED
    BY <1>2, <1>3, RowFields
<1> HIDE DEF last, chosen
<1> QED
  BY <1>1, <1>2, <1>4 DEF last

(* Nothing is scored or ranked at first.                                        *)
LEMMA RankInitInv ==
  ASSUME RankingInit
  PROVE  RankInv
<1>1. RankingTypeOK
  <2>1. 1 \in 1..(MaxRankings + 1) /\ 0 \in 0..MaxRankings
    BY RankingAssumption
  <2>2. /\ case \in [Listed -> Cases \cup {Unscored}]
        /\ hidden \in [Listed -> BOOLEAN] /\ merged \in [Listed -> BOOLEAN]
    BY DEF RankingInit
  <2>3. ranking \in [Rankers -> 0..MaxRankings] /\ clock \in 1..(MaxRankings + 1)
    BY <2>1 DEF RankingInit
  <2> QED
    BY <2>2, <2>3 DEF RankingInit, RankingTypeOK
<1>2. Times /\ RanksDiffer
  BY DEF RankingInit, Times, RanksDiffer
<1>3. InTurn
  BY DEF RankingInit, InTurn, MovementIsFromLast
<1> QED
  BY <1>1, <1>2, <1>3 DEF RankInv

\* Recomputes, archiving and merging leave the rankings alone.
LEMMA RankQuietInv ==
  ASSUME RankInv, UNCHANGED <<ranking, clock, rankRows, overlapped>>, RankingTypeOK'
  PROVE  RankInv'
<1>1. Times' /\ RanksDiffer'
  BY DEF RankInv, Times, RanksDiffer
<1>2. InTurn'
  BY DEF RankInv, InTurn, MovementIsFromLast, Before, Newest
<1> QED
  BY <1>1, <1>2 DEF RankInv

(* A ranking takes a time of its own.                                           *)
LEMMA BeginRankingInv ==
  ASSUME RankInv, NEW r \in Rankers, BeginRanking(r)
  PROVE  RankInv'
<1>1. /\ ranking[r] = 0 /\ clock <= MaxRankings
      /\ ranking' = [ranking EXCEPT ![r] = clock]
      /\ clock' = clock + 1
      /\ overlapped' = (overlapped \/ \E other \in Rankers : ranking[other] # 0)
      /\ UNCHANGED <<case, hidden, merged, rankRows>>
  BY DEF BeginRanking
<1>2. /\ ranking \in [Rankers -> 0..MaxRankings] /\ clock \in 1..(MaxRankings + 1)
      /\ MaxRankings \in Nat /\ clock \in Int
  BY RankingAssumption DEF RankInv, RankingTypeOK
<1>3. RankingTypeOK'
  BY <1>1, <1>2 DEF RankInv, RankingTypeOK
<1>4. \A s \in Rankers : ranking'[s] = IF s = r THEN clock ELSE ranking[s]
  BY <1>1, <1>2
<1>5. \A entry \in rankRows : entry.at \in Int /\ entry.at < clock
  BY RowFields DEF RankInv, Times
<1>6. \A s \in Rankers : ranking[s] \in Int /\ ranking[s] < clock
  BY <1>2 DEF RankInv, Times
<1>7. Times'
  <2>1. \A s \in Rankers : ranking'[s] < clock'
    BY <1>1, <1>2, <1>4, <1>6
  <2>2. \A entry \in rankRows' : entry.at < clock'
    BY <1>1, <1>2, <1>5
  <2>3. \A s \in Rankers : \A entry \in rankRows' : entry.at # ranking'[s]
    BY <1>1, <1>2, <1>4, <1>5 DEF RankInv, Times
  <2>4. \A s, t \in Rankers : s # t /\ ranking'[s] # 0 => ranking'[s] # ranking'[t]
    BY <1>2, <1>4, <1>6 DEF RankInv, Times
  <2> QED
    BY <2>1, <2>2, <2>3, <2>4 DEF Times
<1>8. RanksDiffer'
  BY <1>1 DEF RankInv, RanksDiffer
<1>9. InTurn'
  <2>1. SUFFICES ASSUME ~overlapped' PROVE InTurn'
    BY DEF InTurn
  <2>2. ~overlapped /\ \A s \in Rankers : ranking[s] = 0
    BY <1>1, <2>1 DEF RankInv, RankingTypeOK
  <2>3. \A s, t \in Rankers : ranking'[s] # 0 /\ ranking'[t] # 0 => s = t
    BY <1>4, <2>2
  <2>4. \A s \in Rankers : \A entry \in rankRows' : ranking'[s] # 0 => entry.at < ranking'[s]
    BY <1>1, <1>4, <1>5, <2>2
  <2>5. MovementIsFromLast'
    BY <1>1, <2>2 DEF RankInv, InTurn, MovementIsFromLast, Before, Newest
  <2> QED
    BY <2>3, <2>4, <2>5 DEF InTurn
<1> QED
  BY <1>3, <1>7, <1>8, <1>9 DEF RankInv

(* A ranking inserts one row for each contestant, in the order of scores.       *)
LEMMA InsertRanksInv ==
  ASSUME RankInv, NEW r \in Rankers, InsertRanks(r)
  PROVE  RankInv'
<1> PICK now : now = ranking[r]
  OBVIOUS
<1> DEFINE new == {RankRow(p, now) : p \in Contestants}
<1>1. /\ now # 0 /\ rankRows' = rankRows \cup new
      /\ ranking' = [ranking EXCEPT ![r] = 0]
      /\ UNCHANGED <<case, hidden, merged, clock, overlapped>>
  BY DEF InsertRanks, RankRow, PlaceOf
<1>2. /\ ranking \in [Rankers -> 0..MaxRankings] /\ clock \in 1..(MaxRankings + 1)
      /\ MaxRankings \in Nat /\ clock \in Int
  BY RankingAssumption DEF RankInv, RankingTypeOK
<1>3. now \in 1..MaxRankings /\ now \in Int /\ now < clock
  BY <1>1, <1>2 DEF RankInv, Times
<1>4. \A s \in Rankers : ranking'[s] = IF s = r THEN 0 ELSE ranking[s]
  BY <1>1, <1>2
<1>5. ASSUME NEW entry \in new
      PROVE  /\ entry \in [property : Listed, rank : Nat \ {0}, previous : Nat, at : 1..MaxRankings]
             /\ entry.at = now /\ entry.property \in Contestants
             /\ entry.rank = 1 + PlaceOf(entry.property)
             /\ entry.previous = PreviousRank(entry.property)
  <2>1. PICK p \in Contestants : entry = RankRow(p, now)
    OBVIOUS
  <2>2. PlaceOf(p) \in Nat
    BY RankOfContestant DEF RankInv
  <2>3. PreviousRank(p) \in Nat
    BY PreviousRankIs DEF RankInv
  <2>4. p \in Listed
    BY DEF Contestants
  <2>5. 1 + PlaceOf(p) \in Nat \ {0}
    BY <2>2
  <2> QED
    BY <1>3, <2>1, <2>3, <2>4, <2>5 DEF RankRow
<1> HIDE DEF new
<1>6. RankingTypeOK'
  <2>1. rankRows' \subseteq [property : Listed, rank : Nat \ {0}, previous : Nat,
                             at : 1..MaxRankings]
    BY <1>1, <1>5 DEF RankInv, RankingTypeOK
  <2>2. ranking' \in [Rankers -> 0..MaxRankings]
    BY <1>1, <1>2
  <2> QED
    BY <1>1, <2>1, <2>2 DEF RankInv, RankingTypeOK
<1>7. \A entry \in rankRows : entry.at \in Int /\ entry.at >= 1 /\ entry.at < clock /\ entry.at # now
  BY RowFields DEF RankInv, Times
<1>8. Times'
  <2>1. \A s \in Rankers : ranking'[s] < clock'
    BY <1>1, <1>2, <1>4 DEF RankInv, Times
  <2>2. \A entry \in rankRows' : entry.at < clock'
    BY <1>1, <1>3, <1>5, <1>7
  <2>3. ASSUME NEW s \in Rankers, NEW entry \in rankRows' PROVE entry.at # ranking'[s]
    <3>1. CASE entry \in rankRows
      BY <1>4, <1>7, <3>1 DEF RankInv, Times
    <3>2. CASE entry \in new
      <4>1. entry.at = now
        BY <1>5, <3>2
      <4>2. s = r \/ ranking[s] # now
        BY <1>1 DEF RankInv, Times
      <4> QED
        BY <1>1, <1>4, <4>1, <4>2
    <3> QED
      BY <1>1, <3>1, <3>2
  <2>4. \A s, t \in Rankers : s # t /\ ranking'[s] # 0 => ranking'[s] # ranking'[t]
    BY <1>2, <1>4 DEF RankInv, Times
  <2> QED
    BY <2>1, <2>2, <2>3, <2>4 DEF Times
<1>9. RanksDiffer'
  <2>1. ASSUME NEW entry \in rankRows', NEW other \in rankRows',
               entry.at = other.at, entry.rank = other.rank
        PROVE  entry.property = other.property
    <3>1. CASE entry \in rankRows /\ other \in rankRows
      BY <2>1, <3>1 DEF RankInv, RanksDiffer
    <3>2. CASE entry \in new /\ other \in new
      <4>1. /\ entry.property \in Contestants /\ other.property \in Contestants
            /\ entry.rank = 1 + PlaceOf(entry.property)
            /\ other.rank = 1 + PlaceOf(other.property)
        BY <1>5, <3>2
      <4>2. /\ PlaceOf(entry.property) \in Nat
            /\ PlaceOf(other.property) \in Nat
        BY <4>1, RankOfContestant DEF RankInv
      <4>3. PlaceOf(entry.property) = PlaceOf(other.property)
        <5>1. 1 + PlaceOf(entry.property) = 1 + PlaceOf(other.property)
          BY <2>1, <4>1
        <5> QED
          BY <4>2, <5>1
      <4> QED
        BY <4>1, <4>3, RankOfContestant DEF RankInv
    <3>3. CASE entry \in new /\ other \in rankRows
      BY <1>5, <1>7, <2>1, <3>3
    <3>4. CASE entry \in rankRows /\ other \in new
      BY <1>5, <1>7, <2>1, <3>4
    <3> QED
      BY <1>1, <3>1, <3>2, <3>3, <3>4
  <2> QED
    BY <2>1 DEF RanksDiffer
<1>10. InTurn'
  <2>1. SUFFICES ASSUME ~overlapped' PROVE InTurn'
    BY DEF InTurn
  <2>2. ~overlapped
    BY <1>1, <2>1
  <2>3. \A s \in Rankers : ranking'[s] = 0
    BY <1>1, <1>4, <2>2 DEF RankInv, InTurn
  <2>4. \A entry \in rankRows : entry.at < now
    BY <1>1, <2>2 DEF RankInv, InTurn
  <2>5. ASSUME NEW entry \in rankRows
        PROVE  Newest(Earlier(rankRows', entry.at)) = Before(entry)
    <3>1. Earlier(rankRows', entry.at) = Earlier(rankRows, entry.at)
      BY <1>1, <1>3, <1>5, <1>7, <2>4 DEF Earlier
    <3>2. Before(entry) = Newest(Earlier(rankRows, entry.at))
      BY DEF Before, Earlier
    <3> QED
      BY <3>1, <3>2
  <2>6. ASSUME NEW entry \in new
        PROVE  Newest(Earlier(rankRows', entry.at)) = Newest(rankRows)
    <3>1. Earlier(rankRows', entry.at) = rankRows
      BY <1>1, <1>3, <1>5, <1>7, <2>4 DEF Earlier
    <3> QED
      BY <3>1
  <2>7. ASSUME NEW entry \in rankRows'
        PROVE  LET last == {other \in Newest(Earlier(rankRows', entry.at)) :
                              other.property = entry.property}
               IN  IF last = {} THEN entry.previous = 0
                   ELSE \E other \in last : other.rank = entry.previous
    <3>1. CASE entry \in rankRows
      BY <2>2, <2>5, <3>1 DEF RankInv, InTurn, MovementIsFromLast, Before
    <3>2. CASE entry \in new
      <4>1. entry.previous = PreviousRank(entry.property)
        BY <1>5, <3>2
      <4> QED
        BY <2>6, <3>2, <4>1, PreviousRankIs DEF RankInv
    <3> QED
      BY <1>1, <3>1, <3>2
  <2>8. MovementIsFromLast'
    BY <2>7 DEF MovementIsFromLast, Before, Earlier
  <2> QED
    BY <2>3, <2>8 DEF InTurn
<1> QED
  BY <1>6, <1>8, <1>9, <1>10 DEF RankInv

(* Every step keeps the invariant.                                              *)
LEMMA RankStep ==
  ASSUME RankInv, [RankingNext]_rankingVars
  PROVE  RankInv'
<1>1. RankingTypeOK
  BY DEF RankInv
<1>2. ASSUME NEW p \in Listed, NEW c \in Cases, RecomputeScore(p, c)
      PROVE  RankInv'
  <2>1. /\ case' = [case EXCEPT ![p] = c]
        /\ UNCHANGED <<hidden, merged, ranking, clock, rankRows, overlapped>>
    BY <1>2 DEF RecomputeScore
  <2>2. RankingTypeOK'
    BY <1>1, <2>1 DEF RankingTypeOK
  <2> QED
    BY <2>1, <2>2, RankQuietInv
<1>3. ASSUME NEW p \in Listed, SetHidden(p)
      PROVE  RankInv'
  <2>1. /\ hidden' = [hidden EXCEPT ![p] = ~@]
        /\ UNCHANGED <<case, merged, ranking, clock, rankRows, overlapped>>
    BY <1>3 DEF SetHidden
  <2>2. RankingTypeOK'
    BY <1>1, <2>1 DEF RankingTypeOK
  <2> QED
    BY <2>1, <2>2, RankQuietInv
<1>4. ASSUME NEW p \in Listed, SetMerged(p)
      PROVE  RankInv'
  <2>1. /\ merged' = [merged EXCEPT ![p] = ~@]
        /\ UNCHANGED <<case, hidden, ranking, clock, rankRows, overlapped>>
    BY <1>4 DEF SetMerged
  <2>2. RankingTypeOK'
    BY <1>1, <2>1 DEF RankingTypeOK
  <2> QED
    BY <2>1, <2>2, RankQuietInv
<1>5. ASSUME UNCHANGED rankingVars
      PROVE  RankInv'
  <2>1. RankingTypeOK' /\ UNCHANGED <<ranking, clock, rankRows, overlapped>>
    BY <1>1, <1>5 DEF rankingVars, RankingTypeOK
  <2> QED
    BY <2>1, RankQuietInv
<1> QED
  BY <1>2, <1>3, <1>4, <1>5, BeginRankingInv, InsertRanksInv DEF RankingNext

(* Rankings have different times, each gives a rank to one property, and while  *)
(* none overlap each is inserted after all that began before it and names the   *)
(* ranks of the last of them (RANKINGS_SQL).                                    *)
THEOREM RankInvariant == RankingSpec => []RankInv
<1>1. RankingInit => RankInv
  BY RankInitInv
<1>2. RankInv /\ [RankingNext]_rankingVars => RankInv'
  BY RankStep
<1> QED
  BY <1>1, <1>2, PTL DEF RankingSpec

\* The variables of the ranking have their types.
THEOREM RankingTyped == RankingSpec => []RankingTypeOK
<1>1. RankInv => RankingTypeOK
  BY DEF RankInv
<1> QED
  BY <1>1, RankInvariant, PTL

(* Better data of one file open no gate, and lower its score only by opening   *)
(* wholesale.                                                                  *)
LEMMA ConfidentByType ==
  ASSUME RankingTypeOK
  PROVE  ConfidenceNeverHurts
<1>1. ASSUME NEW p \in Listed, case[p] # Unscored,
             NEW q \in Qualities, Better(q, case[p].quality)
      PROVE  LET now == RowOf[case[p]]
                 better == RowWith[case[p]][q]
             IN  /\ better.gates \subseteq now.gates
                 /\ better.recommended.profit >= now.recommended.profit
                 /\ \/ better.overall >= now.overall
                    \/ /\ better.recommended.strategy = Wholesale
                       /\ now.recommended.strategy # Wholesale
  <2> PICK c : c = case[p]
    OBVIOUS
  <2>1. c \in Cases
    BY <1>1 DEF RankingTypeOK
  <2>2. IsFile(c.file) /\ IsQuality(c.quality) /\ IsQuality(q)
    BY <2>1, CasesAssumption
  <2> PICK f : f = c.file
    OBVIOUS
  <2> PICK than : than = c.quality
    OBVIOUS
  <2>3. /\ Recommended(f, q) = Recommended(f, than) => Overall(f, than) <= Overall(f, q)
        /\ Gates(f, q) \subseteq Gates(f, than)
    BY <1>1, <2>2, BetterDataScoreHigher
  <2>4. /\ Recommended(f, q).profit >= Recommended(f, than).profit
        /\ \/ Recommended(f, q) = Recommended(f, than)
           \/ /\ Recommended(f, q).strategy = Wholesale
              /\ Recommended(f, than).strategy # Wholesale
    BY <1>1, <2>2, RecommendationGrows
  <2>5. /\ Overall(f, than) \in Int /\ Overall(f, q) \in Int
    BY <2>2, WeightedType, OverallIsLeast
  <2>6. /\ RowOf[c].overall = Overall(f, than) /\ RowOf[c].gates = Gates(f, than)
        /\ RowOf[c].recommended = Recommended(f, than)
    BY <2>1 DEF RowOf, Row
  <2>7. /\ RowWith[c][q].overall = Overall(f, q) /\ RowWith[c][q].gates = Gates(f, q)
        /\ RowWith[c][q].recommended = Recommended(f, q)
    BY <2>1 DEF RowWith, Row
  <2> QED
    BY <2>3, <2>4, <2>5, <2>6, <2>7
<1> QED
  BY <1>1 DEF ConfidenceNeverHurts

\* Whatever is found of a property, better data about it neither take it off the
\* ranking nor recommend less profit, and lower its score only by making
\* wholesale what is recommended (_dcs, _risk, _recommend, score).
THEOREM BetterDataNeverHurt == RankingSpec => []ConfidenceNeverHurts
<1>1. RankInv => ConfidenceNeverHurts
  BY ConfidentByType DEF RankInv
<1> QED
  BY <1>1, RankInvariant, PTL

(* The pages show what the rows say.                                            *)
LEMMA HonestByInv ==
  ASSUME RankInv
  PROVE  RankingIsHonest
<1>1. overlapped \/ MovementIsFromLast
  BY DEF RankInv, InTurn
<1>2. ASSUME NEW p \in Listed, NEW q \in Listed, NEW r \in ShownRow(p), NEW s \in ShownRow(q),
             p # q, r.rank = s.rank, {r, s} \subseteq Newest(rankRows)
      PROVE  FALSE
  <2>1. /\ r \in rankRows /\ s \in rankRows /\ r.property = p /\ s.property = q
        /\ s.at <= r.at /\ r.at <= s.at
    BY <1>2 DEF ShownRow, Newest
  <2>2. r.at \in Int /\ s.at \in Int
    BY <2>1, RowFields DEF RankInv
  <2>3. r.at = s.at
    BY <2>1, <2>2
  <2> QED
    BY <1>2, <2>1, <2>3 DEF RankInv, RanksDiffer
<1>3. ASSUME NEW entry \in RankingPage
      PROVE  entry \in ShownRow(entry.property)
  BY <1>3 DEF RankingPage, ShownRow, Newest
<1> QED
  BY <1>1, <1>2, <1>3 DEF RankingIsHonest

\* Movements, ranks and pages agree, whatever is archived, merged or scored
\* between the rankings (RANKINGS_SQL, _latest_ranks, GET /rankings).
THEOREM RankingsAreHonest == RankingSpec => []RankingIsHonest
<1>1. RankInv => RankingIsHonest
  BY HonestByInv
<1> QED
  BY <1>1, RankInvariant, PTL

(*****************************************************************************)
(* MCRegistry: the components side by side, as the run checks them.          *)
(*****************************************************************************)

(* A step of the register is a step of one component, and each of the others    *)
(* stutters.                                                                    *)
LEMMA OneComponent ==
  RegistrySpec => /\ IntakeSpec /\ UploadSpec /\ IdentitySpec
                  /\ OwnerSpec /\ LedgerSpec /\ RankingSpec
<1>1. RegistryInit => /\ IntakeInit /\ UploadInit /\ IdentityInit
                      /\ OwnerInit /\ LedgerInit /\ RankingInit
  BY DEF RegistryInit
<1>2. [RegistryNext]_registryVars =>
         /\ [IntakeNext]_intakeVars /\ [UploadNext]_uploadVars
         /\ [IdentityNext]_identityVars /\ [OwnerNext]_ownerVars
         /\ [LedgerNext]_ledgerVars /\ [RankingNext]_rankingVars
  BY DEF RegistryNext, registryVars
<1> QED
  BY <1>1, <1>2, PTL DEF RegistrySpec, IntakeSpec, UploadSpec, IdentitySpec, OwnerSpec,
     LedgerSpec, RankingSpec

(* Every variable of the register has its type: pastes and uploads, properties  *)
(* and owners, the review queue and the ranking.                                *)
THEOREM RegistryTyped == RegistrySpec => []RegistryTypeOK
<1>1. IntakeInv => IntakeTypeOK
  BY DEF IntakeInv
<1>2. UploadInv => UploadTypeOK
  BY DEF UploadInv
<1>3. IntakeTypeOK /\ UploadTypeOK /\ IdentityTypeOK /\ OwnerTypeOK /\ LedgerTypeOK
         /\ RankingTypeOK => RegistryTypeOK
  BY DEF RegistryTypeOK
<1> QED
  BY <1>1, <1>2, <1>3, OneComponent, IntakeInvariant, UploadInvariant, IdentityTyped,
     OwnersRowsTyped, LedgerTyped, RankingTyped, PTL

(* No batch waits for something that nobody is going to do, whoever pasted the  *)
(* text (api/app.py ingest_text) or brought the file before                     *)
(* (ingestion/pdf_service.py, pipeline/document_orchestrator.py).               *)
THEOREM NobodyWaitsForNobody == RegistrySpec => []BatchesAttended
<1>1. BatchAttended /\ UploadAttended => BatchesAttended
  BY DEF BatchesAttended
<1> QED
  BY <1>1, OneComponent, IngestingIsAttended, UploadsAreAttended, PTL
==============================================================================
