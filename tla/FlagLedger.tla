----------------------------- MODULE FlagLedger -----------------------------
(* The review queue of one property and the recomputation that keeps it:   *)
(* flags/store.py, flags/service.py, Pipeline.recompute and its worker     *)
(* handlers, the API's add_fact, recompute and resolve_flag, and rank_scope.*)
(* A recompute job takes the property's advisory lock, reads the facts,    *)
(* reads the flags, and commits results and flags together; then its       *)
(* handler enqueues a re-rank.  Two dedupe keys name such jobs, so two may *)
(* run at once.  Humans resolve flags and add facts meanwhile, and the     *)
(* identity resolver raises conflicts of its own.                          *)
EXTENDS Naturals, Sequences, FiniteSets

CONSTANTS
    Issues,     \* logical issues a recompute can find
    Conflict,   \* the issue the identity resolver raises; not found by a recompute
    Prints,     \* fingerprints of a finding: what its payload says
    MaxEvents,  \* how often the facts change or a recompute fails
    MaxRows,    \* how many flags the ledger may hold
    Absent      \* no finding; a field without a value

ASSUME LedgerAssumption ==
    /\ IsFiniteSet(Issues) /\ Conflict \notin Issues
    /\ MaxEvents \in Nat /\ MaxRows \in Nat
    /\ Absent \notin Prints \cup {"base"}
    /\ "base" \notin Prints

(* The dedupe keys of a recompute: the API's, and that of the bulk runs. *)
JobKeys == {"recompute", "recompute_property"}

VARIABLES
    facts,      \* how often the facts of the property have changed
    findings,   \* what a recompute of the present facts finds
    archived,   \* properties.archived_at is set
    ledger,     \* the flags of the property, in the order they were inserted
    job,        \* job[k]: where the active recompute job with key k is
    saw,        \* saw[k]: the facts the job read
    before,     \* before[k]: the flags the job read
    computed,   \* the facts the stored results were computed from
    resolving,  \* flags a human's request has read as open
    rankJob,    \* where the portfolio's re-rank is
    ranked,     \* the results the newest ranking used
    lost,       \* history: a request coalesced into a job past its reading, or a job died
    rankLost,   \* history: the same for a re-rank
    failures    \* recomputes that failed so far

ledgerVars == <<facts, findings, archived, ledger, job, saw, before, computed,
                resolving, rankJob, ranked, lost, rankLost, failures>>

Findings == [Issues -> Prints \cup {Absent}]

(* A flag.  Its dedupe key is that of the issue, or of the issue and the   *)
(* fingerprint the flag was inserted with.                                 *)
FlagRows == [issue : Issues \cup {Conflict}, print : Prints \cup {Conflict},
             status : {"open", "human", "recompute"}, key : Prints \cup {"base"}]

(* A job is "queued" until it has read the facts, though a worker may have it. *)
JobPhases == {"none", "queued", "reading", "syncing", "saved"}

Sights == [facts : 0..MaxEvents, findings : Findings]

LedgerTypeOK ==
    /\ facts \in 0..MaxEvents
    /\ findings \in Findings
    /\ archived \in BOOLEAN
    /\ ledger \in Seq(FlagRows)
    /\ job \in [JobKeys -> JobPhases]
    /\ saw \in [JobKeys -> Sights]
    /\ before \in [JobKeys -> Seq(FlagRows)]
    /\ computed \in 0..MaxEvents
    /\ resolving \subseteq Nat
    /\ rankJob \in {"none", "queued", "ranked"}
    /\ ranked \in 0..MaxEvents
    /\ lost \in BOOLEAN
    /\ rankLost \in BOOLEAN
    /\ failures \in 0..MaxEvents

NothingFound == [i \in Issues |-> Absent]
NothingSeen == [facts |-> 0, findings |-> NothingFound]

LedgerInit ==
    /\ facts = 0
    /\ findings = NothingFound
    /\ archived = FALSE
    /\ ledger = <<>>
    /\ job = [k \in JobKeys |-> "none"]
    /\ saw = [k \in JobKeys |-> NothingSeen]
    /\ before = [k \in JobKeys |-> <<>>]
    /\ computed = 0
    /\ resolving = {}
    /\ rankJob = "none"
    /\ ranked = 0
    /\ lost = FALSE
    /\ rankLost = FALSE
    /\ failures = 0

----------------------------------------------------------------------------
(* sync_flags.                                                             *)

RowsOf(l, i) == {n \in 1..Len(l) : l[n].issue = i}
OpenRows(l, i) == {n \in RowsOf(l, i) : l[n].status = "open"}

(* Mistake: what returns is reopened whoever closed it.                    *)
ReopenableAlways(l, i, p) == {n \in RowsOf(l, i) : l[n].status # "open" /\ l[n].print = p}

(* Closed by a recompute, with the fingerprint that is found again. *)
Reopenable(l, i, p) == {n \in RowsOf(l, i) : l[n].status = "recompute" /\ l[n].print = p}

TakenBase(l, i, n) == \E m \in RowsOf(l, i) \ {n} : l[m].key = "base"

(* What becomes of flag n; chosen[i] is the flag of issue i to be reopened. *)
Synced(l, found, chosen, n) ==
    LET r == l[n]
        p == IF r.issue = Conflict THEN Absent ELSE found[r.issue]
    IN CASE r.status = "open" /\ p = Absent -> [r EXCEPT !.status = "recompute"]
         [] r.status = "open" /\ p # Absent ->
              [r EXCEPT !.print = p,
                        !.key = IF TakenBase(l, r.issue, n) THEN @ ELSE "base"]
         [] r.status # "open" /\ p # Absent /\ chosen[r.issue] = n ->
              [r EXCEPT !.status = "open", !.key = "base"]
         [] OTHER -> r

(* Mistake: one flag for an issue is enough. *)
IsNewIssue(l, found, i) == found[i] # Absent /\ RowsOf(l, i) = {}

(* A finding with no open flag and no flag of its fingerprint is new. *)
IsNew(l, found, i) ==
    /\ found[i] # Absent
    /\ OpenRows(l, i) = {}
    /\ \A n \in RowsOf(l, i) : l[n].print # found[i]

(* Mistake: a flag without a dedupe key.                                   *)
NewFlagUnkeyed(l, found, i) ==
    [issue |-> i, print |-> found[i], status |-> "open", key |-> Absent]

NewFlag(l, found, i) ==
    [issue |-> i, print |-> found[i], status |-> "open",
     key |-> IF TakenBase(l, i, 0) THEN found[i] ELSE "base"]

ReopenChoice(l, found, i) ==
    IF found[i] = Absent \/ OpenRows(l, i) # {} THEN {} ELSE Reopenable(l, i, found[i])

Chosen(l, found) ==
    {c \in [Issues -> 0..Len(l)] :
        \A i \in Issues : IF ReopenChoice(l, found, i) = {} THEN c[i] = 0
                          ELSE c[i] \in ReopenChoice(l, found, i)}

(* An UPDATE writes the columns that differ from what was read, over what is *)
(* there now.                                                                *)
Column(old, new, now) == IF new = old THEN now ELSE new

Rewritten(l, found, chosen) ==
    [n \in 1..Len(ledger) |->
        IF n > Len(l) THEN ledger[n]
        ELSE LET new == Synced(l, found, chosen, n) IN
             [issue  |-> ledger[n].issue,
              print  |-> Column(l[n].print, new.print, ledger[n].print),
              status |-> Column(l[n].status, new.status, ledger[n].status),
              key    |-> Column(l[n].key, new.key, ledger[n].key)]]

InsertOrders(S) == {s \in [1..Cardinality(S) -> S] : \A i \in S : \E n \in DOMAIN s : s[n] = i}

NewInOrder(l, found) == InsertOrders({i \in Issues : IsNew(l, found, i)})

(* The flags after sync_flags read l: those there were, and new ones. *)
SyncedLedger(l, found, chosen, inserted) ==
    Rewritten(l, found, chosen) \o [n \in DOMAIN inserted |-> NewFlag(l, found, inserted[n])]

(* The unique indexes: of dedupe keys, and of open flags by issue. *)
UniqueKeys(l) ==
    \A m, n \in 1..Len(l) : l[m].issue = l[n].issue /\ l[m].key = l[n].key => m = n

OneOpen(l) ==
    \A m, n \in 1..Len(l) :
        l[m].issue = l[n].issue /\ l[m].status = "open" /\ l[n].status = "open" => m = n

Legal(l) == UniqueKeys(l) /\ OneOpen(l)

----------------------------------------------------------------------------
(* Requests.                                                               *)

PastReading(k) == job[k] \in {"reading", "syncing", "saved"}

(* An enqueue meets the active job of its key, or makes one. *)
Enqueue(k) ==
    /\ job' = IF job[k] = "none" THEN [job EXCEPT ![k] = "queued"] ELSE job
    /\ lost' = (lost \/ PastReading(k))

AddFact ==
    /\ facts + failures < MaxEvents
    /\ facts' = facts + 1
    /\ findings' \in Findings
    /\ Enqueue("recompute")
    /\ UNCHANGED <<archived, ledger, saw, before, computed, resolving, rankJob, ranked, rankLost, failures>>

(* The API's recompute refuses an archived property; bulk_recompute lists none. *)
RequestRecompute(k) ==
    /\ ~archived /\ job[k] = "none"
    /\ Enqueue(k)
    /\ UNCHANGED <<facts, findings, archived, ledger, saw, before, computed, resolving,
                   rankJob, ranked, rankLost, failures>>

ReadOpenFlag(n) ==
    /\ n \in 1..Len(ledger) \ resolving
    /\ ledger[n].status = "open"
    /\ resolving' = resolving \cup {n}
    /\ UNCHANGED <<facts, findings, archived, ledger, job, saw, before, computed,
                   rankJob, ranked, lost, rankLost, failures>>

(* The status is written by what was read of it; no row is locked between. *)
ResolveFlag(n) ==
    /\ n \in resolving
    /\ resolving' = resolving \ {n}
    /\ ledger' = [ledger EXCEPT ![n].status = "human"]
    /\ Enqueue("recompute")
    /\ UNCHANGED <<facts, findings, archived, saw, before, computed, rankJob, ranked, rankLost, failures>>

SetArchivedAt(v) ==
    /\ archived # v
    /\ archived' = v
    /\ UNCHANGED <<facts, findings, ledger, job, saw, before, computed, resolving,
                   rankJob, ranked, lost, rankLost, failures>>

ArchiveProperty == SetArchivedAt(TRUE)
RestoreProperty == SetArchivedAt(FALSE)

(* persist_flags for the identity resolver: append what is not there. *)
RaiseConflict ==
    /\ RowsOf(ledger, Conflict) = {}
    /\ Len(ledger) < MaxRows
    /\ ledger' = Append(ledger, [issue |-> Conflict, print |-> Conflict,
                               status |-> "open", key |-> "base"])
    /\ UNCHANGED <<facts, findings, archived, job, saw, before, computed, resolving,
                   rankJob, ranked, lost, rankLost, failures>>

----------------------------------------------------------------------------
(* A recompute job.                                                        *)

Advance(k, phase) == job' = [job EXCEPT ![k] = phase]

(* Mistake: no advisory lock. *)
LockIgnored == TRUE

(* The advisory lock is held from here to the commit. *)
LockFree == \A k \in JobKeys : job[k] \notin {"reading", "syncing"}

ReadFacts(k) ==
    /\ job[k] = "queued" /\ LockFree /\ ~archived
    /\ Advance(k, "reading")
    /\ saw' = [saw EXCEPT ![k] = [facts |-> facts, findings |-> findings]]
    /\ lost' = FALSE
    /\ UNCHANGED <<facts, findings, archived, ledger, before, computed, resolving,
                   rankJob, ranked, rankLost, failures>>

ReadFlags(k) ==
    /\ job[k] = "reading"
    /\ Advance(k, "syncing")
    /\ before' = [before EXCEPT ![k] = ledger]
    /\ UNCHANGED <<facts, findings, archived, ledger, saw, computed, resolving,
                   rankJob, ranked, lost, rankLost, failures>>

Forget(k) ==
    /\ saw' = [saw EXCEPT ![k] = NothingSeen]
    /\ before' = [before EXCEPT ![k] = <<>>]

(* replace_results, sync_flags and mark_recomputed in one transaction. *)
Save(k) ==
    /\ job[k] = "syncing"
    /\ LET l == before[k]
           found == saw[k].findings
       IN \E chosen \in Chosen(l, found), inserted \in NewInOrder(l, found) :
            LET new == SyncedLedger(l, found, chosen, inserted)
            IN Legal(new) /\ Len(new) <= MaxRows /\ ledger' = new
    /\ computed' = saw[k].facts
    /\ Advance(k, "saved")
    /\ Forget(k)
    /\ UNCHANGED <<facts, findings, archived, resolving, rankJob, ranked, lost, rankLost, failures>>

(* The transaction or the worker fails: the job is retried, or is dead.  It *)
(* always fails on an archived property and on a ledger the indexes refuse.  *)
Fail(k, phase) ==
    /\ facts + failures < MaxEvents
    /\ failures' = failures + 1
    /\ Advance(k, phase)
    /\ Forget(k)
    /\ UNCHANGED <<facts, findings, archived, ledger, computed, resolving, rankJob, ranked>>

Retry(k) ==
    /\ PastReading(k)
    /\ Fail(k, "queued")
    /\ UNCHANGED <<lost, rankLost>>

Die(k) ==
    /\ job[k] # "none"
    /\ Fail(k, "none")
    /\ lost' = (lost \/ job[k] # "saved")
    /\ rankLost' = TRUE

(* The handler enqueues the re-rank after the commit, and the job ends. *)
EnqueueRank(k) ==
    /\ job[k] = "saved"
    /\ Advance(k, "none")
    /\ rankJob' = IF rankJob = "none" THEN "queued" ELSE rankJob
    /\ rankLost' = (rankLost \/ rankJob = "ranked")
    /\ UNCHANGED <<facts, findings, archived, ledger, saw, before, computed, resolving,
                   ranked, lost, failures>>

(* rank_scope is one statement. *)
Rank ==
    /\ rankJob = "queued"
    /\ rankJob' = "ranked"
    /\ ranked' = computed
    /\ rankLost' = FALSE
    /\ UNCHANGED <<facts, findings, archived, ledger, job, saw, before, computed, resolving, lost, failures>>

RankEnds ==
    /\ rankJob = "ranked"
    /\ rankJob' \in {"none", "queued"}
    /\ UNCHANGED <<facts, findings, archived, ledger, job, saw, before, computed, resolving,
                   ranked, lost, rankLost, failures>>

LedgerNext ==
    \/ \E k \in JobKeys :
         \/ RequestRecompute(k) \/ ReadFacts(k) \/ ReadFlags(k) \/ Save(k)
         \/ EnqueueRank(k) \/ Retry(k) \/ Die(k)
    \/ AddFact
    \/ \E n \in 1..Len(ledger) : ReadOpenFlag(n) \/ ResolveFlag(n)
    \/ RaiseConflict \/ ArchiveProperty \/ RestoreProperty \/ Rank \/ RankEnds

LedgerSpec == LedgerInit /\ [][LedgerNext]_ledgerVars
----------------------------------------------------------------------------
(* Properties.                                                             *)

(* Stored results are those of the present facts, or a recompute that will *)
(* read them is on its way; the newest ranking used the stored results, or *)
(* a re-rank follows.  Unless the request met a job past its reading, or   *)
(* the job died: enqueue coalesces into a running row.                     *)
ResultsFollowFacts ==
    computed # facts =>
        \/ lost
        \/ \E k \in JobKeys :
             \/ job[k] = "queued"
             \/ job[k] \in {"reading", "syncing"} /\ saw[k].facts = facts

RankFollowsResults ==
    ranked # computed =>
        rankLost \/ rankJob = "queued" \/ \E k \in JobKeys : job[k] # "none"

StaleOnlyIfLost == ResultsFollowFacts /\ RankFollowsResults

(* After a recompute that no human raced, a finding is on the review queue *)
(* unless a human has resolved the same one; and what was not found is not. *)
HumanResolved(l, i, p) == \E n \in RowsOf(l, i) : l[n].status = "human" /\ l[n].print = p

FindingsSurface ==
    [][\A k \in JobKeys : job[k] = "syncing" /\ job'[k] = "saved" =>
          \A i \in Issues :
              LET p == saw[k].findings[i] IN
              IF p = Absent THEN OpenRows(ledger', i) = {}
              ELSE before[k] = ledger /\ ~HumanResolved(ledger, i, p) =>
                       \E n \in OpenRows(ledger', i) : ledger'[n].print = p]_ledgerVars

(* "A manually resolved finding stays resolved": a recompute undoes a       *)
(* human's resolution only if it had read the flag before it was made.     *)
HumanDecisionKept ==
    [][\A n \in 1..Len(ledger) :
          ledger[n].status = "human" /\ ledger'[n].status # "human" =>
              \E k \in JobKeys : /\ job[k] = "syncing" /\ n <= Len(before[k])
                                 /\ before[k][n].status # "human"]_ledgerVars
=============================================================================
