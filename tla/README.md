# TLA+ models of the acquisition platform

The platform takes PDFs and texts of property reports, extracts facts from them
with a language-model provider, resolves each document to properties, and
computes finance, strategy and score results per property.  It runs as a FastAPI
process, one or more worker processes that poll a `jobs` table, and a Postgres
database that holds everything they share.  There is no other channel: the API
and the workers interact only through rows, row locks and advisory locks.
Every session is one transaction at READ COMMITTED (`common/db.py:24-34`,
`api/deps.py:21-46`).

So the hard part of the system is not in any one function.  It is what several
transactions of several processes make of the same rows: a job that is lost,
retried or taken twice; two workers that finish at once; a handler that stops
between two of its transactions; an operator who asks again.  Around it stand
algorithms that are sequential and still hard to test, because what is wrong
with them shows only when a record grows in an unforeseen order: the resolver of
facts, the financial and strategy engines, the scores.

## The modules

| module | models | kind |
|---|---|---|
| `JobContract` | what a job handler may rely on: begin, settle, lose, reclaim | abstract specification |
| `JobQueue` | `jobs/postgres.py`, `pipeline/run_worker.py`, the settling half of `pipeline/worker.py` | component; implements `JobContract` |
| `ExtractionFanIn` | `batch_estimate`, `batch_start`, `Pipeline.extract_unit`, `SqlStore.finish_unit`, `unit_finished`, `reserve_budget` | composition over `JobContract` |
| `DocumentAnalysis` | `report_analysis/documents.py`, `backfill.schedule`, the parts of `read_model.py` that decide what evidence a property has | composition over `JobContract` |
| `DocumentSpend` | `_request` of `documents.py` and `ops/db_budget.py`: reserve, ask, settle | component |
| `Intake` | pasted texts: `POST /ingest/paste`, `ingestion/service.py`, `ingestion/worker.py`, the jobs of `pipeline/worker.py` | component |
| `Uploads` | `POST /upload`, `register_pdf`, the jobs and statuses of reports that share one run | component |
| `PropertyIdentity` | `identity/service.py`, `report_analysis/document_identity.py`: resolution, archive, merge, unmerge | component |
| `OwnerProfiles` | `identity/owners.py`, the owner half of `_publish_entity`, linking | component |
| `FlagLedger` | `flags/store.py`, `flags/service.py`, recompute jobs, `add_fact`, `resolve_flag` | component |
| `Ranking` | `scoring/engine.py`, `scoring/ranking.py`, the two pages that show a rank | component |
| `ChatSpend` | `api/routes_chat.py`, `ops/chat_budget.py`, the cost side of `chat/service.py` | component |
| `ProviderCalls` | the request loops of the three provider clients | component |
| `FactGauntlet` | `extraction/flatten.py`, `extraction/validation.py` | algorithm, per unit |
| `FactResolution` | the mortgages of `normalization/resolver.py` | algorithm over a growing ledger |
| `Underwriting` | `finance/engine.py` | algorithm over a growing record |
| `DealStrategies` | `strategies/engine.py`; EXTENDS `Underwriting` | algorithm over a growing record |
| `MC...` | values of the constants for TLC | instances |
| `SumTheorems` | sums over finite sets: what the theorems about money rest on | lemmas |
| `JobQueueProofs`, `ExtractionFanInProofs`, `DocumentAnalysisProofs` | the module of that name | proofs |
| `IdentityProofs` | `PropertyIdentity`, `OwnerProfiles` | proofs |
| `RegistryProofs` | `Intake`, `Uploads`, `FlagLedger`, `Ranking`, and `MCRegistry` as a whole | proofs |
| `MoneyProofs` | `ChatSpend`, `DocumentSpend`, `ProviderCalls` | proofs |
| `RecordProofs` | `FactGauntlet`, `FactResolution`, `Underwriting`, `DealStrategies`, and `MCMoney` as a whole | proofs |

`JobQueue` and the two compositions meet at `JobContract`.  The compositions
take their jobs from it (`Queue == INSTANCE JobContract WITH ...`) and extend
its actions by what the handlers do; `JobQueue` is shown to implement it, by TLC
(`ImplementsContract`, a `PROPERTY`) and by proof (`QueueImplementsContract`).
A composition therefore need not carry timestamps, leases and dedupe keys.

The other components share no variable with each other.  They are small, so
`MCRegistry` and `MCMoney` each instantiate several of them in one run: a
variable `component`, chosen at the start, says whose steps a behaviour is made
of.  This puts instances side by side and claims nothing about their
interaction.

### JobContract

A job is `idle`, `pending`, `working`, `lost`, `done` or `dead`; a working job
has an owner.  `Submit`, `Begin`, `Settle`, `Lose`, `Reclaim` are all that may
happen.  The contract has no attempts: how often a job is tried is the
business of the component that settles it.

### JobQueue

| state | code |
|---|---|
| `status`, `attempts`, `created`, `backfill` | the columns of a `jobs` row, by dedupe key |
| `due` | `run_after` has been reached |
| `lease` | `locked_at` is null, recent, or older than 15 minutes |
| `pc`, `task`, `attempt` | what a worker process does, the job it has claimed, and the attempt it was given |
| `lost` (history) | runs of a job that no worker settled |

Actions: `Enqueue` (`ENQUEUE_SQL`: insert, reset a settled row, or coalesce
into a queued or running one), `Claim` (`CLAIM_SQL`; SKIP LOCKED makes it
atomic), `Complete`, `Fail`, `SettleError` (the transaction that settles raises
and the loop logs and goes on, `run_worker.py:33-44`), `CrashBusy`, `CrashIdle`,
`Start` (a worker process comes up and runs `RecoverStale`, once, before it
polls), and the passage of time in the two places where the code looks at the
clock: `BackoffEnds`, `LeaseExpires`.  `HandlersOutliveLease` says whether a
handler may run 15 minutes without a heartbeat.

### ExtractionFanIn

One batch of the legacy per-section path.  A handler is a program counter per
worker through the steps at which other processes can see it or block it:
`Mark`, `Check`, `Call` (the provider), then one transaction `Reserve`,
`Resolve`, `Lock`, `Count`, `Commit`, then `Account`, `Recompute`, `Close` in
transactions of their own, then the settlement.  The locks are those of
the code: the batch row once `reserve_budget` has updated it, the advisory lock
of `resolve_property`, the property row `FOR UPDATE`.  A count sees what is
committed and what its own transaction has written.

### DocumentAnalysis and DocumentSpend

The whole-PDF path that every upload takes.  A document has generations of
runs; the upload's job `<<d, 0>>` names no run, the job `<<d, g>>` that
`schedule` enqueues names generation `g`.  A handler holds the document's
advisory lock (`_run_lock`), discovers entities (chunks whose request failed are
asked again on a retry, so that the inventory may grow until all have answered),
and publishes each in three
transactions (`Extract`, `Stage`, `Load`/`Activate`; the last is one transaction
that takes the property's lock, reads the evidence again, computes and
activates).  `Refresh` and `SetStatus` are the two halves of `_set_status`: the
batch's status is derived from what is committed, then written.  Rows carry
the extractions they are merged from, results the extractions they are
computed from: this is all that `ResultsMatchEvidence` needs to know of the data.

`DocumentSpend` is what `Discover` and `Extract` do to the batch's budget, which
`DocumentAnalysis` leaves open: an estimate is added to `spent_usd` by one
conditional UPDATE and committed, the provider is asked with no transaction
open, and the settlement reads the column through the ORM (`ReadSpent`) and
writes a value back (`WriteSpent`).  `owed` is the history variable of what the
column would be had nothing been lost; `overlapped` says that somebody wrote it
between another's read and write.

### Intake and Uploads

Two ways in.  In `Intake` every paste makes a batch, and a text pasted before
keeps its one report, which moves to the new batch and is ingested again; the
`ingest_document` job and the `extract_unit` jobs are stepped through the
transactions of their handlers, and they are lost or die.  In `Uploads` a request
registers its files in order in one transaction; the unique index on the digests
of originals makes a second one wait for the first (`WaitsFor`), and whoever
comes second refers to the original and copies its status as it was read.
All jobs of one file share one run, whose verdict goes to all its reports.

### PropertyIdentity and OwnerProfiles

Two resolvers share one table of properties.  The legacy one matches by parcel
number, address and similarity.  The conservative one refuses what is ambiguous
or lacks a house number, or a ZIP as well as city and state (`Unusable`), knows a
parcel number only with its county, and looks an entity without a street up by
the two, under no lock (`FindParcel`).  Each resolution is a transaction `Lock`,
`Query...`, `Create` and `Commit`; an entity's publication is a second one, which
fills missing columns of the property (`Publish`).
Since their lock names differ, the unique indexes stand between them, and
`CreateLost`/`CreateFails` are what becomes of the loser.  Operators archive and
restore properties and set and clear merge pointers meanwhile (`PointTo`,
`ClearPointer`: that is all the endpoints do).  `Merge` and `Unmerge` are `merge` and
`unmerge` of `identity/service.py`, which move the reports too (the rows of entities
stay); the repository calls them from its tests only, and they are
modelled as the library they are.  `OwnerProfiles` has the owners of
properties, the owner profiles documents publish and publish again, and the link
that moves a profile's contacts and liens to another owner and deletes the first.

### FlagLedger and Ranking

A recompute takes the property's lock, reads facts, reads flags, and commits
results and flags together (`ReadFacts`, `ReadFlags`, `Save`); its handler then
enqueues a ranking.  Two dedupe keys name such jobs.  `ledger` is the flags table
in the order of insertion; `Synced`, `Rewritten` and `Inserted` are `sync_flags`
and `persist_flags` with their keys, fingerprints and uniqueness checks; humans
resolve flags between the read and the commit.  `Ranking` computes scores and
gates as the code does, from discrete qualities, and numbers properties in a
transaction whose time is its start and whose statement runs later.  A file
carries `offers`, one for each strategy its figures make viable; a wholesale
needs good data besides (`Viable`), and the most profitable of the viable ones
is recommended and scored (`Recommended`, `Opportunity`).

### ChatSpend and ProviderCalls

A chat turn is ONE transaction, provider calls included: the tokens of the
session and the dollars of the day are reserved in two locked rows and corrected
at its end.  The row of the day is named anew by date at each call, before the
call waits for it (`NameDay`), so midnight is an action, and a turn that has named
yesterday's row goes on waiting for that one.  `ProviderCalls` is one call of each of the three clients
with its own loop of retries, repair and tool rounds.

### FactGauntlet, FactResolution, Underwriting, DealStrategies

From an answer of the model to an offer.  `FactGauntlet` screens one unit's
items; `FactResolution` groups what reports and corrections state of mortgages,
joins groups by union-find, picks the winner of each leaf and flags conflicts;
`Underwriting` derives value, debt and equity; `DealStrategies` derives profits,
maximum offers and proceeds.  The two engines value a mortgage apart, as the
code does: the financial one to the date of the newest report, and not at all
without one or if the reported balance is negative (`Balance`); the strategies to
today, passing over a negative balance (`BalanceNow`).  Each is a set of operators over one record; the
behaviour is the record growing by one fact at a time in any order, which is
what makes statements about two successive records possible (`DebtOnlyGrows`).

## What each run checks

`tlc -workers 2 -config <run>.cfg <MC module>`; states and times are of two workers.

| run | shows | distinct states |
|---|---|---|
| `jobqueue` | one owner per running row (`OwnerHoldsRow`); attempts beyond the maximum are paid for by lost runs (`AttemptsPaidFor`); refinement of `JobContract` (`ImplementsContract`); every queued row is handled (`QueuedIsHandled`, liveness) | 51 thousand |
| `fanin_priced` | `NothingLeftBehind`, `CountedUnitsLanded`, `SpendIsExact`, `WithinLimit`; a recompute may go on raising | 924 thousand, 40 s |
| `fanin_live` | `BatchEnds` (liveness): a started batch ends, whatever fails | 47 thousand |
| `document_shared` | `CompleteBatchIsDone`, `ResultsMatchEvidence`: two workers, two documents of one batch that publish at one property | 618 thousand, 44 s |
| `document_reanalysis` | `OneActivePerReport`, `NothingDetached`, `PublishedStays` for a document with three entities, two of them one property | 576 thousand, 22 s |
| `document_recovery` | crash, retries and a request: `NewerStands`, `RunEnds` (liveness) | 137 thousand, 23 s |
| `registry` | six components, see below | 902 thousand, 2.7 min |
| `money` | six components, see below | 238 thousand, 1.9 min |

What `registry` checks:

| property | component | statement |
|---|---|---|
| `BatchesAttended` | `Intake`, `Uploads` | no batch waits for something that nobody is going to do, and no report keeps a status that its file's run has left behind, unless a later paste took the report or an upload's job died |
| `InsertedOncePerQueueing` | `Intake` | a unit's facts are inserted at most once for each time it was queued |
| `AttachedForCause` | `PropertyIdentity` | a report is attached to a property it did not make only for the same address, the same parcel, or a close address with the same ZIP and house number and no parcel number against it; an entity of a document only at its own street, for the address or the parcel and with no other parcel number against it, or, without a street, by county and parcel number |
| `OneHome` | `PropertyIdentity` | reports that say the same and resemble no other, a missing ZIP counting as resembling, end at one property, whichever resolver took them |
| `UndoneInReverse` | `PropertyIdentity` | once every merge is undone, latest first, each report is where its resolution had put it |
| `LinkLosesNothing` | `OwnerProfiles` | a link deletes an owner and loses neither a contact nor a lien nor leaves a row that refers to it |
| `StaleOnlyIfLost` | `FlagLedger` | results are those of the present facts and ranks those of the results, or work to make them so is on its way, or a request was coalesced into a job past its reading or a job died |
| `FindingsSurface` | `FlagLedger` | after a recompute that no human raced, every finding has an open flag or a human's decision about that very finding, and nothing else is open |
| `HumanDecisionKept` | `FlagLedger` | a recompute undoes a resolution only if it had read the flag before the resolution was made |
| `ConfidenceNeverHurts` | `Ranking` | better data about the same facts never adds a gate nor recommends less profit, and lowers the overall score only where it opens a wholesale that displaces another strategy |
| `RankingIsHonest` | `Ranking` | a row's movement is from the ranking before it unless two rankings overlapped; two properties show one rank only if one has left the ranking; the two pages agree |

What `money` checks:

| property | component | statement |
|---|---|---|
| `DaySpendBounded` | `ChatSpend` | no finished turn is paid for by nobody, over midnight too; a day is charged past the cap only by the excess of turns corrected on it, of which at most one was reserved on it |
| `TurnsEnd` (liveness) | `ChatSpend` | turns that wait for each other's rows all end, those too that wait for yesterday's over midnight |
| `SpendAccounted` | `DocumentSpend` | `spent_usd` is exact, and covers what the provider charged, unless two transactions overlapped on the column |
| `CallsBoundedAndPaid` | `ProviderCalls` | a call sends a bounded number of requests and reports the cost of every answered one |
| `DebtFiguresAgree` | `Underwriting`, `DealStrategies` | the places that count debt agree: no lien of an owner is confirmed, a record said to hold no debt has none summed up, a bid that lowers the debt by more than a fifth of it is flagged, and a foreclosure counts no more than is confirmed but for a mortgage only the strategies can value (`BeyondAt`) and a bid that the financial engine leaves out beside an open first mortgage without a balance (`BidLeftOut`) |
| `OffersAreHonest` | `DealStrategies` | value, equity and proceeds keep the order of the scenarios (a rental the reverse order), holding cost and what is realized too once a month's carrying cost exceeds its rounding; the maximum offer of cash and flip earns the target margin, up to the rounding that `Slack` bounds; lower prices never earn less; wholesale and rental likewise |
| `DebtOnlyGrows` | `Underwriting` | without a published bid, one more report never lowers the confirmed debt |
| `RecordAccountsForClaims` | `FactGauntlet`, `FactResolution` | what a unit keeps does not contradict itself, and splitting a report changes the verdict on two kinds of facts only; the resolver joins the closure of the pairwise test and no more; no stated balance disappears without a flag or a correction |

Four runs show a statement of the source that the program does not keep:

| run | statement | what happens |
|---|---|---|
| `jobqueue_redeploy` | `OrphansReleased`: jobs lost in a crash or redeploy are released (`jobs/postgres.py:96`) | recovery runs once, at startup, and takes only leases older than 15 minutes; after a quick restart nobody looks again |
| `fanin_lost` | `NothingLeftBehind`: exactly one finisher sees zero outstanding (`pipeline/store.py:371-373`) | reports not yet attached have no common row to lock; without a priced unit nothing serializes the finishers |
| `document_replay` | `ReplayIsSafe`: the caller can safely replay the same job (`documents.py:65-66`) | the retry of an older run's job replaces a newer generation's evidence |
| `facts_conflated` | `DistinctMortgagesStayApart`: mortgages are the same if their recording numbers match, or lender, date and amount do (`property-acquisition-platform-spec.md:252-253`, `tests/test_normalization.py:148`) | the resolver groups claims by their place in the report (`resolver.py:313`) before it compares recording numbers |

`fanin_priced` has two limits on the budget, and `fanin_lost` is its twin
without priced units: the price is what serializes the finishers.

### Bounds, and why they are enough

- Two workers are enough for every race of the job handlers: each lock,
  coalescing or lost update is between two transactions.  In `document_shared` they
  publish two documents at one property, one activating while the other reads
  or stages, which is what `ResultsMatchEvidence` is about.  `document_reanalysis` and
  `document_recovery` use one worker and one document: a document's lock admits one
  handler at a time, so what they add is the order of jobs, not their
  interleaving.
- Three units of two reports make the cases of a fan-in: the last unit of a
  report, of a property, of a batch, and the first two without the third.
- Three entities, two of one property, make the two sides of a merge and a
  property beside it.  Two generations make an older and a newer run.
- `MaxAttempts` is 2 where the code has a larger default: one retry and then
  exhaustion.  In `fanin_priced` it is 1, and the retry is that of the crash,
  whose job is claimed again whatever its attempts.  In `document_shared` and
  `document_reanalysis` it is 1 too, and the retry is the one an operator asks for
  after the job has died: what the attempt published is there, its run is not
  finished, and the request queues it again.  `document_recovery` has both.  `MaxCrashes` is 1 or 0;
  `MaxRequests` and `MaxEstimates` bound what operators ask for.  Each is a guard
  on an action of the environment.
- `document_recovery` allows one request: a second generation, which the upload's
  job, lost or retried, meets on its return, or a retry of the first.  A job that
  names an older run while a newer one is active takes two, and that is
  `document_replay`, whose violation `NewerStands` excepts.  `fanin_priced` allows two
  estimates because a batch can be estimated again while it runs.
- `registry`: three reports, one of them for the conservative resolver, because
  an ambiguity needs two properties and a newcomer, with nine kinds of evidence
  that agree, differ or are missing, and two of the operators' actions.  What the
  chain of two merges and their undoing needs, four actions (`MaxEdits`), is taken
  apart as the component `merges`: three reports of three properties, so that both
  merges move something, in every order of merging, undoing and resolving.  Two
  of the reports are symmetric.  Three pastes of one text, so that a report can be taken twice;
  `MaxLosses` 1.  Three uploads, two with the same two files in opposite order
  and one with one of them, so that each wait, loss and cycle of waits occurs;
  `MaxDeaths` 1.  Three owner ids, one name, two documents and two details: a link
  needs a source, a target and one that must stay out of it; `MaxLiens` 3.  One
  issue with two fingerprints, `MaxEvents` 2 (changes of facts and failures) and
  `MaxRows` 2: a finding, its successor, and the first again.  The fingerprints are
  symmetric, no action compares them but for equality.  Two listed properties and
  `MaxRankings` 3: two overlapping and one after.
- `money`: three turns in two sessions, one midnight (two that share a session,
  two that share the day), `TokenCap` and `DailyCap` of two answers; two runs of one
  chunk and `MaxTries` 2; `MaxRetries` and `ToolRounds` are the code's.  Records of up to
  three facts and two mortgages with amounts on either side of every threshold
  of the engines (a bid below and above the debt, a balance computable by both engines,
  by one or by none, two principals, one or several valuations, narrow and wide dispersion; `Bids` are a real one and the zero
  that the code treats as published).  Three reports with
  five contents each and one correction; a third report is what connects two
  groups.  `RoundAmounts` are those the resolver takes for rounded.  Two units with eight answers, of items of one type each as the schema of a
  unit demands, one for every rule of the gauntlet.

### Fairness

Idle workers poll, a handler goes on to its end, a stopped worker is started
again: each is a loop of the code (`run_worker.py:31-58`) or a restart policy
(`railway.worker.json:8-10`, the compose file), and each is weak fairness per
worker.  A claim is strongly fair in `JobQueue`: a worker that is restarted
over and over polls first thing each time it is up.  Nothing is assumed of
users or of crashes.  Nothing is assumed of
releases either: stale rows are released at startup only, and
`jobqueue_redeploy` shows that a lost job may stay so for ever.  `RunEnds` therefore
says that a run ends unless its job, or its document's upload job, is lost and
remains so (`Lost`); a restart later than the lease releases it, and then the
run has to end.  `fanin_live` has no crash.  A chat turn that has begun is weakly fair (`ChatFairness`):
each provider call has a timeout and a bounded number of attempts and rounds.
No fairness is assumed of the database's locks: weak fairness of a turn says
nothing while another holds its row, and `TurnsEnd` holds all the same because
no two turns wait for each other.  The safety runs assume none.

### Deadlock

Deadlock is checked in every run but `registry`, `money` and `facts_conflated`.
There the components come to rest by design (all reports resolved, all facts
reported, a bound used up).  In the others a state in which no job is pending or
working is a rest the code knows, an idle poll: it is a stutter of `Next` and
nothing else is.

## What is proved

Each theorem holds for every value of the constants its module's ASSUME admits.
Those that no sentence restricts hold for any number of the actors named.  Of
the properties the passing runs check, all are proved but the four named at the
end of this section; `RegistryProofs` and `RecordProofs` close with the
composition that a run checks, so that a theorem and an invariant of a `.cfg`
are the same formula.

`JobQueueProofs`, for any keys, workers and bounds:

- `TypeCorrect`: types, and a busy worker has a key in hand.
- `SingleOwner`, `AttemptsArePaidFor`, `SettledStaysSettled`,
  `QueueImplementsContract`: under `HandlersOutliveLease = FALSE`.  With `TRUE`
  the first of them is false: a handler that runs 15 minutes without a heartbeat
  keeps its key while `RecoverStale` releases the row, another worker claims it,
  and both settle it by id.  The inductive invariant
  (`OwnerInv`) adds to `OwnerHoldsRow`, which is not inductive, that a row
  `RecoverStale` may take is in no worker's hands (`StaleIsOrphan`).
  For the attempts, `AttemptsLeft` says that a queued or orphaned row has fewer
  attempts than the maximum and its lost runs allow, so that the next claim
  is still paid for.
  The refinement follows step by step: each action is a step of `JobContract`
  or a stutter, because the owner invariant makes a settlement by id a
  settlement by the owner.  `SettledStaysSettled` (a settled row changes only by a
  reset) is proved and not repeated by a run.

`ExtractionFanInProofs`, for any units, reports, properties, workers and prices:

- `TypeCorrect`.
- `SpendStaysWithinLimit` (`WithinLimit`).  The code checks the limit and adds
  the cost in one UPDATE, but the sum is committed later; the invariant
  (`BudgetInv`) says a worker has one unit (`OneUnit`), at most one worker is
  between reservation and commit of a priced unit (`OneHolder`), and what that
  worker is about to charge still fits (`HolderFits`).
- `SpendIsAlwaysExact` (`SpendIsExact`).  What is spent is the sum of the prices
  of the units that have facts: the sum moves by one summand whenever a unit
  commits, and `UnitInv` says that a unit without facts is what an outstanding
  unit is, so that a retry never pays again.
- `CountedUnitsHaveLanded` (`CountedUnitsLanded`).  The counters are incremented
  in a transaction after the one that moves the unit, and a batch is done when
  they reach the total.  `CountInv` says that they never exceed the number of
  units that have landed and are not on their way to being counted; `StartInv`
  says that before the one start nothing has happened to any unit.
- `NothingIsLeftBehind` (`NothingLeftBehind`), if every unit has a price (`Paid`) or
  every report has its property from the start (`AllAttached`).  In the first case
  the row lock of the batch makes everything between a reservation and its commit
  one step for all other extractions (`OneExtracts`), and what a handler has
  resolved and counted is still exact when it commits (`PlaceInv`).  In the second
  it is the lock the docstring of `finish_unit` names, that on the property: two
  handlers that count for one property exclude each other, and only a final
  failure, which takes no lock that a free unit holds, can come between a count
  and its commit (`AttachedInv`, `CountedKept`).  Both give `ReliableInv`: what was
  counted and is not outstanding has been given up.  From this follow that, once
  all units of a property are in, either its results rest on all of their facts
  or one of their jobs still has to recompute it (`OwedInv`), and that a report has
  its final status by then (`ReportInv`).  The hypothesis cannot be dropped: with
  a free unit and a report not yet attached the statement is false, and
  `fanin_lost` is the counterexample.
- `RunningBatchIsAttended`, the safety half of `BatchEnds`: as long as no worker has
  crashed, a running batch has a unit whose job is pending or being worked on.  By
  `AttendedInv` its counters are short of the total by no more than the units
  that are still `Due`: outstanding with a wanted job, or landed with a worker
  about to account for them.  A crash between a unit's commit and the
  increment of its counter really loses the count, so the hypothesis stays.
- `WorkNeverStops`, with at least one worker: while a job is wanted, a lost job can be
  put back, an idle worker can take one, or a busy one is not waiting.  `Waits`
  spells out the negation of the guards on the batches row, the identity's
  advisory lock and the property's row lock; every handler takes them in this
  order, so the one who is farthest waits for nobody (`SomeoneIsFree`).
- `UnitJobsKeepContract`: the jobs of the units refine `JobContract`, every step
  being one of the contract's or leaving its variables alone.

`DocumentAnalysisProofs`, for any documents, entities, properties, workers, runs,
attempts, requests and crashes:

- `TypeCorrect`; with the types goes `Knows`, that a handler has a run, an
  entity and a verdict when its step needs them.
- `ResultsAreOfEvidence` (`ResultsMatchEvidence`).  A handler computes results
  from what it has staged, in an earlier step than the one that writes them.
  `EvidenceInv` says why this is safe: a document is in the hands of one
  handler (`DocumentExclusive`), one handler publishes at a property
  (`PropertyExclusive`), active rows are complete and a row being published
  is not (`ActiveIsComplete`, `ItemIsOpen`, so that nobody rewrites what is
  active), and what is staged is the evidence there will be once the row
  stands for its document (`StagedIsAfter`).
- `OneActive` (`OneActivePerReport`) from `NoTwins`, and `NeverWithdrawn`
  (`PublishedStays`), both because only a publication changes what is active
  (`OnlyActivate`).
- `CompleteIsDone` (`CompleteBatchIsDone`).  A worker derives the batch's status
  in one step and writes it in another, while others finish and operators ask
  again.  `BatchInv` says that a report which has ended well has a run that has
  (`ReportsEarned`) and that a verdict `complete` in a worker's hands is still
  true of every other document (`MarkEarned`).  It needs `JobsInv` (a working job
  has one owner, who works on that job's document) and `RunsInv` (generations are
  numbered without gaps, a queued job's run exists, a run in a handler's hands
  has not ended).
- `NothingIsDetached` (`NothingDetached`) and `NewerStaysUnlessNamed`
  (`NewerStands`), from `PublishedInv`: active rows are of entities that an
  attempt of their run has listed, also if that attempt's inventory was not
  complete (`Inventory`); a verdict `complete` has been reached with every property
  the document has evidence at among those found, and stays so until it is
  written because nobody else publishes for the document (`VerdictCovers`,
  `Covered`); and a handler whose job names no run works on a run that no active
  row of the document is newer than (`NoNewerActive`).
- `RunsAreNeverForgotten`, the safety half of `RunEnds`: a run that has not ended is
  `Held` by its own job, which is pending, lost to a crash or working on it, or it
  is its document's latest and the upload's job, which opens the latest, has it
  or has used up its attempts.  A retry revives an older run while the upload's job
  is at a newer one; that each is in the right hands follows from
  `NamedIsOpened`, that a job which names a run has taken it out of the queue.
- `WorkNeverStops`: as above, for the locks on document and property.
- `AnalysisJobsKeepContract`: the analysis jobs start as those of the uploads and
  every step is one of `JobContract` or leaves them alone.

`IdentityProofs`:

- `LinksAreLossless` (`LinkLosesNothing`), for any owners, names, documents and
  homes; it is inductive with the types.
- `AttachmentsHaveACause` (`AttachedForCause`) and `OneHomeForEach` (`OneHome`), for any
  reports and evidence.  What a resolution decided rests on rows it read some
  steps before it writes.  `IdentityInv` says what is left of this when it
  commits: who wants to make a row has an address and has made none, and who
  takes one still has a cause to (`Decided`), because the parts of a row that a
  cause looks at are never rewritten but for a missing ZIP or parcel number
  (`RowsMade`); only entities can lack a street and none of them holds a lock
  (`Addressed`); what a publication fills in is a row that exists (`Housed`); and the
  partial unique indexes keep committed and inserted rows apart (`UniqueLive`,
  `UniqueNew`).  Two equal reports that both made a property would collide there.
  The advisory locks are not needed for either: without them there would be more
  collisions, and the indexes decide them.  What an operator's pointer does to the
  property meanwhile does not take away the cause.
- `MergesAreReversible` (`UndoneInReverse`).  An undo looks only at the rows of its own
  merge, so the invariant has to say what a history of undos would look like:
  there is a sequence of assignments of reports to properties, one for each
  merge in force, that begins with where resolution put them, ends with where
  they are, and in which each step moved what the merge has recorded
  (`MergeInv`, `Trail`).  Undoing the latest cuts this sequence by one.

`RegistryProofs`:

- Pastes, for any texts, pastes and lost jobs: `FactsInsertedOnce`
  (`InsertedOncePerQueueing`) and `IngestingIsAttended`, from `IntakeInv`.  Uploads, for
  any requests with any files: `UploadsAreAttended`, from `UploadInv` (the original of
  a file is committed, a job has a committed report, and a report `analyzing`
  has a job or one that died).  Together they are `NobodyWaitsForNobody`
  (`BatchesAttended`).
- Flags, for any finite set of issues, any fingerprints and bounds:
  `StaleResultsAreAnnounced` (`StaleOnlyIfLost`), because the advisory lock admits one
  job between its reading and its commit (`OneReader`) and one that is about to
  store results of old facts has a successor (`OldReadingFollowed`).
  `ResolutionsStay` (`HumanDecisionKept`), because `sync_flags` writes back only the
  columns it has changed (`Column`), so that a resolution made after its read is
  overwritten only where the code had already decided on a status.
  `FindingsAreSurfaced` (`FindingsSurface`): what a job has read of the table differs
  from the table by resolutions of humans only (`ReadsHold`), and of rows for one
  finding the code rewrites one and closes the others.
- Ranking, for any files of whole figures: `BetterDataNeverHurt`
  (`ConfidenceNeverHurts`), one lemma per component of the score: the strategy that is
  recommended is a viable one of the highest profit (`RecommendedIsBest`), so better
  data either leave it as it is, and with it every figure that is scored, or
  replace it by a wholesale that earns no less (`RecommendationGrows`); and, for any
  properties and overlaps, `RankingsAreHonest` (`RankingIsHonest`) from `RankInv`: the times of
  rankings are different (`Times`), each gives a rank to one property
  (`RanksDiffer`), and while none overlaps another each names the ranks of the one
  before it (`InTurn`).
- `RegistryTyped` (`RegistryTypeOK`).

`MoneyProofs`:

- `CallsAreBoundedAndPaid` (`CallsBoundedAndPaid`), for any retries, tool rounds and
  costs; while a client asks, what it may still send fits its limit
  (`ExtractionInv`, `RoundsInv`).
- `SpendIsAccountedFor` (`SpendAccounted`), for any runs, chunks, costs, limits and
  deaths.  What runs hold reserved is at most what is spent, and the provider's
  bill plus what is still unspent of the reservations is too (`Exact`).
- `ChatSpendIsBounded` (`DaySpendBounded`), for any turns, sessions, caps, costs and
  midnights.  A turn holds the rows it has read until its end (`RowsLocked`,
  `HoldsWhatItRead`), but after midnight it asks for another row and keeps the first,
  while a turn that named the first before midnight still waits for it.
  `DayExplained` says what a day can be over its cap by: the excess of a set of
  turns corrected on it, at most one of which reserved on it; the set may hold
  any number of turns that reserved on earlier days.
- `ChatHoldersGoOn`, the safety half of `TurnsEnd`: a turn waits only for one that
  holds the row of a later day than its own, so the waits close no circle, and
  while turns are open one of them waits for nobody.

`RecordProofs`, for any units, answers, reports, corrections, positions and amounts:

- `ScreeningStaysLocal` (`ScreeningIsLocal`, a part of `RecordAccountsForClaims`).  One round of
  the gauntlet's rules is enough (`OneRoundIsEnough`): dropping what contradicts
  something makes no new contradiction.
- `RecordIsComplete` (`RecordAccountsForClaims`).  The union-find of the resolver is a fold
  over all pairs of groups with a loop that follows parents.  Its invariant is
  that every group leads to one root and that all pairs tested so far which are
  the same mortgage lead to the same (`Follows`, `AfterIsMerged`); in the end the classes
  are the connected components of the pairwise test (`MortgagesAreComponents`).
  A leaf's winner is stated by a contender (`WinnerIsStated`), so a balance that is not
  shown has left a conflict, lies within the tolerance, or gave way to an
  operator's (`DebtIsKept`).
- `DebtGrowsOnly` (`DebtOnlyGrows`).  The confirmed debt is a sum over positions of which
  each counts its highest balance (`ShareIsHighest`), and a mortgage more raises
  one summand or none.
- `DebtIsCountedOnce` (`DebtFiguresAgree`): a bid takes the place of one summand
  (`BidTakesOnePlace`), so a drop of the debt by more than a fifth of the bid is a drop
  of the first mortgage and flagged.  The foreclosure strategy counts by position like the
  financial engine but values a mortgage to today: where both can value one they
  say the same or the later date owes less (`BalanceOfToday`), so what it counts at a
  position is at most that engine's share or the highest balance only it knows
  (`NowIsCovered`, `BeyondIsHighest`); and its first mortgage is the bid, which the engine
  has booked, or has left out beside a mortgage without balance, or one of these
  (`FirstOfForeclosure`).
- `OffersAreSound` (`OffersAreHonest`), for any amounts and rates.  A maximum offer and the
  profit at it are rounded divisions that undo each other: what the first
  leaves over is bounded by half a unit of the second's scale, which for a cash
  purchase is three units in all and for a flip grows with the price, because
  the cost of the loan is rounded to a thousandth of what is financed (`Slack`).
  The order of the scenarios holds of value and equity without condition; that
  a lower value never makes up for the longer period of holding needs a month's
  carrying cost above its own rounding (`CarryCounts`), which is false of amounts below
  a hundred units only.
- `UnderwritingTyped`, `MoneyIsTyped` (`MoneyTypeOK`).

`SumTheorems` has what the sums of prices, charges and debts need: how a sum over a
finite set changes with one summand (`SumUpdate`), adds (`SumAdd`, and `SumPlus` for two functions on one
set), and grows with its summands (`SumMonotone`).  The library's induction theorems take an
operator as a parameter, which no installed prover instantiates; instead each
lemma takes a smallest subset for which it fails (`SmallestSubset`) and removes one
element from it.

What the theorems assume of the constants, beyond types and finiteness, is what
the code gives or its inputs keep: `AnswersKeepTheSchema` (the schema of a unit has
items of one type), `AmountsAreOwed` and `AmountsAreCounted` (no negative amounts; the
gauntlet's `range_violation` bounds prices and liens only, so of balances this is
an assumption about reports), `CasesAssumption` (whole figures), percentages that are
percentages, costs, periods and rates that are not negative (`CostsAreCounted`,
`RatesAreCounted`: the engines refuse an assumption set with others), flat costs and
prices that are whole (`FlatsAreWhole`, `OffersAreWhole`: amounts are whole units here).
`WorkNeverStops` assumes that there is a worker.  TLC evaluates each of them on the runs.

Only model-checked:

- every liveness property (`QueuedIsHandled`, `BatchEnds`, `RunEnds`, `TurnsEnd`):
  out of the prover's reach, as is ENABLED.  What a step can do wrong about the last
  three is proved: the work that is left is in somebody's hands
  (`RunningBatchIsAttended`, `RunsAreNeverForgotten`) and somebody is not waiting
  (`WorkNeverStops`, `ChatHoldersGoOn`, guards spelled out in place of ENABLED);
- the four runs that show a violation, whose statements are false.

## Where the models are coarser than the code

- A claim is atomic (`FOR UPDATE SKIP LOCKED` in one statement).
- `_mark_terminal_failure` and the counts of dead letters are atomic, and so is
  `Close`; `Recompute` is one transaction that reads all facts of a property.
- Advisory locks are per name.  The code's key is four bytes of the name
  (`common/locks.py:7`), so the real locks exclude more.
- Results are the set of units or extractions they are computed from; the
  engines are functions of that set.
- `DocumentAnalysis` leaves out owner profiles, duplicate uploads and the
  arithmetic of the budget, which have modules of their own; `unreadable` stands
  for every issue a run can have beside its entities; `needs_review` stands for a
  failed entity too, which nothing tells apart.  Property merges, through which
  evidence is read (`read_model.py:68-79`), are left out: a property is one that
  nothing is merged into, so what `ResultsMatchEvidence` says of a property whose
  twin has evidence too is not checked.
- `DocumentSpend` has a batch with a budget; one whose `budget_limit` is NULL
  always reserves and promises nothing of its spending.
- In `Uploads` a run ends with a verdict in one step; in `Intake` a report has one
  unit and its extraction is two steps.
- Names, addresses and their normalization are constants: which street belongs
  to which house, how close two streets are, which profile has which name.
- In `FactResolution` two claims of equal score and liability are decided by report
  and place, where the code compares snippets first; any report may state any
  content, so that an order of the snippets is one of the reports.
- Amounts of the engines are whole units instead of cents, dates are numbers,
  amortization is any amount between zero and the principal at each of the two
  dates, less at the later one (no report is dated in the future), and the
  weighted dispersion any percentage of its clamp.  The costs of transfer that a foreclosure adds
  to its obligations are left out of `ForeclosureDebt`, which is about the debt.  Quantities of `Ranking` are
  hundredths of a point; the figures are those of `DEFAULT_CONFIG`.
- Transactions that fail for reasons of their own (the database is away) are
  crashes of the handler.

## Disagreements without a run

Found while modelling and not the subject of a run: either the source says too
little of the intention for a property to be checked against it, or the case was
settled by reading and one run would show nothing more.  The models follow the
code in each of them.

Jobs, batches and budgets:

- `recover_stale` says it releases "jobs orphaned by a worker crash or Railway
  redeploy" (`jobs/postgres.py:96`) and takes every running row whose lease is
  older than 15 minutes (`:100-101`).  Only document analysis renews its lease
  (`documents.py:74-78`); after another handler of that length two workers
  settle one row by id (`postgres.py:105-115`).
- A retry exists "so a crash between finish_unit and recompute resumes correctly"
  (`orchestrator.py:366-368`), but the batch is accounted in a transaction of its
  own, and only if this attempt moved the unit (`:416`).  After such a crash
  `completed_count` stays one short (`batch.py:93-95`) and the batch `running`;
  `fanin_live` therefore has no crash.
- `_mark_terminal_failure` moves "domain records to terminal failure when a queue
  job is exhausted" (`worker.py:306`) if the payload names a run (`:313`).  The
  upload's does not (`api/app.py:183-185`): the run and the report stay
  `analyzing`, and a later job of the same batch sets the batch back to
  `analyzing` too.  A test writes the run into the payload by hand
  (`tests/test_multi_property_documents.py:265-272`).
- A retry request that meets the run's own job after its last status update but
  before its settlement: `schedule` sets the report to `analyzing`, the
  enqueue coalesces (`backfill.py:28-31`, `jobs/postgres.py:18-19`), and the
  report stays `analyzing`.  `RunEnds` is about runs for this reason.
- A reanalysis run can end `complete` while an older run's row is active, after
  that older run's job was replayed (the cause is that of `document_replay`).
- Two handlers that finish together can leave a batch `analyzing`, each having
  derived its status before the other committed (`documents.py:81-106`).
- Units of a paused batch fail and use up their attempts
  (`orchestrator.py:337-354`), so that a pause ends as a failed batch.
- Estimating and starting a batch again while it runs resets its counters and
  sets reports already extracted back to `extracting` (`routes_portfolio.py:228-320`);
  `NothingLeftBehind` and `CountedUnitsLanded` therefore speak of batches
  started once (`StartedOnce`).
- A batch is complete once its units are accounted for, although a recompute
  may still fail (`batch.py:87-103`).  A unit whose facts are in and whose recompute
  goes on raising until its job is dead has been counted twice, as completed and as
  failed (`worker.py:347`); `CountedUnitsLanded` leaves such batches out
  (`FailedUnextracted`).
- Lost runs do not count against `max_attempts` (`jobs/postgres.py:95-103`).
- `failed_count` is read and written back by the ORM while `unit_finished` adds to
  it in SQL (`worker.py:347`).  The last outstanding unit of a property that dies
  starts no recompute of its siblings' facts.
- The cost of a unit is reserved after the provider has been paid
  (`orchestrator.py:355-371`).  The settlement of a document's request reads
  `spent_usd` and writes it back (`documents.py:174-176`) while `reserve_budget` adds to
  it in SQL, so that one of two concurrent changes is lost; `overlapped` in
  `DocumentSpend` marks where.  Usage of calls that fail is never recorded.
- `ProviderClient()` is built with its default of five retries
  (`pipeline/worker.py:55`), so `settings.extraction_max_retries` (`settings.py:36`)
  has no effect there; five means six requests in that client, and N means N in the
  other two.
- The chat's cap is per day (`ACQ_FEATURE_SPEC.md:180`), but a failing turn rolls
  back what it has spent (`deps.py:44-46`), and what a turn left open at midnight
  costs beyond its estimate is added to the next day.  Several can be: a turn that
  had named yesterday's row reserves there after midnight, once the turn it
  waited for is gone, and is corrected on the new day as that one was.

Intake and uploads:

- A batch whose report a later paste takes stays `ingesting`
  (`ingestion/service.py:186-189`); a re-paste between the commit of an ingestion
  and the refresh of its batch fails the report and the new batch
  (`worker.py:112-119`).
- "Exact re-upload skips extraction" (`property-acquisition-platform-spec.md:130`);
  a re-paste queues the units again (`app.py:226-233`, `ingestion/worker.py:161-175`).
- Two requests with the same new files in opposite order deadlock on the unique
  index, and one is answered 500.  An upload has at least one file
  (`api/app.py:146`), which `UploadAttended` needs.  A file that loses the race and is registered
  without `new_report_on_duplicate` does not move to the new batch.

Money and scores:

- A published bid is what the first mortgage claims, and a mismatch with the
  balance is flagged (`property-acquisition-platform-spec.md:324`).  With an open first
  mortgage whose balance cannot be computed the financial engine leaves the bid
  out and flags nothing (`finance/engine.py:414-435`, `:503`), while the foreclosure
  strategy counts it (`strategies/engine.py:556`).  `DebtFiguresAgree` names the case
  (`BidLeftOut`) and says that there is no other.
- The foreclosure strategy is to mirror "finance's conservative conflict handling" (`strategies/engine.py:558-559`),
  and values mortgages the financial engine does not: those with a negative reported
  balance, and those of a record without a dated report (`BeyondAt`).
- Verifying a field can lower a score: at a confidence of 60 a wholesale becomes
  viable (`strategies/engine.py:406`), and if its spread is the highest profit it is
  recommended (`scoring/engine.py:215-238`) although it has neither a return nor
  a margin to score.

Identity and owners:

- "APN/address conflict raises the flag and does **not** merge"
  (`acq-build-packages.md:436`); after an IntegrityError `_create_property` returns the
  first match without looking at its parcel number (`identity/service.py:428-433`).
- "Merges are reversible" (`property-acquisition-platform-spec.md:160`) if undone in
  reverse order (`service.py:605`); otherwise a report stays where the chain left
  it, which is why `UndoneInReverse` has `lifo`.  The endpoints that set and clear a
  merge pointer move no reports and look at no existing pointer.
- A property without a ZIP that is given one later ceases to match close addresses
  it matched before, so that two reports that say the same may end at two
  properties if a third resembles them but for the ZIP; `Unrelated` names the case.
- `apn_key` is not backfilled; resolution does not follow merge pointers; fuzzy
  duplicates that are made concurrently are not flagged; `quick_add` creates rows
  without keys.
- A reanalysis whose source has changed duplicates liens and bankruptcies; linking
  a profile twice fails on a foreign key; a profile without a mailing address gets
  a new owner in each reanalysis; legacy extractions keep a deleted owner's id.

Flags, recomputation and ranking:

- "If a finding was superseded by a recompute and later returns, it is reopened"
  (`flags/store.py`); the unique dedupe key refuses it in some orders
  (`store.py:170-180`), and the recompute fails.
- An update in place may give an open row the fingerprint of a dismissed finding,
  and a resolution made between the read and the commit of a recompute may be
  overwritten; `HumanDecisionKept` says exactly when.
- The gate for open flags is taken from the record (`resolver.py:617-619`) and never
  from the table.  So resolving a gating flag does not make the property
  rankable at the next recompute (`acq-build-packages.md:598`; the test clears the
  record by hand, `tests/test_flags.py:492-512`), and an `identity_conflict` raised
  by the resolver never gates (`acq-build-packages.md:561`, `:591`); the first
  recompute closes it.
- A recompute asked for while one runs past its reading coalesces into it and is
  lost (`jobs/postgres.py:18-19`), and so is a ranking; `StaleOnlyIfLost` names this
  exception.
- The API's `resolve_flag` does not apply approve, reject or replace;
  `mark_recomputed` overwrites the pipeline stage with `analyzed`.
- `_latest_ranks` takes the newest row of a property from any ranking, so one that
  has left the ranking keeps its old rank beside the new holder; an empty ranking
  inserts nothing, so the one before stays on show; two rankings that overlap may
  leave the older data newest; `/rankings` drops archived properties and keeps merged
  ones; `is_rankable` (`serializers.py:93`) ignores `insufficient_data`.

Facts, finance and strategies:

- The winner of a stage of foreclosure need not be the latest
  (`resolver.py:522-523`), and `sale_scheduled` is not among the active stages.
  `foreclosure` takes the first mortgage by reported balance and ignores arrears of
  the HOA and liens of unknown amount.
- `lender_raw`, `creditor_raw` and `address_line1` have no alias in the resolver, so its
  fuzzy rules never fire for them.
- The gauntlet's rule of a second mortgage without a first is evaluated per unit
  (`validation.py:138-154`): a report whose mortgages are split over two units loses
  the junior one.  The rule that a sale is no older than the house
  (`validation.py:159-164`) looks for both dates in one answer, and the schema of a unit
  has items of one type, so it never applies.  `ScreeningIsLocal` says that the
  verdict on no other fact depends on the split.
- "Divergence >20% is raised via finance_flags()" (`finance/engine.py:448-449`); of several
  first mortgages the bid is compared with the first whose balance is computable
  (`:361-380`) while the debt counts the highest, and a bid of zero replaces the debt
  and is compared with nothing (`not bid`, `:373`).  `BidDropIsFlagged` is about bids
  above zero and names the conflict of two first mortgages as the other flag.
- `_weighted_potential` weighs each term by its probability, says its docstring, and
  so does the financial engine; of an undrawn HELOC it counts the whole capacity,
  since the engine gives that entry an `expected_amount` (`strategies/engine.py:636-645`,
  `finance/engine.py:476-478`).
- The optimistic scenario of a rental earns least, because the insurance follows
  the value.

## Inventory

### Modelled, wholly or in part

| component | state | operations | hard part |
|---|---|---|---|
| Job queue (`jobs/postgres.py`) | `jobs` | enqueue, claim, fail, complete, recover_stale | settlement by id, leases, coalescing |
| Worker (`pipeline/worker.py`, `run_worker.py`) | none of its own | poll, dispatch, settle, terminal failures | crash at any point, errors while settling |
| Orchestrator (`pipeline/orchestrator.py`) | through the store | extract_unit, recompute, rank_scope, nightly | fan-in across four transactions |
| Store (`pipeline/store.py`) | units, facts, reports, batches, results | finish_unit, unit_finished, pauses, rankings | counts under locks taken late |
| Batch machine and API (`pipeline/batch.py`, `routes_portfolio.py`) | `batches` | estimate, start, account, fail | requests while units run |
| Budgets (`ops/`) | `batches.spent_usd`, rows of `settings` | reserve, settle | concurrent reservations, rollback, midnight |
| Whole-PDF analysis (`report_analysis/documents.py`) | runs, checkpoints, entity rows | discover, extract, publish, set status | publication across transactions; replay |
| Backfill (`report_analysis/backfill.py`) | runs, jobs | schedule | generations |
| Read model (`report_analysis/read_model.py`) | none | load_record, active_entities | evidence of several documents |
| Ingestion and uploads (`ingestion/`, `api/app.py`) | reports, units, batches | paste, ingest, upload, register | one report, several batches; races for a digest |
| Identity (`identity/service.py`, `document_identity.py`) | properties, merges | resolve, archive, merge, unmerge | lock names; chains of merges |
| Owners (`identity/owners.py`) | owners, links, contacts, liens | persist, publish, link | deletion of what others refer to |
| Flags (`flags/`) | `flags` | sync, persist, resolve | humans beside recomputes |
| Scoring and ranking (`scoring/`) | scores, rankings | score, rank | overlapping rankings |
| Chat (`chat/`, `ops/chat_budget.py`) | two rows of `settings` | a turn | locks held over calls |
| Provider clients | none | one call | retries in three loops |
| Extraction validation (`extraction/`) | facts | flatten, gauntlet | rules across items |
| Resolver (`normalization/resolver.py`) | none | resolve | grouping, winners, conflicts |
| Financial and strategy engines | none | underwrite, strategies, offers | agreement of figures |

The properties that make each correct are those of the run tables above.

### Not modelled

- The in-memory job queue: a test double.
- `changes/diff.py`: `detect_changes` is never given the record before the change and
  does nothing without it (`orchestrator.py:511-524`).
- `_run_document_ingest` (OCR, classification and sectioning of PDFs): every
  uploaded PDF goes to `analyze_report` (`api/app.py:153`).
- `scan_inbox`, `start_ingestion`, `estimation_ready`, `confirm_estimate`, `pause_budget`,
  `resume_batch`, `apply_override`, `flags/workflow.resolve_flag`, `flag_summaries`,
  `reextract`: without a production caller.
- Of the resolver: foreclosure, listings, comparables and data quality, which pick
  winners by the rules modelled for mortgages; of the read model, the precedence
  between sources of one field.
- Of the engines: confidence figures, traces, validation of assumptions, texts and
  counts of months.  Of the chat: retrieval, prompts, grounding of numbers in text.
- Normalization of names and addresses: string functions, given as constants.
- Exports, outreach, calibration, comparison, explanation: reports over stored results,
  with no shared state of their own worth a model.
- Authentication, settings, storage, migrations and the web client: configuration, I/O and
  presentation.

`PROJECT.json` lists every component with its sources, every hazard at its line,
and for each definition the lines it stands for.

## Plan

What would add most next:

1. A composition of `FlagLedger` with `Ranking` over one table of scores, and of
   `Intake` with `ExtractionFanIn` over one table of units.
2. The foreclosure record of the resolver and the precedence of `merge_sources`.

Runs stay few: related components share an instance, and a run whose finding is
settled in the code makes room for the next.
