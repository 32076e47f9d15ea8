# Verification of media_catalog

TLA+ models of `src/src/media_catalog`, the catalog that collects media
references from several providers, downloads the media into a content-addressed
store (CAS), keeps in SQLite what is known about both, and lets an operator
review which accounts are one person and which posts are one work. The modules
follow a fact from the provider's page to the catalog's row, a file from its URL
to the `fsync` that makes it durable, and an operator's decision to what is
derived from it.

Paths below are relative to `src/src/media_catalog/` unless they start with
`src/`.

## 1. The system

### Components

| Component | Code | State | Operations |
|---|---|---|---|
| Managed CAS storage | `storage/cas.py` | `staging/`, `quarantine/`, `sha256/ab/cd/`, `.adoption.lock` of a managed root | begin, reopen, write, detach, finalize a staging session; publish or reuse; quarantine; lock, release |
| Acquisition | `acquisition/`, `persistence/acquisition.py` | plans, runs, items, attempts, partials, evidence, assets, locations | `plan_acquisition`, `execute`, `retry`, `recover_interrupted`, `transfer`, `verify_publish_and_persist` |
| Adoption and verification of local media | `storage/adoption.py`, `storage/verification.py` | adoption runs and items; none | plan, execute, verify |
| Remote synchronization | `remote_sync/`, `persistence/remote.py` | runs, requests, retained responses, checkpoints; budgets in memory | sync, resume, reprocess, enrich, fetch pools |
| Provider adapters | `adapters/` | cursors, access tokens | one request per cursor, the next cursor from its answer |
| Candidate lookup, discovery sessions | `candidate_lookup/`, `discovery/orchestration.py` | lookup runs and results; sessions and steps | plan, execute, resume, follow up, report |
| Library expansion | `library/`, `persistence/library.py` | plans, probes, executions, associations | plan, probe, execute, resume |
| Match review, relationships | `discovery/`, `relationships/` | candidates, evidence, decisions, identities; works, relationships, rulings | discover, review, materialize, derive lineages |
| Catalog writer, tombstones | `persistence/catalog.py`, `metadata.py`, `tombstone.py` | rows and their observations | upserts under which the newest report wins |
| Imports, seeding | `imports/`, `seeding/` | import runs, stubs | import, seed |
| Database | `database.py`, `migrations/` | the catalog file and its version | open, migrate, read a snapshot |
| Projections, queries, labeling, doctor, command line | as named | none of their own | read-only queries, output |
| Stand-alone tools | `src/src/x_likes`, `src/src/xarchive` | a local archive; the IndexedDB of a browser extension | paged fetch loops |

`PROJECT.json` lists every one of them with its status.

### How they interact

Processes share the catalog (SQLite, one writer at a time) and the managed root
(`flock`), and no memory. Every operation is an invocation of the command line
that reads the catalog, waits for a provider or the file system outside of any
transaction, and writes in transactions. The waits are where others come in.

*Metadata.* `sync` asks an adapter for one page after the other through a request
gate that counts budgets, and writes each page with its checkpoint in one
transaction. Expansion and lookup drive the same executor; an expansion adds its
association rows to the page's transaction, a lookup its candidates. A discovery
session plans and executes lookups under one budget, follows what they found for
one generation, and stores a report. Retained responses can be replayed by a
newer normalizer.

*Media.* `media download` plans from a snapshot of the catalog and executes under
the root lock, item by item: settle without a download, reconcile what an earlier
run left, or transfer, verify, link into the CAS and enter into the catalog, in
two transactions with file-system steps between them. `media download-retry`
closes a run that is still `running`, selects its unsettled rows, plans those
anew and executes that plan. Adoption does the last part for local files.

*Judgement.* Discovery, lookups and seeds propose; an operator confirms or
rejects; identities of accounts, relationships of works and their lineages are
derived from what was confirmed, again after every decision.

### What is hard

* A process can be killed between any two steps, the machine can lose what was
  never forced, and the next invocation continues from what is left: files longer
  than their row, entries without a row, runs that are `running` for ever,
  checkpoints that must not be ahead of their pages.
* State is read before the lock or the transaction that relies on it: the row a
  retry resumes from, the plan an adoption or an expansion executes, the schema
  version, the import run of a digest, the evidence a review is about.
* What is read changes meanwhile: the file behind a URL, the listing that is
  paged through, the source file that is hashed, the seed of a lookup, which the
  lookup's own pages rewrite.
* Answers arrive out of order: older pages after newer ones, replays, names that
  a provider has swapped between two tags.
* Decisions are withdrawn, and what was derived from them has to follow.
* Every way out (four kinds of endings, an exception, an interrupt, a kill) has to
  leave rows that agree.

### What makes the components correct

* Storage: a CAS entry has exactly the bytes its name digests, for good; nothing
  writes to it again; what a row promises is on disk before the row is written.
* Publication and adoption: the catalog refers only to stored, verified bytes.
* Transfer: no file mixes two representations; a download is a whole one.
* Runs of every kind: what is reported is true, counted once, and stays so; what
  is complete has missed nothing; what paused can go on; everything ends.
* Rows: the newest report wins field by field, and none erases what it omits.
* Judgement: what is derived is what the standing decisions give, and only an
  operator moves a decision.

## 2. The modules

| Module | Models | Extends |
|---|---|---|
| `ContentStore` | abstract: a write-once map from digests to bytes and the references to it | |
| `ManagedCas` | `storage/cas.py`, the partial rows, `publication.py` and the parts of `execute` around them, for several processes | |
| `ManagedCasProofs` | theorems about `ManagedCas` | `ManagedCas` |
| `RemoteTransfer` | `HTTPTransferEngine.transfer` over the runs of one item | |
| `RemoteTransferProofs` | theorems about `RemoteTransfer` | `RemoteTransfer` |
| `AcquisitionRuns` | plans, runs and items; `execute`, `retry`, `recover_interrupted` of several processes | |
| `AcquisitionRunsProofs` | theorems about `AcquisitionRuns` | `AcquisitionRuns` |
| `RemoteSync` | the executor, request gate, budgets, page transactions, checkpoints and resumption of `remote_sync/` | |
| `LibraryExpansion` | `library/` on top of the executor | `RemoteSync` |
| `RemoteSyncProofs` | theorems about `RemoteSync` and `LibraryExpansion` | `LibraryExpansion` |
| `StorageAdoption` | `storage/adoption.py` with local staging, for several adopters | |
| `StorageVerification` | `storage/verification.py` beside the adopters | `StorageAdoption` |
| `StorageProofs` | theorems about adoption and verification | `StorageVerification` |
| `AccountIdentity` | account candidates, reviews and identities | |
| `PostRelations` | post candidates, reviews, works, relationships, lineages | |
| `ReviewProofs` | theorems about the judgement of accounts and posts | `AccountIdentity`, `PostRelations` |
| `CandidateLookup` | plans, pages and resumption of lookups | |
| `DiscoverySession` | sessions, their two waves and their report | `CandidateLookup` |
| `ProviderWalks` | how each adapter walks through pages | |
| `DiscoveryProofs` | theorems about the walks, and about lookups and sessions | `DiscoverySession`, `ProviderWalks` |
| `CatalogFile` | migration by several processes; the snapshot reader | |
| `CatalogRows` | the rows of one provider object and its history; tags | |
| `ImportRuns` | imports of source files; seeds | |
| `PostText` | fetches of pools, commentaries and notes | |
| `CatalogProofs` | theorems about these four | `CatalogFile`, `CatalogRows`, `ImportRuns`, `PostText` |
| `MC*` | the instances TLC checks | |

Acquisition is seen from three distances. In `AcquisitionRuns` a transfer is one
step (`Downloaded`, `TransferFails`) and so is each step of storage.
`RemoteTransfer` opens the transfer and takes storage as a file. `ManagedCas`
opens storage and takes a transfer as chunks that arrive, break off, or end.
`ManagedCas` is shown to implement `ContentStore`, with `store` mapped to the
bytes reachable through the CAS directory and `refs` to the managed locations.
Paging is seen from three distances, too: `ProviderWalks` has the cursors of each
adapter and no catalog, `RemoteSync` one listing by boundary and one by offset
with the whole executor, `CandidateLookup` an answer of pages that hold still.

### Correspondence with the code

A catalog transaction is one step everywhere: it happens as a whole or not at
all, and is durable, which is what SQLite in WAL mode with its default
`synchronous` gives. What happens between two transactions, two waits or two
durable effects is one action. A digest is the material it digests.

`ManagedCas`. A chunk (`Write`), `detach` (`Detach`: file and directory forced),
the row after it (`SavePartial`), `finalize` (`Finalize`), evidence
(`RecordEvidence`), the link (`PublishNew`) and its directory sync
(`SyncPublished`), the reuse branch (`PublishReuse`), the asset transaction
(`PersistAsset`), the item's own transaction (`SettleItem`), and the three steps
of quarantine. `Crash` loses descriptors and lock; `PowerLoss` also takes every
file and directory back to some state between what was forced and what was
visible; `powerLost` remembers that it happened. A staging name is allocated once
and never unlinked, so the staging directory is a set of inodes.

`RemoteTransfer`. A chunk is a pair of a representation and a position in it, so
a mixed file is visible. One action per outcome of each stage: `_open_session`
(`OpenFresh`, `OpenResumed`, `OpenRefused`), the request (`SendFails`,
`ErrorResponse`, `FullResponse`, `RangeResponse`), the header checks
(`RejectResponse`, `AcceptResponse`), the body (`Chunk`, `BodyBreaks`,
`BodyEnds`), the end of an attempt (`Conclude`, or `RecordRefused` and `Unwind`
when the attempt record does not accept the outcome) and of the item (`End`,
`EndComplete`). Redirects are folded into the response, and backoff into the
choice `Conclude` has of ending because the deadline would be reached. An error
response may carry any validator of `ErrorTags`; the field `relabelled` of a partial
is history and says that such a validator took the place of its own (`Relabels`).

`AcquisitionRuns`. An item's version stands for its `material_digest` and for
the bytes that target serves. The plan identity is the material of its items;
eligibility is stored with it, but is not part of it (`PlanConflict`). A row is
inserted when the loop reaches its item (`BeginItem`). Terminal rows are
immutable (`WriteRefused`), as `record_acquisition_run_item` enforces.

`RemoteSync`. `paging`, `live` and `gone` are the provider; `runs` are
`remote_runs` with checkpoint and retained responses; `spent`, `retries`,
`cursor`, `reply` are locals of `BoundedRemoteExecutor.execute`. The steps are
the request, its answer with the retained response, admission by the budget,
the page transaction (or its failure) and the end of the run. Elapsed time is a
flag that may rise at any moment. `LibraryExpansion` adds the facts a plan reads,
plans, probes, executions and associations; its runs are those of `RemoteSync`.

`StorageAdoption`. A content stands for bytes and both digests. An item goes
through the steps of the code (read the source, reopen it, stage, inspect,
publish or reuse, commit), and the environment may change, replace or remove a
source file and damage an entry between any two. `StorageVerification` reads
rows, tree, entries and staging one by one without the lock.

`AccountIdentity`, `PostRelations`. One action per transaction: discovery of a
retained link, the evidence of a lookup, a review (with or without the generation
and revision it was based on), the rebuild of an identity; seeding, the
materialization of candidates, an operator's ruling, a status change. Parsing of
links is left out: a link is in a retained field or it is not.

`CandidateLookup`, `DiscoverySession`. A lookup's request and its page are two
steps; the page's transaction may fail; an execution may end by an exception, an
interrupt or a kill. The revision of a seed is what wrote its row last. A session
has its steps with status and outcome, the two waves of its execution and what it
has spent. The rows an execution goes through are the set of those still to do, the
first of them being the next (`CurrentStep`). Steps that the code appends in nested
loops are a function from the places in those loops, laid out by `InOrder`. The
runs that a run goes on with (`Chain`) are the least set closed under `pred`.

`ProviderWalks`. One action per adapter turns a cursor and what the site has into
posts and the next cursor; a site adds and removes posts in between, may refuse,
and `rude` ones ignore the boundary they are asked with. A listing is newest first,
so that a page is told by the set of its posts, and the place of a post in it is the
number of those above it (`Place`).

`CatalogFile`, `CatalogRows`, `ImportRuns`, `PostText`. `CatalogFile` takes a
migration as `BEGIN EXCLUSIVE`, its script and its version in one commit, after a
version read outside; of SQLite's files it has the frames of the WAL, the saved
pages of a rollback journal and what `fstat` reports; the refusals of a snapshot for
its size, its header or its version are left out, and `QuietReadSucceeds` speaks of
a current catalog within the limit. `CatalogRows` has one row with one value per
kind of column, and what the code keeps as observations. `ImportRuns` has the four
transactions of an import and the two of a seed. `PostText` has the run's row, the
answer, and the transaction that writes both.

## 3. The runs

Components that share no variable are explored in one run, one at a time: a
variable `half` names the one that moves while the others rest in one initial
state, so that the run's states are the sum of theirs.

| Run | Question | Bounds | Outcome |
|---|---|---|---|
| `cas` | Two processes, kills and power losses anywhere: is the root with the catalog's locations the write-once store, is nothing linked that was not verified, do CAS entries keep their bytes, is nothing published ever written again, is what partial rows promise on disk? | 2 processes, 2 inodes, 2 items (one accepts any digest, one a single digest), byte strings up to 2 chunks | holds |
| `transfer_item` | The provider replaces its file at any time, errors carry validators, bodies break, the run is stopped or killed: does no file mix representations unless an error relabelled its partial, is a download whole, do rows keep their validator, does every run end? | 2 URLs, 4 representations (same validator under another URL, one without validator, one over the limit), 2 validators on error responses, 2 attempts, 3 runs, 2 chunks per item and 3 per run | holds |
| `transfer_error_tag` | Are representations never combined, whatever errors carry? | as `transfer_item` | violated (finding 4) |
| `runs` | Downloads and retries, killed anywhere: is what a run reports true, known, counted once, final, and not fetched twice in a plan? | "in turn": one process at a time, 2 items, 2 runs, 2 targets of one item; "at once": 2 processes, 1 item, where a retry may close the run of the other | holds |
| `sync` | "sync": listings under four limits, killed, failed, paused and resumed while posts come and go: are checkpoints covered and reports true, does every run end? "library": expansions planned, probed, executed and resumed while a fact changes: do they keep their authority and list every post once? | 3 posts and one to come, pages of 2, 1 change, 1 retry, 2 runs; one fact, two plans, one probe | holds |
| `library_resumed` | Can a paused expansion of a post seed be resumed while nobody else changes anything? | as `sync` | violated (finding 2) |
| `storage` | Two adopters with old plans, a source that changes, damage, failures, a kill, and a verification beside them: are locations verified, links agreed and reports true? | 4 source rows of 2 occurrences, 4 contents, 2 runs, 1 change, two entry limits | holds |
| `review` | "accounts": do identities follow from what is confirmed, as confirmations come and go? "posts": is every conclusion grounded in evidence about its own posts and in a decision? | 4 accounts, 5 links that make a chain, a double link and a triangle, 4 decisions; 3 posts in 3 scenarios, 2 reviews, 1 ruling; all edge sets on 4 accounts for `UnionFindJoins` | holds |
| `review_upgraded` | Is what materialization confirms what an operator confirmed? | as `review` | violated (finding 1) |
| `session` | "lookups": two by hand while the seed is synchronized; "session": a discovery whose own pages rewrite its seed; "pages": the walks of all adapters over a site that changes. Is complete what says so, are followed posts led to, are budgets kept, does everything end? | 2 pages, a budget of 2, 3 lookups, 1 session; 5 posts, pages of 2, 2 queries of 2 tokens, 2 changes, 1 fault | holds |
| `session_pages` | Does a complete lookup of Gelbooru have every match? | the walk alone, as `session` | violated (finding 3) |
| `catalog` | "migrations", "snapshots", "rows", "tags", "imports", "seeds", "texts": is an opened catalog migrated, a snapshot one committed state, a row the newest report, an imported file and a fetched text what the run says? | 3 openers of two releases and 3 migrations; 2 transactions of 2 pages; 2 writers, 2 times, 2 pages, 2 events; 2 importers, 3 contents, 3 imports; 2 fetches, documents that are reordered, shortened, repeated, blank, too long | holds |

A property is a conjunction of named parts, each of which states one thing; the
names in `PROJECT.json` are those of the conjunctions. They are:

| Property | Parts |
|---|---|
| `FileIsOneVersion`, `RowStands` | `NeverCombined`, `DownloadedWhole`; `RowValidates`, `RowIsRetryable` |
| `StoreAgrees`, `ReportStands` | `SettledHasAsset`, `StoredHasEvidence`; `FinishedCounts`, `ReportsAreFinal` |
| `CheckpointStands`, `RunReportIsTrue` | `CheckpointCovered`, `PausedResumable`; `CompleteCovers`, `CountsAgree`, `PauseIsProgress` |
| `ExpansionStands`, `LibraryIsListed` | `AuthorityStood`, `RunsAreBound`, `ReplanReproduces`; `ProvenanceCounts`, `ClashMeansShift`, `ChainAssociatesAll` |
| `AdoptedIsTrue`, `ReportIsTrue` | `LocationVerified`, `AssetsAgree`, `RunAccounts`; `FindingsJustified`, `OkReportVouches`, `ReportComplete` |
| `IdentityIsDecided` | `LedgerTellsState`, `IdentityIsComponent`, `MembershipJustified`, `CheckedReviewSawEvidence` |
| `ConclusionsAreGrounded`, `OnlyDecisionsMove` | `EvidenceAboutEndpoints`, `NothingConfirmedUnasked`, `LineageIsStanding`; `OthersKeepIdentity`, `OperatorHasLastWord` |
| `CompleteIsAnswered`, `SessionKeepsBounds` | `CompleteChainCovers`, `ChainAsksTheSame`, `NoRunLeftBehind`, `CompleteStepIsAnswered`; `FollowupsAreLedTo`, `SingleMaterialWithinBudget`, `ReportTellsSteps` |
| `WalkIsExact`, `BothEnd` | `CompleteMissesNothing`, `KeysetReadsOnce`; `SessionEnds`, `WalkEnds` |
| `SnapshotStands`, `OnlyNewsAdds` | `SnapshotIsCommitted`, `QuietReadSucceeds`; `NothingIsErased`, `SecondReplayAddsNothing`, `BindingSticks` (together `ReportsOnlyAdd`) |
| `ReportsAreTrue` | `ReportedIsStored`, `NothingUnreported`, `SeedReportIsTrue`; `CompleteIsObserved`, `CountsAreRows`, `ViewsAgree`; `RepeatAddsNothing` |

Why the bounds are enough. Two processes are enough for every race here: either a
lock leaves one of them inside and the other outside with stale rows, or two
transactions come in one order or the other. Three openers let one fall behind two
others. Two transactions let a second one reuse the pages of the log and of the file
that a reader holds of the first. A replay under the software that stored the
response repeats what it says: "rows" has at most one such, beside at most one other
replay (`FewIdleReplays`). Of the two writers and of the two importers the first
moves while both are in one state (`FirstMoves`): the other's step is the same with
the names exchanged. Two inodes allow a session of a process and a file it left,
linked, quarantined or claimed by another. Two chunks tell an empty, a partial and a
full file apart, and a limit that is reached from one that is not. Two attempts are
a first and a resumed one; three runs are a first one, a retry that leaves its file
longer than its row, and the retry that meets this. A second URL tells "the other
representation" from "another one under the same validator". A request is the only
step that reads what the provider holds, so its file is replaced between runs and
while a request is on its way, and not elsewhere (`MCNext` of `MCRemoteTransfer`;
`transfer_error_tag` has no such bound). Three posts on pages of two are a full page
and a short one; the fourth shifts an offset. The limits of a synchronization are
such that each of the budgets is the first to be reached in some run, and one admits
no full page. Four accounts are the least whose chain can be cut in the middle into
two groups with two members. Two pages with times in both orders, a replay and a
mark are the orders in which a report can be newest. `MaxRuns`, `MaxChanges`,
`MaxFaults`, `MaxDecisions` and their like bound the models only; page, record,
request and byte limits are the program's.

Deadlock is checked in `cas` and the runs of the transfer. In the others the
bounds of the model may be used up and nothing is left to do
(`CHECK_DEADLOCK FALSE`).

### Fairness

* `RunEnds` of `RemoteTransfer`: `WF(Engine)`. The engine is a loop in its own
  process, all its waits have timeouts (`httpx` timeouts, a bounded backoff, a
  deadline), and nothing it waits for is held by another process once it has the
  root lock.
* `RunEnds` of `RemoteSync`, also below an expansion: `WF(Step(p))`. The executor
  waits only for a request with a timeout and for a bounded delay.
* `SessionEnds`: `WF(SessionStep(p))`, a sequential loop over planned steps.
* `WalkEnds`: `WF(FetchStep)`. The caller goes on with the next page as long as
  the adapter returns a cursor. Only e621's adapter checks that a page lies behind
  the one before; for the others the site is assumed to keep to its cursors.
* `OpeningEnds`: `WF(OpenStep(p))` for every opener: SQLite grants its lock again
  after a commit, and the busy timeout is long against a script of the migrations.

Stops, kills, changes at the provider, new invocations and all that an operator
does are not fair: they may happen or not.

## 4. Findings

1. `candidate_lookup/interpretation.py:259` (`review_upgraded`). A lookup that finds
   a source for a pair with a confirmed same-work candidate rewrites the row's
   relation, endpoints and key but keeps its state: a confirmation of one claim
   becomes the confirmation of another, and is then materialized as a reviewed
   repost. The specification says lookups never confirm.
2. `library/planning.py:443` (`library_resumed`). The revision of a post seed
   includes `last_seen_at`, which each page that lists the seed rewrites, those of
   the expansion itself among them; its paused execution is then refused as stale.
3. `adapters/gelbooru/adapter.py:452` (`session_pages`). A lookup goes on at
   `pid + limit` where the listing of the same endpoint goes on at `pid + 1`; with
   more than a page of matches it passes pages over and is complete.
4. `acquisition/transfer.py:408` (`transfer_error_tag`). A partial is saved with the
   validator of the last response, also of a retryable error response
   (`transfer.py:304` takes it before the status is looked at). If that is the
   validator of a newer representation, the rest of that one is appended to bytes of
   the old one, and the mixture is staged as downloaded. The specification says the
   system does not combine representations (`remote-media-acquisition/spec.md:76`).

### Observations

Behaviour of the code that the models have and that a reader should know of. The
properties are stated so as to allow it. Some of it the specifications (in
`src/openspec/specs/`) speak against, and no run of its own shows it:

* `storage/cas.py:921`: a file longer than its row, as a kill between the bytes and
  the row leaves it, is refused on every later attempt.
  `remote-media-acquisition/spec.md:68` demands that an unsafe partial is discarded
  or quarantined and the transfer restarted from byte zero. `RowStands` says that a
  retry selects the item, not that it succeeds.
* `acquisition/transfer.py:398`: `limit_exceeded` and `storage_integrity_failed` are
  not in `ACQUISITION_OUTCOMES`; the attempt record raises and the run stays
  `running`. `remote-media-acquisition/spec.md:85-87` demands that bounded failure
  evidence is retained for a response over the byte limit.
* `acquisition/service.py:936`: a retry of some items of a run makes a plan of its own,
  whose items have other identities: evidence under the old ones is not found, and
  published bytes whose records are missing are downloaded again.
  `remote-media-acquisition/spec.md:120-124` demands that a later retry recognizes
  them. `SamePlanNeverRedownloads` speaks of the runs of one plan.
* `discovery/orchestration.py:491`: a step with several materials gives each the whole
  remaining budget, and a step that raises counts no request.
  `unified-discovery/spec.md:42-44` puts provider steps under one session budget.
  `SingleMaterialWithinBudget` is about the other steps.

The rest no document excludes.

Acquisition and storage:

* `storage/cas.py:1523`: the reuse branch of `publish_staged` returns without an
  `fsync` of the directory. If the process that linked the entry was killed before
  its own, the retry's transaction refers to an entry that a power loss still
  takes away. `LinkedIsVerified` allows that after a power loss, and
  `ImplementsContentStore` leaves out the steps that are power losses.
* `acquisition/service.py:974`: `retry` pairs the active partial with the response
  size of the last attempt row; if that was about a shorter representation,
  `ResumeState` raises, on every retry.
* `acquisition/service.py:1015`: `recover_interrupted` takes no lock and does not ask
  whether the run's process is alive. `ReportStands` excepts the counts of a run
  closed that way (`overtaken`).
* `acquisition/service.py:120` and `:925`: the plan of a retry may have the digest of
  the stored one with other counts, and is refused; items that a killed run had not
  reached have no row, so no retry selects them.
* `acquisition/transfer.py:295`: a stop before the partial is opened discards it.
  `acquisition/planning.py:243`: an item whose target
  changed counts as satisfied by the asset of its old target.
* `storage/adoption.py:611`: a killed adoption run stays `running`.

Synchronization, libraries, lookups:

* A record of a library's artist that lists the seed's own account raises
  `IntegrityError` (`candidate_lookup/interpretation.py:410`).
* Gelbooru: an answer of status 200 without a body ends a listing as complete.
  pixiv: the access token is never renewed. Danbooru: `Retry-After` is dropped.
* A killed synchronization leaves its run `running`, and resume accepts only paused
  runs. A page with more records than the whole budget pauses every run.
* Listings by offset miss a post when one above is removed (`CompleteCovers` and
  `CompleteMissesNothing` except that).

Review:

* A relationship an operator sets back to pending is confirmed again by the next
  materialization of its confirmed candidate.
* Once a group is split into two with members, confirming the link between them
  again is refused (`discovery/review.py:141`).

Catalog:

* `database.py:262`: the version is read outside the migration's transaction, so a
  step may be replayed; migration 14, replayed on a later catalog, takes
  `user_version` back, and the later steps are replayed as well.
* A stub, a seed or a late page sets a post that was deleted or tombstoned back to
  available; a seed sets it to unknown.
* A rename of a tag onto a name whose row post tags already use raises
  `IntegrityError`.
* `imports/common.py:79`: a file that changes after its digest was taken is stored
  under the old digest (`ReportedIsStored` asks for *a* content of the file). A
  `running` status that a racing import finds takes a complete run back.
* A second seed file for the same post reports the asset of the first.
* A pool that goes from A to B and back to A is not observed a third time; a note
  body over 10 000 characters leaves its run `running`.

## 5. The proofs

Each proof module proves its theorems for every value of the constants that the
named assumptions of its component allow: any sets of processes, items, files and
contents, any limits, any numbers of runs, kills and changes. TLC evaluates those
assumptions in the runs, and the properties below hold there on a small instance.

| Module | Theorem | Property | What it says |
|---|---|---|---|
| `ManagedCasProofs` | `TypeCorrect` | `TypeOK` | types |
| | `CasIntegrityHolds` | `CasIntegrity` | a CAS entry holds the bytes its name digests, forced |
| | `NoWriterOnPublishedHolds` | `NoWriterOnPublished` | no transfer writes to a file that is in the CAS or in quarantine |
| | `PartialPrefixDurableHolds` | `PartialPrefixDurable` | the prefix of every active row is on disk |
| | `LinkedIsVerifiedHolds` | `LinkedIsVerified` | links lead to bytes that the claims allow, and that only a power loss can take away |
| | `ImplementsStore` | `ImplementsContentStore` | the write-once store is implemented by every step but a power loss |
| `RemoteTransferProofs` | `TransferTypesStand` | `TypeOK` | types |
| | `LeftRowsAreRetryable` | (a part of `RowStands`) | a row that a run leaves behind belongs to an item a retry selects |
| | `FilesAreOneVersion` | `FileIsOneVersion` | no file mixes representations unless an error relabelled its partial, a download has its length and, unless relabelled, is a whole one |
| | `RowsStand` | `RowStands` | rows describe their file and, unless relabelled, keep its validator |
| `AcquisitionRunsProofs` | `TypesStand` | `TypeOK` | types |
| | `StoreStandsBehindReports` | `StoreAgrees` | what is reported as done is stored and linked, what is stored can be found |
| | `StoredBytesAreReused` | `SamePlanNeverRedownloads` | nothing a plan has stored is downloaded again |
| | `ReportsStand` | `ReportStands` | a report is true when it is given and stays as it was |
| `RemoteSyncProofs` | `TypesStand` | `RemoteSync!TypeOK` | types |
| | `CheckpointsStand` | `CheckpointStands` | checkpoints are covered, paused runs can be resumed |
| | `ReportsAreTrue` | `RunReportIsTrue` | complete listings have every post, counts agree with rows |
| | `ExpansionSynchronizes` | `RemoteSync!SyncSpec` | an expansion takes only steps of a synchronization, so the three theorems above hold of it |
| | `ExpansionsStand` | `ExpansionStands` | an execution does what the facts at its check authorized, is bound to the run that does it, and can be planned again while they stand |
| | `LibraryListsAll` | `LibraryIsListed` | an execution has what it counts; a completed one has, with those it resumed, every post listed all along |
| `StorageProofs` | `TypesStand` | `VTypeOK` | types |
| | `AdoptedStands` | `AdoptedIsTrue` | locations are verified, links agree, runs account for their items |
| | `ReportsStand` | `ReportIsTrue` | a verification is right in what it finds and in what it does not |
| | `SecondAssetsHaveStalePlans` | `SecondAssetByStalePlan` | a second asset comes only from a plan older than the first |
| `CatalogProofs` | `FileTypesStand` | `FileTypeOK` | types |
| | `OpenedStands` | `OpenedIsMigrated` | an opened catalog has every migration its software knows |
| | `SnapshotsAreCommitted` | `SnapshotStands` | a snapshot is one committed state of the time of the call |
| | `RowsTyped` | `RowsTypeOK` | types, and that tags have names and identifiers of their own |
| | `ProjectionShowsNewest` | `ProjectionIsNewest` | a row shows the newest report, column by column |
| | `OnlyNewsIsAdded` | `OnlyNewsAdds` | nothing known is erased, a second replay adds nothing, tags keep their rows |
| | `ImportsStand` | (`ImportsAreTrue`, a part of `ReportsAreTrue`) | what imports and seeds report is stored, and nothing of a failed one is |
| | `RepeatsAddNothing` | (`ImportsAreIdempotent`, a part of `ReportsAreTrue`) | a content imported again adds no event and inserts no post |
| | `TextsStand` | (`TextsAreTrue`, a part of `ReportsAreTrue`) | what fetches report is observed, counted once, and seen alike from pool and post |
| `DiscoveryProofs` | `WalkTypesStand` | `WalkTypeOK` | types |
| | `WalksAreExact` | `WalkIsExact` | a walk that ended by itself has missed nothing, and one by boundaries reads nothing twice |
| | `SessionTypesStand` | `SessionTypeOK` | types, and that a checkpoint names a page of the answer |
| | `CompleteRestsOnAnswers` | `CompleteIsAnswered` | complete lookups and steps have what the providers answer |
| | `SessionKeepsToBounds` | `SessionKeepsBounds` | follow-ups are led to, budgets are kept, reports tell the steps |
| `ReviewProofs` | `AccountTypesStand` | `AccountTypeOK` | types |
| | `IdentitiesAreDecided` | `IdentityIsDecided` | identities are the components of the confirmed links, and the ledger tells every state |
| | `OthersStay` | (a part of `OnlyDecisionsMove`) | a decision moves no account that its link does not reach |
| | `PostTypesStand` | `PostTypeOK` | types, and that keys and anchors are unique |
| | `ConclusionsStand` | `ConclusionsAreGrounded` | evidence is about its posts, nothing is confirmed unasked, lineages are what standing relationships join |
| | `OperatorStands` | (a part of `OnlyDecisionsMove`) | seeding and materializing again leave what the operator decided |

### Assumptions

* `ManagedCas`: the byte limit is a natural number, SHA-256 has no collisions on
  the contents considered.
* `RemoteTransfer`: a validator names one representation of its resource
  (`ValidatorAssumption`; what HTTP demands of strong validators).
  Nothing is assumed of the validators of error responses.
* `AcquisitionRuns`: items are finitely many and ordered by numbers.
* `RemoteSync`: posts are numbered, pages have at least one post, limits are positive.
* `LibraryExpansion`: the facts known at first are facts (rows of the tables they model).
* `AccountIdentity`: accounts and links are finitely many, a link starts at a known account.
* `StorageAdoption`, `StorageVerification`: the planned rows are a sequence, and a
  content is not both undecodable and exact-only.
* `CatalogFile`: each release knows a first part of the migrations.
* `CatalogRows`: the processes are finitely many (their pages on the way are counted),
  and the clock has a first moment.
* `ImportRuns`: records are rows of numbers with a post, a time and a value; the mark of
  a missing value is none of them. `PostText`: documents are of their shape (an entry that
  is no id and a text that is blank or too long included), statuses are those of HTTP.
* `CandidateLookup`, `DiscoverySession`: providers, strategies and the materials of a
  seed are sequences, the posts are finitely many, a provider answers with at least
  one page, limits are positive, and "catalog" and "fetch_post" are neither a provider
  nor a lookup strategy.
* `ProviderWalks`: posts are numbered and finitely many, each query has a token, pages
  have at least one post.
* `PostRelations`: posts are numbered and finitely many, everything a scenario names is
  one of them, and a post has at most one retained link in it.
* Everywhere: `None` and its like are none of the values they stand in for.

### The arguments

None of the safety properties is inductive. What makes each of them hold:

*`ManagedCas`.* A published inode keeps its staging name; rows that name it survive
in the catalog and in the memory of a process that read them before it got the
lock. `IInv` says why such a row can never open it for writing: a file that is
sealed (in the CAS or in quarantine) has *outgrown* every row that still names it
(`RowInv`), and `reopen_remote_staging` refuses a file longer than its row. That
holds because a session that appends is the only one on its file and every row of
that file ends at or before the point it resumed from (`WriteInv`), and a resumed
transfer seals the file only after it has appended (`SealingInv`). `FileInv` says
forced bytes are a prefix of visible ones, all of them once sealed, `DirInv` that
entries carry the digest of their bytes, `LockInv` that only the lock's holder is
inside `execute`. `LinkInv` carries a process from the comparison of its digest with
the claims to the link. For the refinement each step is one of three: it sets one
entry that was absent (`PublishNew`), it adds a location whose entry is there
(`PersistAsset`), or it moves neither; that a published inode is never written
makes everything else a stutter.

*`RemoteTransfer`.* A partial is filled by several attempts of several runs, and the
provider changes what it holds in between. From one to the next it is carried by
`Describes`: the row's validator belongs to a representation that begins with the
bytes the row counts, unless an error response relabelled it. A response that is
accepted continues that representation (`SessionTruth`), and a session that breaks off
is saved under the validator of what it holds (`FailedTruth`), that of an error response
excepted, which `relabelled` remembers for as long as the partial lives. `ShapeInv` says
what the locals of `transfer` are at each stage, and `PlaceInv` that every chunk lies
where its range put it, whatever validators say.

*`AcquisitionRuns`.* The executor of a run is alone: it holds the root lock, so nobody
else publishes, links or starts a run, and what it has read of earlier runs stays true
(`PreviewInv`, `PriorInv`). What another invocation may do beside it is
`recover_interrupted`, which closes open rows and settles none; the run is then
`overtaken`, and `CountInv` speaks of the others. `BytesInv` follows the digests of an
item from its row to the link. Two facts about the largest element of a finite set of
numbers (the last run that settled an item) are proved as lemmas.

*`RemoteSync`.* A page is fetched, retained and admitted before it is stored, while
the provider changes its listing and others store their pages. `Works` says what an
invocation is good for at each point: everything before its continuation is stored,
and everything before the next one will be, once the page it holds is (`Brings`). Both
are stable under what a provider does, by boundary unconditionally, by offset as long
as nothing that the chain has seen was removed; the lemmas about positions
(`Above`) count how many posts lie before a boundary. `Tallied` ties the budget of an
invocation to the rows it has written.

*`LibraryExpansion`.* Each step of an expansion is a step of `RemoteSync` or leaves its
variables alone, so that the invariant above is there from the start. `BoundInv` adds
that every execution has the run of its number, a stored plan that was made under the
facts it was checked with, and a predecessor that is an earlier execution of the same
plan and has paused. `ListedInv` compares what an execution has associated with what its
run counts and where its invocation is; a post that is already associated is met again
only after the listing was shifted. Completeness is a matter of whole chains: `ChainInv`
says of every set of executions that is closed under predecessors that what they
associated together covers their checkpoints, the continuations of the invocations at
work, and their completions; the chain of an execution is one of those sets.

*`StorageAdoption`, `StorageVerification`.* The holder of the lock is alone, so what it
has established of its item stands until its transaction (`WorkStands`); its plan is
older, but compares with digests that are never taken back (`PlanStands`). A
verification takes no lock. Its report is right because adopters replace no file that
has a location: only harm changes one (`harmed`), and what a pass has still to look at
(`PassStands`, `Exhaustive`) shrinks only by what it writes into its findings. For the
sake of the proof the candidates of a plan are an index set that is counted off
(`CandidateRow`), in place of a filtered sequence.

*`CatalogFile`.* Migrations: what an opener's loop has passed is applied
(`PassedAreApplied`), although the version it compares with was read outside of the
transaction. Snapshots: without frames in the WAL, or without a hot journal, the file
is its last committed state (`FileIsCommitted`); the pages a reader has were those of
one committed state as long as nothing it checks afterwards has moved (`SeenInv`), and
if nothing moved at all the checks succeed (`QuietInv`).

*`CatalogRows`.* A page of an earlier time may be written after one of a later time, a
replay keeps the time of the response it reads, and a column that a report omits keeps
what the row had. `NewestInv` therefore says of each column that it is that of the
last statement of the newest time that has one, if any does; a statement of the same
or a later time becomes that statement in the columns it reports
(`StatementShows`), an older one moves none of them (`OlderShowsNothing`). That the
second of two racing replays adds nothing holds because an observation is identified
by what the response says and not by when it is written: each completed replay has
its observations in the history (`HistoryInv`). A tag keeps its row because the rows
have distinct names and identifiers whatever the provider renames, and a page on its
way carries names that its tags have had (`TagInv`).

*`ImportRuns`.* A completed run may be taken back to `running` or `failed` by an import
of the same file that looked it up before it completed, so that its status says little.
What it has read stays: everything that a run has ever read is stored under it
(`ReadIsStored`), it is complete only if it has read something, and no importer reports
a run that has not (`ReportsHaveRead`). A second import of such a content then finds
every event and every post. An asset of a seed's occurrence, once there, is the one every
later report names (`SeedInv`).

*`PostText`.* Rows are only added, each by the transaction that also ends its run, so
that what a complete run was told stays stated (`StatedStays`). Counts: a run that is not
over has counted nothing (`RunStands`), and one that ends counts the rows it adds, hence
the sum moves with the table (`CountedMoves`).

Both modules compute by recursive functions, over the records of a content, the facts of
a document and the rows of runs. That such a function exists, and that what its first
value has and each step keeps its last value has, is proved once, from the well-founded
order of finite sets (`RepeatsExist`, `CountsOff`).

*`AccountIdentity`.* A component is the least set around an account that no confirmed
candidate leaves; that union-find arrives at these sets TLC evaluates
(`UnionFindJoins`), and the lemma on union-find below proves it. Confirming a candidate makes one component of two
(`ComponentsConfirmed`) and gives one identity to both; withdrawing one numbers the
accounts of one component anew (`ComponentsRebuilt`): those involved are exactly a
component before it (`InvolvedIsComponent`), and the numbers given to its parts are new
and different (`NumbersDiffer`). The evidence of a candidate only grows, so that its
generation tells which evidence a review has seen, and the rows of the ledger are those
that made the states what they are.

*`PostRelations`.* `MatchStands` says of a candidate that its key tells it, that it
links two different posts, that its evidence is about these two, and that it is
confirmed only if a review of the two confirmed it; `RelationStands` says the same of
relationships, between objects that exist, with a ruling or a review behind each
confirmation. A lookup that turns a row into a candidate for a source gives it a key
that no other row has, because it meets a source candidate first in either orientation
(`ExistingMatchFacts`). Otherwise the tables only grow and an anchor keeps its post
(`TablesGrow`), so what was established stays (`MatchStandsOn`, `RelationStandsOn`).
For lineages, the fold that unites groups edge by edge arrives at the components of the
graph (`UnionFindIsParts`). As a fold is a recursive function on the subsets of the
edges, this is shown of a least set of edges for which it would fail: there is none.
A set of posts that no standing relationship crosses is then a union of lineages.

*`ProviderWalks`.* Six adapters compute the next cursor from a page in nine ways, while
the site gains and loses posts. `Stands` says of the page that a walk is at what the
computation has to give: what lies before it (`Behind`: above the boundary, or at lower
places) was read or was not there all along, and of what follows it nothing was read.
One lemma (`AcceptKeeps`) shows that any page an adapter accepts takes `Stands` to the
next page, to the next token or to the end; the lemmas about places say that a page is
the posts between two places, and that a post which is added, or removed below, moves
none of the others up. `ending = "complete"` then means that the last token is passed.

*`CandidateLookup`.* A resumed run starts at the checkpoint of another, in a row of its
own, with pages that were committed by a process that may be dead. `HasPages` says of a
checkpoint, and of the page a process is at, that every page before it was collected
along the chain; `RowStands` that a complete run has collected them all, and `WorkStands`
carries this through request, answer, commit and ending. Because a chain is a least
closed set it changes with no run but the last, which no other goes on with: a run is
resumed only when it is paused, and a paused run is never written again
(`OneRunChanges`), although the same checkpoint may be resumed twice.

*`DiscoverySession`.* A session is executed by one process while others run lookups for
its seed, rewrite it and report the session. What a step rests on only grows
(`RowsGrow`). `DueStands` ties the rows still to do to the steps that are planned, so that
nothing is left when the waves are over (`Tells`); `ExecStands` says that what was spent
is what was sent, and what the lookup at hand may send fits into what is left, as long as
the steps are `Plain`; `LedTo` is proved for a step when it is inserted, and holds for
good because steps are only appended.

A proof has one lemma for each action, or for a group of actions that leave the same
variables alone, and a theorem `Invariance` (in `ManagedCasProofs`
`StorageInvariant`, in the two-part modules one for each part) that joins them; the
properties follow from it.

Some runs explore two components in one state graph (section 3). The theorems are
about the component's own specification: those of `RemoteSyncProofs` about the halves
"sync" and "library" of their run, those of `CatalogProofs` about "rows" and "tags"
together, about "migrations" and "snapshots" together, about "imports" and "seeds"
together and about "texts", those of
`AcquisitionRunsProofs` about both halves without their bounds, those of
`DiscoveryProofs` about "pages" and about "lookups" and "session" together, those of
`ReviewProofs` about "accounts" and about "posts".

### Only model-checked

* The types of `LibraryExpansion`, `ImportRuns` and `PostText`, on the instances of
  section 3.
* Liveness (`RunEnds`, `SessionEnds`, `WalkEnds`, `OpeningEnds`) and `ENABLED` are out
  of the prover's reach, and so is, in general, what a recursive definition computes
  for every input (the union-find of `PostRelations` and the recursive functions of
  `ImportRuns` and `PostText` are exceptions).

## 6. Not modelled

* Image inspection, path and symlink checks beyond links and special files, the
  durability of new fan-out directories.
* Content codings (lengths in headers and decoded bytes are one count here),
  credentials, redirect chains; URL and host rules of request policies.
* Attempt rows beyond the response size `retry` reads, and byte counters.
* What adapters parse out of a post, a tag or a profile, and the fields of rows one
  by one: a row has one value per kind of column.
* The contents of the migrations, and the search index.
* Account and file seeds; profiles, series and links of imports.
* Selection queries, projections, browsing, export, labeling, doctor and the command
  line: reads of the catalog with output, without state of their own.
* `src/src/x_likes` and `src/src/xarchive`: stand-alone paged fetch loops.

`PROJECT.json` gives each component's status with the reason.

## 7. Plan

1. The types of `LibraryExpansion`, `ImportRuns` and `PostText` as theorems.
2. The paged fetch loops of the stand-alone tools.
