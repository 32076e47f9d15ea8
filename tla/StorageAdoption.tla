--------------------------- MODULE StorageAdoption ---------------------------
(***************************************************************************)
(* storage/adoption.py with the parts of storage/cas.py it drives: a plan  *)
(* is made without the managed root's lock, executed later under it, one   *)
(* catalog transaction per item, while source files change.                *)
(*                                                                         *)
(* A content stands for the bytes of a file and for both their digests; a  *)
(* managed path is the content it is derived from.  A catalog transaction  *)
(* is one step.  The directories of the managed root are durable here:     *)
(* ManagedCas is about power loss.                                         *)
(***************************************************************************)
EXTENDS Naturals, Sequences, FiniteSets, SequencesExt

CONSTANTS
    Adopter,        \* processes that adopt into one managed root
    SourceRows,     \* occurrence_sources in row order: [occurrence, path]
    Content,
    InitialRoots,   \* what the source root and the managed root may hold at first
    Declared,       \* the declared digest of an occurrence, or None
    Oversize,       \* contents over max_bytes
    ExactOnly,      \* contents that are not raster images
    Undecodable,    \* contents that claim to be images and are not
    PlanLimit,      \* the limit of a plan
    MaxRuns, MaxChanges,    \* bounds of the model
    None, Link      \* no value; a symbolic link or another special file

Path == {row.path : row \in ToSet(SourceRows)}
Occurrence == {row.occurrence : row \in ToSet(SourceRows)}

ASSUME AdoptionAssumption ==
    /\ SourceRows \in Seq([occurrence : Occurrence, path : Path])
    /\ None \notin Adopter \cup {"whole", "damaged"}
    /\ Declared \in [Occurrence -> Content \cup {None}]
    /\ InitialRoots \subseteq [source : [Path -> Content],
                               managed : [Content -> {None, "whole", "damaged"}]]
    /\ Oversize \cup ExactOnly \cup Undecodable \subseteq Content
    /\ ExactOnly \cap Undecodable = {}
    /\ {PlanLimit, MaxRuns, MaxChanges} \subseteq Nat
    /\ {None, Link} \cap Content = {} /\ None # Link

VARIABLES
    file,       \* the source root: a content, Link, or None
    cas,        \* the managed root: None, "whole" or "damaged"
    residue,    \* staging names left behind: they are never unlinked
    assets,     \* the assets in the order of their ids
    linked,     \* occurrence_assets
    location,   \* asset_locations of the managed root
    runs,       \* adoption_runs with their adoption_items
    owner,      \* holder of .adoption.lock
    me,         \* the local state of every adopter
    changes,    \* faults of the environment so far
    harmed      \* history: contents damaged after an adopter verified them

catalog == <<assets, linked, location, runs>>
vars == <<file, cas, residue, catalog, owner, me, changes, harmed>>

Successes == {"adopted", "adopted_exact_only", "existing"}
Outcomes == Successes \cup {"missing", "unsafe_path", "unreadable", "source_changed",
    "limit_exceeded", "hash_mismatch", "inspection_failed", "storage_integrity_failed"}

(* What a plan says of a row. *)
Item == [row : DOMAIN SourceRows, class : {"eligible"} \cup Outcomes, legacy : Content \cup {None}]

(* touched: the file an adopter is reading was written to in place; since  *)
(* is history: the occurrences that had an asset when it planned.          *)
Idle == [pc |-> "idle", plan |-> <<>>, since |-> {}, run |-> 0, next |-> 1,
         completed |-> 0, failed |-> 0,
         bytes |-> None, touched |-> FALSE, outcome |-> None]

TypeOK ==
    /\ file \in [Path -> Content \cup {None, Link}]
    /\ cas \in [Content -> {None, "whole", "damaged"}]
    /\ residue \in Nat /\ changes \in 0..MaxChanges
    /\ assets \in Seq(Content) /\ IsInjective(assets)
    /\ linked \subseteq Occurrence \X Content
    /\ location \subseteq Content /\ harmed \subseteq Content
    /\ owner \in Adopter \cup {None}
    /\ \A r \in DOMAIN runs :
          /\ runs[r].status \in {"running", "complete", "partial", "failed"}
          /\ Range(runs[r].items) \subseteq Outcomes
    /\ \A p \in Adopter :
          /\ me[p].pc \in {"idle", "planned", "item", "hash", "reopen", "stage",
                           "inspect", "publish", "commit", "fail"}
          /\ me[p].plan \in Seq(Item)
          /\ me[p].bytes \in Content \cup {None}
          /\ me[p].outcome \in Outcomes \cup {None, "capability_unavailable"}

Init ==
    /\ \E root \in InitialRoots : file = root.source /\ cas = root.managed
    /\ residue = 0 /\ changes = 0 /\ harmed = {}
    /\ assets = <<>> /\ linked = {} /\ location = {} /\ runs = <<>>
    /\ owner = None
    /\ me = [p \in Adopter |-> Idle]

Set(p, new) == me' = [me EXCEPT ![p] = new]
Current(p) == me[p].plan[me[p].next]
RowOf(p) == SourceRows[Current(p).row]
Linked(o) == {link[2] : link \in {l \in linked : l[1] = o}}

-----------------------------------------------------------------------------
(* Planning: no lock, no write *)

(* Rows of one occurrence and path are one candidate, the oldest. *)
Candidates == {i \in DOMAIN SourceRows : \A j \in 1..(i - 1) : SourceRows[j] # SourceRows[i]}

(* The k-th of them. *)
CandidateRow(k) == CHOOSE i \in Candidates : Cardinality({j \in Candidates : j < i}) = k - 1

(* Mutant: only a declared digest is compared. *)
LegacyDeclared(o) == Declared[o]

(* The declared digest, else that of the oldest asset of the occurrence. *)
Legacy(o) ==
    LET own == {i \in DOMAIN assets : <<o, assets[i]>> \in linked}
    IN  IF Declared[o] # None THEN Declared[o]
        ELSE IF own = {} THEN None ELSE assets[Min(own)]

Classify(path) ==
    CASE file[path] = Link -> "unsafe_path"
      [] file[path] = None -> "missing"
      [] file[path] \in Oversize -> "limit_exceeded"
      [] OTHER -> "eligible"

ItemOf(i) ==
    [row |-> i, class |-> Classify(SourceRows[i].path),
     legacy |-> Legacy(SourceRows[i].occurrence)]

PlanNow == [k \in 1..Min({PlanLimit, Cardinality(Candidates)}) |-> ItemOf(CandidateRow(k))]

Plan(p) ==
    /\ me[p].pc = "idle" /\ Len(runs) < MaxRuns
    /\ Set(p, [Idle EXCEPT !.pc = "planned", !.plan = PlanNow,
                            !.since = {o \in Occurrence : Linked(o) # {}}])
    /\ UNCHANGED <<file, cas, residue, catalog, owner, changes, harmed>>

(* The lock comes before the first write of the catalog: whoever finds it  *)
(* taken leaves nothing behind.                                            *)
BeginRun(p) ==
    /\ me[p].pc = "planned" /\ owner = None /\ Len(runs) < MaxRuns
    /\ owner' = p
    /\ runs' = Append(runs, [status |-> "running", planned |-> Len(me[p].plan),
                             items |-> <<>>, completed |-> 0, failed |-> 0])
    /\ Set(p, [me[p] EXCEPT !.pc = "item", !.run = Len(runs) + 1])
    /\ UNCHANGED <<file, cas, residue, assets, linked, location, changes, harmed>>

LockRefused(p) ==
    /\ me[p].pc = "planned" /\ owner # None
    /\ Set(p, Idle)
    /\ UNCHANGED <<file, cas, residue, catalog, owner, changes, harmed>>

-----------------------------------------------------------------------------
(* One item *)

ItemDone(p, outcome) ==
    LET done == IF outcome \in Successes THEN 1 ELSE 0
    IN  /\ runs' = [runs EXCEPT ![me[p].run].items = Append(@, outcome)]
        /\ Set(p, [me[p] EXCEPT !.pc = "item", !.next = @ + 1,
                                !.completed = @ + done, !.failed = @ + 1 - done,
                                !.bytes = None, !.touched = FALSE, !.outcome = None])

Failing(p, outcome) == Set(p, [me[p] EXCEPT !.pc = "fail", !.outcome = outcome])

InItem(p) == me[p].pc = "item" /\ me[p].next <= Len(me[p].plan)

(* What the plan already refused is recorded without opening the file. *)
PersistIneligible(p) ==
    /\ InItem(p) /\ Current(p).class # "eligible"
    /\ ItemDone(p, Current(p).class)
    /\ UNCHANGED <<file, cas, residue, assets, linked, location, owner, changes, harmed>>

(* A location of the planned digest that the occurrence has already. *)
ExistingLocation(p) ==
    /\ Current(p).legacy \in location
    /\ Current(p).legacy \in Linked(RowOf(p).occurrence)

(* open_source: a descriptor on what the path names now, to compare the    *)
(* source with a location or, when it differs, to copy it.                 *)
OpenSource(p) ==
    /\ (InItem(p) /\ Current(p).class = "eligible") \/ me[p].pc = "reopen"
    /\ LET content == file[RowOf(p).path]
           then == IF me[p].pc = "item" /\ ExistingLocation(p) THEN "hash" ELSE "stage"
       IN  CASE content = None -> Failing(p, "missing")
             [] content = Link -> Failing(p, "unsafe_path")
             [] content \in Oversize -> Failing(p, "limit_exceeded")
             [] OTHER -> Set(p, [me[p] EXCEPT !.pc = then, !.bytes = content])
    /\ UNCHANGED <<file, cas, residue, catalog, owner, changes, harmed>>

(* _hash_open_source and _verify_existing_cas: nothing is copied when the  *)
(* source still has the bytes of the location.                             *)
ReuseLocation(p) ==
    /\ me[p].pc = "hash"
    /\ IF me[p].touched THEN Failing(p, "source_changed")
       ELSE IF me[p].bytes # Current(p).legacy
            THEN Set(p, [me[p] EXCEPT !.pc = "reopen", !.bytes = None])
       ELSE IF cas[me[p].bytes] # "whole" THEN Failing(p, "storage_integrity_failed")
       ELSE Set(p, [me[p] EXCEPT !.pc = "commit", !.outcome = "existing"])
    /\ UNCHANGED <<file, cas, residue, catalog, owner, changes, harmed>>

LegacyAgrees(p) == Current(p).legacy \in {None, me[p].bytes}

(* stage_source and the digest checks of adopt: whatever comes of the      *)
(* copy, its staging name stays (_cleanup_staging_name).                   *)
StageSource(p) ==
    /\ me[p].pc = "stage"
    /\ residue' = residue + 1
    /\ \/ me[p].touched /\ Failing(p, "source_changed")
       \/ ~me[p].touched /\ ~LegacyAgrees(p) /\ Failing(p, "hash_mismatch")
       \/ ~me[p].touched /\ LegacyAgrees(p) /\ Set(p, [me[p] EXCEPT !.pc = "inspect"])
    /\ UNCHANGED <<file, cas, catalog, owner, changes, harmed>>

InspectStaged(p) ==
    /\ me[p].pc = "inspect"
    /\ IF me[p].bytes \in Undecodable THEN Failing(p, "inspection_failed")
       ELSE Set(p, [me[p] EXCEPT !.pc = "publish"])
    /\ UNCHANGED <<file, cas, residue, catalog, owner, changes, harmed>>

(* Mutant: a file under the right name is taken for the right bytes. *)
TargetVerifiesByName(b) == TRUE

TargetVerifies(b) == cas[b] = "whole"

(* publish_staged: link the new file, or verify the one that is there. *)
PublishStaged(p) ==
    /\ me[p].pc = "publish"
    /\ LET b == me[p].bytes
           outcome == IF b \in ExactOnly THEN "adopted_exact_only"
                      ELSE IF cas[b] = None THEN "adopted" ELSE "existing"
       IN  IF cas[b] # None /\ ~TargetVerifies(b)
           THEN Failing(p, "storage_integrity_failed") /\ UNCHANGED cas
           ELSE /\ cas' = [cas EXCEPT ![b] = IF @ = None THEN "whole" ELSE @]
                /\ Set(p, [me[p] EXCEPT !.pc = "commit", !.outcome = outcome])
    /\ UNCHANGED <<file, residue, catalog, owner, changes, harmed>>

(* The file system has no descriptor-bound links, or no staging name could *)
(* be allocated: errors whose category is no outcome of an item.           *)
PublishUnsupported(p) ==
    /\ me[p].pc = "publish" /\ changes < MaxChanges /\ cas[me[p].bytes] = None
    /\ changes' = changes + 1
    /\ Failing(p, "capability_unavailable")
    /\ UNCHANGED <<file, cas, residue, catalog, owner, harmed>>

(* link_asset, add_asset_location, the fingerprints, the item and its      *)
(* attempt in one transaction.                                             *)
CommitItem(p) ==
    /\ me[p].pc = "commit"
    /\ assets' = IF me[p].bytes \in ToSet(assets) THEN assets ELSE Append(assets, me[p].bytes)
    /\ linked' = linked \cup {<<RowOf(p).occurrence, me[p].bytes>>}
    /\ location' = location \cup {me[p].bytes}
    /\ ItemDone(p, me[p].outcome)
    /\ UNCHANGED <<file, cas, residue, owner, changes, harmed>>

(* SQLite refuses the transaction: the file stays in the managed root      *)
(* without a row.                                                          *)
CommitFails(p) ==
    /\ me[p].pc = "commit" /\ changes < MaxChanges
    /\ changes' = changes + 1
    /\ Failing(p, "unreadable")
    /\ UNCHANGED <<file, cas, residue, catalog, owner, harmed>>

(* Mutant: the vocabulary of outcomes is not enforced. *)
PersistFailureAny(p) ==
    /\ me[p].pc = "fail"
    /\ ItemDone(p, me[p].outcome)
    /\ UNCHANGED <<file, cas, residue, assets, linked, location, owner, changes, harmed>>

(* Item isolation: the error of one item is a row of it. *)
PersistFailure(p) ==
    /\ me[p].pc = "fail" /\ me[p].outcome \in Outcomes
    /\ ItemDone(p, me[p].outcome)
    /\ UNCHANGED <<file, cas, residue, assets, linked, location, owner, changes, harmed>>

-----------------------------------------------------------------------------
(* The end of a run *)

End(p, status, failed) ==
    /\ runs' = [runs EXCEPT ![me[p].run] =
          [@ EXCEPT !.status = status, !.completed = me[p].completed, !.failed = failed]]
    /\ owner' = None
    /\ Set(p, Idle)

FinalStatus(p) == IF me[p].failed = 0 THEN "complete" ELSE "partial"

FinishRun(p) ==
    /\ me[p].pc = "item" /\ me[p].next > Len(me[p].plan)
    /\ End(p, FinalStatus(p), me[p].failed)
    /\ UNCHANGED <<file, cas, residue, assets, linked, location, changes, harmed>>

(* The row of an item refuses an outcome that is not in its vocabulary;    *)
(* the error of the handler ends the run with the items that were left.    *)
FailRun(p) ==
    /\ me[p].pc = "fail" /\ me[p].outcome \notin Outcomes
    /\ End(p, "failed", IF me[p].failed = 0 THEN 1 ELSE me[p].failed)
    /\ UNCHANGED <<file, cas, residue, assets, linked, location, changes, harmed>>

(* The operating system releases the lock; the run stays 'running'. *)
Kill(p) ==
    /\ owner = p /\ changes < MaxChanges
    /\ changes' = changes + 1 /\ owner' = None
    /\ Set(p, Idle)
    /\ UNCHANGED <<file, cas, residue, catalog, harmed>>

-----------------------------------------------------------------------------
(* The environment *)

Reading(p, path) == me[p].pc \in {"hash", "stage"} /\ RowOf(p).path = path

(* A source is written in place: who has it open sees its times change. *)
EditSource ==
    /\ changes < MaxChanges /\ changes' = changes + 1
    /\ \E path \in Path : \E b \in Content :
          /\ file[path] \in Content \ {b}
          /\ file' = [file EXCEPT ![path] = b]
          /\ me' = [p \in Adopter |->
                IF Reading(p, path) THEN [me[p] EXCEPT !.touched = TRUE] ELSE me[p]]
    /\ UNCHANGED <<cas, residue, catalog, owner, harmed>>

(* A source is removed or replaced by a link: an open descriptor keeps the *)
(* old file.                                                               *)
ReplaceSource ==
    /\ changes < MaxChanges /\ changes' = changes + 1
    /\ \E path \in Path : \E new \in {None, Link} :
          /\ file[path] # new
          /\ file' = [file EXCEPT ![path] = new]
    /\ UNCHANGED <<cas, residue, catalog, owner, me, harmed>>

(* A file of the managed root rots or is deleted behind the catalog. *)
Harm ==
    /\ changes < MaxChanges /\ changes' = changes + 1
    /\ \E b \in Content : \E new \in {None, "damaged"} :
          /\ cas[b] = "whole"
          /\ cas' = [cas EXCEPT ![b] = new]
          /\ harmed' = IF b \in location \/ \E p \in Adopter :
                             me[p].pc = "commit" /\ me[p].bytes = b
                       THEN harmed \cup {b} ELSE harmed
    /\ UNCHANGED <<file, residue, catalog, owner, me>>

Step(p) ==
    \/ BeginRun(p) \/ PersistIneligible(p) \/ OpenSource(p) \/ ReuseLocation(p)
    \/ StageSource(p) \/ InspectStaged(p) \/ PublishStaged(p) \/ CommitItem(p)
    \/ PersistFailure(p) \/ FinishRun(p) \/ FailRun(p) \/ LockRefused(p)

AdoptionNext ==
    \/ \E p \in Adopter : Step(p) \/ Plan(p) \/ PublishUnsupported(p) \/ CommitFails(p) \/ Kill(p)
    \/ EditSource \/ ReplaceSource \/ Harm

-----------------------------------------------------------------------------
(* Properties *)

(* A location is never recorded for bytes nobody verified: unless it was   *)
(* harmed after an adopter had published or verified it, the file of every *)
(* location is there and whole, whatever was in the managed root before.   *)
LocationVerified == \A b \in location : cas[b] = "whole" \/ b \in harmed

(* An occurrence whose digest is declared is never linked to other bytes,  *)
(* and every asset it has is in the managed root: bytes that fail a check  *)
(* after a transaction has committed would leave a link behind.            *)
AssetsAgree ==
    \A link \in linked :
        /\ Declared[link[1]] \in {None, link[2]}
        /\ link[2] \in location \cap ToSet(assets)

(* The counts of a run are those of its items; a run that is complete or   *)
(* partial has an outcome for every item of its plan, a complete one only  *)
(* successes; only a killed or failed run leaves items unprocessed.        *)
RunAccounts ==
    \A r \in DOMAIN runs :
        LET items == runs[r].items
            good == Cardinality({i \in DOMAIN items : items[i] \in Successes})
        IN  /\ runs[r].status # "running" => runs[r].completed = good
            /\ runs[r].status \in {"complete", "partial"} =>
                  /\ Len(items) = runs[r].planned
                  /\ runs[r].failed = Len(items) - good
                  /\ (runs[r].status = "complete") <=> (good = runs[r].planned)
            /\ runs[r].status = "failed" => runs[r].failed > 0

(* What adoption enters into the catalog is true of the managed root, and  *)
(* what its runs report is true of what they entered.                      *)
AdoptedIsTrue == LocationVerified /\ AssetsAgree /\ RunAccounts

(* A second asset of an occurrence is linked only on the word of a plan    *)
(* that is older than the first: who plans after it compares the bytes.    *)
SecondAssetByStalePlan ==
    [][\A p \in Adopter : \A o \in Occurrence, b \in Content :
          (owner = p /\ <<o, b>> \in linked' \ linked /\ Linked(o) # {})
              => o \notin me[p].since]_vars

=============================================================================
