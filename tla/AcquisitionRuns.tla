--------------------------- MODULE AcquisitionRuns ---------------------------
(***************************************************************************)
(* acquisition/service.py and planning.py: plans, runs and run items, as   *)
(* the invocations of download and download-retry create, execute, recover *)
(* and select them.                                                        *)
(*                                                                         *)
(* An item is a selected (occurrence, variant).  Its version stands for    *)
(* the material_digest of its target and for the bytes that target serves. *)
(* A transfer (RemoteTransfer) is one step here, and so is each step of    *)
(* storage (ManagedCas).  Excluded items are left out: what excludes an    *)
(* item is part of its material, so execute() never tells them apart from  *)
(* items whose request is refused.                                         *)
(***************************************************************************)
EXTENDS Naturals, Sequences, FiniteSets, FiniteSetsExt

CONSTANTS
    Process,        \* invocations of the command line
    Item,           \* selected occurrence variants, numbered in the order of a preview
    Version,        \* materials
    Material,       \* the materials an item can have
    Declared,       \* the items that declare the digest of an original
    Mismatching,    \* the materials whose bytes contradict the claims of their item
    MaxRuns,        \* a bound of the model
    None

ASSUME ItemAssumption ==
    /\ Item \subseteq Nat /\ IsFiniteSet(Item)
    /\ Material \in [Item -> SUBSET Version]
    /\ Declared \subseteq Item
    /\ Mismatching \subseteq Item \X Version
    /\ MaxRuns \in Nat
    /\ None \notin Process \cup Item \cup Version \cup Nat

VARIABLES
    target,     \* the material of every item, as the catalog has it now
    plans,      \* media_acquisition_plans and their items
    runs,       \* media_acquisition_runs, with their items
    stored,     \* CAS entries, as <<item, version>>
    linked,     \* occurrence_assets
    lock,       \* holder of the root lock
    overtaken   \* history: runs that were closed while a process was executing them

VARIABLES
    pc,         \* where an invocation stands
    source,     \* the run it retries
    preview,    \* the plan it computed
    run,        \* the run it executes
    current,    \* the item its loop is at
    counts      \* completed, failed and deferred items so far

catalog == <<plans, runs, linked>>
local == <<source, preview, run, current, counts>>
vars == <<target, catalog, stored, lock, overtaken, pc, local>>

Settled == {"complete", "satisfied"}
Deferred == {"interrupted", "deferred"}
Failed == {"failed", "stale", "quarantined"}
Open == {"pending", "running"}

Row ==
    [state : Settled \cup Deferred \cup Failed \cup Open, retryable : BOOLEAN,
     sha256 : Version \cup {None}, asset : Version \cup {None}]

ASSUME NoneAssumption == None \notin Row

(* A plan: the material of its items, which is what its digest is made of, *)
(* and per item the asset that satisfies it, or None if it is eligible.    *)
Plan ==
    UNION {[material : [S -> Version], satisfied : [S -> Version \cup {None}]] :
              S \in (SUBSET Item) \ {{}}}

Counts == [completed : Nat, failed : Nat, deferred : Nat]

Run ==
    [plan : Plan, status : {"running", "finished"}, counts : Counts \cup {None},
     items : [Item -> Row \cup {None}]]

TypeOK ==
    /\ target \in [Item -> Version]
    /\ \A plan \in plans : plan \in Plan
    /\ \A r \in DOMAIN runs : runs[r] \in Run
    /\ stored \cup linked \subseteq Item \X Version
    /\ lock \in Process \cup {None}
    /\ overtaken \subseteq DOMAIN runs
    /\ pc \in [Process -> {"idle", "select", "enter", "next", "pending", "running",
                           "transfer", "staged", "evidence", "published", "linked"}]
    /\ source \in [Process -> (DOMAIN runs) \cup {None}]
    /\ run \in [Process -> (DOMAIN runs) \cup {None}]
    /\ preview \in [Process -> Plan \cup {None}]
    /\ current \in [Process -> Item \cup {None}]
    /\ counts \in [Process -> Counts]

NoCounts == [completed |-> 0, failed |-> 0, deferred |-> 0]

Init ==
    /\ target \in {t \in [Item -> Version] : \A i \in Item : t[i] \in Material[i]}
    /\ plans = {} /\ runs = <<>> /\ linked = {} /\ stored = {}
    /\ lock = None /\ overtaken = {}
    /\ pc = [p \in Process |-> "idle"]
    /\ source = [p \in Process |-> None]
    /\ preview = [p \in Process |-> None]
    /\ run = [p \in Process |-> None]
    /\ current = [p \in Process |-> None]
    /\ counts = [p \in Process |-> NoCounts]

Goto(p, label) == pc' = [pc EXCEPT ![p] = label]

(* The invocation ends, by return, exception or kill: the operating system *)
(* gives the root lock back.                                               *)
Leave(p) ==
    /\ Goto(p, "idle")
    /\ lock' = IF lock = p THEN None ELSE lock
    /\ source' = [source EXCEPT ![p] = None]
    /\ preview' = [preview EXCEPT ![p] = None]
    /\ run' = [run EXCEPT ![p] = None]
    /\ current' = [current EXCEPT ![p] = None]
    /\ counts' = [counts EXCEPT ![p] = NoCounts]

-----------------------------------------------------------------------------
(* Planning *)

(* The runs in which an item got an asset. *)
SettledRuns(i) ==
    {r \in DOMAIN runs : runs[r].items[i] # None /\ runs[r].items[i].state \in Settled}

(* _satisfied_asset: the asset of the last run that settled the item, in   *)
(* whatever plan, else an asset linked to the occurrence that has the      *)
(* digest an original declares.                                            *)
SatisfiedAsset(i) ==
    IF SettledRuns(i) # {} THEN runs[Max(SettledRuns(i))].items[i].asset
    ELSE IF i \in Declared /\ <<i, target[i]>> \in linked THEN target[i]
    ELSE None

PlanFor(S) ==
    [material |-> [i \in S |-> target[i]], satisfied |-> [i \in S |-> SatisfiedAsset(i)]]

(* download: plan_acquisition reads a snapshot, before execute(). *)
PlanDownload(p, S) ==
    /\ pc[p] = "idle"
    /\ Len(runs) < MaxRuns
    /\ S # {}
    /\ preview' = [preview EXCEPT ![p] = PlanFor(S)]
    /\ Goto(p, "enter")
    /\ UNCHANGED <<target, catalog, stored, lock, source, run, current, counts>>

Live(r) == \E p \in Process : run[p] = r

Interrupted(row) ==
    IF row # None /\ row.state \in Open
    THEN [row EXCEPT !.state = "interrupted", !.retryable = TRUE]
    ELSE row

CountIn(items, states) ==
    Cardinality({i \in Item : items[i] # None /\ items[i].state \in states})

CountsOf(items) ==
    [completed |-> CountIn(items, Settled), failed |-> CountIn(items, Failed),
     deferred |-> CountIn(items, Deferred)]

(* download-retry, first transaction: recover_interrupted closes a run     *)
(* that still is 'running', whoever may be executing it.                   *)
RecoverInterrupted(p, r) ==
    /\ pc[p] = "idle"
    /\ LET items == [i \in Item |-> Interrupted(runs[r].items[i])]
       IN  runs' = IF runs[r].status = "running"
                   THEN [runs EXCEPT ![r].items = items, ![r].status = "finished",
                                     ![r].counts = CountsOf(items)]
                   ELSE runs
    /\ overtaken' = IF runs[r].status = "running" /\ Live(r) THEN overtaken \cup {r} ELSE overtaken
    /\ source' = [source EXCEPT ![p] = r]
    /\ Goto(p, "select")
    /\ UNCHANGED <<target, plans, linked, stored, lock, preview, run, current, counts>>

RetryRows(r, nonretryable) ==
    {i \in Item :
        /\ runs[r].items[i] # None
        /\ IF nonretryable
           THEN runs[r].items[i].state \notin Settled
           ELSE /\ runs[r].items[i].retryable
                /\ runs[r].items[i].state \in Deferred \cup {"failed"}}

(* Mutant: a selection without rows is planned too. *)
SelectRetryOfNothing(p, nonretryable) ==
    /\ pc[p] = "select"
    /\ LET S == RetryRows(source[p], nonretryable)
       IN  preview' = [preview EXCEPT ![p] = PlanFor(S)]
    /\ Goto(p, "enter")
    /\ UNCHANGED <<target, catalog, stored, lock, source, run, current, counts>>

(* retry() selects the rows, and plans what they select once more. *)
SelectRetry(p, nonretryable) ==
    /\ pc[p] = "select"
    /\ LET S == RetryRows(source[p], nonretryable)
       IN  \/ /\ S # {}
              /\ preview' = [preview EXCEPT ![p] = PlanFor(S)]
              /\ Goto(p, "enter")
              /\ UNCHANGED <<lock, source, run, current, counts>>
           \/ S = {} /\ Leave(p)
    /\ UNCHANGED <<target, catalog, stored>>

-----------------------------------------------------------------------------
(* execute() *)

(* _materialize_plan: a stored plan of the same digest has other counts,   *)
(* or an item of it another eligibility.                                   *)
PlanConflict(plan) ==
    \E old \in plans : old.material = plan.material /\ old # plan

(* The root lock is taken; the plan and the run are written in one         *)
(* transaction.                                                            *)
BeginRun(p) ==
    /\ pc[p] = "enter"
    /\ lock = None
    /\ ~ PlanConflict(preview[p])
    /\ Len(runs) < MaxRuns
    /\ lock' = p
    /\ plans' = plans \cup {preview[p]}
    /\ runs' = Append(runs, [plan |-> preview[p], status |-> "running", counts |-> None,
                             items |-> [i \in Item |-> None]])
    /\ run' = [run EXCEPT ![p] = Len(runs) + 1]
    /\ Goto(p, "next")
    /\ UNCHANGED <<target, linked, stored, source, preview, current, counts>>

(* LockError, or the ValueError of _materialize_plan. *)
BeginRefused(p) ==
    /\ pc[p] = "enter"
    /\ lock # None \/ PlanConflict(preview[p])
    /\ Leave(p)
    /\ UNCHANGED <<target, catalog, stored>>

Planned(p) == DOMAIN preview[p].material

Remaining(p) ==
    {i \in Planned(p) : current[p] # None => i > current[p]}

ItemRow(p) == runs[run[p]].items[current[p]]

SetRow(p, row) == runs' = [runs EXCEPT ![run[p]].items[current[p]] = row]

PendingRow == [state |-> "pending", retryable |-> FALSE, sha256 |-> None, asset |-> None]

(* The row of the next item, in a transaction of its own. *)
BeginItem(p) ==
    /\ pc[p] = "next"
    /\ Remaining(p) # {}
    /\ LET i == Min(Remaining(p))
       IN  /\ current' = [current EXCEPT ![p] = i]
           /\ runs' = [runs EXCEPT ![run[p]].items[i] = PendingRow]
    /\ Goto(p, "pending")
    /\ UNCHANGED <<target, plans, linked, stored, lock, source, preview, run, counts>>

(* A row of the item in another run of the same plan. *)
SiblingRows(p) ==
    {runs[r].items[current[p]] :
        r \in {r \in (DOMAIN runs) \ {run[p]} :
                 runs[r].plan = preview[p] /\ runs[r].items[current[p]] # None}}

(* The item is settled in this plan, or the preview found it satisfied. *)
PriorAsset(p) ==
    LET prior == {row \in SiblingRows(p) : row.state \in Settled}
    IN  IF prior # {} THEN (CHOOSE row \in prior : TRUE).asset
        ELSE preview[p].satisfied[current[p]]

(* record_acquisition_run_item with a terminal state. *)
SettleRow(p, row) ==
    /\ ItemRow(p).state \in Open
    /\ SetRow(p, row)
    /\ counts' =
          [counts EXCEPT
             ![p].completed = IF row.state \in Settled THEN @ + 1 ELSE @,
             ![p].failed = IF row.state \in Failed THEN @ + 1 ELSE @,
             ![p].deferred = IF row.state \in Deferred THEN @ + 1 ELSE @]
    /\ Goto(p, "next")
    /\ UNCHANGED <<target, plans, linked, lock, source, preview, run, current>>

Settle(p, row) == SettleRow(p, row) /\ UNCHANGED stored

ItemSatisfied(p) ==
    /\ pc[p] = "pending"
    /\ PriorAsset(p) # None
    /\ Settle(p, [PendingRow EXCEPT !.state = "satisfied", !.asset = PriorAsset(p)])

(* The run budget or its deadline is used up. *)
ItemDeferred(p) ==
    /\ pc[p] = "pending"
    /\ PriorAsset(p) = None
    /\ Settle(p, [PendingRow EXCEPT !.state = "deferred", !.retryable = TRUE])

Wanted(p) == preview[p].material[current[p]]

(* check_planned_item_current: the catalog has another material by now. *)
ItemStale(p) ==
    /\ pc[p] = "pending"
    /\ PriorAsset(p) = None
    /\ target[current[p]] # Wanted(p)
    /\ Settle(p, [PendingRow EXCEPT !.state = "stale"])

(* The policy refuses the request. *)
ItemRefused(p) ==
    /\ pc[p] = "pending"
    /\ PriorAsset(p) = None
    /\ target[current[p]] = Wanted(p)
    /\ Settle(p, [PendingRow EXCEPT !.state = "failed"])

ItemRunning(p) ==
    /\ pc[p] = "pending"
    /\ PriorAsset(p) = None
    /\ target[current[p]] = Wanted(p)
    /\ ItemRow(p).state \in Open
    /\ SetRow(p, [PendingRow EXCEPT !.state = "running"])
    /\ Goto(p, "running")
    /\ UNCHANGED <<target, plans, linked, stored, lock, local>>

-----------------------------------------------------------------------------
(* One item that has to be acquired *)

Bytes(p) == <<current[p], Wanted(p)>>

(* Mutant: any row of the same run counts, none of an earlier one. *)
OrphanOfThisRun(p) == ItemRow(p).asset = None /\ ItemRow(p).sha256 # None

(* Evidence an earlier run of the plan recorded, without an asset. *)
Orphan(p) == \E row \in SiblingRows(p) : row.asset = None /\ row.sha256 # None

(* stage_existing_cas opens the entry that the evidence names. *)
Reconcilable(p) == Orphan(p) /\ Bytes(p) \in stored

Reconcile(p) ==
    /\ pc[p] = "running"
    /\ Reconcilable(p)
    /\ Goto(p, "staged")
    /\ UNCHANGED <<target, catalog, stored, lock, local>>

(* The entry is there, and cannot be read or verified. *)
ReconcileFails(p) ==
    /\ pc[p] = "running"
    /\ Reconcilable(p)
    /\ Settle(p, [ItemRow(p) EXCEPT !.state = "failed", !.sha256 = Wanted(p)])

MustDownload(p) ==
    /\ pc[p] = "running"
    /\ ~ Reconcilable(p)
    /\ Goto(p, "transfer")
    /\ UNCHANGED <<target, catalog, stored, lock, local>>

Downloaded(p) ==
    /\ pc[p] = "transfer"
    /\ Goto(p, "staged")
    /\ UNCHANGED <<target, catalog, stored, lock, local>>

(* transfer() returns an interrupted or failed result. *)
TransferFails(p, state, retryable) ==
    /\ pc[p] = "transfer"
    /\ state = "interrupted" => retryable
    /\ Settle(p, [ItemRow(p) EXCEPT !.state = state, !.retryable = retryable])

(* Mutant: bytes are published before their digests are in the catalog. *)
RecordEvidenceLater(p) ==
    /\ pc[p] = "staged"
    /\ Bytes(p) \notin Mismatching
    /\ stored' = stored \cup {Bytes(p)}
    /\ Goto(p, "published")
    /\ UNCHANGED <<target, catalog, lock, local>>

(* verify_publish_and_persist, first transaction: the digests. *)
RecordEvidence(p) ==
    /\ pc[p] = "staged"
    /\ ItemRow(p).state \in Open
    /\ SetRow(p, [ItemRow(p) EXCEPT !.state = "running", !.sha256 = Wanted(p)])
    /\ Goto(p, "evidence")
    /\ UNCHANGED <<target, plans, linked, stored, lock, local>>

(* The exact digests contradict the claims: the bytes are quarantined. *)
Quarantine(p) ==
    /\ pc[p] = "evidence"
    /\ Bytes(p) \in Mismatching
    /\ Settle(p, [ItemRow(p) EXCEPT !.state = "quarantined"])

Publish(p) ==
    /\ pc[p] = "evidence"
    /\ Bytes(p) \notin Mismatching
    /\ stored' = stored \cup {Bytes(p)}
    /\ Goto(p, "published")
    /\ UNCHANGED <<target, catalog, lock, local>>

(* Inspection or publication of downloaded bytes fails, the latter also    *)
(* after it has linked them: the row keeps its digests.  If the bytes were *)
(* reconciled, execute() does not catch the error, and ends as in Crash.   *)
PublicationFails(p) ==
    /\ pc[p] \in {"staged", "evidence"}
    /\ ~ Reconcilable(p)
    /\ SettleRow(p, [ItemRow(p) EXCEPT !.state = "failed"])
    /\ \/ UNCHANGED stored
       \/ /\ pc[p] = "evidence" /\ Bytes(p) \notin Mismatching
          /\ stored' = stored \cup {Bytes(p)}

(* _persist_asset: asset, location and occurrence link. *)
PersistAsset(p) ==
    /\ pc[p] = "published"
    /\ linked' = linked \cup {Bytes(p)}
    /\ Goto(p, "linked")
    /\ UNCHANGED <<target, plans, runs, stored, lock, local>>

CompleteItem(p) ==
    /\ pc[p] = "linked"
    /\ Settle(p, [ItemRow(p) EXCEPT !.state = "complete", !.asset = Wanted(p)])

(* The row was closed by recover_interrupted: "terminal acquisition run    *)
(* item is immutable", or cannot accept evidence.                          *)
WriteRefused(p) ==
    /\ pc[p] \in {"pending", "running", "transfer", "staged", "linked"}
    /\ ItemRow(p).state \notin Open
    /\ Leave(p)
    /\ UNCHANGED <<target, catalog, stored>>

(* Mutant: finish_acquisition_run overwrites a run that is finished. *)
FinishRunAgain(p) ==
    /\ pc[p] = "next"
    /\ Remaining(p) = {}
    /\ runs' = [runs EXCEPT ![run[p]].status = "finished", ![run[p]].counts = counts[p]]
    /\ Leave(p)
    /\ UNCHANGED <<target, plans, linked, stored>>

(* finish_acquisition_run; "already finished differently" if it is not     *)
(* running any more.                                                       *)
FinishRun(p) ==
    /\ pc[p] = "next"
    /\ Remaining(p) = {}
    /\ runs' = IF runs[run[p]].status = "running"
               THEN [runs EXCEPT ![run[p]].status = "finished", ![run[p]].counts = counts[p]]
               ELSE runs
    /\ Leave(p)
    /\ UNCHANGED <<target, plans, linked, stored>>

(* The process is killed, or an exception ends it. *)
Crash(p) ==
    /\ pc[p] # "idle"
    /\ Leave(p)
    /\ UNCHANGED <<target, catalog, stored>>

(* Metadata synchronization gives an item another material. *)
TargetChanges(i, v) ==
    /\ v \in Material[i] \ {target[i]}
    /\ target' = [target EXCEPT ![i] = v]
    /\ UNCHANGED <<catalog, stored, lock, overtaken, pc, local>>

-----------------------------------------------------------------------------
(* Everything but a recovery, which alone writes overtaken. *)
OwnStep(p) ==
    \/ \E S \in SUBSET Item : PlanDownload(p, S)
    \/ \E nonretryable \in BOOLEAN : SelectRetry(p, nonretryable)
    \/ BeginRun(p) \/ BeginRefused(p)
    \/ BeginItem(p)
    \/ ItemSatisfied(p) \/ ItemDeferred(p) \/ ItemStale(p) \/ ItemRefused(p) \/ ItemRunning(p)
    \/ Reconcile(p) \/ ReconcileFails(p) \/ MustDownload(p) \/ Downloaded(p)
    \/ \E state \in {"failed", "interrupted"}, retryable \in BOOLEAN :
          TransferFails(p, state, retryable)
    \/ RecordEvidence(p) \/ Quarantine(p) \/ Publish(p) \/ PublicationFails(p)
    \/ PersistAsset(p) \/ CompleteItem(p)
    \/ WriteRefused(p) \/ FinishRun(p) \/ Crash(p)

Step(p) ==
    \/ \E r \in DOMAIN runs : RecoverInterrupted(p, r)
    \/ OwnStep(p) /\ UNCHANGED overtaken

Next ==
    \/ \E p \in Process : Step(p)
    \/ \E i \in Item, v \in Version : TargetChanges(i, v)

Spec == Init /\ [][Next]_vars

-----------------------------------------------------------------------------
(* Properties *)

RowAt(r, i) == runs[r].items[i]

(* An item that a run reports as complete or satisfied has its asset: the  *)
(* bytes are in the CAS and linked to its occurrence.  execute() writes    *)
(* the three one after the other and may be killed, or have its run        *)
(* closed, between any two.                                                *)
SettledHasAsset ==
    \A r \in DOMAIN runs, i \in Item :
        RowAt(r, i) # None /\ RowAt(r, i).state \in Settled =>
            <<i, RowAt(r, i).asset>> \in stored \cap linked

(* Bytes that acquisition put into the CAS are known to the catalog by the *)
(* digests of some run item, so that a retry can find them.                *)
StoredHasEvidence ==
    \A i \in Item, v \in Version : <<i, v>> \in stored =>
        \E r \in DOMAIN runs : RowAt(r, i) # None /\ RowAt(r, i).sha256 = v

(* Run items, catalog and CAS agree at every moment: what is reported is   *)
(* stored and linked, what is stored can be found again.                   *)
StoreAgrees == SettledHasAsset /\ StoredHasEvidence

(* Bytes that are in the CAS, with their evidence in an earlier run of the *)
(* same plan, are not requested again: the prior and orphan lookups of     *)
(* execute().                                                              *)
SamePlanNeverRedownloads ==
    \A p \in Process :
        pc[p] = "transfer" =>
            ~ \E row \in SiblingRows(p) : row.sha256 # None /\ Bytes(p) \in stored

(* The counts of a finished run are those of its items, whether execute()  *)
(* counted them as it went or recover_interrupted afterwards; not of a run *)
(* that was closed under its executor, which may add one more row to it.   *)
FinishedCounts ==
    \A r \in (DOMAIN runs) \ overtaken :
        runs[r].status = "finished" => runs[r].counts = CountsOf(runs[r].items)

(* What a run has reported stays: a terminal item never changes and a      *)
(* finished run keeps its counts, although a retry may close a run under   *)
(* its executor.                                                           *)
ReportsAreFinal ==
    \A r \in DOMAIN runs :
       /\ runs[r].status = "finished" =>
             runs'[r].status = "finished" /\ runs'[r].counts = runs[r].counts
       /\ \A i \in Item :
             RowAt(r, i) # None /\ RowAt(r, i).state \notin Open =>
                 runs'[r].items[i] = RowAt(r, i)

(* The report of a run is true when it is given and stays as it was given. *)
ReportStands == [][FinishedCounts' /\ ReportsAreFinal]_vars

=============================================================================
