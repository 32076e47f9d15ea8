------------------------- MODULE AcquisitionRunsProofs -------------------------
(***************************************************************************)
(* Proofs about AcquisitionRuns for any number of invocations, items,      *)
(* materials and runs, kills and recoveries at any point included.         *)
(*                                                                         *)
(* What is reported is stored because the executor of a run is alone: it   *)
(* holds the root lock, so that nobody else publishes, links or starts a   *)
(* run, and what it has read of earlier runs stays true.  The one thing    *)
(* another invocation may do beside it is recover_interrupted, which       *)
(* closes open rows and settles none.                                      *)
(***************************************************************************)
EXTENDS AcquisitionRuns, FiniteSetTheorems, TLAPS

(* The points inside execute(), and those of them with an item. *)
Executing(p) == pc[p] \notin {"idle", "select", "enter"}
AtItem(p) == pc[p] \notin {"idle", "select", "enter", "next"}

(* The executor of a run holds the root lock, and executes the plan it     *)
(* previewed.                                                              *)
ExecutorInv(p) ==
    /\ ~ Executing(p) => run[p] = None /\ counts[p] = NoCounts
    /\ Executing(p) => /\ lock = p
                       /\ run[p] \in DOMAIN runs
                       /\ runs[run[p]].plan = preview[p]
    /\ pc[p] = "select" => source[p] \in DOMAIN runs
    /\ Executing(p) \/ pc[p] = "enter" => preview[p] \in Plan

(* It has written rows of the items up to the one it is at. *)
RowsInv(p) ==
    /\ Executing(p) =>
          \A i \in Item : RowAt(run[p], i) # None => current[p] # None /\ i <= current[p]
    /\ AtItem(p) => current[p] \in Planned(p) /\ ItemRow(p) # None

(* The row has the digests of the bytes that the process publishes, which  *)
(* are stored before they are linked.                                      *)
BytesInv(p) ==
    /\ pc[p] \in {"pending", "running", "transfer", "staged"} => ItemRow(p).sha256 = None
    /\ pc[p] \in {"evidence", "published", "linked"} => ItemRow(p).sha256 = Wanted(p)
    /\ pc[p] \in {"published", "linked"} => Bytes(p) \in stored
    /\ pc[p] = "linked" => Bytes(p) \in linked

(* The assets that a preview found are stored and linked. *)
PreviewInv(p) ==
    Executing(p) \/ pc[p] = "enter" =>
        \A i \in DOMAIN preview[p].satisfied :
            preview[p].satisfied[i] # None =>
                <<i, preview[p].satisfied[i]>> \in stored \cap linked

(* No other run of the plan has settled the item that is being acquired,   *)
(* nor does one have its digests if it is stored and yet transferred.      *)
PriorInv(p) ==
    /\ pc[p] \in {"running", "transfer"} => \A row \in SiblingRows(p) : row.state \notin Settled
    /\ pc[p] = "transfer" => ~ \E row \in SiblingRows(p) : row.sha256 # None /\ Bytes(p) \in stored

(* The executor counts what its run has settled, unless it was overtaken.  *)
CountInv(p) ==
    Executing(p) /\ run[p] \notin overtaken =>
        runs[run[p]].status = "running" /\ counts[p] = CountsOf(runs[run[p]].items)

(* What the inductive invariant says of one process. *)
ProcessInv(p) ==
    /\ ExecutorInv(p) /\ RowsInv(p) /\ BytesInv(p)
    /\ PreviewInv(p) /\ PriorInv(p) /\ CountInv(p)

(* Only settled rows have an asset. *)
AssetInv ==
    \A r \in DOMAIN runs, i \in Item :
        RowAt(r, i) # None /\ RowAt(r, i).asset # None => RowAt(r, i).state \in Settled

(* What it says of the rows, the store and the links. *)
StoreInv == linked \subseteq stored /\ AssetInv /\ SettledHasAsset /\ StoredHasEvidence

(* The inductive invariant. *)
IInv ==
    /\ TypeOK
    /\ runs \in Seq(Run)
    /\ \A p \in Process : ProcessInv(p)
    /\ StoreInv
    /\ FinishedCounts

-----------------------------------------------------------------------------
(* The largest and the smallest of finitely many numbers, and counting *)

(* A finite set of numbers that is not empty has a largest element and a   *)
(* smallest one, which Max and Min choose: the last run that settled an    *)
(* item, and the next item of a plan.                                      *)
LEMMA ExtremesOfFinite ==
  ASSUME NEW S \in SUBSET Nat, IsFiniteSet(S), S # {}
  PROVE  /\ Max(S) \in S /\ \A y \in S : Max(S) >= y
         /\ Min(S) \in S /\ \A y \in S : Min(S) <= y
<1> DEFINE Above(x) == {y \in S : y >= x}
           Below(x) == {y \in S : y <= x}
<1> \A y \in S : y \in Nat
  OBVIOUS
<1>1. IsWellFoundedOn(StrictSubsetOrdering(S), SUBSET S)
  BY FS_StrictSubsetOrderingWellFounded, FS_FiniteSubsetsOfFinite
<1>2. PICK x \in S : \A y \in S : ~ (<<Above(y), Above(x)>> \in StrictSubsetOrdering(S))
  <2> DEFINE T == {Above(x) : x \in S}
  <2>1. T \subseteq SUBSET S /\ T # {}
    OBVIOUS
  <2>2. \E X \in T : \A Y \in T : ~ (<<Y, X>> \in StrictSubsetOrdering(S))
    BY <1>1, <2>1, WFMin
  <2> QED
    BY <2>2
<1>3. \A y \in S : x >= y
  <2> SUFFICES ASSUME NEW y \in S, ~ (x >= y) PROVE FALSE
    OBVIOUS
  <2>1. Above(y) \subseteq Above(x)
    <3> SUFFICES ASSUME NEW w \in S, w >= y PROVE w >= x
      OBVIOUS
    <3> QED
      OBVIOUS
  <2>2. x \in Above(x) /\ x \notin Above(y)
    OBVIOUS
  <2>3. Above(y) \in SUBSET S /\ Above(x) \in SUBSET S
    OBVIOUS
  <2> QED
    BY <1>2, <2>1, <2>2, <2>3 DEF StrictSubsetOrdering
<1>4. PICK z \in S : \A y \in S : ~ (<<Below(y), Below(z)>> \in StrictSubsetOrdering(S))
  <2> DEFINE T == {Below(z) : z \in S}
  <2>1. T \subseteq SUBSET S /\ T # {}
    OBVIOUS
  <2>2. \E X \in T : \A Y \in T : ~ (<<Y, X>> \in StrictSubsetOrdering(S))
    BY <1>1, <2>1, WFMin
  <2> QED
    BY <2>2
<1>5. \A y \in S : z <= y
  <2> SUFFICES ASSUME NEW y \in S, ~ (z <= y) PROVE FALSE
    OBVIOUS
  <2>1. Below(y) \subseteq Below(z)
    <3> SUFFICES ASSUME NEW w \in S, w <= y PROVE w <= z
      OBVIOUS
    <3> QED
      OBVIOUS
  <2>2. z \in Below(z) /\ z \notin Below(y)
    OBVIOUS
  <2>3. Below(y) \in SUBSET S /\ Below(z) \in SUBSET S
    OBVIOUS
  <2> QED
    BY <1>4, <2>1, <2>2, <2>3 DEF StrictSubsetOrdering
<1>6. Max(S) \in S /\ \A y \in S : Max(S) >= y
  BY <1>3 DEF Max
<1>7. Min(S) \in S /\ \A y \in S : Min(S) <= y
  BY <1>5 DEF Min
<1> QED
  BY <1>6, <1>7

(* Rows that agree but at one item, of which one more may be counted.      *)
Agree(f, g, i) == \A j \in Item \ {i} : g[j] = f[j]

OneMore(f, g, i, states) ==
    /\ CountIn(f, states) \in Nat
    /\ CountIn(g, states) = CountIn(f, states)
                            + (IF g[i] # None /\ g[i].state \in states THEN 1 ELSE 0)

(* Writing one row of a run adds one to the count of its state, if the old *)
(* row was not counted there.                                              *)
LEMMA CountOneMore ==
  ASSUME NEW f, NEW g, NEW i \in Item, NEW states, Agree(f, g, i),
         ~ (f[i] # None /\ f[i].state \in states)
  PROVE  OneMore(f, g, i, states)
<1> USE DEF Agree, OneMore
<1> DEFINE In(h) == {j \in Item : h[j] # None /\ h[j].state \in states}
<1>1. In(f) \in SUBSET Item /\ i \notin In(f)
  OBVIOUS
<1>2. IsFiniteSet(In(f))
  BY <1>1, FS_Subset, ItemAssumption
<1>3. Cardinality(In(f)) \in Nat
  BY <1>2, FS_CardinalityType
<1>4. CASE g[i] # None /\ g[i].state \in states
  <2>1. In(g) = In(f) \cup {i}
    BY <1>4
  <2>2. Cardinality(In(g)) = Cardinality(In(f)) + 1
    BY <1>1, <1>2, <2>1, FS_AddElement
  <2> QED
    BY <1>3, <1>4, <2>2 DEF CountIn
<1>5. CASE ~ (g[i] # None /\ g[i].state \in states)
  <2>1. In(g) = In(f)
    BY <1>5
  <2>2. CountIn(f, states) \in Nat /\ CountIn(g, states) = CountIn(f, states)
    BY <1>3, <2>1 DEF CountIn
  <2> QED
    BY <1>5, <2>2
<1> QED
  BY <1>4, <1>5

(* The counts of the rows of a run are numbers. *)
LEMMA CountsType ==
  ASSUME NEW f
  PROVE  CountsOf(f) \in Counts
<1>1. \A states : CountIn(f, states) \in Nat
  <2> SUFFICES ASSUME NEW states PROVE CountIn(f, states) \in Nat
    OBVIOUS
  <2> DEFINE S == {j \in Item : f[j] # None /\ f[j].state \in states}
  <2>1. S \in SUBSET Item
    OBVIOUS
  <2>2. IsFiniteSet(S)
    BY <2>1, FS_Subset, ItemAssumption
  <2> QED
    BY <2>2, FS_CardinalityType DEF CountIn
<1> QED
  BY <1>1 DEF CountsOf, Counts

-----------------------------------------------------------------------------
(* Plans and rows *)

(* A plan has a material and an assessment for each of its items. *)
LEMMA PlanFacts ==
  ASSUME NEW plan \in Plan
  PROVE  /\ DOMAIN plan.material \subseteq Item
         /\ DOMAIN plan.satisfied = DOMAIN plan.material
         /\ \A i \in DOMAIN plan.material : plan.material[i] \in Version
BY DEF Plan

(* What is settled is satisfied by an asset that is stored and linked, and *)
(* so is each item that a preview finds satisfied.                         *)
LEMMA SatisfiedIsStored ==
  ASSUME IInv, NEW i \in Item
  PROVE  /\ SatisfiedAsset(i) \in Version \cup {None}
         /\ SatisfiedAsset(i) # None => <<i, SatisfiedAsset(i)>> \in stored \cap linked
<1>1. CASE SettledRuns(i) # {}
  <2> DEFINE S == SettledRuns(i)
  <2>1. S \in SUBSET Nat /\ S \subseteq 1..Len(runs) /\ Len(runs) \in Nat
    BY DEF SettledRuns, IInv
  <2>2. IsFiniteSet(S)
    <3>1. IsFiniteSet(1..Len(runs))
      BY <2>1, FS_Interval
    <3> QED
      BY <2>1, <3>1, FS_Subset
  <2>3. Max(S) \in S
    BY <1>1, <2>1, <2>2, ExtremesOfFinite
  <2>4. <<i, runs[Max(S)].items[i].asset>> \in stored \cap linked
    BY <2>3 DEF SettledRuns, IInv, StoreInv, SettledHasAsset, RowAt
  <2>5. SatisfiedAsset(i) = runs[Max(S)].items[i].asset
    BY <1>1 DEF SatisfiedAsset
  <2>6. stored \subseteq Item \X Version
    BY DEF IInv, TypeOK
  <2> QED
    BY <2>4, <2>5, <2>6
<1>2. CASE SettledRuns(i) = {}
  BY <1>2 DEF SatisfiedAsset, IInv, TypeOK, StoreInv
<1> QED
  BY <1>1, <1>2

(* A preview is a plan, and its assets are stored and linked. *)
LEMMA PreviewIsPlan ==
  ASSUME IInv, NEW S \in SUBSET Item, S # {}
  PROVE  /\ PlanFor(S) \in Plan
         /\ DOMAIN PlanFor(S).satisfied = S
         /\ \A i \in S : PlanFor(S).satisfied[i] # None =>
               <<i, PlanFor(S).satisfied[i]>> \in stored \cap linked
<1>1. \A i \in S : /\ target[i] \in Version
                   /\ SatisfiedAsset(i) \in Version \cup {None}
                   /\ SatisfiedAsset(i) # None => <<i, SatisfiedAsset(i)>> \in stored \cap linked
  BY SatisfiedIsStored DEF IInv, TypeOK
<1>2. /\ [i \in S |-> target[i]] \in [S -> Version]
      /\ [i \in S |-> SatisfiedAsset(i)] \in [S -> Version \cup {None}]
  BY <1>1
<1>3. PlanFor(S) \in [material : [S -> Version], satisfied : [S -> Version \cup {None}]]
  BY <1>2 DEF PlanFor
<1>4. PlanFor(S) \in Plan
  BY <1>3 DEF Plan
<1>5. PlanFor(S).satisfied = [i \in S |-> SatisfiedAsset(i)]
  BY DEF PlanFor
<1> QED
  BY <1>1, <1>4, <1>5

(* The executor is alone: it has the lock. *)
LEMMA Alone ==
  ASSUME IInv, NEW p \in Process, Executing(p)
  PROVE  /\ run[p] \in DOMAIN runs /\ run[p] # None
         /\ \A q \in Process \ {p} : ~ Executing(q) /\ run[q] = None
<1>1. run[p] \in DOMAIN runs /\ \A q \in Process \ {p} : ~ Executing(q) /\ run[q] = None
  BY DEF IInv, ProcessInv, ExecutorInv
<1>2. DOMAIN runs \subseteq Nat
  BY DEF IInv
<1> QED
  BY <1>1, <1>2, ItemAssumption

(* The row of a process and what it asks for. *)
LEMMA ItemFacts ==
  ASSUME IInv, NEW p \in Process, AtItem(p)
  PROVE  /\ Executing(p)
         /\ current[p] \in Item /\ Wanted(p) \in Version /\ Bytes(p) \in Item \X Version
         /\ current[p] \in DOMAIN preview[p].satisfied
         /\ ItemRow(p) \in Row /\ ItemRow(p) # None
         /\ ItemRow(p) = RowAt(run[p], current[p])
<1>1. Executing(p)
  BY DEF Executing, AtItem
<1>2. preview[p] \in Plan /\ current[p] \in Planned(p) /\ ItemRow(p) # None
  BY <1>1 DEF IInv, ProcessInv, ExecutorInv, RowsInv
<1>3. /\ current[p] \in Item /\ Wanted(p) \in Version
      /\ current[p] \in DOMAIN preview[p].satisfied
  BY <1>2, PlanFacts DEF Planned, Wanted
<1>4. runs[run[p]] \in Run
  BY <1>1, Alone DEF IInv, TypeOK
<1>5. ItemRow(p) \in Row
  BY <1>2, <1>3, <1>4 DEF ItemRow, Run
<1> QED
  BY <1>1, <1>2, <1>3, <1>5 DEF Bytes, ItemRow, RowAt

(* A process outside execute() keeps its part of the invariant while it    *)
(* rests: runs, stored bytes and links are only added.                     *)
LEMMA OthersKeep ==
  ASSUME IInv, NEW q \in Process, ~ Executing(q),
         pc'[q] = pc[q], source'[q] = source[q], preview'[q] = preview[q], run'[q] = run[q],
         counts'[q] = counts[q],
         DOMAIN runs \subseteq DOMAIN runs', stored \subseteq stored', linked \subseteq linked'
  PROVE  ProcessInv(q)'
<1>1. ProcessInv(q)
  BY DEF IInv
<1> QED
  BY <1>1 DEF ProcessInv, ExecutorInv, RowsInv, BytesInv, PreviewInv, PriorInv, CountInv,
              Executing, AtItem

-----------------------------------------------------------------------------
(* Steps that write no row *)

(* A step of the executor that only moves on, stores bytes or links them   *)
(* keeps the invariant, if its own part is kept and the store agrees.      *)
LEMMA MovesOn ==
  ASSUME IInv, NEW p \in Process, Executing(p), NEW label,
         label \in {"running", "transfer", "staged", "evidence", "published", "linked"},
         Goto(p, label), UNCHANGED <<target, plans, runs, lock, overtaken, local>>,
         stored \subseteq stored', linked \subseteq linked',
         stored' \cup linked' \subseteq Item \X Version,
         ProcessInv(p)', StoreInv'
  PROVE  IInv'
<1> USE DEF Goto, local
<1>1. TypeOK'
  BY DEF IInv, TypeOK
<1>2. \A q \in Process \ {p} : ProcessInv(q)'
  <2> SUFFICES ASSUME NEW q \in Process \ {p} PROVE ProcessInv(q)'
    OBVIOUS
  <2>1. ~ Executing(q) /\ pc'[q] = pc[q]
    BY Alone DEF IInv, TypeOK
  <2> QED
    BY <2>1, OthersKeep
<1>3. FinishedCounts'
  BY DEF IInv, FinishedCounts
<1> QED
  BY <1>1, <1>2, <1>3 DEF IInv

(* The steps of an item between two rows: the bytes of an earlier run are  *)
(* opened, a transfer begins or ends, the bytes are published or linked.   *)
LEMMA MovesOnStep ==
  ASSUME IInv, NEW p \in Process, UNCHANGED overtaken,
         Reconcile(p) \/ MustDownload(p) \/ Downloaded(p) \/ Publish(p) \/ PersistAsset(p)
  PROVE  IInv'
<1> USE DEF Goto, local, catalog
<1>1. /\ AtItem(p) /\ Executing(p) /\ Bytes(p) \in Item \X Version /\ ProcessInv(p)
      /\ UNCHANGED <<target, plans, runs, lock, local>>
  <2>1. AtItem(p)
    BY DEF AtItem, Reconcile, MustDownload, Downloaded, Publish, PersistAsset
  <2> QED
    BY <2>1, ItemFacts DEF IInv, Reconcile, MustDownload, Downloaded, Publish, PersistAsset
<1>2. \A l : Goto(p, l) => pc'[p] = l
  BY DEF IInv, TypeOK
<1>3. ItemRow(p)' = ItemRow(p) /\ Wanted(p)' = Wanted(p) /\ Bytes(p)' = Bytes(p)
      /\ SiblingRows(p)' = SiblingRows(p) /\ Planned(p)' = Planned(p)
  BY <1>1 DEF ItemRow, Wanted, Bytes, SiblingRows, Planned
<1>4. CASE Reconcile(p)
  <2>1. ProcessInv(p)'
    BY <1>1, <1>2, <1>3, <1>4 DEF Reconcile, ProcessInv, ExecutorInv, RowsInv, BytesInv,
       PreviewInv, PriorInv, CountInv, Executing, AtItem, RowAt
  <2>2. StoreInv'
    BY <1>4 DEF Reconcile, IInv, StoreInv, AssetInv, SettledHasAsset, StoredHasEvidence, RowAt
  <2> QED
    BY <1>1, <1>4, <2>1, <2>2, MovesOn DEF Reconcile, IInv, TypeOK
<1>5. CASE MustDownload(p)
  <2>1. ProcessInv(p)'
    <3>1. ExecutorInv(p)' /\ RowsInv(p)' /\ BytesInv(p)' /\ PreviewInv(p)' /\ CountInv(p)'
      BY <1>1, <1>2, <1>3, <1>5 DEF MustDownload, ProcessInv, ExecutorInv, RowsInv, BytesInv,
         PreviewInv, CountInv, Executing, AtItem, RowAt
    <3>2. \A row \in SiblingRows(p) : row.state \notin Settled
      BY <1>1, <1>5 DEF MustDownload, ProcessInv, PriorInv
    <3>3. \A row \in SiblingRows(p) : row.asset = None
      BY <1>1, <3>2, ItemFacts DEF SiblingRows, IInv, StoreInv, AssetInv, RowAt
    <3>4. ~ \E row \in SiblingRows(p) : row.sha256 # None /\ Bytes(p) \in stored
      BY <1>5, <3>3 DEF MustDownload, Reconcilable, Orphan
    <3> QED
      BY <1>2, <1>3, <1>5, <3>1, <3>2, <3>4 DEF ProcessInv, PriorInv, MustDownload
  <2>2. StoreInv'
    BY <1>5 DEF MustDownload, IInv, StoreInv, AssetInv, SettledHasAsset, StoredHasEvidence, RowAt
  <2> QED
    BY <1>1, <1>5, <2>1, <2>2, MovesOn DEF MustDownload, IInv, TypeOK
<1>6. CASE Downloaded(p)
  <2>1. ProcessInv(p)'
    BY <1>1, <1>2, <1>3, <1>6 DEF Downloaded, ProcessInv, ExecutorInv, RowsInv, BytesInv,
       PreviewInv, PriorInv, CountInv, Executing, AtItem, RowAt
  <2>2. StoreInv'
    BY <1>6 DEF Downloaded, IInv, StoreInv, AssetInv, SettledHasAsset, StoredHasEvidence, RowAt
  <2> QED
    BY <1>1, <1>6, <2>1, <2>2, MovesOn DEF Downloaded, IInv, TypeOK
<1>7. CASE Publish(p)
  <2>1. ProcessInv(p)'
    BY <1>1, <1>2, <1>3, <1>7 DEF Publish, ProcessInv, ExecutorInv, RowsInv, BytesInv,
       PreviewInv, PriorInv, CountInv, Executing, AtItem, RowAt
  <2>2. StoredHasEvidence'
    <3> SUFFICES ASSUME NEW i \in Item, NEW v \in Version, <<i, v>> \in stored'
                 PROVE  \E r \in DOMAIN runs : RowAt(r, i) # None /\ RowAt(r, i).sha256 = v
      BY <1>1 DEF StoredHasEvidence, RowAt
    <3>1. CASE <<i, v>> \in stored
      BY <3>1 DEF IInv, StoreInv, StoredHasEvidence
    <3>2. CASE <<i, v>> = Bytes(p)
      BY <1>1, <1>7, <3>2, ItemFacts DEF Publish, Bytes, ProcessInv, ExecutorInv, BytesInv
    <3> QED
      BY <1>7, <3>1, <3>2 DEF Publish
  <2>3. StoreInv'
    BY <1>1, <1>7, <2>2 DEF Publish, IInv, StoreInv, AssetInv, SettledHasAsset, RowAt
  <2> QED
    BY <1>1, <1>7, <2>1, <2>3, MovesOn DEF Publish, IInv, TypeOK
<1>8. CASE PersistAsset(p)
  <2>1. ProcessInv(p)'
    BY <1>1, <1>2, <1>3, <1>8 DEF PersistAsset, ProcessInv, ExecutorInv, RowsInv, BytesInv,
       PreviewInv, PriorInv, CountInv, Executing, AtItem, RowAt
  <2>2. StoreInv'
    BY <1>1, <1>8 DEF PersistAsset, IInv, StoreInv, AssetInv, SettledHasAsset,
       StoredHasEvidence, RowAt, ProcessInv, BytesInv
  <2> QED
    BY <1>1, <1>8, <2>1, <2>2, MovesOn DEF PersistAsset, IInv, TypeOK
<1> QED
  BY <1>4, <1>5, <1>6, <1>7, <1>8

(* The end of an invocation, by return, refusal, exception or kill, at any *)
(* point. *)
LEMMA LeaveStep ==
  ASSUME IInv, NEW p \in Process, Leave(p), UNCHANGED <<target, catalog, stored, overtaken>>
  PROVE  IInv'
<1> USE DEF Goto, Leave, catalog
<1>1. TypeOK'
  BY DEF IInv, TypeOK, NoCounts, Counts
<1>2. pc'[p] = "idle" /\ run'[p] = None /\ counts'[p] = NoCounts
  BY DEF IInv, TypeOK
<1>3. ProcessInv(p)'
  BY <1>2 DEF ProcessInv, ExecutorInv, RowsInv, BytesInv, PreviewInv, PriorInv, CountInv,
     Executing, AtItem
<1>4. ASSUME NEW q \in Process \ {p} PROVE ProcessInv(q)'
  <2>1. CASE ~ Executing(q)
    BY <2>1, OthersKeep DEF IInv, TypeOK
  <2>2. CASE Executing(q)
    BY <2>2 DEF IInv, TypeOK, ProcessInv, ExecutorInv, RowsInv, BytesInv, PreviewInv, PriorInv,
       CountInv, Executing, AtItem, RowAt, ItemRow, Wanted, Bytes, SiblingRows, Planned
  <2> QED
    BY <2>1, <2>2
<1>5. StoreInv' /\ FinishedCounts'
  BY DEF IInv, StoreInv, AssetInv, SettledHasAsset, StoredHasEvidence, RowAt, FinishedCounts
<1> QED
  BY <1>1, <1>3, <1>4, <1>5 DEF IInv

-----------------------------------------------------------------------------
(* Steps that write a row *)

(* The transaction that writes the row of item i, and what it changes.     *)
Writes(p, i, row) == runs' = [runs EXCEPT ![run[p]].items[i] = row]

ChangesRow(p, i, row) ==
    /\ DOMAIN runs' = DOMAIN runs /\ runs' \in Seq(Run)
    /\ \A r \in DOMAIN runs :
          /\ runs'[r] \in Run
          /\ runs'[r].plan = runs[r].plan
          /\ runs'[r].status = runs[r].status /\ runs'[r].counts = runs[r].counts
          /\ r # run[p] => runs'[r] = runs[r]
          /\ \A j \in Item :
                runs'[r].items[j] = IF r = run[p] /\ j = i THEN row ELSE RowAt(r, j)

(* It changes this row only. *)
LEMMA WrittenRow ==
  ASSUME IInv, NEW p \in Process, Executing(p), NEW i \in Item, NEW row \in Row,
         Writes(p, i, row)
  PROVE  ChangesRow(p, i, row)
<1>1. run[p] \in DOMAIN runs /\ runs \in Seq(Run) /\ runs[run[p]] \in Run
  BY Alone DEF IInv, TypeOK
<1>2. [runs[run[p]] EXCEPT !.items[i] = row] \in Run
  BY <1>1 DEF Run
<1>3. runs' = [runs EXCEPT ![run[p]] = [runs[run[p]] EXCEPT !.items[i] = row]]
  BY DEF Writes
<1>4. DOMAIN runs' = DOMAIN runs /\ runs' \in Seq(Run)
  BY <1>1, <1>2, <1>3
<1>5. \A r \in DOMAIN runs : r # run[p] => runs'[r] = runs[r]
  BY <1>1, <1>3
<1>6. runs'[run[p]] = [runs[run[p]] EXCEPT !.items[i] = row]
  BY <1>1, <1>3
<1>7. \A r \in DOMAIN runs : runs[r] \in Run
  BY DEF IInv, TypeOK
<1> QED
  BY <1>1, <1>2, <1>4, <1>5, <1>6, <1>7 DEF Run, RowAt, ChangesRow

(* A row replaces none or an open one, whose digests it keeps; if it is    *)
(* settled, its asset is stored and linked, and if bytes are stored with   *)
(* it, it has their digests.                                               *)
LEMMA WrittenRowAgrees ==
  ASSUME IInv, NEW p \in Process, Executing(p), NEW i \in Item, NEW row \in Row,
         Writes(p, i, row),
         UNCHANGED <<linked, overtaken>>, stored \subseteq stored',
         RowAt(run[p], i) # None /\ RowAt(run[p], i).sha256 # None
            => row.sha256 = RowAt(run[p], i).sha256,
         row.asset # None => row.state \in Settled,
         row.state \in Settled => <<i, row.asset>> \in stored \cap linked,
         \A j \in Item, v \in Version : <<j, v>> \in stored' \ stored => j = i /\ v = row.sha256
  PROVE  StoreInv' /\ FinishedCounts'
<1>1. /\ DOMAIN runs' = DOMAIN runs /\ run[p] \in DOMAIN runs /\ row # None
      /\ \A r \in DOMAIN runs :
            /\ r # run[p] => runs'[r] = runs[r]
            /\ \A j \in Item :
                  RowAt(r, j)' = IF r = run[p] /\ j = i THEN row ELSE RowAt(r, j)
  <2>1. ChangesRow(p, i, row)
    BY WrittenRow
  <2> QED
    BY <2>1, Alone, NoneAssumption DEF RowAt, ChangesRow
<1>2. AssetInv'
  BY <1>1 DEF IInv, StoreInv, AssetInv
<1>3. SettledHasAsset'
  BY <1>1 DEF IInv, StoreInv, SettledHasAsset
<1>4. StoredHasEvidence'
  <2> SUFFICES ASSUME NEW j \in Item, NEW v \in Version, <<j, v>> \in stored'
               PROVE  \E r \in DOMAIN runs : RowAt(r, j)' # None /\ RowAt(r, j)'.sha256 = v
    BY <1>1 DEF StoredHasEvidence
  <2>1. CASE <<j, v>> \notin stored
    BY <1>1, <2>1
  <2>2. CASE <<j, v>> \in stored
    <3>1. PICK r \in DOMAIN runs : RowAt(r, j) # None /\ RowAt(r, j).sha256 = v
      BY <2>2 DEF IInv, StoreInv, StoredHasEvidence
    <3>2. RowAt(r, j)' # None /\ RowAt(r, j)'.sha256 = v
      BY <1>1, <3>1, ItemAssumption
    <3> QED
      BY <3>2
  <2> QED
    BY <2>1, <2>2
<1>5. FinishedCounts'
  <2>1. run[p] \notin overtaken => runs[run[p]].status = "running"
    BY DEF IInv, ProcessInv, CountInv
  <2> QED
    BY <1>1, <2>1, WrittenRow DEF IInv, FinishedCounts, ChangesRow
<1> QED
  BY <1>2, <1>3, <1>4, <1>5 DEF IInv, StoreInv

(* The rest of the invariant, for a step of the executor that writes a     *)
(* row, if its own part is kept.                                           *)
LEMMA WritesRow ==
  ASSUME IInv, NEW p \in Process, Executing(p), NEW i \in Item, NEW row \in Row,
         Writes(p, i, row),
         UNCHANGED <<target, plans, linked, lock, overtaken, source, preview, run>>,
         NEW label, label \in {"next", "pending", "running", "evidence"}, Goto(p, label),
         stored \subseteq stored', stored' \subseteq Item \X Version,
         current' \in [Process -> Item \cup {None}],
         counts' \in [Process -> Counts], \A q \in Process \ {p} : counts'[q] = counts[q],
         ProcessInv(p)', StoreInv', FinishedCounts'
  PROVE  IInv'
<1>1. TypeOK'
  <2>1. DOMAIN runs' = DOMAIN runs /\ \A r \in DOMAIN runs : runs'[r] \in Run
    BY WrittenRow DEF ChangesRow
  <2> QED
    BY <2>1 DEF IInv, TypeOK, Goto
<1>2. ASSUME NEW q \in Process \ {p} PROVE ProcessInv(q)'
  <2>1. ~ Executing(q) /\ pc'[q] = pc[q]
    BY Alone DEF IInv, TypeOK, Goto
  <2>2. DOMAIN runs' = DOMAIN runs
    BY WrittenRow DEF ChangesRow
  <2> QED
    BY <2>1, <2>2, OthersKeep
<1>3. runs' \in Seq(Run)
  BY WrittenRow DEF ChangesRow
<1> QED
  BY <1>1, <1>2, <1>3 DEF IInv

(* What a process knows of its plan and its earlier rows after it has      *)
(* written the row of the item it is at.                                   *)
LEMMA OwnRow ==
  ASSUME IInv, NEW p \in Process, AtItem(p), NEW row \in Row, SetRow(p, row),
         UNCHANGED <<lock, preview, run, current>>
  PROVE  /\ ItemRow(p)' = row /\ Wanted(p)' = Wanted(p) /\ Bytes(p)' = Bytes(p)
         /\ Planned(p)' = Planned(p) /\ SiblingRows(p)' = SiblingRows(p)
         /\ run[p] \in DOMAIN runs' /\ runs'[run[p]].plan = preview[p]
         /\ \A j \in Item : RowAt(run[p], j)' # None => current[p] # None /\ j <= current[p]
<1>1. Executing(p) /\ current[p] \in Item /\ run[p] \in DOMAIN runs
  BY ItemFacts, Alone
<1>2. Writes(p, current[p], row)
  BY DEF SetRow, Writes
<1>3. ChangesRow(p, current[p], row)
  BY <1>1, <1>2, WrittenRow
<1>4. SiblingRows(p)' = SiblingRows(p)
  <2> DEFINE T == {r \in (DOMAIN runs) \ {run[p]} :
                     runs[r].plan = preview[p] /\ runs[r].items[current[p]] # None}
  <2>1. T' = T /\ \A r \in T : runs'[r] = runs[r]
    BY <1>3 DEF ChangesRow
  <2> HIDE DEF T
  <2>2. {runs'[r].items[current[p]] : r \in T} = {runs[r].items[current[p]] : r \in T}
    BY <2>1
  <2> QED
    BY <2>1, <2>2 DEF SiblingRows, T
<1>5. ItemRow(p)' = row
  BY <1>1, <1>3 DEF ItemRow, ChangesRow
<1>6. \A j \in Item : RowAt(run[p], j)' # None => current[p] # None /\ j <= current[p]
  <2>1. \A j \in Item : RowAt(run[p], j) # None => current[p] # None /\ j <= current[p]
    BY <1>1 DEF IInv, ProcessInv, RowsInv
  <2> QED
    BY <1>1, <1>3, <2>1, ItemAssumption DEF RowAt, ChangesRow
<1>7. runs[run[p]].plan = preview[p]
  BY <1>1 DEF IInv, ProcessInv, ExecutorInv
<1> QED
  BY <1>1, <1>3, <1>4, <1>5, <1>6, <1>7 DEF Wanted, Bytes, Planned, ChangesRow

(* An open row has no asset. *)
LEMMA OpenRow ==
  ASSUME IInv, NEW p \in Process, AtItem(p), ItemRow(p).state \in Open
  PROVE  ItemRow(p).asset = None /\ ItemRow(p).state \notin Settled \cup Deferred \cup Failed
<1>1. ItemRow(p) = RowAt(run[p], current[p]) /\ current[p] \in Item /\ ItemRow(p) # None
      /\ run[p] \in DOMAIN runs
  BY ItemFacts, Alone
<1> QED
  BY <1>1 DEF IInv, StoreInv, AssetInv, Open, Settled, Deferred, Failed

(* The counts of a run whose item is settled by a row. *)
LEMMA SettledCounts ==
  ASSUME IInv, NEW p \in Process, AtItem(p), NEW row \in Row,
         row.state \notin Open, SettleRow(p, row), UNCHANGED overtaken
  PROVE  /\ counts' \in [Process -> Counts] /\ \A q \in Process \ {p} : counts'[q] = counts[q]
         /\ CountInv(p)'
<1>1. /\ Executing(p) /\ current[p] \in Item /\ run[p] \in DOMAIN runs
      /\ ChangesRow(p, current[p], row)
  <2>1. Executing(p) /\ current[p] \in Item
    BY ItemFacts
  <2>2. Writes(p, current[p], row)
    BY DEF SettleRow, SetRow, Writes
  <2> QED
    BY <2>1, <2>2, WrittenRow, Alone
<1>2. counts[p] \in Counts
  BY DEF IInv, TypeOK
<1>3. ItemRow(p).state \notin Settled \cup Deferred \cup Failed /\ row # None
  BY OpenRow, NoneAssumption DEF SettleRow
<1> DEFINE f == runs[run[p]].items
           g == runs'[run[p]].items
<1>4. /\ f[current[p]] = ItemRow(p) /\ g[current[p]] = row
      /\ \A j \in Item \ {current[p]} : g[j] = f[j]
  BY <1>1 DEF ChangesRow, ItemRow, RowAt
<1> HIDE DEF f, g
<1>5. \A s \in {Settled, Deferred, Failed} :
         CountIn(g, s) = CountIn(f, s) + (IF row.state \in s THEN 1 ELSE 0)
  <2>1. ASSUME NEW s, ItemRow(p).state \notin s
        PROVE  CountIn(g, s) = CountIn(f, s) + (IF row.state \in s THEN 1 ELSE 0)
    <3>1. ~ (f[current[p]] # None /\ f[current[p]].state \in s)
      BY <1>4, <2>1
    <3>2. Agree(f, g, current[p])
      BY <1>4 DEF Agree
    <3>3. OneMore(f, g, current[p], s)
      BY <1>1, <3>1, <3>2, CountOneMore
    <3> QED
      BY <1>3, <1>4, <3>3 DEF OneMore
  <2> QED
    BY <1>3, <2>1
<1>6. counts' = [counts EXCEPT
         ![p].completed = IF row.state \in Settled THEN @ + 1 ELSE @,
         ![p].failed = IF row.state \in Failed THEN @ + 1 ELSE @,
         ![p].deferred = IF row.state \in Deferred THEN @ + 1 ELSE @]
  BY DEF SettleRow
<1>7. counts'[p] = [completed |-> counts[p].completed + (IF row.state \in Settled THEN 1 ELSE 0),
                    failed |-> counts[p].failed + (IF row.state \in Failed THEN 1 ELSE 0),
                    deferred |-> counts[p].deferred + (IF row.state \in Deferred THEN 1 ELSE 0)]
  <2>1. counts \in [Process -> Counts]
    BY DEF IInv, TypeOK
  <2>2. /\ counts'[p] \in Counts
        /\ counts'[p].completed = counts[p].completed + (IF row.state \in Settled THEN 1 ELSE 0)
        /\ counts'[p].failed = counts[p].failed + (IF row.state \in Failed THEN 1 ELSE 0)
        /\ counts'[p].deferred = counts[p].deferred + (IF row.state \in Deferred THEN 1 ELSE 0)
    <3> DEFINE a == IF row.state \in Settled THEN counts[p].completed + 1 ELSE counts[p].completed
               b == IF row.state \in Failed THEN counts[p].failed + 1 ELSE counts[p].failed
               c == IF row.state \in Deferred THEN counts[p].deferred + 1 ELSE counts[p].deferred
    <3>1. counts' = [counts EXCEPT ![p].completed = a, ![p].failed = b, ![p].deferred = c]
      BY <1>6, <2>1 DEF Counts
    <3>2. a \in Nat /\ b \in Nat /\ c \in Nat
      BY <1>2 DEF Counts
    <3>3. /\ a = counts[p].completed + (IF row.state \in Settled THEN 1 ELSE 0)
          /\ b = counts[p].failed + (IF row.state \in Failed THEN 1 ELSE 0)
          /\ c = counts[p].deferred + (IF row.state \in Deferred THEN 1 ELSE 0)
      BY <1>2 DEF Counts
    <3> HIDE DEF a, b, c
    <3>4. counts'[p] = [counts[p] EXCEPT !.completed = a, !.failed = b, !.deferred = c]
      BY <2>1, <3>1 DEF Counts
    <3> QED
      BY <1>2, <3>2, <3>3, <3>4 DEF Counts
  <2> QED
    BY <2>2 DEF Counts
<1>8. counts' \in [Process -> Counts] /\ \A q \in Process \ {p} : counts'[q] = counts[q]
  <2>1. counts'[p] \in Counts
    BY <1>2, <1>7 DEF Counts
  <2> QED
    BY <1>6, <2>1 DEF IInv, TypeOK
<1>9. CountInv(p)'
  <2> SUFFICES ASSUME run[p] \notin overtaken
               PROVE  runs'[run[p]].status = "running" /\ counts'[p] = CountsOf(g)
    BY DEF CountInv, SettleRow, g
  <2>1. runs[run[p]].status = "running" /\ counts[p] = CountsOf(f)
    BY <1>1 DEF IInv, ProcessInv, CountInv, f
  <2>2. runs'[run[p]].status = "running"
    BY <1>1, <2>1 DEF ChangesRow
  <2>3. counts'[p] = CountsOf(g)
    BY <1>5, <1>7, <2>1 DEF CountsOf
  <2> QED
    BY <2>2, <2>3
<1> QED
  BY <1>8, <1>9

(* An item is settled by a row that keeps the digests of the old one, and  *)
(* whose asset, if it is complete or satisfied, is stored and linked.      *)
LEMMA SettleStep ==
  ASSUME IInv, NEW p \in Process, AtItem(p), NEW row \in Row,
         row.state \notin Open, SettleRow(p, row), UNCHANGED overtaken,
         stored \subseteq stored', stored' \subseteq Item \X Version,
         ItemRow(p).sha256 # None => row.sha256 = ItemRow(p).sha256,
         row.asset # None => row.state \in Settled,
         row.state \in Settled => <<current[p], row.asset>> \in stored \cap linked,
         \A j \in Item, v \in Version :
             <<j, v>> \in stored' \ stored => j = current[p] /\ v = row.sha256
  PROVE  IInv'
<1>1. /\ Executing(p) /\ current[p] \in Item /\ ItemRow(p) = RowAt(run[p], current[p])
      /\ Writes(p, current[p], row)
  BY ItemFacts DEF SettleRow, SetRow, Writes
<1>2. /\ counts' \in [Process -> Counts] /\ \A q \in Process \ {p} : counts'[q] = counts[q]
      /\ CountInv(p)'
  BY SettledCounts
<1>3. /\ UNCHANGED <<target, plans, linked, lock, source, preview, run, current>>
      /\ Goto(p, "next") /\ SetRow(p, row)
  BY DEF SettleRow
<1>4. StoreInv' /\ FinishedCounts'
  BY <1>1, <1>3, WrittenRowAgrees
<1>5. ProcessInv(p)'
  <2>1. pc'[p] = "next"
    BY <1>3 DEF IInv, TypeOK, Goto
  <2>2. /\ run[p] \in DOMAIN runs' /\ runs'[run[p]].plan = preview[p]
        /\ \A j \in Item : RowAt(run[p], j)' # None => current[p] # None /\ j <= current[p]
    BY <1>3, OwnRow
  <2>3. ExecutorInv(p) /\ PreviewInv(p)
    BY DEF IInv, ProcessInv
  <2> QED
    BY <1>1, <1>2, <1>3, <2>1, <2>2, <2>3 DEF ProcessInv, ExecutorInv, RowsInv, BytesInv,
       PreviewInv, PriorInv, Executing, AtItem, RowAt
<1>6. current' \in [Process -> Item \cup {None}]
  BY <1>3 DEF IInv, TypeOK
<1> QED
  BY <1>1, <1>2, <1>3, <1>4, <1>5, <1>6, WritesRow

(* What execute() takes for the asset of an item is stored and linked, be  *)
(* it that of another run of the plan or that of the preview; if there is  *)
(* none, no other run of the plan has settled the item.                    *)
LEMMA PriorIsStored ==
  ASSUME IInv, NEW p \in Process, AtItem(p)
  PROVE  /\ PriorAsset(p) \in Version \cup {None}
         /\ PriorAsset(p) # None => <<current[p], PriorAsset(p)>> \in stored \cap linked
         /\ PriorAsset(p) = None => \A row \in SiblingRows(p) : row.state \notin Settled
<1> DEFINE prior == {row \in SiblingRows(p) : row.state \in Settled}
<1>1. current[p] \in Item /\ current[p] \in DOMAIN preview[p].satisfied /\ Executing(p)
  BY ItemFacts
<1>2. stored \cup linked \subseteq Item \X Version /\ None \notin Version
  BY ItemAssumption DEF IInv, TypeOK
<1>3. \A row \in prior : <<current[p], row.asset>> \in stored \cap linked
  BY <1>1 DEF SiblingRows, IInv, StoreInv, SettledHasAsset, RowAt
<1>4. CASE prior # {}
  <2>1. PriorAsset(p) = (CHOOSE row \in prior : TRUE).asset
    BY <1>4 DEF PriorAsset
  <2>2. (CHOOSE row \in prior : TRUE) \in prior
    BY <1>4
  <2>3. <<current[p], PriorAsset(p)>> \in stored \cap linked
    BY <1>3, <2>1, <2>2
  <2> QED
    BY <1>2, <2>3
<1>5. CASE prior = {}
  <2>1. PriorAsset(p) = preview[p].satisfied[current[p]]
    BY <1>5 DEF PriorAsset
  <2>2. PriorAsset(p) # None => <<current[p], PriorAsset(p)>> \in stored \cap linked
    BY <1>1, <2>1 DEF IInv, ProcessInv, PreviewInv
  <2> QED
    BY <1>2, <1>5, <2>2
<1> QED
  BY <1>4, <1>5

(* The steps that settle the item of a process: satisfied, deferred,       *)
(* stale, refused, failed, interrupted, quarantined or complete.           *)
LEMMA SettlesStep ==
  ASSUME IInv, NEW p \in Process, UNCHANGED overtaken,
         \/ ItemSatisfied(p) \/ ItemDeferred(p) \/ ItemStale(p) \/ ItemRefused(p)
         \/ ReconcileFails(p) \/ Quarantine(p) \/ PublicationFails(p) \/ CompleteItem(p)
         \/ \E state \in {"failed", "interrupted"}, retryable \in BOOLEAN :
               TransferFails(p, state, retryable)
  PROVE  IInv'
<1>1. AtItem(p)
  BY DEF AtItem, ItemSatisfied, ItemDeferred, ItemStale, ItemRefused, ReconcileFails,
     Quarantine, PublicationFails, CompleteItem, TransferFails
<1>2. /\ current[p] \in Item /\ Wanted(p) \in Version /\ ItemRow(p) \in Row
      /\ Bytes(p) = <<current[p], Wanted(p)>> /\ Bytes(p) \in Item \X Version
      /\ BytesInv(p) /\ stored \subseteq Item \X Version
  BY <1>1, ItemFacts DEF IInv, ProcessInv, TypeOK, Bytes
<1> USE DEF Settle
<1>3. CASE ItemSatisfied(p)
  <2> DEFINE row == [PendingRow EXCEPT !.state = "satisfied", !.asset = PriorAsset(p)]
  <2>1. /\ PriorAsset(p) # None /\ SettleRow(p, row) /\ UNCHANGED stored
        /\ ItemRow(p).sha256 = None
    BY <1>2, <1>3 DEF ItemSatisfied, BytesInv
  <2>2. PriorAsset(p) \in Version /\ <<current[p], PriorAsset(p)>> \in stored \cap linked
    BY <1>1, <2>1, PriorIsStored
  <2>3. /\ row \in Row /\ row.state = "satisfied" /\ row.asset = PriorAsset(p)
    BY <2>2 DEF PendingRow, Row, Settled
  <2> HIDE DEF row
  <2> QED
    BY <1>1, <1>2, <2>1, <2>2, <2>3, SettleStep DEF Settled, Open
<1>4. CASE ItemDeferred(p) \/ ItemStale(p) \/ ItemRefused(p)
  <2>1. PICK row \in Row : /\ SettleRow(p, row) /\ row.asset = None
                           /\ row.state \in Deferred \cup Failed
    <3> DEFINE row(s, b) == [PendingRow EXCEPT !.state = s, !.retryable = b]
               other(s) == [PendingRow EXCEPT !.state = s]
    <3>1. row("deferred", TRUE) \in Row /\ other("stale") \in Row /\ other("failed") \in Row
      BY DEF PendingRow, Row, Settled, Failed, Deferred, Open
    <3> QED
      BY <1>4, <3>1 DEF ItemDeferred, ItemStale, ItemRefused, PendingRow, Failed, Deferred
  <2>2. UNCHANGED stored /\ ItemRow(p).sha256 = None
    BY <1>2, <1>4 DEF ItemDeferred, ItemStale, ItemRefused, BytesInv
  <2>3. row.state \notin Open \cup Settled
    BY <2>1 DEF Settled, Failed, Deferred, Open
  <2> QED
    BY <1>1, <1>2, <2>1, <2>2, <2>3, SettleStep
<1>5. CASE ReconcileFails(p)
  <2> DEFINE row == [ItemRow(p) EXCEPT !.state = "failed", !.sha256 = Wanted(p)]
  <2>1. SettleRow(p, row) /\ UNCHANGED stored /\ ItemRow(p).sha256 = None
    BY <1>2, <1>5 DEF ReconcileFails, BytesInv
  <2>2. ItemRow(p).asset = None
    BY <1>1, <2>1, OpenRow DEF SettleRow
  <2>3. row \in Row /\ row.state = "failed" /\ row.asset = None
    BY <1>2, <2>2 DEF Row, Failed
  <2> HIDE DEF row
  <2> QED
    BY <1>1, <1>2, <2>1, <2>3, SettleStep DEF Settled, Open
<1>6. CASE \/ Quarantine(p)
           \/ \E state \in {"failed", "interrupted"}, retryable \in BOOLEAN :
                 TransferFails(p, state, retryable)
  <2>1. UNCHANGED stored /\ ItemRow(p).state \in Open
    BY <1>6 DEF Quarantine, TransferFails, SettleRow
  <2>2. ItemRow(p).asset = None
    BY <1>1, <2>1, OpenRow
  <2>3. PICK row \in Row : /\ SettleRow(p, row) /\ row.asset = None
                           /\ row.sha256 = ItemRow(p).sha256
                           /\ row.state \in {"quarantined", "failed", "interrupted"}
    <3>1. CASE Quarantine(p)
      <4>1. [ItemRow(p) EXCEPT !.state = "quarantined"] \in Row
        BY <1>2 DEF Row, Failed
      <4> QED
        BY <1>2, <2>2, <3>1, <4>1 DEF Quarantine, Row
    <3>2. CASE \E state \in {"failed", "interrupted"}, retryable \in BOOLEAN :
                  TransferFails(p, state, retryable)
      <4>1. PICK state \in {"failed", "interrupted"}, retryable \in BOOLEAN :
                    TransferFails(p, state, retryable)
        BY <3>2
      <4>2. [ItemRow(p) EXCEPT !.state = state, !.retryable = retryable] \in Row
        BY <1>2 DEF Row, Failed, Deferred
      <4> QED
        BY <1>2, <2>2, <4>1, <4>2 DEF TransferFails, Row
    <3> QED
      BY <1>6, <3>1, <3>2
  <2>4. row.state \notin Open \cup Settled
    BY <2>3 DEF Settled, Open
  <2> QED
    BY <1>1, <1>2, <2>1, <2>3, <2>4, SettleStep
<1>7. CASE PublicationFails(p)
  <2> DEFINE row == [ItemRow(p) EXCEPT !.state = "failed"]
  <2>1. SettleRow(p, row) /\ ItemRow(p).state \in Open
    BY <1>7 DEF PublicationFails, SettleRow
  <2>2. ItemRow(p).asset = None
    BY <1>1, <2>1, OpenRow
  <2>3. /\ row \in Row /\ row.state = "failed" /\ row.asset = None
        /\ row.sha256 = ItemRow(p).sha256
    BY <1>2, <2>2 DEF Row, Failed
  <2>4. /\ stored \subseteq stored' /\ stored' \subseteq Item \X Version
        /\ \A j \in Item, v \in Version :
              <<j, v>> \in stored' \ stored => j = current[p] /\ v = row.sha256
    BY <1>2, <1>7, <2>3 DEF PublicationFails, BytesInv
  <2> HIDE DEF row
  <2> QED
    BY <1>1, <1>2, <2>1, <2>3, <2>4, SettleStep DEF Settled, Open
<1>8. CASE CompleteItem(p)
  <2> DEFINE row == [ItemRow(p) EXCEPT !.state = "complete", !.asset = Wanted(p)]
  <2>1. SettleRow(p, row) /\ UNCHANGED stored
    BY <1>8 DEF CompleteItem
  <2>2. /\ row \in Row /\ row.state = "complete" /\ row.asset = Wanted(p)
        /\ row.sha256 = ItemRow(p).sha256
    BY <1>2 DEF Row, Settled
  <2>3. <<current[p], Wanted(p)>> \in stored \cap linked
    BY <1>2, <1>8 DEF CompleteItem, BytesInv
  <2> HIDE DEF row
  <2> QED
    BY <1>1, <1>2, <2>1, <2>2, <2>3, SettleStep DEF Settled, Open
<1> QED
  BY <1>3, <1>4, <1>5, <1>6, <1>7, <1>8

(* An open row is not counted, nor is what it replaces.                    *)
LEMMA OpenCounts ==
  ASSUME IInv, NEW p \in Process, Executing(p), NEW i \in Item, NEW row \in Row,
         Writes(p, i, row), row.state \in Open,
         RowAt(run[p], i) # None => RowAt(run[p], i).state \in Open,
         UNCHANGED <<overtaken, run, counts>>
  PROVE  CountInv(p)'
<1>1. run[p] \in DOMAIN runs /\ ChangesRow(p, i, row)
  BY WrittenRow, Alone
<1> DEFINE f == runs[run[p]].items
           g == runs'[run[p]].items
<1>2. f[i] = RowAt(run[p], i) /\ g[i] = row /\ \A j \in Item \ {i} : g[j] = f[j]
  BY <1>1 DEF ChangesRow, RowAt
<1> HIDE DEF f, g
<1>3. \A s \in {Settled, Deferred, Failed} : row.state \notin s
  BY DEF Settled, Deferred, Failed, Open
<1>4. \A s \in {Settled, Deferred, Failed} : ~ (f[i] # None /\ f[i].state \in s)
  BY <1>2 DEF Settled, Deferred, Failed, Open
<1>5. ASSUME NEW s \in {Settled, Deferred, Failed}
      PROVE  CountIn(g, s) = CountIn(f, s)
  <2>1. Agree(f, g, i)
    BY <1>2 DEF Agree
  <2>2. OneMore(f, g, i, s)
    BY <1>4, <2>1, CountOneMore
  <2> QED
    BY <1>2, <1>3, <2>2 DEF OneMore
<1>6. CountsOf(g) = CountsOf(f)
  BY <1>5 DEF CountsOf
<1> QED
  BY <1>1, <1>6 DEF ChangesRow, IInv, ProcessInv, CountInv, Executing, f, g

(* The next item of the plan has no row yet.                               *)
LEMMA NextItem ==
  ASSUME IInv, NEW p \in Process, BeginItem(p)
  PROVE  /\ Executing(p) /\ Planned(p) \subseteq Item
         /\ Min(Remaining(p)) \in Item /\ Min(Remaining(p)) \in Planned(p)
         /\ current[p] # None => Min(Remaining(p)) > current[p]
         /\ RowAt(run[p], Min(Remaining(p))) = None
<1> DEFINE i == Min(Remaining(p))
<1>1. Executing(p) /\ Planned(p) \subseteq Item /\ Item \subseteq Nat
  <2>1. Executing(p)
    BY DEF BeginItem, Executing
  <2> QED
    BY <2>1, PlanFacts, ItemAssumption DEF IInv, ProcessInv, ExecutorInv, Planned
<1>2. i \in Item /\ i \in Planned(p) /\ (current[p] # None => i > current[p])
  <2>1. Remaining(p) \in SUBSET Nat /\ Remaining(p) \subseteq Item /\ Remaining(p) # {}
    BY <1>1 DEF Remaining, BeginItem
  <2>2. IsFiniteSet(Remaining(p))
    BY <2>1, ItemAssumption, FS_Subset
  <2>3. i \in Remaining(p)
    BY <2>1, <2>2, ExtremesOfFinite
  <2> QED
    BY <1>1, <2>3 DEF Remaining
<1> HIDE DEF i
<1>3. RowAt(run[p], i) = None
  <2> SUFFICES ASSUME RowAt(run[p], i) # None PROVE FALSE
    OBVIOUS
  <2>1. current[p] \in Item /\ i <= current[p]
    BY <1>1, <1>2 DEF IInv, TypeOK, ProcessInv, RowsInv
  <2>2. i \in Nat /\ current[p] \in Nat /\ i > current[p]
    BY <1>1, <1>2, <2>1, ItemAssumption
  <2> QED
    BY <2>1, <2>2
<1> QED
  BY <1>1, <1>2, <1>3 DEF i

(* It gets its row.                                                        *)
LEMMA BeginItemStep ==
  ASSUME IInv, NEW p \in Process, BeginItem(p), UNCHANGED overtaken
  PROVE  IInv'
<1> DEFINE i == Min(Remaining(p))
<1>1. Executing(p) /\ Item \subseteq Nat /\ preview[p] \in Plan
  BY NextItem, ItemAssumption DEF IInv, ProcessInv, ExecutorInv
<1>2. i \in Item /\ i \in Planned(p) /\ (current[p] # None => i > current[p])
  BY NextItem
<1>3. RowAt(run[p], i) = None
  BY NextItem
<1> HIDE DEF i
<1>4. PendingRow \in Row /\ PendingRow.state \in Open /\ PendingRow.asset = None
      /\ PendingRow.sha256 = None
  BY DEF PendingRow, Row, Open
<1>5. Writes(p, i, PendingRow) /\ current' = [current EXCEPT ![p] = i] /\ Goto(p, "pending")
      /\ UNCHANGED <<target, plans, linked, stored, lock, source, preview, run, counts>>
  BY DEF BeginItem, Writes, i
<1>6. pc'[p] = "pending" /\ current'[p] = i
  BY <1>5 DEF Goto, IInv, TypeOK
<1>7. ChangesRow(p, i, PendingRow) /\ run[p] \in DOMAIN runs
  BY <1>1, <1>2, <1>4, <1>5, WrittenRow, Alone
<1>8. CountInv(p)'
  BY <1>1, <1>2, <1>3, <1>4, <1>5, OpenCounts
<1>9. StoreInv' /\ FinishedCounts'
  BY <1>1, <1>2, <1>3, <1>4, <1>5, WrittenRowAgrees DEF Open, Settled
<1>10. ProcessInv(p)'
  <2>1. ExecutorInv(p)'
    BY <1>1, <1>5, <1>6, <1>7 DEF ExecutorInv, Executing, IInv, ProcessInv, ChangesRow
  <2>2. RowsInv(p)'
    <3>1. \A j \in Item : RowAt(run[p], j)' # None => j <= i
      <4> SUFFICES ASSUME NEW j \in Item, RowAt(run[p], j)' # None, j # i PROVE j <= i
        BY <1>1, <1>2
      <4>1. RowAt(run[p], j) # None
        BY <1>5, <1>7 DEF RowAt, ChangesRow
      <4>2. current[p] \in Item /\ j <= current[p]
        BY <1>1, <4>1 DEF IInv, ProcessInv, RowsInv, TypeOK
      <4>3. i \in Nat /\ j \in Nat /\ current[p] \in Nat /\ i > current[p]
        BY <1>1, <1>2, <4>2, ItemAssumption
      <4> QED
        BY <4>2, <4>3
    <3>2. ItemRow(p)' = PendingRow /\ PendingRow # None /\ Planned(p)' = Planned(p) /\ i # None
      BY <1>2, <1>4, <1>5, <1>6, <1>7, NoneAssumption, ItemAssumption DEF ItemRow, ChangesRow, Planned
    <3> QED
      BY <1>2, <1>5, <1>6, <3>1, <3>2 DEF RowsInv, RowAt
  <2>3. BytesInv(p)'
    BY <1>2, <1>4, <1>5, <1>6, <1>7 DEF BytesInv, ItemRow, ChangesRow
  <2>4. PreviewInv(p)' /\ PriorInv(p)'
    BY <1>1, <1>5, <1>6 DEF IInv, ProcessInv, PreviewInv, PriorInv, Executing
  <2> QED
    BY <1>8, <2>1, <2>2, <2>3, <2>4 DEF ProcessInv
<1>11. /\ current' \in [Process -> Item \cup {None}] /\ counts' \in [Process -> Counts]
       /\ stored' \subseteq Item \X Version /\ \A q \in Process : counts'[q] = counts[q]
  BY <1>2, <1>5 DEF IInv, TypeOK
<1> QED
  BY <1>1, <1>2, <1>4, <1>5, <1>9, <1>10, <1>11, WritesRow

(* The item is to be acquired, or the digests of its bytes are recorded:   *)
(* its row stays open.                                                     *)
LEMMA OpenRowStep ==
  ASSUME IInv, NEW p \in Process, ItemRunning(p) \/ RecordEvidence(p), UNCHANGED overtaken
  PROVE  IInv'
<1>1. AtItem(p) /\ ItemRow(p).state \in Open /\ UNCHANGED <<target, plans, linked, stored, lock, local>>
  BY DEF AtItem, ItemRunning, RecordEvidence
<1>2. /\ Executing(p) /\ current[p] \in Item /\ run[p] \in DOMAIN runs /\ Wanted(p) \in Version
      /\ ItemRow(p) \in Row /\ ItemRow(p) = RowAt(run[p], current[p])
      /\ ItemRow(p).asset = None /\ BytesInv(p) /\ None \notin Version
  BY <1>1, ItemFacts, OpenRow, Alone, ItemAssumption DEF IInv, ProcessInv
<1>3. PICK row \in Row, label \in {"running", "evidence"} :
         /\ SetRow(p, row) /\ Goto(p, label)
         /\ row.state \in Open /\ row.asset = None
         /\ ItemRow(p).sha256 # None => row.sha256 = ItemRow(p).sha256
         /\ row.sha256 = IF label = "running" THEN None ELSE Wanted(p)
         /\ label = "running" => PriorAsset(p) = None
  <2>1. CASE ItemRunning(p)
    <3>1. [PendingRow EXCEPT !.state = "running"] \in Row
      BY DEF PendingRow, Row, Open
    <3>2. ItemRow(p).sha256 = None
      BY <1>2, <2>1 DEF ItemRunning, BytesInv
    <3> QED
      BY <2>1, <3>1, <3>2 DEF ItemRunning, PendingRow, Open
  <2>2. CASE RecordEvidence(p)
    <3> DEFINE row == [ItemRow(p) EXCEPT !.state = "running", !.sha256 = Wanted(p)]
    <3>1. row \in Row
      BY <1>2 DEF Row, Open
    <3>2. row.state = "running" /\ row.sha256 = Wanted(p) /\ row.asset = None
      BY <1>2 DEF Row
    <3>3. ItemRow(p).sha256 # None => Wanted(p) = ItemRow(p).sha256
      BY <1>2, <2>2 DEF RecordEvidence, IInv, ProcessInv, BytesInv
    <3> QED
      BY <2>2, <3>1, <3>2, <3>3 DEF RecordEvidence, Open
  <2> QED
    BY <2>1, <2>2
<1>4. pc'[p] = label
  BY <1>3 DEF Goto, IInv, TypeOK
<1>5. Writes(p, current[p], row)
  BY <1>3 DEF SetRow, Writes
<1>6. CountInv(p)'
  BY <1>1, <1>2, <1>3, <1>5, OpenCounts DEF local
<1>7. StoreInv' /\ FinishedCounts'
  BY <1>1, <1>2, <1>3, <1>5, WrittenRowAgrees DEF Open, Settled
<1>8. ProcessInv(p)'
  <2>1. /\ ItemRow(p)' = row /\ Wanted(p)' = Wanted(p) /\ Bytes(p)' = Bytes(p)
        /\ Planned(p)' = Planned(p) /\ SiblingRows(p)' = SiblingRows(p)
        /\ run[p] \in DOMAIN runs' /\ runs'[run[p]].plan = preview[p]
        /\ \A j \in Item : RowAt(run[p], j)' # None => current[p] # None /\ j <= current[p]
    BY <1>1, <1>3, OwnRow DEF local
  <2>2. ProcessInv(p) /\ row # None
    BY NoneAssumption DEF IInv
  <2>3. ExecutorInv(p)' /\ PreviewInv(p)' /\ BytesInv(p)'
    BY <1>1, <1>2, <1>3, <1>4, <2>1, <2>2 DEF local, ProcessInv, ExecutorInv, PreviewInv,
       BytesInv, Executing, AtItem
  <2>4. RowsInv(p)'
    BY <1>1, <1>2, <1>3, <1>4, <2>1, <2>2 DEF local, ProcessInv, RowsInv, Executing, AtItem, RowAt
  <2>5. PriorInv(p)'
    <3>1. label = "running" => \A s \in SiblingRows(p) : s.state \notin Settled
      BY <1>1, <1>3, PriorIsStored
    <3> QED
      BY <1>4, <2>1, <3>1 DEF PriorInv
  <2> QED
    BY <1>6, <2>3, <2>4, <2>5 DEF ProcessInv
<1>9. /\ current' \in [Process -> Item \cup {None}] /\ counts' \in [Process -> Counts]
      /\ stored' \subseteq Item \X Version /\ \A q \in Process : counts'[q] = counts[q]
  BY <1>1 DEF IInv, TypeOK, local
<1>10. UNCHANGED <<target, plans, linked, lock, overtaken, source, preview, run>> /\ stored \subseteq stored'
  BY <1>1 DEF local
<1> QED
  BY <1>2, <1>3, <1>5, <1>7, <1>8, <1>9, <1>10, WritesRow

-----------------------------------------------------------------------------
(* Plans, the first and the last transaction of a run *)

(* A step outside execute() that changes one process only keeps the        *)
(* invariant, if it keeps that of the process.                             *)
LEMMA StandsOutside ==
  ASSUME IInv, NEW p \in Process, UNCHANGED <<target, catalog, stored, lock, overtaken>>,
         NEW label, label \in {"enter", "select"}, Goto(p, label),
         UNCHANGED <<source, run, current, counts>>,
         ~ Executing(p), preview' \in [Process -> Plan \cup {None}],
         \A q \in Process \ {p} : preview'[q] = preview[q],
         ProcessInv(p)'
  PROVE  IInv'
<1> USE DEF catalog, Goto
<1>1. TypeOK'
  BY DEF IInv, TypeOK
<1>2. ASSUME NEW q \in Process \ {p} PROVE ProcessInv(q)'
  <2>0. pc'[q] = pc[q] /\ preview'[q] = preview[q]
    BY DEF IInv, TypeOK
  <2>1. CASE ~ Executing(q)
    BY <2>0, <2>1, OthersKeep
  <2>2. CASE Executing(q)
    BY <2>0, <2>2 DEF IInv, ProcessInv, ExecutorInv, RowsInv, BytesInv, PreviewInv, PriorInv,
       CountInv, Executing, AtItem, RowAt, ItemRow, Wanted, Bytes, SiblingRows, Planned
  <2> QED
    BY <2>1, <2>2
<1>3. StoreInv' /\ FinishedCounts'
  BY DEF IInv, StoreInv, AssetInv, SettledHasAsset, StoredHasEvidence, RowAt, FinishedCounts
<1> QED
  BY <1>1, <1>2, <1>3 DEF IInv

(* A download or a retry computes its plan.                                *)
LEMMA PlansStep ==
  ASSUME IInv, NEW p \in Process, UNCHANGED overtaken,
         \/ \E S \in SUBSET Item : PlanDownload(p, S)
         \/ \E nonretryable \in BOOLEAN : SelectRetry(p, nonretryable)
  PROVE  IInv'
<1>1. CASE \E S \in SUBSET Item : /\ S # {} /\ pc[p] \in {"idle", "select"}
                                   /\ preview' = [preview EXCEPT ![p] = PlanFor(S)]
                                   /\ Goto(p, "enter")
                                   /\ UNCHANGED <<target, catalog, stored, lock, source, run,
                                                  current, counts>>
  <2>1. PICK S \in SUBSET Item : /\ S # {} /\ pc[p] \in {"idle", "select"}
                                 /\ preview' = [preview EXCEPT ![p] = PlanFor(S)]
                                 /\ Goto(p, "enter")
                                 /\ UNCHANGED <<target, catalog, stored, lock, source, run,
                                                current, counts>>
    BY <1>1
  <2>2. /\ PlanFor(S) \in Plan
        /\ DOMAIN PlanFor(S).satisfied = S
        /\ \A i \in S : PlanFor(S).satisfied[i] # None =>
              <<i, PlanFor(S).satisfied[i]>> \in stored \cap linked
    BY <2>1, PreviewIsPlan
  <2>3. pc'[p] = "enter" /\ preview'[p] = PlanFor(S) /\ ~ Executing(p)
    BY <2>1 DEF IInv, TypeOK, Goto, Executing
  <2>4. /\ preview' \in [Process -> Plan \cup {None}]
        /\ \A q \in Process \ {p} : preview'[q] = preview[q]
    BY <2>1, <2>2 DEF IInv, TypeOK
  <2>5. ProcessInv(p)'
    BY <2>1, <2>2, <2>3 DEF catalog, IInv, ProcessInv, ExecutorInv, RowsInv, BytesInv, PreviewInv,
       PriorInv, CountInv, Executing, AtItem
  <2> QED
    BY <2>1, <2>3, <2>4, <2>5, StandsOutside
<1>2. CASE Leave(p) /\ UNCHANGED <<target, catalog, stored>>
  BY <1>2, LeaveStep
<1>3. ASSUME NEW S \in SUBSET Item, PlanDownload(p, S) PROVE IInv'
  BY <1>1, <1>3 DEF PlanDownload
<1>4. ASSUME NEW nonretryable \in BOOLEAN, SelectRetry(p, nonretryable) PROVE IInv'
  <2>1. RetryRows(source[p], nonretryable) \in SUBSET Item
    BY DEF RetryRows
  <2> QED
    BY <1>1, <1>2, <1>4, <2>1 DEF SelectRetry
<1> QED
  BY <1>3, <1>4

(* A run begins: the lock was free, so that nobody executes one.           *)
LEMMA BeginRunStep ==
  ASSUME IInv, NEW p \in Process, BeginRun(p), UNCHANGED overtaken
  PROVE  IInv'
<1> DEFINE new == [plan |-> preview[p], status |-> "running", counts |-> None,
                   items |-> [i \in Item |-> None]]
<1>1. /\ pc[p] = "enter" /\ preview[p] \in Plan /\ ~ Executing(p) /\ counts[p] = NoCounts
      /\ \A q \in Process : ~ Executing(q)
  BY ItemAssumption DEF BeginRun, IInv, ProcessInv, ExecutorInv, Executing
<1>2. new \in Run
  BY <1>1 DEF Run
<1>3. runs \in Seq(Run) /\ Len(runs) \in Nat /\ DOMAIN runs = 1..Len(runs)
  BY DEF IInv
<1>4. /\ runs' = Append(runs, new) /\ UNCHANGED <<target, linked, stored, source, preview, current, counts>>
      /\ lock' = p /\ run' = [run EXCEPT ![p] = Len(runs) + 1] /\ Goto(p, "next")
      /\ plans' = plans \cup {preview[p]}
  BY DEF BeginRun
<1> HIDE DEF new
<1>5. /\ runs' \in Seq(Run) /\ DOMAIN runs' = (DOMAIN runs) \cup {Len(runs) + 1}
      /\ Len(runs) + 1 \notin DOMAIN runs /\ runs'[Len(runs) + 1] = new
      /\ \A r \in DOMAIN runs : runs'[r] = runs[r]
  BY <1>2, <1>3, <1>4
<1>6. new.status = "running" /\ new.plan = preview[p] /\ \A i \in Item : new.items[i] = None
  BY DEF new
<1>7. pc'[p] = "next" /\ run'[p] = Len(runs) + 1
  BY <1>4 DEF IInv, TypeOK, Goto
<1>8. TypeOK'
  <2>1. \A r \in DOMAIN runs' : runs'[r] \in Run
    BY <1>2, <1>5 DEF IInv, TypeOK
  <2>2. run' \in [Process -> (DOMAIN runs') \cup {None}]
    BY <1>4, <1>5 DEF IInv, TypeOK
  <2> QED
    BY <1>1, <1>4, <1>5, <2>1, <2>2 DEF IInv, TypeOK, Goto
<1>9. ASSUME NEW q \in Process \ {p} PROVE ProcessInv(q)'
  BY <1>1, <1>4, <1>5, OthersKeep DEF IInv, TypeOK, Goto
<1>10. CountsOf(new.items) = NoCounts
  <2>1. ASSUME NEW s PROVE CountIn(new.items, s) = 0
    <3>1. {i \in Item : new.items[i] # None /\ new.items[i].state \in s} = {}
      BY <1>6
    <3> QED
      BY <3>1, FS_EmptySet DEF CountIn
  <2> QED
    BY <2>1 DEF CountsOf, NoCounts
<1>11. ProcessInv(p)'
  <2>1. ExecutorInv(p)' /\ CountInv(p)'
    BY <1>1, <1>4, <1>5, <1>6, <1>7, <1>10 DEF ExecutorInv, CountInv, Executing
  <2>2. RowsInv(p)' /\ BytesInv(p)'
    BY <1>5, <1>6, <1>7 DEF RowsInv, BytesInv, Executing, AtItem, RowAt
  <2>3. PreviewInv(p)' /\ PriorInv(p)'
    BY <1>1, <1>4, <1>7 DEF IInv, ProcessInv, PreviewInv, PriorInv, Executing
  <2> QED
    BY <2>1, <2>2, <2>3 DEF ProcessInv
<1>12. StoreInv'
  BY <1>4, <1>5, <1>6 DEF IInv, StoreInv, AssetInv, SettledHasAsset, StoredHasEvidence, RowAt
<1>13. FinishedCounts'
  BY <1>5, <1>6 DEF IInv, FinishedCounts
<1> QED
  BY <1>5, <1>8, <1>9, <1>11, <1>12, <1>13 DEF IInv

(* A run is finished with the counts of its executor.                      *)
LEMMA FinishRunStep ==
  ASSUME IInv, NEW p \in Process, FinishRun(p), UNCHANGED overtaken
  PROVE  IInv'
<1>1. /\ Executing(p) /\ run[p] \in DOMAIN runs /\ runs[run[p]] \in Run /\ runs \in Seq(Run)
      /\ counts[p] \in Counts
      /\ \A q \in Process \ {p} : ~ Executing(q)
  <2>1. Executing(p)
    BY DEF FinishRun, Executing
  <2> QED
    BY <2>1, Alone DEF IInv, TypeOK
<1>2. CASE runs[run[p]].status # "running"
  BY <1>2, LeaveStep DEF FinishRun, catalog
<1>3. CASE runs[run[p]].status = "running"
  <2> DEFINE done == [runs[run[p]] EXCEPT !.status = "finished", !.counts = counts[p]]
  <2>1. done \in Run /\ done.counts = counts[p] /\ done.plan = runs[run[p]].plan
        /\ done.items = runs[run[p]].items
    BY <1>1 DEF Run
  <2>2. runs' = [runs EXCEPT ![run[p]] = done]
    BY <1>1, <1>3 DEF FinishRun, Run
  <2> HIDE DEF done
  <2>3. /\ runs' \in Seq(Run) /\ DOMAIN runs' = DOMAIN runs
        /\ \A r \in DOMAIN runs : runs'[r] = IF r = run[p] THEN done ELSE runs[r]
    BY <1>1, <2>1, <2>2
  <2>4. \A r \in DOMAIN runs, i \in Item : RowAt(r, i)' = RowAt(r, i)
    BY <2>1, <2>3 DEF RowAt
  <2>5. Leave(p) /\ UNCHANGED <<target, plans, linked, stored>>
    BY DEF FinishRun
  <2>6. TypeOK'
    <3>1. \A r \in DOMAIN runs' : runs'[r] \in Run
      BY <2>1, <2>3 DEF IInv, TypeOK
    <3> QED
      BY <2>3, <2>5, <3>1 DEF IInv, TypeOK, Leave, Goto, NoCounts, Counts
  <2>7. ProcessInv(p)'
    <3>1. pc'[p] = "idle" /\ run'[p] = None /\ counts'[p] = NoCounts
      BY <2>5 DEF IInv, TypeOK, Leave, Goto
    <3> QED
      BY <3>1 DEF ProcessInv, ExecutorInv, RowsInv, BytesInv, PreviewInv, PriorInv, CountInv,
         Executing, AtItem
  <2>8. ASSUME NEW q \in Process \ {p} PROVE ProcessInv(q)'
    <3>1. /\ pc'[q] = pc[q] /\ source'[q] = source[q] /\ preview'[q] = preview[q]
          /\ run'[q] = run[q] /\ counts'[q] = counts[q]
      BY <2>5 DEF IInv, TypeOK, Leave, Goto
    <3> QED
      BY <1>1, <2>3, <2>5, <3>1, OthersKeep
  <2>9. StoreInv'
    BY <2>3, <2>4, <2>5 DEF IInv, StoreInv, AssetInv, SettledHasAsset, StoredHasEvidence
  <2>10. FinishedCounts'
    <3>1. run[p] \notin overtaken => counts[p] = CountsOf(runs[run[p]].items)
      BY <1>1 DEF IInv, ProcessInv, CountInv
    <3> QED
      BY <2>1, <2>3, <3>1 DEF IInv, FinishedCounts
  <2> QED
    BY <2>3, <2>6, <2>7, <2>8, <2>9, <2>10 DEF IInv
<1> QED
  BY <1>2, <1>3

-----------------------------------------------------------------------------
(* What happens beside an executor *)

(* recover_interrupted settles no row, takes none away and keeps the       *)
(* digests and the asset of each.                                          *)
LEMMA InterruptedRow ==
  ASSUME NEW row \in Row \cup {None}
  PROVE  /\ Interrupted(row) \in Row \cup {None}
         /\ Interrupted(row) = None <=> row = None
         /\ row # None => /\ Interrupted(row).sha256 = row.sha256
                          /\ Interrupted(row).asset = row.asset
                          /\ Interrupted(row).state \in Settled <=> row.state \in Settled
<1>1. CASE row = None
  BY <1>1 DEF Interrupted
<1>2. CASE row # None /\ row.state \in Open
  <2>1. /\ Interrupted(row) \in Row /\ Interrupted(row).sha256 = row.sha256
        /\ Interrupted(row).asset = row.asset /\ Interrupted(row).state = "interrupted"
    BY <1>2 DEF Interrupted, Row, Deferred
  <2> QED
    BY <1>2, <2>1, NoneAssumption DEF Settled, Open
<1>3. CASE row # None /\ row.state \notin Open
  BY <1>3 DEF Interrupted
<1> QED
  BY <1>1, <1>2, <1>3

(* A run that is closed, the others untouched.                             *)
Closes(r) ==
    /\ DOMAIN runs' = DOMAIN runs /\ runs' \in Seq(Run)
    /\ \A s \in DOMAIN runs :
          /\ runs'[s] \in Run /\ runs'[s].plan = runs[s].plan
          /\ s # r => runs'[s] = runs[s]
          /\ \A i \in Item :
                runs'[s].items[i] = IF s = r THEN Interrupted(RowAt(s, i)) ELSE RowAt(s, i)
    /\ runs'[r].counts = CountsOf(runs'[r].items)

(* What recover_interrupted makes of a run. *)
LEMMA ClosedRun ==
  ASSUME IInv, NEW p \in Process, NEW r \in DOMAIN runs, RecoverInterrupted(p, r),
         runs[r].status = "running"
  PROVE  Closes(r)
<1> DEFINE items == [i \in Item |-> Interrupted(runs[r].items[i])]
           closed == [runs[r] EXCEPT !.items = items, !.status = "finished",
                                     !.counts = CountsOf(items)]
<1>1. \A s \in DOMAIN runs : runs[s] \in Run
  BY DEF IInv, TypeOK
<1>2. items \in [Item -> Row \cup {None}]
  BY <1>1, InterruptedRow DEF Run
<1>3. CountsOf(items) \in Counts
  BY CountsType
<1>4. runs' = [runs EXCEPT ![r] = closed]
  BY <1>1 DEF RecoverInterrupted, Run
<1>5. \A i \in Item : items[i] = Interrupted(RowAt(r, i))
  BY DEF RowAt
<1> HIDE DEF items
<1>6. closed \in Run /\ closed.plan = runs[r].plan /\ closed.items = items
      /\ closed.counts = CountsOf(items)
  BY <1>1, <1>2, <1>3 DEF Run
<1> HIDE DEF closed
<1>7. /\ runs' \in Seq(Run) /\ DOMAIN runs' = DOMAIN runs
      /\ \A s \in DOMAIN runs : runs'[s] = IF s = r THEN closed ELSE runs[s]
  BY <1>4, <1>6 DEF IInv
<1> QED
  BY <1>1, <1>5, <1>6, <1>7 DEF Closes, RowAt

(* A retry closes a run that is not finished, also under its executor.     *)
LEMMA RecoverStep ==
  ASSUME IInv, NEW p \in Process, NEW r \in DOMAIN runs, RecoverInterrupted(p, r)
  PROVE  IInv'
<1>1. /\ pc[p] = "idle" /\ Goto(p, "select") /\ source' = [source EXCEPT ![p] = r]
      /\ UNCHANGED <<target, plans, linked, stored, lock, preview, run, current, counts>>
  BY DEF RecoverInterrupted
<1>2. pc'[p] = "select" /\ source'[p] = r /\ ~ Executing(p)
  BY <1>1 DEF IInv, TypeOK, Goto, Executing
<1>3. /\ DOMAIN runs' = DOMAIN runs /\ runs' \in Seq(Run)
      /\ \A s \in DOMAIN runs :
            /\ runs'[s] \in Run /\ runs'[s].plan = runs[s].plan
            /\ \A i \in Item :
                  /\ RowAt(s, i)' = None <=> RowAt(s, i) = None
                  /\ RowAt(s, i) # None =>
                        /\ RowAt(s, i)'.sha256 = RowAt(s, i).sha256
                        /\ RowAt(s, i)'.asset = RowAt(s, i).asset
                        /\ RowAt(s, i)'.state \in Settled <=> RowAt(s, i).state \in Settled
  <2>1. CASE runs[r].status = "running"
    <3>1. Closes(r)
      BY <2>1, ClosedRun
    <3>2. \A s \in DOMAIN runs, i \in Item : RowAt(s, i) \in Row \cup {None}
      BY DEF IInv, TypeOK, Run, RowAt
    <3>3. \A s \in DOMAIN runs, i \in Item :
             /\ Interrupted(RowAt(s, i)) = None <=> RowAt(s, i) = None
             /\ RowAt(s, i) # None =>
                   /\ Interrupted(RowAt(s, i)).sha256 = RowAt(s, i).sha256
                   /\ Interrupted(RowAt(s, i)).asset = RowAt(s, i).asset
                   /\ Interrupted(RowAt(s, i)).state \in Settled <=> RowAt(s, i).state \in Settled
      BY <3>2, InterruptedRow
    <3>4. \A s \in DOMAIN runs, i \in Item :
             RowAt(s, i)' = IF s = r THEN Interrupted(RowAt(s, i)) ELSE RowAt(s, i)
      BY <3>1 DEF Closes, RowAt
    <3> QED
      BY <3>1, <3>3, <3>4 DEF Closes
  <2>2. CASE runs[r].status # "running"
    BY <2>2 DEF RecoverInterrupted, IInv, TypeOK, RowAt
  <2> QED
    BY <2>1, <2>2
<1>4. /\ overtaken \subseteq overtaken' /\ overtaken' \subseteq DOMAIN runs
      /\ \A s \in DOMAIN runs :
            \/ runs'[s] = runs[s]
            \/ s \in overtaken'
            \/ runs'[s].counts = CountsOf(runs'[s].items) /\ ~ Live(s)
  <2>1. CASE runs[r].status = "running"
    <3>1. Closes(r)
      BY <2>1, ClosedRun
    <3> QED
      BY <2>1, <3>1 DEF RecoverInterrupted, Closes, IInv, TypeOK
  <2>2. CASE runs[r].status # "running"
    BY <2>2 DEF RecoverInterrupted, IInv, TypeOK
  <2> QED
    BY <2>1, <2>2
<1>5. TypeOK'
  <2>1. source' \in [Process -> (DOMAIN runs) \cup {None}]
    BY <1>1 DEF IInv, TypeOK
  <2>2. \A s \in DOMAIN runs' : runs'[s] \in Run
    BY <1>3
  <2> QED
    BY <1>1, <1>3, <1>4, <2>1, <2>2 DEF IInv, TypeOK, Goto
<1>6. ASSUME NEW q \in Process \ {p}, ~ Executing(q) PROVE ProcessInv(q)'
  <2>1. pc'[q] = pc[q] /\ source'[q] = source[q]
    BY <1>1 DEF IInv, TypeOK, Goto
  <2> QED
    BY <1>1, <1>3, <1>6, <2>1, OthersKeep
<1>7. ProcessInv(p)'
  BY <1>1, <1>2, <1>3 DEF IInv, ProcessInv, ExecutorInv, RowsInv, BytesInv, PreviewInv, PriorInv,
     CountInv, Executing, AtItem
<1>8. ASSUME NEW q \in Process \ {p}, Executing(q) PROVE ProcessInv(q)'
  <2>1. /\ pc'[q] = pc[q] /\ source'[q] = source[q] /\ ProcessInv(q) /\ run[q] \in DOMAIN runs
        /\ \A i \in Item : RowAt(run[q], i)' = None <=> RowAt(run[q], i) = None
    BY <1>1, <1>3, <1>8, Alone DEF IInv, TypeOK, Goto
  <2>2. ExecutorInv(q)' /\ PreviewInv(q)'
    BY <1>1, <1>3, <1>8, <2>1 DEF ProcessInv, ExecutorInv, PreviewInv, Executing
  <2>3. AtItem(q) => /\ current[q] \in Item /\ ItemRow(q) # None
                     /\ ItemRow(q) = runs[run[q]].items[current[q]]
                     /\ ItemRow(q)' = runs'[run[q]].items[current[q]]
    BY <1>1, ItemFacts DEF ItemRow
  <2>4. RowsInv(q)'
    <3>1. AtItem(q) => ItemRow(q)' # None
      BY <1>3, <2>1, <2>3 DEF RowAt
    <3>2. \A i \in Item : RowAt(run[q], i)' # None => current[q] # None /\ i <= current[q]
      BY <1>8, <2>1 DEF ProcessInv, RowsInv
    <3> QED
      BY <1>1, <2>1, <3>1, <3>2 DEF ProcessInv, RowsInv, AtItem, Planned, RowAt
  <2>5. BytesInv(q)'
    <3>1. AtItem(q) => ItemRow(q)'.sha256 = ItemRow(q).sha256
      BY <1>3, <2>1, <2>3 DEF RowAt
    <3>2. Wanted(q)' = Wanted(q) /\ Bytes(q)' = Bytes(q)
      BY <1>1 DEF Wanted, Bytes
    <3> QED
      BY <1>1, <2>1, <3>1, <3>2 DEF ProcessInv, BytesInv, AtItem
  <2>6. PriorInv(q)'
    <3> SUFFICES ASSUME AtItem(q), NEW row \in SiblingRows(q)'
                 PROVE  \E old \in SiblingRows(q) : /\ old.sha256 = row.sha256
                                                    /\ old.state \in Settled <=> row.state \in Settled
      BY <1>1, <2>1 DEF ProcessInv, PriorInv, AtItem, Bytes, Wanted
    <3>1. PICK s \in (DOMAIN runs) \ {run[q]} :
             /\ runs[s].plan = preview[q] /\ runs'[s].items[current[q]] # None
             /\ row = runs'[s].items[current[q]]
      BY <1>1, <1>3 DEF SiblingRows, RowAt
    <3>2. RowAt(s, current[q]) # None /\ RowAt(s, current[q]) \in SiblingRows(q)
      BY <1>3, <2>3, <3>1 DEF SiblingRows, RowAt
    <3> QED
      BY <1>3, <2>3, <3>1, <3>2 DEF RowAt
  <2>7. CountInv(q)'
    <3>1. Live(run[q])
      BY DEF Live
    <3>2. run[q] \in overtaken' \/ runs'[run[q]] = runs[run[q]]
      BY <1>4, <2>1, <3>1
    <3> QED
      BY <1>1, <1>4, <1>8, <2>1, <3>2 DEF ProcessInv, CountInv, Executing
  <2> QED
    BY <2>2, <2>4, <2>5, <2>6, <2>7 DEF ProcessInv
<1>9. StoreInv'
  <2>1. linked' \subseteq stored' /\ AssetInv' /\ SettledHasAsset'
    BY <1>1, <1>3 DEF IInv, StoreInv, AssetInv, SettledHasAsset
  <2>2. StoredHasEvidence'
    BY <1>1, <1>3 DEF IInv, StoreInv, StoredHasEvidence
  <2> QED
    BY <2>1, <2>2 DEF StoreInv
<1>10. FinishedCounts'
  BY <1>3, <1>4 DEF IInv, FinishedCounts
<1> QED
  BY <1>3, <1>5, <1>6, <1>7, <1>8, <1>9, <1>10 DEF IInv

(* An item gets another material: what is planned and stored stays.        *)
LEMMA TargetChangesStep ==
  ASSUME IInv, NEW i \in Item, NEW v \in Version, TargetChanges(i, v)
  PROVE  IInv'
<1> USE DEF TargetChanges, catalog, local
<1>1. TypeOK'
  BY DEF IInv, TypeOK
<1>2. \A q \in Process : ProcessInv(q)'
  BY DEF IInv, ProcessInv, ExecutorInv, RowsInv, BytesInv, PreviewInv, PriorInv, CountInv,
     Executing, AtItem, RowAt, ItemRow, Wanted, Bytes, SiblingRows, Planned
<1>3. StoreInv' /\ FinishedCounts'
  BY DEF IInv, StoreInv, AssetInv, SettledHasAsset, StoredHasEvidence, RowAt, FinishedCounts
<1> QED
  BY <1>1, <1>2, <1>3 DEF IInv

-----------------------------------------------------------------------------
(* The invariant *)

(* Before the first run there is nothing to report. *)
LEMMA InitIInv ==
  ASSUME Init
  PROVE  IInv
<1> USE DEF Init
<1>1. TypeOK
  BY ItemAssumption DEF TypeOK, NoCounts, Counts
<1>2. runs \in Seq(Run) /\ DOMAIN runs = {}
  OBVIOUS
<1>3. \A p \in Process : ProcessInv(p)
  BY DEF ProcessInv, ExecutorInv, RowsInv, BytesInv, PreviewInv, PriorInv, CountInv,
     Executing, AtItem
<1>4. StoreInv /\ FinishedCounts
  BY <1>2 DEF StoreInv, AssetInv, SettledHasAsset, StoredHasEvidence, FinishedCounts
<1> QED
  BY <1>1, <1>2, <1>3, <1>4 DEF IInv

(* Every step keeps the inductive invariant. *)
LEMMA NextIInv ==
  ASSUME IInv, Next
  PROVE  IInv'
<1>1. ASSUME NEW p \in Process, NEW r \in DOMAIN runs, RecoverInterrupted(p, r)
      PROVE  IInv'
  BY <1>1, RecoverStep
<1>2. ASSUME NEW p \in Process, OwnStep(p), UNCHANGED overtaken
      PROVE  IInv'
  <2>1. CASE \/ \E S \in SUBSET Item : PlanDownload(p, S)
             \/ \E nonretryable \in BOOLEAN : SelectRetry(p, nonretryable)
    BY <1>2, <2>1, PlansStep
  <2>2. CASE BeginRun(p)
    BY <1>2, <2>2, BeginRunStep
  <2>3. CASE BeginRefused(p) \/ WriteRefused(p) \/ Crash(p)
    BY <1>2, <2>3, LeaveStep DEF BeginRefused, WriteRefused, Crash
  <2>4. CASE BeginItem(p)
    BY <1>2, <2>4, BeginItemStep
  <2>5. CASE \/ ItemSatisfied(p) \/ ItemDeferred(p) \/ ItemStale(p) \/ ItemRefused(p)
             \/ ReconcileFails(p) \/ Quarantine(p) \/ PublicationFails(p) \/ CompleteItem(p)
             \/ \E state \in {"failed", "interrupted"}, retryable \in BOOLEAN :
                   TransferFails(p, state, retryable)
    BY <1>2, <2>5, SettlesStep
  <2>6. CASE ItemRunning(p) \/ RecordEvidence(p)
    BY <1>2, <2>6, OpenRowStep
  <2>7. CASE Reconcile(p) \/ MustDownload(p) \/ Downloaded(p) \/ Publish(p) \/ PersistAsset(p)
    BY <1>2, <2>7, MovesOnStep
  <2>8. CASE FinishRun(p)
    BY <1>2, <2>8, FinishRunStep
  <2> QED
    BY <1>2, <2>1, <2>2, <2>3, <2>4, <2>5, <2>6, <2>7, <2>8 DEF OwnStep
<1>3. ASSUME NEW i \in Item, NEW v \in Version, TargetChanges(i, v)
      PROVE  IInv'
  BY <1>3, TargetChangesStep
<1> QED
  BY <1>1, <1>2, <1>3 DEF Next, Step

(* A step that changes nothing keeps it as well. *)
LEMMA StutterIInv ==
  ASSUME IInv, UNCHANGED vars
  PROVE  IInv'
<1> USE DEF vars, catalog, local
<1>1. TypeOK' /\ (runs \in Seq(Run))'
  BY DEF IInv, TypeOK
<1>2. \A q \in Process : ProcessInv(q)'
  BY DEF IInv, ProcessInv, ExecutorInv, RowsInv, BytesInv, PreviewInv, PriorInv, CountInv,
     Executing, AtItem, RowAt, ItemRow, Wanted, Bytes, SiblingRows, Planned
<1>3. StoreInv' /\ FinishedCounts'
  BY DEF IInv, StoreInv, AssetInv, SettledHasAsset, StoredHasEvidence, RowAt, FinishedCounts
<1> QED
  BY <1>1, <1>2, <1>3 DEF IInv

(* The inductive invariant holds in every state of the specification.      *)
THEOREM Invariance == Spec => []IInv
<1>1. Init => IInv
  BY InitIInv
<1>2. IInv /\ [Next]_vars => IInv'
  BY NextIInv, StutterIInv
<1> QED
  BY <1>1, <1>2, PTL DEF Spec

(* The variables keep their types.                                         *)
THEOREM TypesStand == Spec => []TypeOK
<1>1. IInv => TypeOK
  BY DEF IInv
<1> QED
  BY <1>1, Invariance, PTL

(* What a run reports as complete or satisfied is stored and linked, and   *)
(* what is stored has its digests in a row, at every moment of any number  *)
(* of downloads and retries, killed wherever they are.                     *)
THEOREM StoreStandsBehindReports == Spec => []StoreAgrees
<1>1. IInv => StoreAgrees
  BY DEF IInv, StoreInv, StoreAgrees
<1> QED
  BY <1>1, Invariance, PTL

(* Bytes that an earlier run of the plan stored are not requested again.   *)
THEOREM StoredBytesAreReused == Spec => []SamePlanNeverRedownloads
<1>1. IInv => SamePlanNeverRedownloads
  BY DEF IInv, ProcessInv, PriorInv, SamePlanNeverRedownloads
<1> QED
  BY <1>1, Invariance, PTL

-----------------------------------------------------------------------------
(* Reports are final *)

(* Writing a row where there is none, or an open one, changes no report.   *)
LEMMA WriteIsFinal ==
  ASSUME IInv, NEW p \in Process, Executing(p), NEW i \in Item, NEW row, Writes(p, i, row),
         RowAt(run[p], i) # None => RowAt(run[p], i).state \in Open
  PROVE  ReportsAreFinal
<1>1. run[p] \in DOMAIN runs /\ runs \in Seq(Run) /\ \A r \in DOMAIN runs : runs[r] \in Run
  BY Alone DEF IInv, TypeOK
<1>2. runs' = [runs EXCEPT ![run[p]] = [runs[run[p]] EXCEPT !.items[i] = row]]
  BY DEF Writes
<1>3. \A r \in DOMAIN runs :
         /\ runs'[r].status = runs[r].status /\ runs'[r].counts = runs[r].counts
         /\ \A j \in Item :
               runs'[r].items[j] = IF r = run[p] /\ j = i THEN row ELSE RowAt(r, j)
  BY <1>1, <1>2 DEF Run, RowAt
<1> QED
  BY <1>3 DEF ReportsAreFinal

(* No step of an executor does: the row of the item it is at is open.      *)
LEMMA ExecutorIsFinal ==
  ASSUME IInv, NEW p \in Process, OwnStep(p)
  PROVE  ReportsAreFinal
<1>1. CASE UNCHANGED runs
  BY <1>1 DEF ReportsAreFinal, RowAt
<1>2. ASSUME NEW row, SetRow(p, row), AtItem(p), ItemRow(p).state \in Open
      PROVE  ReportsAreFinal
  <2>1. /\ Executing(p) /\ current[p] \in Item /\ RowAt(run[p], current[p]) = ItemRow(p)
    BY <1>2, ItemFacts
  <2>2. Writes(p, current[p], row)
    BY <1>2 DEF SetRow, Writes
  <2> QED
    BY <1>2, <2>1, <2>2, WriteIsFinal
<1>3. ASSUME NEW row, SettleRow(p, row), AtItem(p)
      PROVE  ReportsAreFinal
  BY <1>2, <1>3 DEF SettleRow
<1>4. CASE BeginItem(p)
  <2> DEFINE i == Min(Remaining(p))
  <2>1. Executing(p) /\ i \in Item /\ RowAt(run[p], i) = None
    BY <1>4, NextItem
  <2>2. Writes(p, i, PendingRow)
    BY <1>4 DEF BeginItem, Writes
  <2> QED
    BY <2>1, <2>2, WriteIsFinal
<1>5. CASE BeginRun(p)
  <2>1. \A r \in DOMAIN runs : runs'[r] = runs[r]
    BY <1>5 DEF BeginRun, IInv
  <2> QED
    BY <2>1 DEF ReportsAreFinal, RowAt
<1>6. CASE FinishRun(p)
  <2>1. CASE runs[run[p]].status # "running"
    BY <1>1, <1>6, <2>1 DEF FinishRun
  <2>2. CASE runs[run[p]].status = "running"
    <3>1. Executing(p) /\ run[p] \in DOMAIN runs /\ \A r \in DOMAIN runs : runs[r] \in Run
      BY <1>6, Alone DEF FinishRun, Executing, IInv, TypeOK
    <3>2. \A r \in DOMAIN runs : /\ runs'[r].items = runs[r].items
                                 /\ r # run[p] => runs'[r] = runs[r]
      BY <1>6, <2>2, <3>1 DEF FinishRun, Run
    <3> QED
      BY <2>2, <3>2 DEF ReportsAreFinal, RowAt
  <2> QED
    BY <2>1, <2>2
<1>7. CASE \/ ItemSatisfied(p) \/ ItemDeferred(p) \/ ItemStale(p) \/ ItemRefused(p)
           \/ ReconcileFails(p) \/ Quarantine(p) \/ PublicationFails(p) \/ CompleteItem(p)
           \/ \E state \in {"failed", "interrupted"}, retryable \in BOOLEAN :
                 TransferFails(p, state, retryable)
  BY <1>3, <1>7 DEF ItemSatisfied, ItemDeferred, ItemStale, ItemRefused, ReconcileFails,
     Quarantine, PublicationFails, CompleteItem, TransferFails, Settle, AtItem
<1>8. CASE ItemRunning(p) \/ RecordEvidence(p)
  BY <1>2, <1>8 DEF ItemRunning, RecordEvidence, AtItem
<1> QED
  BY <1>1, <1>4, <1>5, <1>6, <1>7, <1>8 DEF OwnStep, PlanDownload, SelectRetry, BeginRefused,
     Reconcile, MustDownload, Downloaded, Publish, PersistAsset, WriteRefused, Crash, catalog

(* A recovery closes open rows only, of a run that is not finished.        *)
LEMMA RecoveryIsFinal ==
  ASSUME IInv, NEW p \in Process, NEW r \in DOMAIN runs, RecoverInterrupted(p, r)
  PROVE  ReportsAreFinal
<1>1. CASE runs[r].status # "running"
  BY <1>1 DEF RecoverInterrupted, ReportsAreFinal, RowAt
<1>2. CASE runs[r].status = "running"
  <2>1. Closes(r)
    BY <1>2, ClosedRun
  <2> QED
    BY <1>2, <2>1 DEF Closes, ReportsAreFinal, Interrupted, RowAt
<1> QED
  BY <1>1, <1>2

(* A report is true when it is given, the counts those of its rows, and    *)
(* stays as it was given: a retry that closes a run under its executor     *)
(* changes no row the executor has settled, and the executor none of what  *)
(* the retry has reported.                                                 *)
THEOREM ReportsStand == Spec => ReportStands
<1>1. IInv /\ IInv' /\ [Next]_vars => [FinishedCounts' /\ ReportsAreFinal]_vars
  <2> SUFFICES ASSUME IInv, IInv', Next PROVE FinishedCounts' /\ ReportsAreFinal
    OBVIOUS
  <2>1. FinishedCounts'
    BY DEF IInv
  <2>2. ASSUME NEW i \in Item, NEW v \in Version, TargetChanges(i, v) PROVE ReportsAreFinal
    BY <2>2 DEF TargetChanges, catalog, ReportsAreFinal, RowAt
  <2> QED
    BY <2>1, <2>2, ExecutorIsFinal, RecoveryIsFinal DEF Next, Step
<1> QED
  BY <1>1, Invariance, PTL DEF Spec, ReportStands

=============================================================================
