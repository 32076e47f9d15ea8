---------------------------- MODULE StorageProofs ----------------------------
(***************************************************************************)
(* Proofs about StorageAdoption and StorageVerification for any adopters,  *)
(* source rows, contents, limits and numbers of runs and faults.           *)
(*                                                                         *)
(* What makes the catalog true is that the lock's holder is alone, so that *)
(* what it has established of its item stands until its transaction        *)
(* (WorkStands), and that its plan, though older, compares with digests    *)
(* that are never taken back (PlanStands).  What makes a report true that  *)
(* is made without the lock is that adopters never replace a file: one     *)
(* that has a location changes only by harm (FileStays).                   *)
(***************************************************************************)
EXTENDS StorageVerification, FiniteSetTheorems, TLAPS

(* The states of an adopter, of a run, and of a file. *)
Label == {"idle", "planned", "item", "hash", "reopen", "stage", "inspect", "publish",
          "commit", "fail"}
RunStatus == {"running", "complete", "partial", "failed"}
State == {None, "whole", "damaged"}

Adoption == [pc : Label, plan : Seq(Item), since : SUBSET Occurrence, run : Nat, next : Nat,
             completed : Nat, failed : Nat, bytes : Content \cup {None}, touched : BOOLEAN,
             outcome : Outcomes \cup {None, "capability_unavailable"}]
RunRow == [status : RunStatus, planned : Nat, items : Seq(Outcomes), completed : Nat,
           failed : Nat]

(* How many items of a run succeeded. *)
Good(items) == Cardinality({i \in DOMAIN items : items[i] \in Successes})

(* The planned digest of an item is the declared one, or one that an       *)
(* occurrence had an asset with when it was planned.                       *)
PlanStands(plan, since, links) ==
    \A i \in DOMAIN plan :
        LET o == SourceRows[plan[i].row].occurrence
        IN  /\ Declared[o] # None => plan[i].legacy = Declared[o]
            /\ o \in since => plan[i].legacy # None /\ <<o, plan[i].legacy>> \in links

(* What an adopter has established of the item it is at. *)
WorkStands(m, root, hurt) ==
    /\ m.next \in 1..Len(m.plan) + 1
    /\ m.pc # "item" => m.next <= Len(m.plan)
    /\ m.pc \in {"hash", "stage", "inspect", "publish", "commit"} => m.bytes \in Content
    /\ m.pc \in {"inspect", "publish", "commit"} => m.plan[m.next].legacy \in {None, m.bytes}
    /\ m.pc = "commit" => m.outcome \in Successes /\ (root[m.bytes] = "whole" \/ m.bytes \in hurt)

(* Its counts are those of the items in the row of its run. *)
Accounts(m, row) ==
    /\ row.status = "running" /\ row.planned = Len(m.plan)
    /\ Len(row.items) = m.next - 1
    /\ m.completed = Good(row.items) /\ m.completed + m.failed = m.next - 1

(* What a row that is no longer running reports. *)
RunStands(row) ==
    /\ row.status # "running" => row.completed = Good(row.items)
    /\ row.status \in {"complete", "partial"} =>
          /\ Len(row.items) = row.planned
          /\ row.failed = Len(row.items) - Good(row.items)
          /\ (row.status = "complete") <=> (Good(row.items) = row.planned)
    /\ row.status = "failed" => row.failed > 0

(* Types, and assets that are all different. *)
ShapeInv ==
    /\ file \in [Path -> Content \cup {None, Link}] /\ cas \in [Content -> State]
    /\ residue \in Nat /\ changes \in 0..MaxChanges
    /\ assets \in Seq(Content) /\ IsInjective(assets)
    /\ linked \subseteq Occurrence \X Content
    /\ location \subseteq Content /\ harmed \subseteq Content
    /\ runs \in Seq(RunRow)
    /\ owner \in Adopter \cup {None}
    /\ me \in [Adopter -> Adoption]

(* Who is at work holds the lock. *)
AdopterStands(m, held, links, root, hurt, rows) ==
    /\ m.pc \notin {"idle", "planned"} <=> held
    /\ m.pc = "planned" => m.next = 1 /\ m.completed = 0 /\ m.failed = 0
    /\ m.pc # "idle" => PlanStands(m.plan, m.since, links)
    /\ held => /\ m.run \in DOMAIN rows
               /\ WorkStands(m, root, hurt)
               /\ Accounts(m, rows[m.run])

OwnInv == \A p \in Adopter : AdopterStands(me[p], owner = p, linked, cas, harmed, runs)

(* What the catalog says of the managed root. *)
CatalogInv == LocationVerified /\ AssetsAgree

AdoptionInv == ShapeInv /\ OwnInv /\ CatalogInv /\ \A r \in DOMAIN runs : RunStands(runs[r])

(* A location was looked at; a content is mentioned at all. *)
Located(b, findings) ==
    \E s \in {"valid", "missing", "corrupt"} : <<s, b>> \in findings

Named(findings) == {f[2] : f \in findings}

(* The states of a verification. *)
Status == {"valid", "missing", "corrupt", "orphaned", "unsafe", "stale_staging"}
Verification ==
    [pc : {"idle", "rows", "tree", "walk", "staging", "done"}, rows : SUBSET Content,
     todo : SUBSET Content, reading : Content \cup {None}, stirred : BOOLEAN,
     limit : Nat, examined : Nat, findings : SUBSET (Status \X (Content \cup {None})),
     bad : SUBSET Content, kept : SUBSET Content, relinked : SUBSET Content]

(* What the pass has established, and what it still has to look at. *)
PassStands(w, root, locs, hurt) ==
    /\ w.examined <= w.limit
    /\ w.pc = "rows" => w.examined < w.limit /\ w.todo \subseteq w.rows
    /\ w.reading # None => w.pc = "rows" /\ w.reading \in w.todo
    /\ w.rows \subseteq locs
    /\ w.stirred => w.reading \in hurt \cup w.relinked
    /\ w.bad \subseteq {b \in Content : root[b] # "whole"}
    /\ w.kept \subseteq {b \in Content : root[b] # None}

(* Every finding has its cause. *)
FindingsStand(w, hurt) ==
    \A b \in Content :
        /\ <<"missing", b>> \in w.findings => b \in hurt
        /\ <<"corrupt", b>> \in w.findings => b \in hurt \cup Unverifiable \cup w.relinked
        /\ <<"valid", b>> \in w.findings => b \notin w.bad
        /\ <<"orphaned", b>> \in w.findings => b \notin w.rows

(* Nothing is passed over, unless the limit is reported. *)
Exhaustive(w) ==
    /\ w.pc = "rows" => \A b \in w.rows \ w.todo : Located(b, w.findings)
    /\ w.pc \in {"walk", "staging", "done"} /\ Limit \notin w.findings =>
          \A b \in w.rows : Located(b, w.findings)
    /\ w.pc = "walk" /\ Limit \notin w.findings => w.kept \subseteq w.todo \cup Named(w.findings)
    /\ w.pc \in {"staging", "done"} /\ Limit \notin w.findings =>
          w.kept \subseteq Named(w.findings)

(* A file has a directory. *)
DirsInv == dirs \subseteq Content /\ \A b \in Content : cas[b] # None => b \in dirs

(* What the invariant says of the verification. *)
PassInv ==
    v \in Verification /\ PassStands(v, cas, location, harmed) /\ FindingsStand(v, harmed)
    /\ Exhaustive(v)

Inv == AdoptionInv /\ DirsInv /\ PassInv

-----------------------------------------------------------------------------
(* Sets of positions, and items *)

(* The positions of S before i. *)
Below(S, i) == {j \in S : j < i}

(* The ranks of a set of positions are in their order. *)
LEMMA BelowOrders ==
  ASSUME NEW n \in Nat, NEW S \in SUBSET (1..n)
  PROVE  /\ IsFiniteSet(S) /\ Cardinality(S) \in Nat
         /\ \A i \in S : /\ Cardinality(Below(S, i)) \in Nat
                         /\ Cardinality(Below(S, i)) \in 0..Cardinality(S) - 1
         /\ \A i, j \in S : i < j => Cardinality(Below(S, i)) < Cardinality(Below(S, j))
<1>1. IsFiniteSet(1..n)
  BY FS_Interval
<1>2. \A T \in SUBSET (1..n) : IsFiniteSet(T) /\ Cardinality(T) \in Nat
  BY <1>1, FS_Subset, FS_CardinalityType
<1>3. ASSUME NEW T \in SUBSET (1..n), NEW U \in SUBSET T, T # U
      PROVE  Cardinality(U) < Cardinality(T)
  <2>1. U \in SUBSET (1..n)
    OBVIOUS
  <2>2. Cardinality(U) <= Cardinality(T) /\ (Cardinality(T) = Cardinality(U) => T = U)
    BY <1>2, FS_Subset
  <2> QED
    BY <1>2, <1>3, <2>1, <2>2
<1>4. ASSUME NEW i \in S
      PROVE  /\ Cardinality(Below(S, i)) \in Nat
             /\ Cardinality(Below(S, i)) \in 0..Cardinality(S) - 1
  <2>1. Below(S, i) \in SUBSET S /\ S # Below(S, i)
    BY DEF Below
  <2>2. Cardinality(Below(S, i)) < Cardinality(S)
    BY <1>3, <2>1
  <2>3. Cardinality(Below(S, i)) \in Nat /\ Cardinality(S) \in Nat
    BY <1>2, <2>1
  <2> QED
    BY <2>2, <2>3
<1>5. ASSUME NEW i \in S, NEW j \in S, i < j
      PROVE  Cardinality(Below(S, i)) < Cardinality(Below(S, j))
  <2>1. i \in Below(S, j) /\ i \notin Below(S, i)
    BY <1>5 DEF Below
  <2>2. \A x \in S : x < i => x < j
    BY <1>5
  <2>3. Below(S, i) \in SUBSET Below(S, j) /\ Below(S, j) \in SUBSET (1..n)
    BY <2>2 DEF Below
  <2> QED
    BY <1>3, <2>1, <2>3
<1> QED
  BY <1>2, <1>4, <1>5

(* Every rank is taken. *)
LEMMA EveryRank ==
  ASSUME NEW n \in Nat, NEW S \in SUBSET (1..n), NEW k \in 0..Cardinality(S) - 1
  PROVE  \E i \in S : Cardinality(Below(S, i)) = k
<1> DEFINE f == [i \in S |-> Cardinality(Below(S, i))]
           T == 0..Cardinality(S) - 1
<1>1. Cardinality(S) \in Nat /\ IsFiniteSet(S)
  BY BelowOrders
<1>2. IsFiniteSet(T) /\ Cardinality(T) = Cardinality(S)
  BY <1>1, FS_Interval
<1>3. f \in Injection(S, T)
  <2>1. f \in [S -> T]
    BY BelowOrders
  <2>2. \A i, j \in S : i # j => i < j \/ j < i
    OBVIOUS
  <2>3. \A i, j \in S : f[i] = f[j] => i = j
    <3>1. ASSUME NEW i \in S, NEW j \in S, i < j
          PROVE  f[i] # f[j]
      <4>1. /\ Cardinality(Below(S, i)) \in Nat /\ Cardinality(Below(S, j)) \in Nat
            /\ Cardinality(Below(S, i)) < Cardinality(Below(S, j))
        BY <3>1, BelowOrders
      <4> QED
        BY <4>1
    <3> HIDE DEF f
    <3> QED
      BY <2>2, <3>1
  <2> QED
    BY <2>1, <2>3 DEF Injection, IsInjective
<1>4. f \in Surjection(S, T)
  BY <1>2, <1>3, FS_Injection
<1>5. PICK i \in S : f[i] = k
  BY <1>4 DEF Surjection
<1> QED
  BY <1>5

(* So one of them is the first. *)
LEMMA MinIsElement ==
  ASSUME NEW n \in Nat, NEW S \in SUBSET (1..n), S # {}
  PROVE  Min(S) \in S
<1>1. Cardinality(S) \in Nat /\ Cardinality(S) # 0
  BY BelowOrders, FS_EmptySet
<1>2. PICK m \in S : Cardinality(Below(S, m)) = 0
  <2>1. 0 \in 0..Cardinality(S) - 1
    BY <1>1
  <2> QED
    BY <2>1, EveryRank
<1>3. \A i \in S : m <= i
  <2>1. ASSUME NEW i \in S, i < m
        PROVE  FALSE
    <3>1. Cardinality(Below(S, i)) < Cardinality(Below(S, m))
      BY <2>1, BelowOrders
    <3>2. Cardinality(Below(S, i)) \in Nat
      BY BelowOrders
    <3> QED
      BY <1>2, <3>1, <3>2
  <2> QED
    BY <2>1
<1> QED
  BY <1>3 DEF Min

(* No more items succeed than there are. *)
LEMMA GoodCounts ==
  ASSUME NEW items \in Seq(Outcomes)
  PROVE  Good(items) \in Nat /\ Good(items) <= Len(items)
<1> DEFINE S == {i \in DOMAIN items : items[i] \in Successes}
<1>1. S \in SUBSET (1..Len(items))
  OBVIOUS
<1>2. IsFiniteSet(1..Len(items)) /\ Cardinality(1..Len(items)) = Len(items)
  <2>1. Len(items) \in Nat
    OBVIOUS
  <2> QED
    BY <2>1, FS_Interval
<1>3. Cardinality(S) \in Nat /\ Cardinality(S) <= Len(items)
  BY <1>1, <1>2, FS_Subset, FS_CardinalityType
<1> QED
  BY <1>3 DEF Good

(* One more item changes their number by what its outcome is. *)
LEMMA GoodAppend ==
  ASSUME NEW items \in Seq(Outcomes), NEW outcome \in Outcomes
  PROVE  Good(Append(items, outcome)) =
           Good(items) + (IF outcome \in Successes THEN 1 ELSE 0)
<1> DEFINE more == Append(items, outcome)
           S == {i \in DOMAIN items : items[i] \in Successes}
           T == {i \in DOMAIN more : more[i] \in Successes}
<1>1. /\ more \in Seq(Outcomes) /\ Len(more) = Len(items) + 1 /\ Len(items) \in Nat
      /\ more[Len(items) + 1] = outcome
      /\ \A i \in 1..Len(items) : more[i] = items[i]
  OBVIOUS
<1>2. DOMAIN more = 1..Len(items) + 1 /\ DOMAIN items = 1..Len(items)
  BY <1>1
<1>3. \A i : i \in T <=> i \in S \/ (i = Len(items) + 1 /\ outcome \in Successes)
  BY <1>1, <1>2
<1>4. IsFiniteSet(S) /\ Len(items) + 1 \notin S
  <2>1. S \in SUBSET (1..Len(items)) /\ IsFiniteSet(1..Len(items))
    BY FS_Interval
  <2> QED
    BY <2>1, FS_Subset
<1> HIDE DEF S, T, more
<1>5. CASE outcome \in Successes
  <2>1. T = S \cup {Len(items) + 1}
    BY <1>3, <1>5
  <2>2. Cardinality(T) = Cardinality(S) + 1
    BY <1>4, <2>1, FS_AddElement
  <2> QED
    BY <1>5, <2>2 DEF Good, S, T, more
<1>6. CASE outcome \notin Successes
  <2>1. T = S
    BY <1>3, <1>6
  <2>2. Cardinality(S) \in Nat /\ Cardinality(T) = Cardinality(S) + 0
    BY <1>4, <2>1, FS_CardinalityType
  <2> QED
    BY <1>6, <2>2 DEF Good, S, T, more
<1> QED
  BY <1>5, <1>6

-----------------------------------------------------------------------------
(* The records of adopters and runs *)

(* The points at which an adopter holds the lock. *)
Working == Label \ {"idle", "planned"}

(* The fields of an adopter's state. *)
LEMMA AdoptionFields ==
  ASSUME NEW m \in Adoption
  PROVE  /\ m.pc \in Label /\ m.plan \in Seq(Item) /\ m.since \in SUBSET Occurrence
         /\ m.run \in Nat /\ m.next \in Nat /\ m.completed \in Nat /\ m.failed \in Nat
         /\ m.bytes \in Content \cup {None}
         /\ m.outcome \in Outcomes \cup {None, "capability_unavailable"}
         /\ Len(m.plan) \in Nat
BY DEF Adoption

(* The fields of a row of adoption_runs. *)
LEMMA RowFields ==
  ASSUME NEW row \in RunRow
  PROVE  /\ row.status \in RunStatus /\ row.items \in Seq(Outcomes) /\ row.planned \in Nat
         /\ row.completed \in Nat /\ row.failed \in Nat /\ Len(row.items) \in Nat
BY DEF RunRow

(* An adopter at rest is one of its states. *)
LEMMA IdleIsAdoption == Idle \in Adoption /\ Idle.pc = "idle"
<1>1. <<>> \in Seq(Item) /\ {} \in SUBSET Occurrence
  OBVIOUS
<1> QED
  BY <1>1 DEF Idle, Adoption, Label

(* One row of a table is replaced. *)
LEMMA Replaced ==
  ASSUME NEW R, NEW rows \in Seq(R), NEW k \in DOMAIN rows, NEW row \in R, NEW rows2,
         rows2 = [rows EXCEPT ![k] = row]
  PROVE  /\ rows2 \in Seq(R) /\ DOMAIN rows2 = DOMAIN rows /\ rows2[k] = row
         /\ \A i \in DOMAIN rows : i # k => rows2[i] = rows[i]
OBVIOUS

-----------------------------------------------------------------------------
(* Who works is alone *)

(* Somebody without the lock does not care what happens to runs and files, *)
(* as long as no link of the catalog goes away.                            *)
LEMMA RestStands ==
  ASSUME NEW m, NEW links, NEW root, NEW hurt, NEW rows,
         NEW links2, NEW root2, NEW hurt2, NEW rows2,
         AdopterStands(m, FALSE, links, root, hurt, rows), links \subseteq links2
  PROVE  AdopterStands(m, FALSE, links2, root2, hurt2, rows2)
<1>1. m.pc # "idle" => PlanStands(m.plan, m.since, links)
  BY DEF AdopterStands
<1>2. m.pc # "idle" => PlanStands(m.plan, m.since, links2)
  BY <1>1 DEF PlanStands
<1> QED
  BY <1>2 DEF AdopterStands

(* The lock's holder keeps it and does its work. *)
LEMMA HolderMoves ==
  ASSUME ShapeInv, OwnInv, NEW p \in Adopter, owner = p, owner' = p,
         NEW m \in Adoption, me' = [me EXCEPT ![p] = m], linked \subseteq linked',
         AdopterStands(m, TRUE, linked', cas', harmed', runs')
  PROVE  OwnInv' /\ me' \in [Adopter -> Adoption]
<1>1. me \in [Adopter -> Adoption]
  BY DEF ShapeInv
<1>2. ASSUME NEW q \in Adopter
      PROVE  AdopterStands(me'[q], owner' = q, linked', cas', harmed', runs')
  <2>1. CASE q = p
    <3>1. me'[q] = m /\ (owner' = q) = TRUE
      BY <1>1, <2>1
    <3> QED
      BY <3>1
  <2>2. CASE q # p
    <3>1. me'[q] = me[q] /\ (owner' = q) = FALSE /\ (owner = q) = FALSE
      BY <1>1, <2>2
    <3>2. AdopterStands(me[q], FALSE, linked, cas, harmed, runs)
      BY <3>1 DEF OwnInv
    <3>3. AdopterStands(me[q], FALSE, linked', cas', harmed', runs')
      BY <3>2, RestStands
    <3> QED
      BY <3>1, <3>3
  <2> QED
    BY <2>1, <2>2
<1>3. me' \in [Adopter -> Adoption]
  BY <1>1
<1> QED
  BY <1>2, <1>3 DEF OwnInv

(* The lock's holder ends. *)
LEMMA HolderLeaves ==
  ASSUME ShapeInv, OwnInv, NEW p \in Adopter, owner = p, owner' = None,
         me' = [me EXCEPT ![p] = Idle], linked \subseteq linked'
  PROVE  OwnInv' /\ me' \in [Adopter -> Adoption]
<1>1. me \in [Adopter -> Adoption] /\ Idle \in Adoption /\ Idle.pc = "idle"
  BY IdleIsAdoption DEF ShapeInv
<1>2. ASSUME NEW q \in Adopter
      PROVE  AdopterStands(me'[q], owner' = q, linked', cas', harmed', runs')
  <2>0. (owner' = q) = FALSE
    BY AdoptionAssumption
  <2>1. CASE q = p
    <3>1. me'[q] = Idle
      BY <1>1, <2>1
    <3>2. AdopterStands(Idle, FALSE, linked', cas', harmed', runs')
      BY <1>1 DEF AdopterStands
    <3> QED
      BY <2>0, <3>1, <3>2
  <2>2. CASE q # p
    <3>1. me'[q] = me[q] /\ (owner = q) = FALSE
      BY <1>1, <2>2
    <3>2. AdopterStands(me[q], FALSE, linked, cas, harmed, runs)
      BY <3>1 DEF OwnInv
    <3>3. AdopterStands(me[q], FALSE, linked', cas', harmed', runs')
      BY <3>2, RestStands
    <3> QED
      BY <2>0, <3>1, <3>3
  <2> QED
    BY <2>1, <2>2
<1>3. me' \in [Adopter -> Adoption]
  BY <1>1
<1> QED
  BY <1>2, <1>3 DEF OwnInv

(* What the lock's holder is known to have done. *)
LEMMA HolderFacts ==
  ASSUME ShapeInv, OwnInv, NEW p \in Adopter, me[p].pc \in Working
  PROVE  /\ owner = p /\ me[p] \in Adoption /\ Current(p) = me[p].plan[me[p].next]
         /\ PlanStands(me[p].plan, me[p].since, linked)
         /\ me[p].run \in DOMAIN runs /\ runs[me[p].run] \in RunRow
         /\ WorkStands(me[p], cas, harmed) /\ Accounts(me[p], runs[me[p].run])
<1>1. AdopterStands(me[p], owner = p, linked, cas, harmed, runs) /\ me[p] \in Adoption
  BY DEF ShapeInv, OwnInv
<1>2. me[p].pc \notin {"idle", "planned"}
  BY DEF Working
<1>3. (owner = p) = TRUE
  BY <1>1, <1>2 DEF AdopterStands
<1>4. AdopterStands(me[p], TRUE, linked, cas, harmed, runs)
  BY <1>1, <1>3
<1> QED
  BY <1>1, <1>2, <1>3, <1>4 DEF AdopterStands, Current, ShapeInv

-----------------------------------------------------------------------------
(* Steps within an item, the ends of items, and the ends of runs *)

(* It is at the same item of the same plan and run. *)
SameItem(m, old) ==
    /\ m.plan = old.plan /\ m.since = old.since /\ m.run = old.run /\ m.next = old.next
    /\ m.completed = old.completed /\ m.failed = old.failed

(* Every whole file is still there and whole. *)
Unharmed(root, root2) ==
    root2 \in [Content -> State] /\ \A b \in Content : root[b] = "whole" => root2[b] = "whole"

(* A step within an item that leaves the catalog alone and harms no file.  *)
LEMMA ItemMoves ==
  ASSUME AdoptionInv, NEW p \in Adopter, me[p].pc \in Working,
         NEW m \in Adoption, me' = [me EXCEPT ![p] = m],
         SameItem(m, me[p]), m.pc \in Working, WorkStands(m, cas', harmed),
         Unharmed(cas, cas'), UNCHANGED <<file, catalog, owner, harmed>>,
         residue' \in Nat, changes' \in 0..MaxChanges
  PROVE  AdoptionInv'
<1>1. ShapeInv /\ OwnInv /\ CatalogInv /\ \A r \in DOMAIN runs : RunStands(runs[r])
  BY DEF AdoptionInv
<1>2. /\ owner = p /\ PlanStands(me[p].plan, me[p].since, linked)
      /\ me[p].run \in DOMAIN runs /\ Accounts(me[p], runs[me[p].run])
  BY <1>1, HolderFacts
<1>3. UNCHANGED <<file, assets, linked, location, runs, owner, harmed>>
  BY DEF catalog
<1>4. PlanStands(m.plan, m.since, linked) /\ Accounts(m, runs[m.run]) /\ m.run \in DOMAIN runs
  BY <1>2 DEF SameItem, Accounts
<1>5. AdopterStands(m, TRUE, linked', cas', harmed', runs')
  BY <1>3, <1>4 DEF AdopterStands, Working
<1>6. OwnInv' /\ me' \in [Adopter -> Adoption]
  BY <1>1, <1>2, <1>3, <1>5, HolderMoves
<1>7. ShapeInv'
  BY <1>1, <1>3, <1>6 DEF ShapeInv, Unharmed
<1>8. CatalogInv'
  <2>1. location \subseteq Content
    BY <1>1 DEF ShapeInv
  <2> QED
    BY <1>1, <1>3, <2>1 DEF CatalogInv, LocationVerified, AssetsAgree, Unharmed
<1>9. (\A r \in DOMAIN runs : RunStands(runs[r]))'
  BY <1>1, <1>3
<1> QED
  BY <1>6, <1>7, <1>8, <1>9 DEF AdoptionInv

(* The error of an item leaves everything else as it is. *)
LEMMA FailingMoves ==
  ASSUME AdoptionInv, NEW p \in Adopter, me[p].pc \in Working,
         me[p].next <= Len(me[p].plan),
         NEW outcome \in Outcomes \cup {"capability_unavailable"}, Failing(p, outcome),
         UNCHANGED <<file, cas, catalog, owner, harmed>>,
         residue' \in Nat, changes' \in 0..MaxChanges
  PROVE  AdoptionInv'
<1> DEFINE m == [me[p] EXCEPT !.pc = "fail", !.outcome = outcome]
<1>1. ShapeInv /\ OwnInv
  BY DEF AdoptionInv
<1>2. me[p] \in Adoption /\ WorkStands(me[p], cas, harmed) /\ cas \in [Content -> State]
  BY <1>1, HolderFacts DEF ShapeInv
<1>3. m \in Adoption /\ SameItem(m, me[p]) /\ m.pc = "fail"
  BY <1>2 DEF Adoption, Label, SameItem
<1>4. me' = [me EXCEPT ![p] = m]
  BY DEF Failing, Set
<1> HIDE DEF m
<1>5. WorkStands(m, cas', harmed)
  BY <1>2, <1>3 DEF WorkStands, SameItem
<1>6. m.pc \in Working /\ Unharmed(cas, cas')
  BY <1>2, <1>3 DEF Working, Label, Unharmed
<1> QED
  BY <1>3, <1>4, <1>5, <1>6, ItemMoves

(* The transaction of an item: whatever it enters into the catalog, the    *)
(* item is counted once, in the row and by the adopter.                    *)
LEMMA ItemDoneKeeps ==
  ASSUME AdoptionInv, NEW p \in Adopter, me[p].pc \in Working,
         me[p].next <= Len(me[p].plan), NEW outcome \in Outcomes, ItemDone(p, outcome),
         UNCHANGED <<file, cas, residue, owner, changes, harmed>>,
         assets' \in Seq(Content), IsInjective(assets'), location' \subseteq Content,
         linked' \subseteq Occurrence \X Content, linked \subseteq linked', CatalogInv'
  PROVE  AdoptionInv'
<1> DEFINE done == IF outcome \in Successes THEN 1 ELSE 0
           k == me[p].run
           items == runs[k].items
           row == [runs[k] EXCEPT !.items = Append(items, outcome)]
           m == [me[p] EXCEPT !.pc = "item", !.next = me[p].next + 1,
                              !.completed = me[p].completed + done,
                              !.failed = me[p].failed + 1 - done,
                              !.bytes = None, !.touched = FALSE, !.outcome = None]
<1>1. ShapeInv /\ OwnInv /\ \A r \in DOMAIN runs : RunStands(runs[r])
  BY DEF AdoptionInv
<1>2. /\ owner = p /\ me[p] \in Adoption /\ PlanStands(me[p].plan, me[p].since, linked)
      /\ k \in DOMAIN runs /\ runs[k] \in RunRow
      /\ WorkStands(me[p], cas, harmed) /\ Accounts(me[p], runs[k])
  BY <1>1, HolderFacts
<1>3. me' = [me EXCEPT ![p] = m]
  BY DEF ItemDone, Set
<1>4. runs' = [runs EXCEPT ![k] = row]
  BY DEF ItemDone
<1>5. /\ me[p].next \in Nat /\ me[p].completed \in Nat /\ me[p].failed \in Nat
      /\ items \in Seq(Outcomes) /\ Len(items) \in Nat /\ me[p].next >= 1
      /\ Len(me[p].plan) \in Nat
  <2>1. me[p].next \in 1..Len(me[p].plan) + 1
    BY <1>2 DEF WorkStands
  <2> QED
    BY <1>2, <2>1, AdoptionFields, RowFields
<1>6. done \in {0, 1}
  OBVIOUS
<1>7. /\ row \in RunRow /\ row.status = runs[k].status /\ row.planned = runs[k].planned
      /\ row.items = Append(items, outcome) /\ Append(items, outcome) \in Seq(Outcomes)
  <2>1. Append(items, outcome) \in Seq(Outcomes)
    BY <1>5
  <2>2. row \in RunRow
    BY <1>2, <2>1 DEF RunRow
  <2> QED
    BY <1>2, <2>1, <2>2 DEF RunRow
<1>8. /\ m.pc = "item" /\ m.plan = me[p].plan /\ m.since = me[p].since /\ m.run = k
      /\ m.next = me[p].next + 1 /\ m.completed = me[p].completed + done
      /\ m.failed = me[p].failed + 1 - done
  BY <1>2 DEF Adoption
<1>9. m \in Adoption
  <2>1. me[p].next + 1 \in Nat /\ me[p].completed + done \in Nat
        /\ me[p].failed + 1 - done \in Nat
    BY <1>5, <1>6
  <2> QED
    BY <1>2, <2>1 DEF Adoption, Label
<1>10. /\ Good(row.items) = Good(items) + done /\ Good(items) \in Nat
       /\ Len(row.items) = Len(items) + 1
  BY <1>5, <1>7, GoodAppend, GoodCounts
<1> HIDE DEF m, row, done
<1>11. /\ runs' \in Seq(RunRow) /\ DOMAIN runs' = DOMAIN runs /\ runs'[k] = row
       /\ \A r \in DOMAIN runs : r # k => runs'[r] = runs[r]
  <2>1. runs \in Seq(RunRow)
    BY <1>1 DEF ShapeInv
  <2> QED
    BY <1>2, <1>4, <1>7, <2>1, Replaced
<1>12. Accounts(m, row)
  <2>1. /\ runs[k].status = "running" /\ runs[k].planned = Len(me[p].plan)
        /\ Len(items) = me[p].next - 1 /\ me[p].completed = Good(items)
        /\ me[p].completed + me[p].failed = me[p].next - 1
    BY <1>2 DEF Accounts
  <2>2. row.status = "running" /\ row.planned = Len(m.plan)
    BY <2>1, <1>7, <1>8
  <2>3. Len(row.items) = m.next - 1
    BY <2>1, <1>5, <1>8, <1>10
  <2>4. m.completed = Good(row.items)
    BY <2>1, <1>8, <1>10
  <2>5. m.completed + m.failed = m.next - 1
    <3>1. \A a, b, c \in Nat, d \in {0, 1} : a + b = c - 1 => (a + d) + (b + 1 - d) = (c + 1) - 1
      OBVIOUS
    <3>2. (me[p].completed + done) + (me[p].failed + 1 - done) = (me[p].next + 1) - 1
      <4>1. /\ me[p].completed \in Nat /\ me[p].failed \in Nat /\ me[p].next \in Nat
            /\ done \in {0, 1} /\ me[p].completed + me[p].failed = me[p].next - 1
        BY <1>5, <1>6, <2>1
      <4> HIDE <2>1, <1>5, <1>6
      <4> QED
        BY <4>1, <3>1, Zenon
    <3> QED
      BY <1>8, <3>2
  <2> QED
    BY <2>2, <2>3, <2>4, <2>5 DEF Accounts
<1>13. WorkStands(m, cas', harmed')
  <2>1. m.next \in 1..Len(m.plan) + 1
    BY <1>5, <1>8
  <2> QED
    BY <1>8, <2>1 DEF WorkStands
<1>14. PlanStands(m.plan, m.since, linked')
  BY <1>2, <1>8 DEF PlanStands
<1>15. AdopterStands(m, TRUE, linked', cas', harmed', runs')
  BY <1>2, <1>8, <1>11, <1>12, <1>13, <1>14 DEF AdopterStands
<1>16. OwnInv' /\ me' \in [Adopter -> Adoption]
  BY <1>1, <1>2, <1>3, <1>9, <1>15, HolderMoves
<1>17. (\A r \in DOMAIN runs : RunStands(runs[r]))'
  <2>1. row.status = "running"
    BY <1>2, <1>7 DEF Accounts
  <2>2. RunStands(row)
    BY <2>1 DEF RunStands
  <2> QED
    BY <1>1, <1>11, <2>2
<1>18. ShapeInv'
  BY <1>1, <1>11, <1>16 DEF ShapeInv
<1> QED
  BY <1>16, <1>17, <1>18 DEF AdoptionInv

(* How a run can end. *)
Ends(m, status, failed) ==
    \/ status = "failed" /\ failed > 0
    \/ /\ status = (IF m.failed = 0 THEN "complete" ELSE "partial")
       /\ failed = m.failed /\ m.next = Len(m.plan) + 1

(* The last transaction of a run reports what its adopter has counted. *)
LEMMA EndKeeps ==
  ASSUME AdoptionInv, NEW p \in Adopter, me[p].pc \in Working,
         NEW status \in RunStatus, NEW failed \in Nat, End(p, status, failed),
         UNCHANGED <<file, cas, residue, assets, linked, location, changes, harmed>>,
         Ends(me[p], status, failed)
  PROVE  AdoptionInv'
<1> DEFINE k == me[p].run
           row == [runs[k] EXCEPT !.status = status, !.completed = me[p].completed,
                                  !.failed = failed]
<1>1. ShapeInv /\ OwnInv /\ CatalogInv /\ \A r \in DOMAIN runs : RunStands(runs[r])
  BY DEF AdoptionInv
<1>2. /\ owner = p /\ me[p] \in Adoption /\ k \in DOMAIN runs /\ runs[k] \in RunRow
      /\ Accounts(me[p], runs[k])
  BY <1>1, HolderFacts
<1>3. me' = [me EXCEPT ![p] = Idle] /\ owner' = None
  BY DEF End, Set
<1>4. runs' = [runs EXCEPT ![k] = row]
  BY DEF End
<1>5. /\ me[p].next \in Nat /\ me[p].completed \in Nat /\ me[p].failed \in Nat
      /\ runs[k].items \in Seq(Outcomes) /\ Len(runs[k].items) \in Nat
      /\ Len(me[p].plan) \in Nat /\ Good(runs[k].items) \in Nat
  BY <1>2, AdoptionFields, RowFields, GoodCounts
<1>6. /\ row \in RunRow /\ row.status = status /\ row.items = runs[k].items
      /\ row.planned = runs[k].planned /\ row.completed = me[p].completed
      /\ row.failed = failed
  BY <1>2, <1>5 DEF RunRow
<1> HIDE DEF row
<1>7. /\ runs' \in Seq(RunRow) /\ DOMAIN runs' = DOMAIN runs /\ runs'[k] = row
      /\ \A r \in DOMAIN runs : r # k => runs'[r] = runs[r]
  <2>1. runs \in Seq(RunRow)
    BY <1>1 DEF ShapeInv
  <2> QED
    BY <1>2, <1>4, <1>6, <2>1, Replaced
<1>8. OwnInv' /\ me' \in [Adopter -> Adoption]
  BY <1>1, <1>2, <1>3, HolderLeaves
<1>9. RunStands(row)
  <2>1. CASE status = "failed" /\ failed > 0
    BY <1>2, <1>6, <2>1 DEF RunStands, Accounts
  <2>2. CASE /\ status = (IF me[p].failed = 0 THEN "complete" ELSE "partial")
             /\ failed = me[p].failed /\ me[p].next = Len(me[p].plan) + 1
    <3>1. Len(row.items) = row.planned /\ failed = row.planned - Good(row.items)
      BY <1>2, <1>5, <1>6, <2>2 DEF Accounts
    <3>2. status \in {"complete", "partial"} /\ (status = "complete" <=> failed = 0)
      BY <2>2
    <3> QED
      BY <1>2, <1>5, <1>6, <3>1, <3>2 DEF RunStands, Accounts
  <2> QED
    BY <2>1, <2>2 DEF Ends
<1>10. (\A r \in DOMAIN runs : RunStands(runs[r]))'
  BY <1>1, <1>7, <1>9
<1>11. ShapeInv'
  BY <1>1, <1>3, <1>7, <1>8 DEF ShapeInv
<1>12. CatalogInv'
  BY <1>1 DEF CatalogInv, LocationVerified, AssetsAgree
<1> QED
  BY <1>8, <1>10, <1>11, <1>12 DEF AdoptionInv

-----------------------------------------------------------------------------
(* The actions on one item *)

(* A row of occurrence_sources has an occurrence and a path. *)
LEMMA SourceRowFacts ==
  ASSUME NEW i \in DOMAIN SourceRows
  PROVE  SourceRows[i].path \in Path /\ SourceRows[i].occurrence \in Occurrence
<1>1. SourceRows[i] \in ToSet(SourceRows)
  BY DEF ToSet
<1> QED
  BY <1>1 DEF Path, Occurrence

(* What is known when the lock's holder acts on an item of its plan. *)
LEMMA AtItem ==
  ASSUME AdoptionInv, NEW p \in Adopter, me[p].pc \in Working,
         me[p].pc # "item" \/ me[p].next <= Len(me[p].plan)
  PROVE  /\ ShapeInv /\ OwnInv /\ CatalogInv /\ owner = p /\ me[p] \in Adoption
         /\ me[p].next \in Nat /\ me[p].next <= Len(me[p].plan)
         /\ Current(p) = me[p].plan[me[p].next]
         /\ me[p].next \in DOMAIN me[p].plan /\ Current(p) \in Item
         /\ Current(p).row \in DOMAIN SourceRows
         /\ RowOf(p).path \in Path /\ RowOf(p).occurrence \in Occurrence
         /\ file[RowOf(p).path] \in Content \cup {None, Link}
         /\ WorkStands(me[p], cas, harmed) /\ cas \in [Content -> State]
         /\ residue \in Nat /\ changes \in 0..MaxChanges /\ MaxChanges \in Nat
<1>1. ShapeInv /\ OwnInv /\ CatalogInv
  BY DEF AdoptionInv
<1>2. /\ owner = p /\ me[p] \in Adoption /\ WorkStands(me[p], cas, harmed)
      /\ Current(p) = me[p].plan[me[p].next]
  BY <1>1, HolderFacts
<1>3. me[p].plan \in Seq(Item) /\ me[p].next \in Nat /\ Len(me[p].plan) \in Nat
  BY <1>2, AdoptionFields
<1>4. me[p].next \in 1..Len(me[p].plan) + 1 /\ me[p].next <= Len(me[p].plan)
  BY <1>2, <1>3 DEF WorkStands
<1>5. me[p].next \in DOMAIN me[p].plan
  BY <1>3, <1>4
<1>6. Current(p) \in Item
  BY <1>2, <1>3, <1>5
<1>7. Current(p).row \in DOMAIN SourceRows
  BY <1>6 DEF Item
<1>8. RowOf(p).path \in Path /\ RowOf(p).occurrence \in Occurrence
  BY <1>7, SourceRowFacts DEF RowOf
<1> QED
  BY <1>1, <1>2, <1>3, <1>4, <1>5, <1>6, <1>7, <1>8, AdoptionAssumption DEF ShapeInv

(* An item the plan has refused is recorded as the plan says. *)
LEMMA PersistIneligibleKeeps ==
  ASSUME AdoptionInv, NEW p \in Adopter, PersistIneligible(p)
  PROVE  AdoptionInv'
<1>1. me[p].pc \in Working /\ me[p].next <= Len(me[p].plan)
  BY DEF PersistIneligible, InItem, Working, Label
<1>2. ShapeInv /\ CatalogInv /\ Current(p).class \in Outcomes
  BY <1>1, AtItem DEF PersistIneligible, Item
<1>3. CatalogInv'
  BY <1>2 DEF PersistIneligible, CatalogInv, LocationVerified, AssetsAgree
<1> QED
  BY <1>1, <1>2, <1>3, ItemDoneKeeps DEF PersistIneligible, ShapeInv

(* An error whose category is an outcome becomes the item's. *)
LEMMA PersistFailureKeeps ==
  ASSUME AdoptionInv, NEW p \in Adopter, PersistFailure(p)
  PROVE  AdoptionInv'
<1>1. me[p].pc \in Working /\ me[p].pc # "item"
  BY DEF PersistFailure, Working, Label
<1>2. ShapeInv /\ CatalogInv /\ me[p].next <= Len(me[p].plan)
  BY <1>1, AtItem
<1>3. CatalogInv'
  BY <1>2 DEF PersistFailure, CatalogInv, LocationVerified, AssetsAgree
<1> QED
  BY <1>1, <1>2, <1>3, ItemDoneKeeps DEF PersistFailure, ShapeInv

(* The source that is opened has some bytes, or the item fails. *)
LEMMA OpenSourceKeeps ==
  ASSUME AdoptionInv, NEW p \in Adopter, OpenSource(p)
  PROVE  AdoptionInv'
<1> DEFINE content == file[RowOf(p).path]
<1>1. me[p].pc \in Working /\ (me[p].pc # "item" \/ me[p].next <= Len(me[p].plan))
  BY DEF OpenSource, InItem, Working, Label
<1>2. UNCHANGED <<file, cas, residue, catalog, owner, changes, harmed>>
  BY DEF OpenSource
<1>3. /\ me[p] \in Adoption /\ me[p].next <= Len(me[p].plan)
      /\ content \in Content \cup {None, Link} /\ cas \in [Content -> State]
      /\ residue' \in Nat /\ changes' \in 0..MaxChanges /\ WorkStands(me[p], cas, harmed)
  BY <1>1, <1>2, AtItem
<1>4. ASSUME NEW outcome \in {"missing", "unsafe_path", "limit_exceeded"}, Failing(p, outcome)
      PROVE  AdoptionInv'
  <2>1. outcome \in Outcomes
    BY DEF Outcomes
  <2> QED
    BY <1>1, <1>2, <1>3, <1>4, <2>1, FailingMoves
<1>5. ASSUME content \in Content, NEW then \in {"hash", "stage"},
             Set(p, [me[p] EXCEPT !.pc = then, !.bytes = content])
      PROVE  AdoptionInv'
  <2> DEFINE m == [me[p] EXCEPT !.pc = then, !.bytes = content]
  <2>1. m \in Adoption /\ SameItem(m, me[p]) /\ m.pc = then /\ m.bytes = content
    BY <1>3, <1>5 DEF Adoption, Label, SameItem
  <2>2. me' = [me EXCEPT ![p] = m]
    BY <1>5 DEF Set
  <2> HIDE DEF m
  <2>3. WorkStands(m, cas', harmed)
    BY <1>3, <1>5, <2>1 DEF WorkStands, SameItem
  <2>4. m.pc \in Working /\ Unharmed(cas, cas')
    BY <1>2, <1>3, <2>1 DEF Working, Label, Unharmed
  <2> QED
    BY <1>1, <1>2, <1>3, <2>1, <2>2, <2>3, <2>4, ItemMoves
<1>6. CASE content = None \/ content = Link \/ content \in Oversize
  <2>1. \E outcome \in {"missing", "unsafe_path", "limit_exceeded"} : Failing(p, outcome)
    BY <1>6, AdoptionAssumption DEF OpenSource
  <2> QED
    BY <1>4, <2>1
<1>7. CASE content # None /\ content # Link /\ content \notin Oversize
  <2>1. \E then \in {"hash", "stage"} : Set(p, [me[p] EXCEPT !.pc = then, !.bytes = content])
    BY <1>7 DEF OpenSource
  <2> QED
    BY <1>3, <1>5, <1>7, <2>1
<1> QED
  BY <1>6, <1>7

(* A location is reused only after its file was read as whole. *)
LEMMA ReuseLocationKeeps ==
  ASSUME AdoptionInv, NEW p \in Adopter, ReuseLocation(p)
  PROVE  AdoptionInv'
<1>1. me[p].pc \in Working /\ me[p].pc = "hash"
  BY DEF ReuseLocation, Working, Label
<1>2. UNCHANGED <<file, cas, residue, catalog, owner, changes, harmed>>
  BY DEF ReuseLocation
<1>3. /\ me[p] \in Adoption /\ me[p].next <= Len(me[p].plan) /\ cas \in [Content -> State]
      /\ residue' \in Nat /\ changes' \in 0..MaxChanges /\ WorkStands(me[p], cas, harmed)
      /\ Current(p) = me[p].plan[me[p].next]
  BY <1>1, <1>2, AtItem
<1>4. ASSUME NEW outcome \in {"source_changed", "storage_integrity_failed"}, Failing(p, outcome)
      PROVE  AdoptionInv'
  <2>1. outcome \in Outcomes
    BY DEF Outcomes
  <2> QED
    BY <1>1, <1>2, <1>3, <1>4, <2>1, FailingMoves
<1>5. ASSUME Set(p, [me[p] EXCEPT !.pc = "reopen", !.bytes = None])
      PROVE  AdoptionInv'
  <2> DEFINE m == [me[p] EXCEPT !.pc = "reopen", !.bytes = None]
  <2>1. m \in Adoption /\ SameItem(m, me[p]) /\ m.pc = "reopen"
    BY <1>3 DEF Adoption, Label, SameItem
  <2>2. me' = [me EXCEPT ![p] = m]
    BY <1>5 DEF Set
  <2> HIDE DEF m
  <2>3. WorkStands(m, cas', harmed)
    BY <1>3, <2>1 DEF WorkStands, SameItem
  <2>4. m.pc \in Working /\ Unharmed(cas, cas')
    BY <1>2, <1>3, <2>1 DEF Working, Label, Unharmed
  <2> QED
    BY <1>1, <1>2, <1>3, <2>1, <2>2, <2>3, <2>4, ItemMoves
<1>6. ASSUME me[p].bytes = Current(p).legacy, cas[me[p].bytes] = "whole",
             Set(p, [me[p] EXCEPT !.pc = "commit", !.outcome = "existing"])
      PROVE  AdoptionInv'
  <2> DEFINE m == [me[p] EXCEPT !.pc = "commit", !.outcome = "existing"]
  <2>1. /\ m \in Adoption /\ SameItem(m, me[p]) /\ m.pc = "commit" /\ m.outcome = "existing"
        /\ m.bytes = me[p].bytes
    BY <1>3 DEF Adoption, Label, SameItem, Outcomes, Successes
  <2>2. me' = [me EXCEPT ![p] = m]
    BY <1>6 DEF Set
  <2> HIDE DEF m
  <2>3. WorkStands(m, cas', harmed)
    BY <1>1, <1>2, <1>3, <1>6, <2>1 DEF WorkStands, SameItem, Successes
  <2>4. m.pc \in Working /\ Unharmed(cas, cas')
    BY <1>2, <1>3, <2>1 DEF Working, Label, Unharmed
  <2> QED
    BY <1>1, <1>2, <1>3, <2>1, <2>2, <2>3, <2>4, ItemMoves
<1> QED
  BY <1>4, <1>5, <1>6 DEF ReuseLocation

(* What was staged agrees with the planned digest, or the item fails. *)
LEMMA StageSourceKeeps ==
  ASSUME AdoptionInv, NEW p \in Adopter, StageSource(p)
  PROVE  AdoptionInv'
<1>1. me[p].pc \in Working /\ me[p].pc = "stage"
  BY DEF StageSource, Working, Label
<1>2. UNCHANGED <<file, cas, catalog, owner, changes, harmed>>
  BY DEF StageSource
<1>3. /\ me[p] \in Adoption /\ me[p].next <= Len(me[p].plan) /\ cas \in [Content -> State]
      /\ residue' \in Nat /\ changes' \in 0..MaxChanges /\ WorkStands(me[p], cas, harmed)
      /\ Current(p) = me[p].plan[me[p].next]
  BY <1>1, <1>2, AtItem DEF StageSource
<1>4. ASSUME NEW outcome \in {"source_changed", "hash_mismatch"}, Failing(p, outcome)
      PROVE  AdoptionInv'
  <2>1. outcome \in Outcomes
    BY DEF Outcomes
  <2> QED
    BY <1>1, <1>2, <1>3, <1>4, <2>1, FailingMoves
<1>5. ASSUME LegacyAgrees(p), Set(p, [me[p] EXCEPT !.pc = "inspect"])
      PROVE  AdoptionInv'
  <2> DEFINE m == [me[p] EXCEPT !.pc = "inspect"]
  <2>1. m \in Adoption /\ SameItem(m, me[p]) /\ m.pc = "inspect" /\ m.bytes = me[p].bytes
    BY <1>3 DEF Adoption, Label, SameItem
  <2>2. me' = [me EXCEPT ![p] = m]
    BY <1>5 DEF Set
  <2> HIDE DEF m
  <2>3. WorkStands(m, cas', harmed)
    BY <1>1, <1>3, <1>5, <2>1 DEF WorkStands, SameItem, LegacyAgrees
  <2>4. m.pc \in Working /\ Unharmed(cas, cas')
    BY <1>2, <1>3, <2>1 DEF Working, Label, Unharmed
  <2> QED
    BY <1>1, <1>2, <1>3, <2>1, <2>2, <2>3, <2>4, ItemMoves
<1> QED
  BY <1>4, <1>5 DEF StageSource

(* Inspection changes nothing but the point the adopter is at. *)
LEMMA InspectStagedKeeps ==
  ASSUME AdoptionInv, NEW p \in Adopter, InspectStaged(p)
  PROVE  AdoptionInv'
<1>1. me[p].pc \in Working /\ me[p].pc = "inspect"
  BY DEF InspectStaged, Working, Label
<1>2. UNCHANGED <<file, cas, residue, catalog, owner, changes, harmed>>
  BY DEF InspectStaged
<1>3. /\ me[p] \in Adoption /\ me[p].next <= Len(me[p].plan) /\ cas \in [Content -> State]
      /\ residue' \in Nat /\ changes' \in 0..MaxChanges /\ WorkStands(me[p], cas, harmed)
  BY <1>1, <1>2, AtItem
<1>4. ASSUME Failing(p, "inspection_failed")
      PROVE  AdoptionInv'
  <2>1. "inspection_failed" \in Outcomes
    BY DEF Outcomes
  <2> QED
    BY <1>1, <1>2, <1>3, <1>4, <2>1, FailingMoves
<1>5. ASSUME Set(p, [me[p] EXCEPT !.pc = "publish"])
      PROVE  AdoptionInv'
  <2> DEFINE m == [me[p] EXCEPT !.pc = "publish"]
  <2>1. m \in Adoption /\ SameItem(m, me[p]) /\ m.pc = "publish" /\ m.bytes = me[p].bytes
    BY <1>3 DEF Adoption, Label, SameItem
  <2>2. me' = [me EXCEPT ![p] = m]
    BY <1>5 DEF Set
  <2> HIDE DEF m
  <2>3. WorkStands(m, cas', harmed)
    BY <1>1, <1>3, <2>1 DEF WorkStands, SameItem
  <2>4. m.pc \in Working /\ Unharmed(cas, cas')
    BY <1>2, <1>3, <2>1 DEF Working, Label, Unharmed
  <2> QED
    BY <1>1, <1>2, <1>3, <2>1, <2>2, <2>3, <2>4, ItemMoves
<1> QED
  BY <1>4, <1>5 DEF InspectStaged

(* Publishing never replaces a file: it links a missing one, or verifies.  *)
LEMMA PublishStagedKeeps ==
  ASSUME AdoptionInv, NEW p \in Adopter, PublishStaged(p)
  PROVE  AdoptionInv'
<1> DEFINE b == me[p].bytes
<1>1. me[p].pc \in Working /\ me[p].pc = "publish"
  BY DEF PublishStaged, Working, Label
<1>2. UNCHANGED <<file, residue, catalog, owner, changes, harmed>>
  BY DEF PublishStaged
<1>3. /\ me[p] \in Adoption /\ me[p].next <= Len(me[p].plan) /\ cas \in [Content -> State]
      /\ residue' \in Nat /\ changes' \in 0..MaxChanges /\ WorkStands(me[p], cas, harmed)
  BY <1>1, <1>2, AtItem
<1>4. b \in Content
  BY <1>1, <1>3 DEF WorkStands
<1>5. ASSUME Failing(p, "storage_integrity_failed"), cas' = cas
      PROVE  AdoptionInv'
  <2>1. "storage_integrity_failed" \in Outcomes
    BY DEF Outcomes
  <2> QED
    BY <1>1, <1>2, <1>3, <1>5, <2>1, FailingMoves
<1>6. ASSUME cas[b] = None \/ cas[b] = "whole", NEW outcome \in Successes,
             cas' = [cas EXCEPT ![b] = IF cas[b] = None THEN "whole" ELSE cas[b]],
             Set(p, [me[p] EXCEPT !.pc = "commit", !.outcome = outcome])
      PROVE  AdoptionInv'
  <2> DEFINE m == [me[p] EXCEPT !.pc = "commit", !.outcome = outcome]
  <2>1. /\ m \in Adoption /\ SameItem(m, me[p]) /\ m.pc = "commit" /\ m.outcome = outcome
        /\ m.bytes = b
    BY <1>3 DEF Adoption, Label, SameItem, Outcomes
  <2>2. me' = [me EXCEPT ![p] = m]
    BY <1>6 DEF Set
  <2> HIDE DEF m
  <2>3. cas'[b] = "whole" /\ Unharmed(cas, cas')
    BY <1>3, <1>4, <1>6 DEF Unharmed, State
  <2>4. WorkStands(m, cas', harmed)
    BY <1>1, <1>3, <2>1, <2>3 DEF WorkStands, SameItem
  <2>5. m.pc \in Working
    BY <2>1 DEF Working, Label
  <2> QED
    BY <1>1, <1>2, <1>3, <2>1, <2>2, <2>3, <2>4, <2>5, ItemMoves
<1>7. CASE cas[b] # None /\ ~TargetVerifies(b)
  BY <1>5, <1>7 DEF PublishStaged
<1>8. CASE ~ (cas[b] # None /\ ~TargetVerifies(b))
  <2> DEFINE outcome == IF b \in ExactOnly THEN "adopted_exact_only"
                        ELSE IF cas[b] = None THEN "adopted" ELSE "existing"
  <2>1. /\ cas' = [cas EXCEPT ![b] = IF cas[b] = None THEN "whole" ELSE cas[b]]
        /\ Set(p, [me[p] EXCEPT !.pc = "commit", !.outcome = outcome])
    BY <1>8 DEF PublishStaged
  <2>2. outcome \in Successes
    BY DEF Successes
  <2> HIDE DEF outcome
  <2> QED
    BY <1>6, <1>8, <2>1, <2>2 DEF TargetVerifies
<1> QED
  BY <1>7, <1>8

(* An error of publication or of the transaction changes no row. *)
LEMMA AdopterErrorKeeps ==
  ASSUME AdoptionInv, NEW p \in Adopter, PublishUnsupported(p) \/ CommitFails(p)
  PROVE  AdoptionInv'
<1>1. me[p].pc \in Working /\ me[p].pc # "item"
  BY DEF PublishUnsupported, CommitFails, Working, Label
<1>2. UNCHANGED <<file, cas, residue, catalog, owner, harmed>>
  BY DEF PublishUnsupported, CommitFails
<1>3. me[p].next <= Len(me[p].plan) /\ residue' \in Nat /\ changes' \in 0..MaxChanges
  BY <1>1, <1>2, AtItem DEF PublishUnsupported, CommitFails
<1>4. PICK outcome \in {"unreadable", "capability_unavailable"} : Failing(p, outcome)
  BY DEF PublishUnsupported, CommitFails
<1>5. outcome \in Outcomes \cup {"capability_unavailable"}
  BY DEF Outcomes
<1> QED
  BY <1>1, <1>2, <1>3, <1>4, <1>5, FailingMoves

(* What is linked was verified since it was published, and agrees with the *)
(* declared digest, for the plan does.                                     *)
LEMMA CommitItemKeeps ==
  ASSUME AdoptionInv, NEW p \in Adopter, CommitItem(p)
  PROVE  AdoptionInv'
<1> DEFINE b == me[p].bytes
           o == RowOf(p).occurrence
<1>1. me[p].pc \in Working /\ me[p].pc = "commit"
  BY DEF CommitItem, Working, Label
<1>2. /\ ShapeInv /\ OwnInv /\ CatalogInv /\ me[p].next <= Len(me[p].plan) /\ o \in Occurrence
      /\ me[p].next \in DOMAIN me[p].plan /\ Current(p) = me[p].plan[me[p].next]
      /\ WorkStands(me[p], cas, harmed)
  BY <1>1, AtItem
<1>3. /\ b \in Content /\ Current(p).legacy \in {None, b} /\ me[p].outcome \in Successes
      /\ cas[b] = "whole" \/ b \in harmed
  BY <1>1, <1>2 DEF WorkStands
<1>4. Declared[o] \in {None, b}
  <2>1. PlanStands(me[p].plan, me[p].since, linked)
    BY <1>1, <1>2, HolderFacts
  <2>2. Declared[o] # None => Current(p).legacy = Declared[o]
    BY <1>2, <2>1 DEF PlanStands, RowOf
  <2> QED
    BY <1>3, <2>2
<1>5. /\ assets \in Seq(Content) /\ IsInjective(assets) /\ linked \subseteq Occurrence \X Content
      /\ location \subseteq Content
  BY <1>2 DEF ShapeInv
<1>6. /\ assets' \in Seq(Content) /\ IsInjective(assets')
      /\ b \in ToSet(assets') /\ ToSet(assets) \subseteq ToSet(assets')
  <2>1. CASE b \in ToSet(assets)
    BY <1>5, <2>1 DEF CommitItem
  <2>2. CASE b \notin ToSet(assets)
    <3>1. assets' = Append(assets, b) /\ Len(assets) \in Nat
      BY <1>5, <2>2 DEF CommitItem
    <3>2. /\ assets' \in Seq(Content) /\ DOMAIN assets' = 1..Len(assets) + 1
          /\ assets'[Len(assets) + 1] = b
          /\ \A i \in 1..Len(assets) : assets'[i] = assets[i]
          /\ DOMAIN assets = 1..Len(assets)
      BY <1>3, <1>5, <3>1
    <3>3. \A i \in 1..Len(assets) : assets[i] # b
      BY <2>2, <3>2 DEF ToSet
    <3>4. IsInjective(assets')
      BY <1>5, <3>1, <3>2, <3>3 DEF IsInjective
    <3>5. Len(assets) + 1 \in DOMAIN assets' /\ DOMAIN assets \subseteq DOMAIN assets'
      BY <3>1, <3>2
    <3> QED
      BY <3>2, <3>4, <3>5 DEF ToSet
  <2> QED
    BY <2>1, <2>2
<1>7. linked' = linked \cup {<<o, b>>} /\ location' = location \cup {b}
  BY DEF CommitItem
<1>8. CatalogInv'
  <2>1. LocationVerified'
    BY <1>2, <1>3, <1>7 DEF CommitItem, CatalogInv, LocationVerified
  <2>2. AssetsAgree'
    BY <1>2, <1>4, <1>6, <1>7 DEF CatalogInv, AssetsAgree
  <2> QED
    BY <2>1, <2>2 DEF CatalogInv
<1>9. me[p].outcome \in Outcomes
  BY <1>3 DEF Outcomes
<1> QED
  BY <1>1, <1>2, <1>3, <1>5, <1>6, <1>7, <1>8, <1>9, ItemDoneKeeps DEF CommitItem

-----------------------------------------------------------------------------
(* The end of a run *)

(* A run ends when its plan does, or with an error that is no outcome. *)
LEMMA EndOfRunKeeps ==
  ASSUME AdoptionInv, NEW p \in Adopter, FinishRun(p) \/ FailRun(p)
  PROVE  AdoptionInv'
<1>1. me[p].pc \in Working
  BY DEF FinishRun, FailRun, Working, Label
<1>2. me[p] \in Adoption /\ WorkStands(me[p], cas, harmed)
  BY <1>1, HolderFacts DEF AdoptionInv
<1>3. /\ me[p].next \in Nat /\ me[p].failed \in Nat /\ Len(me[p].plan) \in Nat
      /\ me[p].next \in 1..Len(me[p].plan) + 1
  BY <1>2, AdoptionFields DEF WorkStands
<1>4. CASE FinishRun(p)
  <2>1. FinalStatus(p) \in RunStatus
    BY DEF FinalStatus, RunStatus
  <2>2. Ends(me[p], FinalStatus(p), me[p].failed)
    BY <1>3, <1>4 DEF FinishRun, Ends, FinalStatus
  <2>3. /\ End(p, FinalStatus(p), me[p].failed)
        /\ UNCHANGED <<file, cas, residue, assets, linked, location, changes, harmed>>
    BY <1>4 DEF FinishRun
  <2> QED
    BY <1>1, <1>3, <2>1, <2>2, <2>3, EndKeeps
<1>5. CASE FailRun(p)
  <2> DEFINE failed == IF me[p].failed = 0 THEN 1 ELSE me[p].failed
  <2>1. failed \in Nat /\ failed > 0
    BY <1>3
  <2>2. /\ End(p, "failed", failed)
        /\ UNCHANGED <<file, cas, residue, assets, linked, location, changes, harmed>>
    BY <1>5 DEF FailRun
  <2> HIDE DEF failed
  <2>3. "failed" \in RunStatus /\ Ends(me[p], "failed", failed)
    BY <2>1 DEF RunStatus, Ends
  <2> QED
    BY <1>1, <2>1, <2>2, <2>3, EndKeeps
<1> QED
  BY <1>4, <1>5

(* A killed adopter loses the lock and leaves its run as it is. *)
LEMMA KillKeeps ==
  ASSUME AdoptionInv, NEW p \in Adopter, Kill(p)
  PROVE  AdoptionInv'
<1>1. ShapeInv /\ OwnInv /\ CatalogInv /\ \A r \in DOMAIN runs : RunStands(runs[r])
  BY DEF AdoptionInv
<1>2. /\ UNCHANGED <<file, cas, residue, assets, linked, location, runs, harmed>>
      /\ owner = p /\ owner' = None /\ me' = [me EXCEPT ![p] = Idle]
      /\ changes' = changes + 1 /\ changes < MaxChanges
  BY DEF Kill, Set, catalog
<1>3. OwnInv' /\ me' \in [Adopter -> Adoption]
  BY <1>1, <1>2, HolderLeaves
<1>4. changes' \in 0..MaxChanges
  BY <1>1, <1>2, AdoptionAssumption DEF ShapeInv
<1>5. ShapeInv'
  BY <1>1, <1>2, <1>3, <1>4 DEF ShapeInv
<1>6. CatalogInv'
  BY <1>1, <1>2 DEF CatalogInv, LocationVerified, AssetsAgree
<1>7. (\A r \in DOMAIN runs : RunStands(runs[r]))'
  BY <1>1, <1>2
<1> QED
  BY <1>3, <1>5, <1>6, <1>7 DEF AdoptionInv

-----------------------------------------------------------------------------
(* Planning, and the beginning of a run *)

(* The planned digest is the declared one, or one the occurrence has; an   *)
(* occurrence with an asset always has one.                                *)
LEMMA LegacyFacts ==
  ASSUME ShapeInv, CatalogInv, NEW o \in Occurrence
  PROVE  /\ Legacy(o) \in Content \cup {None}
         /\ Declared[o] # None => Legacy(o) = Declared[o]
         /\ Linked(o) # {} => Legacy(o) # None /\ <<o, Legacy(o)>> \in linked
<1> DEFINE own == {i \in DOMAIN assets : <<o, assets[i]>> \in linked}
<1>1. /\ Declared[o] \in Content \cup {None} /\ None \notin Content
      /\ assets \in Seq(Content) /\ linked \subseteq Occurrence \X Content
      /\ Len(assets) \in Nat
  BY AdoptionAssumption DEF ShapeInv
<1>2. own # {} => Min(own) \in own
  <2>1. own \in SUBSET (1..Len(assets))
    BY <1>1
  <2> HIDE DEF own
  <2> QED
    BY <1>1, <2>1, MinIsElement
<1>3. own # {} => assets[Min(own)] \in Content /\ <<o, assets[Min(own)]>> \in linked
  BY <1>1, <1>2
<1>4. ASSUME Linked(o) # {}
      PROVE  \E b \in Content : /\ <<o, b>> \in linked /\ Declared[o] \in {None, b}
                                /\ b \in ToSet(assets)
  <2>1. PICK link \in linked : link[1] = o
    BY <1>4 DEF Linked
  <2>2. link = <<o, link[2]>> /\ link[2] \in Content
    BY <1>1, <2>1
  <2>3. Declared[o] \in {None, link[2]} /\ link[2] \in ToSet(assets)
    BY <2>1 DEF CatalogInv, AssetsAgree
  <2> QED
    BY <2>1, <2>2, <2>3
<1>5. Linked(o) # {} /\ Declared[o] = None => own # {}
  BY <1>4 DEF ToSet
<1>6. Legacy(o) = IF Declared[o] # None THEN Declared[o]
                  ELSE IF own = {} THEN None ELSE assets[Min(own)]
  BY DEF Legacy
<1> HIDE DEF own
<1> QED
  BY <1>1, <1>3, <1>4, <1>5, <1>6

(* Every place of a plan within its limit has a row. *)
LEMMA CandidateFacts ==
  /\ Cardinality(Candidates) \in Nat
  /\ \A k \in 1..Cardinality(Candidates) :
        CandidateRow(k) \in DOMAIN SourceRows
<1>1. Len(SourceRows) \in Nat /\ Candidates \in SUBSET (1..Len(SourceRows))
  BY AdoptionAssumption DEF Candidates
<1>2. Cardinality(Candidates) \in Nat
  BY <1>1, BelowOrders
<1>3. ASSUME NEW k \in 1..Cardinality(Candidates)
      PROVE  CandidateRow(k) \in DOMAIN SourceRows
  <2>1. k - 1 \in 0..Cardinality(Candidates) - 1
    BY <1>2
  <2>2. \E i \in Candidates : Cardinality(Below(Candidates, i)) = k - 1
    BY <1>1, <2>1, EveryRank
  <2>3. CandidateRow(k) \in Candidates
    BY <2>2 DEF CandidateRow, Below
  <2> QED
    BY <2>3 DEF Candidates
<1> QED
  BY <1>2, <1>3

(* A plan says what is true of declared digests and links when it is made. *)
LEMMA PlanNowStands ==
  ASSUME ShapeInv, CatalogInv
  PROVE  /\ PlanNow \in Seq(Item)
         /\ PlanStands(PlanNow, {o \in Occurrence : Linked(o) # {}}, linked)
<1> DEFINE n == Min({PlanLimit, Cardinality(Candidates)})
<1>1. PlanLimit \in Nat /\ Cardinality(Candidates) \in Nat
  BY CandidateFacts, AdoptionAssumption
<1>2. n \in Nat /\ n <= Cardinality(Candidates)
  <2>1. \E x \in {PlanLimit, Cardinality(Candidates)} :
          \A y \in {PlanLimit, Cardinality(Candidates)} : x =< y
    BY <1>1
  <2>2. /\ n \in {PlanLimit, Cardinality(Candidates)}
        /\ \A y \in {PlanLimit, Cardinality(Candidates)} : n =< y
    BY <2>1 DEF Min
  <2> HIDE DEF n
  <2> QED
    BY <1>1, <2>2
<1> HIDE DEF n
<1>3. \A k \in 1..n : CandidateRow(k) \in DOMAIN SourceRows
  <2>1. \A k \in 1..n : k \in 1..Cardinality(Candidates)
    BY <1>1, <1>2
  <2> QED
    BY <2>1, CandidateFacts
<1>4. ASSUME NEW i \in DOMAIN SourceRows
      PROVE  /\ ItemOf(i) \in Item /\ ItemOf(i).row = i
             /\ ItemOf(i).legacy = Legacy(SourceRows[i].occurrence)
  <2>1. SourceRows[i].occurrence \in Occurrence
    BY SourceRowFacts
  <2>2. Legacy(SourceRows[i].occurrence) \in Content \cup {None}
    BY <2>1, LegacyFacts
  <2>3. Classify(SourceRows[i].path) \in {"eligible"} \cup Outcomes
    BY DEF Classify, Outcomes
  <2> QED
    BY <2>2, <2>3 DEF ItemOf, Item
<1>5. /\ PlanNow \in Seq(Item) /\ DOMAIN PlanNow = 1..n
      /\ \A k \in 1..n : PlanNow[k] = ItemOf(CandidateRow(k))
  <2>1. PlanNow = [k \in 1..n |-> ItemOf(CandidateRow(k))]
    BY DEF PlanNow, n
  <2>2. \A k \in 1..n : ItemOf(CandidateRow(k)) \in Item
    BY <1>3, <1>4
  <2> QED
    BY <1>2, <2>1, <2>2
<1>6. ASSUME NEW k \in 1..n, NEW o, o = SourceRows[PlanNow[k].row].occurrence
      PROVE  o \in Occurrence /\ PlanNow[k].legacy = Legacy(o)
  <2>1. CandidateRow(k) \in DOMAIN SourceRows /\ PlanNow[k] = ItemOf(CandidateRow(k))
    BY <1>3, <1>5
  <2> QED
    BY <1>4, <1>6, <2>1, SourceRowFacts
<1>7. PlanStands(PlanNow, {o \in Occurrence : Linked(o) # {}}, linked)
  <2>1. ASSUME NEW k \in DOMAIN PlanNow, NEW o, o = SourceRows[PlanNow[k].row].occurrence
        PROVE  /\ Declared[o] # None => PlanNow[k].legacy = Declared[o]
               /\ Linked(o) # {} => PlanNow[k].legacy # None /\ <<o, PlanNow[k].legacy>> \in linked
    <3>1. o \in Occurrence /\ PlanNow[k].legacy = Legacy(o)
      BY <1>5, <1>6, <2>1
    <3> QED
      BY <3>1, LegacyFacts
  <2> QED
    BY <2>1 DEF PlanStands
<1> QED
  BY <1>5, <1>7

(* Somebody who is not at work changes nothing but its own state. *)
LEMMA RestMoves ==
  ASSUME AdoptionInv, NEW p \in Adopter, owner # p, NEW m \in Adoption,
         me' = [me EXCEPT ![p] = m], AdopterStands(m, FALSE, linked, cas, harmed, runs),
         UNCHANGED <<file, cas, residue, catalog, owner, changes, harmed>>
  PROVE  AdoptionInv'
<1>1. ShapeInv /\ OwnInv /\ CatalogInv /\ \A r \in DOMAIN runs : RunStands(runs[r])
  BY DEF AdoptionInv
<1>2. UNCHANGED <<file, cas, residue, assets, linked, location, runs, owner, changes, harmed>>
  BY DEF catalog
<1>3. me \in [Adopter -> Adoption]
  BY <1>1 DEF ShapeInv
<1>4. ASSUME NEW q \in Adopter
      PROVE  AdopterStands(me'[q], owner = q, linked, cas, harmed, runs)
  <2>1. CASE q = p
    <3>1. me'[q] = m /\ (owner = q) = FALSE
      BY <1>3, <2>1
    <3> QED
      BY <3>1
  <2>2. CASE q # p
    <3>1. me'[q] = me[q]
      BY <1>3, <2>2
    <3>2. AdopterStands(me[q], owner = q, linked, cas, harmed, runs)
      BY <1>1 DEF OwnInv
    <3> QED
      BY <3>1, <3>2
  <2> QED
    BY <2>1, <2>2
<1>5. OwnInv'
  BY <1>2, <1>4 DEF OwnInv
<1>6. me' \in [Adopter -> Adoption]
  BY <1>3
<1>7. ShapeInv'
  BY <1>1, <1>2, <1>6 DEF ShapeInv
<1>8. CatalogInv'
  BY <1>1, <1>2 DEF CatalogInv, LocationVerified, AssetsAgree
<1>9. (\A r \in DOMAIN runs : RunStands(runs[r]))'
  BY <1>1, <1>2
<1> QED
  BY <1>5, <1>7, <1>8, <1>9 DEF AdoptionInv

(* Making a plan reads only. *)
LEMMA PlanKeeps ==
  ASSUME AdoptionInv, NEW p \in Adopter, Plan(p)
  PROVE  AdoptionInv'
<1> DEFINE since == {o \in Occurrence : Linked(o) # {}}
           m == [Idle EXCEPT !.pc = "planned", !.plan = PlanNow, !.since = since]
<1>1. ShapeInv /\ OwnInv /\ CatalogInv
  BY DEF AdoptionInv
<1>2. me[p].pc = "idle" /\ me' = [me EXCEPT ![p] = m]
      /\ UNCHANGED <<file, cas, residue, catalog, owner, changes, harmed>>
  BY DEF Plan, Set
<1>3. PlanNow \in Seq(Item) /\ PlanStands(PlanNow, since, linked) /\ since \in SUBSET Occurrence
  BY <1>1, PlanNowStands
<1> HIDE DEF since
<1>4. /\ m \in Adoption /\ m.pc = "planned" /\ m.plan = PlanNow /\ m.since = since
      /\ m.next = 1 /\ m.completed = 0 /\ m.failed = 0
  <2>1. Idle \in Adoption /\ Idle.next = 1 /\ Idle.completed = 0 /\ Idle.failed = 0
    BY IdleIsAdoption DEF Idle
  <2> QED
    BY <1>3, <2>1 DEF Adoption, Label
<1> HIDE DEF m
<1>5. AdopterStands(m, FALSE, linked, cas, harmed, runs)
  BY <1>3, <1>4 DEF AdopterStands
<1>6. owner # p
  BY <1>1, <1>2 DEF OwnInv, AdopterStands
<1> QED
  BY <1>2, <1>4, <1>5, <1>6, RestMoves

(* Who finds the lock taken gives its plan up. *)
LEMMA LockRefusedKeeps ==
  ASSUME AdoptionInv, NEW p \in Adopter, LockRefused(p)
  PROVE  AdoptionInv'
<1>1. OwnInv
  BY DEF AdoptionInv
<1>2. me[p].pc = "planned" /\ me' = [me EXCEPT ![p] = Idle]
      /\ UNCHANGED <<file, cas, residue, catalog, owner, changes, harmed>>
  BY DEF LockRefused, Set
<1>3. owner # p
  BY <1>1, <1>2 DEF OwnInv, AdopterStands
<1>4. Idle \in Adoption /\ AdopterStands(Idle, FALSE, linked, cas, harmed, runs)
  BY IdleIsAdoption DEF AdopterStands
<1> QED
  BY <1>2, <1>3, <1>4, RestMoves

(* Who finds it free is alone from then on. *)
LEMMA BeginRunKeeps ==
  ASSUME AdoptionInv, NEW p \in Adopter, BeginRun(p)
  PROVE  AdoptionInv'
<1> DEFINE row == [status |-> "running", planned |-> Len(me[p].plan), items |-> <<>>,
                   completed |-> 0, failed |-> 0]
           k == Len(runs) + 1
           m == [me[p] EXCEPT !.pc = "item", !.run = k]
<1>1. ShapeInv /\ OwnInv /\ CatalogInv /\ \A r \in DOMAIN runs : RunStands(runs[r])
  BY DEF AdoptionInv
<1>2. /\ me[p].pc = "planned" /\ owner = None /\ owner' = p /\ runs' = Append(runs, row)
      /\ me' = [me EXCEPT ![p] = m]
      /\ UNCHANGED <<file, cas, residue, assets, linked, location, changes, harmed>>
  BY DEF BeginRun, Set
<1>3. me \in [Adopter -> Adoption] /\ runs \in Seq(RunRow) /\ Len(runs) \in Nat
  BY <1>1 DEF ShapeInv
<1>4. me[p] \in Adoption /\ me[p].plan \in Seq(Item) /\ Len(me[p].plan) \in Nat
  BY <1>3, AdoptionFields
<1>5. /\ m \in Adoption /\ m.pc = "item" /\ m.run = k /\ m.plan = me[p].plan
      /\ m.since = me[p].since /\ m.next = me[p].next /\ m.completed = me[p].completed
      /\ m.failed = me[p].failed
  <2>1. k \in Nat
    BY <1>3
  <2> HIDE DEF k
  <2> QED
    BY <1>3, <1>4, <2>1 DEF Adoption, Label
<1>6. <<>> \in Seq(Outcomes) /\ Good(<<>>) = 0
  <2>1. {i \in DOMAIN <<>> : <<>>[i] \in Successes} = {}
    OBVIOUS
  <2> QED
    BY <2>1, FS_EmptySet DEF Good
<1>7. row \in RunRow
  BY <1>4, <1>6 DEF RunRow, RunStatus
<1>8. row.status = "running" /\ row.planned = Len(me[p].plan) /\ row.items = <<>>
  OBVIOUS
<1> HIDE DEF m, row
<1>9. /\ runs' \in Seq(RunRow) /\ k \in DOMAIN runs' /\ runs'[k] = row
      /\ DOMAIN runs' = DOMAIN runs \cup {k} /\ \A r \in DOMAIN runs : runs'[r] = runs[r]
  BY <1>2, <1>3, <1>7
<1>10. /\ AdopterStands(me[p], FALSE, linked, cas, harmed, runs)
       /\ \A q \in Adopter : (owner = q) = FALSE
  <2>1. \A q \in Adopter : (owner = q) = FALSE
    BY <1>2, AdoptionAssumption
  <2> QED
    BY <1>1, <2>1 DEF OwnInv
<1>11. me[p].next = 1 /\ me[p].completed = 0 /\ me[p].failed = 0
       /\ PlanStands(me[p].plan, me[p].since, linked)
  BY <1>2, <1>10 DEF AdopterStands
<1>12. WorkStands(m, cas', harmed') /\ Accounts(m, row)
  <2>1. m.next \in 1..Len(m.plan) + 1
    BY <1>4, <1>5, <1>11
  <2>2. Len(row.items) = 0
    BY <1>8
  <2> QED
    BY <1>5, <1>6, <1>8, <1>11, <2>1, <2>2 DEF WorkStands, Accounts
<1>13. AdopterStands(m, TRUE, linked', cas', harmed', runs')
  BY <1>2, <1>5, <1>9, <1>11, <1>12 DEF AdopterStands
<1>14. ASSUME NEW q \in Adopter
       PROVE  AdopterStands(me'[q], owner' = q, linked', cas', harmed', runs')
  <2>1. CASE q = p
    <3>1. me'[q] = m /\ (owner' = q) = TRUE
      BY <1>2, <1>3, <2>1
    <3> QED
      BY <1>13, <3>1
  <2>2. CASE q # p
    <3>1. me'[q] = me[q] /\ (owner' = q) = FALSE
      BY <1>2, <1>3, <2>2
    <3>2. AdopterStands(me[q], FALSE, linked, cas, harmed, runs)
      BY <1>1, <1>10 DEF OwnInv
    <3>3. AdopterStands(me[q], FALSE, linked', cas', harmed', runs')
      BY <1>2, <3>2, RestStands
    <3> QED
      BY <3>1, <3>3
  <2> QED
    BY <2>1, <2>2
<1>15. OwnInv'
  BY <1>14 DEF OwnInv
<1>16. ShapeInv'
  <2>1. me' \in [Adopter -> Adoption]
    BY <1>2, <1>3, <1>5
  <2> QED
    BY <1>1, <1>2, <1>9, <2>1 DEF ShapeInv
<1>17. CatalogInv'
  BY <1>1, <1>2 DEF CatalogInv, LocationVerified, AssetsAgree
<1>18. (\A r \in DOMAIN runs : RunStands(runs[r]))'
  <2>1. RunStands(row)
    BY <1>8 DEF RunStands
  <2> QED
    BY <1>1, <1>9, <2>1
<1> QED
  BY <1>15, <1>16, <1>17, <1>18 DEF AdoptionInv

-----------------------------------------------------------------------------
(* The environment *)

(* Who reads a source that is written to finds out, and nobody else is     *)
(* touched.                                                                *)
LEMMA SourceChangeKeeps ==
  ASSUME AdoptionInv, EditSource \/ ReplaceSource
  PROVE  AdoptionInv'
<1>1. ShapeInv /\ OwnInv /\ CatalogInv /\ \A r \in DOMAIN runs : RunStands(runs[r])
  BY DEF AdoptionInv
<1>2. /\ UNCHANGED <<cas, residue, assets, linked, location, runs, owner, harmed>>
      /\ changes' = changes + 1 /\ changes < MaxChanges
  BY DEF EditSource, ReplaceSource, catalog
<1>3. /\ file \in [Path -> Content \cup {None, Link}] /\ me \in [Adopter -> Adoption]
      /\ changes \in 0..MaxChanges
  BY <1>1 DEF ShapeInv
<1>4. file' \in [Path -> Content \cup {None, Link}]
  BY <1>3 DEF EditSource, ReplaceSource
<1>5. /\ me' \in [Adopter -> Adoption]
      /\ \A q \in Adopter : me'[q] = me[q] \/ me'[q] = [me[q] EXCEPT !.touched = TRUE]
  <2>1. CASE EditSource
    <3>1. PICK path \in Path : me' = [q \in Adopter |->
             IF Reading(q, path) THEN [me[q] EXCEPT !.touched = TRUE] ELSE me[q]]
      BY <2>1 DEF EditSource
    <3>2. \A q \in Adopter : [me[q] EXCEPT !.touched = TRUE] \in Adoption
      BY <1>3 DEF Adoption
    <3> QED
      BY <1>3, <3>1, <3>2
  <2>2. CASE ReplaceSource
    BY <1>3, <2>2 DEF ReplaceSource
  <2> QED
    BY <2>1, <2>2
<1>6. ASSUME NEW q \in Adopter
      PROVE  AdopterStands(me'[q], owner = q, linked, cas, harmed, runs)
  <2> DEFINE old == me[q]
             new == me'[q]
  <2>1. AdopterStands(old, owner = q, linked, cas, harmed, runs)
    BY <1>1 DEF OwnInv
  <2>2. SameItem(new, old) /\ new.pc = old.pc /\ new.bytes = old.bytes
        /\ new.outcome = old.outcome
    <3>1. old \in Adoption /\ (new = old \/ new = [old EXCEPT !.touched = TRUE])
      BY <1>3, <1>5
    <3> HIDE DEF old, new
    <3>2. CASE new = old
      BY <3>2 DEF SameItem
    <3>3. CASE new = [old EXCEPT !.touched = TRUE]
      BY <3>1, <3>3 DEF SameItem, Adoption
    <3> QED
      BY <3>1, <3>2, <3>3
  <2> HIDE DEF old, new
  <2>3. /\ PlanStands(old.plan, old.since, linked) => PlanStands(new.plan, new.since, linked)
        /\ WorkStands(old, cas, harmed) => WorkStands(new, cas, harmed)
        /\ Accounts(old, runs[old.run]) => Accounts(new, runs[new.run])
    BY <2>2 DEF SameItem, WorkStands, Accounts
  <2>4. AdopterStands(new, owner = q, linked, cas, harmed, runs)
    <3>1. /\ old.pc \notin {"idle", "planned"} <=> owner = q
          /\ old.pc = "planned" => old.next = 1 /\ old.completed = 0 /\ old.failed = 0
          /\ old.pc # "idle" => PlanStands(old.plan, old.since, linked)
          /\ owner = q => /\ old.run \in DOMAIN runs /\ WorkStands(old, cas, harmed)
                          /\ Accounts(old, runs[old.run])
      BY <2>1 DEF AdopterStands
    <3>2. /\ new.pc = old.pc /\ new.next = old.next /\ new.run = old.run
          /\ new.completed = old.completed /\ new.failed = old.failed
      BY <2>2 DEF SameItem
    <3>3. /\ new.pc \notin {"idle", "planned"} <=> owner = q
          /\ new.pc = "planned" => new.next = 1 /\ new.completed = 0 /\ new.failed = 0
          /\ new.pc # "idle" => PlanStands(new.plan, new.since, linked)
      BY <2>3, <3>1, <3>2
    <3>4. owner = q => /\ new.run \in DOMAIN runs /\ WorkStands(new, cas, harmed)
                      /\ Accounts(new, runs[new.run])
      BY <2>3, <3>1, <3>2
    <3> QED
      BY <3>3, <3>4 DEF AdopterStands
  <2> QED
    BY <2>4 DEF new
<1>7. OwnInv'
  BY <1>2, <1>6 DEF OwnInv
<1>8. ShapeInv'
  <2>1. changes' \in 0..MaxChanges
    BY <1>2, <1>3, AdoptionAssumption
  <2> QED
    BY <1>1, <1>2, <1>4, <1>5, <2>1 DEF ShapeInv
<1>9. CatalogInv'
  BY <1>1, <1>2 DEF CatalogInv, LocationVerified, AssetsAgree
<1>10. (\A r \in DOMAIN runs : RunStands(runs[r]))'
  BY <1>1, <1>2
<1> QED
  BY <1>7, <1>8, <1>9, <1>10 DEF AdoptionInv

(* A file that rots after an adopter has verified it counts as harmed. *)
LEMMA HarmKeeps ==
  ASSUME AdoptionInv, Harm
  PROVE  AdoptionInv'
<1>1. ShapeInv /\ OwnInv /\ CatalogInv /\ \A r \in DOMAIN runs : RunStands(runs[r])
  BY DEF AdoptionInv
<1>2. /\ UNCHANGED <<file, residue, assets, linked, location, runs, owner, me>>
      /\ changes' = changes + 1 /\ changes < MaxChanges
  BY DEF Harm, catalog
<1>3. PICK b \in Content, new \in {None, "damaged"} :
        /\ cas[b] = "whole" /\ cas' = [cas EXCEPT ![b] = new]
        /\ harmed' = IF b \in location \/ \E p \in Adopter : me[p].pc = "commit" /\ me[p].bytes = b
                     THEN harmed \cup {b} ELSE harmed
  BY DEF Harm
<1>4. cas \in [Content -> State] /\ changes \in 0..MaxChanges /\ harmed \subseteq Content
  BY <1>1 DEF ShapeInv
<1>5. /\ cas' \in [Content -> State] /\ harmed \subseteq harmed' /\ harmed' \subseteq Content
      /\ \A x \in Content : cas[x] = "whole" =>
            cas'[x] = "whole" \/ x = b
      /\ b \in location \/ (\E p \in Adopter : me[p].pc = "commit" /\ me[p].bytes = b)
            => b \in harmed'
  BY <1>3, <1>4 DEF State
<1>6. ASSUME NEW q \in Adopter
      PROVE  AdopterStands(me[q], owner = q, linked, cas', harmed', runs)
  <2>1. AdopterStands(me[q], owner = q, linked, cas, harmed, runs)
    BY <1>1 DEF OwnInv
  <2>2. WorkStands(me[q], cas, harmed) => WorkStands(me[q], cas', harmed')
    BY <1>5 DEF WorkStands
  <2> QED
    BY <2>1, <2>2 DEF AdopterStands
<1>7. OwnInv'
  BY <1>2, <1>6 DEF OwnInv
<1>8. ShapeInv'
  <2>1. changes' \in 0..MaxChanges
    BY <1>2, <1>4, AdoptionAssumption
  <2> QED
    BY <1>1, <1>2, <1>5, <2>1 DEF ShapeInv
<1>9. CatalogInv'
  <2>1. location \subseteq Content
    BY <1>1 DEF ShapeInv
  <2> QED
    BY <1>1, <1>2, <1>5, <2>1 DEF CatalogInv, LocationVerified, AssetsAgree
<1>10. (\A r \in DOMAIN runs : RunStands(runs[r]))'
  BY <1>1, <1>2
<1> QED
  BY <1>7, <1>8, <1>9, <1>10 DEF AdoptionInv

-----------------------------------------------------------------------------
(* Adoption as a whole *)

(* Before the first plan the catalog is empty. *)
LEMMA AdoptionInit ==
  ASSUME Init
  PROVE  AdoptionInv
<1>1. \A p \in Adopter : me[p] = Idle
  BY DEF Init
<1>2. ShapeInv
  <2>1. /\ file \in [Path -> Content \cup {None, Link}] /\ cas \in [Content -> State]
    BY AdoptionAssumption DEF Init, State
  <2>2. me \in [Adopter -> Adoption]
    BY IdleIsAdoption DEF Init
  <2>3. IsInjective(assets) /\ assets \in Seq(Content) /\ runs \in Seq(RunRow)
    BY DEF Init, IsInjective
  <2>4. residue \in Nat /\ changes \in 0..MaxChanges
    BY AdoptionAssumption DEF Init
  <2> QED
    BY <2>1, <2>2, <2>3, <2>4 DEF Init, ShapeInv
<1>3. OwnInv
  <2>1. ASSUME NEW p \in Adopter
        PROVE  AdopterStands(me[p], owner = p, linked, cas, harmed, runs)
    <3>1. (owner = p) = FALSE
      BY AdoptionAssumption DEF Init
    <3>2. AdopterStands(Idle, FALSE, linked, cas, harmed, runs)
      BY IdleIsAdoption DEF AdopterStands
    <3> QED
      BY <1>1, <3>1, <3>2
  <2> QED
    BY <2>1 DEF OwnInv
<1>4. CatalogInv /\ \A r \in DOMAIN runs : RunStands(runs[r])
  BY DEF Init, CatalogInv, LocationVerified, AssetsAgree
<1> QED
  BY <1>2, <1>3, <1>4 DEF AdoptionInv

(* Every step of an adopter or of its environment. *)
LEMMA AdoptionKeeps ==
  ASSUME AdoptionInv, AdoptionNext
  PROVE  AdoptionInv'
<1>1. ASSUME NEW p \in Adopter, Step(p)
      PROVE  AdoptionInv'
  BY <1>1, BeginRunKeeps, PersistIneligibleKeeps, OpenSourceKeeps, ReuseLocationKeeps,
     StageSourceKeeps, InspectStagedKeeps, PublishStagedKeeps, CommitItemKeeps,
     PersistFailureKeeps, EndOfRunKeeps, LockRefusedKeeps DEF Step
<1>2. ASSUME NEW p \in Adopter,
             Plan(p) \/ PublishUnsupported(p) \/ CommitFails(p) \/ Kill(p)
      PROVE  AdoptionInv'
  BY <1>2, PlanKeeps, AdopterErrorKeeps, KillKeeps
<1>3. ASSUME EditSource \/ ReplaceSource \/ Harm
      PROVE  AdoptionInv'
  BY <1>3, SourceChangeKeeps, HarmKeeps
<1> QED
  BY <1>1, <1>2, <1>3 DEF AdoptionNext

-----------------------------------------------------------------------------
(* What a verification sees of an adoption *)

(* Staging names and the clock of the environment matter to nobody. *)
LEMMA RootRests ==
  ASSUME AdoptionInv, UNCHANGED <<file, cas, catalog, owner, me, harmed>>,
         residue' \in Nat, changes' \in 0..MaxChanges
  PROVE  AdoptionInv'
<1>1. ShapeInv /\ OwnInv /\ CatalogInv /\ \A r \in DOMAIN runs : RunStands(runs[r])
  BY DEF AdoptionInv
<1>2. UNCHANGED <<file, cas, assets, linked, location, runs, owner, me, harmed>>
  BY DEF catalog
<1>3. ShapeInv'
  BY <1>1, <1>2 DEF ShapeInv
<1>4. OwnInv'
  BY <1>1, <1>2 DEF OwnInv
<1>5. CatalogInv'
  BY <1>1, <1>2 DEF CatalogInv, LocationVerified, AssetsAgree
<1>6. (\A r \in DOMAIN runs : RunStands(runs[r]))'
  BY <1>1, <1>2
<1> QED
  BY <1>3, <1>4, <1>5, <1>6 DEF AdoptionInv

(* A file that changes was whole, and is harmed if it has a location; or   *)
(* somebody publishes it.                                                  *)
FileStays(b) ==
    \/ cas'[b] = cas[b]
    \/ cas[b] = "whole" /\ (b \in location => b \in harmed')
    \/ /\ cas[b] = None
       /\ \E p \in Adopter : me[p].pc = "publish" /\ me'[p].pc = "commit" /\ me[p].bytes = b

(* What a step of an adoption may do to files, locations and harm. *)
LEMMA AdoptionEffects ==
  ASSUME AdoptionInv, AdoptionNext
  PROVE  /\ location \subseteq location' /\ harmed \subseteq harmed'
         /\ \A b \in Content : FileStays(b)
<1>1. cas \in [Content -> State] /\ me \in [Adopter -> Adoption]
  BY DEF AdoptionInv, ShapeInv
<1>2. ASSUME UNCHANGED <<cas, location, harmed>>
      PROVE  /\ location \subseteq location' /\ harmed \subseteq harmed'
             /\ \A b \in Content : FileStays(b)
  BY <1>2 DEF FileStays
<1>3. ASSUME NEW p \in Adopter, PublishStaged(p)
      PROVE  /\ location \subseteq location' /\ harmed \subseteq harmed'
             /\ \A b \in Content : FileStays(b)
  <2>1. UNCHANGED <<location, harmed>>
    BY <1>3 DEF PublishStaged, catalog
  <2>2. CASE cas' = cas
    BY <2>1, <2>2 DEF FileStays
  <2>3. CASE cas' # cas
    <3>1. /\ me[p].pc = "publish"
          /\ cas' = [cas EXCEPT ![me[p].bytes] =
                        IF cas[me[p].bytes] = None THEN "whole" ELSE cas[me[p].bytes]]
          /\ \E outcome :
                me' = [me EXCEPT ![p] = [me[p] EXCEPT !.pc = "commit", !.outcome = outcome]]
      BY <1>3, <2>3 DEF PublishStaged, Set
    <3>2. me'[p].pc = "commit"
      BY <1>1, <3>1 DEF Adoption
    <3> QED
      BY <1>1, <2>1, <3>1, <3>2 DEF FileStays
  <2> QED
    BY <2>2, <2>3
<1>4. ASSUME NEW p \in Adopter, CommitItem(p)
      PROVE  /\ location \subseteq location' /\ harmed \subseteq harmed'
             /\ \A b \in Content : FileStays(b)
  BY <1>4 DEF CommitItem, FileStays
<1>5. ASSUME Harm
      PROVE  /\ location \subseteq location' /\ harmed \subseteq harmed'
             /\ \A b \in Content : FileStays(b)
  <2>1. UNCHANGED location
    BY <1>5 DEF Harm, catalog
  <2>2. PICK b \in Content, new \in {None, "damaged"} :
          /\ cas[b] = "whole" /\ cas' = [cas EXCEPT ![b] = new]
          /\ harmed' = IF b \in location \/ \E p \in Adopter : me[p].pc = "commit" /\ me[p].bytes = b
                       THEN harmed \cup {b} ELSE harmed
    BY <1>5 DEF Harm
  <2>3. harmed \subseteq harmed' /\ (b \in location => b \in harmed')
    BY <2>2
  <2> QED
    BY <1>1, <2>1, <2>2, <2>3 DEF FileStays
<1>6. ASSUME NEW p \in Adopter,
             Step(p) \/ Plan(p) \/ PublishUnsupported(p) \/ CommitFails(p) \/ Kill(p)
      PROVE  PublishStaged(p) \/ CommitItem(p) \/ UNCHANGED <<cas, location, harmed>>
  BY <1>6 DEF Step, Plan, PublishUnsupported, CommitFails, Kill, BeginRun, PersistIneligible,
     OpenSource, ReuseLocation, StageSource, InspectStaged, PersistFailure, FinishRun, FailRun,
     LockRefused, catalog
<1>7. ASSUME EditSource \/ ReplaceSource
      PROVE  UNCHANGED <<cas, location, harmed>>
  BY <1>7 DEF EditSource, ReplaceSource, catalog
<1> QED
  BY <1>2, <1>3, <1>4, <1>5, <1>6, <1>7 DEF AdoptionNext

(* The fields of a verification. *)
LEMMA PassFields ==
  ASSUME NEW w \in Verification
  PROVE  /\ w.pc \in {"idle", "rows", "tree", "walk", "staging", "done"}
         /\ w.rows \in SUBSET Content /\ w.todo \in SUBSET Content
         /\ w.reading \in Content \cup {None} /\ w.stirred \in BOOLEAN
         /\ w.limit \in Nat /\ w.examined \in Nat
         /\ w.findings \in SUBSET (Status \X (Content \cup {None}))
         /\ w.bad \in SUBSET Content /\ w.kept \in SUBSET Content
         /\ w.relinked \in SUBSET Content
BY DEF Verification

(* An adoption beside a verification: a location whose file changes while  *)
(* it is read has been harmed, for none is ever replaced.                  *)
LEMMA AdoptionStepKeeps ==
  ASSUME Inv, AdoptionStep
  PROVE  Inv'
<1> DEFINE stir == v.stirred \/ (v.reading # None /\ cas'[v.reading] # cas[v.reading])
           bad == v.bad \cap {b \in Content : cas'[b] # "whole"}
           kept == v.kept \cap {b \in Content : cas'[b] # None}
           w == [v EXCEPT !.stirred = stir, !.bad = bad, !.kept = kept]
<1>1. AdoptionInv /\ DirsInv /\ v \in Verification /\ AdoptionNext
      /\ PassStands(v, cas, location, harmed) /\ FindingsStand(v, harmed) /\ Exhaustive(v)
  BY DEF Inv, PassInv, AdoptionStep
<1>2. AdoptionInv'
  BY <1>1, AdoptionKeeps
<1>3. /\ location \subseteq location' /\ harmed \subseteq harmed'
      /\ \A b \in Content : FileStays(b)
  BY <1>1, AdoptionEffects
<1>4. v' = w
  BY DEF AdoptionStep
<1>5. stir \in BOOLEAN /\ bad \in SUBSET Content /\ kept \in SUBSET Content
  BY <1>1, PassFields
<1>6. bad \subseteq v.bad /\ kept \subseteq v.kept
  OBVIOUS
<1>7. /\ bad \subseteq {b \in Content : cas'[b] # "whole"}
      /\ kept \subseteq {b \in Content : cas'[b] # None}
  OBVIOUS
<1>8. stir => v.reading \in harmed' \cup v.relinked
  <2>1. CASE v.stirred
    BY <1>1, <1>3, <2>1 DEF PassStands
  <2>2. CASE v.reading # None /\ cas'[v.reading] # cas[v.reading]
    <3>1. v.reading \in location /\ v.reading \in Content
      BY <1>1, <2>2, PassFields DEF PassStands
    <3>2. cas[v.reading] = "whole" \/ v.reading \in harmed
      BY <1>1, <3>1 DEF AdoptionInv, CatalogInv, LocationVerified
    <3>3. FileStays(v.reading)
      BY <1>3, <3>1
    <3>4. None # "whole"
      BY AdoptionAssumption
    <3> QED
      BY <1>3, <2>2, <3>1, <3>2, <3>3, <3>4 DEF FileStays
  <2> QED
    BY <2>1, <2>2
<1> HIDE DEF stir, bad, kept
<1>9. /\ w \in Verification /\ w.pc = v.pc /\ w.rows = v.rows /\ w.todo = v.todo
      /\ w.reading = v.reading /\ w.stirred = stir /\ w.limit = v.limit
      /\ w.examined = v.examined /\ w.findings = v.findings /\ w.relinked = v.relinked
      /\ w.bad = bad /\ w.kept = kept
  BY <1>1, <1>5 DEF Verification
<1> HIDE DEF w
<1>10. PassStands(w, cas', location', harmed')
  BY <1>1, <1>3, <1>7, <1>8, <1>9 DEF PassStands
<1>11. FindingsStand(w, harmed')
  BY <1>1, <1>3, <1>6, <1>9 DEF FindingsStand
<1>12. Exhaustive(w)
  BY <1>1, <1>6, <1>9 DEF Exhaustive
<1>13. DirsInv'
  <2> DEFINE new == {me[p].bytes : p \in {q \in Adopter : me[q].pc = "publish"
                                            /\ me'[q].pc \notin {"publish", "idle"}}}
  <2>1. dirs' = dirs \cup new
    BY DEF AdoptionStep
  <2>2. new \subseteq Content
    <3>1. ASSUME NEW q \in Adopter, me[q].pc = "publish"
          PROVE  me[q].bytes \in Content
      <4>1. WorkStands(me[q], cas, harmed)
        BY <1>1, <3>1, HolderFacts DEF AdoptionInv, Working, Label
      <4> QED
        BY <3>1, <4>1 DEF WorkStands
    <3> QED
      BY <3>1
  <2>3. ASSUME NEW b \in Content, cas'[b] # None
        PROVE  b \in dirs \cup new
    <3>1. CASE cas[b] # None
      BY <1>1, <3>1 DEF DirsInv
    <3>2. CASE cas[b] = None
      <4>1. PICK p \in Adopter : me[p].pc = "publish" /\ me'[p].pc = "commit" /\ me[p].bytes = b
        BY <1>3, <2>3, <3>2, AdoptionAssumption DEF FileStays
      <4> QED
        BY <4>1
    <3> QED
      BY <3>1, <3>2
  <2> HIDE DEF new
  <2> QED
    BY <1>1, <2>1, <2>2, <2>3 DEF DirsInv
<1> QED
  BY <1>2, <1>4, <1>9, <1>10, <1>11, <1>12, <1>13 DEF Inv, PassInv

-----------------------------------------------------------------------------
(* The steps of a verification *)

(* What a verification relies on. *)
LEMMA PassFacts ==
  ASSUME Inv
  PROVE  /\ AdoptionInv /\ DirsInv /\ v \in Verification
         /\ PassStands(v, cas, location, harmed) /\ FindingsStand(v, harmed) /\ Exhaustive(v)
         /\ location \subseteq Content /\ cas \in [Content -> State] /\ residue \in Nat
         /\ None \notin Content /\ None \notin {"whole", "damaged"}
         /\ \A b \in location : cas[b] = "whole" \/ b \in harmed
BY AdoptionAssumption DEF Inv, PassInv, AdoptionInv, ShapeInv, CatalogInv, LocationVerified

(* The verification reads and changes nothing but its own state. *)
LEMMA PassMoves ==
  ASSUME Inv, UNCHANGED <<vars, dirs>>, NEW w \in Verification, v' = w,
         PassStands(w, cas, location, harmed), FindingsStand(w, harmed), Exhaustive(w)
  PROVE  Inv'
<1>1. /\ UNCHANGED <<file, cas, residue, catalog, owner, me, changes, harmed, dirs>>
      /\ UNCHANGED <<cas, location, harmed>>
  BY DEF vars, catalog
<1>2. AdoptionInv'
  BY <1>1, RootRests DEF Inv, AdoptionInv, ShapeInv
<1>3. DirsInv'
  BY <1>1 DEF Inv, DirsInv
<1>4. PassInv'
  BY <1>1 DEF PassInv
<1> QED
  BY <1>2, <1>3, <1>4 DEF Inv

(* The locations are read once, and each is still to be looked at. *)
LEMMA BeginVerifyKeeps ==
  ASSUME Inv, BeginVerify
  PROVE  Inv'
<1>1. location \subseteq Content /\ None \notin Content
  BY PassFacts
<1>2. PICK limit \in EntryLimits :
        v' = [Quiet EXCEPT !.pc = "rows", !.rows = location, !.todo = location, !.limit = limit,
                           !.bad = {b \in Content : cas[b] # "whole"},
                           !.kept = {b \in Content : cas[b] # None}]
  BY DEF BeginVerify
<1> DEFINE bad == {b \in Content : cas[b] # "whole"}
           kept == {b \in Content : cas[b] # None}
           w == [pc |-> "rows", rows |-> location, todo |-> location, reading |-> None,
                 stirred |-> FALSE, limit |-> limit, examined |-> 0, findings |-> {},
                 bad |-> bad, kept |-> kept, relinked |-> {}]
<1>3. v' = w
  BY <1>2 DEF Quiet
<1>4. limit \in Nat /\ limit > 0
  BY VerificationAssumption
<1>5. bad \in SUBSET Content /\ kept \in SUBSET Content
  OBVIOUS
<1>6. PassStands(w, cas, location, harmed)
  BY <1>4 DEF PassStands
<1>7. FindingsStand(w, harmed) /\ Exhaustive(w)
  BY DEF FindingsStand, Exhaustive
<1> HIDE DEF bad, kept
<1>8. w \in Verification
  BY <1>1, <1>4, <1>5 DEF Verification
<1> QED
  BY <1>3, <1>6, <1>7, <1>8, PassMoves DEF BeginVerify

(* A finding with a cause takes a row off the list. *)
LEMMA LocationKeeps ==
  ASSUME Inv, v.pc = "rows", NEW b \in v.todo, NEW status \in {"valid", "missing", "corrupt"},
         status = "valid" => b \notin v.bad,
         status = "missing" => b \in harmed,
         status = "corrupt" => b \in harmed \cup Unverifiable \cup v.relinked,
         v' = LocationFinding(b, status), UNCHANGED <<vars, dirs>>
  PROVE  Inv'
<1> DEFINE found == v.findings \cup {<<status, b>>}
           todo == v.todo \ {b}
           examined == v.examined + 1
           next == [v EXCEPT !.findings = found, !.todo = todo, !.reading = None,
                             !.stirred = FALSE, !.examined = examined]
           full == found \cup {Limit}
           last == [next EXCEPT !.findings = full, !.todo = {}, !.pc = "done"]
<1>1. /\ v \in Verification /\ PassStands(v, cas, location, harmed) /\ FindingsStand(v, harmed)
      /\ Exhaustive(v)
  BY PassFacts
<1>2. /\ v.findings \in SUBSET (Status \X (Content \cup {None})) /\ v.todo \in SUBSET Content
      /\ v.examined \in Nat /\ v.limit \in Nat /\ b \in Content /\ v.examined < v.limit
      /\ v.todo \subseteq v.rows
  BY <1>1, PassFields DEF PassStands
<1>3. /\ found \in SUBSET (Status \X (Content \cup {None})) /\ todo \in SUBSET Content
      /\ examined \in Nat /\ full \in SUBSET (Status \X (Content \cup {None}))
  BY <1>2 DEF Status, Limit
<1>4. /\ \A x \in Content : /\ <<"missing", x>> \in found => x \in harmed
                            /\ <<"corrupt", x>> \in found =>
                                  x \in harmed \cup Unverifiable \cup v.relinked
                            /\ <<"valid", x>> \in found => x \notin v.bad
                            /\ <<"orphaned", x>> \in found => x \notin v.rows
      /\ \A s \in {"missing", "corrupt", "valid", "orphaned"} : \A x :
            <<s, x>> \in full => <<s, x>> \in found
  BY <1>1 DEF FindingsStand, Limit
<1>5. \A x \in v.rows \ todo : Located(x, found)
  <2>1. Located(b, found)
    BY DEF Located
  <2>2. \A x \in v.rows \ v.todo : Located(x, found)
    BY <1>1 DEF Exhaustive, Located
  <2> QED
    BY <2>1, <2>2
<1>6. v' = IF next.examined >= v.limit THEN last ELSE next
  BY Zenon DEF LocationFinding
<1> HIDE DEF found, todo, examined, full
<1>7. /\ next \in Verification /\ next.pc = "rows" /\ next.rows = v.rows /\ next.todo = todo
      /\ next.reading = None /\ next.stirred = FALSE /\ next.limit = v.limit
      /\ next.examined = examined /\ next.findings = found /\ next.bad = v.bad
      /\ next.kept = v.kept /\ next.relinked = v.relinked
  BY <1>1, <1>3 DEF Verification
<1> HIDE DEF next
<1>8. /\ last \in Verification /\ last.pc = "done" /\ last.rows = v.rows /\ last.todo = {}
      /\ last.reading = None /\ last.stirred = FALSE /\ last.limit = v.limit
      /\ last.examined = examined /\ last.findings = full /\ last.bad = v.bad
      /\ last.kept = v.kept /\ last.relinked = v.relinked
  BY <1>3, <1>7 DEF Verification
<1> HIDE DEF last
<1>9. CASE next.examined >= v.limit
  <2>1. examined <= v.limit /\ Limit \in full
    BY <1>2 DEF examined, full
  <2>2. PassStands(last, cas, location, harmed)
    BY <1>1, <1>8, <2>1 DEF PassStands
  <2>3. FindingsStand(last, harmed)
    BY <1>4, <1>8 DEF FindingsStand
  <2>4. Exhaustive(last)
    BY <1>8, <2>1 DEF Exhaustive
  <2>5. v' = last
    BY <1>6, <1>9
  <2> QED
    BY <1>8, <2>2, <2>3, <2>4, <2>5, PassMoves
<1>10. CASE ~ (next.examined >= v.limit)
  <2>1. examined < v.limit /\ examined <= v.limit /\ todo \subseteq v.rows
    BY <1>2, <1>3, <1>7, <1>10 DEF todo
  <2>2. PassStands(next, cas, location, harmed)
    BY <1>1, <1>7, <2>1 DEF PassStands
  <2>3. FindingsStand(next, harmed)
    BY <1>4, <1>7 DEF FindingsStand
  <2>4. Exhaustive(next)
    BY <1>5, <1>7 DEF Exhaustive
  <2>5. v' = next
    BY <1>6, <1>10
  <2> QED
    BY <1>7, <2>2, <2>3, <2>4, <2>5, PassMoves
<1> QED
  BY <1>9, <1>10

(* A location without a file was harmed. *)
LEMMA OpenTargetKeeps ==
  ASSUME Inv, OpenTarget
  PROVE  Inv'
<1> DEFINE b == First(v.todo)
<1>1. /\ v \in Verification /\ PassStands(v, cas, location, harmed) /\ FindingsStand(v, harmed)
      /\ Exhaustive(v) /\ None \notin Content /\ None \notin {"whole", "damaged"}
      /\ \A x \in location : cas[x] = "whole" \/ x \in harmed
  BY PassFacts
<1>2. v.pc = "rows" /\ v.todo # {} /\ v.reading = None /\ UNCHANGED <<vars, dirs>>
      /\ v' = IF cas[b] = None THEN LocationFinding(b, "missing") ELSE [v EXCEPT !.reading = b]
  BY DEF OpenTarget
<1>3. b \in v.todo
  BY <1>2 DEF First
<1>4. b \in Content /\ b \in location
  BY <1>1, <1>2, <1>3, PassFields DEF PassStands
<1> HIDE DEF b
<1>5. CASE cas[b] = None
  <2>1. b \in harmed
    BY <1>1, <1>4, <1>5
  <2>2. v' = LocationFinding(b, "missing")
    BY <1>2, <1>5
  <2> QED
    BY <1>2, <1>3, <2>1, <2>2, LocationKeeps
<1>6. CASE cas[b] # None
  <2> DEFINE w == [v EXCEPT !.reading = b]
  <2>1. /\ w \in Verification /\ w.pc = "rows" /\ w.rows = v.rows /\ w.todo = v.todo
        /\ w.reading = b /\ w.stirred = v.stirred /\ w.limit = v.limit
        /\ w.examined = v.examined /\ w.findings = v.findings /\ w.bad = v.bad
        /\ w.kept = v.kept /\ w.relinked = v.relinked
    BY <1>1, <1>2, <1>4 DEF Verification
  <2>2. v' = w
    BY <1>2, <1>6
  <2> HIDE DEF w
  <2>3. ~ v.stirred
    <3>1. harmed \cup v.relinked \subseteq Content
      BY <1>1, PassFields DEF Inv, AdoptionInv, ShapeInv
    <3> QED
      BY <1>1, <1>2, <3>1 DEF PassStands
  <2>4. PassStands(w, cas, location, harmed)
    BY <1>1, <1>2, <1>3, <2>1, <2>3 DEF PassStands
  <2>5. FindingsStand(w, harmed) /\ Exhaustive(w)
    BY <1>1, <1>2, <2>1 DEF FindingsStand, Exhaustive
  <2> QED
    BY <1>2, <2>1, <2>2, <2>4, <2>5, PassMoves
<1> QED
  BY <1>5, <1>6

(* A location that reads as corrupt was harmed, is over the limit, or was  *)
(* relinked; one that reads as valid was whole once since the beginning.   *)
LEMMA ReadTargetKeeps ==
  ASSUME Inv, ReadTarget
  PROVE  Inv'
<1> DEFINE b == v.reading
           status == TargetStatus(b)
<1>1. /\ v \in Verification /\ PassStands(v, cas, location, harmed) /\ cas \in [Content -> State]
      /\ \A x \in location : cas[x] = "whole" \/ x \in harmed
  BY PassFacts
<1>2. v.pc = "rows" /\ b \in v.todo /\ b \in Content /\ b \in location
      /\ v' = LocationFinding(b, status) /\ UNCHANGED <<vars, dirs>>
  BY <1>1, PassFields DEF ReadTarget, PassStands
<1>3. status \in {"valid", "missing", "corrupt"} /\ status # "missing"
  BY DEF TargetStatus
<1>4. status = "valid" => b \notin v.bad
  BY <1>1, <1>2 DEF TargetStatus, PassStands
<1>5. status = "corrupt" => b \in harmed \cup Unverifiable \cup v.relinked
  BY <1>1, <1>2 DEF TargetStatus, PassStands
<1> HIDE DEF b, status
<1> QED
  BY <1>2, <1>3, <1>4, <1>5, LocationKeeps

(* When the rows are through, every location has a finding, and whatever is *)
(* in the managed root has a directory.                                    *)
LEMMA ScanTreeKeeps ==
  ASSUME Inv, ScanTree
  PROVE  Inv'
<1>1. /\ v \in Verification /\ PassStands(v, cas, location, harmed) /\ FindingsStand(v, harmed)
      /\ Exhaustive(v) /\ DirsInv
  BY PassFacts
<1>2. v.pc = "rows" /\ v.todo = {} /\ UNCHANGED <<vars, dirs>>
      /\ v.reading = None
  BY DEF ScanTree
<1>3. /\ \A x \in v.rows : Located(x, v.findings)
      /\ v.kept \subseteq dirs /\ dirs \in SUBSET Content /\ ~ (v.pc # "rows")
  BY <1>1, <1>2 DEF Exhaustive, PassStands, DirsInv
<1>4. CASE dirs = {}
  <2> DEFINE w == [v EXCEPT !.pc = "staging"]
  <2>1. /\ w \in Verification /\ w.pc = "staging" /\ w.rows = v.rows
        /\ w.reading = v.reading /\ w.stirred = v.stirred /\ w.limit = v.limit
        /\ w.examined = v.examined /\ w.findings = v.findings /\ w.bad = v.bad
        /\ w.kept = v.kept /\ w.relinked = v.relinked
    BY <1>1 DEF Verification
  <2>2. v' = w
    BY <1>4 DEF ScanTree
  <2> HIDE DEF w
  <2>3. PassStands(w, cas, location, harmed)
    BY <1>1, <1>2, <2>1 DEF PassStands
  <2>4. FindingsStand(w, harmed)
    BY <1>1, <2>1 DEF FindingsStand
  <2>5. Exhaustive(w)
    BY <1>3, <1>4, <2>1 DEF Exhaustive
  <2> QED
    BY <1>2, <2>1, <2>2, <2>3, <2>4, <2>5, PassMoves
<1>5. CASE dirs # {} /\ Overflows(Cardinality(dirs))
  <2> DEFINE found == v.findings \cup {Limit}
             w == [v EXCEPT !.pc = "staging", !.findings = found]
  <2>1. found \in SUBSET (Status \X (Content \cup {None})) /\ Limit \in found
    BY <1>1, PassFields DEF Limit, Status
  <2>2. \A s \in {"missing", "corrupt", "valid", "orphaned"} : \A x :
           <<s, x>> \in found => <<s, x>> \in v.findings
    BY DEF Limit
  <2>3. v' = [v EXCEPT !.pc = "staging", !.findings = found]
    BY <1>5, Zenon DEF ScanTree
  <2> HIDE DEF found
  <2>4. /\ w \in Verification /\ w.pc = "staging" /\ w.rows = v.rows
        /\ w.reading = v.reading /\ w.stirred = v.stirred /\ w.limit = v.limit
        /\ w.examined = v.examined /\ w.findings = found /\ w.bad = v.bad
        /\ w.kept = v.kept /\ w.relinked = v.relinked
    BY <1>1, <2>1 DEF Verification
  <2> HIDE DEF w
  <2>5. PassStands(w, cas, location, harmed)
    BY <1>1, <1>2, <2>4 DEF PassStands
  <2>6. FindingsStand(w, harmed)
    BY <1>1, <2>2, <2>4 DEF FindingsStand
  <2>7. Exhaustive(w)
    BY <2>1, <2>4 DEF Exhaustive
  <2> QED
    BY <1>2, <2>3, <2>4, <2>5, <2>6, <2>7, PassMoves DEF w
<1>6. CASE dirs # {} /\ ~ Overflows(Cardinality(dirs))
  <2> DEFINE w == [v EXCEPT !.pc = "walk", !.todo = dirs]
  <2>0. v' = w
    BY <1>6, Zenon DEF ScanTree
  <2>1. /\ w \in Verification /\ w.pc = "walk" /\ w.rows = v.rows /\ w.todo = dirs
        /\ w.reading = v.reading /\ w.stirred = v.stirred /\ w.limit = v.limit
        /\ w.examined = v.examined /\ w.findings = v.findings /\ w.bad = v.bad
        /\ w.kept = v.kept /\ w.relinked = v.relinked
    BY <1>1, <1>3 DEF Verification
  <2> HIDE DEF w
  <2>3. PassStands(w, cas, location, harmed)
    BY <1>1, <1>2, <2>1 DEF PassStands
  <2>4. FindingsStand(w, harmed)
    BY <1>1, <2>1 DEF FindingsStand
  <2>5. Exhaustive(w)
    BY <1>3, <2>1 DEF Exhaustive
  <2> QED
    BY <1>2, <2>1, <2>0, <2>3, <2>4, <2>5, PassMoves
<1> QED
  BY <1>4, <1>5, <1>6

(* A directory that was walked leaves no file of its own unaccounted for.  *)
LEMMA WalkPrefixKeeps ==
  ASSUME Inv, WalkPrefix
  PROVE  Inv'
<1> DEFINE b == First(v.todo)
           seen == IF cas[b] = None THEN 2 ELSE 3
           full == v.findings \cup {Limit}
           found == v.findings \cup OrphanFinding(b)
           last == [v EXCEPT !.pc = "staging", !.todo = {}, !.examined = v.limit,
                             !.findings = full]
           next == [v EXCEPT !.todo = v.todo \ {b}, !.findings = found,
                             !.examined = v.examined + seen]
<1>1. /\ v \in Verification /\ PassStands(v, cas, location, harmed) /\ FindingsStand(v, harmed)
      /\ Exhaustive(v) /\ None \notin Content
  BY PassFacts
<1>2. v.pc = "walk" /\ v.todo # {} /\ UNCHANGED <<vars, dirs>>
      /\ v' = IF v.examined + 3 > v.limit THEN last ELSE next
  BY DEF WalkPrefix
<1>3. b \in v.todo
  BY <1>2 DEF First
<1>4. /\ v.findings \in SUBSET (Status \X (Content \cup {None})) /\ v.todo \in SUBSET Content
      /\ v.examined \in Nat /\ v.limit \in Nat /\ b \in Content /\ v.todo \ {b} \in SUBSET Content
  BY <1>1, <1>3, PassFields
<1> HIDE DEF b
<1>5. CASE v.examined + 3 > v.limit
  <2>1. full \in SUBSET (Status \X (Content \cup {None})) /\ Limit \in full
    BY <1>4 DEF Limit, Status
  <2>2. \A s \in {"missing", "corrupt", "valid", "orphaned"} : \A x :
           <<s, x>> \in full => <<s, x>> \in v.findings
    BY DEF Limit
  <2> HIDE DEF full
  <2>3. v' = last
    BY <1>2, <1>5
  <2>4. /\ last \in Verification /\ last.pc = "staging" /\ last.rows = v.rows
        /\ last.reading = v.reading /\ last.stirred = v.stirred /\ last.limit = v.limit
        /\ last.examined = v.limit /\ last.findings = full /\ last.bad = v.bad
        /\ last.kept = v.kept /\ last.relinked = v.relinked
    BY <1>1, <1>4, <2>1 DEF Verification
  <2> HIDE DEF last
  <2>5. PassStands(last, cas, location, harmed)
    BY <1>1, <1>2, <1>4, <2>4 DEF PassStands
  <2>6. FindingsStand(last, harmed)
    BY <1>1, <2>2, <2>4 DEF FindingsStand
  <2>7. Exhaustive(last)
    BY <2>1, <2>4 DEF Exhaustive
  <2> QED
    BY <1>2, <2>3, <2>4, <2>5, <2>6, <2>7, PassMoves
<1>6. CASE ~ (v.examined + 3 > v.limit)
  <2>1. found \in SUBSET (Status \X (Content \cup {None}))
    BY <1>4 DEF OrphanFinding, Status
  <2>2. /\ \A s \in {"missing", "corrupt", "valid"} : \A x :
             <<s, x>> \in found => <<s, x>> \in v.findings
        /\ \A x : <<"orphaned", x>> \in found =>
             <<"orphaned", x>> \in v.findings \/ (x = b /\ b \notin v.rows)
        /\ v.findings \subseteq found
    BY DEF OrphanFinding
  <2>3. Limit \in found => Limit \in v.findings
    BY DEF OrphanFinding, Limit
  <2>4. Limit \notin v.findings => /\ \A x \in v.rows : Located(x, found)
                                   /\ v.kept \subseteq (v.todo \ {b}) \cup Named(found)
    <3> SUFFICES ASSUME Limit \notin v.findings
                 PROVE  /\ \A x \in v.rows : Located(x, found)
                        /\ v.kept \subseteq (v.todo \ {b}) \cup Named(found)
      OBVIOUS
    <3>1. \A x \in v.rows : Located(x, v.findings)
      BY <1>1, <1>2 DEF Exhaustive
    <3>2. \A x \in v.rows : Located(x, found)
      BY <2>2, <3>1 DEF Located
    <3>3. v.kept \subseteq v.todo \cup Named(v.findings) /\ Named(v.findings) \subseteq Named(found)
      BY <1>1, <1>2, <2>2 DEF Exhaustive, Named
    <3>4. b \in v.kept => b \in Named(found)
      <4>1. CASE b \in v.rows
        <5>1. PICK s \in {"valid", "missing", "corrupt"} : <<s, b>> \in found
          BY <3>2, <4>1 DEF Located
        <5> HIDE DEF found
        <5>2. <<s, b>>[2] = b
          OBVIOUS
        <5> QED
          BY <5>1, <5>2 DEF Named
      <4>2. CASE b \notin v.rows /\ b \in v.kept
        <5>1. cas[b] # None
          BY <1>1, <4>2 DEF PassStands
        <5>2. <<"orphaned", b>> \in found
          BY <4>2, <5>1 DEF OrphanFinding
        <5> HIDE DEF found
        <5>3. <<"orphaned", b>>[2] = b
          OBVIOUS
        <5> QED
          BY <5>2, <5>3 DEF Named
      <4> QED
        BY <4>1, <4>2
    <3> HIDE DEF found
    <3> QED
      BY <3>2, <3>3, <3>4
  <2>5. seen \in {2, 3}
    OBVIOUS
  <2> HIDE DEF found, seen
  <2>6. v.examined + seen \in Nat /\ v.examined + seen <= v.limit
    BY <1>4, <1>6, <2>5
  <2>7. v' = next
    BY <1>2, <1>6
  <2>8. /\ next \in Verification /\ next.pc = "walk" /\ next.rows = v.rows
        /\ next.todo = v.todo \ {b}
        /\ next.reading = v.reading /\ next.stirred = v.stirred /\ next.limit = v.limit
        /\ next.examined = v.examined + seen /\ next.findings = found /\ next.bad = v.bad
        /\ next.kept = v.kept /\ next.relinked = v.relinked
    BY <1>1, <1>2, <1>4, <2>1, <2>6 DEF Verification
  <2> HIDE DEF next
  <2>9. PassStands(next, cas, location, harmed)
    BY <1>1, <1>2, <2>6, <2>8 DEF PassStands
  <2>10. FindingsStand(next, harmed)
    BY <1>1, <2>2, <2>8 DEF FindingsStand
  <2>11. Exhaustive(next)
    BY <2>3, <2>4, <2>8, <2>2 DEF Exhaustive
  <2> QED
    BY <1>2, <2>7, <2>8, <2>9, <2>10, <2>11, PassMoves
<1> QED
  BY <1>5, <1>6

(* The names in staging end the report, or the limit does. *)
LEMMA ScanStagingKeeps ==
  ASSUME Inv, ScanStaging
  PROVE  Inv'
<1> DEFINE full == v.findings \cup {Limit}
           found == v.findings \cup (IF residue = 0 THEN {} ELSE {<<"stale_staging", None>>})
           last == [v EXCEPT !.pc = "done", !.findings = full]
           next == [v EXCEPT !.pc = "done", !.examined = v.examined + residue,
                             !.findings = found]
<1>1. /\ v \in Verification /\ PassStands(v, cas, location, harmed) /\ FindingsStand(v, harmed)
      /\ Exhaustive(v) /\ residue \in Nat
  BY PassFacts
<1>2. v.pc = "staging" \/ (v.pc = "walk" /\ v.todo = {})
  BY DEF ScanStaging
<1>3. UNCHANGED <<vars, dirs>>
  BY DEF ScanStaging
<1>4. /\ v.findings \in SUBSET (Status \X (Content \cup {None}))
      /\ v.examined \in Nat /\ v.limit \in Nat /\ v.reading = None
  BY <1>1, <1>2, PassFields DEF PassStands
<1>5. CASE Overflows(residue)
  <2>1. full \in SUBSET (Status \X (Content \cup {None})) /\ Limit \in full
    BY <1>4 DEF Limit, Status
  <2>2. \A s \in {"missing", "corrupt", "valid", "orphaned"} : \A x :
           <<s, x>> \in full => <<s, x>> \in v.findings
    BY DEF Limit
  <2>3. v' = last
    BY <1>5, Zenon DEF ScanStaging
  <2> HIDE DEF full
  <2>4. /\ last \in Verification /\ last.pc = "done" /\ last.rows = v.rows
        /\ last.reading = v.reading /\ last.stirred = v.stirred /\ last.limit = v.limit
        /\ last.examined = v.examined /\ last.findings = full /\ last.bad = v.bad
        /\ last.kept = v.kept /\ last.relinked = v.relinked
    BY <1>1, <2>1 DEF Verification
  <2> HIDE DEF last
  <2>5. PassStands(last, cas, location, harmed)
    BY <1>1, <1>4, <2>4 DEF PassStands
  <2>6. FindingsStand(last, harmed)
    BY <1>1, <2>2, <2>4 DEF FindingsStand
  <2>7. Exhaustive(last)
    BY <2>1, <2>4 DEF Exhaustive
  <2> QED
    BY <1>3, <2>3, <2>4, <2>5, <2>6, <2>7, PassMoves
<1>6. CASE ~ Overflows(residue)
  <2>1. found \in SUBSET (Status \X (Content \cup {None})) /\ v.findings \subseteq found
    BY <1>4 DEF Status
  <2>2. /\ \A s \in {"missing", "corrupt", "valid", "orphaned"} : \A x :
             <<s, x>> \in found => <<s, x>> \in v.findings
        /\ Limit \in found => Limit \in v.findings
    BY DEF Limit
  <2>3. v' = next
    BY <1>6, Zenon DEF ScanStaging
  <2> HIDE DEF found
  <2>4. v.examined + residue \in Nat /\ v.examined + residue <= v.limit
    BY <1>1, <1>4, <1>6 DEF Overflows
  <2>5. /\ next \in Verification /\ next.pc = "done" /\ next.rows = v.rows
        /\ next.reading = v.reading /\ next.stirred = v.stirred /\ next.limit = v.limit
        /\ next.examined = v.examined + residue /\ next.findings = found /\ next.bad = v.bad
        /\ next.kept = v.kept /\ next.relinked = v.relinked
    BY <1>1, <2>1, <2>4 DEF Verification
  <2> HIDE DEF next
  <2>6. PassStands(next, cas, location, harmed)
    BY <1>1, <1>4, <2>4, <2>5 DEF PassStands
  <2>7. FindingsStand(next, harmed)
    BY <1>1, <2>2, <2>5 DEF FindingsStand
  <2>8. Limit \notin v.findings => /\ \A x \in v.rows : Located(x, v.findings)
                                   /\ v.kept \subseteq Named(v.findings)
    BY <1>1, <1>2 DEF Exhaustive
  <2>9. /\ \A x : Located(x, v.findings) => Located(x, found)
        /\ Named(v.findings) \subseteq Named(found)
    BY <2>1 DEF Located, Named
  <2>10. Exhaustive(next)
    <3>1. Limit \notin found => /\ \A x \in v.rows : Located(x, found)
                                /\ v.kept \subseteq Named(found)
      <4> HIDE DEF Limit
      <4> QED
        BY <2>1, <2>8, <2>9
    <3> QED
      BY <2>5, <3>1 DEF Exhaustive
  <2> QED
    BY <1>3, <2>3, <2>5, <2>6, <2>7, <2>10, PassMoves
<1> QED
  BY <1>5, <1>6

(* A reconciliation is remembered for the contents it gives a second name. *)
LEMMA RelinkKeeps ==
  ASSUME Inv, Relink
  PROVE  Inv'
<1>1. /\ v \in Verification /\ PassStands(v, cas, location, harmed) /\ FindingsStand(v, harmed)
      /\ Exhaustive(v) /\ residue \in Nat /\ AdoptionInv
  BY PassFacts
<1>2. PICK b \in Content :
        /\ residue' = residue + 1 /\ changes' = changes + 1
        /\ v' = [v EXCEPT !.stirred = @ \/ v.reading = b, !.relinked = @ \cup {b}]
  BY DEF Relink
<1>3. /\ UNCHANGED <<file, cas, catalog, owner, me, harmed>>
      /\ UNCHANGED <<cas, location, harmed, dirs>> /\ changes < MaxChanges
  BY DEF Relink, catalog
<1> DEFINE stir == v.stirred \/ v.reading = b
           relinked == v.relinked \cup {b}
           w == [v EXCEPT !.stirred = stir, !.relinked = relinked]
<1>4. AdoptionInv'
  <2>1. changes \in 0..MaxChanges
    BY <1>1 DEF AdoptionInv, ShapeInv
  <2>2. changes' \in 0..MaxChanges /\ residue' \in Nat
    BY <1>1, <1>2, <1>3, <2>1, AdoptionAssumption
  <2> QED
    BY <1>1, <1>3, <2>2, RootRests
<1>5. DirsInv'
  BY <1>3 DEF Inv, DirsInv
<1>6. v' = w
  BY <1>2
<1>7. stir \in BOOLEAN /\ relinked \in SUBSET Content /\ v.relinked \subseteq relinked
  BY <1>1, PassFields
<1>8. stir => v.reading \in harmed \cup relinked
  BY <1>1 DEF PassStands
<1> HIDE DEF stir, relinked
<1>9. /\ w \in Verification /\ w.pc = v.pc /\ w.rows = v.rows /\ w.todo = v.todo
      /\ w.reading = v.reading /\ w.stirred = stir /\ w.limit = v.limit
      /\ w.examined = v.examined /\ w.findings = v.findings /\ w.bad = v.bad
      /\ w.kept = v.kept /\ w.relinked = relinked
  BY <1>1, <1>7 DEF Verification
<1> HIDE DEF w
<1>10. PassStands(w, cas, location, harmed)
  BY <1>1, <1>7, <1>8, <1>9 DEF PassStands
<1>11. FindingsStand(w, harmed) /\ Exhaustive(w)
  BY <1>1, <1>7, <1>9 DEF FindingsStand, Exhaustive
<1>12. PassInv'
  BY <1>3, <1>6, <1>9, <1>10, <1>11 DEF PassInv
<1> QED
  BY <1>4, <1>5, <1>12 DEF Inv

-----------------------------------------------------------------------------
(* The theorems *)

(* The invariant holds at first. *)
LEMMA InitStands == VInit => Inv
<1> SUFFICES ASSUME VInit PROVE Inv
  OBVIOUS
<1>1. AdoptionInv
  BY AdoptionInit DEF VInit
<1>2. DirsInv
  BY DEF VInit, DirsInv
<1>3. v = [pc |-> "idle", rows |-> {}, todo |-> {}, reading |-> None, stirred |-> FALSE,
           limit |-> 0, examined |-> 0, findings |-> {}, bad |-> {}, kept |-> {}, relinked |-> {}]
  BY DEF VInit, Quiet
<1>4. v \in Verification
  BY <1>3 DEF Verification
<1>5. PassStands(v, cas, location, harmed)
  BY <1>3 DEF PassStands
<1>6. FindingsStand(v, harmed) /\ Exhaustive(v)
  BY <1>3 DEF FindingsStand, Exhaustive
<1> QED
  BY <1>1, <1>2, <1>4, <1>5, <1>6 DEF Inv, PassInv

(* Every step keeps it. *)
LEMMA StepStands == Inv /\ [VNext]_all => Inv'
<1> SUFFICES ASSUME Inv, [VNext]_all PROVE Inv'
  OBVIOUS
<1>1. CASE VerifyNext
  BY <1>1, BeginVerifyKeeps, OpenTargetKeeps, ReadTargetKeeps, ScanTreeKeeps, WalkPrefixKeeps,
     ScanStagingKeeps DEF VerifyNext
<1>2. CASE UNCHANGED all
  <2>1. UNCHANGED <<vars, dirs>> /\ v' = v
    BY <1>2 DEF all
  <2> QED
    BY <2>1, PassFacts, PassMoves
<1> QED
  BY <1>1, <1>2, AdoptionStepKeeps, RelinkKeeps DEF VNext

(* The invariant is inductive, for any adopters, source rows, contents,    *)
(* limits and numbers of faults.                                           *)
THEOREM Invariance == Spec => []Inv
<1> QED
  BY InitStands, StepStands, PTL DEF Spec

(* VTypeOK: the files, the catalog, the adopters and the verification keep *)
(* their types.                                                            *)
THEOREM TypesStand == Spec => []VTypeOK
<1>1. Inv => VTypeOK
  <2> SUFFICES ASSUME Inv PROVE VTypeOK
    OBVIOUS
  <2>1. ShapeInv /\ v \in Verification /\ v.examined <= v.limit /\ dirs \subseteq Content
    BY DEF Inv, AdoptionInv, DirsInv, PassInv, PassStands
  <2>2. ASSUME NEW r \in DOMAIN runs
        PROVE  /\ runs[r].status \in {"running", "complete", "partial", "failed"}
               /\ Range(runs[r].items) \subseteq Outcomes
    <3>1. runs[r] \in RunRow
      BY <2>1 DEF ShapeInv
    <3>2. runs[r].status \in RunStatus /\ runs[r].items \in Seq(Outcomes)
      BY <3>1, RowFields
    <3> QED
      BY <3>2 DEF RunStatus, Range
  <2>3. ASSUME NEW p \in Adopter
        PROVE  /\ me[p].pc \in Label /\ me[p].plan \in Seq(Item)
               /\ me[p].bytes \in Content \cup {None}
               /\ me[p].outcome \in Outcomes \cup {None, "capability_unavailable"}
    <3>1. me[p] \in Adoption
      BY <2>1 DEF ShapeInv
    <3> QED
      BY <3>1, AdoptionFields
  <2>4. TypeOK
    BY <2>1, <2>2, <2>3 DEF TypeOK, ShapeInv, State, Label
  <2>5. v.examined \in 0..v.limit
    BY <2>1, PassFields
  <2> QED
    BY <2>1, <2>4, <2>5, PassFields DEF VTypeOK, Status
<1> QED
  BY <1>1, Invariance, PTL

(* AdoptedIsTrue: adopters that plan without the lock and execute under it, *)
(* are killed, fail in any transaction and race sources that change, enter *)
(* no location they have not verified and no link against a declared       *)
(* digest, and report what they have done.                                 *)
THEOREM AdoptedStands == Spec => []AdoptedIsTrue
<1>1. Inv => AdoptedIsTrue
  BY DEF Inv, AdoptionInv, CatalogInv, AdoptedIsTrue, RunAccounts, RunStands, Good
<1> QED
  BY <1>1, Invariance, PTL

(* ReportIsTrue: a verification that reads without the lock, beside        *)
(* adopters and reconciliations, accuses no location without a cause,      *)
(* vouches for none that was bad throughout, and within its limit passes   *)
(* nothing over.                                                           *)
THEOREM ReportsStand == Spec => []ReportIsTrue
<1>1. Inv => ReportIsTrue
  <2> SUFFICES ASSUME Inv PROVE ReportIsTrue
    OBVIOUS
  <2>1. v \in Verification /\ FindingsStand(v, harmed) /\ Exhaustive(v)
    BY PassFacts
  <2>2. FindingsJustified
    BY <2>1 DEF FindingsJustified, FindingsStand
  <2>3. OkReportVouches
    <3> SUFFICES ASSUME v.pc = "done",
                        \A f \in v.findings : f[1] \notin {"missing", "corrupt", "unsafe"}
                 PROVE  \A b \in v.rows : b \notin v.bad /\ <<"valid", b>> \in v.findings
      BY DEF OkReportVouches
    <3>1. \A s \in {"missing", "corrupt", "unsafe"} : \A x : <<s, x>> \notin v.findings
      OBVIOUS
    <3>2. \A b \in v.rows : Located(b, v.findings)
      BY <2>1, <3>1 DEF Exhaustive, Limit
    <3>3. \A b \in v.rows : <<"valid", b>> \in v.findings
      BY <3>1, <3>2 DEF Located
    <3>4. v.rows \subseteq Content
      BY <2>1, PassFields
    <3> QED
      BY <2>1, <3>3, <3>4 DEF FindingsStand
  <2>4. ReportComplete
    BY <2>1 DEF ReportComplete, Exhaustive, Named, FindingsStand
  <2> QED
    BY <2>2, <2>3, <2>4 DEF ReportIsTrue
<1> QED
  BY <1>1, Invariance, PTL

(* SecondAssetByStalePlan: _candidate_rows reads the assets of an          *)
(* occurrence with the plan, so whoever planned after the first one was    *)
(* linked links no other bytes.                                            *)
THEOREM SecondAssetsHaveStalePlans == Spec => SecondAssetByStalePlan
<1> DEFINE Links == \A p \in Adopter : \A o \in Occurrence, b \in Content :
                      (owner = p /\ <<o, b>> \in linked' \ linked /\ Linked(o) # {})
                         => o \notin me[p].since
<1>1. ASSUME Inv, NEW p \in Adopter, CommitItem(p)
      PROVE  Links
  <2> DEFINE o == RowOf(p).occurrence
             b == me[p].bytes
  <2>1. me[p].pc \in Working /\ me[p].pc = "commit"
    BY <1>1 DEF CommitItem, Working, Label
  <2>2. /\ owner = p /\ Current(p) = me[p].plan[me[p].next]
        /\ me[p].next \in DOMAIN me[p].plan /\ WorkStands(me[p], cas, harmed)
        /\ ShapeInv /\ OwnInv
    BY <1>1, <2>1, AtItem DEF Inv
  <2>3. PlanStands(me[p].plan, me[p].since, linked)
    BY <2>1, <2>2, HolderFacts
  <2>4. Current(p).legacy \in {None, b}
    BY <2>1, <2>2 DEF WorkStands
  <2>5. o \in me[p].since => Current(p).legacy # None /\ <<o, Current(p).legacy>> \in linked
    BY <2>2, <2>3 DEF PlanStands, RowOf
  <2>6. o \in me[p].since => <<o, b>> \in linked
    BY <2>4, <2>5
  <2>7. linked' = linked \cup {<<o, b>>}
    BY <1>1 DEF CommitItem
  <2> HIDE DEF o, b
  <2> QED
    BY <2>2, <2>6, <2>7
<1>2. ASSUME UNCHANGED linked
      PROVE  Links
  BY <1>2
<1>3. ASSUME VNext
      PROVE  (\E p \in Adopter : CommitItem(p)) \/ UNCHANGED linked
  <2>1. ASSUME VerifyNext \/ Relink
        PROVE  UNCHANGED linked
    BY <2>1 DEF VerifyNext, BeginVerify, OpenTarget, ReadTarget, ScanTree, WalkPrefix,
       ScanStaging, Relink, vars, catalog
  <2>2. ASSUME AdoptionNext
        PROVE  (\E p \in Adopter : CommitItem(p)) \/ UNCHANGED linked
    BY <2>2 DEF AdoptionNext, Step, Plan, PublishUnsupported, CommitFails, Kill, BeginRun,
       PersistIneligible, OpenSource, ReuseLocation, StageSource, InspectStaged, PublishStaged,
       PersistFailure, FinishRun, FailRun, LockRefused, EditSource, ReplaceSource, Harm, catalog
  <2> QED
    BY <1>3, <2>1, <2>2 DEF VNext, AdoptionStep
<1>4. Inv /\ [VNext]_all => [Links]_vars
  <2> SUFFICES ASSUME Inv, [VNext]_all PROVE [Links]_vars
    OBVIOUS
  <2>1. CASE VNext
    BY <1>1, <1>2, <1>3, <2>1
  <2>2. CASE UNCHANGED all
    BY <2>2 DEF all
  <2> QED
    BY <2>1, <2>2
<1> QED
  BY <1>4, Invariance, PTL DEF Spec, SecondAssetByStalePlan

=============================================================================
