--------------------------- MODULE RemoteSyncProofs ---------------------------
(***************************************************************************)
(* Proofs about RemoteSync, for any invocations, posts, page size, limits  *)
(* and numbers of changes, retries and runs, and about LibraryExpansion,   *)
(* also for any accounts, attributions, known facts and questions.         *)
(*                                                                         *)
(* That a checkpoint is covered is not inductive: the page that leads to   *)
(* it is fetched, retained and admitted before it is stored, and meanwhile *)
(* the provider changes its listing and others store their pages.  What    *)
(* carries it is what each invocation is good for (Works): everything      *)
(* before its continuation is stored, everything before the next one will  *)
(* be once the page it holds is (Brings), and its counts agree with the    *)
(* rows it has written.                                                    *)
(*                                                                         *)
(* Every step of LibraryExpansion is one of RemoteSync or leaves it alone, *)
(* so all of this holds of an expansion's run, too.  What an execution     *)
(* rests on is carried by BoundInv: it has the run of its number, and the  *)
(* facts it was checked with give its plan.  What it has listed is carried *)
(* by ListedInv, of one execution and its continuation, and by ChainInv,   *)
(* of every set of executions that holds what each of its own resumes.     *)
(***************************************************************************)
EXTENDS LibraryExpansion, FiniteSetTheorems, TLAPS

(* How many posts of a listing come before q. *)
Above(lv, q) == Cardinality({x \in lv : x > q})

(* Every post that a chain has seen from its first request on, and that     *)
(* lies before a continuation, is among the known ones; by offset only as   *)
(* long as nothing was removed.                                             *)
KeysetReached(lv, rec, c, known) == \A q \in rec.since \cap lv : q >= c => q \in known

OffsetReached(lv, gn, rec, c, known) ==
    gn = rec.removed => \A q \in rec.since \cap lv : Above(lv, q) < c * PageSize => q \in known

Reached(pg, lv, gn, rec, c, known) ==
    IF pg = "keyset" THEN KeysetReached(lv, rec, c, known)
    ELSE OffsetReached(lv, gn, rec, c, known)

Everything(pg, lv, gn, rec, known) ==
    pg = "keyset" \/ gn = rec.removed => rec.since \cap lv \subseteq known

(* What a page that leads on to next has to bring. *)
Brings(pg, lv, gn, rec, known, next) ==
    IF next = None THEN Everything(pg, lv, gn, rec, known)
    ELSE Reached(pg, lv, gn, rec, next, known)

(* What the provider may do between two requests. *)
Moved(lv, gn, lv2, gn2) ==
    \/ lv2 = lv /\ gn2 = gn
    \/ lv \subseteq lv2 /\ (lv2 \ lv) \cap gn = {} /\ gn2 = gn
    \/ \E q \in lv \ gn : lv2 = lv \ {q} /\ gn2 = gn \cup {q}

(* What a chain remembers of its first request was then listed, or gone. *)
Remembers(lv, gn, rec) == rec.since \subseteq lv \cup gn /\ rec.removed \subseteq gn

Label == {"idle", "next", "send", "retain", "admit", "commit", "finish", "fetch", "record"}

WorldInv ==
    /\ paging \in {"keyset", "offset"} /\ limits \in Limits
    /\ live \in SUBSET Post /\ gone \in SUBSET Post /\ posts \in SUBSET Post
    /\ live \cap gone = {}
    /\ runs \in Seq(Run)

LocalInv ==
    /\ pc \in [Process -> Label]
    /\ run \in [Process -> Nat \cup {None}]
    /\ cursor \in [Process -> Cursor \cup {None}]
    /\ spent \in [Process -> Spending]
    /\ retries \in [Process -> 0..MaxRetries]
    /\ reply \in [Process -> Reply \cup {None}]
    /\ ending \in [Process -> Ending \cup {None}]
    /\ late \in [Process -> BOOLEAN]

(* Every running invocation has a run of its own, a reply while it works   *)
(* on one, and an ending when it has come to one.                          *)
OwnInv ==
    /\ \A p \in Process :
          /\ IF pc[p] = "idle" THEN run[p] = None
             ELSE run[p] \in DOMAIN runs /\ runs[run[p]].status = "running"
          /\ pc[p] \in {"retain", "admit", "commit", "record"} => reply[p] \in Reply
          /\ pc[p] \in {"admit", "commit"} => reply[p].kind = "page"
          /\ pc[p] = "finish" => ending[p] \in Ending
    /\ \A p, q \in Process : p # q /\ run[p] = run[q] => run[p] = None

ShapeInv == WorldInv /\ LocalInv /\ OwnInv

(* What stands of a run at any time, whoever executes it or did. *)
RunStands(pg, lv, gn, pst, lim, rec) ==
    /\ Remembers(lv, gn, rec)
    /\ rec.checkpoint # None => Reached(pg, lv, gn, rec, rec.checkpoint, pst)
    /\ rec.kind = "listing" /\ rec.status = "complete" => Everything(pg, lv, gn, rec, pst)
    /\ rec.kind = "listing" /\ rec.status # "running" =>
          /\ rec.committed <= rec.retained
          /\ rec.retained <= rec.counts.requests
          /\ rec.counts.requests <= lim.requests
          /\ rec.counts.pages <= lim.pages /\ rec.counts.records <= lim.records
          /\ \/ rec.counts.pages = rec.committed
             \/ rec.status = "failed" /\ rec.counts.pages = rec.committed + 1
    /\ rec.status = "paused" /\ rec.committed > 0 => rec.checkpoint # None
    /\ rec.boundary = "record" /\ rec.committed = 0 => PageSize > lim.records

Executing == {"next", "send", "retain", "admit", "commit"}

(* The budget of an invocation agrees with the rows it has written. *)
Tallied(lim, rec, at, sp, rp, en) ==
    /\ sp.requests <= lim.requests /\ sp.pages <= lim.pages /\ sp.records <= lim.records
    /\ at \in {"fetch", "record"} => rec.kind = "single"
    /\ at \in Executing \/ (at = "finish" /\ rec.kind = "listing") =>
          rec.committed <= rec.retained /\ rec.retained <= sp.requests
    /\ at \in Executing =>
          /\ rec.kind = "listing" /\ sp.pages = rec.committed
          /\ rec.committed = 0 => sp.records = 0
          /\ rec.committed > 0 => rec.checkpoint # None
    /\ at = "retain" => rec.retained < sp.requests
    /\ at \in {"admit", "commit"} => rec.committed < rec.retained
    /\ at = "finish" =>
          /\ rec.kind = "listing" =>
                \/ sp.pages = rec.committed
                \/ en.status = "failed" /\ sp.pages = rec.committed + 1
          /\ en.status = "paused" /\ rec.committed > 0 => rec.checkpoint # None
          /\ en.boundary = "record" /\ rec.committed = 0 => PageSize > lim.records

(* Where an invocation goes on, everything before is stored; and with the  *)
(* page it holds, everything before the next continuation will be.         *)
Covered(pg, lv, gn, pst, rec, at, c, rp, en) ==
    /\ at \in Executing /\ c # None => Reached(pg, lv, gn, rec, c, pst)
    /\ at \in {"retain", "admit", "commit"} /\ rp.kind = "page" =>
          /\ Cardinality(rp.posts) <= PageSize
          /\ Brings(pg, lv, gn, rec, pst \cup rp.posts, rp.next)
    /\ at = "finish" /\ rec.kind = "listing" /\ en.status = "complete" =>
          Everything(pg, lv, gn, rec, pst)

Works(pg, lv, gn, pst, lim, rec, at, c, sp, rp, en) ==
    /\ Tallied(lim, rec, at, sp, rp, en)
    /\ Covered(pg, lv, gn, pst, rec, at, c, rp, en)

StandInv ==
    /\ \A r \in DOMAIN runs : RunStands(paging, live, gone, posts, limits, runs[r])
    /\ \A p \in Process :
          IF pc[p] = "idle" THEN spent[p] = NoSpending
          ELSE Works(paging, live, gone, posts, limits, runs[run[p]],
                     pc[p], cursor[p], spent[p], reply[p], ending[p])

-----------------------------------------------------------------------------
(* Positions in a listing *)

(* Posts are finitely many, and so are those of any listing. *)
LEMMA ListingIsFinite ==
  ASSUME NEW L \in SUBSET Post
  PROVE  IsFiniteSet(L) /\ Cardinality(L) \in Nat /\ Cardinality(L) <= MaxPost
<1>1. MaxPost \in Nat
  BY SyncAssumption
<1>2. IsFiniteSet(1..MaxPost) /\ Cardinality(1..MaxPost) = MaxPost
  BY <1>1, FS_Interval
<1>3. L \subseteq 1..MaxPost
  BY DEF Post
<1> QED
  BY <1>2, <1>3, FS_Subset, FS_CardinalityType

(* A position is a number, smaller for the newer post. *)
LEMMA AboveOrders ==
  ASSUME NEW L \in SUBSET Post
  PROVE  /\ \A q \in L : Above(L, q) \in 0..Cardinality(L) - 1
         /\ \A q, r \in L : q < r => Above(L, r) < Above(L, q)
         /\ \A q, r \in L : Above(L, q) = Above(L, r) => q = r
<1> DEFINE Up(q) == {x \in L : x > q}
<1>1. L \subseteq Nat
  BY SyncAssumption DEF Post
<1>2. \A q : Up(q) \in SUBSET Post
  OBVIOUS
<1>3. \A q : IsFiniteSet(Up(q)) /\ Cardinality(Up(q)) \in Nat
  BY <1>2, ListingIsFinite
<1>4. ASSUME NEW q \in L
      PROVE  Above(L, q) \in 0..Cardinality(L) - 1
  <2>1. q \notin Up(q)
    BY <1>1
  <2>2. Cardinality(Up(q) \cup {q}) = Cardinality(Up(q)) + 1
    BY <1>3, <2>1, FS_AddElement
  <2>3. Cardinality(Up(q) \cup {q}) <= Cardinality(L)
    BY ListingIsFinite, FS_Subset
  <2>4. Cardinality(L) \in Nat
    BY ListingIsFinite
  <2>5. Above(L, q) = Cardinality(Up(q))
    BY DEF Above
  <2> HIDE DEF Up
  <2>6. Cardinality(Up(q)) \in Nat
    BY <1>3
  <2> QED
    BY <2>2, <2>3, <2>4, <2>5, <2>6
<1>5. ASSUME NEW q \in L, NEW r \in L, q < r
      PROVE  Above(L, r) < Above(L, q)
  <2>1. r \notin Up(r)
    BY <1>1
  <2>2. Cardinality(Up(r) \cup {r}) = Cardinality(Up(r)) + 1
    BY <1>3, <2>1, FS_AddElement
  <2>3. ASSUME NEW x \in Up(r) \cup {r}
        PROVE  x \in Up(q)
    <3>1. x \in L /\ x \in Nat /\ q \in Nat /\ r \in Nat /\ (x > r \/ x = r)
      BY <1>1
    <3> QED
      BY <1>5, <3>1
  <2>4. Cardinality(Up(r) \cup {r}) <= Cardinality(Up(q))
    BY <1>3, <2>3, FS_Subset
  <2> QED
    BY <1>3, <2>2, <2>4 DEF Above
<1>6. ASSUME NEW q \in L, NEW r \in L, Above(L, q) = Above(L, r)
      PROVE  q = r
  <2>1. Above(L, q) \in Nat
    BY <1>3 DEF Above
  <2>2. ~ (q < r) /\ ~ (r < q)
    BY <1>5, <1>6, <2>1
  <2> QED
    BY <1>1, <2>2
<1> QED
  BY <1>4, <1>5, <1>6

(* The posts at the positions first, ..., first + size - 1. *)
Slice(L, first, size) == {q \in L : Above(L, q) \in first .. first + size - 1}

(* Every position of a listing is taken. *)
LEMMA EveryPosition ==
  ASSUME NEW L \in SUBSET Post, NEW k \in 0..Cardinality(L) - 1
  PROVE  \E q \in L : Above(L, q) = k
<1> DEFINE f == [q \in L |-> Above(L, q)]
           T == 0..Cardinality(L) - 1
<1>1. Cardinality(L) \in Nat /\ IsFiniteSet(L)
  BY ListingIsFinite
<1>2. IsFiniteSet(T) /\ Cardinality(T) = Cardinality(L)
  BY <1>1, FS_Interval
<1>3. f \in Injection(L, T)
  BY AboveOrders DEF Injection, IsInjective
<1>4. f \in Surjection(L, T)
  BY <1>2, <1>3, FS_Injection
<1>5. PICK q \in L : f[q] = k
  BY <1>4 DEF Surjection
<1> QED
  BY <1>5

(* A slice has as many posts as it has positions, or the listing ends.     *)
LEMMA SliceSize ==
  ASSUME NEW L \in SUBSET Post, NEW first \in Nat, NEW size \in Nat
  PROVE  /\ Cardinality(Slice(L, first, size)) \in 0..size
         /\ Cardinality(Slice(L, first, size)) < size =>
               \A q \in L : Above(L, q) < first + size
         /\ size > 0 /\ Cardinality(Slice(L, first, size)) = size =>
               first + size <= Cardinality(L)
<1> DEFINE P == Slice(L, first, size)
           T == first .. first + size - 1
           f == [q \in P |-> Above(L, q)]
<1>1. P \in SUBSET Post /\ P \subseteq L
  BY DEF Slice
<1>2. IsFiniteSet(P) /\ Cardinality(P) \in Nat /\ Cardinality(L) \in Nat
  BY <1>1, ListingIsFinite
<1>3. IsFiniteSet(T) /\ Cardinality(T) = size
  BY FS_Interval
<1>4. f \in Injection(P, T)
  BY <1>1, AboveOrders DEF Injection, IsInjective, Slice
<1>5. /\ Cardinality(P) <= Cardinality(T)
      /\ Cardinality(P) = Cardinality(T) <=> f \in Surjection(P, T)
  BY <1>3, <1>4, FS_Injection
<1>6. ASSUME Cardinality(P) < size, NEW q \in L, first + size <= Above(L, q)
      PROVE  FALSE
  <2>1. \A k \in T : k \in 0..Cardinality(L) - 1
    BY <1>2, <1>6, AboveOrders
  <2>2. \A k \in T : \E x \in P : f[x] = k
    BY <2>1, EveryPosition DEF Slice
  <2>3. f \in Surjection(P, T)
    BY <1>4, <2>2 DEF Surjection, Injection
  <2> QED
    BY <1>3, <1>5, <1>6, <2>3
<1>7. ASSUME size > 0, Cardinality(P) = size
      PROVE  first + size <= Cardinality(L)
  <2>1. f \in Surjection(P, T)
    BY <1>3, <1>5, <1>7
  <2>2. first + size - 1 \in T
    BY <1>7
  <2>3. PICK q \in P : f[q] = first + size - 1
    BY <2>1, <2>2 DEF Surjection
  <2>4. Above(L, q) \in 0..Cardinality(L) - 1
    BY <1>1, AboveOrders
  <2> QED
    BY <1>2, <2>3, <2>4
<1>8. \A q \in L : Above(L, q) \in Nat
  BY <1>2, AboveOrders
<1> QED
  BY <1>2, <1>3, <1>5, <1>6, <1>7, <1>8

(* A listing that is not empty has an oldest post. *)
LEMMA Oldest ==
  ASSUME NEW L \in SUBSET Post, L # {}
  PROVE  Min(L) \in L /\ \A q \in L : Min(L) <= q
<1>1. Cardinality(L) \in Nat /\ Cardinality(L) # 0
  BY ListingIsFinite, FS_EmptySet
<1>2. PICK m \in L : Above(L, m) = Cardinality(L) - 1
  BY <1>1, EveryPosition
<1>3. L \subseteq Nat
  BY SyncAssumption DEF Post
<1>4. \A q \in L : m <= q
  BY <1>1, <1>2, <1>3, AboveOrders
<1> QED
  BY <1>4 DEF Min

-----------------------------------------------------------------------------
(* Pages *)

(* A keyset page: the newest posts below the continuation, and the oldest  *)
(* of them is where the next one goes on.                                  *)
LEMMA KeysetPageBrings ==
  ASSUME live \in SUBSET Post, NEW c \in Cursor \cup {None}, NEW rec, NEW known,
         c # None => KeysetReached(live, rec, c, known)
  PROVE  /\ KeysetPage(c) \in SUBSET Post
         /\ Cardinality(KeysetPage(c)) <= PageSize
         /\ IF KeysetPage(c) = {}
            THEN rec.since \cap live \subseteq known
            ELSE /\ Min(KeysetPage(c)) \in Cursor
                 /\ KeysetReached(live, rec, Min(KeysetPage(c)), known \cup KeysetPage(c))
<1> DEFINE rest == {q \in live : c = None \/ q < c}
           page == KeysetPage(c)
<1>1. rest \in SUBSET Post
  OBVIOUS
<1>2. PageSize \in Nat /\ PageSize > 0 /\ Post \subseteq Nat
  BY SyncAssumption DEF Post
<1>3. page = {q \in rest : Above(rest, q) < PageSize}
  BY DEF KeysetPage, Above
<1>4. c # None => c \in Nat
  BY SyncAssumption DEF Cursor
<1>5. ASSUME NEW q \in live, q \notin rest
      PROVE  c # None /\ q >= c
  <2>1. c # None /\ ~ (q < c) /\ q \in Nat
    BY <1>2, <1>5
  <2> QED
    BY <1>4, <2>1
<1> HIDE DEF page, rest
<1>6. \A q \in rest : Above(rest, q) \in Nat
  BY <1>1, <1>2, AboveOrders, ListingIsFinite
<1>7. page \subseteq rest /\ \A q \in rest : q \in page <=> Above(rest, q) < PageSize
  BY <1>3, Zenon
<1>8. page = Slice(rest, 0, PageSize)
  <2>1. \A q \in rest : Above(rest, q) < PageSize <=> Above(rest, q) \in 0 .. 0 + PageSize - 1
    BY <1>2, <1>6
  <2> QED
    BY <1>7, <2>1, Zenon DEF Slice
<1>9. page \in SUBSET Post
  BY <1>1, <1>3
<1>10. /\ Cardinality(page) \in 0..PageSize
       /\ Cardinality(page) < PageSize => \A q \in rest : Above(rest, q) < 0 + PageSize
  BY <1>1, <1>2, <1>8, SliceSize
<1>11. ASSUME page = {}
      PROVE  rec.since \cap live \subseteq known
  <2>1. Cardinality(page) = 0
    BY <1>11, FS_EmptySet
  <2>2. rest = {}
    BY <1>2, <1>3, <1>10, <1>11, <2>1
  <2> QED
    BY <1>5, <2>2 DEF KeysetReached
<1>12. ASSUME page # {}
      PROVE  /\ Min(page) \in Cursor
             /\ KeysetReached(live, rec, Min(page), known \cup page)
  <2>1. Min(page) \in page /\ Min(page) \in rest /\ Min(page) \in Post
    BY <1>3, <1>9, <1>12, Oldest
  <2>2. Min(page) \in Cursor
    BY <2>1, SyncAssumption DEF Post, Cursor
  <2>3. ASSUME NEW q \in rec.since \cap live, q >= Min(page)
        PROVE  q \in known \cup page
    <3>1. q \in Nat /\ Min(page) \in Nat
      BY <1>1, <1>2, <2>1
    <3>2. CASE q \in rest
      <4>1. Above(rest, q) <= Above(rest, Min(page))
        <5> DEFINE m == Min(page)
        <5>1. m \in rest /\ m \in Nat /\ q \in Nat /\ m <= q
          BY <2>1, <2>3, <3>1
        <5>2. Above(rest, m) \in Nat /\ Above(rest, q) \in Nat
          BY <1>6, <3>2, <5>1, Zenon
        <5> HIDE DEF m
        <5>3. m < q => Above(rest, q) < Above(rest, m)
          BY <1>1, <3>2, <5>1, AboveOrders, Zenon
        <5>4. m = q \/ m < q
          BY <5>1
        <5>5. Above(rest, q) <= Above(rest, m)
          BY <5>2, <5>3, <5>4
        <5> QED
          BY <5>5 DEF m
      <4> QED
        BY <1>2, <1>6, <1>7, <2>1, <3>2, <4>1
    <3>3. CASE q \notin rest
      <4>1. c # None /\ q >= c
        BY <1>5, <3>3
      <4> QED
        BY <4>1 DEF KeysetReached
    <3> QED
      BY <3>2, <3>3
  <2> QED
    BY <2>2, <2>3 DEF KeysetReached
<1>13. Cardinality(page) <= PageSize
  BY <1>2, <1>10
<1> QED
  BY <1>9, <1>11, <1>12, <1>13, Zenon DEF page

(* Arithmetic of offsets. *)
LEMMA OffsetArithmetic ==
  ASSUME NEW n \in Nat, NEW k \in Nat
  PROVE  /\ n * k \in Nat
         /\ (n + 1) * k = n * k + k
         /\ k > 0 => n + 1 <= n * k + k
<1>1. k > 0 => n <= n * k
  <2>1. CASE n = 0
    BY <2>1
  <2>2. CASE n > 0 /\ k > 0
    BY <2>2
  <2> QED
    BY <2>1, <2>2
<1> QED
  BY <1>1

(* An offset page: so many posts from its position on, or all that are     *)
(* left of the listing.                                                    *)
LEMMA OffsetPageBrings ==
  ASSUME live \in SUBSET Post, NEW c \in Cursor \cup {None}, NEW rec, NEW known,
         c # None => OffsetReached(live, gone, rec, c, known)
  PROVE  /\ OffsetPage(c) \in SUBSET Post
         /\ Cardinality(OffsetPage(c)) <= PageSize
         /\ LET next == OffsetContinuation(c, OffsetPage(c))
            IN  IF next = None
                THEN gone = rec.removed =>
                        rec.since \cap live \subseteq known \cup OffsetPage(c)
                ELSE /\ next \in Cursor
                     /\ OffsetReached(live, gone, rec, next, known \cup OffsetPage(c))
<1> DEFINE n == IF c = None THEN 0 ELSE c
           page == OffsetPage(c)
           next == OffsetContinuation(c, page)
<1>1. PageSize \in Nat /\ PageSize > 0 /\ n \in Nat /\ MaxPost \in Nat
  BY SyncAssumption DEF Cursor
<1>2. n * PageSize \in Nat
  BY <1>1, OffsetArithmetic
<1>3. page = Slice(live, n * PageSize, PageSize)
  <2>1. (IF c = None THEN 0 ELSE c * PageSize) = n * PageSize
    BY <1>1
  <2> QED
    BY <2>1 DEF OffsetPage, Slice, Newer, Above
<1>4. page \in SUBSET Post
  BY <1>3 DEF Slice
<1>5. next = IF Cardinality(page) < PageSize THEN None ELSE n + 1
  BY <1>1 DEF OffsetContinuation
<1>6. \A q \in live : Above(live, q) \in Nat
  BY AboveOrders, ListingIsFinite
<1>7. ASSUME NEW q \in rec.since \cap live, gone = rec.removed,
             Above(live, q) < n * PageSize + PageSize
      PROVE  q \in known \cup page
  <2>1. CASE Above(live, q) < n * PageSize
    <3>1. c # None /\ n = c
      BY <1>1, <1>6, <2>1
    <3> QED
      BY <1>7, <2>1, <3>1 DEF OffsetReached
  <2>2. CASE Above(live, q) >= n * PageSize
    BY <1>1, <1>2, <1>3, <1>6, <1>7, <2>2 DEF Slice
  <2> QED
    BY <1>2, <1>6, <2>1, <2>2
<1> HIDE DEF page, next, n
<1>8. /\ Cardinality(page) \in 0..PageSize
      /\ Cardinality(page) < PageSize =>
            \A q \in live : Above(live, q) < n * PageSize + PageSize
      /\ PageSize > 0 /\ Cardinality(page) = PageSize =>
            n * PageSize + PageSize <= Cardinality(live)
  BY <1>1, <1>2, <1>3, SliceSize
<1>9. CASE Cardinality(page) < PageSize
  <2>1. next = None
    BY <1>5, <1>9
  <2>2. gone = rec.removed => rec.since \cap live \subseteq known \cup page
    BY <1>7, <1>8, <1>9
  <2> QED
    BY <1>1, <1>4, <1>8, <2>1, <2>2 DEF page, next
<1>10. CASE Cardinality(page) = PageSize
  <2>1. next = n + 1 /\ next # None
    BY <1>1, <1>5, <1>10, SyncAssumption
  <2>2. n + 1 <= n * PageSize + PageSize /\ (n + 1) * PageSize = n * PageSize + PageSize
    BY <1>1, OffsetArithmetic
  <2>3. Cardinality(live) \in Nat /\ Cardinality(live) <= MaxPost
    BY ListingIsFinite
  <2>4. next \in Cursor
    BY <1>1, <1>2, <1>8, <1>10, <2>1, <2>2, <2>3 DEF Cursor
  <2>5. OffsetReached(live, gone, rec, next, known \cup page)
    BY <1>7, <2>1, <2>2 DEF OffsetReached
  <2> QED
    BY <1>1, <1>4, <1>8, <2>1, <2>4, <2>5 DEF page, next
<1> QED
  BY <1>1, <1>8, <1>9, <1>10

(* What the provider answers at a continuation, and what that is good for. *)
LEMMA ListingBrings ==
  ASSUME paging \in {"keyset", "offset"}, live \in SUBSET Post,
         NEW c \in Cursor \cup {None}, NEW rec, NEW known,
         c # None => Reached(paging, live, gone, rec, c, known)
  PROVE  /\ Listing(c) \in Reply
         /\ Listing(c).kind = "page"
         /\ Cardinality(Listing(c).posts) <= PageSize
         /\ Brings(paging, live, gone, rec, known \cup Listing(c).posts, Listing(c).next)
<1>1. CASE paging = "keyset"
  <2>1. Listing(c) = [kind |-> "page", posts |-> KeysetPage(c),
                      next |-> KeysetContinuation(KeysetPage(c))]
    BY <1>1 DEF Listing
  <2>2. c # None => KeysetReached(live, rec, c, known)
    BY <1>1 DEF Reached
  <2>3. CASE KeysetPage(c) = {}
    <3>1. rec.since \cap live \subseteq known /\ KeysetPage(c) \in SUBSET Post
          /\ Cardinality(KeysetPage(c)) <= PageSize
      BY <2>2, <2>3, KeysetPageBrings
    <3> QED
      BY <1>1, <2>1, <2>3, <3>1 DEF KeysetContinuation, Brings, Everything, Reply
  <2>4. CASE KeysetPage(c) # {}
    <3>1. /\ KeysetPage(c) \in SUBSET Post
          /\ Cardinality(KeysetPage(c)) <= PageSize
          /\ Min(KeysetPage(c)) \in Cursor
          /\ KeysetReached(live, rec, Min(KeysetPage(c)), known \cup KeysetPage(c))
      BY <2>2, <2>4, KeysetPageBrings
    <3>2. Min(KeysetPage(c)) # None
      BY <3>1, SyncAssumption DEF Cursor
    <3> QED
      BY <1>1, <2>1, <2>4, <3>1, <3>2 DEF KeysetContinuation, Brings, Reached, Reply
  <2> QED
    BY <2>3, <2>4
<1>2. CASE paging = "offset"
  <2>1. Listing(c) = [kind |-> "page", posts |-> OffsetPage(c),
                      next |-> OffsetContinuation(c, OffsetPage(c))]
    BY <1>2 DEF Listing
  <2>2. c # None => OffsetReached(live, gone, rec, c, known)
    BY <1>2 DEF Reached
  <2>3. /\ OffsetPage(c) \in SUBSET Post
        /\ Cardinality(OffsetPage(c)) <= PageSize
        /\ IF OffsetContinuation(c, OffsetPage(c)) = None
           THEN gone = rec.removed =>
                   rec.since \cap live \subseteq known \cup OffsetPage(c)
           ELSE /\ OffsetContinuation(c, OffsetPage(c)) \in Cursor
                /\ OffsetReached(live, gone, rec, OffsetContinuation(c, OffsetPage(c)),
                                 known \cup OffsetPage(c))
    BY <2>2, OffsetPageBrings
  <2> QED
    BY <1>2, <2>1, <2>3 DEF Brings, Everything, Reached, Reply
<1> QED
  BY <1>1, <1>2

-----------------------------------------------------------------------------
(* Changes of the listing *)

(* What was reached stays reached when the provider publishes or removes a *)
(* post and more posts are known; by offset until one is removed.          *)
LEMMA ReachedStands ==
  ASSUME NEW pg, NEW lv \in SUBSET Post, NEW gn, NEW lv2 \in SUBSET Post, NEW gn2,
         Moved(lv, gn, lv2, gn2),
         NEW rec, Remembers(lv, gn, rec),
         NEW known, NEW known2, known \subseteq known2
  PROVE  /\ Remembers(lv2, gn2, rec)
         /\ \A c \in Cursor : Reached(pg, lv, gn, rec, c, known) =>
                                 Reached(pg, lv2, gn2, rec, c, known2)
         /\ Everything(pg, lv, gn, rec, known) => Everything(pg, lv2, gn2, rec, known2)
<1>1. Remembers(lv2, gn2, rec)
  BY DEF Moved, Remembers
<1>2. rec.since \cap lv2 \subseteq rec.since \cap lv
  BY DEF Moved, Remembers
<1>3. gn2 = rec.removed => lv \subseteq lv2 /\ gn2 = gn
  BY DEF Moved, Remembers
<1>4. \A c \in Cursor : c * PageSize \in Nat
  <2>1. \A c \in Cursor : c \in Nat /\ PageSize \in Nat
    BY SyncAssumption DEF Cursor
  <2> QED
    BY <2>1
<1>5. ASSUME lv \subseteq lv2, NEW q
      PROVE  /\ Above(lv, q) \in Nat /\ Above(lv2, q) \in Nat
             /\ Above(lv, q) <= Above(lv2, q)
  <2>1. /\ {x \in lv : x > q} \in SUBSET Post /\ {x \in lv2 : x > q} \in SUBSET Post
        /\ {x \in lv : x > q} \subseteq {x \in lv2 : x > q}
    BY <1>5
  <2> QED
    BY <2>1, ListingIsFinite, FS_Subset DEF Above
<1>6. ASSUME NEW c \in Cursor, Reached(pg, lv, gn, rec, c, known)
      PROVE  Reached(pg, lv2, gn2, rec, c, known2)
  <2>1. CASE pg = "keyset"
    BY <1>2, <1>6, <2>1 DEF Reached, KeysetReached
  <2>2. CASE pg # "keyset" /\ gn2 = rec.removed
    <3>1. \A q \in rec.since \cap lv2 :
             Above(lv2, q) < c * PageSize => Above(lv, q) < c * PageSize
      BY <1>3, <1>4, <1>5, <2>2
    <3> QED
      BY <1>2, <1>3, <1>6, <2>2, <3>1 DEF Reached, OffsetReached
  <2>3. CASE pg # "keyset" /\ gn2 # rec.removed
    BY <2>3 DEF Reached, OffsetReached
  <2> QED
    BY <2>1, <2>2, <2>3
<1>7. ASSUME Everything(pg, lv, gn, rec, known)
      PROVE  Everything(pg, lv2, gn2, rec, known2)
  BY <1>2, <1>3, <1>7 DEF Everything
<1> QED
  BY <1>1, <1>6, <1>7

-----------------------------------------------------------------------------
(* Records of runs *)

(* What no statement of a run ever updates. *)
SameChain(rec, new) ==
    /\ new.kind = rec.kind /\ new.since = rec.since /\ new.removed = rec.removed

(* The fields of a row of remote_runs. *)
LEMMA RunFields ==
  ASSUME NEW rec \in Run
  PROVE  /\ rec = [kind |-> rec.kind, status |-> rec.status, boundary |-> rec.boundary,
                   counts |-> rec.counts, checkpoint |-> rec.checkpoint,
                   retained |-> rec.retained, committed |-> rec.committed,
                   killed |-> rec.killed, since |-> rec.since, removed |-> rec.removed]
         /\ rec.kind \in {"listing", "single"}
         /\ rec.status \in {"running", "complete", "paused", "failed"}
         /\ rec.boundary \in {"request", "page", "record", "time", None}
         /\ rec.counts \in Spending /\ rec.checkpoint \in Cursor \cup {None}
         /\ rec.retained \in Nat /\ rec.committed \in Nat /\ rec.killed \in BOOLEAN
         /\ rec.since \in SUBSET Post /\ rec.removed \in SUBSET Post
BY DEF Run

(* A retained response changes their number alone. *)
LEMMA RetainedFields ==
  ASSUME NEW rec \in Run
  PROVE  /\ Retained(rec) \in Run /\ SameChain(rec, Retained(rec))
         /\ Retained(rec).retained = rec.retained + 1
         /\ Retained(rec).status = rec.status /\ Retained(rec).boundary = rec.boundary
         /\ Retained(rec).counts = rec.counts /\ Retained(rec).committed = rec.committed
         /\ Retained(rec).checkpoint = rec.checkpoint
<1>1. Retained(rec) =
         [kind |-> rec.kind, status |-> rec.status, boundary |-> rec.boundary,
          counts |-> rec.counts, checkpoint |-> rec.checkpoint,
          retained |-> rec.retained + 1, committed |-> rec.committed,
          killed |-> rec.killed, since |-> rec.since, removed |-> rec.removed]
  BY RunFields DEF Retained
<1>2. rec.retained + 1 \in Nat
  BY RunFields
<1> QED
  BY <1>1, <1>2, RunFields DEF SameChain, Run

(* _commit_page changes the number of pages and, with a continuation, the *)
(* checkpoint.                                                            *)
LEMMA WithPageFields ==
  ASSUME NEW rec \in Run, NEW next \in Cursor \cup {None}
  PROVE  /\ WithPage(rec, next) \in Run /\ SameChain(rec, WithPage(rec, next))
         /\ WithPage(rec, next).committed = rec.committed + 1
         /\ WithPage(rec, next).checkpoint = IF next = None THEN rec.checkpoint ELSE next
         /\ WithPage(rec, next).status = rec.status
         /\ WithPage(rec, next).boundary = rec.boundary
         /\ WithPage(rec, next).counts = rec.counts
         /\ WithPage(rec, next).retained = rec.retained
<1> DEFINE c == IF next = None THEN rec.checkpoint ELSE next
<1>1. WithPage(rec, next) =
         [kind |-> rec.kind, status |-> rec.status, boundary |-> rec.boundary,
          counts |-> rec.counts, checkpoint |-> c,
          retained |-> rec.retained, committed |-> rec.committed + 1,
          killed |-> rec.killed, since |-> rec.since, removed |-> rec.removed]
  <2> DEFINE one == [rec EXCEPT !.committed = rec.committed + 1]
             two == [one EXCEPT !.checkpoint = c]
  <2>1. one = [kind |-> rec.kind, status |-> rec.status, boundary |-> rec.boundary,
               counts |-> rec.counts, checkpoint |-> rec.checkpoint, retained |-> rec.retained,
               committed |-> rec.committed + 1, killed |-> rec.killed,
               since |-> rec.since, removed |-> rec.removed]
    BY DEF Run
  <2>2. WithPage(rec, next) = two
    <3>1. one.checkpoint = rec.checkpoint
      BY <2>1
    <3> QED
      BY <3>1, Zenon DEF WithPage
  <2> HIDE DEF one
  <2>3. two = [kind |-> rec.kind, status |-> rec.status, boundary |-> rec.boundary,
               counts |-> rec.counts, checkpoint |-> c, retained |-> rec.retained,
               committed |-> rec.committed + 1, killed |-> rec.killed,
               since |-> rec.since, removed |-> rec.removed]
    BY <2>1
  <2> QED
    BY <2>2, <2>3
<1>2. rec.committed + 1 \in Nat /\ c \in Cursor \cup {None}
  BY RunFields
<1> QED
  BY <1>1, <1>2, RunFields DEF SameChain, Run

FinalStatus == {"complete", "paused", "failed"}
Boundary == {"request", "page", "record", "time", None}

(* finish_remote_run changes status, boundary and counts. *)
LEMMA FinishedFields ==
  ASSUME NEW rec \in Run, NEW status \in FinalStatus, NEW boundary \in Boundary,
         NEW counts \in Spending
  PROVE  /\ Finished(rec, status, boundary, counts) \in Run
         /\ SameChain(rec, Finished(rec, status, boundary, counts))
         /\ Finished(rec, status, boundary, counts).status = status
         /\ Finished(rec, status, boundary, counts).boundary = boundary
         /\ Finished(rec, status, boundary, counts).counts = counts
         /\ Finished(rec, status, boundary, counts).committed = rec.committed
         /\ Finished(rec, status, boundary, counts).retained = rec.retained
         /\ Finished(rec, status, boundary, counts).checkpoint = rec.checkpoint
<1>1. Finished(rec, status, boundary, counts) =
         [kind |-> rec.kind, status |-> status, boundary |-> boundary,
          counts |-> counts, checkpoint |-> rec.checkpoint,
          retained |-> rec.retained, committed |-> rec.committed,
          killed |-> rec.killed, since |-> rec.since, removed |-> rec.removed]
  <2> DEFINE one == [rec EXCEPT !.status = status]
             two == [one EXCEPT !.boundary = boundary]
             three == [two EXCEPT !.counts = counts]
  <2>1. Finished(rec, status, boundary, counts) = three
    BY Zenon DEF Finished
  <2>2. one = [kind |-> rec.kind, status |-> status, boundary |-> rec.boundary,
               counts |-> rec.counts, checkpoint |-> rec.checkpoint, retained |-> rec.retained,
               committed |-> rec.committed, killed |-> rec.killed,
               since |-> rec.since, removed |-> rec.removed]
    BY DEF Run
  <2> HIDE DEF one
  <2>3. two = [kind |-> rec.kind, status |-> status, boundary |-> boundary,
               counts |-> rec.counts, checkpoint |-> rec.checkpoint, retained |-> rec.retained,
               committed |-> rec.committed, killed |-> rec.killed,
               since |-> rec.since, removed |-> rec.removed]
    BY <2>2
  <2> HIDE DEF two
  <2>4. three = [kind |-> rec.kind, status |-> status, boundary |-> boundary,
                 counts |-> counts, checkpoint |-> rec.checkpoint, retained |-> rec.retained,
                 committed |-> rec.committed, killed |-> rec.killed,
                 since |-> rec.since, removed |-> rec.removed]
    BY <2>3
  <2> QED
    BY <2>1, <2>4
<1> QED
  BY <1>1, RunFields DEF SameChain, Run, FinalStatus, Boundary

(* A kill changes nothing that the row reports. *)
LEMMA KilledFields ==
  ASSUME NEW rec \in Run, NEW new, new = [rec EXCEPT !.killed = TRUE]
  PROVE  /\ new \in Run /\ SameChain(rec, new)
         /\ new.status = rec.status /\ new.boundary = rec.boundary
         /\ new.counts = rec.counts /\ new.committed = rec.committed
         /\ new.retained = rec.retained /\ new.checkpoint = rec.checkpoint
<1>1. new = [kind |-> rec.kind, status |-> rec.status, boundary |-> rec.boundary,
             counts |-> rec.counts, checkpoint |-> rec.checkpoint,
             retained |-> rec.retained, committed |-> rec.committed,
             killed |-> TRUE, since |-> rec.since, removed |-> rec.removed]
  BY DEF Run
<1> QED
  BY <1>1, RunFields DEF SameChain, Run

(* begin_remote_run inserts a running run that has done nothing yet. *)
LEMMA NewRunFields ==
  ASSUME NEW kind \in {"listing", "single"}, NEW since \in SUBSET Post,
         NEW removed \in SUBSET Post
  PROVE  LET new == NewRun(kind, since, removed)
         IN  /\ new \in Run
             /\ new.kind = kind /\ new.status = "running" /\ new.boundary = None
             /\ new.checkpoint = None /\ new.retained = 0 /\ new.committed = 0
             /\ new.since = since /\ new.removed = removed
<1>1. NoSpending \in Spending
  BY DEF NoSpending, Spending
<1> QED
  BY <1>1 DEF NewRun, Run

-----------------------------------------------------------------------------
(* What stands is not disturbed by others *)

(* A run stands whatever the provider does and others store. *)
LEMMA RunStandsOn ==
  ASSUME NEW pg, NEW lv \in SUBSET Post, NEW gn, NEW lv2 \in SUBSET Post, NEW gn2,
         Moved(lv, gn, lv2, gn2), NEW pst, NEW pst2, pst \subseteq pst2,
         NEW lim, NEW rec \in Run, RunStands(pg, lv, gn, pst, lim, rec)
  PROVE  RunStands(pg, lv2, gn2, pst2, lim, rec)
<1>1. Remembers(lv, gn, rec)
  BY DEF RunStands
<1>2. /\ Remembers(lv2, gn2, rec)
      /\ \A c \in Cursor : Reached(pg, lv, gn, rec, c, pst) => Reached(pg, lv2, gn2, rec, c, pst2)
      /\ Everything(pg, lv, gn, rec, pst) => Everything(pg, lv2, gn2, rec, pst2)
  BY <1>1, ReachedStands
<1>3. rec.checkpoint # None => Reached(pg, lv2, gn2, rec, rec.checkpoint, pst2)
  BY <1>2, RunFields DEF RunStands
<1> QED
  BY <1>2, <1>3, Zenon DEF RunStands

(* What an invocation has in hand while it is at a label. *)
Ready(at, rp, en) ==
    /\ at \in {"retain", "admit", "commit", "record"} => rp \in Reply
    /\ at \in {"admit", "commit"} => rp.kind = "page"
    /\ at = "finish" => en \in Ending

(* A page has posts of the listing and a continuation or none. *)
LEMMA ReplyFields ==
  ASSUME NEW rp \in Reply
  PROVE  /\ rp.kind \in {"page", "busy", "refused"}
         /\ rp.kind = "page" => rp.posts \in SUBSET Post /\ rp.next \in Cursor \cup {None}
BY DEF Reply

(* So does the invocation that executes one. *)
LEMMA WorksOn ==
  ASSUME NEW pg, NEW lv \in SUBSET Post, NEW gn, NEW lv2 \in SUBSET Post, NEW gn2,
         Moved(lv, gn, lv2, gn2), NEW pst, NEW pst2, pst \subseteq pst2,
         NEW lim, NEW rec, Remembers(lv, gn, rec),
         NEW at, NEW c \in Cursor \cup {None}, NEW sp, NEW rp, NEW en, Ready(at, rp, en),
         Works(pg, lv, gn, pst, lim, rec, at, c, sp, rp, en)
  PROVE  Works(pg, lv2, gn2, pst2, lim, rec, at, c, sp, rp, en)
<1>1. /\ \A d \in Cursor : Reached(pg, lv, gn, rec, d, pst) => Reached(pg, lv2, gn2, rec, d, pst2)
      /\ Everything(pg, lv, gn, rec, pst) => Everything(pg, lv2, gn2, rec, pst2)
  BY ReachedStands
<1>2. Covered(pg, lv, gn, pst, rec, at, c, rp, en)
  BY DEF Works
<1>3. ASSUME at \in {"retain", "admit", "commit"}, rp.kind = "page"
      PROVE  Brings(pg, lv2, gn2, rec, pst2 \cup rp.posts, rp.next)
  <2>1. rp.next \in Cursor \cup {None}
    BY <1>3, ReplyFields DEF Ready
  <2>2. Brings(pg, lv, gn, rec, pst \cup rp.posts, rp.next)
    BY <1>2, <1>3 DEF Covered
  <2>3. pst \cup rp.posts \subseteq pst2 \cup rp.posts
    OBVIOUS
  <2>4. /\ \A d \in Cursor : Reached(pg, lv, gn, rec, d, pst \cup rp.posts) =>
                                Reached(pg, lv2, gn2, rec, d, pst2 \cup rp.posts)
        /\ Everything(pg, lv, gn, rec, pst \cup rp.posts) =>
              Everything(pg, lv2, gn2, rec, pst2 \cup rp.posts)
    BY <2>3, ReachedStands
  <2> QED
    BY <2>1, <2>2, <2>4 DEF Brings
<1>4. Covered(pg, lv2, gn2, pst2, rec, at, c, rp, en)
  BY <1>1, <1>2, <1>3, Zenon DEF Covered
<1> QED
  BY <1>4 DEF Works

-----------------------------------------------------------------------------
(* A step of one invocation *)

(* It writes the row of its own run and its own variables. *)
Moves(p, new, at, r, c, sp, n, rp, en) ==
    /\ runs' = [runs EXCEPT ![run[p]] = new]
    /\ pc' = [pc EXCEPT ![p] = at] /\ run' = [run EXCEPT ![p] = r]
    /\ cursor' = [cursor EXCEPT ![p] = c] /\ spent' = [spent EXCEPT ![p] = sp]
    /\ retries' = [retries EXCEPT ![p] = n]
    /\ reply' = [reply EXCEPT ![p] = rp] /\ ending' = [ending EXCEPT ![p] = en]

(* It goes on with its run, or leaves it. *)
GoesOn(p, new, at, r, sp, rp, en) ==
    IF at = "idle" THEN r = None /\ sp = NoSpending
    ELSE r = run[p] /\ new.status = "running" /\ Ready(at, rp, en)

(* A step of one invocation keeps types and ownership. *)
LEMMA MoveKeepsShape ==
  ASSUME NEW p \in Process, NEW new \in Run, NEW at \in Label, NEW r,
         NEW c \in Cursor \cup {None}, NEW sp \in Spending, NEW n \in 0..MaxRetries,
         NEW rp \in Reply \cup {None}, NEW en \in Ending \cup {None},
         ShapeInv, pc[p] # "idle", UNCHANGED provider, posts' \in SUBSET Post,
         late' \in [Process -> BOOLEAN],
         Moves(p, new, at, r, c, sp, n, rp, en), GoesOn(p, new, at, r, sp, rp, en)
  PROVE  ShapeInv'
<1>1. run[p] \in DOMAIN runs /\ runs \in Seq(Run)
  BY DEF ShapeInv, OwnInv, WorldInv
<1>2. /\ runs' \in Seq(Run) /\ DOMAIN runs' = DOMAIN runs /\ runs'[run[p]] = new
      /\ \A s \in DOMAIN runs : s # run[p] => runs'[s] = runs[s]
  BY <1>1 DEF Moves
<1>3. DOMAIN runs \subseteq Nat /\ None \notin DOMAIN runs
  BY <1>1, SyncAssumption
<1>4. WorldInv'
  BY <1>2 DEF ShapeInv, WorldInv, provider
<1>5. r \in Nat \cup {None}
  BY <1>1, <1>3 DEF GoesOn
<1>6. LocalInv'
  BY <1>5 DEF ShapeInv, LocalInv, Moves
<1>7. /\ pc'[p] = at /\ run'[p] = r /\ reply'[p] = rp /\ ending'[p] = en
      /\ \A q \in Process \ {p} : pc'[q] = pc[q] /\ run'[q] = run[q]
                                  /\ reply'[q] = reply[q] /\ ending'[q] = ending[q]
  BY DEF ShapeInv, LocalInv, Moves
<1>8. r = None \/ r = run[p]
  BY DEF GoesOn
<1>9. ASSUME NEW q \in Process
      PROVE  /\ IF pc'[q] = "idle" THEN run'[q] = None
                ELSE run'[q] \in DOMAIN runs' /\ runs'[run'[q]].status = "running"
             /\ Ready(pc'[q], reply'[q], ending'[q])
  <2>1. CASE q = p
    BY <1>1, <1>2, <1>7, <2>1 DEF GoesOn, Ready
  <2>2. CASE q # p
    <3>1. Ready(pc[q], reply[q], ending[q])
      BY DEF ShapeInv, OwnInv, Ready
    <3>2. IF pc[q] = "idle" THEN run[q] = None
          ELSE run[q] \in DOMAIN runs /\ runs[run[q]].status = "running"
      BY DEF ShapeInv, OwnInv
    <3>3. run[q] = run[p] => run[q] = None
      BY <2>2 DEF ShapeInv, OwnInv
    <3>4. pc'[q] = pc[q] /\ run'[q] = run[q] /\ reply'[q] = reply[q] /\ ending'[q] = ending[q]
      BY <1>7, <2>2
    <3>5. pc[q] # "idle" => runs'[run[q]] = runs[run[q]]
      BY <1>2, <1>3, <3>2, <3>3
    <3> QED
      BY <1>2, <3>1, <3>2, <3>4, <3>5
  <2> QED
    BY <2>1, <2>2
<1>10. ASSUME NEW q \in Process, NEW s \in Process, q # s, run'[q] = run'[s]
      PROVE  run'[q] = None
  BY <1>7, <1>8, <1>10 DEF ShapeInv, OwnInv
<1>11. OwnInv'
  BY <1>9, <1>10 DEF OwnInv, Ready
<1> QED
  BY <1>4, <1>6, <1>11 DEF ShapeInv

(* It leaves what stands of other runs and invocations alone. *)
LEMMA MoveKeepsStand ==
  ASSUME NEW p \in Process, NEW new \in Run, NEW at \in Label, NEW r,
         NEW c \in Cursor \cup {None}, NEW sp \in Spending, NEW n \in 0..MaxRetries,
         NEW rp \in Reply \cup {None}, NEW en \in Ending \cup {None},
         ShapeInv, StandInv, pc[p] # "idle", UNCHANGED provider, posts \subseteq posts',
         Moves(p, new, at, r, c, sp, n, rp, en), GoesOn(p, new, at, r, sp, rp, en),
         RunStands(paging, live, gone, posts', limits, new),
         at # "idle" => Works(paging, live, gone, posts', limits, new, at, c, sp, rp, en)
  PROVE  StandInv'
<1>1. run[p] \in DOMAIN runs /\ runs \in Seq(Run) /\ live \in SUBSET Post
  BY DEF ShapeInv, OwnInv, WorldInv
<1>2. /\ DOMAIN runs' = DOMAIN runs /\ runs'[run[p]] = new
      /\ \A s \in DOMAIN runs : s # run[p] => runs'[s] = runs[s]
  BY <1>1 DEF Moves
<1>3. DOMAIN runs \subseteq Nat /\ None \notin DOMAIN runs /\ \A s \in DOMAIN runs : runs[s] \in Run
  BY <1>1, SyncAssumption
<1>4. paging' = paging /\ limits' = limits /\ live' = live /\ gone' = gone
  BY DEF provider
<1>5. Moved(live, gone, live, gone)
  BY DEF Moved
<1>6. ASSUME NEW s \in DOMAIN runs
      PROVE  RunStands(paging, live, gone, posts', limits, runs'[s])
  <2>1. RunStands(paging, live, gone, posts, limits, runs[s]) /\ runs[s] \in Run
    BY <1>3 DEF StandInv
  <2>2. RunStands(paging, live, gone, posts', limits, runs[s])
    BY <1>1, <1>5, <2>1, RunStandsOn
  <2> QED
    BY <1>2, <2>2
<1>7. ASSUME NEW q \in Process
      PROVE  IF pc'[q] = "idle" THEN spent'[q] = NoSpending
             ELSE Works(paging, live, gone, posts', limits, runs'[run'[q]],
                        pc'[q], cursor'[q], spent'[q], reply'[q], ending'[q])
  <2>1. CASE q = p
    <3>1. /\ pc'[q] = at /\ run'[q] = r /\ cursor'[q] = c /\ spent'[q] = sp
          /\ reply'[q] = rp /\ ending'[q] = en
      BY <2>1 DEF ShapeInv, LocalInv, Moves
    <3> QED
      BY <1>2, <3>1 DEF GoesOn
  <2>2. CASE q # p /\ pc[q] = "idle"
    <3>1. pc'[q] = pc[q] /\ spent'[q] = spent[q]
      BY <2>2 DEF ShapeInv, LocalInv, Moves
    <3> QED
      BY <2>2, <3>1 DEF StandInv
  <2>3. CASE q # p /\ pc[q] # "idle"
    <3>1. /\ pc'[q] = pc[q] /\ run'[q] = run[q] /\ cursor'[q] = cursor[q]
          /\ spent'[q] = spent[q] /\ reply'[q] = reply[q] /\ ending'[q] = ending[q]
      BY <2>3 DEF ShapeInv, LocalInv, Moves
    <3>2. run[q] \in DOMAIN runs /\ run[q] # run[p]
      BY <1>3, <2>3 DEF ShapeInv, OwnInv
    <3>3. runs'[run[q]] = runs[run[q]]
      BY <1>2, <3>2
    <3>4. Ready(pc[q], reply[q], ending[q]) /\ cursor[q] \in Cursor \cup {None}
      BY DEF ShapeInv, OwnInv, LocalInv, Ready
    <3>5. Remembers(live, gone, runs[run[q]])
      BY <3>2 DEF StandInv, RunStands
    <3>6. Works(paging, live, gone, posts, limits, runs[run[q]],
                pc[q], cursor[q], spent[q], reply[q], ending[q])
      BY <2>3 DEF StandInv
    <3>7. Works(paging, live, gone, posts', limits, runs[run[q]],
                pc[q], cursor[q], spent[q], reply[q], ending[q])
      BY <1>1, <1>5, <3>4, <3>5, <3>6, WorksOn
    <3> QED
      BY <2>3, <3>1, <3>3, <3>7
  <2> QED
    BY <2>1, <2>2, <2>3
<1> QED
  BY <1>2, <1>4, <1>6, <1>7, Zenon DEF StandInv

-----------------------------------------------------------------------------
(* The invariant, and what it says of an invocation at work *)

Inv == ShapeInv /\ StandInv

Limited(lim) ==
    lim.requests \in Nat \ {0} /\ lim.pages \in Nat \ {0} /\ lim.records \in Nat \ {0}

(* A budget counts requests, pages and records. *)
LEMMA SpendingFields ==
  ASSUME NEW sp \in Spending
  PROVE  sp.requests \in Nat /\ sp.pages \in Nat /\ sp.records \in Nat
BY DEF Spending

(* A failed transaction and a raising adapter name no budget. *)
LEMMA NoBoundary == None \notin {"request", "page", "record", "time"}
BY SyncAssumption

(* What the invariant says of the provider, the catalog and the rows. *)
LEMMA WorldFacts ==
  ASSUME Inv
  PROVE  /\ live \in SUBSET Post /\ posts \in SUBSET Post /\ Limited(limits)
         /\ paging \in {"keyset", "offset"}
         /\ runs \in Seq(Run) /\ \A r \in DOMAIN runs : runs[r] \in Run
         /\ \A r \in DOMAIN runs : RunStands(paging, live, gone, posts, limits, runs[r])
         /\ late \in [Process -> BOOLEAN]
<1>1. /\ limits \in Limits /\ live \in SUBSET Post /\ posts \in SUBSET Post
      /\ paging \in {"keyset", "offset"} /\ runs \in Seq(Run)
  BY DEF Inv, ShapeInv, WorldInv
<1>2. Limited(limits)
  BY <1>1, SyncAssumption DEF Limited
<1>3. \A r \in DOMAIN runs : runs[r] \in Run
  BY <1>1
<1> QED
  BY <1>1, <1>2, <1>3 DEF Inv, ShapeInv, LocalInv, StandInv

(* What it says of an invocation that executes a run. *)
LEMMA WorkFacts ==
  ASSUME Inv, NEW p \in Process, pc[p] # "idle"
  PROVE  LET rec == runs[run[p]] IN
         /\ run[p] \in DOMAIN runs /\ rec \in Run /\ rec.status = "running"
         /\ RunStands(paging, live, gone, posts, limits, rec)
         /\ Tallied(limits, rec, pc[p], spent[p], reply[p], ending[p])
         /\ Covered(paging, live, gone, posts, rec, pc[p], cursor[p], reply[p], ending[p])
         /\ Ready(pc[p], reply[p], ending[p])
<1>1. run[p] \in DOMAIN runs /\ runs[run[p]].status = "running"
  BY DEF Inv, ShapeInv, OwnInv
<1>2. runs[run[p]] \in Run
  BY <1>1 DEF Inv, ShapeInv, WorldInv
<1>3. RunStands(paging, live, gone, posts, limits, runs[run[p]])
  BY <1>1 DEF Inv, StandInv
<1>4. Works(paging, live, gone, posts, limits, runs[run[p]],
            pc[p], cursor[p], spent[p], reply[p], ending[p])
  BY DEF Inv, StandInv
<1>5. Ready(pc[p], reply[p], ending[p])
  BY DEF Inv, ShapeInv, OwnInv, Ready
<1> QED
  BY <1>1, <1>2, <1>3, <1>4, <1>5 DEF Works

(* The types of its variables. *)
LEMMA LocalFacts ==
  ASSUME Inv, NEW p \in Process
  PROVE  /\ pc[p] \in Label /\ cursor[p] \in Cursor \cup {None} /\ spent[p] \in Spending
         /\ retries[p] \in 0..MaxRetries /\ reply[p] \in Reply \cup {None}
         /\ ending[p] \in Ending \cup {None} /\ 0 \in 0..MaxRetries
BY SyncAssumption DEF Inv, ShapeInv, LocalInv

(* A variable that p leaves alone has the value it had. *)
LEMMA Stays ==
  ASSUME Inv, NEW p \in Process
  PROVE  /\ pc = [pc EXCEPT ![p] = pc[p]] /\ run = [run EXCEPT ![p] = run[p]]
         /\ cursor = [cursor EXCEPT ![p] = cursor[p]] /\ spent = [spent EXCEPT ![p] = spent[p]]
         /\ retries = [retries EXCEPT ![p] = retries[p]]
         /\ reply = [reply EXCEPT ![p] = reply[p]] /\ ending = [ending EXCEPT ![p] = ending[p]]
         /\ pc[p] # "idle" => runs = [runs EXCEPT ![run[p]] = runs[run[p]]]
<1>1. runs \in Seq(Run)
  BY DEF Inv, ShapeInv, WorldInv
<1> QED
  BY <1>1 DEF Inv, ShapeInv, LocalInv

(* Both parts of the invariant at once. *)
LEMMA MoveKeeps ==
  ASSUME NEW p \in Process, NEW new \in Run, NEW at \in Label, NEW r,
         NEW c \in Cursor \cup {None}, NEW sp \in Spending, NEW n \in 0..MaxRetries,
         NEW rp \in Reply \cup {None}, NEW en \in Ending \cup {None},
         Inv, pc[p] # "idle", UNCHANGED provider, posts \subseteq posts',
         posts' \in SUBSET Post, late' \in [Process -> BOOLEAN],
         Moves(p, new, at, r, c, sp, n, rp, en), GoesOn(p, new, at, r, sp, rp, en),
         RunStands(paging, live, gone, posts', limits, new),
         at # "idle" => Works(paging, live, gone, posts', limits, new, at, c, sp, rp, en)
  PROVE  Inv'
<1>1. ShapeInv /\ StandInv
  BY DEF Inv
<1>2. ShapeInv'
  BY <1>1, MoveKeepsShape
<1>3. StandInv'
  BY <1>1, MoveKeepsStand
<1> QED
  BY <1>2, <1>3 DEF Inv

-----------------------------------------------------------------------------
(* The rows of a chain *)

(* What a chain has seen depends on where it began, and on nothing else of *)
(* a row.                                                                  *)
LEMMA SameChainReaches ==
  ASSUME NEW rec, NEW new, SameChain(rec, new), NEW pg, NEW lv, NEW gn
  PROVE  /\ Remembers(lv, gn, rec) => Remembers(lv, gn, new)
         /\ \A c, known : Reached(pg, lv, gn, rec, c, known) => Reached(pg, lv, gn, new, c, known)
         /\ \A known : Everything(pg, lv, gn, rec, known) => Everything(pg, lv, gn, new, known)
         /\ \A c, known : Brings(pg, lv, gn, rec, known, c) => Brings(pg, lv, gn, new, known, c)
<1>1. new.since = rec.since /\ new.removed = rec.removed
  BY DEF SameChain
<1>2. Remembers(lv, gn, rec) => Remembers(lv, gn, new)
  BY <1>1 DEF Remembers
<1>3. \A c, known : Reached(pg, lv, gn, rec, c, known) => Reached(pg, lv, gn, new, c, known)
  BY <1>1 DEF Reached, KeysetReached, OffsetReached
<1>4. \A known : Everything(pg, lv, gn, rec, known) => Everything(pg, lv, gn, new, known)
  BY <1>1 DEF Everything
<1> QED
  BY <1>2, <1>3, <1>4 DEF Brings

(* A row that stays a running one, of no fewer pages. *)
LEMMA RunningStands ==
  ASSUME NEW pg, NEW lv, NEW gn, NEW pst, NEW lim, NEW rec \in Run, NEW new \in Run,
         RunStands(pg, lv, gn, pst, lim, rec), SameChain(rec, new), new.status = "running",
         new.boundary = rec.boundary, new.checkpoint = rec.checkpoint,
         new.committed = rec.committed
  PROVE  RunStands(pg, lv, gn, pst, lim, new)
<1>1. Remembers(lv, gn, new)
  BY SameChainReaches DEF RunStands
<1>2. new.checkpoint # None => Reached(pg, lv, gn, new, new.checkpoint, pst)
  BY SameChainReaches DEF RunStands
<1> QED
  BY <1>1, <1>2 DEF RunStands

-----------------------------------------------------------------------------
(* Steps that end a run *)

(* What a step owes to the invariant when it comes to the end of its run. *)
LEMMA FinishingKeeps ==
  ASSUME NEW p \in Process, NEW new \in Run, NEW sp \in Spending,
         NEW status \in {"complete", "paused", "failed"},
         NEW boundary \in {"request", "page", "record", "time", None},
         Inv, pc[p] # "idle", UNCHANGED <<provider, run, late>>, posts \subseteq posts',
         posts' \in SUBSET Post, runs' = [runs EXCEPT ![run[p]] = new],
         spent' = [spent EXCEPT ![p] = sp], Finishing(p, status, boundary),
         new.status = "running", RunStands(paging, live, gone, posts', limits, new),
         Works(paging, live, gone, posts', limits, new, "finish", None, sp, None,
               [status |-> status, boundary |-> boundary])
  PROVE  Inv'
<1> DEFINE en == [status |-> status, boundary |-> boundary]
<1>1. en \in Ending /\ "finish" \in Label
  BY DEF Ending, Label
<1>2. Moves(p, new, "finish", run[p], None, sp, 0, None, en)
  BY Stays DEF Moves, Finishing, Goto
<1>3. GoesOn(p, new, "finish", run[p], sp, None, en)
  BY <1>1 DEF GoesOn, Ready
<1>4. late' \in [Process -> BOOLEAN] /\ 0 \in 0..MaxRetries /\ UNCHANGED provider
  BY WorldFacts, LocalFacts DEF provider
<1> HIDE DEF en
<1>5. Works(paging, live, gone, posts', limits, new, "finish", None, sp, None, en)
  BY DEF en
<1> QED
  BY <1>1, <1>2, <1>3, <1>4, <1>5, MoveKeeps

(* One that does not complete stores nothing and keeps its row, or adds a  *)
(* retained response to it.                                                *)
LEMMA StopKeeps ==
  ASSUME NEW p \in Process, NEW new, NEW sp \in Spending, NEW status \in {"paused", "failed"},
         NEW boundary \in {"request", "page", "record", "time", None},
         Inv, pc[p] # "idle", UNCHANGED <<provider, posts, run, late>>,
         new = runs[run[p]] \/ new = Retained(runs[run[p]]),
         runs' = [runs EXCEPT ![run[p]] = new], spent' = [spent EXCEPT ![p] = sp],
         Finishing(p, status, boundary),
         Tallied(limits, new, "finish", sp, None, [status |-> status, boundary |-> boundary])
  PROVE  Inv'
<1> DEFINE rec == runs[run[p]]
<1>1. /\ rec \in Run /\ rec.status = "running"
      /\ RunStands(paging, live, gone, posts, limits, rec)
  BY WorkFacts
<1>2. /\ new \in Run /\ SameChain(rec, new) /\ new.status = "running"
      /\ new.boundary = rec.boundary /\ new.checkpoint = rec.checkpoint
      /\ new.committed = rec.committed
  BY <1>1, RetainedFields DEF SameChain
<1>3. posts' = posts /\ posts \in SUBSET Post
  BY WorldFacts
<1> HIDE DEF rec
<1>4. RunStands(paging, live, gone, posts', limits, new)
  BY <1>1, <1>2, <1>3, RunningStands
<1>5. Covered(paging, live, gone, posts', new, "finish", None, None,
              [status |-> status, boundary |-> boundary])
  BY DEF Covered, Executing
<1>6. Works(paging, live, gone, posts', limits, new, "finish", None, sp, None,
            [status |-> status, boundary |-> boundary])
  BY <1>5 DEF Works
<1> QED
  BY <1>2, <1>3, <1>4, <1>6, FinishingKeeps

(* What the counts of a run at its executor say when it comes to an end    *)
(* without a page.                                                         *)
LEMMA StopCounts ==
  ASSUME NEW lim, NEW rec \in Run, NEW new, NEW at \in Executing, NEW sp, NEW rp, NEW en,
         Tallied(lim, rec, at, sp, rp, en),
         \/ new = rec
         \/ new = Retained(rec) /\ at = "retain",
         NEW sp2 \in Spending, sp \in Spending,
         sp2.requests \in {sp.requests, sp.requests + 1} /\ sp2.requests <= lim.requests,
         sp2.pages = sp.pages, sp2.records = sp.records,
         NEW status \in {"paused", "failed"}, NEW boundary,
         boundary = "record" /\ rec.committed = 0 => PageSize > lim.records
  PROVE  Tallied(lim, new, "finish", sp2, None, [status |-> status, boundary |-> boundary])
<1>1. /\ sp.requests \in Nat /\ sp.pages \in Nat /\ sp.records \in Nat
      /\ sp2.requests \in Nat /\ sp2.pages \in Nat /\ sp2.records \in Nat
      /\ rec.retained \in Nat /\ rec.committed \in Nat
  BY SpendingFields, RunFields
<1>2. /\ rec.kind = "listing" /\ sp.pages = rec.committed
      /\ rec.committed > 0 => rec.checkpoint # None
      /\ rec.committed <= rec.retained /\ rec.retained <= sp.requests
      /\ sp.pages <= lim.pages /\ sp.records <= lim.records
      /\ at = "retain" => rec.retained < sp.requests
  BY DEF Tallied
<1>3. /\ new.committed = rec.committed /\ new.checkpoint = rec.checkpoint
      /\ \/ new.retained = rec.retained
         \/ new.retained = rec.retained + 1 /\ rec.retained < sp.requests
  BY <1>2, RetainedFields
<1>4. new.committed <= new.retained /\ new.retained <= sp2.requests
  BY <1>1, <1>2, <1>3
<1>5. sp2.pages = new.committed /\ (new.committed > 0 => new.checkpoint # None)
  BY <1>2, <1>3
<1> DEFINE ended == [status |-> status, boundary |-> boundary]
<1>6. ended.status = status /\ ended.boundary = boundary
  OBVIOUS
<1> HIDE DEF ended
<1>7. Tallied(lim, new, "finish", sp2, None, ended)
  BY <1>2, <1>3, <1>4, <1>5, <1>6 DEF Tallied, Executing
<1> QED
  BY <1>7 DEF ended

(* No pages or records left before a continuation: the run pauses. *)
LEMMA ExhaustedKeeps ==
  ASSUME Inv, NEW p \in Process, Exhausted(p)
  PROVE  Inv'
<1> DEFINE rec == runs[run[p]]
<1>1. pc[p] = "next" /\ UNCHANGED <<provider, posts, runs, run, spent, late>>
  BY DEF Exhausted
<1>2. rec \in Run /\ Tallied(limits, rec, "next", spent[p], reply[p], ending[p])
  BY <1>1, WorkFacts
<1>3. spent[p] \in Spending /\ Limited(limits)
  BY LocalFacts, WorldFacts
<1>4. runs' = [runs EXCEPT ![run[p]] = rec] /\ spent' = [spent EXCEPT ![p] = spent[p]]
  BY <1>1, Stays
<1>5. spent[p].records >= limits.records => rec.committed # 0
  BY <1>2, <1>3, SpendingFields DEF Tallied, Executing, Limited
<1>6. PICK boundary \in {"page", "record"} :
        /\ Finishing(p, "paused", boundary)
        /\ boundary = "record" => spent[p].records >= limits.records
  BY DEF Exhausted
<1>7. spent[p].requests <= limits.requests
  BY <1>2 DEF Tallied
<1>8. Tallied(limits, rec, "finish", spent[p], None,
              [status |-> "paused", boundary |-> boundary])
  BY <1>2, <1>3, <1>5, <1>6, <1>7, StopCounts DEF Executing
<1> QED
  BY <1>1, <1>3, <1>4, <1>6, <1>8, StopKeeps

(* reserve_request refuses: the run pauses. *)
LEMMA ReserveRefusedKeeps ==
  ASSUME Inv, NEW p \in Process, ReserveRefused(p)
  PROVE  Inv'
<1> DEFINE rec == runs[run[p]]
<1>1. pc[p] = "send" /\ UNCHANGED <<provider, posts, runs, run, spent, late>>
  BY DEF ReserveRefused
<1>2. rec \in Run /\ Tallied(limits, rec, "send", spent[p], reply[p], ending[p])
  BY <1>1, WorkFacts
<1>3. spent[p] \in Spending
  BY LocalFacts
<1>4. runs' = [runs EXCEPT ![run[p]] = rec] /\ spent' = [spent EXCEPT ![p] = spent[p]]
  BY <1>1, Stays
<1>5. PICK boundary \in {"time", "request"} : Finishing(p, "paused", boundary)
  BY DEF ReserveRefused
<1>6. spent[p].requests <= limits.requests
  BY <1>2 DEF Tallied
<1>7. Tallied(limits, rec, "finish", spent[p], None,
              [status |-> "paused", boundary |-> boundary])
  BY <1>2, <1>3, <1>5, <1>6, StopCounts DEF Executing
<1> QED
  BY <1>1, <1>3, <1>4, <1>5, <1>7, StopKeeps

(* A reserved request is counted, within the limit. *)
LEMMA RequestSpends ==
  ASSUME Inv, NEW p \in Process, Reserve(p)
  PROVE  \E sp \in Spending :
            /\ spent' = [spent EXCEPT ![p] = sp]
            /\ sp.requests = spent[p].requests + 1 /\ sp.requests <= limits.requests
            /\ sp.pages = spent[p].pages /\ sp.records = spent[p].records
<1> DEFINE sp == [requests |-> spent[p].requests + 1, pages |-> spent[p].pages,
                  records |-> spent[p].records]
<1>1. spent[p] \in Spending /\ limits.requests \in Nat
  BY LocalFacts, WorldFacts DEF Limited
<1>2. sp \in Spending
  BY <1>1 DEF Spending
<1>3. [spent[p] EXCEPT !.requests = @ + 1] = sp
  BY <1>1 DEF Spending
<1>4. spent' = [spent EXCEPT ![p] = sp]
  BY <1>3 DEF Reserve
<1>5. sp.requests <= limits.requests
  BY <1>1, SpendingFields DEF Reserve
<1> QED
  BY <1>2, <1>4, <1>5

(* The adapter raises: the request is counted and the run fails. *)
LEMMA FetchFailsKeeps ==
  ASSUME Inv, NEW p \in Process, FetchFails(p)
  PROVE  Inv'
<1> DEFINE rec == runs[run[p]]
<1>1. /\ pc[p] = "send" /\ Reserve(p) /\ Finishing(p, "failed", None)
      /\ UNCHANGED <<provider, posts, runs, run, late>>
  BY DEF FetchFails, Reserve
<1>2. rec \in Run /\ Tallied(limits, rec, "send", spent[p], reply[p], ending[p])
  BY <1>1, WorkFacts
<1>3. PICK sp \in Spending :
        /\ spent' = [spent EXCEPT ![p] = sp]
        /\ sp.requests = spent[p].requests + 1 /\ sp.requests <= limits.requests
        /\ sp.pages = spent[p].pages /\ sp.records = spent[p].records
  BY <1>1, RequestSpends
<1>4. runs' = [runs EXCEPT ![run[p]] = rec] /\ spent[p] \in Spending
  BY <1>1, Stays, LocalFacts
<1>5. Tallied(limits, rec, "finish", sp, None, [status |-> "failed", boundary |-> None])
  BY <1>2, <1>3, <1>4, StopCounts, NoBoundary DEF Executing
<1> QED
  BY <1>1, <1>3, <1>4, <1>5, StopKeeps

(* The transaction of the response fails, and so does the run. *)
LEMMA RetainFailsKeeps ==
  ASSUME Inv, NEW p \in Process, RetainFails(p)
  PROVE  Inv'
<1> DEFINE rec == runs[run[p]]
<1>1. /\ pc[p] = "retain" /\ Finishing(p, "failed", None)
      /\ UNCHANGED <<provider, posts, runs, run, spent, late>>
  BY DEF RetainFails
<1>2. rec \in Run /\ Tallied(limits, rec, "retain", spent[p], reply[p], ending[p])
  BY <1>1, WorkFacts
<1>3. runs' = [runs EXCEPT ![run[p]] = rec] /\ spent' = [spent EXCEPT ![p] = spent[p]]
      /\ spent[p] \in Spending
  BY <1>1, Stays, LocalFacts
<1>4. spent[p].requests <= limits.requests
  BY <1>2 DEF Tallied
<1>5. Tallied(limits, rec, "finish", spent[p], None, [status |-> "failed", boundary |-> None])
  BY <1>2, <1>3, <1>4, StopCounts, NoBoundary DEF Executing
<1> QED
  BY <1>1, <1>3, <1>5, StopKeeps

(* A page that is not admitted: only one that no run of these limits could *)
(* take makes a run pause for records before its first page.               *)
LEMMA RefusalCounts ==
  ASSUME Inv, NEW p \in Process, pc[p] \in {"admit", "commit"}, ~Admitted(p)
  PROVE  /\ AdmitBoundary(p) \in {"time", "page", "record"}
         /\ AdmitBoundary(p) = "record" /\ runs[run[p]].committed = 0 =>
               PageSize > limits.records
<1> DEFINE rec == runs[run[p]]
<1>1. AdmitBoundary(p) \in {"time", "page", "record"}
  BY DEF AdmitBoundary
<1>2. ASSUME AdmitBoundary(p) = "record", rec.committed = 0
      PROVE  PageSize > limits.records
  <2>1. spent[p] \in Spending /\ Limited(limits)
    BY LocalFacts, WorldFacts
  <2>2. /\ Tallied(limits, rec, pc[p], spent[p], reply[p], ending[p])
        /\ Covered(paging, live, gone, posts, rec, pc[p], cursor[p], reply[p], ending[p])
        /\ Ready(pc[p], reply[p], ending[p])
    BY WorkFacts
  <2>3. spent[p].records = 0 /\ reply[p].kind = "page" /\ reply[p] \in Reply
    BY <1>2, <2>2 DEF Tallied, Executing, Ready
  <2>4. Cardinality(reply[p].posts) <= PageSize
    BY <2>2, <2>3 DEF Covered
  <2>5. Cardinality(reply[p].posts) \in Nat /\ PageSize \in Nat
    BY <2>3, ReplyFields, ListingIsFinite, SyncAssumption
  <2>6. ~ (spent[p].records + Cardinality(reply[p].posts) <= limits.records)
    <3>1. ~late[p] /\ ~ (spent[p].pages >= limits.pages)
      BY <1>2, Zenon DEF AdmitBoundary
    <3>2. spent[p].pages < limits.pages
      BY <2>1, <3>1, SpendingFields DEF Limited
    <3> QED
      BY <3>1, <3>2 DEF Admitted
  <2> QED
    BY <2>1, <2>3, <2>4, <2>5, <2>6 DEF Limited
<1> QED
  BY <1>1, <1>2

(* A page that is not admitted pauses the run and stores nothing. *)
LEMMA RefusalKeeps ==
  ASSUME Inv, NEW p \in Process, pc[p] \in {"admit", "commit"}, ~Admitted(p),
         Finishing(p, "paused", AdmitBoundary(p)),
         UNCHANGED <<provider, posts, runs, run, spent, late>>
  PROVE  Inv'
<1> DEFINE rec == runs[run[p]]
<1>1. rec \in Run /\ Tallied(limits, rec, pc[p], spent[p], reply[p], ending[p])
  BY WorkFacts
<1>2. runs' = [runs EXCEPT ![run[p]] = rec] /\ spent' = [spent EXCEPT ![p] = spent[p]]
      /\ spent[p] \in Spending
  BY Stays, LocalFacts
<1>3. spent[p].requests <= limits.requests
  BY <1>1 DEF Tallied
<1>4. PICK boundary \in {"time", "page", "record"} :
        /\ boundary = AdmitBoundary(p)
        /\ boundary = "record" /\ rec.committed = 0 => PageSize > limits.records
  BY RefusalCounts
<1>5. Tallied(limits, rec, "finish", spent[p], None,
              [status |-> "paused", boundary |-> boundary])
  <2>1. pc[p] \in Executing /\ spent[p].requests \in {spent[p].requests, spent[p].requests + 1}
    BY DEF Executing
  <2> HIDE DEF rec
  <2> QED
    BY <1>1, <1>2, <1>3, <1>4, <2>1, StopCounts
<1>6. Finishing(p, "paused", boundary)
  BY <1>4
<1> QED
  BY <1>2, <1>5, <1>6, StopKeeps

-----------------------------------------------------------------------------
(* Steps between two commits *)

(* What a step owes to the invariant when its run goes on and the catalog *)
(* stays as it is.                                                        *)
LEMMA GoOnKeeps ==
  ASSUME NEW p \in Process, NEW new, NEW at \in Label \ {"idle"},
         NEW c \in Cursor \cup {None}, NEW sp \in Spending, NEW n \in 0..MaxRetries,
         NEW rp \in Reply \cup {None}, NEW en \in Ending \cup {None},
         Inv, pc[p] # "idle", UNCHANGED <<provider, posts, late>>,
         new = runs[run[p]] \/ new = Retained(runs[run[p]]),
         Moves(p, new, at, run[p], c, sp, n, rp, en), Ready(at, rp, en),
         Works(paging, live, gone, posts, limits, new, at, c, sp, rp, en)
  PROVE  Inv'
<1> DEFINE rec == runs[run[p]]
<1>1. /\ rec \in Run /\ rec.status = "running"
      /\ RunStands(paging, live, gone, posts, limits, rec)
  BY WorkFacts
<1>2. /\ new \in Run /\ SameChain(rec, new) /\ new.status = "running"
      /\ new.boundary = rec.boundary /\ new.checkpoint = rec.checkpoint
      /\ new.committed = rec.committed
  BY <1>1, RetainedFields DEF SameChain
<1>3. /\ posts' = posts /\ posts \in SUBSET Post /\ late' \in [Process -> BOOLEAN]
      /\ UNCHANGED provider
  BY WorldFacts DEF provider
<1>4. GoesOn(p, new, at, run[p], sp, rp, en)
  BY <1>2 DEF GoesOn
<1> HIDE DEF rec
<1>5. RunStands(paging, live, gone, posts', limits, new)
  BY <1>1, <1>2, <1>3, RunningStands
<1>6. Works(paging, live, gone, posts', limits, new, at, c, sp, rp, en)
  BY <1>3
<1> QED
  BY <1>2, <1>3, <1>4, <1>5, <1>6, MoveKeeps

(* The next request is due. *)
LEMMA NextPageKeeps ==
  ASSUME Inv, NEW p \in Process, NextPage(p)
  PROVE  Inv'
<1> DEFINE rec == runs[run[p]]
<1>1. /\ pc[p] = "next" /\ Goto(p, "send")
      /\ UNCHANGED <<provider, posts, runs, run, spent, request, late>>
  BY DEF NextPage
<1>2. /\ Tallied(limits, rec, "next", spent[p], reply[p], ending[p])
      /\ Covered(paging, live, gone, posts, rec, "next", cursor[p], reply[p], ending[p])
  BY <1>1, WorkFacts
<1>3. Moves(p, rec, "send", run[p], cursor[p], spent[p], retries[p], reply[p], ending[p])
  BY <1>1, Stays DEF Moves, Goto, request
<1>4. Ready("send", reply[p], ending[p]) /\ "send" \in Label \ {"idle"}
  BY DEF Ready, Label
<1>5. Tallied(limits, rec, "send", spent[p], reply[p], ending[p])
  BY <1>2 DEF Tallied, Executing
<1>6. Covered(paging, live, gone, posts, rec, "send", cursor[p], reply[p], ending[p])
  BY <1>2 DEF Covered, Executing
<1>7. Works(paging, live, gone, posts, limits, rec, "send", cursor[p], spent[p], reply[p],
            ending[p])
  BY <1>5, <1>6 DEF Works
<1> QED
  BY <1>1, <1>3, <1>4, <1>7, LocalFacts, GoOnKeeps

(* A response arrives: a page brings what lies before its continuation. *)
LEMMA FetchKeeps ==
  ASSUME Inv, NEW p \in Process, Fetch(p)
  PROVE  Inv'
<1> DEFINE rec == runs[run[p]]
<1>1. /\ pc[p] = "send" /\ Reserve(p) /\ Goto(p, "retain")
      /\ UNCHANGED <<provider, posts, runs, run, cursor, retries, ending, late>>
  BY DEF Fetch, Reserve
<1>2. /\ rec \in Run /\ Tallied(limits, rec, "send", spent[p], reply[p], ending[p])
      /\ Covered(paging, live, gone, posts, rec, "send", cursor[p], reply[p], ending[p])
  BY <1>1, WorkFacts
<1>3. PICK sp \in Spending :
        /\ spent' = [spent EXCEPT ![p] = sp]
        /\ sp.requests = spent[p].requests + 1 /\ sp.requests <= limits.requests
        /\ sp.pages = spent[p].pages /\ sp.records = spent[p].records
  BY <1>1, RequestSpends
<1>4. PICK rp \in [kind : {"busy", "refused"}] \cup {Listing(cursor[p])} :
        reply' = [reply EXCEPT ![p] = rp]
  BY DEF Fetch
<1>5. /\ cursor[p] \in Cursor \cup {None}
      /\ cursor[p] # None => Reached(paging, live, gone, rec, cursor[p], posts)
  BY <1>2, LocalFacts DEF Covered, Executing
<1>6. /\ Listing(cursor[p]) \in Reply /\ Listing(cursor[p]).kind = "page"
      /\ Cardinality(Listing(cursor[p]).posts) <= PageSize
      /\ Brings(paging, live, gone, rec, posts \cup Listing(cursor[p]).posts,
                Listing(cursor[p]).next)
  BY <1>5, WorldFacts, ListingBrings
<1>7. /\ rp \in Reply
      /\ rp.kind = "page" => /\ Cardinality(rp.posts) <= PageSize
                             /\ Brings(paging, live, gone, rec, posts \cup rp.posts, rp.next)
  <2>1. CASE rp \in [kind : {"busy", "refused"}]
    BY <2>1 DEF Reply
  <2>2. CASE rp = Listing(cursor[p])
    BY <1>6, <2>2
  <2> QED
    BY <2>1, <2>2
<1>8. Moves(p, rec, "retain", run[p], cursor[p], sp, retries[p], rp, ending[p])
  BY <1>1, <1>3, <1>4, Stays DEF Moves, Goto
<1>9. Ready("retain", rp, ending[p]) /\ "retain" \in Label \ {"idle"}
  BY <1>7 DEF Ready, Label
<1>10. Tallied(limits, rec, "retain", sp, rp, ending[p])
  <2>1. /\ spent[p].requests \in Nat /\ rec.retained \in Nat /\ rec.committed \in Nat
    BY <1>2, LocalFacts, SpendingFields, RunFields
  <2> HIDE DEF rec
  <2>2. rec.committed <= rec.retained /\ rec.retained < sp.requests /\ rec.retained <= sp.requests
    BY <1>2, <1>3, <2>1 DEF Tallied, Executing
  <2> QED
    BY <1>2, <1>3, <2>2 DEF Tallied, Executing
<1>11. Covered(paging, live, gone, posts, rec, "retain", cursor[p], rp, ending[p])
  BY <1>5, <1>7 DEF Covered
<1>12. Works(paging, live, gone, posts, limits, rec, "retain", cursor[p], sp, rp, ending[p])
  BY <1>10, <1>11 DEF Works
<1> QED
  BY <1>1, <1>7, <1>8, <1>9, <1>12, LocalFacts, GoOnKeeps

(* The response is retained; the run goes on, asks again, or fails. *)
LEMMA RetainKeeps ==
  ASSUME Inv, NEW p \in Process, Retain(p)
  PROVE  Inv'
<1> DEFINE rec == runs[run[p]]
           new == Retained(rec)
           sp == spent[p]
<1>1. /\ pc[p] = "retain" /\ UNCHANGED <<provider, posts, run, spent, late>>
      /\ runs' = [runs EXCEPT ![run[p]] = new]
  BY DEF Retain
<1>2. /\ rec \in Run /\ Tallied(limits, rec, "retain", sp, reply[p], ending[p])
      /\ Covered(paging, live, gone, posts, rec, "retain", cursor[p], reply[p], ending[p])
      /\ Ready("retain", reply[p], ending[p])
  BY <1>1, WorkFacts
<1>3. /\ new \in Run /\ SameChain(rec, new) /\ new.retained = rec.retained + 1
      /\ new.committed = rec.committed /\ new.checkpoint = rec.checkpoint
  BY <1>2, RetainedFields
<1>4. /\ sp \in Spending /\ sp.requests \in Nat /\ rec.retained \in Nat /\ rec.committed \in Nat
      /\ reply[p] \in Reply
  BY <1>2, LocalFacts, SpendingFields, RunFields DEF Ready
<1> HIDE DEF rec, new, sp
<1>5. /\ new.committed < new.retained /\ new.committed <= new.retained
      /\ new.retained <= sp.requests
  BY <1>2, <1>3, <1>4 DEF Tallied, Executing
<1>6. /\ sp.requests <= limits.requests /\ sp.pages <= limits.pages
      /\ sp.records <= limits.records
      /\ new.kind = "listing" /\ sp.pages = new.committed
      /\ new.committed = 0 => sp.records = 0
      /\ new.committed > 0 => new.checkpoint # None
  BY <1>2, <1>3 DEF Tallied, Executing, SameChain
<1>7. /\ cursor[p] # None => Reached(paging, live, gone, new, cursor[p], posts)
      /\ reply[p].kind = "page" =>
            /\ Cardinality(reply[p].posts) <= PageSize
            /\ Brings(paging, live, gone, new, posts \cup reply[p].posts, reply[p].next)
  BY <1>2, <1>3, SameChainReaches DEF Covered, Executing
<1>8. CASE reply[p].kind = "page" /\ Goto(p, "admit") /\ UNCHANGED request
  <2>1. Moves(p, new, "admit", run[p], cursor[p], sp, retries[p], reply[p], ending[p])
    BY <1>1, <1>8, Stays DEF Moves, Goto, request, sp
  <2>2. Ready("admit", reply[p], ending[p]) /\ "admit" \in Label \ {"idle"}
    BY <1>4, <1>8 DEF Ready, Label
  <2>3. Tallied(limits, new, "admit", sp, reply[p], ending[p])
    BY <1>5, <1>6 DEF Tallied, Executing
  <2>4. Covered(paging, live, gone, posts, new, "admit", cursor[p], reply[p], ending[p])
    BY <1>7 DEF Covered
  <2>5. Works(paging, live, gone, posts, limits, new, "admit", cursor[p], sp, reply[p],
              ending[p])
    BY <2>3, <2>4 DEF Works
  <2> QED
    BY <1>1, <1>4, <2>1, <2>2, <2>5, LocalFacts, GoOnKeeps DEF new, rec
<1>9. CASE /\ reply[p].kind = "busy" /\ CanRetry(p)
           /\ retries' = [retries EXCEPT ![p] = @ + 1]
           /\ reply' = [reply EXCEPT ![p] = None]
           /\ Goto(p, "send") /\ UNCHANGED <<cursor, ending>>
  <2> DEFINE n == retries[p] + 1
  <2>1. n \in 0..MaxRetries
    BY <1>9, LocalFacts, SyncAssumption DEF CanRetry
  <2>2. Moves(p, new, "send", run[p], cursor[p], sp, n, None, ending[p])
    BY <1>1, <1>9, Stays DEF Moves, Goto, sp
  <2>3. Ready("send", None, ending[p]) /\ "send" \in Label \ {"idle"}
    BY DEF Ready, Label
  <2>4. Tallied(limits, new, "send", sp, None, ending[p])
    BY <1>5, <1>6 DEF Tallied, Executing
  <2>5. Covered(paging, live, gone, posts, new, "send", cursor[p], None, ending[p])
    BY <1>7 DEF Covered
  <2>6. Works(paging, live, gone, posts, limits, new, "send", cursor[p], sp, None, ending[p])
    BY <2>4, <2>5 DEF Works
  <2> HIDE DEF n
  <2> QED
    BY <1>1, <1>4, <2>1, <2>2, <2>3, <2>6, LocalFacts, GoOnKeeps DEF new, rec
<1>10. CASE reply[p].kind # "page" /\ Finishing(p, "failed", None)
  <2>1. Tallied(limits, new, "finish", sp, None, [status |-> "failed", boundary |-> None])
    BY <1>2, <1>4, <1>6, StopCounts, NoBoundary DEF Executing, new
  <2>2. spent' = [spent EXCEPT ![p] = sp]
    BY <1>1, Stays DEF sp
  <2> QED
    BY <1>1, <1>4, <1>10, <2>1, <2>2, StopKeeps DEF new, rec
<1> QED
  BY <1>8, <1>9, <1>10 DEF Retain

(* The page is admitted, or refused by a limit. *)
LEMMA AdmitKeeps ==
  ASSUME Inv, NEW p \in Process, Admit(p)
  PROVE  Inv'
<1> DEFINE rec == runs[run[p]]
<1>1. pc[p] = "admit" /\ UNCHANGED <<provider, posts, runs, run, spent, late>>
  BY DEF Admit
<1>2. /\ Tallied(limits, rec, "admit", spent[p], reply[p], ending[p])
      /\ Covered(paging, live, gone, posts, rec, "admit", cursor[p], reply[p], ending[p])
      /\ Ready("admit", reply[p], ending[p])
  BY <1>1, WorkFacts
<1>3. CASE Admitted(p) /\ Goto(p, "commit") /\ UNCHANGED request
  <2>1. Moves(p, rec, "commit", run[p], cursor[p], spent[p], retries[p], reply[p], ending[p])
    BY <1>1, <1>3, Stays DEF Moves, Goto, request
  <2>2. Ready("commit", reply[p], ending[p]) /\ "commit" \in Label \ {"idle"}
    BY <1>2 DEF Ready, Label
  <2>3. Tallied(limits, rec, "commit", spent[p], reply[p], ending[p])
    BY <1>2 DEF Tallied, Executing
  <2>4. Covered(paging, live, gone, posts, rec, "commit", cursor[p], reply[p], ending[p])
    BY <1>2 DEF Covered, Executing
  <2>5. Works(paging, live, gone, posts, limits, rec, "commit", cursor[p], spent[p],
              reply[p], ending[p])
    BY <2>3, <2>4 DEF Works
  <2> QED
    BY <1>1, <2>1, <2>2, <2>5, LocalFacts, GoOnKeeps
<1>4. CASE ~Admitted(p) /\ Finishing(p, "paused", AdmitBoundary(p))
  BY <1>1, <1>4, RefusalKeeps
<1> QED
  BY <1>3, <1>4 DEF Admit

-----------------------------------------------------------------------------
(* The commit of a page *)

(* The transaction refuses a page that time has run out for. *)
LEMMA CommitLateKeeps ==
  ASSUME Inv, NEW p \in Process, CommitLate(p)
  PROVE  Inv'
BY RefusalKeeps DEF CommitLate

(* The page is counted, and the limits still hold. *)
LEMMA PageSpends ==
  ASSUME Inv, NEW p \in Process, pc[p] = "commit", Admitted(p)
  PROVE  LET sp == PageSpent(p) IN
         /\ sp \in Spending /\ sp.requests = spent[p].requests
         /\ sp.pages = spent[p].pages + 1
         /\ sp.pages <= limits.pages /\ sp.records <= limits.records
<1> DEFINE old == spent[p]
           k == Cardinality(reply[p].posts)
           one == [old EXCEPT !.pages = old.pages + 1]
           two == [one EXCEPT !.records = old.records + k]
<1>1. old \in Spending /\ Limited(limits)
  BY LocalFacts, WorldFacts
<1>2. reply[p] \in Reply /\ reply[p].kind = "page"
  BY WorkFacts DEF Ready
<1>3. k \in Nat
  BY <1>2, ReplyFields, ListingIsFinite
<1>4. old.requests \in Nat /\ old.pages \in Nat /\ old.records \in Nat
  BY <1>1, SpendingFields
<1>5. /\ one = [requests |-> old.requests, pages |-> old.pages + 1, records |-> old.records]
      /\ one.records = old.records
  BY <1>1 DEF Spending
<1>6. PageSpent(p) = two
  BY <1>5, Zenon DEF PageSpent
<1> HIDE DEF one, k
<1>7. two = [requests |-> old.requests, pages |-> old.pages + 1, records |-> old.records + k]
  BY <1>5
<1> HIDE DEF two, old
<1>8. two \in Spending /\ two.requests = old.requests /\ two.pages = old.pages + 1
      /\ two.records = old.records + k
  BY <1>3, <1>4, <1>7 DEF Spending
<1>9. old.pages < limits.pages /\ old.records + k <= limits.records
  BY DEF Admitted, old, k
<1>10. two.pages <= limits.pages /\ two.records <= limits.records
  BY <1>1, <1>4, <1>8, <1>9 DEF Limited
<1> QED
  BY <1>6, <1>8, <1>10 DEF old

(* The transaction is rolled back: at most its page is counted too many. *)
LEMMA CommitFailsKeeps ==
  ASSUME Inv, NEW p \in Process, CommitFails(p)
  PROVE  Inv'
<1> DEFINE rec == runs[run[p]]
<1>1. /\ pc[p] = "commit" /\ Finishing(p, "failed", None)
      /\ UNCHANGED <<provider, posts, runs, run, late>>
  BY DEF CommitFails
<1>2. rec \in Run /\ Tallied(limits, rec, "commit", spent[p], reply[p], ending[p])
  BY <1>1, WorkFacts
<1>3. runs' = [runs EXCEPT ![run[p]] = rec] /\ spent[p] \in Spending
  BY <1>1, Stays, LocalFacts
<1>4. CASE UNCHANGED spent
  <2>1. spent' = [spent EXCEPT ![p] = spent[p]] /\ spent[p].requests <= limits.requests
    BY <1>2, <1>4, Stays DEF Tallied
  <2>2. Tallied(limits, rec, "finish", spent[p], None, [status |-> "failed", boundary |-> None])
    BY <1>2, <1>3, <2>1, StopCounts, NoBoundary DEF Executing
  <2> QED
    BY <1>1, <1>3, <2>1, <2>2, StopKeeps
<1>5. CASE Admitted(p) /\ spent' = [spent EXCEPT ![p] = PageSpent(p)]
  <2> DEFINE sp == PageSpent(p)
             en == [status |-> "failed", boundary |-> None]
  <2>1. /\ sp \in Spending /\ sp.requests = spent[p].requests
        /\ sp.pages = spent[p].pages + 1
        /\ sp.pages <= limits.pages /\ sp.records <= limits.records
    BY <1>1, <1>5, PageSpends
  <2>2. en.status = "failed" /\ en.boundary = None
    OBVIOUS
  <2> HIDE DEF sp, en, rec
  <2>3. Tallied(limits, rec, "finish", sp, None, en)
    BY <1>2, <2>1, <2>2, NoBoundary DEF Tallied, Executing
  <2> QED
    BY <1>1, <1>3, <1>5, <2>1, <2>3, StopKeeps DEF sp, en, rec
<1> QED
  BY <1>4, <1>5 DEF CommitFails

(* The row of the run once its page is in. *)
LEMMA PageStands ==
  ASSUME NEW pg, NEW lv \in SUBSET Post, NEW gn, NEW pst, NEW page, NEW lim,
         NEW rec \in Run, RunStands(pg, lv, gn, pst, lim, rec), rec.status = "running",
         NEW next \in Cursor \cup {None}, Brings(pg, lv, gn, rec, pst \cup page, next)
  PROVE  RunStands(pg, lv, gn, pst \cup page, lim, WithPage(rec, next))
<1> DEFINE new == WithPage(rec, next)
<1>1. /\ new \in Run /\ SameChain(rec, new) /\ new.committed = rec.committed + 1
      /\ new.checkpoint = IF next = None THEN rec.checkpoint ELSE next
      /\ new.status = "running"
  BY WithPageFields
<1>2. Moved(lv, gn, lv, gn) /\ pst \subseteq pst \cup page
  BY DEF Moved
<1>3. RunStands(pg, lv, gn, pst \cup page, lim, rec)
  BY <1>2, RunStandsOn
<1> HIDE DEF new
<1>4. Remembers(lv, gn, new)
  BY <1>1, <1>3, SameChainReaches DEF RunStands
<1>5. new.checkpoint # None => Reached(pg, lv, gn, new, new.checkpoint, pst \cup page)
  <2>1. CASE next = None
    BY <1>1, <1>3, <2>1, SameChainReaches DEF RunStands
  <2>2. CASE next # None
    BY <1>1, <2>2, SameChainReaches DEF Brings
  <2> QED
    BY <2>1, <2>2
<1>6. new.committed # 0
  BY <1>1, RunFields
<1>7. RunStands(pg, lv, gn, pst \cup page, lim, new)
  BY <1>1, <1>4, <1>5, <1>6 DEF RunStands
<1> QED
  BY <1>7 DEF new

(* Page, counts and checkpoint are committed together: what lies before the *)
(* checkpoint is stored, and without a continuation everything is.          *)
LEMMA CommitKeeps ==
  ASSUME Inv, NEW p \in Process, Commit(p)
  PROVE  Inv'
<1> DEFINE rec == runs[run[p]]
           next == reply[p].next
           page == reply[p].posts
           new == WithPage(rec, next)
           sp == PageSpent(p)
<1>1. /\ pc[p] = "commit" /\ Admitted(p) /\ posts' = posts \cup page
      /\ spent' = [spent EXCEPT ![p] = sp] /\ runs' = [runs EXCEPT ![run[p]] = new]
      /\ UNCHANGED <<provider, run, late>>
  BY DEF Commit
<1>2. /\ rec \in Run /\ rec.status = "running"
      /\ RunStands(paging, live, gone, posts, limits, rec)
      /\ Tallied(limits, rec, "commit", spent[p], reply[p], ending[p])
      /\ Covered(paging, live, gone, posts, rec, "commit", cursor[p], reply[p], ending[p])
      /\ Ready("commit", reply[p], ending[p])
  BY <1>1, WorkFacts
<1>3. reply[p] \in Reply /\ reply[p].kind = "page"
  BY <1>2 DEF Ready
<1>4. /\ page \in SUBSET Post /\ next \in Cursor \cup {None}
      /\ posts' \in SUBSET Post /\ posts \subseteq posts'
  BY <1>1, <1>3, ReplyFields, WorldFacts
<1>5. Brings(paging, live, gone, rec, posts', next)
  BY <1>1, <1>2, <1>3 DEF Covered
<1>6. /\ new \in Run /\ SameChain(rec, new) /\ new.committed = rec.committed + 1
      /\ new.checkpoint = IF next = None THEN rec.checkpoint ELSE next
      /\ new.status = "running" /\ new.retained = rec.retained
  BY <1>2, <1>4, WithPageFields
<1>7. RunStands(paging, live, gone, posts', limits, new)
  BY <1>1, <1>2, <1>4, <1>5, WorldFacts, PageStands
<1>8. /\ sp \in Spending /\ sp.requests = spent[p].requests
      /\ sp.pages = spent[p].pages + 1
      /\ sp.pages <= limits.pages /\ sp.records <= limits.records
  BY <1>1, PageSpends
<1>9. Brings(paging, live, gone, new, posts', next)
  BY <1>5, <1>6, SameChainReaches
<1>10. rec.committed \in Nat /\ rec.retained \in Nat /\ spent[p].pages \in Nat
  BY <1>2, RunFields, LocalFacts, SpendingFields
<1>11. late' \in [Process -> BOOLEAN] /\ UNCHANGED provider
  BY <1>1, WorldFacts DEF provider
<1> HIDE DEF rec, next, page, new, sp
<1>12. /\ new.kind = "listing" /\ sp.pages = new.committed /\ new.committed # 0
       /\ new.committed <= new.retained /\ new.retained <= sp.requests
       /\ sp.requests <= limits.requests
  BY <1>2, <1>6, <1>8, <1>10 DEF Tallied, Executing, SameChain
<1>13. CASE next # None /\ cursor' = [cursor EXCEPT ![p] = next]
            /\ retries' = [retries EXCEPT ![p] = 0]
            /\ reply' = [reply EXCEPT ![p] = None]
            /\ Goto(p, "next") /\ UNCHANGED ending
  <2>1. Moves(p, new, "next", run[p], next, sp, 0, None, ending[p])
    BY <1>1, <1>13, Stays DEF Moves, Goto
  <2>2. GoesOn(p, new, "next", run[p], sp, None, ending[p]) /\ "next" \in Label
    BY <1>6 DEF GoesOn, Ready, Label
  <2>3. Tallied(limits, new, "next", sp, None, ending[p])
    BY <1>6, <1>8, <1>12, <1>13 DEF Tallied, Executing
  <2>4. Reached(paging, live, gone, new, next, posts')
    BY <1>9, <1>13 DEF Brings
  <2>5. Covered(paging, live, gone, posts', new, "next", next, None, ending[p])
    BY <2>4 DEF Covered
  <2>6. Works(paging, live, gone, posts', limits, new, "next", next, sp, None, ending[p])
    BY <2>3, <2>5 DEF Works
  <2> QED
    BY <1>1, <1>4, <1>6, <1>7, <1>8, <1>11, <2>1, <2>2, <2>6, LocalFacts, MoveKeeps
<1>14. CASE next = None /\ Finishing(p, "complete", None)
  <2> DEFINE en == [status |-> "complete", boundary |-> None]
  <2>1. en.status = "complete" /\ en.boundary = None
    OBVIOUS
  <2> HIDE DEF en
  <2>2. Tallied(limits, new, "finish", sp, None, en)
    BY <1>8, <1>12, <2>1, NoBoundary DEF Tallied, Executing
  <2>3. Everything(paging, live, gone, new, posts')
    BY <1>9, <1>14 DEF Brings
  <2>4. Covered(paging, live, gone, posts', new, "finish", None, None, en)
    BY <2>3 DEF Covered, Executing
  <2>5. Works(paging, live, gone, posts', limits, new, "finish", None, sp, None, en)
    BY <2>2, <2>4 DEF Works
  <2> QED
    BY <1>1, <1>4, <1>6, <1>7, <1>8, <1>14, <2>5, FinishingKeeps DEF en
<1> QED
  BY <1>13, <1>14 DEF Commit, next

-----------------------------------------------------------------------------
(* Steps that leave a run *)

(* What a step owes to the invariant when it leaves its run. *)
LEMMA LeaveKeeps ==
  ASSUME NEW p \in Process, NEW new \in Run, Inv, pc[p] # "idle", Leave(p),
         UNCHANGED <<provider, posts>>, runs' = [runs EXCEPT ![run[p]] = new],
         RunStands(paging, live, gone, posts, limits, new)
  PROVE  Inv'
<1>1. NoSpending \in Spending /\ "idle" \in Label
  BY DEF NoSpending, Spending, Label
<1>2. Moves(p, new, "idle", None, None, NoSpending, 0, None, None)
  BY DEF Moves, Leave, Goto
<1>3. GoesOn(p, new, "idle", None, NoSpending, None, None)
  BY DEF GoesOn
<1>4. /\ posts' = posts /\ posts \in SUBSET Post /\ late \in [Process -> BOOLEAN]
      /\ UNCHANGED provider
  BY WorldFacts
<1>5. late' \in [Process -> BOOLEAN]
  BY <1>4 DEF Leave
<1>6. RunStands(paging, live, gone, posts', limits, new)
  BY <1>4
<1> QED
  BY <1>1, <1>2, <1>3, <1>4, <1>5, <1>6, LocalFacts, MoveKeeps

(* finish_remote_run writes what the run has come to. *)
LEMMA FinishKeeps ==
  ASSUME Inv, NEW p \in Process, Finish(p)
  PROVE  Inv'
<1> DEFINE rec == runs[run[p]]
           en == ending[p]
           sp == spent[p]
           new == Finished(rec, en.status, en.boundary, sp)
<1>1. /\ pc[p] = "finish" /\ Leave(p) /\ UNCHANGED <<provider, posts>>
      /\ runs' = [runs EXCEPT ![run[p]] = new]
  BY DEF Finish
<1>2. /\ rec \in Run /\ rec.status = "running"
      /\ RunStands(paging, live, gone, posts, limits, rec)
      /\ Tallied(limits, rec, "finish", sp, reply[p], en)
      /\ Covered(paging, live, gone, posts, rec, "finish", cursor[p], reply[p], en)
      /\ Ready("finish", reply[p], en)
  BY <1>1, WorkFacts
<1>3. sp \in Spending
  BY LocalFacts
<1>4. /\ en.status \in {"complete", "paused", "failed"}
      /\ en.boundary \in {"request", "page", "record", "time", None}
  BY <1>2 DEF Ready, Ending
<1> HIDE DEF rec, en, sp
<1>5. /\ new \in Run /\ SameChain(rec, new) /\ new.status = en.status
      /\ new.boundary = en.boundary /\ new.counts = sp /\ new.committed = rec.committed
      /\ new.retained = rec.retained /\ new.checkpoint = rec.checkpoint
  <2>1. en.status \in FinalStatus /\ en.boundary \in Boundary
    BY <1>4 DEF FinalStatus, Boundary
  <2> QED
    BY <1>2, <1>3, <2>1, FinishedFields
<1> HIDE DEF new
<1>6. Remembers(live, gone, new)
  BY <1>2, <1>5, SameChainReaches DEF RunStands
<1>7. new.checkpoint # None => Reached(paging, live, gone, new, new.checkpoint, posts)
  BY <1>2, <1>5, SameChainReaches DEF RunStands
<1>8. new.kind = "listing" /\ new.status = "complete" =>
         Everything(paging, live, gone, new, posts)
  BY <1>2, <1>5, SameChainReaches DEF Covered, SameChain
<1>9. new.kind = "listing" =>
        /\ new.committed <= new.retained /\ new.retained <= new.counts.requests
        /\ new.counts.requests <= limits.requests
        /\ new.counts.pages <= limits.pages /\ new.counts.records <= limits.records
        /\ \/ new.counts.pages = new.committed
           \/ new.status = "failed" /\ new.counts.pages = new.committed + 1
  BY <1>2, <1>5 DEF Tallied, SameChain
<1>10. /\ new.status = "paused" /\ new.committed > 0 => new.checkpoint # None
       /\ new.boundary = "record" /\ new.committed = 0 => PageSize > limits.records
  BY <1>2, <1>5 DEF Tallied
<1>11. RunStands(paging, live, gone, posts, limits, new)
  BY <1>6, <1>7, <1>8, <1>9, <1>10 DEF RunStands
<1> QED
  BY <1>1, <1>5, <1>11, LeaveKeeps

(* An invocation is killed; its row still says that it runs. *)
LEMMA KillKeeps ==
  ASSUME Inv, NEW p \in Process, Kill(p)
  PROVE  Inv'
<1> DEFINE rec == runs[run[p]]
           new == [rec EXCEPT !.killed = TRUE]
<1>1. /\ pc[p] # "idle" /\ Leave(p) /\ UNCHANGED <<provider, posts>>
      /\ runs' = [runs EXCEPT ![run[p]] = new]
  BY DEF Kill
<1>2. /\ rec \in Run /\ rec.status = "running"
      /\ RunStands(paging, live, gone, posts, limits, rec)
  BY <1>1, WorkFacts
<1>3. /\ new \in Run /\ SameChain(rec, new)
      /\ new.status = rec.status /\ new.boundary = rec.boundary
      /\ new.committed = rec.committed /\ new.checkpoint = rec.checkpoint
  BY <1>2, KilledFields
<1> HIDE DEF rec, new
<1>4. RunStands(paging, live, gone, posts, limits, new)
  BY <1>2, <1>3, RunningStands
<1> QED
  BY <1>1, <1>3, <1>4, LeaveKeeps

-----------------------------------------------------------------------------
(* Runs of one request *)

(* An enrichment whose adapter raises. *)
LEMMA EnrichRaisesKeeps ==
  ASSUME Inv, NEW p \in Process, EnrichRaises(p)
  PROVE  Inv'
<1> DEFINE rec == runs[run[p]]
           en == [status |-> "failed", boundary |-> None]
<1>1. /\ pc[p] = "fetch" /\ Finishing(p, "failed", None)
      /\ UNCHANGED <<provider, posts, runs, run, spent, late>>
  BY DEF EnrichRaises
<1>2. Tallied(limits, rec, "fetch", spent[p], reply[p], ending[p])
  BY <1>1, WorkFacts
<1>3. /\ runs' = [runs EXCEPT ![run[p]] = rec] /\ spent' = [spent EXCEPT ![p] = spent[p]]
      /\ spent[p] \in Spending
  BY <1>1, Stays, LocalFacts
<1>4. en.status = "failed" /\ en.boundary = None
  OBVIOUS
<1> HIDE DEF en
<1>5. Tallied(limits, rec, "finish", spent[p], None, en)
  BY <1>2, <1>4, NoBoundary DEF Tallied, Executing
<1> QED
  BY <1>1, <1>3, <1>5, StopKeeps DEF en

(* An enrichment that gets its response. *)
LEMMA EnrichFetchKeeps ==
  ASSUME Inv, NEW p \in Process, EnrichFetch(p)
  PROVE  Inv'
<1> DEFINE rec == runs[run[p]]
<1>1. /\ pc[p] = "fetch" /\ Goto(p, "record")
      /\ UNCHANGED <<provider, posts, runs, run, cursor, spent, retries, ending, late>>
  BY DEF EnrichFetch
<1>2. Tallied(limits, rec, "fetch", spent[p], reply[p], ending[p])
  BY <1>1, WorkFacts
<1>3. PICK rp \in [kind : {"busy", "refused"}]
                     \cup {[kind |-> "page", posts |-> {}, next |-> None]} :
        reply' = [reply EXCEPT ![p] = rp]
  BY DEF EnrichFetch
<1>4. rp \in Reply
  BY <1>3 DEF Reply
<1>5. Moves(p, rec, "record", run[p], cursor[p], spent[p], retries[p], rp, ending[p])
  BY <1>1, <1>3, Stays DEF Moves, Goto
<1>6. Ready("record", rp, ending[p]) /\ "record" \in Label \ {"idle"}
  BY <1>4 DEF Ready, Label
<1>7. Tallied(limits, rec, "record", spent[p], rp, ending[p])
  BY <1>2 DEF Tallied, Executing
<1>8. Covered(paging, live, gone, posts, rec, "record", cursor[p], rp, ending[p])
  BY DEF Covered, Executing
<1>9. Works(paging, live, gone, posts, limits, rec, "record", cursor[p], spent[p], rp,
            ending[p])
  BY <1>7, <1>8 DEF Works
<1> QED
  BY <1>1, <1>4, <1>5, <1>6, <1>9, LocalFacts, GoOnKeeps

(* An enrichment finishes with its response, in one transaction. *)
LEMMA EnrichRecordKeeps ==
  ASSUME Inv, NEW p \in Process, EnrichRecord(p)
  PROVE  Inv'
<1> DEFINE rec == runs[run[p]]
           status == IF reply[p].kind = "page" THEN "complete" ELSE "failed"
           counts == [requests |-> 1, pages |-> 1, records |-> 0]
           new == Finished(Retained(rec), status, None, counts)
<1>1. /\ pc[p] = "record" /\ Leave(p) /\ UNCHANGED <<provider, posts>>
      /\ runs' = [runs EXCEPT ![run[p]] = new]
  BY DEF EnrichRecord
<1>2. /\ rec \in Run /\ RunStands(paging, live, gone, posts, limits, rec)
      /\ Tallied(limits, rec, "record", spent[p], reply[p], ending[p])
  BY <1>1, WorkFacts
<1>3. /\ Retained(rec) \in Run /\ SameChain(rec, Retained(rec))
      /\ Retained(rec).checkpoint = rec.checkpoint
  BY <1>2, RetainedFields
<1>4. /\ counts \in Spending /\ status \in {"complete", "failed"}
      /\ status \in FinalStatus /\ None \in Boundary
  BY DEF Spending, FinalStatus, Boundary
<1> HIDE DEF rec, status, counts
<1>5. /\ new \in Run /\ SameChain(Retained(rec), new) /\ new.status = status
      /\ new.boundary = None /\ new.checkpoint = rec.checkpoint
  BY <1>3, <1>4, FinishedFields
<1> HIDE DEF new
<1>6. SameChain(rec, new) /\ new.kind = "single"
  BY <1>2, <1>3, <1>5 DEF SameChain, Tallied
<1>7. Remembers(live, gone, new)
  BY <1>2, <1>6, SameChainReaches DEF RunStands
<1>8. new.checkpoint # None => Reached(paging, live, gone, new, new.checkpoint, posts)
  BY <1>2, <1>5, <1>6, SameChainReaches DEF RunStands
<1>9. RunStands(paging, live, gone, posts, limits, new)
  BY <1>4, <1>5, <1>6, <1>7, <1>8, NoBoundary DEF RunStands
<1> QED
  BY <1>1, <1>5, <1>9, LeaveKeeps

-----------------------------------------------------------------------------
(* Runs that begin *)

(* A new run begins at a continuation that its chain has reached. *)
LEMMA BeginKeeps ==
  ASSUME Inv, NEW p \in Process, NEW kind \in {"listing", "single"},
         NEW since \in SUBSET Post, NEW removed \in SUBSET Post,
         NEW from \in Cursor \cup {None}, NEW label \in {"next", "fetch"},
         Begin(p, NewRun(kind, since, removed), from, label),
         kind = IF label = "next" THEN "listing" ELSE "single",
         Remembers(live, gone, NewRun(kind, since, removed)),
         label = "next" /\ from # None =>
            Reached(paging, live, gone, NewRun(kind, since, removed), from, posts)
  PROVE  Inv'
<1> DEFINE new == NewRun(kind, since, removed)
           r == Len(runs) + 1
<1>1. /\ pc[p] = "idle" /\ runs' = Append(runs, new)
      /\ run' = [run EXCEPT ![p] = r] /\ cursor' = [cursor EXCEPT ![p] = from]
      /\ pc' = [pc EXCEPT ![p] = label]
      /\ UNCHANGED <<provider, posts, spent, retries, reply, ending, late>>
  BY DEF Begin, Goto
<1>2. /\ new \in Run /\ new.kind = kind /\ new.status = "running" /\ new.boundary = None
      /\ new.checkpoint = None /\ new.retained = 0 /\ new.committed = 0
  BY NewRunFields
<1>3. Remembers(live, gone, new)
      /\ (label = "next" /\ from # None => Reached(paging, live, gone, new, from, posts))
  OBVIOUS
<1> HIDE DEF new
<1>4. /\ runs \in Seq(Run) /\ runs' \in Seq(Run) /\ DOMAIN runs' = DOMAIN runs \cup {r}
      /\ r \notin DOMAIN runs /\ r \in Nat /\ runs'[r] = new
      /\ \A s \in DOMAIN runs : runs'[s] = runs[s]
      /\ DOMAIN runs \subseteq Nat
  BY <1>1, <1>2, WorldFacts
<1>5. None \notin DOMAIN runs /\ r # None
  BY <1>4, SyncAssumption
<1> HIDE DEF r
<1>6. WorldInv'
  BY <1>1, <1>4 DEF Inv, ShapeInv, WorldInv, provider
<1>7. LocalInv'
  <2>1. label \in Label /\ r \in Nat \cup {None}
    BY <1>4 DEF Label
  <2> QED
    BY <1>1, <2>1 DEF Inv, ShapeInv, LocalInv
<1>8. /\ pc'[p] = label /\ run'[p] = r /\ cursor'[p] = from
      /\ \A q \in Process \ {p} : pc'[q] = pc[q] /\ run'[q] = run[q] /\ cursor'[q] = cursor[q]
  BY <1>1 DEF Inv, ShapeInv, LocalInv
<1>9. spent' = spent /\ reply' = reply /\ ending' = ending
  BY <1>1
<1>10. OwnInv'
  <2>1. \A q \in Process : IF pc[q] = "idle" THEN run[q] = None
                           ELSE run[q] \in DOMAIN runs /\ runs[run[q]].status = "running"
    BY DEF Inv, ShapeInv, OwnInv
  <2>2. \A q \in Process \ {p} : run'[q] # r
    BY <1>4, <1>5, <1>8, <2>1
  <2>3. ASSUME NEW q \in Process
        PROVE  /\ IF pc'[q] = "idle" THEN run'[q] = None
                  ELSE run'[q] \in DOMAIN runs' /\ runs'[run'[q]].status = "running"
               /\ Ready(pc'[q], reply'[q], ending'[q])
    <3>1. CASE q = p
      BY <1>2, <1>4, <1>8, <3>1 DEF Ready
    <3>2. CASE q # p
      <4>1. pc'[q] = pc[q] /\ run'[q] = run[q]
        BY <1>8, <3>2
      <4>2. Ready(pc[q], reply[q], ending[q])
        BY DEF Inv, ShapeInv, OwnInv, Ready
      <4> QED
        BY <1>4, <1>9, <2>1, <4>1, <4>2
    <3> QED
      BY <3>1, <3>2
  <2>4. ASSUME NEW q \in Process, NEW s \in Process, q # s, run'[q] = run'[s]
        PROVE  run'[q] = None
    <3>1. q # p /\ s # p
      BY <1>8, <2>2, <2>4
    <3> QED
      BY <1>8, <2>4, <3>1 DEF Inv, ShapeInv, OwnInv
  <2> QED
    BY <2>3, <2>4 DEF OwnInv, Ready
<1>11. /\ paging' = paging /\ limits' = limits /\ live' = live /\ gone' = gone
       /\ posts' = posts
  BY <1>1 DEF provider
<1>12. RunStands(paging, live, gone, posts, limits, new)
  BY <1>2, <1>3, NoBoundary DEF RunStands
<1>13. \A s \in DOMAIN runs' : RunStands(paging, live, gone, posts, limits, runs'[s])
  BY <1>4, <1>12, WorldFacts
<1>14. ASSUME NEW q \in Process
       PROVE  IF pc'[q] = "idle" THEN spent'[q] = NoSpending
              ELSE Works(paging, live, gone, posts, limits, runs'[run'[q]],
                         pc'[q], cursor'[q], spent'[q], reply'[q], ending'[q])
  <2>1. CASE q = p
    <3>1. spent[p] = NoSpending
      BY <1>1 DEF Inv, StandInv
    <3>2. /\ spent[p].requests = 0 /\ spent[p].pages = 0 /\ spent[p].records = 0
      BY <3>1 DEF NoSpending
    <3>3. Tallied(limits, new, label, spent[p], reply[p], ending[p])
      BY <1>2, <3>2, WorldFacts DEF Tallied, Executing, Limited
    <3>4. Covered(paging, live, gone, posts, new, label, from, reply[p], ending[p])
      BY <1>3 DEF Covered, Executing
    <3> QED
      BY <1>4, <1>8, <1>9, <2>1, <3>3, <3>4 DEF Works
  <2>2. CASE q # p /\ pc[q] = "idle"
    BY <1>8, <1>9, <2>2 DEF Inv, StandInv
  <2>3. CASE q # p /\ pc[q] # "idle"
    <3>1. run[q] \in DOMAIN runs
      BY <2>3, WorkFacts
    <3>2. runs'[run'[q]] = runs[run[q]] /\ pc'[q] = pc[q] /\ cursor'[q] = cursor[q]
      BY <1>4, <1>8, <2>3, <3>1
    <3> QED
      BY <1>9, <2>3, <3>2 DEF Inv, StandInv
  <2> QED
    BY <2>1, <2>2, <2>3
<1>15. StandInv'
  BY <1>11, <1>13, <1>14, Zenon DEF StandInv
<1> QED
  BY <1>6, <1>7, <1>10, <1>15 DEF Inv, ShapeInv

(* A synchronization begins a chain. *)
LEMMA SynchronizeKeeps ==
  ASSUME Inv, NEW p \in Process, Synchronize(p)
  PROVE  Inv'
<1>1. live \in SUBSET Post /\ gone \in SUBSET Post
  BY DEF Inv, ShapeInv, WorldInv
<1>2. Remembers(live, gone, NewRun("listing", live, gone))
  BY <1>1, NewRunFields DEF Remembers
<1> QED
  BY <1>1, <1>2, BeginKeeps DEF Synchronize

(* An enrichment begins. *)
LEMMA EnrichBeginKeeps ==
  ASSUME Inv, NEW p \in Process, EnrichBegin(p)
  PROVE  Inv'
<1>1. {} \in SUBSET Post
  OBVIOUS
<1>2. Remembers(live, gone, NewRun("single", {}, {}))
  BY <1>1, NewRunFields DEF Remembers
<1> QED
  BY <1>1, <1>2, BeginKeeps DEF EnrichBegin

(* A resumed run goes on where the checkpoint of its parent stands. *)
LEMMA ResumeKeeps ==
  ASSUME Inv, NEW p \in Process, NEW r \in DOMAIN runs, Resume(p, r)
  PROVE  Inv'
<1> DEFINE rec == runs[r]
           new == NewRun("listing", rec.since, rec.removed)
<1>1. rec \in Run /\ RunStands(paging, live, gone, posts, limits, rec)
  BY WorldFacts
<1>2. /\ rec.since \in SUBSET Post /\ rec.removed \in SUBSET Post
      /\ rec.checkpoint \in Cursor \cup {None}
  BY <1>1, RunFields
<1>3. new.since = rec.since /\ new.removed = rec.removed
  BY <1>2, NewRunFields
<1>4. rec.checkpoint # None /\ Begin(p, new, rec.checkpoint, "next")
  BY DEF Resume, Resumable
<1>5. Remembers(live, gone, new)
  BY <1>1, <1>3 DEF RunStands, Remembers
<1>6. Reached(paging, live, gone, new, rec.checkpoint, posts)
  <2>1. Reached(paging, live, gone, rec, rec.checkpoint, posts)
    BY <1>1, <1>4 DEF RunStands
  <2> HIDE DEF new, rec
  <2> QED
    BY <1>3, <2>1 DEF Reached, KeysetReached, OffsetReached
<1> QED
  BY <1>2, <1>4, <1>5, <1>6, BeginKeeps

-----------------------------------------------------------------------------
(* The provider, and the clock *)

(* The provider may change its listing at any time. *)
LEMMA MovedKeeps ==
  ASSUME Inv, live' \in SUBSET Post, gone' \in SUBSET Post, live' \cap gone' = {},
         Moved(live, gone, live', gone'),
         UNCHANGED <<paging, limits, posts, runs, pc, local, late>>
  PROVE  Inv'
<1>1. /\ paging' = paging /\ limits' = limits /\ posts' = posts /\ runs' = runs /\ pc' = pc
      /\ run' = run /\ cursor' = cursor /\ spent' = spent /\ retries' = retries
      /\ reply' = reply /\ ending' = ending /\ late' = late
  BY DEF local
<1>2. ShapeInv'
  BY <1>1 DEF Inv, ShapeInv, WorldInv, LocalInv, OwnInv
<1>3. live \in SUBSET Post /\ posts \subseteq posts
  BY WorldFacts
<1>4. ASSUME NEW r \in DOMAIN runs
      PROVE  RunStands(paging, live', gone', posts, limits, runs[r])
  <2>1. runs[r] \in Run /\ RunStands(paging, live, gone, posts, limits, runs[r])
    BY WorldFacts
  <2> QED
    BY <1>3, <2>1, RunStandsOn
<1>5. ASSUME NEW p \in Process, pc[p] # "idle"
      PROVE  Works(paging, live', gone', posts, limits, runs[run[p]],
                   pc[p], cursor[p], spent[p], reply[p], ending[p])
  <2>1. /\ Remembers(live, gone, runs[run[p]]) /\ Ready(pc[p], reply[p], ending[p])
        /\ cursor[p] \in Cursor \cup {None}
    BY <1>5, WorkFacts, LocalFacts DEF RunStands
  <2>2. Works(paging, live, gone, posts, limits, runs[run[p]],
              pc[p], cursor[p], spent[p], reply[p], ending[p])
    BY <1>5 DEF Inv, StandInv
  <2> QED
    BY <1>3, <2>1, <2>2, WorksOn
<1>6. \A p \in Process : pc[p] = "idle" => spent[p] = NoSpending
  BY DEF Inv, StandInv
<1>7. StandInv'
  BY <1>1, <1>4, <1>5, <1>6 DEF StandInv
<1> QED
  BY <1>2, <1>7 DEF Inv

(* A newer post is published. *)
LEMMA PublishKeeps ==
  ASSUME Inv, Publish
  PROVE  Inv'
<1> DEFINE q == Min(Post \ (live \cup gone))
<1>1. /\ live \in SUBSET Post /\ gone \in SUBSET Post /\ live \cap gone = {}
  BY DEF Inv, ShapeInv, WorldInv
<1>2. Post \ (live \cup gone) \in SUBSET Post /\ Post \ (live \cup gone) # {}
  BY <1>1 DEF Publish
<1>3. q \in Post \ (live \cup gone)
  BY <1>2, Oldest
<1>4. /\ live' = live \cup {q} /\ gone' = gone
      /\ UNCHANGED <<paging, limits, posts, runs, pc, local, late>>
  BY DEF Publish
<1> HIDE DEF q
<1>5. Moved(live, gone, live', gone')
  BY <1>3, <1>4 DEF Moved
<1>6. live' \in SUBSET Post /\ gone' \in SUBSET Post /\ live' \cap gone' = {}
  BY <1>1, <1>3, <1>4
<1> QED
  BY <1>4, <1>5, <1>6, MovedKeeps

(* A post is removed. *)
LEMMA RemoveKeeps ==
  ASSUME Inv, NEW q \in Post, Remove(q)
  PROVE  Inv'
<1>1. /\ live \in SUBSET Post /\ gone \in SUBSET Post /\ live \cap gone = {}
  BY DEF Inv, ShapeInv, WorldInv
<1>2. /\ q \in live /\ live' = live \ {q} /\ gone' = gone \cup {q}
      /\ UNCHANGED <<paging, limits, posts, runs, pc, local, late>>
  BY DEF Remove
<1>3. Moved(live, gone, live', gone')
  BY <1>1, <1>2 DEF Moved
<1>4. live' \in SUBSET Post /\ gone' \in SUBSET Post /\ live' \cap gone' = {}
  BY <1>1, <1>2
<1> QED
  BY <1>2, <1>3, <1>4, MovedKeeps

(* The deadline is the only thing that a run's clock changes. *)
LEMMA StillKeeps ==
  ASSUME Inv, UNCHANGED <<provider, posts, runs, pc, local>>, late' \in [Process -> BOOLEAN]
  PROVE  Inv'
BY DEF Inv, ShapeInv, StandInv, WorldInv, LocalInv, OwnInv, provider, local

(* The time of a run is used up. *)
LEMMA ExpireKeeps ==
  ASSUME Inv, NEW p \in Process, Expire(p)
  PROVE  Inv'
<1>1. late' \in [Process -> BOOLEAN]
  BY WorldFacts DEF Expire
<1> QED
  BY <1>1, StillKeeps DEF Expire

-----------------------------------------------------------------------------
(* The theorems *)

(* Before the first run there is nothing to stand. *)
LEMMA InitStands ==
  ASSUME Init
  PROVE  Inv
<1>1. /\ 1..InitialPosts \in SUBSET Post /\ NoSpending \in Spending /\ 0 \in 0..MaxRetries
      /\ "idle" \in Label
  BY SyncAssumption DEF Post, NoSpending, Spending, Label
<1>2. WorldInv
  BY <1>1 DEF Init, WorldInv
<1>3. LocalInv
  BY <1>1 DEF Init, LocalInv
<1>4. OwnInv
  BY DEF Init, OwnInv
<1>5. StandInv
  BY DEF Init, StandInv
<1> QED
  BY <1>2, <1>3, <1>4, <1>5 DEF Inv, ShapeInv

(* Every step keeps the invariant. *)
LEMMA StepStands ==
  ASSUME Inv, [Next]_vars
  PROVE  Inv'
<1>1. CASE Publish
  BY <1>1, PublishKeeps
<1>2. ASSUME NEW q \in Post, Remove(q)
      PROVE  Inv'
  BY <1>2, RemoveKeeps
<1>3. ASSUME NEW p \in Process, Synchronize(p) \/ EnrichBegin(p)
      PROVE  Inv'
  BY <1>3, SynchronizeKeeps, EnrichBeginKeeps
<1>4. ASSUME NEW p \in Process, NEW r \in DOMAIN runs, Resume(p, r)
      PROVE  Inv'
  BY <1>4, ResumeKeeps
<1>5. ASSUME NEW p \in Process, Step(p)
      PROVE  Inv'
  <2>1. CASE Exhausted(p) \/ NextPage(p)
    BY <2>1, ExhaustedKeeps, NextPageKeeps
  <2>2. CASE ReserveRefused(p) \/ Fetch(p) \/ FetchFails(p)
    BY <2>2, ReserveRefusedKeeps, FetchKeeps, FetchFailsKeeps
  <2>3. CASE Retain(p) \/ RetainFails(p)
    BY <2>3, RetainKeeps, RetainFailsKeeps
  <2>4. CASE Admit(p) \/ CommitLate(p) \/ CommitFails(p) \/ Commit(p)
    BY <2>4, AdmitKeeps, CommitLateKeeps, CommitFailsKeeps, CommitKeeps
  <2>5. CASE Finish(p)
    BY <2>5, FinishKeeps
  <2>6. CASE EnrichRaises(p) \/ EnrichFetch(p) \/ EnrichRecord(p)
    BY <2>6, EnrichRaisesKeeps, EnrichFetchKeeps, EnrichRecordKeeps
  <2> QED
    BY <1>5, <2>1, <2>2, <2>3, <2>4, <2>5, <2>6 DEF Step, BetweenCommits
<1>6. ASSUME NEW p \in Process, Expire(p) \/ Kill(p)
      PROVE  Inv'
  BY <1>6, ExpireKeeps, KillKeeps
<1>7. CASE UNCHANGED vars
  <2>1. UNCHANGED <<provider, posts, runs, pc, local>> /\ late' = late
    BY <1>7 DEF vars
  <2> QED
    BY <2>1, WorldFacts, StillKeeps
<1> QED
  BY <1>1, <1>2, <1>3, <1>4, <1>5, <1>6, <1>7 DEF Next

(* The invariant of a synchronization: the shape of its variables, and what *)
(* stands of every row and of every invocation at work.                     *)
THEOREM Invariance == Spec => []Inv
<1>1. Init => Inv
  BY InitStands
<1>2. Inv /\ [Next]_vars => Inv'
  BY StepStands
<1> QED
  BY <1>1, <1>2, PTL DEF Spec

(* The rows of the runs and the variables of the invocations are of their  *)
(* types; no more retries than configured (transport.py and _fetch_page).  *)
THEOREM TypesStand == Spec => []TypeOK
<1>1. Inv => TypeOK
  <2> SUFFICES ASSUME Inv PROVE TypeOK
    OBVIOUS
  <2>1. /\ paging \in {"keyset", "offset"} /\ limits \in Limits
        /\ live \cup posts \subseteq Post /\ gone \subseteq Post
        /\ \A r \in DOMAIN runs : runs[r] \in Run
    BY DEF Inv, ShapeInv, WorldInv
  <2>2. \A p \in Process : run[p] \in (DOMAIN runs) \cup {None}
    BY DEF Inv, ShapeInv, OwnInv
  <2>3. pc \in [Process -> {"idle", "next", "send", "retain", "admit", "commit",
                            "finish", "fetch", "record"}]
    BY DEF Inv, ShapeInv, LocalInv, Label
  <2> QED
    BY <2>1, <2>2, <2>3, LocalFacts, WorldFacts DEF TypeOK
<1> QED
  BY <1>1, Invariance, PTL

(* Every post at or above a checkpoint that the provider listed all along  *)
(* is stored, whatever was killed, rolled back and resumed on the way, and *)
(* a run that paused after a page can be resumed.                          *)
THEOREM CheckpointsStand == Spec => []CheckpointStands
<1>1. Inv => CheckpointStands
  <2> SUFFICES ASSUME Inv PROVE CheckpointStands
    OBVIOUS
  <2>1. ASSUME NEW r \in DOMAIN runs
        PROVE  RunStands(paging, live, gone, posts, limits, runs[r])
    BY WorldFacts
  <2>2. CheckpointCovered
    BY <2>1 DEF CheckpointCovered, RunStands, Reached, KeysetReached
  <2>3. PausedResumable
    BY <2>1 DEF PausedResumable, RunStands, Resumable
  <2> QED
    BY <2>2, <2>3 DEF CheckpointStands
<1> QED
  BY <1>1, Invariance, PTL

(* A listing that its row calls complete has brought in every post that    *)
(* the provider listed all along; the counts of a finished run agree with  *)
(* its pages, responses and requests; and a run that pauses for records    *)
(* before its first page met a page larger than its budget.                *)
THEOREM ReportsAreTrue == Spec => []RunReportIsTrue
<1>1. Inv => RunReportIsTrue
  <2> SUFFICES ASSUME Inv PROVE RunReportIsTrue
    OBVIOUS
  <2>1. ASSUME NEW r \in DOMAIN runs
        PROVE  RunStands(paging, live, gone, posts, limits, runs[r])
    BY WorldFacts
  <2>2. CompleteCovers
    BY <2>1 DEF CompleteCovers, Undisturbed, RunStands, Everything
  <2>3. CountsAgree
    BY <2>1 DEF CountsAgree, RunStands
  <2>4. PauseIsProgress
    BY <2>1 DEF PauseIsProgress, RunStands
  <2> QED
    BY <2>2, <2>3, <2>4 DEF RunReportIsTrue
<1> QED
  BY <1>1, Invariance, PTL

-----------------------------------------------------------------------------
(* Library expansion: plans *)

Selectable(x, f) ==
    {Chosen(t, f, "explicit", None, "explicit_selection") :
        t \in {t \in Target : t = x /\ Resolves(t, f)}}

AllChoices(s, x, f) ==
    TargetChoices(s, f)
    \cup {c \in Selectable(x, f) : \A y \in TargetChoices(s, f) : y.target # c.target}

Selection(s, x, f) ==
    IF Selectable(x, f) # {} THEN CHOOSE c \in Selectable(x, f) : TRUE
    ELSE IF Cardinality(AllChoices(s, x, f)) = 1 THEN CHOOSE c \in AllChoices(s, x, f) : TRUE
    ELSE None

(* A plan that an invocation goes on with names its target. *)
PlanMade(plan) ==
    /\ plan = [seed |-> plan.seed, seedRevision |-> plan.seedRevision, choices |-> plan.choices,
               selected |-> plan.selected, exclusions |-> plan.exclusions,
               estimate |-> plan.estimate]
    /\ plan.selected # None

(* The facts f give the plan, apart from its estimate. *)
Authorized(plan, f) ==
    LET x == ExplicitTarget(plan) IN
    /\ plan.seedRevision = SeedRevision(plan.seed, f)
    /\ plan.choices = AllChoices(plan.seed, x, f)
    /\ plan.selected = Selection(plan.seed, x, f)
    /\ plan.exclusions = Exclusions(plan.seed, f)

(* What a plan reads of the facts. *)
SameFacts(f, g) ==
    /\ f.rev = g.rev /\ f.candidate = g.candidate /\ f.twin = g.twin
    /\ f.participants = g.participants /\ f.cites = g.cites /\ f.named = g.named
    /\ f.tag.artist = g.tag.artist /\ f.tag.count = g.tag.count
    /\ f.tag.seen = g.tag.seen /\ f.tag.redirects = g.tag.redirects

(* The parts of a plan. *)
LEMMA PlanParts ==
  ASSUME NEW s, NEW x, NEW f
  PROVE  /\ PlanOf(s, x, f) =
               [seed |-> s, seedRevision |-> SeedRevision(s, f), choices |-> AllChoices(s, x, f),
                selected |-> Selection(s, x, f), exclusions |-> Exclusions(s, f),
                estimate |-> PlanOf(s, x, f).estimate]
         /\ PlanOf(s, x, f).selected # None => PlanMade(PlanOf(s, x, f))
<1> DEFINE estimate == IF Selection(s, x, f) = None THEN None
                       ELSE EstimateOf(Selection(s, x, f).target, f)
<1>1. PlanOf(s, x, f) =
         [seed |-> s, seedRevision |-> SeedRevision(s, f), choices |-> AllChoices(s, x, f),
          selected |-> Selection(s, x, f), exclusions |-> Exclusions(s, f),
          estimate |-> estimate]
  BY Zenon DEF PlanOf, Selection, AllChoices, Selectable
<1> HIDE DEF estimate
<1> QED
  BY <1>1 DEF PlanMade

(* execution_revision leaves out the estimate alone. *)
LEMMA RevisionAuthorizes ==
  ASSUME NEW plan, PlanMade(plan), NEW f
  PROVE  /\ ExecutionRevision(FreshPlan(plan, f)) = ExecutionRevision(plan)
               <=> Authorized(plan, f)
         /\ Authorized(plan, f) => [FreshPlan(plan, f) EXCEPT !.estimate = plan.estimate] = plan
<1> DEFINE fresh == FreshPlan(plan, f)
           x == ExplicitTarget(plan)
           Rev(y) == [seed |-> y.seed, seedRevision |-> y.seedRevision, choices |-> y.choices,
                      selected |-> y.selected, exclusions |-> y.exclusions, estimate |-> None]
<1>1. fresh = [seed |-> plan.seed, seedRevision |-> SeedRevision(plan.seed, f),
               choices |-> AllChoices(plan.seed, x, f),
               selected |-> Selection(plan.seed, x, f), exclusions |-> Exclusions(plan.seed, f),
               estimate |-> fresh.estimate]
  BY PlanParts, Zenon DEF FreshPlan
<1> HIDE DEF fresh, x
<1>2. fresh = [seed |-> fresh.seed, seedRevision |-> fresh.seedRevision, choices |-> fresh.choices,
               selected |-> fresh.selected, exclusions |-> fresh.exclusions,
               estimate |-> fresh.estimate]
  BY <1>1
<1>3. plan = [seed |-> plan.seed, seedRevision |-> plan.seedRevision, choices |-> plan.choices,
              selected |-> plan.selected, exclusions |-> plan.exclusions,
              estimate |-> plan.estimate]
  BY DEF PlanMade
<1>4. ExecutionRevision(fresh) = Rev(fresh)
  BY <1>2 DEF ExecutionRevision
<1>5. ExecutionRevision(plan) = Rev(plan)
  BY <1>3 DEF ExecutionRevision
<1>6. Rev(fresh) = Rev(plan) <=>
         /\ fresh.seed = plan.seed /\ fresh.seedRevision = plan.seedRevision
         /\ fresh.choices = plan.choices /\ fresh.selected = plan.selected
         /\ fresh.exclusions = plan.exclusions
  OBVIOUS
<1>7. /\ fresh.seed = plan.seed /\ fresh.seedRevision = SeedRevision(plan.seed, f)
      /\ fresh.choices = AllChoices(plan.seed, x, f)
      /\ fresh.selected = Selection(plan.seed, x, f)
      /\ fresh.exclusions = Exclusions(plan.seed, f)
  BY <1>1
<1>8. Authorized(plan, f) <=>
         /\ fresh.seedRevision = plan.seedRevision
         /\ fresh.choices = plan.choices /\ fresh.selected = plan.selected
         /\ fresh.exclusions = plan.exclusions
  BY <1>7, Zenon DEF Authorized, x
<1>9. ExecutionRevision(fresh) = ExecutionRevision(plan) <=> Authorized(plan, f)
  BY <1>4, <1>5, <1>6, <1>7, <1>8, Zenon
<1>10. ASSUME Authorized(plan, f)
       PROVE  [fresh EXCEPT !.estimate = plan.estimate] = plan
  <2>1. [fresh EXCEPT !.estimate = plan.estimate] =
           [seed |-> fresh.seed, seedRevision |-> fresh.seedRevision, choices |-> fresh.choices,
            selected |-> fresh.selected, exclusions |-> fresh.exclusions,
            estimate |-> plan.estimate]
    BY <1>2
  <2> QED
    BY <1>3, <1>7, <1>8, <1>10, <2>1, Zenon
<1> QED
  BY <1>9, <1>10 DEF fresh

(* The parts of the facts. *)
LEMMA FactFields ==
  ASSUME NEW f \in Facts
  PROVE  /\ f = [rev |-> f.rev, candidate |-> f.candidate, twin |-> f.twin,
                 participants |-> f.participants, cites |-> f.cites, named |-> f.named,
                 tag |-> f.tag]
         /\ f.rev \in [Target \cup {SeedPost} -> Nat]
         /\ f.candidate \in [state : Review, decision : Nat] /\ f.twin \in Review
         /\ f.participants \in SUBSET Participant
         /\ f.cites \in SUBSET Attribution /\ f.named \in SUBSET Attribution
         /\ f.tag = [artist |-> f.tag.artist, count |-> f.tag.count, seen |-> f.tag.seen,
                     agrees |-> f.tag.agrees, redirects |-> f.tag.redirects]
         /\ f.tag.artist \in BOOLEAN /\ f.tag.count \in Nat \cup {None} /\ f.tag.seen \in Nat
         /\ f.tag.agrees \in BOOLEAN /\ f.tag.redirects \in BOOLEAN
<1>1. f.tag \in [artist : BOOLEAN, count : Nat \cup {None}, seen : Nat,
                 agrees : BOOLEAN, redirects : BOOLEAN]
  BY DEF Facts
<1> QED
  BY <1>1 DEF Facts

(* A tag record that agrees. *)
LEMMA TagAgrees ==
  ASSUME NEW f \in Facts
  PROVE  [f.tag EXCEPT !.agrees = TRUE] =
            [artist |-> f.tag.artist, count |-> f.tag.count, seen |-> f.tag.seen,
             agrees |-> TRUE, redirects |-> f.tag.redirects]
<1>1. PICK tag : tag = f.tag
  OBVIOUS
<1>2. tag \in [artist : BOOLEAN, count : Nat \cup {None}, seen : Nat,
               agrees : BOOLEAN, redirects : BOOLEAN]
  BY <1>1 DEF Facts
<1>3. ASSUME NEW yes
      PROVE  [tag EXCEPT !.agrees = yes] =
                [artist |-> tag.artist, count |-> tag.count, seen |-> tag.seen,
                 agrees |-> yes, redirects |-> tag.redirects]
  BY ONLY <1>2
<1> QED
  BY <1>1, <1>3, Zenon

(* Facts with another tag record. *)
LEMMA WithTag ==
  ASSUME NEW f \in Facts, NEW tag
  PROVE  [f EXCEPT !.tag = tag] =
            [rev |-> f.rev, candidate |-> f.candidate, twin |-> f.twin,
             participants |-> f.participants, cites |-> f.cites, named |-> f.named, tag |-> tag]
<1> DEFINE T == [artist : BOOLEAN, count : Nat \cup {None}, seen : Nat,
                 agrees : BOOLEAN, redirects : BOOLEAN]
           R == [Target \cup {SeedPost} -> Nat]
           C == [state : Review, decision : Nat]
<1>1. f \in [rev : R, candidate : C, twin : Review,
             participants : SUBSET Participant, cites : SUBSET Attribution,
             named : SUBSET Attribution, tag : T]
  BY DEF Facts
<1> HIDE DEF T, R, C
<1> QED
  BY <1>1

(* Facts that differ in what an estimate reads alone give the same plan. *)
LEMMA AgreesAside ==
  ASSUME NEW f \in Facts, NEW g \in Facts,
         [f EXCEPT !.tag.agrees = TRUE] = [g EXCEPT !.tag.agrees = TRUE]
  PROVE  SameFacts(f, g)
<1> DEFINE A(h) == [artist |-> h.tag.artist, count |-> h.tag.count, seen |-> h.tag.seen,
                    agrees |-> TRUE, redirects |-> h.tag.redirects]
           R(h) == [rev |-> h.rev, candidate |-> h.candidate, twin |-> h.twin,
                    participants |-> h.participants, cites |-> h.cites, named |-> h.named,
                    tag |-> A(h)]
<1>1. ASSUME NEW h \in Facts
      PROVE  [h EXCEPT !.tag.agrees = TRUE] = R(h)
  <2>1. [h.tag EXCEPT !.agrees = TRUE] = A(h)
    BY TagAgrees
  <2>2. [h EXCEPT !.tag.agrees = TRUE] = [h EXCEPT !.tag = [h.tag EXCEPT !.agrees = TRUE]]
    BY FactFields
  <2>3. [h EXCEPT !.tag = [h.tag EXCEPT !.agrees = TRUE]] =
           [rev |-> h.rev, candidate |-> h.candidate, twin |-> h.twin,
            participants |-> h.participants, cites |-> h.cites, named |-> h.named,
            tag |-> [h.tag EXCEPT !.agrees = TRUE]]
    BY WithTag
  <2> QED
    BY <2>1, <2>2, <2>3, Zenon
<1>2. R(f) = R(g)
  BY <1>1
<1>3. /\ f.rev = g.rev /\ f.candidate = g.candidate /\ f.twin = g.twin
      /\ f.participants = g.participants /\ f.cites = g.cites /\ f.named = g.named
      /\ A(f) = A(g)
  <2> HIDE DEF A
  <2> QED
    BY <1>2
<1>4. /\ f.tag.artist = g.tag.artist /\ f.tag.count = g.tag.count
      /\ f.tag.seen = g.tag.seen /\ f.tag.redirects = g.tag.redirects
  BY <1>3
<1> QED
  BY <1>3, <1>4 DEF SameFacts

(* Facts that agree on what a plan reads authorize the same plans. *)
LEMMA SameFactsAuthorize ==
  ASSUME NEW f, NEW g, SameFacts(f, g), NEW plan
  PROVE  Authorized(plan, f) => Authorized(plan, g)
<1>1. \A t : Resolves(t, f) <=> Resolves(t, g)
  BY DEF Resolves, SameFacts
<1>2. \A t : TargetRevision(t, f) = TargetRevision(t, g)
  BY DEF TargetRevision, SameFacts
<1>3. \A t, m, r, s : Chosen(t, f, m, r, s) = Chosen(t, g, m, r, s)
  BY <1>2 DEF Chosen
<1>4. \A s : SeedRevision(s, f) = SeedRevision(s, g) /\ Members(s, f) = Members(s, g)
             /\ Observed(s, f) = Observed(s, g)
  BY DEF SeedRevision, Members, Observed, SameFacts
<1>5. ASSUME NEW s
      PROVE  TargetChoices(s, f) = TargetChoices(s, g)
  <2>1. f.participants = g.participants /\ f.cites = g.cites
        /\ f.candidate.decision = g.candidate.decision
    BY DEF SameFacts
  <2>2. CASE s \in Account
    <3>1. \A t : Chosen(t, f, "confirmed", f.candidate.decision, "confirmed_identity")
                    = Chosen(t, g, "confirmed", g.candidate.decision, "confirmed_identity")
      BY <1>3, <2>1
    <3>2. Members(s, f) = Members(s, g)
      BY <1>4
    <3> QED
      BY <1>3, <2>2, <3>1, <3>2 DEF TargetChoices
  <2>3. CASE s \notin Account
    <3>1. {t \in f.cites : Resolves(t, f)} = {t \in g.cites : Resolves(t, g)}
      BY <1>1, <2>1
    <3> QED
      BY <1>3, <2>1, <2>3, <3>1 DEF TargetChoices
  <2> QED
    BY <2>2, <2>3
<1>6. \A x : Selectable(x, f) = Selectable(x, g)
  BY <1>1, <1>3 DEF Selectable
<1>7. ASSUME NEW s, NEW x
      PROVE  AllChoices(s, x, f) = AllChoices(s, x, g)
  <2>1. TargetChoices(s, f) = TargetChoices(s, g) /\ Selectable(x, f) = Selectable(x, g)
    BY <1>5, <1>6
  <2> QED
    BY <2>1 DEF AllChoices
<1>8. ASSUME NEW s, NEW x
      PROVE  Selection(s, x, f) = Selection(s, x, g)
  <2>1. AllChoices(s, x, f) = AllChoices(s, x, g) /\ Selectable(x, f) = Selectable(x, g)
    BY <1>6, <1>7
  <2> QED
    BY <2>1 DEF Selection
<1>9. \A s : Exclusions(s, f) = Exclusions(s, g)
  <2>1. f.participants = g.participants /\ f.cites = g.cites
        /\ f.candidate.state = g.candidate.state /\ f.twin = g.twin
    BY DEF SameFacts
  <2> QED
    BY <1>1, <1>4, <2>1 DEF Exclusions
<1> QED
  BY <1>4, <1>7, <1>8, <1>9, Zenon DEF Authorized

(* What a plan chose stands by the facts that authorize the plan. *)
LEMMA AuthorizedStands ==
  ASSUME NEW f \in Facts, NEW plan, PlanMade(plan), Authorized(plan, f)
  PROVE  Stands(plan, f)
<1> DEFINE s == plan.seed
           x == ExplicitTarget(plan)
           c == plan.selected
<1>1. c = Selection(s, x, f) /\ c # None
  BY DEF Authorized, PlanMade
<1>2. c \in Selectable(x, f) \/ c \in TargetChoices(s, f)
  <2>1. CASE Selectable(x, f) # {}
    <3>1. c = CHOOSE y \in Selectable(x, f) : TRUE
      BY <1>1, <2>1, Zenon DEF Selection
    <3> QED
      BY <2>1, <3>1
  <2>2. CASE Selectable(x, f) = {}
    <3>1. Cardinality(AllChoices(s, x, f)) = 1 /\ c = CHOOSE y \in AllChoices(s, x, f) : TRUE
      BY <1>1, <2>2, Zenon DEF Selection
    <3>2. AllChoices(s, x, f) # {}
      BY <3>1, FS_EmptySet
    <3>3. c \in AllChoices(s, x, f)
      BY <3>1, <3>2
    <3> QED
      BY <3>3 DEF AllChoices
  <2> QED
    BY <2>1, <2>2
<1> HIDE DEF s, x, c
<1>3. CASE c \in Selectable(x, f)
  <2>1. Resolves(c.target, f) /\ c.source = "explicit_selection"
    BY <1>3 DEF Selectable, Chosen
  <2> QED
    BY <2>1 DEF Stands, c
<1>4. CASE c \in TargetChoices(s, f)
  <2>1. Account \cap Attribution = {} /\ Tagged \subseteq Attribution
        /\ \E y, z \in Account : y # z /\ Linked = {y, z}
    BY LibraryAssumption
  <2>2. \A t \in Account \cap Enumerable : Resolves(t, f)
    BY <2>1 DEF Resolves
  <2>3. CASE s \in Account /\ c \in {Chosen(t, f, "explicit", None, "seed_account") :
                                          t \in {s} \cap Enumerable}
    <3>1. Resolves(c.target, f) /\ c.source = "seed_account" /\ c.target = s
      BY <2>2, <2>3 DEF Chosen
    <3> QED
      BY <3>1 DEF Stands, c, s
  <2>4. CASE s \in Account
             /\ c \in {Chosen(t, f, "confirmed", f.candidate.decision, "confirmed_identity") :
                         t \in Members(s, f) \cap Enumerable}
    <3>1. PICK t \in Members(s, f) \cap Enumerable :
             c = Chosen(t, f, "confirmed", f.candidate.decision, "confirmed_identity")
      BY <2>4
    <3>2. /\ t \in Linked /\ s \in Linked /\ s # t /\ f.candidate.state = "confirmed"
          /\ t \in Enumerable
      BY <3>1 DEF Members
    <3>3. {t, s} = Linked /\ t \in Account
      BY <2>1, <3>2
    <3>4. c.target = t /\ c.source = "confirmed_identity"
          /\ c.reference = f.candidate.decision
      BY <3>1 DEF Chosen
    <3>5. f.candidate = [state |-> "confirmed", decision |-> c.reference]
      BY <3>2, <3>4, FactFields
    <3> QED
      BY <2>2, <3>2, <3>3, <3>4, <3>5 DEF Stands, c, s
  <2>5. CASE c \in {Chosen(t, f, "explicit", None, "observed_authorship") :
                       t \in {y[1] : y \in {y \in f.participants : y[2] = "author"}} \cap Enumerable}
    <3>1. PICK y \in f.participants :
             /\ y[2] = "author" /\ y[1] \in Enumerable
             /\ c = Chosen(y[1], f, "explicit", None, "observed_authorship")
      BY <2>5
    <3>2. y \in Participant
      BY <3>1, FactFields
    <3>3. y[1] \in Account /\ y = <<y[1], "author">>
      BY <3>1, <3>2 DEF Participant
    <3>4. c.target = y[1] /\ c.source = "observed_authorship"
      BY <3>1 DEF Chosen
    <3> QED
      BY <2>2, <3>1, <3>3, <3>4 DEF Stands, c
  <2>6. CASE c \in {Chosen(t, f, "explicit", None, "observed_attribution") :
                       t \in {t \in f.cites : Resolves(t, f)}}
    <3>1. Resolves(c.target, f) /\ c.source = "observed_attribution" /\ c.target \in f.cites
      BY <2>6 DEF Chosen
    <3> QED
      BY <3>1 DEF Stands, c
  <2> QED
    BY <1>4, <2>3, <2>4, <2>5, <2>6, Zenon DEF TargetChoices
<1> QED
  BY <1>2, <1>3, <1>4

-----------------------------------------------------------------------------
(* What is bound *)

IsList(s) == s \in Seq({s[i] : i \in DOMAIN s})

(* A list keeps its rows when one is appended, or its last ones changed. *)
LEMMA Appended ==
  ASSUME NEW s, IsList(s), NEW x
  PROVE  /\ IsList(Append(s, x)) /\ Len(s) \in Nat /\ DOMAIN s = 1..Len(s)
         /\ Len(Append(s, x)) = Len(s) + 1 /\ DOMAIN Append(s, x) = 1..Len(s) + 1
         /\ \A i \in DOMAIN s : Append(s, x)[i] = s[i]
         /\ Append(s, x)[Len(s) + 1] = x
<1> DEFINE S == {s[i] : i \in DOMAIN s}
           t == Append(s, x)
<1>1. s \in Seq(S)
  BY DEF IsList
<1> HIDE DEF S
<1>2. s \in Seq(S \cup {x})
  BY <1>1
<1>3. t \in Seq(S \cup {x}) /\ Len(t) = Len(s) + 1 /\ DOMAIN t = 1..Len(s) + 1
      /\ \A i \in DOMAIN s : t[i] = s[i]
      /\ t[Len(s) + 1] = x /\ Len(s) \in Nat /\ DOMAIN s = 1..Len(s)
  BY <1>2
<1> HIDE DEF t
<1>4. t \in Seq({t[i] : i \in DOMAIN t})
  BY <1>3
<1> QED
  BY <1>3, <1>4 DEF t, IsList

(* Changing a row keeps a list. *)
LEMMA Updated ==
  ASSUME NEW s, IsList(s), NEW r \in DOMAIN s, NEW x
  PROVE  LET t == [s EXCEPT ![r] = x]
         IN  /\ IsList(t) /\ Len(t) = Len(s) /\ DOMAIN t = DOMAIN s /\ t[r] = x
             /\ \A i \in DOMAIN s : i # r => t[i] = s[i]
<1> DEFINE S == {s[i] : i \in DOMAIN s}
           t == [s EXCEPT ![r] = x]
<1>1. s \in Seq(S)
  BY DEF IsList
<1> HIDE DEF S
<1>2. s \in Seq(S \cup {x})
  BY <1>1
<1>3. t \in Seq(S \cup {x}) /\ Len(t) = Len(s) /\ DOMAIN t = DOMAIN s
      /\ t[r] = x /\ \A i \in DOMAIN s : i # r => t[i] = s[i]
  BY <1>2
<1> HIDE DEF t
<1>4. t \in Seq({t[i] : i \in DOMAIN t})
  BY <1>3
<1> QED
  BY <1>3, <1>4 DEF t, IsList

(* Facts are facts when others change them, and when a page is written. *)
TagRows == [artist : BOOLEAN, count : Nat \cup {None}, seen : Nat,
            agrees : BOOLEAN, redirects : BOOLEAN]

(* Changing one fact within its range leaves facts. *)
LEMMA WithFields ==
  ASSUME NEW f \in Facts, NEW x
  PROVE  /\ x \in [Target \cup {SeedPost} -> Nat] => [f EXCEPT !.rev = x] \in Facts
         /\ x \in [state : Review, decision : Nat] => [f EXCEPT !.candidate = x] \in Facts
         /\ x \in Review => [f EXCEPT !.twin = x] \in Facts
         /\ x \in SUBSET Participant => [f EXCEPT !.participants = x] \in Facts
         /\ x \in SUBSET Attribution => [f EXCEPT !.named = x] \in Facts
         /\ x \in TagRows => [f EXCEPT !.tag = x] \in Facts
<1> DEFINE R == [Target \cup {SeedPost} -> Nat]
           C == [state : Review, decision : Nat]
<1>1. Facts = [rev : R, candidate : C, twin : Review,
             participants : SUBSET Participant, cites : SUBSET Attribution,
             named : SUBSET Attribution, tag : TagRows]
  BY DEF Facts, TagRows
<1> HIDE DEF R, C
<1>2. /\ x \in R => [f EXCEPT !.rev = x] \in Facts
      /\ x \in C => [f EXCEPT !.candidate = x] \in Facts
  BY <1>1
<1>3. /\ x \in Review => [f EXCEPT !.twin = x] \in Facts
      /\ x \in SUBSET Participant => [f EXCEPT !.participants = x] \in Facts
  BY <1>1
<1>4. /\ x \in SUBSET Attribution => [f EXCEPT !.named = x] \in Facts
      /\ x \in TagRows => [f EXCEPT !.tag = x] \in Facts
  BY <1>1
<1> QED
  BY <1>2, <1>3, <1>4 DEF R, C

(* Another observation of a record raises its revision, whatever that was. *)
LEMMA ReobservedFacts ==
  ASSUME NEW f \in Facts, NEW x \in Target \cup {SeedPost}
  PROVE  [f EXCEPT !.rev[x] = @ + 1] \in Facts
<1>1. f.rev \in [Target \cup {SeedPost} -> Nat]
  BY FactFields, Zenon
<1>2. [f.rev EXCEPT ![x] = f.rev[x] + 1] \in [Target \cup {SeedPost} -> Nat]
  BY <1>1
<1>3. [f EXCEPT !.rev[x] = @ + 1] = [f EXCEPT !.rev = [f.rev EXCEPT ![x] = f.rev[x] + 1]]
  OBVIOUS
<1> QED
  BY <1>2, <1>3, WithFields, Zenon

(* What the tag says without its page is a row of a tag. *)
LEMMA StandaloneRows ==
  ASSUME NEW tag \in TagRows, NEW count \in Nat \cup {None}
  PROVE  Standalone(tag, count) \in TagRows
<1>1. tag.seen + 1 \in Nat
  BY DEF TagRows
<1> QED
  BY <1>1 DEF Standalone, TagRows

(* Whatever an import, a synchronization or a review establishes are facts. *)
LEMMA FactKeepsFacts ==
  ASSUME facts \in Facts, Fact
  PROVE  facts' \in Facts
<1>0. facts.tag \in TagRows
  BY DEF Facts, TagRows
<1>1. ASSUME NEW x \in Target \cup {SeedPost}, facts' = Reobserved(x)
      PROVE  facts' \in Facts
  BY <1>1, ReobservedFacts, Zenon DEF Reobserved
<1>2. ASSUME NEW state \in {"rejected", "confirmed", "pending"},
             facts' = [facts EXCEPT !.candidate = Decided(@, state)]
      PROVE  facts' \in Facts
  <2>1. Decided(facts.candidate, state) \in [state : Review, decision : Nat]
    <3>1. facts.candidate \in [state : Review, decision : Nat]
      BY FactFields, Zenon
    <3>2. state \in Review /\ facts.candidate.decision + 1 \in Nat
      BY <3>1 DEF Review
    <3> QED
      BY <3>2 DEF Decided
  <2>2. facts' = [facts EXCEPT !.candidate = Decided(facts.candidate, state)]
    BY <1>2, Zenon
  <2> QED
    BY <2>1, <2>2, WithFields, Zenon
<1>3. ASSUME facts' = [facts EXCEPT !.twin = "pending"]
      PROVE  facts' \in Facts
  BY <1>3, WithFields DEF Review
<1>4. ASSUME NEW a \in Account, NEW role \in {"author", "uploader"},
             facts' = [Reobserved(SeedPost) EXCEPT !.participants = @ \cup {<<a, role>>}]
      PROVE  facts' \in Facts
  <2> DEFINE f == Reobserved(SeedPost)
  <2>1. f \in Facts
    BY ReobservedFacts, Zenon DEF Reobserved
  <2> HIDE DEF f
  <2>2. f.participants \cup {<<a, role>>} \in SUBSET Participant
    <3>1. f.participants \in SUBSET Participant
      BY <2>1, FactFields, Zenon
    <3>2. <<a, role>> \in Participant
      BY DEF Participant
    <3> QED
      BY <3>1, <3>2
  <2>3. facts' = [f EXCEPT !.participants = f.participants \cup {<<a, role>>}]
    BY <1>4, Zenon DEF f
  <2> QED
    BY <2>1, <2>2, <2>3, WithFields, Zenon
<1>5. ASSUME NEW g \in Attribution \ facts.named,
             facts' = [Reobserved(g) EXCEPT !.named = @ \cup {g}]
      PROVE  facts' \in Facts
  <2> DEFINE f == Reobserved(g)
  <2>1. f \in Facts
    BY ReobservedFacts DEF Reobserved, Target
  <2> HIDE DEF f
  <2>2. f.named \cup {g} \in SUBSET Attribution
    BY <2>1, FactFields
  <2>3. facts' = [f EXCEPT !.named = f.named \cup {g}]
    BY <1>5, Zenon DEF f
  <2> QED
    BY <2>1, <2>2, <2>3, WithFields, Zenon
<1>6. ASSUME NEW count \in {None, facts.tag.count},
             facts' = [facts EXCEPT !.tag = Standalone(@, count)]
      PROVE  facts' \in Facts
  <2>1. Standalone(facts.tag, count) \in TagRows
    BY <1>0, FactFields, StandaloneRows
  <2>2. facts' = [facts EXCEPT !.tag = Standalone(facts.tag, count)]
    BY <1>6, Zenon
  <2> QED
    BY <2>1, <2>2, WithFields, Zenon
<1>7. ASSUME facts' = [facts EXCEPT !.tag = Standalone(Recategorized(@), @.count)]
      PROVE  facts' \in Facts
  <2> DEFINE tag == Recategorized(facts.tag)
  <2>1. (~facts.tag.artist) \in BOOLEAN
    OBVIOUS
  <2>2. tag \in TagRows
    BY <1>0, <2>1 DEF TagRows, Recategorized
  <2>3. facts' = [facts EXCEPT !.tag = Standalone(tag, facts.tag.count)]
    BY <1>7, Zenon
  <2> HIDE DEF tag
  <2>4. Standalone(tag, facts.tag.count) \in TagRows
    BY <2>2, FactFields, StandaloneRows
  <2> QED
    BY <2>3, <2>4, WithFields, Zenon
<1>8. ASSUME facts' = [facts EXCEPT !.tag.redirects = ~@]
      PROVE  facts' \in Facts
  <2> DEFINE tag == [facts.tag EXCEPT !.redirects = ~facts.tag.redirects]
  <2>1. (~facts.tag.redirects) \in BOOLEAN
    OBVIOUS
  <2>2. tag \in TagRows
    BY <1>0, <2>1 DEF TagRows
  <2>3. facts' = [facts EXCEPT !.tag = tag]
    BY <1>8, Zenon
  <2> HIDE DEF tag
  <2> QED
    BY <2>2, <2>3, WithFields, Zenon
<1> QED
  BY <1>1, <1>2, <1>3, <1>4, <1>5, <1>6, <1>7, <1>8, Zenon DEF Fact

(* What a stored page of the target establishes are facts. *)
LEMMA PageKeepsFacts ==
  ASSUME facts \in Facts, NEW page, NEW t
  PROVE  AfterPage(page, t) \in Facts
<1> DEFINE n == IF SeedPost \in page THEN facts.rev[SeedPost] + 1 ELSE facts.rev[SeedPost]
           f == [facts EXCEPT !.rev = [facts.rev EXCEPT ![SeedPost] = n]]
           agrees == facts.tag.agrees /\ (t \in Tagged => page = {})
           tag == [f.tag EXCEPT !.agrees = agrees]
<1>1. [facts.rev EXCEPT ![SeedPost] = n] \in [Target \cup {SeedPost} -> Nat]
  <2>1. facts.rev \in [Target \cup {SeedPost} -> Nat]
    BY FactFields, Zenon
  <2> QED
    BY <2>1
<1>2. f \in Facts
  BY <1>1, WithFields, Zenon
<1>3. f.tag = facts.tag
  BY FactFields
<1> HIDE DEF n
<1>4. AfterPage(page, t) = [f EXCEPT !.tag = tag]
  BY <1>3 DEF AfterPage, n
<1>5. agrees \in BOOLEAN
  OBVIOUS
<1> HIDE DEF f
<1>6. f.tag \in TagRows
  BY <1>2 DEF Facts, TagRows
<1>7. tag \in TagRows
  BY <1>5, <1>6 DEF TagRows
<1> HIDE DEF tag
<1> QED
  BY <1>2, <1>4, <1>7, WithFields, Zenon

-----------------------------------------------------------------------------
(* What a step of an invocation does to its run and to itself *)

(* The others stay where they are. *)
Apart(p) ==
    \A q \in Process \ {p} :
        /\ pc'[q] = pc[q] /\ run'[q] = run[q] /\ cursor'[q] = cursor[q]
        /\ spent'[q] = spent[q] /\ reply'[q] = reply[q] /\ ending'[q] = ending[q]

WritesOwn(p, new) ==
    /\ runs' = [runs EXCEPT ![run[p]] = new] /\ new \in Run
    /\ SameChain(runs[run[p]], new) /\ new.checkpoint = runs[run[p]].checkpoint
    /\ UNCHANGED provider /\ Apart(p)

(* It goes on, comes to an end without being complete, or writes the end   *)
(* of its run.                                                             *)
KeepsOn(p, new) ==
    /\ new.status = "running" /\ run'[p] = run[p] /\ cursor'[p] = cursor[p]
    /\ spent'[p].records = spent[p].records
    /\ \/ pc[p] \in Executing /\ pc'[p] = "send"
       \/ /\ pc[p] = "send" /\ pc'[p] = "retain"
          /\ reply'[p] = Listing(cursor[p]) \/ reply'[p].kind # "page"
       \/ /\ pc[p] \in {"retain", "admit"} /\ pc'[p] \in {"admit", "commit"}
          /\ reply[p].kind = "page" /\ reply'[p] = reply[p]

Stops(p, new) ==
    /\ new.status = "running" /\ run'[p] = run[p]
    /\ pc[p] \in Executing /\ pc'[p] = "finish"
    /\ ending'[p].status \in {"paused", "failed"}
    /\ ending'[p].status = "paused" => spent'[p] = spent[p]

Ends(p, new) ==
    /\ pc[p] = "finish" /\ pc'[p] = "idle" /\ run'[p] = None
    /\ new.status = ending[p].status /\ new.status # "running"
    /\ new.counts.records = spent[p].records

(* A run that pauses or fails between two pages ends as it is: its row gets
   the status, and its listing goes no further. *)
LEMMA StoppingStops ==
  ASSUME NEW p \in Process, NEW new \in Run, NEW status \in {"paused", "failed"}, NEW boundary,
         Inv, pc[p] \in Executing, UNCHANGED <<provider, run>>,
         runs' = [runs EXCEPT ![run[p]] = new], SameChain(runs[run[p]], new),
         new.checkpoint = runs[run[p]].checkpoint, new.status = "running",
         Finishing(p, status, boundary),
         \/ UNCHANGED spent
         \/ status = "failed" /\ \E sp : spent' = [spent EXCEPT ![p] = sp]
  PROVE  WritesOwn(p, new) /\ Stops(p, new)
<1>1. /\ pc' = [pc EXCEPT ![p] = "finish"] /\ cursor' = [cursor EXCEPT ![p] = None]
      /\ reply' = [reply EXCEPT ![p] = None] /\ run' = run
      /\ ending' = [ending EXCEPT ![p] = [status |-> status, boundary |-> boundary]]
  BY DEF Finishing, Goto
<1>2. /\ pc \in [Process -> Label] /\ DOMAIN cursor = Process /\ DOMAIN spent = Process
      /\ DOMAIN reply = Process /\ DOMAIN ending = Process
  BY DEF Inv, ShapeInv, LocalInv
<1>3. \A q \in Process \ {p} : spent'[q] = spent[q]
  BY <1>2
<1>4. Apart(p)
  BY <1>1, <1>2, <1>3 DEF Apart
<1>5. pc'[p] = "finish" /\ ending'[p].status = status
  BY <1>1, <1>2
<1>6. status = "paused" => spent'[p] = spent[p]
  OBVIOUS
<1>7. run'[p] = run[p] /\ UNCHANGED provider
  OBVIOUS
<1> QED
  BY <1>4, <1>5, <1>6, <1>7 DEF WritesOwn, Stops

(* A step of a listing that commits no page. *)
LEMMA RunStepDoes ==
  ASSUME NEW p \in Process, Inv, BetweenCommits(p), runs[run[p]].kind = "listing"
  PROVE  \E new : WritesOwn(p, new) /\ (KeepsOn(p, new) \/ Stops(p, new) \/ Ends(p, new))
<1> DEFINE rec == runs[run[p]]
<1>1. pc[p] # "idle"
  BY DEF BetweenCommits, Exhausted, NextPage, ReserveRefused, Reserve, Fetch, FetchFails,
         Retain, RetainFails, Admit, CommitLate, CommitFails, Finish, EnrichRaises, EnrichFetch,
         EnrichRecord
<1>2. /\ run[p] \in DOMAIN runs /\ rec \in Run /\ rec.status = "running"
      /\ Tallied(limits, rec, pc[p], spent[p], reply[p], ending[p])
      /\ Ready(pc[p], reply[p], ending[p])
  BY <1>1, WorkFacts
<1>3. pc[p] \notin {"fetch", "record"}
  BY <1>2 DEF Tallied
<1>4. SameChain(rec, rec) /\ runs = [runs EXCEPT ![run[p]] = rec]
  BY <1>1, Stays DEF SameChain
<1>5. /\ pc \in [Process -> Label] /\ DOMAIN cursor = Process /\ DOMAIN spent = Process
      /\ DOMAIN reply = Process /\ DOMAIN ending = Process /\ DOMAIN run = Process
      /\ \A q \in Process : spent[q] \in Spending
  BY DEF Inv, ShapeInv, LocalInv
<1> HIDE DEF rec
<1>6. ASSUME NEW status \in {"paused", "failed"}, NEW boundary,
             pc[p] \in Executing, UNCHANGED <<provider, run, runs>>,
             Finishing(p, status, boundary),
             \/ UNCHANGED spent
             \/ status = "failed" /\ \E sp : spent' = [spent EXCEPT ![p] = sp]
      PROVE  WritesOwn(p, rec) /\ Stops(p, rec)
  <2>1. runs' = [runs EXCEPT ![run[p]] = rec] /\ UNCHANGED <<provider, run>>
    BY <1>4, <1>6
  <2> QED
    BY <1>2, <1>4, <1>6, <2>1, StoppingStops DEF rec
<1>7. CASE Exhausted(p)
  <2>1. pc[p] \in Executing /\ UNCHANGED <<provider, run, runs>> /\ UNCHANGED spent
    BY <1>7 DEF Exhausted, Executing
  <2>2. Finishing(p, "paused", "page") \/ Finishing(p, "paused", "record")
    BY <1>7 DEF Exhausted
  <2> QED
    BY <1>6, <2>1, <2>2
<1>8. CASE NextPage(p)
  <2>1. /\ pc[p] \in Executing /\ pc' = [pc EXCEPT ![p] = "send"]
        /\ runs' = [runs EXCEPT ![run[p]] = rec]
        /\ UNCHANGED <<provider, run, cursor, spent, reply, ending>>
    BY <1>4, <1>8 DEF NextPage, Goto, Executing, request
  <2>2. UNCHANGED provider /\ Apart(p)
    BY <1>5, <2>1 DEF Apart
  <2>3. WritesOwn(p, rec)
    BY <1>2, <1>4, <2>1, <2>2 DEF WritesOwn, rec
  <2>4. KeepsOn(p, rec)
    BY <1>2, <1>5, <2>1 DEF KeepsOn
  <2> QED
    BY <2>3, <2>4
<1>9. CASE ReserveRefused(p)
  <2>1. pc[p] \in Executing /\ UNCHANGED <<provider, run, runs>> /\ UNCHANGED spent
    BY <1>9 DEF ReserveRefused, Executing
  <2>2. Finishing(p, "paused", "time") \/ Finishing(p, "paused", "request")
    BY <1>9 DEF ReserveRefused
  <2> QED
    BY <1>6, <2>1, <2>2
<1>10. CASE Fetch(p)
  <2> DEFINE sp == [spent[p] EXCEPT !.requests = @ + 1]
  <2>1. PICK r \in [kind : {"busy", "refused"}] \cup {Listing(cursor[p])} :
           reply' = [reply EXCEPT ![p] = r]
    BY <1>10 DEF Fetch
  <2>2. /\ pc[p] = "send" /\ pc' = [pc EXCEPT ![p] = "retain"]
        /\ runs' = [runs EXCEPT ![run[p]] = rec]
        /\ UNCHANGED <<provider, run, cursor, ending>>
        /\ spent' = [spent EXCEPT ![p] = sp]
    BY <1>4, <1>10 DEF Fetch, Goto, Reserve
  <2>3. sp.records = spent[p].records
    BY <1>5 DEF Spending
  <2> HIDE DEF sp
  <2>4. UNCHANGED provider /\ Apart(p)
    BY <1>5, <2>1, <2>2 DEF Apart
  <2>5. WritesOwn(p, rec)
    BY <1>2, <1>4, <2>2, <2>4 DEF WritesOwn, rec
  <2>6. r = Listing(cursor[p]) \/ r.kind # "page"
    BY <2>1
  <2>7. KeepsOn(p, rec)
    BY <1>2, <1>5, <2>1, <2>2, <2>3, <2>6 DEF KeepsOn
  <2> QED
    BY <2>5, <2>7
<1>11. CASE FetchFails(p)
  <2>1. pc[p] \in Executing /\ UNCHANGED <<provider, run, runs>>
    BY <1>11 DEF FetchFails, Reserve, Executing
  <2>2. Finishing(p, "failed", None) /\ \E sp : spent' = [spent EXCEPT ![p] = sp]
    BY <1>11 DEF FetchFails, Reserve
  <2> QED
    BY <1>6, <2>1, <2>2
<1>12. CASE Retain(p)
  <2> DEFINE new == Retained(rec)
  <2>1. /\ pc[p] = "retain" /\ runs' = [runs EXCEPT ![run[p]] = new]
        /\ UNCHANGED <<provider, run>> /\ UNCHANGED spent
    BY <1>12 DEF Retain, rec
  <2>2. /\ new \in Run /\ SameChain(rec, new) /\ new.checkpoint = rec.checkpoint
        /\ new.status = "running"
    BY <1>2, RetainedFields
  <2> HIDE DEF new
  <2>3. CASE Finishing(p, "failed", None)
    <3>1. WritesOwn(p, new) /\ Stops(p, new)
      BY <2>1, <2>2, <2>3, StoppingStops DEF rec, Executing
    <3> QED
      BY <3>1
  <2>4. CASE reply[p].kind = "page" /\ Goto(p, "admit") /\ UNCHANGED request
    <3>1. pc' = [pc EXCEPT ![p] = "admit"] /\ UNCHANGED <<cursor, reply, ending>>
      BY <2>4 DEF Goto, request
    <3>2. Apart(p) /\ UNCHANGED provider
      BY <1>5, <2>1, <3>1 DEF Apart
    <3>3. WritesOwn(p, new)
      BY <2>1, <2>2, <3>2 DEF WritesOwn, rec
    <3>4. KeepsOn(p, new)
      BY <1>5, <2>1, <2>2, <2>4, <3>1 DEF KeepsOn
    <3> QED
      BY <3>3, <3>4
  <2>5. CASE /\ reply' = [reply EXCEPT ![p] = None] /\ Goto(p, "send")
             /\ UNCHANGED <<cursor, ending>>
    <3>1. pc' = [pc EXCEPT ![p] = "send"] /\ pc[p] \in Executing
      BY <2>1, <2>5 DEF Goto, Executing
    <3>2. Apart(p) /\ UNCHANGED provider
      BY <1>5, <2>1, <2>5, <3>1 DEF Apart
    <3>3. WritesOwn(p, new)
      BY <2>1, <2>2, <3>2 DEF WritesOwn, rec
    <3>4. KeepsOn(p, new)
      BY <1>5, <2>1, <2>2, <2>5, <3>1 DEF KeepsOn
    <3> QED
      BY <3>3, <3>4
  <2> QED
    BY <1>12, <2>3, <2>4, <2>5 DEF Retain
<1>13. CASE RetainFails(p)
  <2>1. pc[p] \in Executing /\ UNCHANGED <<provider, run, runs>> /\ UNCHANGED spent
    BY <1>13 DEF RetainFails, Executing
  <2>2. Finishing(p, "failed", None)
    BY <1>13 DEF RetainFails
  <2> QED
    BY <1>6, <2>1, <2>2
<1>14. CASE Admit(p)
  <2>1. pc[p] = "admit" /\ UNCHANGED <<provider, run, runs>> /\ UNCHANGED spent
    BY <1>14 DEF Admit
  <2>2. CASE Finishing(p, "paused", AdmitBoundary(p))
    BY <1>6, <2>1, <2>2 DEF Executing
  <2>3. CASE Goto(p, "commit") /\ UNCHANGED request
    <3>1. pc' = [pc EXCEPT ![p] = "commit"] /\ UNCHANGED <<cursor, reply, ending>>
      BY <2>3 DEF Goto, request
    <3>2. Apart(p) /\ UNCHANGED provider
      BY <1>5, <2>1, <3>1 DEF Apart
    <3>3. reply[p].kind = "page"
      BY <1>2, <2>1 DEF Ready
    <3>4. WritesOwn(p, rec)
      BY <1>2, <1>4, <2>1, <3>2 DEF WritesOwn, rec
    <3>5. KeepsOn(p, rec)
      BY <1>2, <1>5, <2>1, <3>1, <3>3 DEF KeepsOn
    <3> QED
      BY <3>4, <3>5
  <2> QED
    BY <1>14, <2>2, <2>3 DEF Admit
<1>15. CASE CommitLate(p)
  <2>1. pc[p] \in Executing /\ UNCHANGED <<provider, run, runs>> /\ UNCHANGED spent
    BY <1>15 DEF CommitLate, Executing
  <2>2. Finishing(p, "paused", AdmitBoundary(p))
    BY <1>15 DEF CommitLate
  <2> QED
    BY <1>6, <2>1, <2>2
<1>16. CASE CommitFails(p)
  <2>1. pc[p] \in Executing /\ UNCHANGED <<provider, run, runs>>
    BY <1>16 DEF CommitFails, Executing
  <2>2. Finishing(p, "failed", None)
        /\ (UNCHANGED spent \/ \E sp : spent' = [spent EXCEPT ![p] = sp])
    BY <1>16 DEF CommitFails
  <2> QED
    BY <1>6, <2>1, <2>2
<1>17. CASE Finish(p)
  <2> DEFINE new == Finished(rec, ending[p].status, ending[p].boundary, spent[p])
  <2>1. /\ pc[p] = "finish" /\ runs' = [runs EXCEPT ![run[p]] = new]
        /\ UNCHANGED provider /\ Leave(p)
    BY <1>17 DEF Finish, rec
  <2>2. ending[p] \in Ending
    BY <1>2, <2>1 DEF Ready
  <2>3. ending[p].status \in FinalStatus /\ ending[p].boundary \in Boundary
    BY <2>2 DEF Ending, FinalStatus, Boundary
  <2>4. /\ new \in Run /\ SameChain(rec, new) /\ new.checkpoint = rec.checkpoint
        /\ new.status = ending[p].status /\ new.counts = spent[p]
    BY <1>2, <1>5, <2>3, FinishedFields
  <2> HIDE DEF new
  <2>5. Apart(p) /\ pc'[p] = "idle" /\ run'[p] = None
    BY <1>5, <2>1 DEF Apart, Leave, Goto
  <2>6. WritesOwn(p, new)
    BY <2>1, <2>4, <2>5 DEF WritesOwn, rec
  <2>7. Ends(p, new)
    BY <2>1, <2>3, <2>4, <2>5 DEF Ends, FinalStatus
  <2> QED
    BY <2>6, <2>7
<1>18. ~EnrichRaises(p) /\ ~EnrichFetch(p) /\ ~EnrichRecord(p)
  BY <1>3 DEF EnrichRaises, EnrichFetch, EnrichRecord
<1> QED
  BY <1>7, <1>8, <1>9, <1>10, <1>11, <1>12, <1>13, <1>14, <1>15, <1>16, <1>17, <1>18, Zenon
     DEF BetweenCommits

Commits(p, new) ==
    /\ runs' = [runs EXCEPT ![run[p]] = new] /\ new \in Run
    /\ SameChain(runs[run[p]], new) /\ new.status = "running"
    /\ new.checkpoint = IF reply[p].next = None THEN runs[run[p]].checkpoint ELSE reply[p].next
    /\ UNCHANGED provider /\ Apart(p) /\ run'[p] = run[p]
    /\ pc[p] = "commit" /\ reply[p] \in Reply /\ reply[p].kind = "page"
    /\ spent'[p].records = spent[p].records + Cardinality(reply[p].posts)
    /\ \/ reply[p].next # None /\ pc'[p] = "next" /\ cursor'[p] = reply[p].next
       \/ reply[p].next = None /\ pc'[p] = "finish" /\ ending'[p].status = "complete"

(* The step that commits one. *)
LEMMA CommitDoes ==
  ASSUME NEW p \in Process, Inv, Commit(p)
  PROVE  \E new : Commits(p, new)
<1> DEFINE rec == runs[run[p]]
           new == WithPage(rec, reply[p].next)
           sp == PageSpent(p)
<1>1. pc[p] = "commit"
  BY DEF Commit
<1>2. /\ run[p] \in DOMAIN runs /\ rec \in Run /\ rec.status = "running"
      /\ Ready(pc[p], reply[p], ending[p])
  BY <1>1, WorkFacts
<1>3. reply[p] \in Reply /\ reply[p].kind = "page"
  BY <1>1, <1>2 DEF Ready
<1>4. reply[p].posts \in SUBSET Post /\ reply[p].next \in Cursor \cup {None}
  BY <1>3, ReplyFields
<1>5. /\ pc \in [Process -> Label] /\ DOMAIN cursor = Process /\ DOMAIN spent = Process
      /\ DOMAIN reply = Process /\ DOMAIN ending = Process /\ DOMAIN run = Process
      /\ \A q \in Process : spent[q] \in Spending
  BY DEF Inv, ShapeInv, LocalInv
<1>6. /\ runs' = [runs EXCEPT ![run[p]] = new] /\ UNCHANGED provider /\ run' = run
      /\ spent' = [spent EXCEPT ![p] = sp]
  BY DEF Commit
<1>7. sp.records = spent[p].records + Cardinality(reply[p].posts)
  BY <1>5 DEF PageSpent, Spending
<1>8. /\ new \in Run /\ SameChain(rec, new) /\ new.status = "running"
      /\ new.checkpoint = IF reply[p].next = None THEN rec.checkpoint ELSE reply[p].next
  BY <1>2, <1>4, WithPageFields
<1> HIDE DEF new, sp, rec
<1>9. spent'[p] = sp /\ \A q \in Process \ {p} : spent'[q] = spent[q]
  BY <1>5, <1>6
<1>10. CASE /\ reply[p].next # None /\ cursor' = [cursor EXCEPT ![p] = reply[p].next]
            /\ reply' = [reply EXCEPT ![p] = None] /\ Goto(p, "next") /\ UNCHANGED ending
  <2>1. pc' = [pc EXCEPT ![p] = "next"]
    BY <1>10 DEF Goto
  <2>2. Apart(p)
    BY <1>5, <1>6, <1>9, <1>10, <2>1 DEF Apart
  <2>3. pc'[p] = "next" /\ cursor'[p] = reply[p].next
    BY <1>5, <1>10, <2>1
  <2> QED
    BY <1>1, <1>3, <1>6, <1>7, <1>8, <1>9, <1>10, <2>2, <2>3 DEF Commits, rec
<1>11. CASE reply[p].next = None /\ Finishing(p, "complete", None)
  <2>1. /\ pc' = [pc EXCEPT ![p] = "finish"] /\ cursor' = [cursor EXCEPT ![p] = None]
        /\ reply' = [reply EXCEPT ![p] = None]
        /\ ending' = [ending EXCEPT ![p] = [status |-> "complete", boundary |-> None]]
    BY <1>11 DEF Finishing, Goto
  <2>2. Apart(p)
    BY <1>5, <1>6, <1>9, <2>1 DEF Apart
  <2>3. pc'[p] = "finish" /\ ending'[p].status = "complete"
    BY <1>5, <2>1
  <2> QED
    BY <1>1, <1>3, <1>6, <1>7, <1>8, <1>9, <1>11, <2>2, <2>3 DEF Commits, rec
<1> QED
  BY <1>10, <1>11 DEF Commit

-----------------------------------------------------------------------------
(* What binds plans, executions and runs *)

Shaped(w) ==
    \E stage, plan, predecessor, row, began :
        w = [stage |-> stage, plan |-> plan, predecessor |-> predecessor, row |-> row,
             began |-> began]

Stored(pls, row, plan) == row \in DOMAIN pls /\ pls[row].plan = plan

(* An execution has the run of its number, the facts when it was checked   *)
(* give its plan, and what it resumes is a paused execution of that plan.  *)
ExecutionStands(pls, exs, rns, e) ==
    LET x == exs[e] IN
    /\ x.run = e /\ x.plan \in DOMAIN pls
    /\ x.began \in Facts /\ Authorized(pls[x.plan].plan, x.began)
    /\ x.predecessor # None =>
          /\ x.predecessor \in DOMAIN exs /\ x.predecessor < e
          /\ exs[x.predecessor].plan = x.plan /\ rns[x.predecessor].status = "paused"

(* An invocation that has checked its plan executes what was authorized;   *)
(* one that has stored it, under the row of that plan.                     *)
WorkStands(pls, exs, rns, w) ==
    /\ Shaped(w) /\ PlanMade(w.plan)
    /\ w.predecessor # None =>
          /\ w.predecessor \in DOMAIN exs /\ w.row = exs[w.predecessor].plan
          /\ Stored(pls, w.row, w.plan)
    /\ w.stage \in {"checked", "stored"} => w.began \in Facts /\ Authorized(w.plan, w.began)
    /\ w.stage = "checked" => w.predecessor = None
    /\ w.stage = "stored" =>
          /\ Stored(pls, w.row, w.plan)
          /\ w.predecessor # None => rns[w.predecessor].status = "paused"

BoundInv ==
    /\ facts \in Facts
    /\ IsList(plans) /\ \A i \in DOMAIN plans : PlanMade(plans[i].plan)
    /\ IsList(executions) /\ Len(executions) = Len(runs)
    /\ \A r \in DOMAIN runs : runs[r].kind = "listing"
    /\ \A e \in DOMAIN executions : ExecutionStands(plans, executions, runs, e)
    /\ DOMAIN work = Process
    /\ \A p \in Process : work[p] = None \/ WorkStands(plans, executions, runs, work[p])

(* What any step leaves of the rows there are. *)
PlansGoOn(pls, pls2) == DOMAIN pls \subseteq DOMAIN pls2 /\ \A i \in DOMAIN pls : pls2[i] = pls[i]

SameExecution(x, y) ==
    /\ y.plan = x.plan /\ y.run = x.run /\ y.predecessor = x.predecessor
    /\ y.began = x.began /\ y.before = x.before

ExecutionsGoOn(exs, exs2) ==
    DOMAIN exs \subseteq DOMAIN exs2 /\ \A e \in DOMAIN exs : SameExecution(exs[e], exs2[e])

RunsGoOn(rns, rns2) ==
    /\ DOMAIN rns \subseteq DOMAIN rns2
    /\ \A r \in DOMAIN rns :
          rns2[r].kind = rns[r].kind /\ (rns[r].status = "paused" => rns2[r].status = "paused")

(* An execution goes on standing when the plans, executions and runs only go on. *)
LEMMA ExecutionStandsOn ==
  ASSUME NEW pls, NEW exs, NEW rns, NEW pls2, NEW exs2, NEW rns2,
         PlansGoOn(pls, pls2), ExecutionsGoOn(exs, exs2), RunsGoOn(rns, rns2),
         DOMAIN exs = DOMAIN rns,
         NEW e \in DOMAIN exs, ExecutionStands(pls, exs, rns, e)
  PROVE  ExecutionStands(pls2, exs2, rns2, e)
<1>1. SameExecution(exs[e], exs2[e])
  BY DEF ExecutionsGoOn
<1>2. /\ exs2[e].run = e /\ exs2[e].plan \in DOMAIN pls2 /\ exs2[e].began \in Facts
      /\ Authorized(pls2[exs2[e].plan].plan, exs2[e].began)
  BY <1>1 DEF ExecutionStands, SameExecution, PlansGoOn
<1>3. ASSUME exs2[e].predecessor # None
      PROVE  /\ exs2[e].predecessor \in DOMAIN exs2 /\ exs2[e].predecessor < e
             /\ exs2[exs2[e].predecessor].plan = exs2[e].plan
             /\ rns2[exs2[e].predecessor].status = "paused"
  <2> DEFINE d == exs[e].predecessor
  <2>1. exs2[e].predecessor = d
    BY <1>1 DEF SameExecution
  <2>2. /\ d \in DOMAIN exs /\ d < e /\ exs[d].plan = exs[e].plan
        /\ rns[d].status = "paused"
    BY <1>3, <2>1 DEF ExecutionStands
  <2> HIDE DEF d
  <2>3. SameExecution(exs[d], exs2[d]) /\ d \in DOMAIN exs2
    BY <2>2 DEF ExecutionsGoOn
  <2>4. rns2[d].status = "paused"
    BY <2>2 DEF RunsGoOn
  <2> QED
    BY <1>1, <2>1, <2>2, <2>3, <2>4 DEF SameExecution
<1> QED
  BY <1>2, <1>3 DEF ExecutionStands

(* What an invocation holds goes on standing when the rows only go on. *)
LEMMA WorkStandsOn ==
  ASSUME NEW pls, NEW exs, NEW rns, NEW pls2, NEW exs2, NEW rns2,
         PlansGoOn(pls, pls2), ExecutionsGoOn(exs, exs2), RunsGoOn(rns, rns2),
         DOMAIN exs = DOMAIN rns,
         NEW w, WorkStands(pls, exs, rns, w)
  PROVE  WorkStands(pls2, exs2, rns2, w)
<1>1. \A row, plan : Stored(pls, row, plan) => Stored(pls2, row, plan)
  BY DEF Stored, PlansGoOn
<1>2. ASSUME w.predecessor # None
      PROVE  /\ w.predecessor \in DOMAIN exs2 /\ w.row = exs2[w.predecessor].plan
             /\ Stored(pls2, w.row, w.plan)
             /\ rns[w.predecessor].status = "paused" => rns2[w.predecessor].status = "paused"
  <2>1. /\ w.predecessor \in DOMAIN exs /\ w.row = exs[w.predecessor].plan
        /\ Stored(pls, w.row, w.plan)
    BY <1>2 DEF WorkStands
  <2>2. SameExecution(exs[w.predecessor], exs2[w.predecessor])
        /\ w.predecessor \in DOMAIN exs2
    BY <2>1 DEF ExecutionsGoOn
  <2>3. rns[w.predecessor].status = "paused" => rns2[w.predecessor].status = "paused"
    BY <2>1 DEF RunsGoOn
  <2> QED
    BY <1>1, <2>1, <2>2, <2>3 DEF SameExecution
<1> QED
  BY <1>1, <1>2, Zenon DEF WorkStands

(* A step that begins no run leaves them bound. *)
LEMMA BoundStays ==
  ASSUME BoundInv, runs \in Seq(Run), runs' \in Seq(Run),
         facts' \in Facts, IsList(plans'), PlansGoOn(plans, plans'),
         \A i \in DOMAIN plans' : PlanMade(plans'[i].plan),
         IsList(executions'), Len(executions') = Len(executions),
         ExecutionsGoOn(executions, executions'),
         Len(runs') = Len(runs), RunsGoOn(runs, runs'),
         DOMAIN work' = Process,
         \A q \in Process : \/ work'[q] = None \/ work'[q] = work[q]
                           \/ WorkStands(plans', executions', runs', work'[q])
  PROVE  BoundInv'
<1>1. DOMAIN executions = 1..Len(executions) /\ DOMAIN executions' = 1..Len(executions)
  BY DEF BoundInv, IsList
<1>2. DOMAIN runs = DOMAIN executions /\ DOMAIN runs' = DOMAIN runs
  BY <1>1 DEF BoundInv
<1>3. \A r \in DOMAIN runs' : runs'[r].kind = "listing"
  BY <1>2 DEF BoundInv, RunsGoOn
<1>4. ASSUME NEW e \in DOMAIN executions'
      PROVE  ExecutionStands(plans', executions', runs', e)
  <2>1. e \in DOMAIN executions /\ ExecutionStands(plans, executions, runs, e)
    BY <1>1, <1>4 DEF BoundInv
  <2> QED
    BY <1>2, <2>1, ExecutionStandsOn
<1>5. ASSUME NEW q \in Process, work'[q] # None
      PROVE  WorkStands(plans', executions', runs', work'[q])
  <2>1. CASE work'[q] = work[q]
    <3>1. WorkStands(plans, executions, runs, work[q])
      BY <1>5, <2>1 DEF BoundInv
    <3>2. WorkStands(plans', executions', runs', work[q])
      BY <1>2, <3>1, WorkStandsOn
    <3> QED
      BY <2>1, <3>2
  <2>2. CASE WorkStands(plans', executions', runs', work'[q])
    BY <2>2
  <2> QED
    BY <1>5, <2>1, <2>2
<1>6. Len(executions') = Len(runs')
  BY DEF BoundInv
<1> QED
  BY <1>3, <1>4, <1>5, <1>6, Zenon DEF BoundInv

(* The rows of the library grow, those of the runs stay. *)
LEMMA Reflexive ==
  /\ \A pls : PlansGoOn(pls, pls)
  /\ \A exs : ExecutionsGoOn(exs, exs)
  /\ \A rns : RunsGoOn(rns, rns)
BY DEF PlansGoOn, ExecutionsGoOn, RunsGoOn, SameExecution

(* A step of an invocation between planning and its run. *)
LEMMA WorkKeeps ==
  ASSUME Inv, BoundInv, UNCHANGED <<vars, facts, executions>>,
         IsList(plans'), PlansGoOn(plans, plans'),
         \A i \in DOMAIN plans' : PlanMade(plans'[i].plan),
         NEW p \in Process, NEW w, Work(p, w),
         w = None \/ WorkStands(plans', executions, runs, w)
  PROVE  BoundInv'
<1>1. runs \in Seq(Run) /\ runs' = runs
  BY DEF Inv, ShapeInv, WorldInv, vars
<1>2. facts' = facts /\ executions' = executions
  OBVIOUS
<1>3. DOMAIN work' = Process /\ \A q \in Process :
         \/ work'[q] = None \/ work'[q] = work[q]
         \/ WorkStands(plans', executions', runs', work'[q])
  BY <1>1, <1>2 DEF BoundInv, Work
<1>4. /\ RunsGoOn(runs, runs') /\ ExecutionsGoOn(executions, executions')
      /\ Len(runs') = Len(runs) /\ Len(executions') = Len(executions)
      /\ runs' \in Seq(Run)
  BY <1>1, <1>2, Reflexive
<1>5. facts' \in Facts /\ IsList(executions')
  BY <1>2 DEF BoundInv
<1> QED
  BY <1>1, <1>3, <1>4, <1>5, BoundStays

(* What changes the facts or the clock, or neither. *)
LEMMA OutsideKeeps ==
  ASSUME Inv, BoundInv, facts' \in Facts, UNCHANGED <<runs, plans, executions, work>>
  PROVE  BoundInv'
<1>1. runs \in Seq(Run) /\ runs' = runs /\ plans' = plans /\ executions' = executions
      /\ work' = work
  BY DEF Inv, ShapeInv, WorldInv
<1>2. /\ RunsGoOn(runs, runs') /\ ExecutionsGoOn(executions, executions')
      /\ Len(runs') = Len(runs) /\ Len(executions') = Len(executions)
      /\ runs' \in Seq(Run) /\ PlansGoOn(plans, plans')
  BY <1>1, Reflexive
<1>3. /\ IsList(plans') /\ \A i \in DOMAIN plans' : PlanMade(plans'[i].plan)
      /\ IsList(executions') /\ DOMAIN work' = Process
  BY <1>1 DEF BoundInv
<1>4. \A q \in Process : \/ work'[q] = None \/ work'[q] = work[q]
                        \/ WorkStands(plans', executions', runs', work'[q])
  BY <1>1
<1> QED
  BY <1>1, <1>2, <1>3, <1>4, BoundStays

(* A step of the run of an invocation. *)
LEMMA OwnRowGoesOn ==
  ASSUME NEW p \in Process, Inv, pc[p] # "idle", NEW new \in Run,
         runs' = [runs EXCEPT ![run[p]] = new], SameChain(runs[run[p]], new)
  PROVE  /\ runs \in Seq(Run) /\ runs' \in Seq(Run) /\ Len(runs') = Len(runs)
         /\ DOMAIN runs' = DOMAIN runs /\ run[p] \in DOMAIN runs /\ runs'[run[p]] = new
         /\ \A r \in DOMAIN runs : r # run[p] => runs'[r] = runs[r]
         /\ RunsGoOn(runs, runs')
<1>1. runs \in Seq(Run) /\ run[p] \in DOMAIN runs /\ runs[run[p]].status = "running"
  BY WorldFacts, WorkFacts
<1>2. /\ runs' \in Seq(Run) /\ Len(runs') = Len(runs) /\ DOMAIN runs' = DOMAIN runs
      /\ runs'[run[p]] = new
      /\ \A r \in DOMAIN runs : r # run[p] => runs'[r] = runs[r]
  BY <1>1
<1>3. RunsGoOn(runs, runs')
  BY <1>1, <1>2 DEF RunsGoOn, SameChain
<1> QED
  BY <1>1, <1>2, <1>3

(* Writing the row of its own run within its chain leaves every binding as it is. *)
LEMMA RunKeepsBound ==
  ASSUME NEW p \in Process, Inv, BoundInv, pc[p] # "idle", NEW new \in Run,
         runs' = [runs EXCEPT ![run[p]] = new], SameChain(runs[run[p]], new),
         facts' \in Facts, UNCHANGED plans, IsList(executions'),
         Len(executions') = Len(executions), ExecutionsGoOn(executions, executions'),
         work' = work \/ Work(p, None)
  PROVE  BoundInv'
<1>1. /\ runs \in Seq(Run) /\ runs' \in Seq(Run) /\ Len(runs') = Len(runs)
      /\ RunsGoOn(runs, runs')
  BY OwnRowGoesOn
<1>2. /\ IsList(plans') /\ \A i \in DOMAIN plans' : PlanMade(plans'[i].plan)
      /\ PlansGoOn(plans, plans')
  BY Reflexive DEF BoundInv
<1>3. DOMAIN work' = Process /\ \A q \in Process :
         \/ work'[q] = None \/ work'[q] = work[q]
         \/ WorkStands(plans', executions', runs', work'[q])
  BY DEF BoundInv, Work
<1> QED
  BY <1>1, <1>2, <1>3, BoundStays

-----------------------------------------------------------------------------
(* The steps of an invocation before its run *)

Filed(w, label, row) == [w EXCEPT !.stage = label, !.row = row]
Cleared(w, began, label) == [w EXCEPT !.began = began, !.stage = label]

(* An invocation that filed its plan's row, field by field. *)
LEMMA FiledFields ==
  ASSUME NEW w, Shaped(w), NEW label, NEW row
  PROVE  Filed(w, label, row) =
            [stage |-> label, plan |-> w.plan, predecessor |-> w.predecessor, row |-> row,
             began |-> w.began]
<1>1. PICK stage, plan, predecessor, old, began :
         w = [stage |-> stage, plan |-> plan, predecessor |-> predecessor, row |-> old,
              began |-> began]
  BY DEF Shaped
<1>2. /\ w.plan = plan /\ w.predecessor = predecessor /\ w.began = began
  BY <1>1
<1> DEFINE one == [w EXCEPT !.stage = label]
<1>3. one =
         [stage |-> label, plan |-> plan, predecessor |-> predecessor, row |-> old,
          began |-> began]
  BY ONLY <1>1
<1>4. Filed(w, label, row) = [one EXCEPT !.row = row]
  BY Zenon DEF Filed
<1> HIDE DEF one
<1>5. [one EXCEPT !.row = row] =
         [stage |-> label, plan |-> plan, predecessor |-> predecessor, row |-> row,
          began |-> began]
  BY ONLY <1>3
<1> QED
  BY <1>2, <1>4, <1>5, Zenon

(* An invocation that was cleared by a check, field by field. *)
LEMMA ClearedFields ==
  ASSUME NEW w, Shaped(w), NEW began, NEW label
  PROVE  Cleared(w, began, label) =
            [stage |-> label, plan |-> w.plan, predecessor |-> w.predecessor, row |-> w.row,
             began |-> began]
<1>1. PICK stage, plan, predecessor, row, old :
         w = [stage |-> stage, plan |-> plan, predecessor |-> predecessor, row |-> row,
              began |-> old]
  BY DEF Shaped
<1>2. /\ w.plan = plan /\ w.predecessor = predecessor /\ w.row = row
  BY <1>1
<1> DEFINE one == [w EXCEPT !.began = began]
<1>3. one =
         [stage |-> stage, plan |-> plan, predecessor |-> predecessor, row |-> row,
          began |-> began]
  BY ONLY <1>1
<1>4. Cleared(w, began, label) = [one EXCEPT !.stage = label]
  BY Zenon DEF Cleared
<1> HIDE DEF one
<1>5. [one EXCEPT !.stage = label] =
         [stage |-> label, plan |-> plan, predecessor |-> predecessor, row |-> row,
          began |-> began]
  BY ONLY <1>3
<1> QED
  BY <1>2, <1>4, <1>5, Zenon

(* An invocation at another stage, field by field. *)
LEMMA StagedFields ==
  ASSUME NEW w, Shaped(w), NEW label
  PROVE  [w EXCEPT !.stage = label] =
            [stage |-> label, plan |-> w.plan, predecessor |-> w.predecessor, row |-> w.row,
             began |-> w.began]
<1>1. PICK stage, plan, predecessor, row, began :
         w = [stage |-> stage, plan |-> plan, predecessor |-> predecessor, row |-> row,
              began |-> began]
  BY DEF Shaped
<1>2. /\ w.plan = plan /\ w.predecessor = predecessor /\ w.row = row /\ w.began = began
  BY <1>1
<1>3. [w EXCEPT !.stage = label] =
         [stage |-> label, plan |-> plan, predecessor |-> predecessor, row |-> row,
          began |-> began]
  BY ONLY <1>1
<1> QED
  BY <1>2, <1>3

(* A dry plan binds nothing. *)
LEMMA PlanKeeps ==
  ASSUME Inv, BoundInv, NEW p \in Process, NEW s, NEW x, Plan(p, s, x)
  PROVE  BoundInv'
<1> DEFINE plan == PlanOf(s, x, facts)
           w == NewWork(plan, None, None)
<1>1. plan.selected # None /\ Work(p, w) /\ UNCHANGED <<vars, facts, executions, plans>>
  BY DEF Plan, stored
<1>2. PlanMade(plan)
  BY <1>1, PlanParts
<1> HIDE DEF plan
<1>3. WorkStands(plans, executions, runs, w)
  BY <1>2 DEF WorkStands, Shaped, NewWork
<1> HIDE DEF w
<1>4. /\ UNCHANGED <<vars, facts, executions>> /\ plans' = plans
  BY <1>1
<1>5. /\ IsList(plans') /\ \A i \in DOMAIN plans' : PlanMade(plans'[i].plan)
      /\ PlansGoOn(plans, plans')
  BY <1>4, Reflexive DEF BoundInv
<1>6. WorkStands(plans', executions, runs, w)
  BY <1>3, <1>4
<1> QED
  BY <1>1, <1>4, <1>5, <1>6, WorkKeeps

(* A plan that resumes an execution is the plan of that execution, made again
   (library/planning.py, replan_library_execution). *)
LEMMA PlanResumeKeeps ==
  ASSUME Inv, BoundInv, NEW p \in Process, NEW e \in DOMAIN executions, PlanResume(p, e)
  PROVE  BoundInv'
<1>1. PICK plan \in Replan(e, facts) : Work(p, NewWork(plan, e, executions[e].plan))
  BY DEF PlanResume
<1> DEFINE w == NewWork(plan, e, executions[e].plan)
<1>2. plan = plans[executions[e].plan].plan
  BY <1>1 DEF Replan
<1>3. executions[e].plan \in DOMAIN plans
  BY DEF BoundInv, ExecutionStands
<1>4. PlanMade(plan)
  BY <1>2, <1>3 DEF BoundInv
<1>5. WorkStands(plans, executions, runs, w)
  BY <1>2, <1>3, <1>4 DEF WorkStands, Shaped, NewWork, Stored
<1>6. Work(p, w)
  BY <1>1
<1> HIDE DEF w
<1>7. UNCHANGED <<vars, facts, executions>> /\ plans' = plans
  BY DEF PlanResume, stored
<1>8. /\ IsList(plans') /\ \A i \in DOMAIN plans' : PlanMade(plans'[i].plan)
      /\ PlansGoOn(plans, plans')
  BY <1>7, Reflexive DEF BoundInv
<1>9. WorkStands(plans', executions, runs, w)
  BY <1>5, <1>7
<1> QED
  BY <1>6, <1>7, <1>8, <1>9, WorkKeeps

(* Storing a plan. *)
LEMMA MaterializeStores ==
  ASSUME BoundInv, NEW p \in Process, NEW label \in {"probing", "stored"},
         work[p] # None, work[p].predecessor = None,
         work[p].stage = "checked" \/ label = "probing", Materialize(p, label)
  PROVE  /\ IsList(plans') /\ PlansGoOn(plans, plans')
         /\ \A i \in DOMAIN plans' : PlanMade(plans'[i].plan)
         /\ \E w : Work(p, w) /\ WorkStands(plans', executions, runs, w)
<1> DEFINE old == work[p]
           W(i) == Filed(old, label, i)
<1>1. WorkStands(plans, executions, runs, old)
  BY DEF BoundInv
<1>2. ASSUME NEW i
      PROVE  W(i) = [stage |-> label, plan |-> old.plan, predecessor |-> old.predecessor,
                     row |-> i, began |-> old.began]
  <2>1. Shaped(old)
    BY <1>1 DEF WorkStands
  <2> HIDE DEF old
  <2> QED
    BY <2>1, FiledFields, Zenon
<1> HIDE DEF W
<1>3. ASSUME NEW i, NEW pls, Stored(pls, i, old.plan)
      PROVE  WorkStands(pls, executions, runs, W(i))
  <2>1. Shaped(W(i))
    BY <1>2 DEF Shaped
  <2>2. /\ W(i).stage = label /\ W(i).plan = old.plan /\ W(i).predecessor = None
        /\ W(i).row = i /\ W(i).began = old.began
    BY <1>2
  <2>3. PlanMade(old.plan)
        /\ (label = "stored" => old.began \in Facts /\ Authorized(old.plan, old.began))
    BY <1>1 DEF WorkStands
  <2> QED
    BY <1>3, <2>1, <2>2, <2>3 DEF WorkStands
<1>4. CASE /\ plans' = Append(plans, [plan |-> old.plan, at |-> clock])
           /\ Work(p, W(Len(plans) + 1))
  <2> DEFINE row == [plan |-> old.plan, at |-> clock]
  <2>1. row.plan = old.plan
    OBVIOUS
  <2> HIDE DEF row
  <2>2. plans' = Append(plans, row) /\ IsList(plans)
    BY <1>4 DEF row, BoundInv
  <2>3. /\ IsList(plans') /\ DOMAIN plans = 1..Len(plans) /\ Len(plans) \in Nat
        /\ DOMAIN plans' = 1..Len(plans) + 1
        /\ \A i \in DOMAIN plans : plans'[i] = plans[i]
        /\ plans'[Len(plans) + 1] = row
    BY <2>2, Appended
  <2>4. PlansGoOn(plans, plans')
    BY <2>3 DEF PlansGoOn
  <2>5. ASSUME NEW i \in DOMAIN plans'
        PROVE  PlanMade(plans'[i].plan)
    <3>1. CASE i \in DOMAIN plans
      BY <2>3, <3>1 DEF BoundInv
    <3>2. CASE i = Len(plans) + 1
      BY <1>1, <2>1, <2>3, <3>2 DEF WorkStands
    <3> QED
      BY <2>3, <3>1, <3>2
  <2>6. Stored(plans', Len(plans) + 1, old.plan)
    BY <2>1, <2>3 DEF Stored
  <2>7. WorkStands(plans', executions, runs, W(Len(plans) + 1))
    BY <1>3, <2>6
  <2> QED
    BY <1>4, <2>3, <2>4, <2>5, <2>7
<1>5. ASSUME plans' = plans, NEW i \in DOMAIN plans,
             plans[i] = [plan |-> old.plan, at |-> clock], Work(p, W(i))
      PROVE  /\ IsList(plans') /\ PlansGoOn(plans, plans')
             /\ \A j \in DOMAIN plans' : PlanMade(plans'[j].plan)
             /\ \E w : Work(p, w) /\ WorkStands(plans', executions, runs, w)
  <2>1. Stored(plans, i, old.plan)
    BY <1>5 DEF Stored
  <2>2. WorkStands(plans', executions, runs, W(i))
    BY <1>3, <1>5, <2>1
  <2>3. /\ IsList(plans') /\ PlansGoOn(plans, plans')
        /\ \A j \in DOMAIN plans' : PlanMade(plans'[j].plan)
    BY <1>5, Reflexive DEF BoundInv
  <2> QED
    BY <1>5, <2>2, <2>3
<1> QED
  BY <1>4, <1>5 DEF Materialize, W, Filed

(* Filing the plan of a probe keeps what is bound. *)
LEMMA ProbeKeeps ==
  ASSUME Inv, BoundInv, NEW p \in Process, Probe(p)
  PROVE  BoundInv'
<1>1. /\ work[p] # None /\ work[p].predecessor = None /\ Materialize(p, "probing")
      /\ UNCHANGED <<vars, facts, executions>>
  BY DEF Probe, At
<1> QED
  BY <1>1, MaterializeStores, WorkKeeps

(* Filing the plan that was checked keeps what is bound. *)
LEMMA StoreKeeps ==
  ASSUME Inv, BoundInv, NEW p \in Process, Store(p)
  PROVE  BoundInv'
<1>1. /\ work[p] # None /\ work[p].stage = "checked" /\ Materialize(p, "stored")
      /\ UNCHANGED <<vars, facts, executions>>
  BY DEF Store, At
<1>2. work[p].predecessor = None
  BY <1>1 DEF BoundInv, WorkStands
<1> QED
  BY <1>1, <1>2, MaterializeStores, WorkKeeps

(* An invocation that ends before it has an execution leaves the rows alone. *)
LEMMA LeavingKeeps ==
  ASSUME Inv, BoundInv, NEW p \in Process, ProbeAnswer(p) \/ Abandon(p)
  PROVE  BoundInv'
<1>1. UNCHANGED <<vars, facts, executions>> /\ plans' = plans /\ Work(p, None)
  BY DEF ProbeAnswer, Abandon, stored
<1>2. /\ IsList(plans') /\ \A i \in DOMAIN plans' : PlanMade(plans'[i].plan)
      /\ PlansGoOn(plans, plans')
  BY <1>1, Reflexive DEF BoundInv
<1> QED
  BY <1>1, <1>2, WorkKeeps

(* A check clears an invocation only when the plan is what the facts give. *)
LEMMA CheckKeeps ==
  ASSUME Inv, BoundInv, NEW p \in Process, Check(p)
  PROVE  BoundInv'
<1> DEFINE old == work[p]
           label == IF old.predecessor = None THEN "checked" ELSE "stored"
           w == Cleared(old, facts, label)
<1>1. /\ old # None /\ UNCHANGED <<vars, facts, executions>> /\ plans' = plans /\ Work(p, w)
      /\ ExecutionRevision(FreshPlan(old.plan, facts)) = ExecutionRevision(old.plan)
      /\ old.predecessor # None => runs[executions[old.predecessor].run].status = "paused"
  BY DEF Check, At, stored, Cleared
<1>2. WorkStands(plans, executions, runs, old)
  BY <1>1 DEF BoundInv
<1>3. PlanMade(old.plan) /\ Authorized(old.plan, facts)
  BY <1>1, <1>2, RevisionAuthorizes DEF WorkStands
<1>4. w = [stage |-> label, plan |-> old.plan, predecessor |-> old.predecessor,
           row |-> old.row, began |-> facts]
  <2>1. Shaped(old)
    BY <1>2 DEF WorkStands
  <2> QED
    BY <2>1, ClearedFields, Zenon
<1>5. old.predecessor # None =>
         /\ old.predecessor \in DOMAIN executions /\ old.row = executions[old.predecessor].plan
         /\ Stored(plans, old.row, old.plan) /\ runs[old.predecessor].status = "paused"
  <2>1. old.predecessor # None => old.predecessor \in DOMAIN executions
    BY <1>2 DEF WorkStands
  <2>2. old.predecessor # None => executions[old.predecessor].run = old.predecessor
    BY <2>1 DEF BoundInv, ExecutionStands
  <2> QED
    BY <1>1, <1>2, <2>1, <2>2 DEF WorkStands
<1>6. facts \in Facts
  BY DEF BoundInv
<1>7. Shaped(w)
  <2> HIDE DEF w, label
  <2> QED
    BY <1>4, Zenon DEF Shaped
<1>8. /\ w.stage = label /\ w.plan = old.plan /\ w.predecessor = old.predecessor
      /\ w.row = old.row /\ w.began = facts
  BY <1>4
<1>9. /\ label = "checked" => old.predecessor = None
      /\ label = "stored" => old.predecessor # None
  OBVIOUS
<1> HIDE DEF w, label, old
<1>10. WorkStands(plans, executions, runs, w)
  BY <1>3, <1>5, <1>6, <1>7, <1>8, <1>9 DEF WorkStands
<1>11. WorkStands(plans', executions, runs, w)
  BY <1>1, <1>10
<1>12. /\ IsList(plans') /\ \A i \in DOMAIN plans' : PlanMade(plans'[i].plan)
      /\ PlansGoOn(plans, plans')
  BY <1>1, Reflexive DEF BoundInv
<1> QED
  BY <1>1, <1>11, <1>12, WorkKeeps

-----------------------------------------------------------------------------
(* The steps of an invocation in its run *)

(* A run begins with nothing done, where its predecessor left off or anew. *)
Begins(p, rec, from) ==
    /\ pc[p] = "idle" /\ runs' = Append(runs, rec) /\ rec \in Run
    /\ rec.kind = "listing" /\ rec.status = "running" /\ rec.checkpoint = None
    /\ pc'[p] = "next" /\ run'[p] = Len(runs) + 1 /\ cursor'[p] = from
    /\ UNCHANGED <<provider, spent>> /\ Apart(p)

GoesOnFrom(rec, from, r) ==
    /\ r \in DOMAIN runs /\ Resumable(r)
    /\ rec.since = runs[r].since /\ rec.removed = runs[r].removed /\ from = runs[r].checkpoint

(* Binding an execution begins a run: from the start with no predecessor, and
   from the predecessor's checkpoint, of its chain, with one. *)
LEMMA BindDoes ==
  ASSUME Inv, BoundInv, NEW p \in Process, Bind(p)
  PROVE  \E rec, from :
            /\ Begins(p, rec, from)
            /\ IF work[p].predecessor = None
               THEN from = None /\ rec.since = live /\ rec.removed = gone
               ELSE GoesOnFrom(rec, from, work[p].predecessor)
<1>1. /\ pc \in [Process -> Label] /\ DOMAIN cursor = Process /\ DOMAIN run = Process
      /\ live \in SUBSET Post /\ gone \in SUBSET Post /\ runs \in Seq(Run)
  BY DEF Inv, ShapeInv, LocalInv, WorldInv
<1>2. ASSUME NEW since \in SUBSET Post, NEW removed \in SUBSET Post, NEW from,
             Begin(p, NewRun("listing", since, removed), from, "next")
      PROVE  /\ Begins(p, NewRun("listing", since, removed), from)
             /\ NewRun("listing", since, removed).since = since
             /\ NewRun("listing", since, removed).removed = removed
  <2> DEFINE rec == NewRun("listing", since, removed)
  <2>1. /\ rec \in Run /\ rec.kind = "listing" /\ rec.status = "running"
        /\ rec.checkpoint = None /\ rec.since = since /\ rec.removed = removed
    BY NewRunFields
  <2> HIDE DEF rec
  <2>2. /\ pc[p] = "idle" /\ runs' = Append(runs, rec) /\ run' = [run EXCEPT ![p] = Len(runs) + 1]
        /\ cursor' = [cursor EXCEPT ![p] = from] /\ pc' = [pc EXCEPT ![p] = "next"]
        /\ UNCHANGED <<provider, spent, reply, ending>>
    BY <1>2 DEF Begin, Goto, rec
  <2>3. Apart(p)
    BY <1>1, <2>2 DEF Apart
  <2> QED
    BY <1>1, <2>1, <2>2, <2>3 DEF Begins, rec
<1>3. CASE work[p].predecessor = None
  <2>1. Begin(p, NewRun("listing", live, gone), None, "next")
    BY <1>3 DEF Bind, Synchronize
  <2> QED
    BY <1>1, <1>2, <1>3, <2>1
<1>4. CASE work[p].predecessor # None
  <2> DEFINE d == work[p].predecessor
  <2>1. At(p, "stored") /\ Resume(p, executions[d].run)
    BY <1>4 DEF Bind
  <2>2. d \in DOMAIN executions
    BY <1>4, <2>1 DEF BoundInv, WorkStands, At
  <2>3. executions[d].run = d /\ DOMAIN executions = DOMAIN runs
    BY <1>1, <2>2 DEF BoundInv, ExecutionStands, IsList
  <2>4. /\ d \in DOMAIN runs /\ Resumable(d)
        /\ Begin(p, NewRun("listing", runs[d].since, runs[d].removed), runs[d].checkpoint, "next")
    BY <2>1, <2>2, <2>3 DEF Resume
  <2>5. runs[d].since \in SUBSET Post /\ runs[d].removed \in SUBSET Post
    BY <1>1, <2>4, RunFields
  <2> QED
    BY <1>2, <1>4, <2>4, <2>5 DEF GoesOnFrom
<1> QED
  BY <1>3, <1>4

(* The execution that an invocation is running is that of its run. *)
LEMMA RunningIs ==
  ASSUME Inv, BoundInv, NEW p \in Process, pc[p] # "idle"
  PROVE  /\ Running(p) = run[p] /\ run[p] \in DOMAIN executions /\ run[p] \in DOMAIN runs
         /\ DOMAIN executions = DOMAIN runs
         /\ runs[run[p]].kind = "listing" /\ runs[run[p]].status = "running"
<1>1. run[p] \in DOMAIN runs /\ runs \in Seq(Run) /\ runs[run[p]].status = "running"
  BY WorldFacts, WorkFacts
<1>2. DOMAIN executions = DOMAIN runs
  BY <1>1 DEF BoundInv, IsList
<1>3. \A e \in DOMAIN executions : executions[e].run = e
  BY DEF BoundInv, ExecutionStands
<1>4. executions[run[p]].run = run[p] /\ run[p] \in DOMAIN executions
  BY <1>1, <1>2, <1>3
<1>5. Running(p) \in DOMAIN executions /\ executions[Running(p)].run = run[p]
  BY <1>4 DEF Running
<1> QED
  BY <1>1, <1>2, <1>3, <1>4, <1>5 DEF BoundInv

(* The execution that is bound has the number of its run, the plan that was
   checked and a predecessor that was paused. *)
LEMMA BindKeeps ==
  ASSUME Inv, BoundInv, NEW p \in Process, Bind(p)
  PROVE  BoundInv'
<1> DEFINE old == work[p]
           x == NewExecution(p)
           w == [old EXCEPT !.stage = "running"]
           n == Len(runs) + 1
<1>1. PICK rec, from : Begins(p, rec, from)
  BY BindDoes
<1>2. /\ old # None /\ old.stage = "stored" /\ executions' = Append(executions, x)
      /\ Work(p, w) /\ facts' = facts /\ plans' = plans
  BY DEF Bind, At
<1>3. WorkStands(plans, executions, runs, old)
  BY <1>2 DEF BoundInv
<1>4. /\ x.plan = old.row /\ x.run = n /\ x.predecessor = old.predecessor
      /\ x.began = old.began
  BY DEF NewExecution
<1>5. /\ runs \in Seq(Run) /\ IsList(executions) /\ Len(executions) = Len(runs)
      /\ runs' = Append(runs, rec) /\ rec \in Run /\ rec.kind = "listing"
  BY <1>1, WorldFacts DEF BoundInv, Begins
<1>6. /\ Len(runs) \in Nat /\ DOMAIN runs = 1..Len(runs) /\ runs' \in Seq(Run)
      /\ Len(runs') = n /\ DOMAIN runs' = 1..n /\ runs'[n] = rec
      /\ \A r \in DOMAIN runs : runs'[r] = runs[r]
  BY <1>5
<1>7. /\ IsList(executions') /\ Len(executions') = n /\ DOMAIN executions' = 1..n
      /\ \A e \in DOMAIN executions : executions'[e] = executions[e]
      /\ executions'[n] = x /\ DOMAIN executions = 1..Len(runs)
  <2> HIDE DEF x
  <2> QED
    BY <1>2, <1>5, Appended
<1>8. /\ PlansGoOn(plans, plans') /\ ExecutionsGoOn(executions, executions')
      /\ RunsGoOn(runs, runs') /\ DOMAIN executions = DOMAIN runs
  <2>1. PlansGoOn(plans, plans')
    BY <1>2, Reflexive
  <2>2. ExecutionsGoOn(executions, executions')
    BY <1>6, <1>7 DEF ExecutionsGoOn, SameExecution
  <2>3. RunsGoOn(runs, runs')
    BY <1>6 DEF RunsGoOn
  <2> QED
    BY <1>6, <1>7, <2>1, <2>2, <2>3
<1>9. ASSUME NEW e \in DOMAIN executions'
      PROVE  ExecutionStands(plans', executions', runs', e)
  <2>1. CASE e \in DOMAIN executions
    <3>1. ExecutionStands(plans, executions, runs, e)
      BY <2>1 DEF BoundInv
    <3> QED
      BY <1>8, <2>1, <3>1, ExecutionStandsOn
  <2>2. CASE e = n
    <3> DEFINE d == old.predecessor
    <3>1. /\ old.began \in Facts /\ Authorized(old.plan, old.began)
          /\ old.row \in DOMAIN plans /\ plans[old.row].plan = old.plan
      BY <1>2, <1>3 DEF WorkStands, Stored
    <3>2. d # None => d \in DOMAIN executions /\ old.row = executions[d].plan
                      /\ runs[d].status = "paused"
      BY <1>2, <1>3 DEF WorkStands
    <3> HIDE DEF x, d, old
    <3>3. d # None => /\ d \in 1..n /\ d < n /\ executions'[d].plan = old.row
                      /\ runs'[d].status = "paused"
      BY <1>6, <1>7, <1>8, <3>2
    <3>4. /\ executions'[e] = x /\ x.plan = old.row /\ x.run = n /\ x.predecessor = d
          /\ x.began = old.began
      BY <1>4, <1>7, <2>2 DEF d
    <3> QED
      BY <1>2, <1>7, <2>2, <3>1, <3>3, <3>4 DEF ExecutionStands
  <2>3. e \in DOMAIN executions \/ e = n
    BY <1>6, <1>7, <1>9
  <2> QED
    BY <2>1, <2>2, <2>3
<1>10. WorkStands(plans', executions', runs', w)
  <2>1. Shaped(old)
    BY <1>3 DEF WorkStands
  <2>2. w = [stage |-> "running", plan |-> old.plan, predecessor |-> old.predecessor,
             row |-> old.row, began |-> old.began]
    BY <2>1, StagedFields, Zenon
  <2>3. WorkStands(plans', executions', runs', old)
    BY <1>3, <1>8, WorkStandsOn
  <2>4. /\ w.stage = "running" /\ w.plan = old.plan /\ w.predecessor = old.predecessor
        /\ w.row = old.row
    BY <2>2
  <2>5. Shaped(w)
    <3> HIDE DEF w
    <3> QED
      BY <2>2, Zenon DEF Shaped
  <2> HIDE DEF w, old
  <2> QED
    BY <2>3, <2>4, <2>5 DEF WorkStands
<1> HIDE DEF w, x
<1>11. DOMAIN work' = Process /\ \A q \in Process :
          \/ work'[q] = work[q] \/ WorkStands(plans', executions', runs', work'[q])
  BY <1>2, <1>10 DEF BoundInv, Work
<1>12. \A q \in Process : work'[q] = None \/ WorkStands(plans', executions', runs', work'[q])
  <2>1. ASSUME NEW q \in Process, work'[q] # None, work'[q] = work[q]
        PROVE  WorkStands(plans', executions', runs', work[q])
    <3>1. WorkStands(plans, executions, runs, work[q])
      BY <2>1 DEF BoundInv
    <3> QED
      BY <1>8, <3>1, WorkStandsOn
  <2> QED
    BY <1>11, <2>1
<1>13. \A r \in DOMAIN runs' : runs'[r].kind = "listing"
  <2>1. \A r \in DOMAIN runs : runs[r].kind = "listing"
    BY DEF BoundInv
  <2>2. \A r \in 1..n : r \in DOMAIN runs \/ r = n
    BY <1>6
  <2> QED
    BY <1>5, <1>6, <2>1, <2>2
<1>14. /\ facts' \in Facts /\ IsList(plans')
       /\ \A i \in DOMAIN plans' : PlanMade(plans'[i].plan)
  BY <1>2 DEF BoundInv
<1>15. Len(executions') = Len(runs')
  BY <1>6, <1>7
<1> QED
  BY <1>7, <1>9, <1>11, <1>12, <1>13, <1>14, <1>15 DEF BoundInv

(* A killed invocation leaves its row as it is. *)
Dies(p, new) ==
    /\ pc'[p] = "idle" /\ run'[p] = None
    /\ new.status = runs[run[p]].status /\ new.counts = runs[run[p]].counts

(* A killed invocation's row says no more than that it was killed. *)
LEMMA KillDoes ==
  ASSUME Inv, NEW p \in Process, Kill(p)
  PROVE  \E new : WritesOwn(p, new) /\ Dies(p, new)
<1> DEFINE rec == runs[run[p]]
           new == [rec EXCEPT !.killed = TRUE]
<1>1. /\ pc[p] # "idle" /\ runs' = [runs EXCEPT ![run[p]] = new] /\ UNCHANGED provider
      /\ Leave(p)
  BY DEF Kill
<1>2. rec \in Run
  BY <1>1, WorkFacts
<1>3. /\ new \in Run /\ SameChain(rec, new) /\ new.checkpoint = rec.checkpoint
      /\ new.status = rec.status /\ new.counts = rec.counts
  BY <1>2, KilledFields
<1> HIDE DEF new
<1>4. /\ pc \in [Process -> Label] /\ DOMAIN cursor = Process /\ DOMAIN spent = Process
      /\ DOMAIN reply = Process /\ DOMAIN ending = Process /\ DOMAIN run = Process
  BY DEF Inv, ShapeInv, LocalInv
<1>5. Apart(p) /\ pc'[p] = "idle" /\ run'[p] = None
  BY <1>1, <1>4 DEF Apart, Leave, Goto
<1> QED
  BY <1>1, <1>3, <1>5 DEF WritesOwn, Dies

(* A refused page ends the run like any transaction that fails. *)
LEMMA ClashFails ==
  ASSUME NEW p, Clash(p)
  PROVE  BetweenCommits(p) /\ pc[p] = "commit"
BY DEF Clash, BetweenCommits, CommitFails

(* An invocation at a step of its run has one. *)
LEMMA StepWorks ==
  ASSUME NEW p, BetweenCommits(p) \/ Commit(p)
  PROVE  pc[p] # "idle"
BY DEF BetweenCommits, Exhausted, NextPage, ReserveRefused, Reserve, Fetch, FetchFails,
       Retain, RetainFails, Admit, CommitLate, CommitFails, Finish, EnrichRaises, EnrichFetch,
       EnrichRecord, Commit

(* A step of the synchronization between two pages keeps what is bound. *)
LEMMA RunStepKeeps ==
  ASSUME Inv, BoundInv, NEW p \in Process, RunStep(p)
  PROVE  BoundInv'
<1>1. /\ BetweenCommits(p) /\ facts' = facts /\ executions' = executions /\ plans' = plans
      /\ (work' = work \/ Work(p, None))
  BY DEF RunStep, stored, Work
<1>2. pc[p] # "idle" /\ runs[run[p]].kind = "listing"
  BY <1>1, StepWorks, RunningIs
<1>3. PICK new : WritesOwn(p, new)
  BY <1>1, <1>2, RunStepDoes
<1>4. /\ facts' \in Facts /\ IsList(executions') /\ Len(executions') = Len(executions)
      /\ ExecutionsGoOn(executions, executions')
  BY <1>1, Reflexive DEF BoundInv
<1> QED
  BY <1>1, <1>2, <1>3, <1>4, RunKeepsBound DEF WritesOwn

(* Storing a page of the target keeps what is bound. *)
LEMMA CommitListedKeeps ==
  ASSUME Inv, BoundInv, NEW p \in Process, CommitListed(p)
  PROVE  BoundInv'
<1>1. /\ Commit(p) /\ executions' = executions /\ plans' = plans /\ work' = work
      /\ facts' = AfterPage(reply[p].posts, work[p].plan.selected.target)
  BY DEF CommitListed
<1>2. pc[p] # "idle"
  BY <1>1, StepWorks
<1>3. PICK new : Commits(p, new)
  BY <1>1, CommitDoes
<1>4. /\ facts' \in Facts /\ IsList(executions') /\ Len(executions') = Len(executions)
      /\ ExecutionsGoOn(executions, executions')
  BY <1>1, Reflexive, PageKeepsFacts DEF BoundInv
<1> QED
  BY <1>1, <1>2, <1>3, <1>4, RunKeepsBound DEF Commits

(* The executions when a page of one is refused. *)
LEMMA ClashMarks ==
  ASSUME Inv, BoundInv, NEW p \in Process, Clash(p)
  PROVE  /\ IsList(executions') /\ Len(executions') = Len(executions)
         /\ DOMAIN executions' = DOMAIN executions
         /\ ExecutionsGoOn(executions, executions')
         /\ \A e \in DOMAIN executions : e # run[p] => executions'[e] = executions[e]
<1> DEFINE r == run[p]
           x == [executions[r] EXCEPT !.clash = TRUE]
<1>1. Running(p) = r /\ r \in DOMAIN executions
  BY ClashFails, RunningIs
<1>2. executions' = [executions EXCEPT ![r] = x]
  BY <1>1 DEF Clash
<1>3. SameExecution(executions[r], x)
  BY DEF SameExecution
<1> HIDE DEF x, r
<1>4. IsList(executions)
  BY DEF BoundInv
<1>5. /\ IsList(executions') /\ Len(executions') = Len(executions)
      /\ DOMAIN executions' = DOMAIN executions /\ executions'[r] = x
      /\ \A e \in DOMAIN executions : e # r => executions'[e] = executions[e]
  BY <1>1, <1>2, <1>4, Updated
<1>6. ExecutionsGoOn(executions, executions')
  BY <1>3, <1>5 DEF ExecutionsGoOn, SameExecution
<1> QED
  BY <1>5, <1>6 DEF r

(* A page whose posts clash with stored ones fails the run and changes no binding. *)
LEMMA ClashKeeps ==
  ASSUME Inv, BoundInv, NEW p \in Process, Clash(p)
  PROVE  BoundInv'
<1>1. /\ BetweenCommits(p) /\ facts' = facts /\ plans' = plans /\ work' = work
  BY ClashFails DEF Clash
<1>2. pc[p] # "idle" /\ runs[run[p]].kind = "listing"
  BY <1>1, StepWorks, RunningIs
<1>3. PICK new : WritesOwn(p, new)
  BY <1>1, <1>2, RunStepDoes
<1>4. /\ facts' \in Facts /\ IsList(executions') /\ Len(executions') = Len(executions)
      /\ ExecutionsGoOn(executions, executions')
  BY <1>1, ClashMarks DEF BoundInv
<1> QED
  BY <1>1, <1>2, <1>3, <1>4, RunKeepsBound DEF WritesOwn

(* Killing an invocation in its run leaves the binding in the rows. *)
LEMMA RunKilledKeeps ==
  ASSUME Inv, BoundInv, NEW p \in Process, RunKilled(p)
  PROVE  BoundInv'
<1>1. /\ Kill(p) /\ facts' = facts /\ executions' = executions /\ plans' = plans
      /\ Work(p, None)
  BY DEF RunKilled, stored
<1>2. pc[p] # "idle"
  BY <1>1 DEF Kill
<1>3. PICK new : WritesOwn(p, new)
  BY <1>1, KillDoes
<1>4. /\ facts' \in Facts /\ IsList(executions') /\ Len(executions') = Len(executions)
      /\ ExecutionsGoOn(executions, executions')
  BY <1>1, Reflexive DEF BoundInv
<1> QED
  BY <1>1, <1>2, <1>3, <1>4, RunKeepsBound DEF WritesOwn

-----------------------------------------------------------------------------
(* Every step *)

(* A step of the library is a step of RemoteSync, or none of it. *)
LEMMA LibrarySteps ==
  ASSUME Inv, BoundInv, [LibraryNext]_allVars
  PROVE  [Next]_vars
<1>1. CASE UNCHANGED vars
  BY <1>1
<1>2. ASSUME NEW p \in Process, Bind(p)
      PROVE  Next
  <2>1. CASE work[p].predecessor = None
    BY <1>2, <2>1 DEF Bind, Next
  <2>2. CASE work[p].predecessor # None
    <3> DEFINE d == work[p].predecessor
    <3>1. WorkStands(plans, executions, runs, work[p])
      BY <1>2 DEF Bind, At, BoundInv
    <3>2. d \in DOMAIN executions
      BY <2>2, <3>1 DEF WorkStands
    <3>3. executions[d].run = d /\ runs \in Seq(Run) /\ IsList(executions)
          /\ Len(executions) = Len(runs)
      BY <3>2, WorldFacts DEF BoundInv, ExecutionStands
    <3>4. d \in DOMAIN runs
      BY <3>2, <3>3 DEF IsList
    <3>5. Resume(p, d)
      BY <1>2, <2>2, <3>3 DEF Bind
    <3> QED
      BY <3>4, <3>5 DEF Next
  <2> QED
    BY <2>1, <2>2
<1>3. ASSUME NEW p \in Process, RunGoesOn(p) \/ RunExpires(p) \/ RunKilled(p)
      PROVE  Next
  <2>1. Clash(p) => BetweenCommits(p)
    BY ClashFails
  <2>2. Step(p) \/ Expire(p) \/ Kill(p)
    BY <1>3, <2>1 DEF RunGoesOn, RunStep, CommitListed, RunExpires, RunKilled, Step
  <2> QED
    BY <2>2 DEF Next
<1>4. ASSUME Publish \/ \E q \in Post : Remove(q)
      PROVE  Next
  BY <1>4 DEF Next
<1>5. ASSUME NEW p \in Process,
             \/ Probe(p) \/ ProbeAnswer(p) \/ Check(p) \/ Store(p) \/ Abandon(p)
      PROVE  UNCHANGED vars
  BY <1>5 DEF Probe, ProbeAnswer, Check, Store, Abandon
<1>6. Tick \/ Fact => UNCHANGED vars
  BY DEF Tick, Fact
<1>7. UNCHANGED allVars => UNCHANGED vars
  BY DEF allVars
<1>8. ASSUME NEW p \in Process, Invocation(p)
      PROVE  Next \/ UNCHANGED vars
  BY <1>2, <1>3, <1>5, <1>8, Zenon DEF Invocation
<1>9. ASSUME NEW p \in Process, \/ \E x \in Asked : Plan(p, x[1], x[2])
                               \/ \E e \in DOMAIN executions : PlanResume(p, e)
      PROVE  UNCHANGED vars
  BY <1>9 DEF Plan, PlanResume
<1>10. LibraryNext => Next \/ UNCHANGED vars
  BY <1>4, <1>6, <1>8, <1>9, Zenon DEF LibraryNext
<1> QED
  BY <1>7, <1>10

(* Every step of the library expansion keeps what is bound. *)
LEMMA BoundSteps ==
  ASSUME Inv, BoundInv, [LibraryNext]_allVars
  PROVE  BoundInv'
<1>1. CASE UNCHANGED allVars
  <2>1. facts' = facts /\ UNCHANGED <<runs, plans, executions, work>>
    BY <1>1 DEF allVars, vars, libraryVars
  <2> QED
    BY <2>1, OutsideKeeps DEF BoundInv
<1>2. CASE Tick
  <2>1. facts' = facts /\ UNCHANGED <<runs, plans, executions, work>>
    BY <1>2 DEF Tick, vars
  <2> QED
    BY <2>1, OutsideKeeps DEF BoundInv
<1>3. CASE Fact
  <2>1. UNCHANGED <<runs, plans, executions, work>>
    BY <1>3 DEF Fact, vars
  <2>2. facts' \in Facts
    BY <1>3, FactKeepsFacts DEF BoundInv
  <2> QED
    BY <2>1, <2>2, OutsideKeeps
<1>4. CASE (Publish \/ \E q \in Post : Remove(q)) /\ UNCHANGED libraryVars
  <2>1. facts' = facts /\ UNCHANGED <<runs, plans, executions, work>>
    BY <1>4 DEF Publish, Remove, libraryVars
  <2> QED
    BY <2>1, OutsideKeeps DEF BoundInv
<1>5. ASSUME NEW p \in Process, RunExpires(p)
      PROVE  BoundInv'
  <2>1. facts' = facts /\ UNCHANGED <<runs, plans, executions, work>>
    BY <1>5 DEF RunExpires, Expire, libraryVars
  <2> QED
    BY <2>1, OutsideKeeps DEF BoundInv
<1>6. ASSUME NEW p \in Process, \/ \E x \in Asked : Plan(p, x[1], x[2])
                               \/ \E e \in DOMAIN executions : PlanResume(p, e)
      PROVE  BoundInv'
  BY <1>6, PlanKeeps, PlanResumeKeeps
<1>7. ASSUME NEW p \in Process, \/ Probe(p) \/ ProbeAnswer(p) \/ Check(p) \/ Store(p)
                               \/ Bind(p) \/ Abandon(p)
      PROVE  BoundInv'
  BY <1>7, ProbeKeeps, LeavingKeeps, CheckKeeps, StoreKeeps, BindKeeps
<1>8. ASSUME NEW p \in Process, RunGoesOn(p) \/ RunKilled(p)
      PROVE  BoundInv'
  BY <1>8, RunStepKeeps, CommitListedKeeps, ClashKeeps, RunKilledKeeps DEF RunGoesOn
<1> QED
  BY <1>1, <1>2, <1>3, <1>4, <1>5, <1>6, <1>7, <1>8, Zenon DEF LibraryNext, Invocation

(* At first nothing is bound. *)
LEMMA LibraryInitBinds ==
  ASSUME LibraryInit
  PROVE  Inv /\ BoundInv
<1>1. Inv
  BY InitStands DEF LibraryInit
<1>2. /\ plans = <<>> /\ executions = <<>> /\ runs = <<>> /\ facts \in Facts
      /\ work = [p \in Process |-> None]
  BY FactsAssumption DEF LibraryInit, LibraryIdle, Init
<1>3. IsList(plans) /\ IsList(executions)
  BY <1>2 DEF IsList
<1> QED
  BY <1>1, <1>2, <1>3 DEF BoundInv

(* An expansion is a synchronization: every step it takes is one of        *)
(* RemoteSync, so what holds of the runs there holds of its runs.          *)
THEOREM ExpansionSynchronizes == LibrarySpec => Init /\ [][Next]_vars
<1>1. LibraryInit => Init /\ Inv /\ BoundInv
  BY LibraryInitBinds DEF LibraryInit
<1>2. Inv /\ BoundInv /\ [LibraryNext]_allVars => [Next]_vars
  BY LibrarySteps
<1>3. Inv /\ [Next]_vars => Inv'
  BY StepStands
<1>4. Inv /\ BoundInv /\ [LibraryNext]_allVars => BoundInv'
  BY BoundSteps
<1> QED
  BY <1>1, <1>2, <1>3, <1>4, PTL DEF LibrarySpec

(* In every state each execution has the run of its number, a stored plan that
   the facts authorized when it was checked, and if it has a predecessor, an
   earlier execution of the same plan that paused (library/service.py, _execute
   and bind_run). *)
THEOREM ExpansionsAreBound == LibrarySpec => [](Inv /\ BoundInv)
<1>1. LibraryInit => Inv /\ BoundInv
  BY LibraryInitBinds
<1>2. Inv /\ BoundInv /\ [LibraryNext]_allVars => (Inv /\ BoundInv)'
  BY LibrarySteps, StepStands, BoundSteps
<1> QED
  BY <1>1, <1>2, PTL DEF LibrarySpec

(* What is bound is more than that executions stand. *)
LEMMA BoundStands ==
  ASSUME Inv, BoundInv
  PROVE  ExpansionStands
<1>1. runs \in Seq(Run) /\ DOMAIN executions = DOMAIN runs
  BY WorldFacts DEF BoundInv, IsList
<1>2. \A e \in DOMAIN executions : ExecutionStands(plans, executions, runs, e)
  BY DEF BoundInv
<1>3. ASSUME NEW e \in DOMAIN executions
      PROVE  /\ PlanMade(plans[executions[e].plan].plan) /\ executions[e].began \in Facts
             /\ Authorized(plans[executions[e].plan].plan, executions[e].began)
  BY <1>2 DEF ExecutionStands, BoundInv
<1>4. AuthorityStood
  BY <1>3, AuthorizedStands DEF AuthorityStood
<1>5. RunsAreBound
  <2>1. \A e \in DOMAIN executions : executions[e].run = e
    BY <1>2 DEF ExecutionStands
  <2>2. ASSUME NEW e \in DOMAIN executions, NEW x \in DOMAIN executions,
               executions[e].predecessor = x
        PROVE  executions[e].plan = executions[x].plan /\ runs[executions[x].run].status = "paused"
    <3>1. x # None
      BY <1>1, SyncAssumption
    <3> QED
      BY <1>2, <2>1, <2>2, <3>1 DEF ExecutionStands
  <2> QED
    BY <1>1, <2>1, <2>2 DEF RunsAreBound
<1>6. ASSUME NEW e \in DOMAIN executions,
             [facts EXCEPT !.tag.agrees = TRUE] = [executions[e].began EXCEPT !.tag.agrees = TRUE]
      PROVE  Replan(e, facts) # {}
  <2> DEFINE began == executions[e].began
             old == plans[executions[e].plan].plan
  <2>1. facts \in Facts
    BY DEF BoundInv
  <2> HIDE DEF began, old
  <2>2. SameFacts(began, facts)
    <3>1. SameFacts(facts, began)
      BY <1>3, <1>6, <2>1, AgreesAside DEF began
    <3> QED
      BY <3>1 DEF SameFacts
  <2>3. Authorized(old, facts)
    BY <1>3, <2>2, SameFactsAuthorize DEF began, old
  <2>4. [FreshPlan(old, facts) EXCEPT !.estimate = old.estimate] = old
    BY <1>3, <2>3, RevisionAuthorizes DEF old
  <2>5. old \in Replan(e, facts)
    BY <2>4 DEF Replan, old
  <2> QED
    BY <2>5
<1>7. ReplanReproduces
  BY <1>6 DEF ReplanReproduces
<1> QED
  BY <1>4, <1>5, <1>7 DEF ExpansionStands

(* The target of every execution was authorized by the facts it was checked with,
   every run is bound to one execution and a resumed one to a paused execution of
   its plan, and planning it again under those facts gives its plan
   (library/service.py:105-157, library/planning.py:826-876). *)
THEOREM ExpansionsStand == LibrarySpec => []ExpansionStands
<1>1. Inv /\ BoundInv => ExpansionStands
  BY BoundStands
<1> QED
  BY <1>1, ExpansionsAreBound, PTL

-----------------------------------------------------------------------------
(* What an execution has listed *)

PostsIn(ls, e) == {x.post : x \in {x \in ls : x.execution = e}}

(* An offset listing is shifted when a post was published since. *)
Shifted(pg, lv, gn, before) == pg # "keyset" /\ lv \cup gn # before

(* A post is past a continuation when no page from there on lists it. *)
Past(pg, lv, c, q) ==
    IF pg = "keyset" THEN q >= c ELSE q \in lv => Above(lv, q) < c * PageSize

Passed(pg, lv, gn, before, c, had) ==
    \/ Shifted(pg, lv, gn, before)
    \/ IF c = None THEN had = {} ELSE \A q \in had : Past(pg, lv, c, q)

(* A page lists none of the posts before it, and the next none of both. *)
Adds(pg, lv, gn, before, had, rp) ==
    rp.kind = "page" =>
        \/ Shifted(pg, lv, gn, before)
        \/ /\ rp.posts \cap had = {}
           /\ rp.next # None => \A q \in had \cup rp.posts : Past(pg, lv, rp.next, q)

(* What an invocation knows of the posts its execution had listed. *)
Lists(pg, lv, gn, before, had, at, c, sp, rp, en) ==
    /\ at \in Executing => Passed(pg, lv, gn, before, c, had) /\ sp.records = Cardinality(had)
    /\ at \in {"retain", "admit", "commit"} => Adds(pg, lv, gn, before, had, rp)
    /\ at = "finish" /\ en.status # "failed" => sp.records = Cardinality(had)

(* What stands of an execution, its run and the posts it had listed. *)
RowLists(pg, lv, gn, rec, ex, had) ==
    /\ had \in SUBSET Post
    /\ ex.before \subseteq lv \cup gn
    /\ ex.clash => Shifted(pg, lv, gn, ex.before)
    /\ rec.status \in {"complete", "paused"} => rec.counts.records = Cardinality(had)

(* A listing that was shifted stays shifted. *)
LEMMA ShiftStands ==
  ASSUME NEW pg, NEW lv, NEW gn, NEW lv2, NEW gn2, Moved(lv, gn, lv2, gn2),
         NEW before, before \subseteq lv \cup gn
  PROVE  /\ before \subseteq lv2 \cup gn2
         /\ Shifted(pg, lv, gn, before) => Shifted(pg, lv2, gn2, before)
<1>1. lv \cup gn \subseteq lv2 \cup gn2
  BY DEF Moved
<1> QED
  BY <1>1 DEF Shifted

(* In one that was not, what is past a continuation stays past it. *)
LEMMA PastStands ==
  ASSUME NEW pg, NEW lv \in SUBSET Post, NEW gn, NEW lv2 \in SUBSET Post, NEW gn2,
         Moved(lv, gn, lv2, gn2), NEW before, before \subseteq lv \cup gn,
         ~Shifted(pg, lv2, gn2, before), NEW c \in Cursor, NEW q, Past(pg, lv, c, q)
  PROVE  Past(pg, lv2, c, q)
<1>1. CASE pg = "keyset"
  BY <1>1 DEF Past
<1>2. CASE pg # "keyset"
  <2>1. lv2 \cup gn2 = before
    BY <1>2 DEF Shifted
  <2>2. lv2 \subseteq lv
    BY <2>1 DEF Moved
  <2>3. /\ {x \in lv : x > q} \in SUBSET Post /\ {x \in lv2 : x > q} \in SUBSET Post
        /\ {x \in lv2 : x > q} \subseteq {x \in lv : x > q}
    BY <2>2
  <2>4. Above(lv, q) \in Nat /\ Above(lv2, q) \in Nat /\ Above(lv2, q) <= Above(lv, q)
    BY <2>3, ListingIsFinite, FS_Subset DEF Above
  <2>5. c \in Nat /\ PageSize \in Nat
    BY SyncAssumption DEF Cursor
  <2>6. c * PageSize \in Nat
    BY <2>5
  <2> QED
    BY <1>2, <2>2, <2>4, <2>6 DEF Past
<1> QED
  BY <1>1, <1>2

(* What an execution and its invocation know of the listing stands while   *)
(* the provider publishes and removes posts.                               *)
LEMMA ListsOn ==
  ASSUME NEW pg, NEW lv \in SUBSET Post, NEW gn, NEW lv2 \in SUBSET Post, NEW gn2,
         Moved(lv, gn, lv2, gn2), NEW before, before \subseteq lv \cup gn, NEW had,
         NEW at, NEW c \in Cursor \cup {None}, NEW sp, NEW rp, NEW en, Ready(at, rp, en),
         Lists(pg, lv, gn, before, had, at, c, sp, rp, en)
  PROVE  Lists(pg, lv2, gn2, before, had, at, c, sp, rp, en)
<1>1. ASSUME at \in Executing
      PROVE  Passed(pg, lv2, gn2, before, c, had)
  <2>1. Passed(pg, lv, gn, before, c, had)
    BY <1>1 DEF Lists
  <2>2. Shifted(pg, lv, gn, before) => Shifted(pg, lv2, gn2, before)
    BY ShiftStands
  <2>3. ~Shifted(pg, lv2, gn2, before) /\ c # None =>
           \A q \in had : Past(pg, lv, c, q) => Past(pg, lv2, c, q)
    BY PastStands
  <2> QED
    BY <2>1, <2>2, <2>3 DEF Passed
<1>2. ASSUME at \in {"retain", "admit", "commit"}
      PROVE  Adds(pg, lv2, gn2, before, had, rp)
  <2>1. Adds(pg, lv, gn, before, had, rp)
    BY <1>2 DEF Lists
  <2>2. Shifted(pg, lv, gn, before) => Shifted(pg, lv2, gn2, before)
    BY ShiftStands
  <2>3. rp.kind = "page" => rp.next \in Cursor \cup {None}
    BY <1>2, ReplyFields DEF Ready
  <2>4. rp.kind = "page" /\ ~Shifted(pg, lv2, gn2, before) /\ rp.next # None =>
           \A q : Past(pg, lv, rp.next, q) => Past(pg, lv2, rp.next, q)
    BY <2>3, PastStands
  <2> QED
    BY <2>1, <2>2, <2>4 DEF Adds
<1> QED
  BY <1>1, <1>2 DEF Lists

(* What a row tells of its listing stays true as the provider's listing moves. *)
LEMMA RowListsOn ==
  ASSUME NEW pg, NEW lv, NEW gn, NEW lv2, NEW gn2, Moved(lv, gn, lv2, gn2),
         NEW rec, NEW ex, NEW had, RowLists(pg, lv, gn, rec, ex, had)
  PROVE  RowLists(pg, lv2, gn2, rec, ex, had)
<1>1. ex.before \subseteq lv \cup gn
  BY DEF RowLists
<1>2. /\ ex.before \subseteq lv2 \cup gn2
      /\ Shifted(pg, lv, gn, ex.before) => Shifted(pg, lv2, gn2, ex.before)
  BY <1>1, ShiftStands
<1> QED
  BY <1>2 DEF RowLists

(* A page that is fetched lists nothing that was past the continuation. *)
LEMMA ListingAdds ==
  ASSUME paging \in {"keyset", "offset"}, live \in SUBSET Post,
         NEW c \in Cursor \cup {None}, NEW before, NEW had \in SUBSET Post,
         Passed(paging, live, gone, before, c, had)
  PROVE  Adds(paging, live, gone, before, had, Listing(c))
<1>0. Post \subseteq Nat /\ PageSize \in Nat /\ (c # None => c \in Nat) /\ None \notin Nat
  BY SyncAssumption DEF Post, Cursor
<1>1. CASE paging = "keyset"
  <2> DEFINE page == KeysetPage(c)
  <2>1. Listing(c).posts = page /\ Listing(c).next = KeysetContinuation(page)
    BY <1>1 DEF Listing
  <2>2. page \in SUBSET Post /\ \A q \in page : c = None \/ q < c
    BY DEF KeysetPage
  <2>3. IF c = None THEN had = {} ELSE \A q \in had : q >= c
    BY <1>1 DEF Passed, Shifted, Past
  <2> HIDE DEF page
  <2>4. page \cap had = {}
    <3>1. ASSUME NEW q \in page \cap had
          PROVE  FALSE
      <4>1. c # None /\ q < c /\ q >= c /\ q \in Nat
        BY <1>0, <2>2, <2>3, <3>1
      <4> QED
        BY <1>0, <4>1
    <3> QED
      BY <3>1
  <2>5. ASSUME KeysetContinuation(page) # None, NEW q \in had \cup page
        PROVE  q >= KeysetContinuation(page)
    <3>1. page # {} /\ KeysetContinuation(page) = Min(page)
      BY <2>5 DEF KeysetContinuation
    <3>2. Min(page) \in page /\ \A x \in page : Min(page) <= x
      BY <2>2, <3>1, Oldest
    <3>3. Min(page) \in Nat /\ q \in Nat
      BY <1>0, <2>2, <2>5, <3>2
    <3>4. CASE q \in page
      BY <3>1, <3>2, <3>3, <3>4
    <3>5. CASE q \in had
      <4>1. c # None /\ q >= c
        BY <2>3, <3>5
      <4>2. Min(page) < c /\ c \in Nat
        BY <1>0, <2>2, <3>2, <4>1
      <4> QED
        BY <3>1, <3>3, <4>1, <4>2
    <3> QED
      BY <2>5, <3>4, <3>5
  <2> QED
    BY <1>1, <2>1, <2>4, <2>5 DEF Adds, Past
<1>2. CASE paging = "offset"
  <2> DEFINE page == OffsetPage(c)
             first == IF c = None THEN 0 ELSE c * PageSize
             next == IF c = None THEN 1 ELSE c + 1
  <2>1. /\ Listing(c).posts = page
        /\ Listing(c).next # None => Listing(c).next = next
    BY <1>2 DEF Listing, OffsetContinuation
  <2>2. first \in Nat /\ next * PageSize = first + PageSize
    BY <1>0, OffsetArithmetic
  <2>3. page \in SUBSET live /\ \A q \in page : Above(live, q) \in first .. first + PageSize - 1
    BY DEF OffsetPage, Newer, Above
  <2>4. \A q \in live : Above(live, q) \in Nat
    <3>1. Cardinality(live) \in Nat
      BY ListingIsFinite
    <3> QED
      BY <3>1, AboveOrders
  <2>5. Shifted(paging, live, gone, before) \/ \A q \in had : q \in live => Above(live, q) < first
    BY <1>2 DEF Passed, Past
  <2> HIDE DEF page, first, next
  <2>6. CASE \A q \in had : q \in live => Above(live, q) < first
    <3>1. page \cap had = {}
      <4>1. ASSUME NEW q \in page \cap had
            PROVE  FALSE
        <5>1. Above(live, q) < first /\ first <= Above(live, q) /\ Above(live, q) \in Nat
          BY <2>2, <2>3, <2>4, <2>6, <4>1
        <5> QED
          BY <2>2, <5>1
      <4> QED
        BY <4>1
    <3>2. ASSUME NEW q \in had \cup page, q \in live
          PROVE  Above(live, q) < next * PageSize
      <4>1. Above(live, q) \in Nat
        BY <2>4, <3>2
      <4>2. Above(live, q) < first + PageSize
        BY <1>0, <2>2, <2>3, <2>6, <3>2, <4>1
      <4> QED
        BY <2>2, <4>2
    <3> QED
      BY <1>2, <2>1, <3>1, <3>2 DEF Adds, Past
  <2> QED
    BY <2>5, <2>6 DEF Adds
<1> QED
  BY <1>1, <1>2

-----------------------------------------------------------------------------
(* What executions have listed together *)

AssociatedIn(ls, es) == UNION {PostsIn(ls, x) : x \in es}

(* Executions with those that each of them goes on with. *)
Closed(exs, es) == \A x \in es : x \in DOMAIN exs /\ exs[x].predecessor \in es \cup {None}

ChainRow(pg, lv, gn, rec, known) ==
    /\ rec.checkpoint # None => Reached(pg, lv, gn, rec, rec.checkpoint, known)
    /\ rec.status = "complete" => Everything(pg, lv, gn, rec, known)

RowIsListed(e) == RowLists(paging, live, gone, runs[e], executions[e], PostsIn(listed, e))

WorkIsListed(p) ==
    Lists(paging, live, gone, executions[run[p]].before, PostsIn(listed, run[p]),
          pc[p], cursor[p], spent[p], reply[p], ending[p])

ListedInv ==
    /\ \A x \in listed : x.execution \in DOMAIN executions
    /\ \A e \in DOMAIN executions : RowIsListed(e)
    /\ \A p \in Process : pc[p] # "idle" => WorkIsListed(p)

(* What is known of a chain is what its own executions have associated. *)
ChainHas(es, known) ==
    /\ \A e \in es : ChainRow(paging, live, gone, runs[e], known)
    /\ \A p \in Process : pc[p] # "idle" /\ run[p] \in es =>
          Covered(paging, live, gone, known, runs[run[p]], pc[p], cursor[p], reply[p], ending[p])

ChainInv == \A es : Closed(executions, es) => ChainHas(es, AssociatedIn(listed, es))

(* What a row's chain has associated still reaches its checkpoint as the
   provider's listing moves and more posts are associated. *)
LEMMA ChainRowOn ==
  ASSUME NEW pg, NEW lv \in SUBSET Post, NEW gn, NEW lv2 \in SUBSET Post, NEW gn2,
         Moved(lv, gn, lv2, gn2), NEW rec \in Run, Remembers(lv, gn, rec), NEW known,
         NEW known2, known \subseteq known2, ChainRow(pg, lv, gn, rec, known)
  PROVE  ChainRow(pg, lv2, gn2, rec, known2)
<1>1. /\ \A c \in Cursor : Reached(pg, lv, gn, rec, c, known) =>
                              Reached(pg, lv2, gn2, rec, c, known2)
      /\ Everything(pg, lv, gn, rec, known) => Everything(pg, lv2, gn2, rec, known2)
  BY ReachedStands
<1>2. rec.checkpoint \in Cursor \cup {None}
  BY RunFields
<1> QED
  BY <1>1, <1>2 DEF ChainRow

(* What an invocation has covered stays covered as the listing moves. *)
LEMMA CoveredOn ==
  ASSUME Inv, NEW p \in Process, pc[p] # "idle", NEW lv2 \in SUBSET Post, NEW gn2,
         Moved(live, gone, lv2, gn2), NEW known, NEW known2, known \subseteq known2,
         Covered(paging, live, gone, known, runs[run[p]], pc[p], cursor[p], reply[p], ending[p])
  PROVE  Covered(paging, lv2, gn2, known2, runs[run[p]], pc[p], cursor[p], reply[p], ending[p])
<1>1. /\ Tallied(limits, runs[run[p]], pc[p], spent[p], reply[p], ending[p])
      /\ Remembers(live, gone, runs[run[p]]) /\ Ready(pc[p], reply[p], ending[p])
      /\ cursor[p] \in Cursor \cup {None} /\ live \in SUBSET Post
  BY WorkFacts, LocalFacts, WorldFacts DEF RunStands
<1>2. Works(paging, live, gone, known, limits, runs[run[p]],
            pc[p], cursor[p], spent[p], reply[p], ending[p])
  BY <1>1 DEF Works
<1>3. Works(paging, lv2, gn2, known2, limits, runs[run[p]],
            pc[p], cursor[p], spent[p], reply[p], ending[p])
  BY <1>1, <1>2, WorksOn
<1> QED
  BY <1>3 DEF Works

-----------------------------------------------------------------------------
(* Steps outside the runs *)

(* How the provider may change its listing. *)
LEMMA ProviderMoves ==
  ASSUME Inv, Publish \/ \E q \in Post : Remove(q)
  PROVE  live' \in SUBSET Post /\ Moved(live, gone, live', gone')
<1>1. live \in SUBSET Post /\ gone \in SUBSET Post /\ live \cap gone = {}
  BY DEF Inv, ShapeInv, WorldInv
<1>2. CASE Publish
  <2> DEFINE q == Min(Post \ (live \cup gone))
  <2>1. Post \ (live \cup gone) \in SUBSET Post /\ Post \ (live \cup gone) # {}
    BY <1>1, <1>2 DEF Publish
  <2>2. q \in Post \ (live \cup gone)
    BY <2>1, Oldest
  <2>3. live' = live \cup {q} /\ gone' = gone
    BY <1>2 DEF Publish
  <2> HIDE DEF q
  <2> QED
    BY <1>1, <2>2, <2>3 DEF Moved
<1>3. ASSUME NEW q \in Post, Remove(q)
      PROVE  live' \in SUBSET Post /\ Moved(live, gone, live', gone')
  BY <1>1, <1>3 DEF Remove, Moved
<1> QED
  BY <1>2, <1>3

(* It changes its listing. *)
LEMMA MovedListed ==
  ASSUME Inv, BoundInv, ListedInv, ChainInv, live' \in SUBSET Post,
         Moved(live, gone, live', gone'),
         UNCHANGED <<paging, limits, posts, runs, pc, local, late, executions, listed>>
  PROVE  ListedInv' /\ ChainInv'
<1>1. /\ paging' = paging /\ runs' = runs /\ pc' = pc /\ run' = run /\ cursor' = cursor
      /\ spent' = spent /\ reply' = reply /\ ending' = ending
      /\ executions' = executions /\ listed' = listed
  BY DEF local
<1>2. live \in SUBSET Post /\ DOMAIN executions = DOMAIN runs
  BY WorldFacts DEF BoundInv, IsList
<1>3. ASSUME NEW e \in DOMAIN executions
      PROVE  RowLists(paging, live', gone', runs[e], executions[e], PostsIn(listed, e))
  BY RowListsOn DEF ListedInv, RowIsListed
<1>4. ASSUME NEW p \in Process, pc[p] # "idle"
      PROVE  Lists(paging, live', gone', executions[run[p]].before, PostsIn(listed, run[p]),
                   pc[p], cursor[p], spent[p], reply[p], ending[p])
  <2>1. /\ run[p] \in DOMAIN executions /\ Ready(pc[p], reply[p], ending[p])
        /\ cursor[p] \in Cursor \cup {None}
    BY <1>2, <1>4, WorkFacts, LocalFacts
  <2>2. executions[run[p]].before \subseteq live \cup gone
    BY <2>1 DEF ListedInv, RowIsListed, RowLists
  <2>3. Lists(paging, live, gone, executions[run[p]].before, PostsIn(listed, run[p]),
              pc[p], cursor[p], spent[p], reply[p], ending[p])
    BY <1>4 DEF ListedInv, WorkIsListed
  <2> QED
    BY <1>2, <2>1, <2>2, <2>3, ListsOn
<1>5. ListedInv'
  BY <1>1, <1>3, <1>4 DEF ListedInv, RowIsListed, WorkIsListed
<1>6. ASSUME NEW es, Closed(executions, es)
      PROVE  /\ \A e \in es : ChainRow(paging, live', gone', runs[e], AssociatedIn(listed, es))
             /\ \A p \in Process : pc[p] # "idle" /\ run[p] \in es =>
                   Covered(paging, live', gone', AssociatedIn(listed, es), runs[run[p]], pc[p],
                           cursor[p], reply[p], ending[p])
  <2> DEFINE known == AssociatedIn(listed, es)
  <2>1. ChainHas(es, known)
    BY <1>6 DEF ChainInv
  <2> HIDE DEF known
  <2>2. ASSUME NEW e \in es
        PROVE  ChainRow(paging, live', gone', runs[e], known)
    <3>1. e \in DOMAIN runs /\ ChainRow(paging, live, gone, runs[e], known)
      BY <1>2, <1>6, <2>1 DEF Closed, ChainHas
    <3>2. runs[e] \in Run /\ Remembers(live, gone, runs[e])
      BY <3>1, WorldFacts DEF RunStands
    <3> QED
      BY <1>2, <3>1, <3>2, ChainRowOn
  <2>3. ASSUME NEW p \in Process, pc[p] # "idle", run[p] \in es
        PROVE  Covered(paging, live', gone', known, runs[run[p]], pc[p], cursor[p], reply[p],
                       ending[p])
    <3>1. Covered(paging, live, gone, known, runs[run[p]], pc[p], cursor[p], reply[p], ending[p])
      BY <2>1, <2>3 DEF ChainHas
    <3> QED
      BY <2>3, <3>1, CoveredOn
  <2> QED
    BY <2>2, <2>3 DEF known
<1>7. ChainInv'
  BY <1>1, <1>6 DEF ChainInv, ChainHas
<1> QED
  BY <1>5, <1>7

(* Neither it nor a run does anything. *)
LEMMA StillListed ==
  ASSUME ListedInv, ChainInv, UNCHANGED <<provider, runs, pc, local, executions, listed>>
  PROVE  ListedInv' /\ ChainInv'
<1>1. /\ paging' = paging /\ live' = live /\ gone' = gone /\ runs' = runs /\ pc' = pc
      /\ run' = run /\ cursor' = cursor
      /\ spent' = spent /\ reply' = reply /\ ending' = ending
      /\ executions' = executions /\ listed' = listed
  BY DEF local, provider
<1>2. ListedInv'
  BY <1>1 DEF ListedInv, RowIsListed, WorkIsListed
<1>3. ChainInv'
  BY <1>1 DEF ChainInv, ChainHas
<1> QED
  BY <1>2, <1>3

-----------------------------------------------------------------------------
(* Steps of a run that commit no page *)

(* What the invocation knows of its own listing. *)
LEMMA OwnLists ==
  ASSUME Inv, NEW p \in Process, NEW new, NEW before, NEW had \in SUBSET Post,
         KeepsOn(p, new) \/ Stops(p, new),
         Lists(paging, live, gone, before, had, pc[p], cursor[p], spent[p], reply[p], ending[p])
  PROVE  Lists(paging, live, gone, before, had, pc'[p], cursor'[p], spent'[p], reply'[p],
               ending'[p])
<1>1. CASE KeepsOn(p, new)
  <2>1. pc[p] \in Executing /\ pc'[p] \in Executing /\ cursor'[p] = cursor[p]
        /\ spent'[p].records = spent[p].records
    BY <1>1 DEF KeepsOn, Executing
  <2>2. Passed(paging, live, gone, before, cursor[p], had) /\ spent[p].records = Cardinality(had)
    BY <2>1 DEF Lists
  <2>3. CASE pc'[p] = "send"
    BY <2>1, <2>2, <2>3 DEF Lists
  <2>4. CASE pc[p] = "send" /\ pc'[p] = "retain"
    <3>1. reply'[p] = Listing(cursor[p]) \/ reply'[p].kind # "page"
      BY <1>1, <2>4 DEF KeepsOn
    <3>2. /\ paging \in {"keyset", "offset"} /\ live \in SUBSET Post
          /\ cursor[p] \in Cursor \cup {None}
      BY WorldFacts, LocalFacts
    <3>3. Adds(paging, live, gone, before, had, Listing(cursor[p]))
      BY <2>2, <3>2, ListingAdds
    <3>4. Adds(paging, live, gone, before, had, reply'[p])
      BY <3>1, <3>3 DEF Adds
    <3> QED
      BY <2>1, <2>2, <2>4, <3>4 DEF Lists
  <2>5. CASE pc[p] \in {"retain", "admit"} /\ pc'[p] \in {"admit", "commit"}
    <3>1. reply'[p] = reply[p]
      BY <1>1, <2>5 DEF KeepsOn
    <3>2. Adds(paging, live, gone, before, had, reply'[p])
      BY <2>5, <3>1 DEF Lists
    <3> QED
      BY <2>1, <2>2, <2>5, <3>2 DEF Lists
  <2> QED
    BY <1>1, <2>3, <2>4, <2>5 DEF KeepsOn
<1>2. CASE Stops(p, new)
  <2>1. /\ pc[p] \in Executing /\ pc'[p] = "finish"
        /\ ending'[p].status = "paused" => spent'[p] = spent[p]
        /\ ending'[p].status \in {"paused", "failed"}
    BY <1>2 DEF Stops
  <2>2. spent[p].records = Cardinality(had)
    BY <2>1 DEF Lists
  <2> QED
    BY <2>1, <2>2 DEF Lists, Executing
<1> QED
  BY <1>1, <1>2

(* What it knows of its chain. *)
LEMMA OwnCovers ==
  ASSUME Inv, NEW p \in Process, NEW new, SameChain(runs[run[p]], new), NEW known,
         KeepsOn(p, new) \/ Stops(p, new),
         Covered(paging, live, gone, known, runs[run[p]], pc[p], cursor[p], reply[p], ending[p])
  PROVE  Covered(paging, live, gone, known, new, pc'[p], cursor'[p], reply'[p], ending'[p])
<1> DEFINE rec == runs[run[p]]
<1>0. /\ \A c, k : Reached(paging, live, gone, rec, c, k) => Reached(paging, live, gone, new, c, k)
      /\ \A c, k : Brings(paging, live, gone, rec, k, c) => Brings(paging, live, gone, new, k, c)
  BY SameChainReaches
<1> HIDE DEF rec
<1>1. CASE KeepsOn(p, new)
  <2>1. pc[p] \in Executing /\ pc'[p] \in Executing /\ cursor'[p] = cursor[p]
    BY <1>1 DEF KeepsOn, Executing
  <2>2. cursor[p] # None => Reached(paging, live, gone, rec, cursor[p], known)
    BY <2>1 DEF Covered, rec
  <2>3. cursor'[p] # None => Reached(paging, live, gone, new, cursor'[p], known)
    BY <1>0, <2>1, <2>2
  <2>4. CASE pc'[p] = "send"
    BY <2>3, <2>4 DEF Covered
  <2>5. CASE pc[p] = "send" /\ pc'[p] = "retain"
    <3>1. reply'[p] = Listing(cursor[p]) \/ reply'[p].kind # "page"
      BY <1>1, <2>5 DEF KeepsOn
    <3>2. /\ paging \in {"keyset", "offset"} /\ live \in SUBSET Post
          /\ cursor[p] \in Cursor \cup {None}
      BY WorldFacts, LocalFacts
    <3>3. /\ Cardinality(Listing(cursor[p]).posts) <= PageSize
          /\ Brings(paging, live, gone, rec, known \cup Listing(cursor[p]).posts,
                    Listing(cursor[p]).next)
      BY <2>2, <3>2, ListingBrings
    <3>4. reply'[p].kind = "page" =>
             /\ Cardinality(reply'[p].posts) <= PageSize
             /\ Brings(paging, live, gone, new, known \cup reply'[p].posts, reply'[p].next)
      BY <1>0, <3>1, <3>3
    <3> QED
      BY <2>3, <2>5, <3>4 DEF Covered
  <2>6. CASE pc[p] \in {"retain", "admit"} /\ pc'[p] \in {"admit", "commit"}
    <3>1. reply[p].kind = "page" /\ reply'[p] = reply[p]
      BY <1>1, <2>6 DEF KeepsOn
    <3>2. /\ Cardinality(reply[p].posts) <= PageSize
          /\ Brings(paging, live, gone, rec, known \cup reply[p].posts, reply[p].next)
      BY <2>6, <3>1 DEF Covered, rec
    <3> QED
      BY <1>0, <2>3, <2>6, <3>1, <3>2 DEF Covered
  <2> QED
    BY <1>1, <2>4, <2>5, <2>6 DEF KeepsOn
<1>2. CASE Stops(p, new)
  BY <1>2 DEF Stops, Covered, Executing
<1> QED
  BY <1>1, <1>2

(* What its row says. *)
LEMMA OwnRow ==
  ASSUME Inv, BoundInv, NEW p \in Process, pc[p] # "idle", NEW new \in Run, WritesOwn(p, new),
         KeepsOn(p, new) \/ Stops(p, new) \/ Ends(p, new) \/ Dies(p, new)
  PROVE  /\ \A ex, ex2, had :
              /\ RowLists(paging, live, gone, runs[run[p]], ex, had)
              /\ ex2.before = ex.before
              /\ ex2.clash => ex.clash \/ Shifted(paging, live, gone, ex.before)
              /\ Lists(paging, live, gone, ex.before, had, pc[p], cursor[p], spent[p], reply[p],
                       ending[p])
              => RowLists(paging, live, gone, new, ex2, had)
         /\ \A known :
              /\ ChainRow(paging, live, gone, runs[run[p]], known)
              /\ Covered(paging, live, gone, known, runs[run[p]], pc[p], cursor[p], reply[p],
                         ending[p])
              => ChainRow(paging, live, gone, new, known)
<1> DEFINE rec == runs[run[p]]
<1>1. rec.status = "running" /\ rec.kind = "listing"
  BY RunningIs
<1>2. SameChain(rec, new) /\ new.checkpoint = rec.checkpoint
  BY DEF WritesOwn
<1>3. /\ \A c, k : Reached(paging, live, gone, rec, c, k) => Reached(paging, live, gone, new, c, k)
      /\ \A k : Everything(paging, live, gone, rec, k) => Everything(paging, live, gone, new, k)
  BY <1>2, SameChainReaches
<1>4. \/ new.status = "running"
      \/ /\ pc[p] = "finish" /\ new.status = ending[p].status
         /\ new.counts.records = spent[p].records
  BY <1>1 DEF KeepsOn, Stops, Ends, Dies
<1>5. ASSUME NEW had, NEW before, new.status \in {"complete", "paused"},
             Lists(paging, live, gone, before, had, pc[p], cursor[p], spent[p], reply[p],
                   ending[p])
      PROVE  new.counts.records = Cardinality(had)
  BY <1>4, <1>5 DEF Lists
<1>6. ASSUME NEW known, new.status = "complete",
             Covered(paging, live, gone, known, rec, pc[p], cursor[p], reply[p], ending[p])
      PROVE  Everything(paging, live, gone, new, known)
  BY <1>1, <1>3, <1>4, <1>6 DEF Covered
<1> HIDE DEF rec
<1>7. ASSUME NEW ex, NEW ex2, NEW had, RowLists(paging, live, gone, rec, ex, had),
             ex2.before = ex.before,
             ex2.clash => ex.clash \/ Shifted(paging, live, gone, ex.before),
             Lists(paging, live, gone, ex.before, had, pc[p], cursor[p], spent[p], reply[p],
                   ending[p])
      PROVE  RowLists(paging, live, gone, new, ex2, had)
  BY <1>5, <1>7 DEF RowLists
<1>8. ASSUME NEW known, ChainRow(paging, live, gone, rec, known),
             Covered(paging, live, gone, known, rec, pc[p], cursor[p], reply[p], ending[p])
      PROVE  ChainRow(paging, live, gone, new, known)
  BY <1>2, <1>3, <1>6, <1>8 DEF ChainRow
<1> QED
  BY <1>7, <1>8, Zenon DEF rec

(* Who does not take a step stays where it is, with a run of its own. *)
LEMMA OthersStay ==
  ASSUME Inv, NEW p \in Process, pc[p] # "idle", Apart(p), NEW q \in Process, q # p
  PROVE  /\ pc'[q] = pc[q] /\ run'[q] = run[q] /\ cursor'[q] = cursor[q]
         /\ spent'[q] = spent[q] /\ reply'[q] = reply[q] /\ ending'[q] = ending[q]
         /\ pc[q] # "idle" => run[q] # run[p] /\ run[q] \in DOMAIN runs
<1>1. run[p] \in DOMAIN runs /\ runs \in Seq(Run)
  BY WorkFacts, WorldFacts
<1>2. run[p] # None
  BY <1>1, SyncAssumption
<1> QED
  BY <1>2, WorkFacts DEF Apart, Inv, ShapeInv, OwnInv

(* A step of a run that commits no page leaves it listed. *)
LEMMA OwnStepListed ==
  ASSUME Inv, BoundInv, ListedInv, ChainInv, NEW p \in Process, pc[p] # "idle",
         NEW new \in Run, WritesOwn(p, new),
         KeepsOn(p, new) \/ Stops(p, new) \/ Ends(p, new) \/ Dies(p, new),
         listed' = listed, DOMAIN executions' = DOMAIN executions,
         \A e \in DOMAIN executions :
            /\ SameExecution(executions[e], executions'[e])
            /\ executions'[e].clash =>
                  executions[e].clash \/ Shifted(paging, live, gone, executions[e].before)
  PROVE  ListedInv' /\ ChainInv'
<1> DEFINE r == run[p]
<1>1. /\ r \in DOMAIN executions /\ r \in DOMAIN runs /\ DOMAIN executions = DOMAIN runs
  BY RunningIs
<1>2. /\ paging' = paging /\ live' = live /\ gone' = gone /\ Apart(p)
      /\ SameChain(runs[r], new)
  BY DEF WritesOwn, provider
<1>3. /\ runs'[r] = new /\ \A e \in DOMAIN runs : e # r => runs'[e] = runs[e]
  BY OwnRowGoesOn DEF WritesOwn
<1>4. \A e \in DOMAIN executions : /\ executions'[e].before = executions[e].before
                                   /\ executions'[e].predecessor = executions[e].predecessor
  BY DEF SameExecution
<1>5. /\ \A e \in DOMAIN executions : RowIsListed(e)
      /\ \A q \in Process : pc[q] # "idle" => WorkIsListed(q)
  BY DEF ListedInv
<1>6. PostsIn(listed, r) \in SUBSET Post
  BY <1>1, <1>5 DEF RowIsListed, RowLists
<1>7. KeepsOn(p, new) \/ Stops(p, new) => run'[p] = r
  BY DEF KeepsOn, Stops
<1>8. Ends(p, new) \/ Dies(p, new) => pc'[p] = "idle"
  BY DEF Ends, Dies
<1>9. Lists(paging, live, gone, executions[r].before, PostsIn(listed, r),
            pc[p], cursor[p], spent[p], reply[p], ending[p])
  BY <1>5 DEF WorkIsListed
<1>10. ASSUME NEW e \in DOMAIN executions
       PROVE  RowLists(paging, live, gone, runs'[e], executions'[e], PostsIn(listed, e))
  <2>1. RowLists(paging, live, gone, runs[e], executions[e], PostsIn(listed, e))
    BY <1>5 DEF RowIsListed
  <2>2. CASE e = r
    <3> HIDE DEF r
    <3>1. /\ \A ex, ex2, had :
                /\ RowLists(paging, live, gone, runs[r], ex, had)
                /\ ex2.before = ex.before
                /\ ex2.clash => ex.clash \/ Shifted(paging, live, gone, ex.before)
                /\ Lists(paging, live, gone, ex.before, had, pc[p], cursor[p], spent[p], reply[p],
                         ending[p])
                => RowLists(paging, live, gone, new, ex2, had)
      BY OwnRow, Zenon DEF r
    <3> QED
      BY <1>1, <1>3, <1>4, <1>9, <2>1, <2>2, <3>1
  <2>3. CASE e # r
    <3>1. runs'[e] = runs[e]
      BY <1>1, <1>3, <2>3
    <3> QED
      BY <1>4, <2>1, <3>1 DEF RowLists
  <2> QED
    BY <2>2, <2>3
<1>11. ASSUME NEW q \in Process, pc'[q] # "idle"
       PROVE  Lists(paging, live, gone, executions'[run'[q]].before, PostsIn(listed, run'[q]),
                    pc'[q], cursor'[q], spent'[q], reply'[q], ending'[q])
  <2>1. CASE q = p
    <3>1. KeepsOn(p, new) \/ Stops(p, new)
      BY <1>8, <1>11, <2>1
    <3>2. Lists(paging, live, gone, executions[r].before, PostsIn(listed, r), pc'[p], cursor'[p],
                spent'[p], reply'[p], ending'[p])
      BY <1>6, <1>9, <3>1, OwnLists
    <3> QED
      BY <1>1, <1>4, <1>7, <2>1, <3>1, <3>2
  <2>2. CASE q # p
    <3>1. /\ pc'[q] = pc[q] /\ run'[q] = run[q] /\ cursor'[q] = cursor[q]
          /\ spent'[q] = spent[q] /\ reply'[q] = reply[q] /\ ending'[q] = ending[q]
          /\ pc[q] # "idle" => run[q] \in DOMAIN runs
      BY <1>2, <2>2, OthersStay
    <3>2. WorkIsListed(q)
      BY <1>5, <1>11, <3>1
    <3> QED
      BY <1>1, <1>4, <1>11, <3>1, <3>2 DEF WorkIsListed
  <2> QED
    BY <2>1, <2>2
<1>12. ListedInv'
  BY <1>2, <1>10, <1>11 DEF ListedInv, RowIsListed, WorkIsListed
<1>13. ASSUME NEW es, Closed(executions', es)
       PROVE  LET known == AssociatedIn(listed, es) IN
              /\ \A e \in es : ChainRow(paging, live, gone, runs'[e], known)
              /\ \A q \in Process : pc'[q] # "idle" /\ run'[q] \in es =>
                    Covered(paging, live, gone, known, runs'[run'[q]], pc'[q], cursor'[q],
                            reply'[q], ending'[q])
  <2> DEFINE known == AssociatedIn(listed, es)
  <2>1. Closed(executions, es) /\ es \subseteq DOMAIN runs
    BY <1>1, <1>4, <1>13 DEF Closed
  <2>2. ChainHas(es, known)
    BY <2>1 DEF ChainInv
  <2> HIDE DEF known
  <2>3. r \in es => Covered(paging, live, gone, known, runs[r], pc[p], cursor[p], reply[p],
                            ending[p])
    BY <2>2 DEF ChainHas
  <2>4. ASSUME NEW e \in es
        PROVE  ChainRow(paging, live, gone, runs'[e], known)
    <3>1. ChainRow(paging, live, gone, runs[e], known)
      BY <2>2 DEF ChainHas
    <3>2. CASE e = r
      <4>1. ChainRow(paging, live, gone, new, known)
        BY <2>3, <3>1, <3>2, OwnRow
      <4> QED
        BY <1>3, <3>2, <4>1
    <3>3. CASE e # r
      BY <1>3, <2>1, <3>1, <3>3
    <3> QED
      BY <3>2, <3>3
  <2>5. ASSUME NEW q \in Process, pc'[q] # "idle", run'[q] \in es
        PROVE  Covered(paging, live, gone, known, runs'[run'[q]], pc'[q], cursor'[q], reply'[q],
                       ending'[q])
    <3>1. CASE q = p
      <4>1. KeepsOn(p, new) \/ Stops(p, new)
        BY <1>8, <2>5, <3>1
      <4>2. r \in es /\ runs'[run'[p]] = new
        BY <1>3, <1>7, <2>5, <3>1, <4>1
      <4>3. Covered(paging, live, gone, known, new, pc'[p], cursor'[p], reply'[p], ending'[p])
        BY <1>2, <2>3, <4>1, <4>2, OwnCovers
      <4> QED
        BY <3>1, <4>2, <4>3
    <3>2. CASE q # p
      <4>1. /\ pc'[q] = pc[q] /\ run'[q] = run[q] /\ cursor'[q] = cursor[q]
            /\ reply'[q] = reply[q] /\ ending'[q] = ending[q]
            /\ pc[q] # "idle" => run[q] # r /\ run[q] \in DOMAIN runs
        BY <1>2, <3>2, OthersStay
      <4>2. runs'[run'[q]] = runs[run[q]]
        BY <1>3, <2>5, <4>1
      <4> QED
        BY <2>2, <2>5, <4>1, <4>2 DEF ChainHas
    <3> QED
      BY <3>1, <3>2
  <2> QED
    BY <2>4, <2>5 DEF known
<1>14. ChainInv'
  BY <1>2, <1>13 DEF ChainInv, ChainHas
<1> QED
  BY <1>12, <1>14

(* A step of the run that neither commits nor refuses a page. *)
LEMMA RunStepListed ==
  ASSUME Inv, BoundInv, ListedInv, ChainInv, NEW p \in Process, RunStep(p)
  PROVE  ListedInv' /\ ChainInv'
<1>1. BetweenCommits(p) /\ executions' = executions /\ listed' = listed
  BY DEF RunStep, stored
<1>2. pc[p] # "idle" /\ runs[run[p]].kind = "listing"
  BY <1>1, StepWorks, RunningIs
<1>3. PICK new : WritesOwn(p, new) /\ (KeepsOn(p, new) \/ Stops(p, new) \/ Ends(p, new))
  BY <1>1, <1>2, RunStepDoes
<1>4. new \in Run
  BY <1>3 DEF WritesOwn
<1> QED
  BY <1>1, <1>2, <1>3, <1>4, OwnStepListed DEF SameExecution

(* An invocation is killed. *)
LEMMA RunKilledListed ==
  ASSUME Inv, BoundInv, ListedInv, ChainInv, NEW p \in Process, RunKilled(p)
  PROVE  ListedInv' /\ ChainInv'
<1>1. Kill(p) /\ executions' = executions /\ listed' = listed
  BY DEF RunKilled, stored
<1>2. pc[p] # "idle"
  BY <1>1 DEF Kill
<1>3. PICK new : WritesOwn(p, new) /\ Dies(p, new)
  BY <1>1, KillDoes
<1>4. new \in Run
  BY <1>3 DEF WritesOwn
<1> QED
  BY <1>1, <1>2, <1>3, <1>4, OwnStepListed DEF SameExecution

(* A page is refused only when the listing has shifted. *)
LEMMA ClashListed ==
  ASSUME Inv, BoundInv, ListedInv, ChainInv, NEW p \in Process, Clash(p)
  PROVE  ListedInv' /\ ChainInv'
<1> DEFINE r == run[p]
<1>1. BetweenCommits(p) /\ pc[p] = "commit" /\ listed' = listed /\ Repeated(p)
  BY ClashFails DEF Clash
<1>2. pc[p] # "idle" /\ runs[run[p]].kind = "listing" /\ Running(p) = r /\ r \in DOMAIN executions
  BY <1>1, RunningIs
<1>3. PICK new : WritesOwn(p, new) /\ (KeepsOn(p, new) \/ Stops(p, new) \/ Ends(p, new))
  BY <1>1, <1>2, RunStepDoes
<1>4. new \in Run
  BY <1>3 DEF WritesOwn
<1>5. PostsIn(listed, r) \cap reply[p].posts # {}
  BY <1>1, <1>2 DEF Repeated, PostsOf, PostsIn
<1>6. reply[p].kind = "page"
  BY <1>1, <1>2, WorkFacts DEF Ready
<1>7. Adds(paging, live, gone, executions[r].before, PostsIn(listed, r), reply[p])
  BY <1>1, <1>2 DEF ListedInv, WorkIsListed, Lists
<1>8. Shifted(paging, live, gone, executions[r].before)
  BY <1>5, <1>6, <1>7 DEF Adds
<1>9. /\ DOMAIN executions' = DOMAIN executions
      /\ \A e \in DOMAIN executions : SameExecution(executions[e], executions'[e])
      /\ \A e \in DOMAIN executions : e # r => executions'[e] = executions[e]
  BY ClashMarks DEF ExecutionsGoOn
<1>10. \A e \in DOMAIN executions : executions'[e].clash =>
          executions[e].clash \/ Shifted(paging, live, gone, executions[e].before)
  BY <1>8, <1>9
<1> QED
  BY <1>1, <1>2, <1>3, <1>4, <1>9, <1>10, OwnStepListed

-----------------------------------------------------------------------------
(* The step that commits a page *)

RowsOf(e, page, n) == {[execution |-> e, post |-> q, page |-> n] : q \in page}

(* What one execution has listed once a page is associated with another. *)
LEMMA PostsAdded ==
  ASSUME NEW ls, NEW e, NEW page, NEW n,
         NEW ls2, ls2 = ls \cup RowsOf(e, page, n)
  PROVE  /\ PostsIn(ls2, e) = PostsIn(ls, e) \cup page
         /\ \A x : x # e => PostsIn(ls2, x) = PostsIn(ls, x)
         /\ \A x \in ls2 : x \in ls \/ x.execution = e
<1> DEFINE rows == RowsOf(e, page, n)
<1>1. \A x \in rows : x.execution = e /\ x.post \in page
  BY DEF RowsOf
<1>2. \A q \in page : \E x \in rows : x.execution = e /\ x.post = q
  <2>1. ASSUME NEW q \in page
        PROVE  \E x \in rows : x.execution = e /\ x.post = q
    <3> DEFINE x == [execution |-> e, post |-> q, page |-> n]
    <3>1. x \in rows /\ x.execution = e /\ x.post = q
      BY DEF RowsOf
    <3> HIDE DEF rows, x
    <3> QED
      BY <3>1
  <2> QED
    BY <2>1
<1>3. ls2 = ls \cup rows
  OBVIOUS
<1> HIDE DEF rows
<1>4. PostsIn(ls2, e) = PostsIn(ls, e) \cup page
  BY <1>1, <1>2, <1>3 DEF PostsIn
<1>5. ASSUME NEW x, x # e
      PROVE  PostsIn(ls2, x) = PostsIn(ls, x)
  BY <1>1, <1>3, <1>5 DEF PostsIn
<1> QED
  BY <1>1, <1>3, <1>4, <1>5

(* A page is associated with its execution, and nothing of it is twice. *)
LEMMA CommitListedListed ==
  ASSUME Inv, BoundInv, ListedInv, ChainInv, NEW p \in Process, CommitListed(p)
  PROVE  ListedInv' /\ ChainInv'
<1> DEFINE r == run[p]
           page == reply[p].posts
           next == reply[p].next
           had == PostsIn(listed, r)
           before == executions[r].before
<1>1. /\ Commit(p) /\ executions' = executions /\ ~Repeated(p)
      /\ listed' = listed \cup {[execution |-> Running(p), post |-> q,
                                 page |-> runs[run[p]].retained] : q \in page}
  BY DEF CommitListed
<1>2. pc[p] # "idle"
  BY <1>1, StepWorks
<1>3. /\ Running(p) = r /\ r \in DOMAIN executions /\ r \in DOMAIN runs
      /\ DOMAIN executions = DOMAIN runs
  BY <1>2, RunningIs
<1>4. PICK new : Commits(p, new)
  BY <1>1, CommitDoes
<1>5. /\ PostsIn(listed', r) = had \cup page
      /\ \A x : x # r => PostsIn(listed', x) = PostsIn(listed, x)
      /\ \A x \in listed' : x \in listed \/ x.execution = r
  <2> DEFINE n == runs[run[p]].retained
  <2> HIDE DEF page, n, r
  <2>1. listed' = listed \cup RowsOf(r, page, n)
    BY <1>1, <1>3 DEF n, page, RowsOf
  <2> DEFINE ls2 == listed'
  <2> HIDE DEF ls2
  <2>2. ls2 = listed \cup RowsOf(r, page, n)
    BY <2>1 DEF ls2
  <2>3. /\ PostsIn(ls2, r) = PostsIn(listed, r) \cup page
        /\ \A x : x # r => PostsIn(ls2, x) = PostsIn(listed, x)
        /\ \A x \in ls2 : x \in listed \/ x.execution = r
    BY <2>2, PostsAdded
  <2> QED
    BY <2>3 DEF ls2
<1>6. /\ new \in Run /\ SameChain(runs[r], new) /\ new.status = "running"
      /\ new.checkpoint = IF next = None THEN runs[r].checkpoint ELSE next
      /\ run'[p] = r /\ pc[p] = "commit" /\ reply[p] \in Reply /\ reply[p].kind = "page"
      /\ spent'[p].records = spent[p].records + Cardinality(page)
      /\ \/ next # None /\ pc'[p] = "next" /\ cursor'[p] = next
         \/ next = None /\ pc'[p] = "finish" /\ ending'[p].status = "complete"
  BY <1>4 DEF Commits
<1>7. /\ paging' = paging /\ live' = live /\ gone' = gone /\ Apart(p)
      /\ live \in SUBSET Post
  BY <1>4, WorldFacts DEF Commits, provider
<1>8. /\ runs'[r] = new /\ \A e \in DOMAIN runs : e # r => runs'[e] = runs[e]
  BY <1>2, <1>4, OwnRowGoesOn DEF Commits
<1>9. page \in SUBSET Post /\ next \in Cursor \cup {None}
  BY <1>6, ReplyFields
<1>10. /\ \A e \in DOMAIN executions : RowIsListed(e)
       /\ \A q \in Process : pc[q] # "idle" => WorkIsListed(q)
  BY DEF ListedInv
<1>11. had \in SUBSET Post /\ before \subseteq live \cup gone
       /\ (executions[r].clash => Shifted(paging, live, gone, before))
  BY <1>3, <1>10 DEF RowIsListed, RowLists
<1>12. /\ Adds(paging, live, gone, before, had, reply[p])
       /\ spent[p].records = Cardinality(had)
  BY <1>2, <1>6, <1>10 DEF WorkIsListed, Lists, Executing
<1>13. spent'[p].records = Cardinality(had \cup page)
  <2>1. had \cap page = {}
    BY <1>1, <1>3 DEF Repeated, PostsOf, PostsIn
  <2>2. IsFiniteSet(had) /\ IsFiniteSet(page)
    BY <1>9, <1>11, ListingIsFinite
  <2>3. Cardinality(had \cup page) = Cardinality(had) + Cardinality(page) - Cardinality(had \cap page)
    BY <2>2, FS_Union
  <2>4. Cardinality(had \cap page) = 0 /\ Cardinality(had) \in Nat /\ Cardinality(page) \in Nat
    BY <2>1, <2>2, FS_EmptySet, FS_CardinalityType
  <2> QED
    BY <1>6, <1>12, <2>3, <2>4
<1>14. next # None => Passed(paging, live, gone, before, next, had \cup page)
  BY <1>6, <1>12 DEF Adds, Passed
<1> HIDE DEF page, next, had, before, r
<1>15. ASSUME NEW e \in DOMAIN executions
       PROVE  RowLists(paging, live, gone, runs'[e], executions[e], PostsIn(listed', e))
  <2>1. CASE e = r
    BY <1>5, <1>6, <1>8, <1>9, <1>11, <2>1 DEF RowLists, before
  <2>2. CASE e # r
    BY <1>3, <1>5, <1>8, <1>10, <2>2 DEF RowIsListed
  <2> QED
    BY <2>1, <2>2
<1>16. ASSUME NEW q \in Process, pc'[q] # "idle"
       PROVE  Lists(paging, live, gone, executions[run'[q]].before, PostsIn(listed', run'[q]),
                    pc'[q], cursor'[q], spent'[q], reply'[q], ending'[q])
  <2>1. CASE q = p
    <3>1. executions[run'[q]].before = before /\ PostsIn(listed', run'[q]) = had \cup page
      BY <1>5, <1>6, <2>1 DEF before
    <3>2. CASE next # None /\ pc'[p] = "next" /\ cursor'[p] = next
      BY <1>13, <1>14, <2>1, <3>1, <3>2 DEF Lists
    <3>3. CASE next = None /\ pc'[p] = "finish"
      BY <1>13, <2>1, <3>1, <3>3 DEF Lists, Executing
    <3> QED
      BY <1>6, <3>2, <3>3
  <2>2. CASE q # p
    <3>1. /\ pc'[q] = pc[q] /\ run'[q] = run[q] /\ cursor'[q] = cursor[q]
          /\ spent'[q] = spent[q] /\ reply'[q] = reply[q] /\ ending'[q] = ending[q]
          /\ pc[q] # "idle" => run[q] # r
      BY <1>2, <1>7, <2>2, OthersStay DEF r
    <3>2. WorkIsListed(q) /\ PostsIn(listed', run[q]) = PostsIn(listed, run[q])
      BY <1>5, <1>10, <1>16, <3>1
    <3> QED
      BY <3>1, <3>2 DEF WorkIsListed
  <2> QED
    BY <2>1, <2>2
<1>17. \A x \in listed' : x.execution \in DOMAIN executions
  BY <1>3, <1>5 DEF ListedInv
<1>18. ListedInv'
  BY <1>1, <1>7, <1>15, <1>16, <1>17 DEF ListedInv, RowIsListed, WorkIsListed
<1>19. ASSUME NEW es, Closed(executions, es)
       PROVE  LET known == AssociatedIn(listed', es) IN
              /\ \A e \in es : ChainRow(paging, live, gone, runs'[e], known)
              /\ \A q \in Process : pc'[q] # "idle" /\ run'[q] \in es =>
                    Covered(paging, live, gone, known, runs'[run'[q]], pc'[q], cursor'[q],
                            reply'[q], ending'[q])
  <2> DEFINE old == AssociatedIn(listed, es)
             known == AssociatedIn(listed', es)
  <2>1. es \subseteq DOMAIN runs /\ ChainHas(es, old)
    BY <1>3, <1>19 DEF Closed, ChainInv
  <2>2. old \subseteq known
    BY <1>5 DEF AssociatedIn, had
  <2>3. r \in es => known = old \cup page
    BY <1>5 DEF AssociatedIn, had
  <2> HIDE DEF old, known
  <2>4. r \in es => Brings(paging, live, gone, new, known, next)
    <3>1. r \in es => Brings(paging, live, gone, runs[r], known, next)
      BY <1>2, <1>6, <2>1, <2>3 DEF ChainHas, Covered, next, page, r
    <3> QED
      BY <1>6, <3>1, SameChainReaches
  <2>5. Moved(live, gone, live, gone)
    BY DEF Moved
  <2>6. ASSUME NEW e \in es
        PROVE  ChainRow(paging, live, gone, runs[e], known)
    <3>1. ChainRow(paging, live, gone, runs[e], old)
      BY <2>1 DEF ChainHas
    <3>2. runs[e] \in Run /\ Remembers(live, gone, runs[e])
      BY <2>1, WorldFacts DEF RunStands
    <3> QED
      BY <1>7, <2>2, <2>5, <3>1, <3>2, ChainRowOn
  <2>7. ASSUME NEW e \in es
        PROVE  ChainRow(paging, live, gone, runs'[e], known)
    <3>1. CASE e = r /\ next = None
      <4>1. /\ new.checkpoint = runs[r].checkpoint
            /\ \A c, k : Reached(paging, live, gone, runs[r], c, k) =>
                            Reached(paging, live, gone, new, c, k)
        BY <1>6, <3>1, SameChainReaches
      <4> QED
        BY <1>6, <1>8, <2>6, <3>1, <4>1 DEF ChainRow
    <3>2. CASE e = r /\ next # None
      BY <1>6, <1>8, <2>4, <3>2 DEF ChainRow, Brings
    <3>3. CASE e # r
      BY <1>8, <2>1, <2>6, <3>3
    <3> QED
      BY <3>1, <3>2, <3>3
  <2>8. ASSUME NEW q \in Process, pc'[q] # "idle", run'[q] \in es
        PROVE  Covered(paging, live, gone, known, runs'[run'[q]], pc'[q], cursor'[q], reply'[q],
                       ending'[q])
    <3>1. CASE q = p
      <4>1. r \in es /\ runs'[run'[p]] = new
        BY <1>6, <1>8, <2>8, <3>1
      <4>2. CASE next # None /\ pc'[p] = "next" /\ cursor'[p] = next
        BY <2>4, <3>1, <4>1, <4>2 DEF Covered, Brings
      <4>3. CASE next = None /\ pc'[p] = "finish"
        BY <2>4, <3>1, <4>1, <4>3 DEF Covered, Brings, Executing
      <4> QED
        BY <1>6, <4>2, <4>3
    <3>2. CASE q # p
      <4>1. /\ pc'[q] = pc[q] /\ run'[q] = run[q] /\ cursor'[q] = cursor[q]
            /\ reply'[q] = reply[q] /\ ending'[q] = ending[q]
            /\ pc[q] # "idle" => run[q] # r /\ run[q] \in DOMAIN runs
        BY <1>2, <1>7, <3>2, OthersStay DEF r
      <4>2. runs'[run'[q]] = runs[run[q]]
        BY <1>8, <2>8, <4>1
      <4>3. Covered(paging, live, gone, old, runs[run[q]], pc[q], cursor[q], reply[q], ending[q])
        BY <2>1, <2>8, <4>1 DEF ChainHas
      <4>4. Covered(paging, live, gone, known, runs[run[q]], pc[q], cursor[q], reply[q], ending[q])
        BY <1>7, <2>2, <2>5, <2>8, <4>1, <4>3, CoveredOn
      <4> QED
        BY <4>1, <4>2, <4>4
    <3> QED
      BY <3>1, <3>2
  <2> QED
    BY <2>7, <2>8 DEF known
<1>20. ChainInv'
  BY <1>1, <1>7, <1>19 DEF ChainInv, ChainHas
<1> QED
  BY <1>18, <1>20

-----------------------------------------------------------------------------
(* The step that begins a run *)

(* What the new execution adds to the rows. *)
LEMMA BindAppends ==
  ASSUME Inv, BoundInv, NEW p \in Process, Bind(p), NEW rec, NEW from, Begins(p, rec, from)
  PROVE  LET n == Len(runs) + 1
             x == executions'[n] IN
         /\ n \notin DOMAIN runs /\ runs'[n] = rec /\ \A r \in DOMAIN runs : runs'[r] = runs[r]
         /\ DOMAIN executions = DOMAIN runs /\ DOMAIN executions' = DOMAIN runs \cup {n}
         /\ \A e \in DOMAIN executions : executions'[e] = executions[e]
         /\ x.predecessor = work[p].predecessor /\ x.before = live \cup gone /\ ~x.clash
         /\ x.predecessor # None => x.predecessor \in DOMAIN runs
         /\ listed' = listed
<1> DEFINE n == Len(runs) + 1
           x == NewExecution(p)
<1>1. /\ executions' = Append(executions, x) /\ listed' = listed /\ work[p] # None
  BY DEF Bind, At
<1>2. x.predecessor = work[p].predecessor /\ x.before = live \cup gone /\ x.clash = FALSE
  BY DEF NewExecution
<1> HIDE DEF x
<1>3. /\ runs \in Seq(Run) /\ IsList(executions) /\ Len(executions) = Len(runs)
      /\ runs' = Append(runs, rec) /\ rec \in Run
  BY WorldFacts DEF BoundInv, Begins
<1>4. /\ Len(runs) \in Nat /\ DOMAIN runs = 1..Len(runs) /\ runs'[n] = rec
      /\ \A r \in DOMAIN runs : runs'[r] = runs[r]
  BY <1>3
<1>5. /\ DOMAIN executions' = 1..n /\ DOMAIN executions = 1..Len(runs)
      /\ \A e \in DOMAIN executions : executions'[e] = executions[e]
      /\ executions'[n] = x
  BY <1>1, <1>3, Appended
<1>6. n \notin 1..Len(runs) /\ 1..n = (1..Len(runs)) \cup {n}
  BY <1>4
<1>7. work[p].predecessor # None => work[p].predecessor \in DOMAIN executions
  BY <1>1 DEF BoundInv, WorkStands
<1> QED
  BY <1>1, <1>2, <1>4, <1>5, <1>6, <1>7

(* A run that goes on where another left off relies on what the executions *)
(* before it have listed.                                                  *)
LEMMA BindListed ==
  ASSUME Inv, BoundInv, ListedInv, ChainInv, NEW p \in Process, Bind(p)
  PROVE  ListedInv' /\ ChainInv'
<1> DEFINE n == Len(runs) + 1
           x == executions'[n]
           d == work[p].predecessor
<1>1. PICK rec, from :
         /\ Begins(p, rec, from)
         /\ IF d = None THEN from = None /\ rec.since = live /\ rec.removed = gone
            ELSE GoesOnFrom(rec, from, d)
  BY BindDoes
<1>2. /\ n \notin DOMAIN runs /\ runs'[n] = rec /\ \A r \in DOMAIN runs : runs'[r] = runs[r]
      /\ DOMAIN executions = DOMAIN runs /\ DOMAIN executions' = DOMAIN runs \cup {n}
      /\ \A e \in DOMAIN executions : executions'[e] = executions[e]
      /\ x.predecessor = d /\ x.before = live \cup gone /\ ~x.clash
      /\ x.predecessor # None => x.predecessor \in DOMAIN runs
      /\ listed' = listed
  BY <1>1, BindAppends
<1>3. /\ pc[p] = "idle" /\ rec.kind = "listing" /\ rec.status = "running"
      /\ rec.checkpoint = None
      /\ pc'[p] = "next" /\ run'[p] = n /\ cursor'[p] = from /\ spent'[p] = spent[p]
      /\ paging' = paging /\ live' = live /\ gone' = gone /\ Apart(p)
  BY <1>1 DEF Begins, provider
<1>4. /\ \A y \in listed : y.execution \in DOMAIN executions
      /\ \A e \in DOMAIN executions : RowIsListed(e)
      /\ \A q \in Process : pc[q] # "idle" => WorkIsListed(q)
  BY DEF ListedInv
<1>5. PostsIn(listed, n) = {}
  BY <1>2, <1>4 DEF PostsIn
<1>6. ASSUME NEW q \in Process, q # p
      PROVE  /\ pc'[q] = pc[q] /\ run'[q] = run[q] /\ cursor'[q] = cursor[q]
             /\ spent'[q] = spent[q] /\ reply'[q] = reply[q] /\ ending'[q] = ending[q]
             /\ pc[q] # "idle" => run[q] \in DOMAIN runs
  BY <1>3, <1>6, WorkFacts DEF Apart
<1>7. spent[p].records = 0
  BY <1>3 DEF Inv, StandInv, NoSpending
<1> HIDE DEF n, x, d
<1>8. ASSUME NEW e \in DOMAIN executions'
      PROVE  RowLists(paging, live, gone, runs'[e], executions'[e], PostsIn(listed, e))
  <2>1. CASE e = n
    BY <1>2, <1>3, <1>5, <2>1 DEF RowLists, x
  <2>2. CASE e # n
    BY <1>2, <1>4, <2>2 DEF RowIsListed
  <2> QED
    BY <2>1, <2>2
<1>9. ASSUME NEW q \in Process, pc'[q] # "idle"
      PROVE  Lists(paging, live, gone, executions'[run'[q]].before, PostsIn(listed, run'[q]),
                   pc'[q], cursor'[q], spent'[q], reply'[q], ending'[q])
  <2>1. CASE q = p
    <3>1. Cardinality(PostsIn(listed, n)) = 0
      BY <1>5, FS_EmptySet
    <3>2. Passed(paging, live, gone, executions'[n].before, cursor'[p], PostsIn(listed, n))
      BY <1>5 DEF Passed
    <3> QED
      BY <1>3, <1>7, <2>1, <3>1, <3>2 DEF Lists
  <2>2. CASE q # p
    <3>1. WorkIsListed(q) /\ executions'[run[q]] = executions[run[q]]
      BY <1>2, <1>4, <1>6, <1>9, <2>2
    <3> QED
      BY <1>6, <2>2, <3>1 DEF WorkIsListed
  <2> QED
    BY <2>1, <2>2
<1>10. ListedInv'
  BY <1>2, <1>3, <1>4, <1>8, <1>9 DEF ListedInv, RowIsListed, WorkIsListed
<1>11. ASSUME NEW es, Closed(executions', es)
       PROVE  LET known == AssociatedIn(listed, es) IN
              /\ \A e \in es : ChainRow(paging, live, gone, runs'[e], known)
              /\ \A q \in Process : pc'[q] # "idle" /\ run'[q] \in es =>
                    Covered(paging, live, gone, known, runs'[run'[q]], pc'[q], cursor'[q],
                            reply'[q], ending'[q])
  <2> DEFINE known == AssociatedIn(listed, es)
             old == es \ {n}
  <2>1. old \subseteq DOMAIN runs
    BY <1>2, <1>11 DEF Closed
  <2>2. Closed(executions, old)
    <3>1. ASSUME NEW e \in old
          PROVE  e \in DOMAIN executions /\ executions[e].predecessor \in old \cup {None}
      <4>1. e \in DOMAIN executions /\ executions'[e] = executions[e]
        BY <1>2, <2>1
      <4>2. executions[e].predecessor \in es \cup {None}
        BY <1>11, <4>1 DEF Closed
      <4>3. executions[e].predecessor # None => executions[e].predecessor \in DOMAIN executions
        BY <4>1 DEF BoundInv, ExecutionStands
      <4> QED
        BY <1>2, <4>1, <4>2, <4>3
    <3> QED
      BY <3>1 DEF Closed
  <2>3. AssociatedIn(listed, old) = known
    BY <1>5 DEF AssociatedIn
  <2>4. ChainHas(old, known)
    BY <2>2, <2>3 DEF ChainInv
  <2> HIDE DEF known, old
  <2>5. ASSUME NEW e \in es
        PROVE  ChainRow(paging, live, gone, runs'[e], known)
    <3>1. CASE e = n
      BY <1>2, <1>3, <3>1 DEF ChainRow
    <3>2. CASE e # n
      <4>1. e \in old /\ e \in DOMAIN runs
        BY <2>1, <3>2 DEF old
      <4> QED
        BY <1>2, <2>4, <4>1 DEF ChainHas
    <3> QED
      BY <3>1, <3>2
  <2>6. ASSUME NEW q \in Process, pc'[q] # "idle", run'[q] \in es
        PROVE  Covered(paging, live, gone, known, runs'[run'[q]], pc'[q], cursor'[q], reply'[q],
                       ending'[q])
    <3>1. CASE q = p
      <4>1. n \in es /\ runs'[run'[p]] = rec
        BY <1>2, <1>3, <2>6, <3>1
      <4>2. from # None => Reached(paging, live, gone, rec, from, known)
        <5>1. CASE d = None
          BY <1>1, <5>1
        <5>2. CASE d # None
          <6>1. GoesOnFrom(rec, from, d)
            BY <1>1, <5>2
          <6>2. d \in es \cup {None}
            BY <1>2, <1>11, <4>1 DEF Closed, x
          <6>3. d \in old /\ d \in DOMAIN runs
            BY <1>2, <5>2, <6>2 DEF old
          <6>4. SameChain(runs[d], rec)
            BY <1>3, <6>1, <6>3 DEF SameChain, GoesOnFrom, BoundInv
          <6>5. from # None => Reached(paging, live, gone, runs[d], from, known)
            BY <2>4, <6>1, <6>3 DEF ChainHas, ChainRow, GoesOnFrom
          <6> QED
            BY <6>4, <6>5, SameChainReaches
        <5> QED
          BY <5>1, <5>2
      <4> QED
        BY <1>3, <3>1, <4>1, <4>2 DEF Covered
    <3>2. CASE q # p
      <4>1. run[q] \in old /\ run[q] \in DOMAIN runs /\ pc[q] # "idle"
        BY <1>2, <1>6, <2>6, <3>2 DEF old
      <4>2. Covered(paging, live, gone, known, runs[run[q]], pc[q], cursor[q], reply[q], ending[q])
        BY <2>4, <4>1 DEF ChainHas
      <4> QED
        BY <1>2, <1>6, <3>2, <4>1, <4>2
    <3> QED
      BY <3>1, <3>2
  <2> QED
    BY <2>5, <2>6 DEF known
<1>12. ChainInv'
  BY <1>2, <1>3, <1>11 DEF ChainInv, ChainHas
<1> QED
  BY <1>10, <1>12

-----------------------------------------------------------------------------
(* Every step *)

(* Every step of the library leaves its executions listed. *)
LEMMA ListedSteps ==
  ASSUME Inv, BoundInv, ListedInv, ChainInv, [LibraryNext]_allVars
  PROVE  ListedInv' /\ ChainInv'
<1>1. CASE UNCHANGED allVars \/ Tick \/ Fact
  <2>1. UNCHANGED <<provider, runs, pc, local, executions, listed>>
    BY <1>1 DEF allVars, vars, libraryVars, Tick, Fact
  <2> QED
    BY <2>1, StillListed
<1>2. CASE (Publish \/ \E q \in Post : Remove(q)) /\ UNCHANGED libraryVars
  <2>1. /\ UNCHANGED <<paging, limits, posts, runs, pc, local, late, executions, listed>>
        /\ live' \in SUBSET Post /\ Moved(live, gone, live', gone')
    BY <1>2, ProviderMoves DEF libraryVars, Publish, Remove
  <2> QED
    BY <2>1, MovedListed
<1>3. ASSUME NEW p \in Process, \/ Probe(p) \/ ProbeAnswer(p) \/ Check(p) \/ Store(p)
                               \/ Abandon(p) \/ RunExpires(p)
      PROVE  ListedInv' /\ ChainInv'
  <2>1. UNCHANGED <<provider, runs, pc, local, executions, listed>>
    BY <1>3 DEF Probe, ProbeAnswer, Check, Store, Abandon, RunExpires, Expire, libraryVars,
                stored, vars
  <2> QED
    BY <2>1, StillListed
<1>4. ASSUME NEW p \in Process, \/ \E x \in Asked : Plan(p, x[1], x[2])
                               \/ \E e \in DOMAIN executions : PlanResume(p, e)
      PROVE  ListedInv' /\ ChainInv'
  <2>1. UNCHANGED <<provider, runs, pc, local, executions, listed>>
    BY <1>4 DEF Plan, PlanResume, stored, vars
  <2> QED
    BY <2>1, StillListed
<1>5. ASSUME NEW p \in Process, Bind(p) \/ RunGoesOn(p) \/ RunKilled(p)
      PROVE  ListedInv' /\ ChainInv'
  BY <1>5, BindListed, RunStepListed, CommitListedListed, ClashListed, RunKilledListed
     DEF RunGoesOn
<1> QED
  BY <1>1, <1>2, <1>3, <1>4, <1>5, Zenon DEF LibraryNext, Invocation

(* A chain is closed, and contains its execution. *)
LEMMA ChainCloses ==
  ASSUME BoundInv, NEW e \in DOMAIN executions
  PROVE  Closed(executions, Chain(e)) /\ e \in Chain(e)
<1>1. e \in Chain(e)
  BY DEF Chain
<1>2. ASSUME NEW x \in Chain(e), executions[x].predecessor # None
      PROVE  executions[x].predecessor \in Chain(e)
  <2> DEFINE d == executions[x].predecessor
  <2>1. x \in DOMAIN executions /\ d \in DOMAIN executions
    BY <1>2 DEF Chain, BoundInv, ExecutionStands
  <2>2. ASSUME NEW es \in SUBSET DOMAIN executions, e \in es, HoldsResumed(es)
        PROVE  d \in es
    <3>1. x \in es
      BY <1>2, <2>2 DEF Chain
    <3> QED
      BY <1>2, <2>2, <3>1 DEF HoldsResumed
  <2> QED
    BY <2>1, <2>2 DEF Chain
<1>3. \A x \in Chain(e) : x \in DOMAIN executions
  BY DEF Chain
<1> QED
  BY <1>1, <1>2, <1>3 DEF Closed

(* What the invariants say of the library. *)
LEMMA ListedStands ==
  ASSUME Inv, BoundInv, ListedInv, ChainInv
  PROVE  LibraryIsListed
<1>1. \A e \in DOMAIN executions : executions[e].run = e /\ PostsOf(e) = PostsIn(listed, e)
  BY DEF BoundInv, ExecutionStands, PostsOf, PostsIn
<1>2. ASSUME NEW e \in DOMAIN executions
      PROVE  RowLists(paging, live, gone, runs[e], executions[e], PostsIn(listed, e))
  BY DEF ListedInv, RowIsListed
<1>3. ProvenanceCounts
  BY <1>1, <1>2 DEF ProvenanceCounts, RowLists
<1>4. ClashMeansShift
  <2>1. paging \in {"keyset", "offset"}
    BY WorldFacts
  <2> QED
    BY <1>2, <2>1 DEF ClashMeansShift, RowLists, Shifted
<1>5. ASSUME NEW e \in DOMAIN executions, runs[e].status = "complete", Undisturbed(e)
      PROVE  runs[e].since \cap live \subseteq UNION {PostsOf(x) : x \in Chain(e)}
  <2>1. ChainHas(Chain(e), AssociatedIn(listed, Chain(e))) /\ e \in Chain(e)
    BY ChainCloses DEF ChainInv
  <2>2. Everything(paging, live, gone, runs[e], AssociatedIn(listed, Chain(e)))
    BY <1>5, <2>1 DEF ChainHas, ChainRow
  <2>3. runs[e].since \cap live \subseteq AssociatedIn(listed, Chain(e))
    BY <1>5, <2>2 DEF Everything, Undisturbed
  <2> QED
    BY <2>3 DEF AssociatedIn, PostsIn, PostsOf
<1>6. ChainAssociatesAll
  BY <1>1, <1>5 DEF ChainAssociatesAll
<1> QED
  BY <1>3, <1>4, <1>6 DEF LibraryIsListed

(* What the library has of a listing is what its executions say: each post *)
(* they count, associated once; a page refused only where a listing by     *)
(* offset shifted; and, over all the executions that a completed one goes  *)
(* on with, every post that was listed all along.                          *)
THEOREM LibraryListsAll == LibrarySpec => []LibraryIsListed
<1>1. LibraryInit => ListedInv /\ ChainInv
  <2> SUFFICES ASSUME LibraryInit PROVE ListedInv /\ ChainInv
    OBVIOUS
  <2>1. /\ executions = <<>> /\ listed = {} /\ \A p \in Process : pc[p] = "idle"
    BY DEF LibraryInit, LibraryIdle, Init
  <2>2. ListedInv
    BY <2>1 DEF ListedInv
  <2>3. \A es : Closed(executions, es) => es = {}
    BY <2>1 DEF Closed
  <2> QED
    BY <2>1, <2>2, <2>3 DEF ChainInv, ChainHas
<1>2. Inv /\ BoundInv /\ ListedInv /\ ChainInv /\ [LibraryNext]_allVars => ListedInv' /\ ChainInv'
  BY ListedSteps
<1>3. Inv /\ BoundInv /\ ListedInv /\ ChainInv => LibraryIsListed
  BY ListedStands
<1> QED
  BY <1>1, <1>2, <1>3, ExpansionsAreBound, PTL DEF LibrarySpec

=============================================================================
