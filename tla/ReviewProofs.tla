------------------------ MODULE ReviewProofs ---------------------------------
(***************************************************************************)
(* Proofs about AccountIdentity for any accounts, links, reviews and looks *)
(* of a reviewer, and about PostRelations for any finite set of posts and  *)
(* whatever is on record, found, asserted and decided about them.          *)
(***************************************************************************)
EXTENDS AccountIdentity, PostRelations, FiniteSetTheorems, TLAPS

(***************************************************************************)
(* Components                                                              *)
(***************************************************************************)

(* The component of a node in a graph: the least set with it that no edge  *)
(* leaves.                                                                 *)
PartOf(a, N, E) == {b \in N : \A S \in SUBSET N : a \in S /\ Unsplit(S, E) => b \in S}

(* It is contained in any such set,                                        *)
LEMMA PartLeast ==
  ASSUME NEW N, NEW E, NEW a, NEW S \in SUBSET N, a \in S, Unsplit(S, E)
  PROVE  PartOf(a, N, E) \subseteq S
BY DEF PartOf

(* and is one itself.                                                      *)
LEMMA PartUnsplit ==
  ASSUME NEW N, NEW E \in SUBSET (N \X N), NEW a \in N
  PROVE  /\ a \in PartOf(a, N, E) /\ PartOf(a, N, E) \in SUBSET N
         /\ Unsplit(PartOf(a, N, E), E)
<1>1. a \in PartOf(a, N, E) /\ PartOf(a, N, E) \in SUBSET N
  BY DEF PartOf
<1>2. ASSUME NEW e \in E
      PROVE  e[1] \in PartOf(a, N, E) <=> e[2] \in PartOf(a, N, E)
  <2>1. e[1] \in N /\ e[2] \in N
    OBVIOUS
  <2>2. ASSUME NEW S \in SUBSET N, Unsplit(S, E)
        PROVE  e[1] \in S <=> e[2] \in S
    BY <2>2 DEF Unsplit
  <2> QED
    BY <2>1, <2>2 DEF PartOf
<1> QED
  BY <1>1, <1>2 DEF Unsplit

(* The nodes of one component have the same component.                     *)
LEMMA PartSame ==
  ASSUME NEW N, NEW E \in SUBSET (N \X N), NEW a \in N, NEW b \in PartOf(a, N, E)
  PROVE  PartOf(b, N, E) = PartOf(a, N, E)
<1> DEFINE A == PartOf(a, N, E)
           B == PartOf(b, N, E)
<1>1. /\ A \in SUBSET N /\ a \in A /\ Unsplit(A, E) /\ b \in N
      /\ B \in SUBSET N /\ b \in B /\ Unsplit(B, E)
  BY PartUnsplit
<1>2. B \subseteq A
  BY <1>1, PartLeast
<1>3. a \in B
  <2> SUFFICES ASSUME a \notin B PROVE FALSE
    OBVIOUS
  <2>1. Unsplit(N \ B, E)
    BY <1>1 DEF Unsplit
  <2>2. A \subseteq N \ B
    BY <1>1, <2>1, PartLeast
  <2> QED
    BY <1>1, <2>2
<1>4. A \subseteq B
  BY <1>1, <1>3, PartLeast
<1> QED
  BY <1>2, <1>4

(* Another edge joins the components of its ends, and leaves the others.   *)
LEMMA PartsJoin ==
  ASSUME NEW N, NEW E \in SUBSET (N \X N), NEW p \in N \X N,
         NEW a \in N
  PROVE  /\ p[1] \in PartOf(a, N, E) \/ p[2] \in PartOf(a, N, E) =>
               PartOf(a, N, E \cup {p}) = PartOf(p[1], N, E) \cup PartOf(p[2], N, E)
         /\ ~ (p[1] \in PartOf(a, N, E) \/ p[2] \in PartOf(a, N, E)) =>
               PartOf(a, N, E \cup {p}) = PartOf(a, N, E)
<1> DEFINE G == E \cup {p}
           A == PartOf(a, N, E)
           P == PartOf(p[1], N, E)
           Q == PartOf(p[2], N, E)
           X == IF p[1] \in A \/ p[2] \in A THEN P \cup Q ELSE A
           B == PartOf(a, N, G)
<1>0. p[1] \in N /\ p[2] \in N /\ G \in SUBSET (N \X N)
  OBVIOUS
<1>1. /\ A \in SUBSET N /\ a \in A /\ Unsplit(A, E)
      /\ P \in SUBSET N /\ p[1] \in P /\ Unsplit(P, E)
      /\ Q \in SUBSET N /\ p[2] \in Q /\ Unsplit(Q, E)
  BY <1>0, PartUnsplit
<1>2. B \in SUBSET N /\ a \in B /\ Unsplit(B, G)
  BY <1>0, PartUnsplit
<1>3. Unsplit(B, E) /\ (p[1] \in B <=> p[2] \in B)
  BY <1>2 DEF Unsplit
<1>4. A \subseteq B
  <2>1. PartOf(a, N, E) \subseteq B
    BY <1>2, <1>3, PartLeast
  <2> QED
    BY <2>1
<1>5. p[1] \in A => P = A
  BY PartSame
<1>6. p[2] \in A => Q = A
  BY PartSame
<1>7. p[1] \in B => P \subseteq B
  BY <1>2, <1>3, PartLeast
<1>8. p[2] \in B => Q \subseteq B
  BY <1>2, <1>3, PartLeast
<1> HIDE DEF A, B, P, Q, G
<1>9. X \subseteq B /\ a \in X /\ X \in SUBSET N
  BY <1>1, <1>2, <1>3, <1>4, <1>5, <1>6, <1>7, <1>8
<1>10. Unsplit(X, E)
  BY <1>1 DEF Unsplit
<1>11. p[1] \in X <=> p[2] \in X
  BY <1>1
<1>12. Unsplit(X, G)
  BY <1>10, <1>11 DEF Unsplit, G
<1>13. B \subseteq X
  BY <1>9, <1>12, PartLeast DEF B
<1> QED
  BY <1>9, <1>13 DEF A, B, P, Q, G


(* The components of a graph.                                              *)
Parts(N, E) == {PartOf(n, N, E) : n \in N}

(* Without an edge every node is alone.                                    *)
LEMMA PartsApart ==
  ASSUME NEW N
  PROVE  Parts(N, {}) = {{n} : n \in N}
<1>1. ASSUME NEW n \in N
      PROVE  PartOf(n, N, {}) = {n}
  <2>1. Unsplit({n}, {})
    BY DEF Unsplit
  <2>2. PartOf(n, N, {}) \subseteq {n}
    BY <2>1, PartLeast
  <2>3. n \in PartOf(n, N, {})
    BY DEF PartOf
  <2> QED
    BY <2>2, <2>3
<1> QED
  BY <1>1 DEF Parts

(* A step of union-find takes the components of a graph to those with one  *)
(* more edge.                                                              *)
LEMMA UnitedJoins ==
  ASSUME NEW N, NEW E \in SUBSET (N \X N), NEW p \in N \X N
  PROVE  United(p, Parts(N, E)) = Parts(N, E \cup {p})
<1> DEFINE P == PartOf(p[1], N, E)
           Q == PartOf(p[2], N, E)
           hit == {g \in Parts(N, E) : {p[1], p[2]} \cap g # {}}
<1>0. p[1] \in N /\ p[2] \in N
  OBVIOUS
<1>1. /\ p[1] \in P /\ p[2] \in Q /\ P \in SUBSET N /\ Q \in SUBSET N
  BY <1>0, PartUnsplit
<1>2. ASSUME NEW a \in N
      PROVE  /\ a \in PartOf(a, N, E)
             /\ p[1] \in PartOf(a, N, E) => PartOf(a, N, E) = P
             /\ p[2] \in PartOf(a, N, E) => PartOf(a, N, E) = Q
  BY PartSame, PartUnsplit
<1>3. ASSUME NEW a \in N
      PROVE  /\ p[1] \in PartOf(a, N, E) \/ p[2] \in PartOf(a, N, E) =>
                   PartOf(a, N, E \cup {p}) = P \cup Q
             /\ ~ (p[1] \in PartOf(a, N, E) \/ p[2] \in PartOf(a, N, E)) =>
                   PartOf(a, N, E \cup {p}) = PartOf(a, N, E)
  BY PartsJoin
<1>4. P \in Parts(N, E) /\ Q \in Parts(N, E)
  BY <1>0 DEF Parts
<1> HIDE DEF P, Q
<1>5. hit = {P, Q}
  <2>1. P \in hit /\ Q \in hit
    BY <1>1, <1>4
  <2>2. ASSUME NEW g \in hit
        PROVE  g = P \/ g = Q
    <3>1. PICK a \in N : g = PartOf(a, N, E)
      BY DEF Parts
    <3>2. p[1] \in g \/ p[2] \in g
      OBVIOUS
    <3> QED
      BY <1>2, <3>1, <3>2
  <2> QED
    BY <2>1, <2>2
<1>6. UNION hit = P \cup Q
  BY <1>5
<1>7. United(p, Parts(N, E)) = (Parts(N, E) \ hit) \cup {P \cup Q}
  BY <1>6 DEF United
<1> HIDE DEF hit
<1>8. P \cup Q \in Parts(N, E \cup {p})
  BY <1>0, <1>1, <1>3 DEF Parts, P
<1>9. ASSUME NEW g \in Parts(N, E) \ hit
      PROVE  g \in Parts(N, E \cup {p})
  <2>1. PICK a \in N : g = PartOf(a, N, E)
    BY DEF Parts
  <2>2. p[1] \notin g /\ p[2] \notin g
    BY DEF hit
  <2>3. g = PartOf(a, N, E \cup {p})
    BY <1>3, <2>1, <2>2
  <2> QED
    BY <2>3 DEF Parts
<1>10. ASSUME NEW g \in Parts(N, E \cup {p})
       PROVE  g \in (Parts(N, E) \ hit) \cup {P \cup Q}
  <2>1. PICK a \in N : g = PartOf(a, N, E \cup {p})
    BY DEF Parts
  <2>2. CASE p[1] \in PartOf(a, N, E) \/ p[2] \in PartOf(a, N, E)
    BY <1>3, <2>1, <2>2
  <2>3. CASE ~ (p[1] \in PartOf(a, N, E) \/ p[2] \in PartOf(a, N, E))
    <3>1. g = PartOf(a, N, E)
      BY <1>3, <2>1, <2>3
    <3>2. g \in Parts(N, E)
      BY <3>1 DEF Parts
    <3>3. g \notin hit
      BY <2>3, <3>1 DEF hit
    <3> QED
      BY <3>2, <3>3
  <2> QED
    BY <2>2, <2>3
<1> QED
  BY <1>7, <1>8, <1>9, <1>10

(* The member of a set that a fold takes next, and the fold as a function. *)
Some(s) == CHOOSE x \in s : TRUE
Unites(g, B, S) ==
    g = [s \in SUBSET S |-> IF s = {} THEN B ELSE United(Some(s), g[s \ {Some(s)}])]

(* Union-find over a finite set of edges arrives at the components.        *)
LEMMA UnionFindIsParts ==
  ASSUME NEW N, NEW S \in SUBSET (N \X N), IsFiniteSet(S)
  PROVE  FoldSet(United, {{n} : n \in N}, S) = Parts(N, S)
<1> DEFINE B == {{n} : n \in N}
           f == [s \in SUBSET S |-> Parts(N, s)]
           h == CHOOSE g : Unites(g, B, S)
           wrong == {s \in SUBSET S : h[s] # Parts(N, s)}
<1>1. FoldSet(United, B, S) = h[S]
  <2> HIDE DEF United, B
  <2> QED
    BY Zenon DEF FoldSet, MapThenFoldSet, Unites, Some
<1>2. ASSUME NEW s \in SUBSET S, s # {}
      PROVE  /\ Some(s) \in s /\ s \ {Some(s)} \in SUBSET S
             /\ United(Some(s), Parts(N, s \ {Some(s)})) = Parts(N, s)
  <2>1. Some(s) \in s
    BY <1>2 DEF Some
  <2>2. s \ {Some(s)} \in SUBSET (N \X N) /\ Some(s) \in N \X N
    BY <2>1
  <2>3. (s \ {Some(s)}) \cup {Some(s)} = s
    BY <2>1
  <2> HIDE DEF Some
  <2>4. United(Some(s), Parts(N, s \ {Some(s)})) = Parts(N, (s \ {Some(s)}) \cup {Some(s)})
    BY <2>2, UnitedJoins
  <2> QED
    BY <2>1, <2>3, <2>4
<1>3. B = Parts(N, {})
  BY PartsApart
<1> HIDE DEF B
<1>4. Unites(f, B, S)
  <2>1. ASSUME NEW s \in SUBSET S
        PROVE  Parts(N, s) = IF s = {} THEN B ELSE United(Some(s), f[s \ {Some(s)}])
    BY <1>2, <1>3
  <2> QED
    BY <2>1 DEF Unites
<1>5. Unites(h, B, S)
  BY <1>4
<1> HIDE DEF h
<1>6. \A s \in SUBSET S : h[s] = IF s = {} THEN B ELSE United(Some(s), h[s \ {Some(s)}])
  BY <1>5 DEF Unites
<1>7. wrong = {}
  <2> SUFFICES ASSUME wrong # {} PROVE FALSE
    OBVIOUS
  <2>1. IsWellFoundedOn(StrictSubsetOrdering(S), SUBSET S)
    BY FS_StrictSubsetOrderingWellFounded, FS_FiniteSubsetsOfFinite
  <2>2. wrong \subseteq SUBSET S
    OBVIOUS
  <2>3. PICK s \in wrong : \A t \in wrong : ~ (<<t, s>> \in StrictSubsetOrdering(S))
    BY <2>1, <2>2, WFMin
  <2>4. s # {}
    BY <1>3, <1>6, <2>3
  <2>5. /\ Some(s) \in s /\ s \ {Some(s)} \in SUBSET S
        /\ United(Some(s), Parts(N, s \ {Some(s)})) = Parts(N, s)
    BY <1>2, <2>4
  <2>6. s \ {Some(s)} \notin wrong
    <3> DEFINE t == s \ {Some(s)}
    <3>1. t \subseteq s /\ t # s /\ t \in SUBSET S /\ s \in SUBSET S
      BY <2>3, <2>5
    <3> HIDE DEF t
    <3>2. <<t, s>> \in StrictSubsetOrdering(S)
      BY <3>1 DEF StrictSubsetOrdering
    <3>3. t \notin wrong
      BY <2>3, <3>2
    <3> QED
      BY <3>3 DEF t
  <2>7. h[s \ {Some(s)}] = Parts(N, s \ {Some(s)})
    BY <2>5, <2>6
  <2>8. h[s] = United(Some(s), h[s \ {Some(s)}])
    BY <1>6, <2>3, <2>4
  <2> QED
    BY <2>3, <2>5, <2>7, <2>8
<1>8. h[S] = Parts(N, S)
  BY <1>7
<1> QED
  BY <1>1, <1>8 DEF B

(* The component of an account in the sense of AccountIdentity.            *)
LEMMA ComponentIsPart ==
  \A a, E : Component(a, E) = PartOf(a, Account, E)
BY DEF Component, PartOf

(* It is contained in any set with the account that no edge leaves,        *)
LEMMA ComponentLeast ==
  ASSUME NEW E, NEW a, NEW S \in SUBSET Account, a \in S, Unsplit(S, E)
  PROVE  Component(a, E) \subseteq S
BY PartLeast, ComponentIsPart

(* and is one itself.                                                      *)
LEMMA ComponentUnsplit ==
  ASSUME NEW E \in SUBSET (Account \X Account), NEW a \in Account
  PROVE  /\ a \in Component(a, E) /\ Component(a, E) \in SUBSET Account
         /\ Unsplit(Component(a, E), E)
BY PartUnsplit, ComponentIsPart

(* The accounts of one component have the same component.                  *)
LEMMA ComponentSame ==
  ASSUME NEW E \in SUBSET (Account \X Account), NEW a \in Account, NEW b \in Component(a, E)
  PROVE  Component(b, E) = Component(a, E)
BY PartSame, ComponentIsPart

(* What connects two accounts outside of a part that nothing leaves is     *)
(* outside of it, too.                                                     *)
LEMMA ComponentRestricted ==
  ASSUME NEW E \in SUBSET (Account \X Account), NEW F \in SUBSET E,
         NEW D \in SUBSET Account, Unsplit(D, E), NEW a \in D,
         \A e \in E \ F : e[1] \notin D
  PROVE  Component(a, F) = Component(a, E) /\ Component(a, E) \subseteq D
<1> DEFINE A == Component(a, E)
           B == Component(a, F)
<1>1. /\ A \in SUBSET Account /\ a \in A /\ Unsplit(A, E)
      /\ B \in SUBSET Account /\ a \in B /\ Unsplit(B, F)
  BY ComponentUnsplit
<1>2. Unsplit(A, F)
  BY <1>1 DEF Unsplit
<1>3. B \subseteq A /\ A \subseteq D
  BY <1>1, <1>2, ComponentLeast
<1>4. Unsplit(B \cap D, E)
  BY <1>1 DEF Unsplit
<1>5. A \subseteq B \cap D
  BY <1>1, <1>4, ComponentLeast
<1> QED
  BY <1>3, <1>5

(* Another edge joins the components of its ends, and leaves the others.   *)
LEMMA ComponentsJoin ==
  ASSUME NEW E \in SUBSET (Account \X Account), NEW p \in Account \X Account,
         NEW a \in Account
  PROVE  Component(a, E \cup {p}) =
            IF p[1] \in Component(a, E) \/ p[2] \in Component(a, E)
            THEN Component(p[1], E) \cup Component(p[2], E) ELSE Component(a, E)
<1>1. p[1] \in Account /\ p[2] \in Account
  OBVIOUS
<1>2. /\ p[1] \in PartOf(a, Account, E) \/ p[2] \in PartOf(a, Account, E) =>
         PartOf(a, Account, E \cup {p}) = PartOf(p[1], Account, E) \cup PartOf(p[2], Account, E)
      /\ ~ (p[1] \in PartOf(a, Account, E) \/ p[2] \in PartOf(a, Account, E)) =>
         PartOf(a, Account, E \cup {p}) = PartOf(a, Account, E)
  BY PartsJoin
<1> QED
  BY <1>2, ComponentIsPart, Zenon

(* No component crosses from the accounts that edges join to the others.   *)
LEMMA ComponentsOfEnds ==
  ASSUME NEW E \in SUBSET (Account \X Account), NEW a \in Account
  PROVE  /\ Ends(E) \in SUBSET Account
         /\ a \in Ends(E) => Component(a, E) \subseteq Ends(E)
         /\ a \notin Ends(E) => Component(a, E) = {a}
<1>1. Ends(E) \in SUBSET Account /\ \A e \in E : e[1] \in Ends(E) /\ e[2] \in Ends(E)
  BY DEF Ends
<1>2. Unsplit(Ends(E), E)
  BY <1>1 DEF Unsplit
<1>3. a \notin Ends(E) => Unsplit({a}, E)
  BY <1>1 DEF Unsplit
<1>4. a \in Component(a, E)
  BY ComponentUnsplit
<1>5. a \in Ends(E) => Component(a, E) \subseteq Ends(E)
  BY <1>1, <1>2, ComponentLeast
<1>6. a \notin Ends(E) => Component(a, E) \subseteq {a}
  BY <1>3, ComponentLeast
<1> QED
  BY <1>1, <1>4, <1>5, <1>6

(***************************************************************************)
(* What the tables have                                                    *)
(***************************************************************************)

Sight == [claim : Pair, generation : Nat, revision : Nat, evidence : SUBSET Link]
Row == [claim : Pair, prior : State, decision : State, generation : Nat,
        saw : Sight \cup {NoView}, had : SUBSET Link]
Membership == [id : Nat \ {0}, claim : Pair, decision : Nat]

TablesInv ==
    /\ known \in SUBSET Account /\ kept \in SUBSET Link
    /\ \A l \in kept : l.from \in known
    /\ DOMAIN claims \subseteq Pair /\ claims \in [DOMAIN claims -> Claim]
    /\ \A p \in DOMAIN claims :
          p[1] \in known /\ (claims[p].target = "account" => p[2] \in known)
    /\ verdicts \in Seq(Row)
    /\ \A i \in DOMAIN verdicts : verdicts[i].claim \in DOMAIN claims
    /\ \A i \in DOMAIN verdicts :
          verdicts[i].saw # NoView => verdicts[i].saw.claim = verdicts[i].claim
    /\ DOMAIN member \subseteq known /\ member \in [DOMAIN member -> Membership]
    /\ \A a \in DOMAIN member : member[a].decision \in DOMAIN verdicts
    /\ view # NoView => view \in Sight /\ view.claim \in DOMAIN claims

(* Evidence is only added, so that its number tells whether any was.       *)
EvidenceInv ==
    /\ \A p \in DOMAIN claims : claims[p].generation = Cardinality(claims[p].evidence)
    /\ view # NoView =>
          /\ view.generation = Cardinality(view.evidence)
          /\ view.evidence \subseteq claims[view.claim].evidence
    /\ CheckedReviewSawEvidence

Own(ds, p) == {i \in DOMAIN ds : ds[i].claim = p}
Said(ds, is) == IF is = {} THEN "pending" ELSE ds[Max(is)].decision

Tells(ds, p, c) ==
    /\ c.revision = Cardinality(Own(ds, p))
    /\ c.state = Said(ds, Own(ds, p))
    /\ \A i \in Own(ds, p) : ds[i].prior = Said(ds, {j \in Own(ds, p) : j < i})

LedgerInv == \A p \in DOMAIN claims : Tells(verdicts, p, claims[p])

(* The memberships m are those that the edges give.                        *)
Components(m, edges) ==
    /\ DOMAIN m = Ends(edges)
    /\ \A a, b \in DOMAIN m : m[a].id = m[b].id <=> b \in Component(a, edges)

Justified(m, edges, ds) ==
    \A a \in DOMAIN m :
        /\ m[a].claim \in edges /\ a \in {m[a].claim[1], m[a].claim[2]}
        /\ ds[m[a].decision].claim = m[a].claim
        /\ ds[m[a].decision].decision = "confirmed"

IdentityInv ==
    /\ \A p \in DOMAIN claims : claims[p].state = "confirmed" => claims[p].target = "account"
    /\ Components(member, Confirmed(claims))
    /\ Justified(member, Confirmed(claims), verdicts)

AccountInv == TablesInv /\ EvidenceInv /\ LedgerInv /\ IdentityInv

-----------------------------------------------------------------------------

(* A candidate's key is a pair of accounts.                                *)
LEMMA PairFacts ==
  ASSUME NEW p \in Pair
  PROVE  p \in Account \X Account /\ p = <<p[1], p[2]>>
BY IdentityAssumption DEF Pair, Link

(* The links are finitely many, and so is what a candidate rests on.       *)
LEMMA LinksAreFinite ==
  ASSUME NEW S \in SUBSET Link
  PROVE  IsFiniteSet(S) /\ Cardinality(S) \in Nat
BY IdentityAssumption, FS_Subset, FS_CardinalityType DEF Link

(* A finite set of numbers that is not empty has a largest element.        *)
LEMMA MaxOfFinite ==
  ASSUME NEW S \in SUBSET Nat, IsFiniteSet(S), S # {}
  PROVE  Max(S) \in S /\ \A y \in S : Max(S) >= y
<1> DEFINE Above(x) == {y \in S : y >= x}
           T == {Above(x) : x \in S}
<1> \A y \in S : y \in Nat
  OBVIOUS
<1>1. IsWellFoundedOn(StrictSubsetOrdering(S), SUBSET S)
  BY FS_StrictSubsetOrderingWellFounded, FS_FiniteSubsetsOfFinite
<1>2. T \subseteq SUBSET S /\ T # {}
  OBVIOUS
<1>3. \E X \in T : \A Y \in T : ~ (<<Y, X>> \in StrictSubsetOrdering(S))
  BY <1>1, <1>2, WFMin
<1>4. PICK x \in S : \A y \in S : ~ (<<Above(y), Above(x)>> \in StrictSubsetOrdering(S))
  BY <1>3
<1>5. \A y \in S : x >= y
  <2> SUFFICES ASSUME NEW y \in S, ~ (x >= y) PROVE FALSE
    OBVIOUS
  <2>1. Above(y) \subseteq Above(x)
    <3> SUFFICES ASSUME NEW w \in S, w >= y PROVE w >= x
      OBVIOUS
    <3> QED
      OBVIOUS
  <2>2. x \in Above(x) /\ x \notin Above(y)
    OBVIOUS
  <2>3. Above(y) \in SUBSET S /\ Above(x) \in SUBSET S
    OBVIOUS
  <2> QED
    BY <1>4, <2>1, <2>2, <2>3 DEF StrictSubsetOrdering
<1> QED
  BY <1>5 DEF Max

(* The last of some rows of a table.                                       *)
LEMMA LastRow ==
  ASSUME NEW n \in Nat, NEW S \in SUBSET (1..n)
  PROVE  /\ IsFiniteSet(S) /\ Cardinality(S) \in Nat
         /\ S # {} => Max(S) \in S /\ \A i \in S : Max(S) >= i
<1>1. IsFiniteSet(1..n) /\ S \in SUBSET Nat
  BY FS_Interval
<1>2. IsFiniteSet(S)
  BY <1>1, FS_Subset
<1> QED
  BY <1>1, <1>2, MaxOfFinite, FS_CardinalityType

(***************************************************************************)
(* Candidates collect evidence                                             *)
(***************************************************************************)

(* What discovery and lookup make of the row of a candidate.               *)
Collects(p, c) ==
    /\ c \in Claim /\ (c.target = "account" => p[2] \in known)
    /\ c.generation = Cardinality(c.evidence)
    /\ IF p \in DOMAIN claims
       THEN /\ c.state = claims[p].state /\ c.revision = claims[p].revision
            /\ claims[p].evidence \subseteq c.evidence
            /\ claims[p].target = "account" => c.target = "account"
       ELSE c.state = "pending" /\ c.revision = 0

(* A row with more evidence, field by field.                               *)
LEMMA WithEvidenceFields ==
  ASSUME NEW c \in Claim, NEW links \in SUBSET Link
  PROVE  /\ WithEvidence(c, links) \in Claim
         /\ WithEvidence(c, links).target = c.target
         /\ WithEvidence(c, links).state = c.state
         /\ WithEvidence(c, links).revision = c.revision
         /\ WithEvidence(c, links).evidence = c.evidence \cup links
         /\ WithEvidence(c, links).generation = Cardinality(c.evidence \cup links)
<1>1. c.evidence \cup links \in SUBSET Link
  BY DEF Claim
<1>2. Cardinality(c.evidence \cup links) \in Nat
  BY <1>1, LinksAreFinite
<1> QED
  BY <1>1, <1>2 DEF WithEvidence, Claim

(* A row that is new, pending and without evidence.                        *)
LEMMA NewClaimFields ==
  ASSUME NEW p
  PROVE  /\ NewClaim(p) \in Claim /\ NewClaim(p).state = "pending" /\ NewClaim(p).revision = 0
         /\ NewClaim(p).target = "account" => p[2] \in known
BY DEF NewClaim, Claim, State

(* Resolving a target leaves the rest of the row alone.                    *)
LEMMA ResolvedFields ==
  ASSUME NEW c \in Claim, NEW target \in {"reference", "account"}
  PROVE  /\ [c EXCEPT !.target = target] \in Claim
         /\ [c EXCEPT !.target = target].target = target
         /\ [c EXCEPT !.target = target].state = c.state
         /\ [c EXCEPT !.target = target].revision = c.revision
         /\ [c EXCEPT !.target = target].evidence = c.evidence
BY DEF Claim

(* Adding evidence to a candidate, or to a new one, collects it.           *)
LEMMA EvidenceCollects ==
  ASSUME NEW p, NEW c \in Claim, NEW links \in SUBSET Link, c.target = "account" => p[2] \in known,
         IF p \in DOMAIN claims
         THEN /\ c.state = claims[p].state /\ c.revision = claims[p].revision
              /\ c.evidence = claims[p].evidence
              /\ claims[p].target = "account" => c.target = "account"
         ELSE c.state = "pending" /\ c.revision = 0
  PROVE  Collects(p, WithEvidence(c, links))
<1> DEFINE d == WithEvidence(c, links)
<1>1. /\ d \in Claim /\ d.target = c.target /\ d.state = c.state /\ d.revision = c.revision
      /\ d.evidence = c.evidence \cup links /\ d.generation = Cardinality(d.evidence)
  BY WithEvidenceFields
<1> HIDE DEF d
<1>2. p \in DOMAIN claims =>
         /\ d.state = claims[p].state /\ d.revision = claims[p].revision
         /\ claims[p].evidence \subseteq d.evidence
         /\ claims[p].target = "account" => d.target = "account"
  BY <1>1
<1>3. p \notin DOMAIN claims => d.state = "pending" /\ d.revision = 0
  BY <1>1
<1>4. d.target = "account" => p[2] \in known
  BY <1>1
<1>5. Collects(p, d)
  BY <1>1, <1>2, <1>3, <1>4, Zenon DEF Collects
<1> QED
  BY <1>5 DEF d

(* Both ways of adding evidence do.                                        *)
LEMMA UpsertCollects ==
  ASSUME TablesInv, NEW p \in Pair, NEW links \in SUBSET Link
  PROVE  Collects(p, UpsertClaim(p, links))
<1> DEFINE c == IF p \in DOMAIN claims THEN claims[p] ELSE NewClaim(p)
           target == IF p[2] \in known THEN "account" ELSE c.target
           d == [c EXCEPT !.target = target]
<1>1. c \in Claim
  BY NewClaimFields DEF TablesInv
<1>2. target \in {"reference", "account"}
  BY <1>1 DEF Claim
<1>3. c.target = "account" => p[2] \in known
  BY NewClaimFields DEF TablesInv
<1>4. UpsertClaim(p, links) = WithEvidence(d, links)
  BY DEF UpsertClaim
<1>5. target = "account" => p[2] \in known
  BY <1>3
<1>6. IF p \in DOMAIN claims THEN c = claims[p] ELSE c.state = "pending" /\ c.revision = 0
  BY NewClaimFields
<1>7. c.target = "account" => target = "account"
  OBVIOUS
<1> HIDE DEF c, target
<1>8. /\ d \in Claim /\ d.target = target /\ d.state = c.state /\ d.revision = c.revision
      /\ d.evidence = c.evidence
  BY <1>1, <1>2, ResolvedFields
<1> HIDE DEF d
<1>9. Collects(p, WithEvidence(d, links))
  BY <1>5, <1>6, <1>7, <1>8, EvidenceCollects
<1> QED
  BY <1>4, <1>9

(* A candidate of an artist record collects the link.                      *)
LEMMA LookupCollects ==
  ASSUME TablesInv, NEW p \in Pair, NEW links \in SUBSET Link
  PROVE  Collects(p, WithEvidence(IF p \in DOMAIN claims THEN claims[p] ELSE NewClaim(p), links))
<1> DEFINE c == IF p \in DOMAIN claims THEN claims[p] ELSE NewClaim(p)
<1>1. c \in Claim /\ (c.target = "account" => p[2] \in known)
  BY NewClaimFields DEF TablesInv
<1>2. IF p \in DOMAIN claims THEN c = claims[p] ELSE c.state = "pending" /\ c.revision = 0
  BY NewClaimFields
<1> HIDE DEF c
<1>3. Collects(p, WithEvidence(c, links))
  BY <1>1, <1>2, EvidenceCollects
<1> QED
  BY <1>3 DEF c

(* Collecting evidence decides nothing.                                    *)
LEMMA CollectingKeeps ==
  ASSUME AccountInv, UNCHANGED <<known, kept, verdicts, member, view>>,
         DOMAIN claims' \subseteq Pair, DOMAIN claims \subseteq DOMAIN claims',
         claims' = [p \in DOMAIN claims' |-> claims'[p]],
         \A p \in DOMAIN claims' : p[1] \in known,
         \A p \in DOMAIN claims' :
            Collects(p, claims'[p]) \/ (p \in DOMAIN claims /\ claims'[p] = claims[p])
  PROVE  AccountInv'
<1>1. \A p \in DOMAIN claims' : Collects(p, claims'[p])
  <2> SUFFICES ASSUME NEW p \in DOMAIN claims, claims'[p] = claims[p]
               PROVE  Collects(p, claims'[p])
    OBVIOUS
  <2> QED
    BY DEF AccountInv, TablesInv, EvidenceInv, Collects
<1>2. TablesInv'
  <2>1. claims' \in [DOMAIN claims' -> Claim]
    BY <1>1 DEF Collects
  <2>2. \A p \in DOMAIN claims' : claims'[p].target = "account" => p[2] \in known
    BY <1>1 DEF Collects
  <2> QED
    BY <2>1, <2>2 DEF AccountInv, TablesInv
<1>3. EvidenceInv'
  <2>1. \A p \in DOMAIN claims' : claims'[p].generation = Cardinality(claims'[p].evidence)
    BY <1>1 DEF Collects
  <2>2. \A p \in DOMAIN claims : claims[p].evidence \subseteq claims'[p].evidence
    BY <1>1 DEF Collects
  <2>3. view # NoView => view.claim \in DOMAIN claims
    BY DEF AccountInv, TablesInv
  <2> QED
    BY <2>1, <2>2, <2>3 DEF AccountInv, EvidenceInv, CheckedReviewSawEvidence
<1>4. LedgerInv'
  <2> SUFFICES ASSUME NEW p \in DOMAIN claims' PROVE Tells(verdicts, p, claims'[p])
    BY DEF LedgerInv
  <2>1. Collects(p, claims'[p])
    BY <1>1
  <2>2. CASE p \in DOMAIN claims
    <3>1. Tells(verdicts, p, claims[p])
      BY <2>2 DEF AccountInv, LedgerInv
    <3> QED
      BY <2>1, <2>2, <3>1 DEF Tells, Collects
  <2>3. CASE p \notin DOMAIN claims
    <3>1. Own(verdicts, p) = {}
      BY <2>3 DEF Own, AccountInv, TablesInv
    <3>2. Cardinality(Own(verdicts, p)) = 0
      BY <3>1, FS_EmptySet
    <3> QED
      BY <2>1, <2>3, <3>1, <3>2 DEF Tells, Said, Collects
  <2> QED
    BY <2>2, <2>3
<1>5. Confirmed(claims') = Confirmed(claims)
  <2>1. ASSUME NEW p \in DOMAIN claims',
               claims'[p].state = "confirmed" /\ claims'[p].target = "account"
        PROVE  p \in DOMAIN claims /\ claims[p].state = "confirmed" /\ claims[p].target = "account"
    BY <1>1, <2>1 DEF Collects, AccountInv, IdentityInv
  <2>2. ASSUME NEW p \in DOMAIN claims,
               claims[p].state = "confirmed" /\ claims[p].target = "account"
        PROVE  p \in DOMAIN claims' /\ claims'[p].state = "confirmed" /\ claims'[p].target = "account"
    BY <1>1, <2>2 DEF Collects
  <2> QED
    BY <2>1, <2>2 DEF Confirmed
<1>6. \A p \in DOMAIN claims' : claims'[p].state = "confirmed" => claims'[p].target = "account"
  BY <1>1 DEF Collects, AccountInv, IdentityInv
<1>7. IdentityInv'
  BY <1>5, <1>6 DEF AccountInv, IdentityInv, Components, Justified
<1> QED
  BY <1>2, <1>3, <1>4, <1>7 DEF AccountInv

(* Discovery over everything that is retained.                             *)
LEMMA DiscoverKeeps ==
  ASSUME AccountInv, Discover
  PROVE  AccountInv'
<1> DEFINE linked == {<<l.from, l.to>> : l \in {k \in kept : k.from # k.to}}
           LinksOf(p) == {l \in kept : <<l.from, l.to>> = p}
<1>1. /\ claims' = [p \in DOMAIN claims \cup linked |->
                      IF p \in linked THEN UpsertClaim(p, LinksOf(p)) ELSE claims[p]]
      /\ UNCHANGED <<known, kept, verdicts, member, view>>
  BY DEF Discover
<1>2. /\ DOMAIN claims \subseteq Pair /\ kept \subseteq Link
      /\ \A l \in kept : l.from \in known
      /\ \A p \in DOMAIN claims : p[1] \in known
  BY DEF AccountInv, TablesInv
<1>3. linked \subseteq Pair /\ \A p \in linked : p[1] \in known
  BY <1>2 DEF Pair
<1>4. \A p : LinksOf(p) \in SUBSET Link
  BY <1>2
<1> HIDE DEF linked, LinksOf
<1>5. DOMAIN claims' = DOMAIN claims \cup linked
  BY <1>1
<1>6. ASSUME NEW p \in DOMAIN claims'
      PROVE  Collects(p, claims'[p]) \/ (p \in DOMAIN claims /\ claims'[p] = claims[p])
  <2>1. CASE p \in linked
    <3>1. Collects(p, UpsertClaim(p, LinksOf(p)))
      BY <1>3, <1>4, <2>1, UpsertCollects DEF AccountInv
    <3> QED
      BY <1>1, <1>5, <2>1, <3>1
  <2>2. CASE p \notin linked
    BY <1>1, <1>5, <2>2
  <2> QED
    BY <2>1, <2>2
<1>7. /\ DOMAIN claims' \subseteq Pair /\ DOMAIN claims \subseteq DOMAIN claims'
      /\ claims' = [p \in DOMAIN claims' |-> claims'[p]]
      /\ \A p \in DOMAIN claims' : p[1] \in known
  BY <1>1, <1>2, <1>3, <1>5
<1> QED
  BY <1>1, <1>6, <1>7, CollectingKeeps

(* An artist record with a link to another account.                        *)
LEMMA LookupArtistKeeps ==
  ASSUME AccountInv, NEW l \in Link, LookupArtist(l)
  PROVE  AccountInv'
<1> DEFINE p == <<l.from, l.to>>
           c == WithEvidence(IF p \in DOMAIN claims THEN claims[p] ELSE NewClaim(p), {l})
<1>1. /\ claims' = [q \in DOMAIN claims \cup {p} |-> IF q # p THEN claims[q] ELSE c]
      /\ UNCHANGED <<known, kept, verdicts, member, view>>
      /\ p[1] \in known
  BY DEF LookupArtist
<1>2. p \in Pair
  BY DEF Pair
<1>3. Collects(p, c)
  BY <1>2, LookupCollects DEF AccountInv
<1>4. DOMAIN claims \subseteq Pair /\ \A q \in DOMAIN claims : q[1] \in known
  BY DEF AccountInv, TablesInv
<1> HIDE DEF p, c
<1>5. DOMAIN claims' = DOMAIN claims \cup {p}
  BY <1>1
<1>6. ASSUME NEW q \in DOMAIN claims'
      PROVE  Collects(q, claims'[q]) \/ (q \in DOMAIN claims /\ claims'[q] = claims[q])
  BY <1>1, <1>3, <1>5
<1>7. /\ DOMAIN claims' \subseteq Pair /\ DOMAIN claims \subseteq DOMAIN claims'
      /\ claims' = [q \in DOMAIN claims' |-> claims'[q]]
      /\ \A q \in DOMAIN claims' : q[1] \in known
  BY <1>1, <1>2, <1>4, <1>5
<1> QED
  BY <1>1, <1>6, <1>7, CollectingKeeps

(* Storing accounts and snapshots touches no candidate.                    *)
LEMMA StoringKeeps ==
  ASSUME AccountInv,
         (\E a \in Account : StoreAccount(a)) \/ (\E l \in Link : StoreSnapshot(l))
  PROVE  AccountInv'
<1>1. UNCHANGED <<claims, verdicts, member, view>>
  BY DEF StoreAccount, StoreSnapshot
<1>2. /\ known \subseteq known' /\ known' \subseteq Account
      /\ kept' \subseteq Link /\ \A k \in kept' : k.from \in known'
  BY DEF StoreAccount, StoreSnapshot, AccountInv, TablesInv
<1>3. TablesInv'
  BY <1>1, <1>2 DEF AccountInv, TablesInv
<1>4. EvidenceInv' /\ LedgerInv'
  BY <1>1 DEF AccountInv, EvidenceInv, LedgerInv, CheckedReviewSawEvidence
<1>5. IdentityInv'
  BY <1>1 DEF AccountInv, IdentityInv
<1> QED
  BY <1>3, <1>4, <1>5 DEF AccountInv

(* A reviewer who looks at a candidate notes what its row has then.        *)
LEMMA LookKeeps ==
  ASSUME AccountInv, NEW p \in Pair, Look(p)
  PROVE  AccountInv'
<1>1. /\ p \in DOMAIN claims /\ UNCHANGED <<known, kept, claims, verdicts, member>>
      /\ view' = [claim |-> p, generation |-> claims[p].generation,
                  revision |-> claims[p].revision, evidence |-> claims[p].evidence]
  BY DEF Look
<1>2. claims[p] \in Claim
  BY <1>1 DEF AccountInv, TablesInv
<1>3. view' \in Sight /\ view'.claim = p /\ view'.generation = claims[p].generation
      /\ view'.evidence = claims[p].evidence
  BY <1>1, <1>2 DEF Sight, Claim
<1>4. TablesInv'
  BY <1>1, <1>3 DEF AccountInv, TablesInv
<1>5. EvidenceInv'
  BY <1>1, <1>3 DEF AccountInv, EvidenceInv, CheckedReviewSawEvidence
<1>6. LedgerInv' /\ IdentityInv'
  BY <1>1 DEF AccountInv, LedgerInv, IdentityInv
<1> QED
  BY <1>4, <1>5, <1>6 DEF AccountInv

(***************************************************************************)
(* The ledger                                                              *)
(***************************************************************************)

(* A decision leaves the rows before it as they are.                       *)
LEMMA RowAppended ==
  ASSUME NEW vs \in Seq(Row), NEW row \in Row
  PROVE  /\ Append(vs, row) \in Seq(Row) /\ Len(vs) \in Nat /\ DOMAIN vs = 1..Len(vs)
         /\ DOMAIN Append(vs, row) = 1..Len(vs) + 1 /\ Append(vs, row)[Len(vs) + 1] = row
         /\ \A i \in DOMAIN vs : i \in DOMAIN Append(vs, row) /\ Append(vs, row)[i] = vs[i]
         /\ \A S \in SUBSET DOMAIN vs : Said(Append(vs, row), S) = Said(vs, S)
<1> DEFINE ds == Append(vs, row)
<1>1. /\ ds \in Seq(Row) /\ Len(vs) \in Nat /\ DOMAIN vs = 1..Len(vs)
      /\ DOMAIN ds = 1..Len(vs) + 1 /\ ds[Len(vs) + 1] = row
      /\ \A i \in DOMAIN vs : i \in DOMAIN ds /\ ds[i] = vs[i]
  OBVIOUS
<1> HIDE DEF ds
<1>2. ASSUME NEW S \in SUBSET DOMAIN vs
      PROVE  Said(ds, S) = Said(vs, S)
  <2>1. S # {} => Max(S) \in S
    BY <1>1, LastRow
  <2> QED
    BY <1>1, <2>1 DEF Said
<1> QED
  BY <1>1, <1>2 DEF ds

(* What the ledger tells of another candidate stands.                      *)
LEMMA TellsOn ==
  ASSUME NEW vs \in Seq(Row), NEW row \in Row, NEW q, q # row.claim, NEW c, Tells(vs, q, c)
  PROVE  Tells(Append(vs, row), q, c)
<1> DEFINE ds == Append(vs, row)
           own == Own(vs, q)
<1>1. /\ Len(vs) \in Nat /\ DOMAIN vs = 1..Len(vs) /\ DOMAIN ds = 1..Len(vs) + 1
      /\ ds[Len(vs) + 1] = row /\ \A i \in DOMAIN vs : ds[i] = vs[i]
      /\ \A S \in SUBSET DOMAIN vs : Said(ds, S) = Said(vs, S)
  BY RowAppended
<1> HIDE DEF ds
<1>2. Own(ds, q) = own /\ own \in SUBSET DOMAIN vs
  BY <1>1 DEF Own
<1> HIDE DEF own
<1>3. c.revision = Cardinality(own) /\ c.state = Said(ds, own)
  BY <1>1, <1>2 DEF Tells, own
<1>4. ASSUME NEW i \in own
      PROVE  ds[i].prior = Said(ds, {j \in own : j < i})
  <2>1. vs[i].prior = Said(vs, {j \in own : j < i})
    BY <1>4 DEF Tells, own
  <2>2. {j \in own : j < i} \in SUBSET DOMAIN vs
    BY <1>2
  <2> QED
    BY <1>1, <1>2, <2>1, <2>2
<1>5. Tells(ds, q, c)
  BY <1>2, <1>3, <1>4 DEF Tells
<1> QED
  BY <1>5 DEF ds

(* A decision tells the state of its candidate, and is one revision more.  *)
LEMMA TellsMore ==
  ASSUME NEW vs \in Seq(Row), NEW row \in Row, NEW c, Tells(vs, row.claim, c),
         row.prior = c.state, NEW d, d.state = row.decision, d.revision = c.revision + 1
  PROVE  Tells(Append(vs, row), row.claim, d)
<1> DEFINE ds == Append(vs, row)
           p == row.claim
           own == Own(vs, p)
           n == Len(vs) + 1
           more == own \cup {n}
<1>1. /\ Len(vs) \in Nat /\ DOMAIN vs = 1..Len(vs) /\ DOMAIN ds = 1..n
      /\ ds[n] = row /\ \A i \in DOMAIN vs : ds[i] = vs[i]
      /\ \A S \in SUBSET DOMAIN vs : Said(ds, S) = Said(vs, S)
  BY RowAppended
<1>2. /\ c.revision = Cardinality(own) /\ c.state = Said(vs, own)
      /\ \A i \in own : vs[i].prior = Said(vs, {j \in own : j < i})
  BY DEF Tells
<1> HIDE DEF ds
<1>3. Own(ds, p) = more /\ own \in SUBSET (1..Len(vs))
  BY <1>1 DEF Own
<1> HIDE DEF own, p
<1>4. n \notin own /\ n \in Nat /\ \A i \in own : i \in Nat /\ i < n
  BY <1>1, <1>3
<1>5. IsFiniteSet(own) /\ Cardinality(own) \in Nat
  BY <1>1, <1>3, LastRow
<1>6. d.revision = Cardinality(more)
  <2>1. Cardinality(more) = Cardinality(own) + 1
    BY <1>4, <1>5, FS_AddElement
  <2> QED
    BY <1>2, <2>1
<1>7. d.state = Said(ds, more)
  <2>1. more \in SUBSET (1..n)
    <3> SUFFICES ASSUME NEW i \in more PROVE i \in 1..n
      OBVIOUS
    <3> QED
      BY <1>1, <1>3
  <2>2. Max(more) \in more /\ Max(more) >= n
    BY <1>4, <2>1, LastRow
  <2>3. Max(more) = n
    BY <1>4, <2>2
  <2> QED
    BY <1>1, <2>3 DEF Said
<1>8. ASSUME NEW i \in more
      PROVE  ds[i].prior = Said(ds, {j \in more : j < i})
  <2>1. CASE i \in own
    <3>1. {j \in more : j < i} = {j \in own : j < i}
      BY <1>4, <2>1
    <3>2. {j \in own : j < i} \in SUBSET DOMAIN vs
      BY <1>1, <1>3
    <3> QED
      BY <1>1, <1>2, <1>3, <2>1, <3>1, <3>2
  <2>2. CASE i = n
    <3>1. \A j \in more : j < i <=> j \in own
      BY <1>4, <2>2
    <3>2. {j \in more : j < i} = own
      BY <3>1
    <3> QED
      BY <1>1, <1>2, <1>3, <2>2, <3>2
  <2> QED
    BY <2>1, <2>2
<1>9. Tells(ds, p, d)
  BY <1>3, <1>6, <1>7, <1>8 DEF Tells
<1> QED
  BY <1>9 DEF ds, p

(***************************************************************************)
(* Reviews                                                                 *)
(***************************************************************************)

Seen(p, saw) ==
    \/ saw = NoView
    \/ saw = view /\ view # NoView /\ view.claim = p /\ ~StaleReview(view)

Filing(p, decision, saw) ==
    [claim |-> p, prior |-> claims[p].state, decision |-> decision,
     generation |-> claims[p].generation, saw |-> saw, had |-> claims[p].evidence]

(* What a review does to the candidate and to the ledger.                  *)
Files(p, decision, saw) ==
    /\ p \in DOMAIN claims /\ decision \in State /\ Seen(p, saw)
    /\ claims' = [claims EXCEPT ![p] = Reviewed(claims[p], decision)]
    /\ verdicts' = Append(verdicts, Filing(p, decision, saw))
    /\ kept' = kept /\ (view' = view \/ view' = NoView)

(* A row that was reviewed, field by field.                                *)
LEMMA ReviewedFields ==
  ASSUME NEW c \in Claim, NEW decision \in State
  PROVE  /\ Reviewed(c, decision) \in Claim
         /\ Reviewed(c, decision).state = decision
         /\ Reviewed(c, decision).revision = c.revision + 1
         /\ Reviewed(c, decision).evidence = c.evidence
         /\ Reviewed(c, decision).generation = c.generation
         /\ Reviewed(c, decision).target =
               IF decision = "confirmed" THEN "account" ELSE c.target
<1> DEFINE target == IF decision = "confirmed" THEN "account" ELSE c.target
           revision == c.revision + 1
<1>1. c \in [target : {"reference", "account"}, state : State,
            evidence : SUBSET Link, generation : Nat, revision : Nat]
  BY DEF Claim
<1>2. Reviewed(c, decision) =
         [c EXCEPT !.state = decision, !.revision = revision, !.target = target]
  BY Zenon DEF Reviewed
<1>3. target \in {"reference", "account"} /\ revision \in Nat
  BY <1>1
<1> HIDE DEF target, revision
<1>4. Reviewed(c, decision) =
         [target |-> target, state |-> decision, evidence |-> c.evidence,
          generation |-> c.generation, revision |-> revision]
  BY <1>1, <1>2
<1>5. Reviewed(c, decision).target = target /\ Reviewed(c, decision).revision = revision
  BY <1>4
<1> QED
  BY <1>1, <1>3, <1>4, <1>5 DEF Claim, target, revision

(* What a reviewer saw has not changed when the review is accepted: the    *)
(* evidence only grows, and there is as much of it as then.                *)
LEMMA SeenIsThere ==
  ASSUME AccountInv, NEW p \in DOMAIN claims, NEW saw, Seen(p, saw), saw # NoView
  PROVE  saw \in Sight /\ saw.claim = p /\ saw.evidence = claims[p].evidence
<1>1. saw = view /\ view # NoView /\ view.claim = p /\ claims[p].generation = view.generation
  BY DEF Seen, StaleReview
<1>2. /\ view \in Sight /\ view.generation = Cardinality(view.evidence)
      /\ view.evidence \subseteq claims[p].evidence
      /\ claims[p].generation = Cardinality(claims[p].evidence) /\ claims[p] \in Claim
  BY <1>1 DEF AccountInv, TablesInv, EvidenceInv
<1>3. IsFiniteSet(claims[p].evidence)
  BY <1>2, LinksAreFinite DEF Claim
<1>4. claims[p].evidence = view.evidence
  BY <1>1, <1>2, <1>3, FS_Subset
<1> QED
  BY <1>1, <1>2, <1>4

(* The row of the ledger.                                                  *)
LEMMA FilingRow ==
  ASSUME AccountInv, NEW p \in DOMAIN claims, NEW decision \in State, NEW saw, Seen(p, saw)
  PROVE  /\ Filing(p, decision, saw) \in Row
         /\ Filing(p, decision, saw).claim = p
         /\ Filing(p, decision, saw).prior = claims[p].state
         /\ Filing(p, decision, saw).decision = decision
         /\ Filing(p, decision, saw).saw = saw
         /\ Filing(p, decision, saw).had = claims[p].evidence
<1>1. p \in Pair /\ claims[p] \in Claim
  BY DEF AccountInv, TablesInv
<1>2. claims[p].state \in State /\ claims[p].generation \in Nat /\ claims[p].evidence \in SUBSET Link
  BY <1>1 DEF Claim
<1>3. saw \in Sight \cup {NoView}
  BY SeenIsThere
<1> QED
  BY <1>1, <1>2, <1>3 DEF Row, Filing

(* Both kinds of reviews file a decision.                                  *)
LEMMA ReviewFiles ==
  ASSUME AccountInv, Review \/ CheckedReview
  PROVE  \E p \in DOMAIN claims, decision \in State : \E saw :
            Decide(p, decision, saw) /\ Files(p, decision, saw)
<1>1. Decisions \subseteq State
  BY IdentityAssumption DEF State
<1>2. ASSUME NEW p \in DOMAIN claims, NEW decision \in Decisions, NEW saw, Seen(p, saw),
             Decide(p, decision, saw), view' = view \/ view' = NoView
      PROVE  Decide(p, decision, saw) /\ Files(p, decision, saw)
  BY <1>1, <1>2 DEF Decide, Files, Filing
<1>3. CASE Review
  <2>1. PICK p \in DOMAIN claims, decision \in Decisions :
           Decide(p, decision, NoView) /\ UNCHANGED view
    BY <1>3 DEF Review
  <2>2. Seen(p, NoView)
    BY DEF Seen
  <2>3. Decide(p, decision, NoView) /\ Files(p, decision, NoView)
    BY <1>2, <2>1, <2>2
  <2> QED
    BY <1>1, <2>3
<1>4. CASE CheckedReview
  <2>1. PICK decision \in Decisions :
           /\ view # NoView /\ ~StaleReview(view)
           /\ Decide(view.claim, decision, view)
           /\ view' = NoView
    BY <1>4 DEF CheckedReview
  <2>2. Seen(view.claim, view) /\ view.claim \in DOMAIN claims
    BY <2>1 DEF Seen, AccountInv, TablesInv
  <2>3. Decide(view.claim, decision, view) /\ Files(view.claim, decision, view)
    BY <1>2, <2>1, <2>2
  <2> QED
    BY <1>1, <2>2, <2>3
<1> QED
  BY <1>3, <1>4

(* What it leaves of the other rows.                                       *)
LEMMA FilesFacts ==
  ASSUME AccountInv, NEW p, NEW decision, NEW saw, Files(p, decision, saw)
  PROVE  /\ DOMAIN claims' = DOMAIN claims /\ claims' \in [DOMAIN claims -> Claim]
         /\ claims'[p].state = decision /\ claims'[p].revision = claims[p].revision + 1
         /\ claims'[p].evidence = claims[p].evidence
         /\ claims'[p].generation = claims[p].generation
         /\ claims'[p].target = IF decision = "confirmed" THEN "account" ELSE claims[p].target
         /\ \A q \in DOMAIN claims : q # p => claims'[q] = claims[q]
         /\ verdicts' \in Seq(Row) /\ Len(verdicts) \in Nat /\ DOMAIN verdicts = 1..Len(verdicts)
         /\ DOMAIN verdicts' = 1..Len(verdicts) + 1
         /\ verdicts'[Len(verdicts) + 1] = Filing(p, decision, saw)
         /\ \A i \in DOMAIN verdicts : i \in DOMAIN verdicts' /\ verdicts'[i] = verdicts[i]
<1> DEFINE d == Reviewed(claims[p], decision)
<1>1. /\ p \in DOMAIN claims /\ decision \in State /\ Seen(p, saw)
      /\ claims' = [claims EXCEPT ![p] = d]
      /\ verdicts' = Append(verdicts, Filing(p, decision, saw))
  BY DEF Files
<1>2. claims \in [DOMAIN claims -> Claim] /\ verdicts \in Seq(Row)
  BY DEF AccountInv, TablesInv
<1>3. /\ d \in Claim /\ d.state = decision /\ d.revision = claims[p].revision + 1
      /\ d.evidence = claims[p].evidence /\ d.generation = claims[p].generation
      /\ d.target = IF decision = "confirmed" THEN "account" ELSE claims[p].target
  BY <1>1, <1>2, ReviewedFields
<1> HIDE DEF d
<1>4. /\ DOMAIN claims' = DOMAIN claims /\ claims' \in [DOMAIN claims -> Claim]
      /\ claims'[p] = d /\ \A q \in DOMAIN claims : q # p => claims'[q] = claims[q]
  BY <1>1, <1>2, <1>3
<1>5. Filing(p, decision, saw) \in Row
  BY <1>1, FilingRow
<1> QED
  BY <1>1, <1>2, <1>3, <1>4, <1>5, RowAppended

(* Evidence stays, and a checked review is one of the evidence there is.   *)
LEMMA FilesKeepsEvidence ==
  ASSUME AccountInv, NEW p, NEW decision, NEW saw, Files(p, decision, saw)
  PROVE  EvidenceInv'
<1> USE FilesFacts
<1>1. \A q \in DOMAIN claims' : claims'[q].generation = Cardinality(claims'[q].evidence)
                                /\ claims'[q].evidence = claims[q].evidence
  BY DEF AccountInv, EvidenceInv
<1>2. view' # NoView =>
         /\ view'.generation = Cardinality(view'.evidence)
         /\ view'.evidence \subseteq claims'[view'.claim].evidence
  BY <1>1 DEF AccountInv, EvidenceInv, TablesInv, Files
<1>3. ASSUME NEW i \in DOMAIN verdicts', verdicts'[i].saw # NoView
      PROVE  verdicts'[i].saw.evidence = verdicts'[i].had
  <2>1. CASE i \in DOMAIN verdicts
    BY <1>3, <2>1 DEF AccountInv, EvidenceInv, CheckedReviewSawEvidence
  <2>2. CASE i = Len(verdicts) + 1
    <3>1. p \in DOMAIN claims /\ decision \in State /\ Seen(p, saw)
      BY DEF Files
    <3>2. verdicts'[i].saw = saw /\ verdicts'[i].had = claims[p].evidence
      BY <2>2, <3>1, FilingRow
    <3> QED
      BY <1>3, <3>1, <3>2, SeenIsThere
  <2> QED
    BY <2>1, <2>2
<1> QED
  BY <1>1, <1>2, <1>3 DEF EvidenceInv, CheckedReviewSawEvidence

(* The ledger tells of every candidate what it told, or the decision.      *)
LEMMA FilesKeepsLedger ==
  ASSUME AccountInv, NEW p, NEW decision, NEW saw, Files(p, decision, saw)
  PROVE  LedgerInv'
<1> DEFINE row == Filing(p, decision, saw)
<1>1. /\ p \in DOMAIN claims /\ decision \in State /\ Seen(p, saw)
      /\ verdicts' = Append(verdicts, row)
  BY DEF Files
<1>2. /\ row \in Row /\ row.claim = p /\ row.prior = claims[p].state /\ row.decision = decision
      /\ verdicts \in Seq(Row)
  BY <1>1, FilingRow DEF AccountInv, TablesInv
<1> HIDE DEF row
<1>3. \A q \in DOMAIN claims : Tells(verdicts, q, claims[q])
  BY DEF AccountInv, LedgerInv
<1>4. ASSUME NEW q \in DOMAIN claims', q # p
      PROVE  Tells(verdicts', q, claims'[q])
  <2>1. q \in DOMAIN claims /\ claims'[q] = claims[q]
    BY <1>4, FilesFacts
  <2>2. Tells(Append(verdicts, row), q, claims[q])
    BY <1>2, <1>3, <1>4, <2>1, TellsOn
  <2> QED
    BY <1>1, <2>1, <2>2
<1>5. Tells(verdicts', p, claims'[p])
  <2>1. claims'[p].state = row.decision /\ claims'[p].revision = claims[p].revision + 1
    BY <1>2, FilesFacts
  <2> DEFINE d == claims'[p]
  <2> HIDE DEF d
  <2>2. d.state = row.decision /\ d.revision = claims[p].revision + 1
    BY <2>1 DEF d
  <2>3. Tells(Append(verdicts, row), row.claim, d)
    BY <1>1, <1>2, <1>3, <2>2, TellsMore
  <2> QED
    BY <1>1, <1>2, <2>3 DEF d
<1> QED
  BY <1>4, <1>5 DEF LedgerInv

(***************************************************************************)
(* Memberships and components                                              *)
(***************************************************************************)

(* Memberships that were those of the edges are those of the edges with p  *)
(* when both ends of p have one number and nobody else gets it.            *)
LEMMA ComponentsConfirmed ==
  ASSUME NEW E \in SUBSET (Account \X Account), NEW p \in Account \X Account,
         NEW m, Components(m, E), NEW n, NEW id,
         DOMAIN n = DOMAIN m \cup {p[1], p[2]},
         \A a \in DOMAIN m : n[a] = m[a],
         n[p[1]].id = id, n[p[2]].id = id,
         \A a \in DOMAIN m : m[a].id = id => p[1] \in DOMAIN m \/ p[2] \in DOMAIN m
  PROVE  Components(n, E \cup {p})
<1> DEFINE G == E \cup {p}
           Touched(a) == p[1] \in Component(a, E) \/ p[2] \in Component(a, E)
<1>1. /\ p[1] \in Account /\ p[2] \in Account /\ DOMAIN m = Ends(E)
      /\ \A a, b \in DOMAIN m : m[a].id = m[b].id <=> b \in Component(a, E)
  BY DEF Components
<1>2. DOMAIN n = Ends(G) /\ DOMAIN n \in SUBSET Account
  <2>1. Ends(G) = Ends(E) \cup {p[1], p[2]}
    BY DEF Ends
  <2> QED
    BY <1>1, <2>1, ComponentsOfEnds
<1>3. ASSUME NEW a \in DOMAIN n
      PROVE  Touched(a) <=> n[a].id = id
  <2>1. a \in Component(a, E)
    BY <1>2, ComponentUnsplit
  <2>2. CASE a \in DOMAIN m
    <3>1. Component(a, E) \subseteq DOMAIN m
      BY <1>1, <1>2, <2>2, ComponentsOfEnds
    <3>2. ASSUME NEW x \in {p[1], p[2]}, x \in Component(a, E)
          PROVE  n[a].id = id
      <4>1. x \in DOMAIN m /\ m[a].id = m[x].id
        BY <1>1, <2>2, <3>1, <3>2
      <4> QED
        BY <2>2, <4>1
    <3>3. ASSUME n[a].id = id PROVE Touched(a)
      <4>1. m[a].id = id
        BY <2>2, <3>3
      <4>2. PICK x \in {p[1], p[2]} : x \in DOMAIN m
        BY <2>2, <4>1
      <4>3. m[x].id = id
        BY <4>2
      <4> QED
        BY <1>1, <2>2, <4>1, <4>2, <4>3
    <3> QED
      BY <3>2, <3>3
  <2>3. CASE a \in {p[1], p[2]}
    BY <2>1, <2>3
  <2> QED
    BY <2>2, <2>3
<1>4. ASSUME NEW a \in DOMAIN n, NEW b \in DOMAIN n
      PROVE  n[a].id = n[b].id <=> b \in Component(a, G)
  <2>1. Component(a, G) = IF Touched(a) THEN Component(p[1], E) \cup Component(p[2], E)
                          ELSE Component(a, E)
    BY <1>2, ComponentsJoin
  <2>2. CASE Touched(a)
    <3>1. ASSUME NEW x \in {p[1], p[2]}
          PROVE  x \in Component(b, E) <=> b \in Component(x, E)
      <4>1. x \in Component(b, E) => Component(x, E) = Component(b, E)
        BY <1>2, ComponentSame
      <4>2. b \in Component(x, E) => Component(x, E) = Component(b, E)
        BY <1>1, ComponentSame
      <4>3. x \in Component(x, E) /\ b \in Component(b, E)
        BY <1>1, <1>2, ComponentUnsplit
      <4> QED
        BY <4>1, <4>2, <4>3
    <3>2. b \in Component(a, G) <=> Touched(b)
      BY <2>1, <2>2, <3>1
    <3> QED
      BY <1>3, <2>2, <3>2
  <2>3. CASE ~Touched(a)
    <3>1. Component(a, G) = Component(a, E)
      BY <2>1, <2>3
    <3>2. a \in Component(a, E)
      BY <1>2, ComponentUnsplit
    <3>3. a \in DOMAIN m
      BY <2>3, <3>2
    <3>4. Component(a, E) \subseteq DOMAIN m
      BY <1>1, <1>2, <3>3, ComponentsOfEnds
    <3>5. ASSUME n[a].id = n[b].id PROVE b \in DOMAIN m
      <4>1. ~Touched(b)
        BY <1>3, <2>3, <3>5
      <4>2. b \in Component(b, E)
        BY <1>2, ComponentUnsplit
      <4> QED
        BY <4>1, <4>2
    <3> QED
      BY <1>1, <3>1, <3>3, <3>4, <3>5
  <2> QED
    BY <2>2, <2>3
<1> QED
  BY <1>2, <1>4 DEF Components

(* What a rebuild makes of the memberships m when the edges E lose p: the  *)
(* component C of p is numbered by ids.                                    *)
Rebuilds(E, p, m, F, C, rows, n, ids) ==
    /\ E \in SUBSET (Account \X Account) /\ p \in E /\ Components(m, E)
    /\ F = E \ {p} /\ C = Component(p[1], E)
    /\ rows \in SUBSET F
    /\ \A e \in F : e \in rows <=> {e[1], e[2]} \cap C # {}
    /\ DOMAIN n = (DOMAIN m \ C) \cup Ends(rows)
    /\ \A a \in DOMAIN m \ C : n[a] = m[a]
    /\ \A a \in Ends(rows) : n[a].id = ids[Component(a, rows)]
    /\ \A g, h \in Joined(rows, Ends(rows)) : ids[g] = ids[h] => g = h
    /\ \A g \in Joined(rows, Ends(rows)) : \A a \in DOMAIN m \ C : ids[g] # m[a].id

(* They are those of the edges without p when the component of p is        *)
(* numbered anew, each part of it by a number that nobody else has.        *)
LEMMA ComponentsRebuilt ==
  ASSUME NEW E, NEW p, NEW m, NEW F, NEW C, NEW rows, NEW n, NEW ids,
         Rebuilds(E, p, m, F, C, rows, n, ids)
  PROVE  Components(n, F)
<1>0. /\ E \in SUBSET (Account \X Account) /\ p \in E /\ Components(m, E)
      /\ F = E \ {p} /\ C = Component(p[1], E)
      /\ rows \in SUBSET F
      /\ \A e \in F : e \in rows <=> {e[1], e[2]} \cap C # {}
      /\ DOMAIN n = (DOMAIN m \ C) \cup Ends(rows)
      /\ \A a \in DOMAIN m \ C : n[a] = m[a]
      /\ \A a \in Ends(rows) : n[a].id = ids[Component(a, rows)]
      /\ \A g, h \in Joined(rows, Ends(rows)) : ids[g] = ids[h] => g = h
      /\ \A g \in Joined(rows, Ends(rows)) : \A a \in DOMAIN m \ C : ids[g] # m[a].id
  BY Zenon DEF Rebuilds
<1>1. /\ p[1] \in Account /\ p[2] \in Account /\ DOMAIN m = Ends(E)
      /\ \A a, b \in DOMAIN m : m[a].id = m[b].id <=> b \in Component(a, E)
      /\ F \in SUBSET (Account \X Account) /\ F \in SUBSET E /\ rows \in SUBSET F
  BY <1>0 DEF Components
<1>2. C \in SUBSET Account /\ p[1] \in C /\ Unsplit(C, E)
  BY <1>0, <1>1, ComponentUnsplit
<1>3. p[2] \in C /\ Unsplit(C, F) /\ Unsplit(Account \ C, E) /\ Unsplit(Account \ C, F)
  BY <1>0, <1>1, <1>2 DEF Unsplit
<1>4. \A e \in rows : e[1] \in C /\ e[2] \in C
  BY <1>0, <1>2, <1>3 DEF Unsplit
<1>5. rows = {e \in F : e[1] \in C /\ e[2] \in C}
  BY <1>0, <1>4
<1>6. Ends(rows) \subseteq C /\ Ends(rows) \in SUBSET Account
  BY <1>2, <1>4 DEF Ends
<1>7. DOMAIN n = Ends(F)
  <2>1. ASSUME NEW e \in F
        PROVE  e[1] \in DOMAIN n /\ e[2] \in DOMAIN n
    <3>1. e[1] \in C <=> e[2] \in C
      BY <1>3, <2>1 DEF Unsplit
    <3>2. CASE e[1] \in C
      BY <1>0, <1>5, <2>1, <3>1, <3>2 DEF Ends
    <3>3. CASE e[1] \notin C
      BY <1>0, <1>1, <2>1, <3>1, <3>3 DEF Ends
    <3> QED
      BY <3>2, <3>3
  <2>2. Ends(F) \subseteq DOMAIN n
    BY <2>1 DEF Ends
  <2>3. Ends(rows) \subseteq Ends(F)
    BY <1>1 DEF Ends
  <2>4. DOMAIN m \ C \subseteq Ends(F)
    <3> SUFFICES ASSUME NEW a \in Ends(E), a \notin C PROVE a \in Ends(F)
      BY <1>1
    <3>1. PICK e \in E : a \in {e[1], e[2]}
      BY DEF Ends
    <3>2. e # p
      BY <1>2, <1>3, <3>1
    <3> QED
      BY <1>0, <3>1, <3>2 DEF Ends
  <2> QED
    BY <1>0, <2>2, <2>3, <2>4
<1>8. ASSUME NEW a \in DOMAIN m \ C
      PROVE  Component(a, F) = Component(a, E) /\ Component(a, E) \subseteq Account \ C
  <2>1. Ends(E) \in SUBSET Account
    BY <1>0, <1>1, ComponentsOfEnds
  <2>2. Account \ C \in SUBSET Account /\ a \in Account \ C
    BY <1>1, <2>1
  <2>3. \A e \in E \ F : e[1] \notin Account \ C
    BY <1>0, <1>2
  <2> QED
    BY <1>0, <1>1, <1>3, <2>2, <2>3, ComponentRestricted
<1>9. ASSUME NEW a \in Ends(rows)
      PROVE  Component(a, rows) = Component(a, F) /\ Component(a, F) \subseteq C
  <2>1. \A e \in F \ rows : e[1] \notin C
    BY <1>3, <1>5 DEF Unsplit
  <2>2. /\ F \in SUBSET (Account \X Account) /\ rows \in SUBSET F /\ C \in SUBSET Account
        /\ Unsplit(C, F) /\ a \in C
    BY <1>1, <1>2, <1>3, <1>6
  <2>3. Component(a, rows) = Component(a, F)
    BY <2>1, <2>2, ComponentRestricted
  <2>4. Component(a, F) \subseteq C
    BY <2>1, <2>2, ComponentRestricted
  <2> QED
    BY <2>3, <2>4
<1>10. ASSUME NEW a \in DOMAIN n, NEW b \in DOMAIN n
       PROVE  n[a].id = n[b].id <=> b \in Component(a, F)
  <2>1. CASE a \in Ends(rows)
    <3>1. CASE b \in Ends(rows)
      <4>1. Component(a, rows) \in Joined(rows, Ends(rows))
            /\ Component(b, rows) \in Joined(rows, Ends(rows))
        BY <2>1, <3>1 DEF Joined
      <4>2. n[a].id = n[b].id <=> Component(a, rows) = Component(b, rows)
        BY <1>0, <2>1, <3>1, <4>1
      <4>3. rows \in SUBSET (Account \X Account) /\ a \in Account /\ b \in Account
        BY <1>1, <1>6, <2>1, <3>1
      <4>4. b \in Component(b, rows)
        BY <4>3, ComponentUnsplit
      <4>5. b \in Component(a, rows) => Component(b, rows) = Component(a, rows)
        BY <4>3, ComponentSame
      <4> QED
        BY <1>9, <2>1, <4>2, <4>4, <4>5
    <3>2. CASE b \in DOMAIN m \ C
      <4>1. Component(a, rows) \in Joined(rows, Ends(rows))
        BY <2>1 DEF Joined
      <4>2. n[a].id # n[b].id
        <5>1. n[a].id = ids[Component(a, rows)] /\ n[b] = m[b]
          BY <1>0, <2>1, <3>2
        <5>2. ids[Component(a, rows)] # m[b].id
          BY <1>0, <3>2, <4>1
        <5> QED
          BY <5>1, <5>2
      <4>3. b \notin Component(a, F)
        BY <1>9, <2>1, <3>2
      <4> QED
        BY <4>2, <4>3
    <3> QED
      BY <1>0, <3>1, <3>2
  <2>2. CASE a \in DOMAIN m \ C
    <3>1. CASE b \in Ends(rows)
      <4>1. Component(b, rows) \in Joined(rows, Ends(rows))
        BY <3>1 DEF Joined
      <4>2. n[a].id # n[b].id
        <5>1. n[b].id = ids[Component(b, rows)] /\ n[a] = m[a]
          BY <1>0, <2>2, <3>1
        <5>2. ids[Component(b, rows)] # m[a].id
          BY <1>0, <2>2, <4>1
        <5> QED
          BY <5>1, <5>2
      <4>3. b \notin Component(a, F)
        BY <1>6, <1>8, <2>2, <3>1
      <4> QED
        BY <4>2, <4>3
    <3>2. CASE b \in DOMAIN m \ C
      <4>1. n[a] = m[a] /\ n[b] = m[b] /\ a \in DOMAIN m /\ b \in DOMAIN m
        BY <1>0, <2>2, <3>2
      <4>2. Component(a, F) = Component(a, E)
        BY <1>8, <2>2
      <4> QED
        BY <1>1, <4>1, <4>2
    <3> QED
      BY <1>0, <3>1, <3>2
  <2> QED
    BY <1>0, <2>1, <2>2
<1> QED
  BY <1>7, <1>10 DEF Components

(* The candidates that are confirmed after a review.                       *)
LEMMA FilesConfirmed ==
  ASSUME AccountInv, NEW p, NEW decision, NEW saw, Files(p, decision, saw)
  PROVE  /\ Confirmed(claims') = IF decision = "confirmed" THEN Confirmed(claims) \cup {p}
                                 ELSE Confirmed(claims) \ {p}
         /\ \A q \in DOMAIN claims' :
               claims'[q].state = "confirmed" => claims'[q].target = "account"
         /\ Confirmed(claims) \in SUBSET (Account \X Account) /\ p \in Account \X Account
         /\ claims[p].state = "confirmed" <=> p \in Confirmed(claims)
<1>1. /\ DOMAIN claims' = DOMAIN claims /\ p \in DOMAIN claims
      /\ claims'[p].state = decision
      /\ claims'[p].target = IF decision = "confirmed" THEN "account" ELSE claims[p].target
      /\ \A q \in DOMAIN claims : q # p => claims'[q] = claims[q]
  BY FilesFacts DEF Files
<1>2. \A q \in DOMAIN claims : claims[q].state = "confirmed" => claims[q].target = "account"
  BY DEF AccountInv, IdentityInv
<1>3. DOMAIN claims \subseteq Account \X Account
  BY PairFacts DEF AccountInv, TablesInv
<1>4. \A q : q \in Confirmed(claims') <=>
                IF q = p THEN decision = "confirmed" ELSE q \in Confirmed(claims)
  BY <1>1 DEF Confirmed
<1>5. Confirmed(claims') = IF decision = "confirmed" THEN Confirmed(claims) \cup {p}
                           ELSE Confirmed(claims) \ {p}
  BY <1>4
<1>6. \A q \in DOMAIN claims' : claims'[q].state = "confirmed" => claims'[q].target = "account"
  BY <1>1, <1>2
<1>7. claims[p].state = "confirmed" <=> p \in Confirmed(claims)
  BY <1>1, <1>2 DEF Confirmed
<1>8. Confirmed(claims) \in SUBSET (Account \X Account) /\ p \in Account \X Account
  BY <1>1, <1>3 DEF Confirmed
<1> QED
  BY <1>5, <1>6, <1>7, <1>8

(* A review keeps the tables if the memberships it writes are of them.     *)
LEMMA FilesKeepsTables ==
  ASSUME AccountInv, NEW p, NEW decision, NEW saw, Files(p, decision, saw),
         known \subseteq known', known' \subseteq Account,
         decision = "confirmed" => p[2] \in known',
         DOMAIN member' \subseteq known', member' \in [DOMAIN member' -> Membership],
         \A a \in DOMAIN member' : member'[a].decision \in DOMAIN verdicts'
  PROVE  TablesInv'
<1>1. /\ p \in DOMAIN claims /\ DOMAIN claims' = DOMAIN claims
      /\ claims' \in [DOMAIN claims' -> Claim] /\ kept' = kept
      /\ verdicts' \in Seq(Row)
  BY FilesFacts DEF Files
<1>2. \A q \in DOMAIN claims' :
         q[1] \in known' /\ (claims'[q].target = "account" => q[2] \in known')
  <2> SUFFICES ASSUME NEW q \in DOMAIN claims'
               PROVE  q[1] \in known' /\ (claims'[q].target = "account" => q[2] \in known')
    OBVIOUS
  <2>1. q[1] \in known /\ (claims[q].target = "account" => q[2] \in known)
    BY <1>1 DEF AccountInv, TablesInv
  <2>2. CASE q = p
    BY <2>1, <2>2, FilesFacts
  <2>3. CASE q # p
    <3>1. claims'[q] = claims[q]
      BY <1>1, <2>3, FilesFacts
    <3> QED
      BY <2>1, <3>1
  <2> QED
    BY <2>2, <2>3
<1>3. ASSUME NEW i \in DOMAIN verdicts'
      PROVE  /\ verdicts'[i].claim \in DOMAIN claims'
             /\ verdicts'[i].saw # NoView => verdicts'[i].saw.claim = verdicts'[i].claim
  <2>1. CASE i \in DOMAIN verdicts
    <3>1. verdicts'[i] = verdicts[i]
      BY <2>1, FilesFacts
    <3> QED
      BY <1>1, <2>1, <3>1 DEF AccountInv, TablesInv
  <2>2. CASE i = Len(verdicts) + 1
    <3>1. p \in DOMAIN claims /\ decision \in State /\ Seen(p, saw)
      BY DEF Files
    <3>2. verdicts'[i] = Filing(p, decision, saw)
      BY <2>2, FilesFacts
    <3>3. verdicts'[i].claim = p /\ verdicts'[i].saw = saw
      BY <3>1, <3>2, FilingRow
    <3> QED
      BY <1>1, <3>1, <3>3, SeenIsThere
  <2> QED
    BY <2>1, <2>2, FilesFacts
<1>4. view' # NoView => view' \in Sight /\ view'.claim \in DOMAIN claims'
  BY <1>1 DEF Files, AccountInv, TablesInv
<1>5. DOMAIN claims' \subseteq Pair /\ kept' \in SUBSET Link /\ \A l \in kept' : l.from \in known'
  BY <1>1 DEF AccountInv, TablesInv
<1> QED
  BY <1>1, <1>2, <1>3, <1>4, <1>5 DEF TablesInv

(* A number after all of a table is none of them.                          *)
LEMMA NextIsNew ==
  ASSUME NEW used \in SUBSET Nat, IsFiniteSet(used)
  PROVE  NextId(used) \in Nat \ {0} /\ NextId(used) \notin used
<1> DEFINE all == used \cup {0}
<1>1. all \in SUBSET Nat /\ all # {} /\ IsFiniteSet(all)
  BY FS_AddElement
<1>2. Max(all) \in all /\ \A i \in all : Max(all) >= i
  BY <1>1, MaxOfFinite
<1>3. Max(all) \in Nat /\ \A i \in used : i \in Nat /\ Max(all) >= i
  BY <1>1, <1>2
<1>4. NextId(used) = 1 + Max(all)
  BY DEF NextId
<1> HIDE DEF all
<1> QED
  BY <1>3, <1>4

(* The numbers of identities are finitely many.                            *)
LEMMA UsedAreFinite ==
  ASSUME TablesInv
  PROVE  UsedIds \in SUBSET (Nat \ {0}) /\ IsFiniteSet(UsedIds)
<1>1. IsFiniteSet(DOMAIN member)
  <2>1. DOMAIN member \in SUBSET Account
    BY DEF TablesInv
  <2> QED
    BY <2>1, IdentityAssumption, FS_Subset
<1>2. \A a \in DOMAIN member : member[a].id \in Nat \ {0}
  BY DEF TablesInv, Membership
<1> DEFINE f == [a \in DOMAIN member |-> member[a].id]
<1>3. UsedIds = {f[a] : a \in DOMAIN member}
  BY DEF UsedIds
<1>4. f \in Surjection(DOMAIN member, UsedIds)
  BY <1>3 DEF Surjection
<1>5. IsFiniteSet(UsedIds)
  BY <1>1, <1>4, FS_Surjection
<1> QED
  BY <1>2, <1>5 DEF UsedIds

(* Confirming a candidate joins the identities of its ends.                *)
LEMMA ConfirmKeeps ==
  ASSUME AccountInv, NEW p, NEW saw, Files(p, "confirmed", saw),
         ConfirmIdentity(p, Len(verdicts'))
  PROVE  AccountInv' /\ \A a \in DOMAIN member : a \in DOMAIN member' /\ member'[a] = member[a]
<1> DEFINE ids == {member[a].id : a \in {p[1], p[2]} \cap DOMAIN member}
           id == IF ids = {} THEN NextId(UsedIds) ELSE CHOOSE i \in ids : TRUE
           row == [id |-> id, claim |-> p, decision |-> Len(verdicts')]
           E == Confirmed(claims)
           n == member'
<1>1. /\ ~IdentityConflict(p)
      /\ known' = known \cup {p[2]}
      /\ n = [a \in DOMAIN member \cup {p[1], p[2]} |->
                IF a \in DOMAIN member THEN member[a] ELSE row]
  BY Zenon DEF ConfirmIdentity
<1>2. TablesInv /\ IdentityInv
  BY DEF AccountInv
<1>3. /\ Confirmed(claims') = E \cup {p} /\ E \in SUBSET (Account \X Account)
      /\ \A q \in DOMAIN claims' : claims'[q].state = "confirmed" => claims'[q].target = "account"
      /\ p \in Account \X Account
  BY FilesConfirmed
<1>4. p \in DOMAIN claims /\ p \in Pair /\ p[1] \in known
  BY <1>2 DEF Files, TablesInv
<1>5. UsedIds \in SUBSET (Nat \ {0}) /\ NextId(UsedIds) \in Nat \ {0} /\ NextId(UsedIds) \notin UsedIds
  <2>1. UsedIds \in SUBSET (Nat \ {0}) /\ IsFiniteSet(UsedIds)
    BY <1>2, UsedAreFinite
  <2> QED
    BY <2>1, NextIsNew
<1>6. ids = {} => id = NextId(UsedIds)
  OBVIOUS
<1>7. ids # {} => id \in ids
  OBVIOUS
<1>8. ids \subseteq UsedIds
  BY DEF UsedIds
<1>9. \A x \in {p[1], p[2]} \cap DOMAIN member : member[x].id \in ids
  OBVIOUS
<1>10. \A x, y \in {p[1], p[2]} \cap DOMAIN member : member[x].id = member[y].id
  BY <1>1 DEF IdentityConflict
<1>11. id \in Nat \ {0}
  BY <1>5, <1>6, <1>7, <1>8
<1>12. \A x \in {p[1], p[2]} \cap DOMAIN member : member[x].id = id
  <2> SUFFICES ASSUME NEW x \in {p[1], p[2]} \cap DOMAIN member PROVE member[x].id = id
    OBVIOUS
  <2>1. id \in ids
    BY <1>7, <1>9
  <2>2. PICK y \in {p[1], p[2]} \cap DOMAIN member : id = member[y].id
    BY <2>1
  <2> QED
    BY <1>10, <2>2
<1>13. ASSUME NEW a \in DOMAIN member, member[a].id = id
       PROVE  p[1] \in DOMAIN member \/ p[2] \in DOMAIN member
  <2>1. ids # {}
    BY <1>5, <1>6, <1>13 DEF UsedIds
  <2> QED
    BY <2>1
<1> HIDE DEF ids, id
<1>14. row.id = id /\ row.claim = p /\ row.decision = Len(verdicts')
  OBVIOUS
<1>15. /\ Len(verdicts') = Len(verdicts) + 1 /\ DOMAIN verdicts' = 1..Len(verdicts) + 1
       /\ Len(verdicts) \in Nat /\ verdicts'[Len(verdicts')] = Filing(p, "confirmed", saw)
       /\ \A i \in DOMAIN verdicts : i \in DOMAIN verdicts' /\ verdicts'[i] = verdicts[i]
  <2>1. /\ DOMAIN verdicts' = 1..Len(verdicts) + 1 /\ Len(verdicts) \in Nat
        /\ verdicts'[Len(verdicts) + 1] = Filing(p, "confirmed", saw)
        /\ \A i \in DOMAIN verdicts : i \in DOMAIN verdicts' /\ verdicts'[i] = verdicts[i]
        /\ verdicts \in Seq(Row) /\ verdicts' \in Seq(Row)
    BY <1>2, FilesFacts DEF TablesInv
  <2>2. Len(verdicts') = Len(verdicts) + 1
    BY <2>1
  <2> QED
    BY <2>1, <2>2
<1>16. row \in Membership /\ row.decision \in DOMAIN verdicts'
  BY <1>4, <1>11, <1>14, <1>15 DEF Membership
<1> HIDE DEF row
<1>17. /\ DOMAIN n = DOMAIN member \cup {p[1], p[2]}
       /\ \A a \in DOMAIN member : n[a] = member[a]
       /\ \A a \in {p[1], p[2]} \ DOMAIN member : n[a] = row
  BY <1>1
<1>18. n = [a \in DOMAIN n |-> n[a]]
  BY <1>1
<1> HIDE DEF n
<1>19. \A a \in {p[1], p[2]} : n[a].id = id
  BY <1>12, <1>14, <1>17
<1>20. Components(n, E \cup {p})
  <2>1. Components(member, E)
    BY <1>2 DEF IdentityInv
  <2>2. n[p[1]].id = id /\ n[p[2]].id = id
    BY <1>19
  <2> QED
    BY <1>3, <1>13, <1>17, <2>1, <2>2, ComponentsConfirmed
<1>21. TablesInv'
  <2>1. /\ DOMAIN member \subseteq known /\ member \in [DOMAIN member -> Membership]
        /\ \A a \in DOMAIN member : member[a].decision \in DOMAIN verdicts
        /\ known \in SUBSET Account
    BY <1>2 DEF TablesInv
  <2>2. \A a \in DOMAIN n : n[a] \in Membership /\ n[a].decision \in DOMAIN verdicts'
    <3> SUFFICES ASSUME NEW a \in DOMAIN n
                 PROVE  n[a] \in Membership /\ n[a].decision \in DOMAIN verdicts'
      OBVIOUS
    <3>1. CASE a \in DOMAIN member
      BY <1>15, <1>17, <2>1, <3>1
    <3>2. CASE a \notin DOMAIN member
      BY <1>16, <1>17, <3>2
    <3> QED
      BY <3>1, <3>2
  <2>3. known \subseteq known' /\ known' \subseteq Account /\ p[2] \in known'
    BY <1>1, <1>3, <2>1
  <2>4. DOMAIN n \subseteq known' /\ n \in [DOMAIN n -> Membership]
    BY <1>1, <1>4, <1>17, <1>18, <2>1, <2>2
  <2> QED
    BY <2>2, <2>3, <2>4, FilesKeepsTables DEF n
<1>22. Justified(n, E \cup {p}, verdicts')
  <2> SUFFICES ASSUME NEW a \in DOMAIN n
               PROVE  /\ n[a].claim \in E \cup {p} /\ a \in {n[a].claim[1], n[a].claim[2]}
                      /\ verdicts'[n[a].decision].claim = n[a].claim
                      /\ verdicts'[n[a].decision].decision = "confirmed"
    BY DEF Justified
  <2>1. CASE a \in DOMAIN member
    <3>1. n[a] = member[a] /\ member[a].decision \in DOMAIN verdicts
      BY <1>2, <1>17, <2>1 DEF TablesInv
    <3>2. verdicts'[n[a].decision] = verdicts[member[a].decision]
      BY <1>15, <3>1
    <3>3. /\ member[a].claim \in E /\ a \in {member[a].claim[1], member[a].claim[2]}
          /\ verdicts[member[a].decision].claim = member[a].claim
          /\ verdicts[member[a].decision].decision = "confirmed"
      BY <1>2, <2>1 DEF IdentityInv, Justified
    <3> QED
      BY <3>1, <3>2, <3>3
  <2>2. CASE a \notin DOMAIN member
    <3>1. a \in {p[1], p[2]} /\ n[a].claim = p /\ n[a].decision = Len(verdicts')
      BY <1>14, <1>17, <2>2
    <3>2. Seen(p, saw) /\ "confirmed" \in State
      BY DEF Files
    <3>3. Filing(p, "confirmed", saw).claim = p /\ Filing(p, "confirmed", saw).decision = "confirmed"
      BY <1>4, <3>2, FilingRow
    <3> QED
      BY <1>15, <3>1, <3>3
  <2> QED
    BY <2>1, <2>2
<1>23. IdentityInv'
  BY <1>3, <1>20, <1>22 DEF IdentityInv, n
<1> QED
  BY <1>17, <1>21, <1>23, FilesKeepsEvidence, FilesKeepsLedger DEF AccountInv, n

(* A finite set of numbers that is not empty has a smallest element.       *)
LEMMA MinOfFinite ==
  ASSUME NEW S \in SUBSET Nat, IsFiniteSet(S), S # {}
  PROVE  Min(S) \in S /\ \A y \in S : Min(S) <= y
<1> DEFINE Below(x) == {y \in S : y <= x}
           T == {Below(x) : x \in S}
<1> \A y \in S : y \in Nat
  OBVIOUS
<1>1. IsWellFoundedOn(StrictSubsetOrdering(S), SUBSET S)
  BY FS_StrictSubsetOrderingWellFounded, FS_FiniteSubsetsOfFinite
<1>2. T \subseteq SUBSET S /\ T # {}
  OBVIOUS
<1>3. \E X \in T : \A Y \in T : ~ (<<Y, X>> \in StrictSubsetOrdering(S))
  BY <1>1, <1>2, WFMin
<1>4. PICK x \in S : \A y \in S : ~ (<<Below(y), Below(x)>> \in StrictSubsetOrdering(S))
  BY <1>3
<1>5. \A y \in S : x <= y
  <2> SUFFICES ASSUME NEW y \in S, ~ (x <= y) PROVE FALSE
    OBVIOUS
  <2>1. Below(y) \subseteq Below(x)
    <3> SUFFICES ASSUME NEW w \in S, w <= y PROVE w <= x
      OBVIOUS
    <3> QED
      OBVIOUS
  <2>2. x \in Below(x) /\ x \notin Below(y)
    OBVIOUS
  <2>3. Below(y) \in SUBSET S /\ Below(x) \in SUBSET S
    OBVIOUS
  <2> QED
    BY <1>4, <2>1, <2>2, <2>3 DEF StrictSubsetOrdering
<1> QED
  BY <1>5 DEF Min

(* The groups of a rebuild take different numbers, each one that an        *)
(* account of it had or one that no account had.                           *)
LEMMA NumbersDiffer ==
  ASSUME TablesInv, NEW groups, IsFiniteSet(groups),
         NEW rank \in [groups -> Nat], \A g, h \in groups : rank[g] = rank[h] => g = h,
         NEW ids \in [groups -> Nat], Numbers(groups, rank, ids)
  PROVE  /\ \A g, h \in groups : ids[g] = ids[h] => g = h
         /\ \A g \in groups :
               ids[g] \in {member[a].id : a \in g \cap DOMAIN member} \/ ids[g] \notin UsedIds
<1>1. UsedIds \in SUBSET Nat /\ IsFiniteSet(UsedIds)
  BY UsedAreFinite
<1> DEFINE Before(g) == {h \in groups : rank[h] < rank[g]}
           taken(g) == {ids[h] : h \in Before(g)}
           had(g) == {member[a].id : a \in g \cap DOMAIN member}
           free(g) == had(g) \ taken(g)
<1>2. ASSUME NEW g \in groups
      PROVE  taken(g) \in SUBSET Nat /\ IsFiniteSet(taken(g))
  <2>1. IsFiniteSet(Before(g))
    BY FS_Subset
  <2> DEFINE f == [h \in Before(g) |-> ids[h]]
  <2>2. f \in Surjection(Before(g), taken(g))
    BY DEF Surjection
  <2>3. IsFiniteSet(taken(g))
    BY <2>1, <2>2, FS_Surjection
  <2> QED
    BY <2>3
<1>3. ASSUME NEW g \in groups
      PROVE  ids[g] \notin taken(g) /\ (ids[g] \in had(g) \/ ids[g] \notin UsedIds)
  <2>1. ids[g] = IF free(g) = {} THEN NextId(UsedIds \cup taken(g)) ELSE Min(free(g))
    BY DEF Numbers
  <2>2. had(g) \subseteq UsedIds
    BY DEF UsedIds
  <2>3. taken(g) \in SUBSET Nat /\ IsFiniteSet(taken(g))
    BY <1>2
  <2> HIDE DEF taken, had
  <2>4. CASE free(g) = {}
    <3>1. UsedIds \cup taken(g) \in SUBSET Nat /\ IsFiniteSet(UsedIds \cup taken(g))
      BY <1>1, <2>3, FS_Union
    <3> DEFINE all == UsedIds \cup taken(g)
    <3>2. NextId(all) \notin all
      BY <3>1, NextIsNew
    <3> QED
      BY <2>1, <2>4, <3>2
  <2>5. CASE free(g) # {}
    <3>1. free(g) \in SUBSET Nat /\ IsFiniteSet(free(g))
      BY <1>1, <2>2, FS_Subset
    <3>2. Min(free(g)) \in free(g)
      BY <2>5, <3>1, MinOfFinite
    <3> QED
      BY <2>1, <2>5, <3>2
  <2> QED
    BY <2>4, <2>5
<1>4. ASSUME NEW g \in groups, NEW h \in groups, rank[h] < rank[g]
      PROVE  ids[g] # ids[h]
  <2>1. ids[h] \in taken(g)
    BY <1>4
  <2> QED
    BY <1>3, <2>1
<1> HIDE DEF Before, taken, had, free
<1>5. ASSUME NEW g \in groups, NEW h \in groups, ids[g] = ids[h]
      PROVE  g = h
  <2>1. rank[g] \in Nat /\ rank[h] \in Nat
    OBVIOUS
  <2>2. ~ (rank[h] < rank[g]) /\ ~ (rank[g] < rank[h])
    BY <1>4, <1>5
  <2> QED
    BY <2>1, <2>2
<1> QED
  BY <1>3, <1>5 DEF had

(* A rebuild touches the accounts that the withdrawn candidate held        *)
(* together with its ends, and no others.                                  *)
LEMMA InvolvedIsComponent ==
  ASSUME NEW E \in SUBSET (Account \X Account), NEW p \in E, Components(member, E),
         NEW F, F = E \ {p}, NEW C, C = Component(p[1], E)
  PROVE  /\ Involved(p, F) = C /\ C \in SUBSET DOMAIN member
         /\ p[1] \in C /\ p[2] \in C /\ Unsplit(C, F)
         /\ \A a, b \in DOMAIN member : b \in C /\ member[a].id = member[b].id => a \in C
<1>1. /\ p[1] \in Account /\ p[2] \in Account /\ DOMAIN member = Ends(E)
      /\ \A a, b \in DOMAIN member : member[a].id = member[b].id <=> b \in Component(a, E)
      /\ F \in SUBSET (Account \X Account)
  BY DEF Components
<1>2. C \in SUBSET Account /\ p[1] \in C /\ Unsplit(C, E)
  BY <1>1, ComponentUnsplit
<1>3. p[2] \in C /\ Unsplit(C, F)
  BY <1>1, <1>2 DEF Unsplit
<1>4. p[1] \in DOMAIN member /\ p[2] \in DOMAIN member
  BY <1>1 DEF Ends
<1>5. C \subseteq DOMAIN member
  BY <1>1, <1>4, ComponentsOfEnds
<1>6. Component(p[2], E) = C
  BY <1>1, <1>3, ComponentSame
<1>7. SameIdentity(p[1]) = C
  BY <1>1, <1>4, <1>5 DEF SameIdentity
<1>8. SameIdentity(p[2]) = C
  BY <1>1, <1>4, <1>5, <1>6 DEF SameIdentity
<1>9. Involved(p, F) = UNION Joined(F, C)
  <2>1. {p[1], p[2]} \cup SameIdentity(p[1]) \cup SameIdentity(p[2]) = C
    BY <1>2, <1>3, <1>7, <1>8
  <2> QED
    BY <2>1 DEF Involved
<1>10. ASSUME NEW a \in C
       PROVE  a \in Component(a, F) /\ Component(a, F) \subseteq C
  <2>1. a \in Component(a, F)
    BY <1>1, <1>2, ComponentUnsplit
  <2>2. Component(a, F) \subseteq C
    BY <1>2, <1>3, ComponentLeast
  <2> QED
    BY <2>1, <2>2
<1>11. UNION Joined(F, C) = C
  BY <1>10 DEF Joined
<1>12. ASSUME NEW a \in DOMAIN member, NEW b \in DOMAIN member,
              b \in C /\ member[a].id = member[b].id
       PROVE  a \in C
  <2>1. a \in Component(b, E)
    BY <1>1, <1>12
  <2>2. Component(b, E) = C
    BY <1>1, <1>12, ComponentSame
  <2> QED
    BY <2>1, <2>2
<1> QED
  BY <1>2, <1>3, <1>5, <1>9, <1>11, <1>12

(* A candidate that the ledger tells to be confirmed has a row that        *)
(* confirmed it.                                                           *)
LEMMA ConfirmationIsThere ==
  ASSUME NEW vs \in Seq(Row), NEW q, NEW c, Tells(vs, q, c), c.state = "confirmed"
  PROVE  /\ LatestConfirmation(vs, q) \in DOMAIN vs
         /\ vs[LatestConfirmation(vs, q)].claim = q
         /\ vs[LatestConfirmation(vs, q)].decision = "confirmed"
<1> DEFINE S == {i \in DOMAIN vs : vs[i].claim = q /\ vs[i].decision = "confirmed"}
<1>1. Len(vs) \in Nat /\ DOMAIN vs = 1..Len(vs)
  OBVIOUS
<1>2. c.state = Said(vs, Own(vs, q)) /\ Own(vs, q) \in SUBSET DOMAIN vs
  BY DEF Tells, Own
<1>3. Own(vs, q) # {} /\ vs[Max(Own(vs, q))].decision = "confirmed"
  BY <1>2 DEF Said
<1>4. Max(Own(vs, q)) \in Own(vs, q)
  BY <1>1, <1>2, <1>3, LastRow
<1>5. Max(Own(vs, q)) \in S
  BY <1>3, <1>4 DEF Own
<1>6. S \in SUBSET (1..Len(vs)) /\ S # {}
  BY <1>1, <1>5
<1>7. Max(S) \in S
  BY <1>1, <1>6, LastRow
<1> QED
  BY <1>7 DEF LatestConfirmation

(* Withdrawing a confirmation splits its identity into what the others     *)
(* still hold together, and leaves the other identities as they are.       *)
LEMMA RebuildKeeps ==
  ASSUME AccountInv, NEW p, NEW decision, NEW saw, Files(p, decision, saw),
         decision # "confirmed", claims[p].state = "confirmed", Rebuild(p, claims', verdicts')
  PROVE  /\ AccountInv'
         /\ p \in Confirmed(claims)
         /\ \A a \in DOMAIN member \ Component(p[1], Confirmed(claims)) :
               a \in DOMAIN member' /\ member'[a] = member[a]
<1> DEFINE E == Confirmed(claims)
           F == Confirmed(claims')
           C == Component(p[1], E)
           J == Involved(p, F)
           rows == {e \in F : {e[1], e[2]} \cap J # {}}
           linked == Ends(rows)
           groups == Joined(rows, linked)
           others == DOMAIN member \ J
           places == 1..Cardinality(groups)
           n == member'
<1>1. TablesInv /\ IdentityInv /\ LedgerInv'
  BY FilesKeepsLedger DEF AccountInv
<1>2. /\ F = E \ {p} /\ E \in SUBSET (Account \X Account) /\ p \in E
      /\ \A q \in DOMAIN claims' : claims'[q].state = "confirmed" => claims'[q].target = "account"
  BY FilesConfirmed
<1>3. Components(member, E)
  BY <1>1 DEF IdentityInv
<1>4. /\ J = C /\ C \in SUBSET DOMAIN member
      /\ p[1] \in C /\ p[2] \in C /\ Unsplit(C, F)
      /\ \A a, b \in DOMAIN member : b \in C /\ member[a].id = member[b].id => a \in C
  <2> HIDE DEF E, F, C
  <2>1. C = Component(p[1], E)
    BY DEF C
  <2> QED
    BY <1>2, <1>3, <2>1, InvolvedIsComponent
<1>5. \E rank \in [groups -> places], cited \in [linked -> rows] :
         /\ \A g, h \in groups : rank[g] = rank[h] => g = h
         /\ \A a \in linked : a \in {cited[a][1], cited[a][2]}
         /\ \E ids \in [groups -> 1..(NextId(UsedIds) + Cardinality(groups))] :
               /\ Numbers(groups, rank, ids)
               /\ n = [a \in others \cup linked |->
                         IF a \in linked
                         THEN [id |-> ids[Component(a, rows)], claim |-> cited[a],
                               decision |-> LatestConfirmation(verdicts', cited[a])]
                         ELSE member[a]]
  BY Zenon DEF Rebuild
<1>6. known' = known
  BY Zenon DEF Rebuild
<1>7. PICK rank \in [groups -> places], cited \in [linked -> rows] :
         /\ \A g, h \in groups : rank[g] = rank[h] => g = h
         /\ \A a \in linked : a \in {cited[a][1], cited[a][2]}
         /\ \E ids \in [groups -> 1..(NextId(UsedIds) + Cardinality(groups))] :
               /\ Numbers(groups, rank, ids)
               /\ n = [a \in others \cup linked |->
                         IF a \in linked
                         THEN [id |-> ids[Component(a, rows)], claim |-> cited[a],
                               decision |-> LatestConfirmation(verdicts', cited[a])]
                         ELSE member[a]]
  BY <1>5, Zenon
<1>8. PICK ids \in [groups -> 1..(NextId(UsedIds) + Cardinality(groups))] :
         /\ Numbers(groups, rank, ids)
         /\ n = [a \in others \cup linked |->
                   IF a \in linked
                   THEN [id |-> ids[Component(a, rows)], claim |-> cited[a],
                         decision |-> LatestConfirmation(verdicts', cited[a])]
                   ELSE member[a]]
  BY <1>7, Zenon
<1>9. rows \in SUBSET F /\ F \in SUBSET (Account \X Account)
  BY <1>2
<1>10. \A e \in rows : e[1] \in C /\ e[2] \in C
  BY <1>4 DEF Unsplit
<1>11. linked \subseteq C /\ Unsplit(C, rows)
  BY <1>10 DEF Ends, Unsplit
<1>12. DOMAIN member \in SUBSET Account
  BY <1>1 DEF TablesInv
<1> HIDE DEF E, F, C, J, n
<1>13. \A g \in groups : g \subseteq C
  <2> SUFFICES ASSUME NEW a \in linked PROVE Component(a, rows) \subseteq C
    BY DEF Joined
  <2>1. C \in SUBSET Account /\ a \in C
    BY <1>4, <1>11, <1>12
  <2> QED
    BY <1>11, <2>1, ComponentLeast
<1>14. groups \in SUBSET (SUBSET Account) /\ IsFiniteSet(groups) /\ Cardinality(groups) \in Nat
  <2>1. groups \in SUBSET (SUBSET Account)
    BY <1>4, <1>12, <1>13
  <2>2. IsFiniteSet(SUBSET Account)
    BY IdentityAssumption, FS_SUBSET
  <2> QED
    BY <2>1, <2>2, FS_Subset, FS_CardinalityType
<1> HIDE DEF rows, linked, groups, others
<1>15. /\ DOMAIN n = others \cup linked /\ n = [a \in DOMAIN n |-> n[a]]
       /\ \A a \in linked : n[a] = [id |-> ids[Component(a, rows)], claim |-> cited[a],
                                    decision |-> LatestConfirmation(verdicts', cited[a])]
       /\ \A a \in others : a \notin linked => n[a] = member[a]
  BY <1>8
<1>16. /\ DOMAIN n = (DOMAIN member \ C) \cup linked
       /\ \A a \in DOMAIN member \ C : n[a] = member[a]
  BY <1>4, <1>11, <1>15 DEF others
<1>17. \A a \in linked : /\ n[a].id = ids[Component(a, rows)] /\ n[a].claim = cited[a]
                         /\ n[a].decision = LatestConfirmation(verdicts', cited[a])
  BY <1>15
<1>18. NextId(UsedIds) \in Nat
  <2>1. UsedIds \in SUBSET Nat /\ IsFiniteSet(UsedIds)
    BY <1>1, UsedAreFinite
  <2> QED
    BY <2>1, NextIsNew
<1>19. /\ rank \in [groups -> Nat] /\ ids \in [groups -> Nat]
       /\ \A g \in groups : ids[g] \in Nat \ {0}
  BY <1>14, <1>18
<1>20. /\ \A g, h \in groups : ids[g] = ids[h] => g = h
       /\ \A g \in groups :
             ids[g] \in {member[a].id : a \in g \cap DOMAIN member} \/ ids[g] \notin UsedIds
  BY <1>1, <1>7, <1>8, <1>14, <1>19, NumbersDiffer
<1>21. ASSUME NEW g \in groups, NEW a \in DOMAIN member \ C
       PROVE  ids[g] # member[a].id
  <2>1. member[a].id \in UsedIds
    BY DEF UsedIds
  <2>2. ASSUME NEW b \in g \cap DOMAIN member, ids[g] = member[b].id
        PROVE  ids[g] # member[a].id
    BY <1>4, <1>13, <2>2
  <2> QED
    BY <1>20, <2>1, <2>2
<1>22. Components(n, F)
  <2>1. /\ C = Component(p[1], E) /\ rows \in SUBSET F
        /\ \A e \in F : e \in rows <=> {e[1], e[2]} \cap C # {}
        /\ DOMAIN n = (DOMAIN member \ C) \cup Ends(rows)
        /\ \A a \in Ends(rows) : n[a].id = ids[Component(a, rows)]
        /\ \A g, h \in Joined(rows, Ends(rows)) : ids[g] = ids[h] => g = h
        /\ \A g \in Joined(rows, Ends(rows)) : \A a \in DOMAIN member \ C : ids[g] # member[a].id
    BY <1>4, <1>9, <1>16, <1>17, <1>20, <1>21 DEF C, rows, linked, groups
  <2>2. Rebuilds(E, p, member, F, C, rows, n, ids)
    BY <1>2, <1>3, <1>16, <2>1, Zenon DEF Rebuilds
  <2> QED
    BY <2>2, ComponentsRebuilt
<1>23. ASSUME NEW a \in linked
       PROVE  /\ cited[a] \in F /\ cited[a] \in Pair /\ a \in {cited[a][1], cited[a][2]}
              /\ LatestConfirmation(verdicts', cited[a]) \in DOMAIN verdicts'
              /\ verdicts'[LatestConfirmation(verdicts', cited[a])].claim = cited[a]
              /\ verdicts'[LatestConfirmation(verdicts', cited[a])].decision = "confirmed"
              /\ Component(a, rows) \in groups
  <2>1. cited[a] \in F /\ a \in {cited[a][1], cited[a][2]}
    BY <1>7, <1>9
  <2>2. cited[a] \in DOMAIN claims' /\ claims'[cited[a]].state = "confirmed"
    BY <2>1 DEF F, Confirmed
  <2>3. DOMAIN claims' \subseteq Pair /\ verdicts' \in Seq(Row)
    BY <1>1, FilesFacts DEF TablesInv
  <2> DEFINE q == cited[a]
             c == claims'[q]
             vs == verdicts'
  <2> HIDE DEF q, c, vs
  <2>4. Tells(vs, q, c) /\ vs \in Seq(Row) /\ c.state = "confirmed"
    BY <1>1, <2>2, <2>3 DEF LedgerInv, q, c, vs
  <2>5. /\ LatestConfirmation(vs, q) \in DOMAIN vs
        /\ vs[LatestConfirmation(vs, q)].claim = q
        /\ vs[LatestConfirmation(vs, q)].decision = "confirmed"
    BY <2>4, ConfirmationIsThere
  <2>6. Component(a, rows) \in groups
    BY DEF groups, Joined
  <2> QED
    BY <2>1, <2>2, <2>3, <2>5, <2>6 DEF q, vs
<1>24. /\ DOMAIN verdicts' = 1..Len(verdicts) + 1 /\ Len(verdicts) \in Nat
       /\ \A i \in DOMAIN verdicts : i \in DOMAIN verdicts' /\ verdicts'[i] = verdicts[i]
  BY FilesFacts
<1>25. ASSUME NEW a \in DOMAIN n
       PROVE  n[a] \in Membership /\ n[a].decision \in DOMAIN verdicts'
  <2>1. CASE a \in linked
    <3>1. LatestConfirmation(verdicts', cited[a]) \in Nat
      BY <1>23, <1>24, <2>1
    <3>2. ids[Component(a, rows)] \in Nat \ {0}
      BY <1>19, <1>23, <2>1
    <3> QED
      BY <1>15, <1>17, <1>23, <2>1, <3>1, <3>2 DEF Membership
  <2>2. CASE a \in DOMAIN member \ C
    BY <1>1, <1>16, <1>24, <2>2 DEF TablesInv
  <2> QED
    BY <1>16, <2>1, <2>2
<1>26. TablesInv'
  <2>1. DOMAIN n \subseteq known' /\ n \in [DOMAIN n -> Membership]
    <3>1. DOMAIN member \subseteq known
      BY <1>1 DEF TablesInv
    <3>2. DOMAIN n \subseteq DOMAIN member
      BY <1>4, <1>11, <1>16
    <3> QED
      BY <1>6, <1>15, <1>25, <3>1, <3>2
  <2>2. known \subseteq known' /\ known' \subseteq Account
    BY <1>1, <1>6 DEF TablesInv
  <2> QED
    BY <1>25, <2>1, <2>2, FilesKeepsTables DEF n
<1>27. Justified(n, F, verdicts')
  <2> SUFFICES ASSUME NEW a \in DOMAIN n
               PROVE  /\ n[a].claim \in F /\ a \in {n[a].claim[1], n[a].claim[2]}
                      /\ verdicts'[n[a].decision].claim = n[a].claim
                      /\ verdicts'[n[a].decision].decision = "confirmed"
    BY DEF Justified
  <2>1. CASE a \in linked
    BY <1>17, <1>23, <2>1
  <2>2. CASE a \in DOMAIN member \ C
    <3>1. n[a] = member[a] /\ member[a].decision \in DOMAIN verdicts
      BY <1>1, <1>16, <2>2 DEF TablesInv
    <3>2. verdicts'[n[a].decision] = verdicts[member[a].decision]
      BY <1>24, <3>1
    <3>3. /\ member[a].claim \in E /\ a \in {member[a].claim[1], member[a].claim[2]}
          /\ verdicts[member[a].decision].claim = member[a].claim
          /\ verdicts[member[a].decision].decision = "confirmed"
      BY <1>1, <2>2 DEF IdentityInv, Justified, E
    <3>4. member[a].claim # p
      BY <1>4, <2>2, <3>3
    <3> QED
      BY <1>2, <3>1, <3>2, <3>3, <3>4
  <2> QED
    BY <1>16, <2>1, <2>2
<1>28. IdentityInv'
  BY <1>2, <1>22, <1>27 DEF IdentityInv, n, F
<1>29. /\ p \in Confirmed(claims)
       /\ \A a \in DOMAIN member \ Component(p[1], Confirmed(claims)) :
             a \in DOMAIN member' /\ member'[a] = member[a]
  BY <1>2, <1>16 DEF n, C, E
<1> QED
  BY <1>26, <1>28, <1>29, FilesKeepsEvidence, FilesKeepsLedger DEF AccountInv

(* Another decision about a candidate that was not confirmed concerns no   *)
(* identity.                                                               *)
LEMMA OtherReviewKeeps ==
  ASSUME AccountInv, NEW p, NEW decision, NEW saw, Files(p, decision, saw),
         decision # "confirmed", claims[p].state # "confirmed", UNCHANGED <<known, member>>
  PROVE  AccountInv'
<1>1. /\ Confirmed(claims') = Confirmed(claims)
      /\ \A q \in DOMAIN claims' : claims'[q].state = "confirmed" => claims'[q].target = "account"
  <2>1. /\ Confirmed(claims') = Confirmed(claims) \ {p} /\ p \notin Confirmed(claims)
        /\ \A q \in DOMAIN claims' :
              claims'[q].state = "confirmed" => claims'[q].target = "account"
    BY FilesConfirmed
  <2> QED
    BY <2>1
<1>2. TablesInv /\ IdentityInv
  BY DEF AccountInv
<1>3. \A i \in DOMAIN verdicts : i \in DOMAIN verdicts' /\ verdicts'[i] = verdicts[i]
  BY FilesFacts
<1>4. \A a \in DOMAIN member : member[a].decision \in DOMAIN verdicts
  BY <1>2 DEF TablesInv
<1>5. TablesInv'
  <2>1. /\ known \subseteq known' /\ known' \subseteq Account
        /\ DOMAIN member' \subseteq known' /\ member' \in [DOMAIN member' -> Membership]
        /\ \A a \in DOMAIN member' : member'[a].decision \in DOMAIN verdicts'
    BY <1>2, <1>3, <1>4 DEF TablesInv
  <2> QED
    BY <2>1, FilesKeepsTables
<1>6. Justified(member, Confirmed(claims), verdicts')
  <2>1. Justified(member, Confirmed(claims), verdicts)
    BY <1>2 DEF IdentityInv
  <2> QED
    BY <1>3, <1>4, <2>1 DEF Justified
<1>7. IdentityInv'
  BY <1>1, <1>2, <1>6 DEF IdentityInv
<1> QED
  BY <1>5, <1>7, FilesKeepsEvidence, FilesKeepsLedger DEF AccountInv

(* A review, checked or not, also leaves accounts alone that are not near. *)
LEMMA ReviewKeeps ==
  ASSUME AccountInv, Review \/ CheckedReview
  PROVE  AccountInv' /\ OthersKeepIdentity
<1>1. PICK p \in DOMAIN claims, decision \in State :
         \E saw : Decide(p, decision, saw) /\ Files(p, decision, saw)
  BY ReviewFiles
<1>2. PICK saw : Decide(p, decision, saw) /\ Files(p, decision, saw)
  BY <1>1
<1> DEFINE ds == Append(verdicts, Filing(p, decision, saw))
           cs == [claims EXCEPT ![p] = Reviewed(claims[p], decision)]
<1>3. /\ claims' = cs /\ verdicts' = ds
      /\ \/ decision = "confirmed" /\ ConfirmIdentity(p, Len(ds))
         \/ decision # "confirmed" /\ claims[p].state = "confirmed" /\ Rebuild(p, cs, ds)
         \/ decision # "confirmed" /\ claims[p].state # "confirmed" /\ UNCHANGED <<known, member>>
  BY <1>2, Zenon DEF Decide, Filing
<1> HIDE DEF ds, cs
<1>4. Last(verdicts').claim = p
  <2>1. /\ verdicts' \in Seq(Row) /\ DOMAIN verdicts' = 1..Len(verdicts) + 1
        /\ Len(verdicts) \in Nat
        /\ verdicts'[Len(verdicts) + 1] = Filing(p, decision, saw)
    BY <1>2, FilesFacts
  <2>2. Len(verdicts') = Len(verdicts) + 1
    BY <2>1
  <2>3. Filing(p, decision, saw).claim = p
    BY <1>2, FilingRow DEF Files
  <2> QED
    BY <2>1, <2>2, <2>3 DEF Last
<1> DEFINE near == Component(p[1], Confirmed(claims) \cup {p})
<1>5. SUFFICES AccountInv' /\ \A a \in DOMAIN member \ near :
                                a \in DOMAIN member' /\ member'[a] = member[a]
  BY <1>4, Zenon DEF OthersKeepIdentity
<1>6. CASE decision = "confirmed" /\ ConfirmIdentity(p, Len(ds))
  <2>1. AccountInv' /\ \A a \in DOMAIN member : a \in DOMAIN member' /\ member'[a] = member[a]
    BY <1>2, <1>3, <1>6, ConfirmKeeps
  <2> QED
    BY <2>1
<1>7. CASE decision # "confirmed" /\ claims[p].state = "confirmed" /\ Rebuild(p, cs, ds)
  <2>1. Rebuild(p, claims', verdicts')
    BY <1>3, <1>7
  <2>2. /\ AccountInv' /\ p \in Confirmed(claims)
        /\ \A a \in DOMAIN member \ Component(p[1], Confirmed(claims)) :
              a \in DOMAIN member' /\ member'[a] = member[a]
    BY <1>2, <1>7, <2>1, RebuildKeeps
  <2>3. Confirmed(claims) \cup {p} = Confirmed(claims)
    BY <2>2
  <2> QED
    BY <2>2, <2>3
<1>8. CASE decision # "confirmed" /\ claims[p].state # "confirmed" /\ UNCHANGED <<known, member>>
  <2>1. AccountInv'
    BY <1>2, <1>8, OtherReviewKeeps
  <2> QED
    BY <1>8, <2>1
<1> QED
  BY <1>3, <1>6, <1>7, <1>8

-----------------------------------------------------------------------------

(* At first there is no candidate and no identity.                         *)
LEMMA InitKeeps ==
  ASSUME AccountInit
  PROVE  AccountInv
<1>1. /\ known = KnownAccounts /\ kept = KeptLinks
      /\ claims = << >> /\ verdicts = << >> /\ member = << >> /\ view = NoView
  BY DEF AccountInit
<1>2. DOMAIN claims = {} /\ DOMAIN verdicts = {} /\ DOMAIN member = {} /\ verdicts \in Seq(Row)
      /\ claims \in [{} -> Claim] /\ member \in [{} -> Membership]
  BY <1>1
<1>3. TablesInv
  BY <1>1, <1>2, IdentityAssumption DEF TablesInv, Link
<1>4. EvidenceInv /\ LedgerInv
  BY <1>1, <1>2 DEF EvidenceInv, CheckedReviewSawEvidence, LedgerInv
<1>5. Confirmed(claims) = {} /\ Ends({}) = {}
  BY <1>2 DEF Confirmed, Ends
<1>6. IdentityInv
  BY <1>2, <1>5 DEF IdentityInv, Components, Justified
<1> QED
  BY <1>3, <1>4, <1>6 DEF AccountInv

(* Every transaction keeps the tables in order.                            *)
LEMMA StepKeeps ==
  ASSUME AccountInv, [AccountNext]_accountVars
  PROVE  AccountInv'
<1>1. CASE UNCHANGED accountVars
  BY <1>1 DEF accountVars, AccountInv, TablesInv, EvidenceInv, CheckedReviewSawEvidence,
              LedgerInv, IdentityInv
<1>2. ASSUME NEW a \in Account, StoreAccount(a)
      PROVE  AccountInv'
  BY <1>2, StoringKeeps
<1>3. ASSUME NEW l \in Link, StoreSnapshot(l) \/ LookupArtist(l)
      PROVE  AccountInv'
  <2>1. CASE StoreSnapshot(l)
    BY <2>1, StoringKeeps
  <2>2. CASE LookupArtist(l)
    BY <2>2, LookupArtistKeeps
  <2> QED
    BY <1>3, <2>1, <2>2
<1>4. CASE Discover
  BY <1>4, DiscoverKeeps
<1>5. ASSUME NEW p \in Pair, Look(p)
      PROVE  AccountInv'
  BY <1>5, LookKeeps
<1>6. CASE Review \/ CheckedReview
  BY <1>6, ReviewKeeps
<1> QED
  BY <1>1, <1>2, <1>3, <1>4, <1>5, <1>6, Zenon DEF AccountNext

(* The inductive invariant holds throughout.                               *)
THEOREM AccountInvariance == AccountSpec => []AccountInv
<1>1. AccountInit => AccountInv
  BY InitKeeps
<1>2. AccountInv /\ [AccountNext]_accountVars => AccountInv'
  BY StepKeeps
<1> QED
  BY <1>1, <1>2, PTL DEF AccountSpec

(* The tables hold rows of their columns, every reference of a row to      *)
(* another one resolved.                                                   *)
THEOREM AccountTypesStand == AccountSpec => []AccountTypeOK
<1>1. AccountInv => AccountTypeOK
  <2> SUFFICES ASSUME AccountInv PROVE AccountTypeOK
    OBVIOUS
  <2>1. TablesInv
    BY DEF AccountInv
  <2>2. ASSUME NEW i \in DOMAIN verdicts
        PROVE  /\ [f \in {"claim", "prior", "decision", "generation"} |-> verdicts[i][f]] \in Verdict
               /\ verdicts[i].saw = NoView \/ verdicts[i].saw.claim = verdicts[i].claim
    <3>1. verdicts[i] \in Row
      BY <2>1 DEF TablesInv
    <3> QED
      BY <2>1, <3>1 DEF TablesInv, Row, Verdict
  <2>3. ASSUME NEW a \in DOMAIN member
        PROVE  member[a] \in [id : Nat \ {0}, claim : Pair, decision : DOMAIN verdicts]
    <3>1. member[a] \in Membership /\ member[a].decision \in DOMAIN verdicts
      BY <2>1 DEF TablesInv
    <3> QED
      BY <3>1 DEF Membership
  <2>4. view = NoView \/ (view.claim \in DOMAIN claims /\ view.evidence \in SUBSET Link)
    BY <2>1 DEF TablesInv, Sight
  <2> QED
    BY <2>1, <2>2, <2>3, <2>4 DEF TablesInv, AccountTypeOK
<1> QED
  BY <1>1, AccountInvariance, PTL

(* Accounts are one identity exactly when confirmed candidates connect     *)
(* them, and for reasons that the ledger has, about evidence that the      *)
(* reviewer saw.                                                           *)
THEOREM IdentitiesAreDecided == AccountSpec => []IdentityIsDecided
<1>1. AccountInv => IdentityIsDecided
  <2> SUFFICES ASSUME AccountInv PROVE IdentityIsDecided
    OBVIOUS
  <2> DEFINE E == Confirmed(claims)
  <2>1. /\ Components(member, E) /\ Justified(member, E, verdicts)
        /\ \A p \in DOMAIN claims : claims[p].state = "confirmed" => claims[p].target = "account"
    BY DEF AccountInv, IdentityInv
  <2>2. E \in SUBSET (Account \X Account)
    BY PairFacts DEF AccountInv, TablesInv, Confirmed
  <2> HIDE DEF E
  <2>3. /\ DOMAIN member = Ends(E) /\ DOMAIN member \in SUBSET Account
        /\ \A a, b \in DOMAIN member : member[a].id = member[b].id <=> b \in Component(a, E)
    BY <2>1, <2>2 DEF Components, Ends
  <2>4. ASSUME NEW p \in E
        PROVE  member[p[1]].id = member[p[2]].id
    <3>1. p[1] \in DOMAIN member /\ p[2] \in DOMAIN member /\ p[1] \in Account
      BY <2>2, <2>3 DEF Ends
    <3>2. p[1] \in Component(p[1], E) /\ Unsplit(Component(p[1], E), E)
      BY <2>2, <3>1, ComponentUnsplit
    <3>3. p[2] \in Component(p[1], E)
      BY <3>2 DEF Unsplit
    <3> QED
      BY <2>3, <3>1, <3>3
  <2>5. ASSUME NEW S \in SUBSET DOMAIN member, NEW a \in S, NEW b \in SameIdentity(a) \ S
        PROVE  \E p \in E : Cardinality({p[1], p[2]} \cap S) = 1
    <3>1. b \in Component(a, E) /\ S \in SUBSET Account
      BY <2>3 DEF SameIdentity
    <3>2. ~ Unsplit(S, E)
      BY <3>1, ComponentLeast
    <3>3. PICK p \in E : ~ (p[1] \in S <=> p[2] \in S)
      BY <3>2 DEF Unsplit
    <3>4. PICK x : {p[1], p[2]} \cap S = {x}
      <4>1. CASE p[1] \in S
        <5>1. {p[1], p[2]} \cap S = {p[1]}
          BY <3>3, <4>1
        <5> QED
          BY <5>1
      <4>2. CASE p[1] \notin S
        <5>1. {p[1], p[2]} \cap S = {p[2]}
          BY <3>3, <4>2
        <5> QED
          BY <5>1
      <4> QED
        BY <4>1, <4>2
    <3>5. Cardinality({x}) = 1
      BY FS_Singleton
    <3> QED
      BY <3>4, <3>5
  <2>6. IdentityIsComponent
    BY <2>1, <2>3, <2>4, <2>5 DEF IdentityIsComponent, E
  <2>7. MembershipJustified
    BY <2>1 DEF MembershipJustified, Justified, E
  <2>8. LedgerTellsState
    BY DEF AccountInv, LedgerInv, Tells, Own, Said, LedgerTellsState
  <2>9. CheckedReviewSawEvidence
    BY DEF AccountInv, EvidenceInv
  <2> QED
    BY <2>6, <2>7, <2>8, <2>9 DEF IdentityIsDecided
<1> QED
  BY <1>1, AccountInvariance, PTL

(* A review moves no account that no confirmed candidate connects to the   *)
(* reviewed one, whichever way it decides.                                 *)
THEOREM OthersStay == AccountSpec => [][OthersKeepIdentity]_accountVars
<1>1. AccountInv /\ [AccountNext]_accountVars => [OthersKeepIdentity]_accountVars
  <2> SUFFICES ASSUME AccountInv, AccountNext PROVE OthersKeepIdentity
    BY DEF accountVars
  <2>1. CASE Review \/ CheckedReview
    BY <2>1, ReviewKeeps
  <2>2. CASE ~ (Review \/ CheckedReview)
    <3>1. verdicts' = verdicts
      BY <2>2 DEF AccountNext, StoreAccount, StoreSnapshot, LookupArtist, Discover, Look
    <3> QED
      BY <3>1 DEF OthersKeepIdentity
  <2> QED
    BY <2>1, <2>2
<1> QED
  BY <1>1, AccountInvariance, PTL DEF AccountSpec

(***************************************************************************)
(* What the tables of posts have                                           *)
(***************************************************************************)

EvidenceRow == [kind : {"official_link", "manual", "source", "verified", "declared", "external",
                        "source_url", "parent_of", "same_bytes", "thumbnail"},
                from : Post, to : Post]
Relation == {"sourced_from", "same_work", "variant_of", "unresolved"}
MatchRow == [key : Relation \X Post \X Post \X {"reference", "local"}, relation : Relation,
             from : Post, to : Post, target : {"post", "reference"}, state : Verdicts,
             revision : Nat, evidence : SUBSET EvidenceRow]
ReviewRow == [match : Nat, relation : Relation, from : Post, to : Post, decision : Verdicts]
RelationKey == [kind : {"reposted_from", "parent_of", "same_bytes", "thumbnail_of",
                        "same_work", "variant_of"}, subject : Object, object : Object]
RelationRow == [status : {"observed", "verified", "derived", "inferred", "reviewed"},
                review : Verdicts, evidence : SUBSET EvidenceRow]
RulingRow == [key : RelationKey, decision : Verdicts, by : Nat]

About(items, ends) == items # {} /\ \A e \in items : {e.from, e.to} = ends

(* A candidate for these two posts was confirmed.                          *)
Asked(ends) ==
    \E j \in DOMAIN reviews :
        {reviews[j].from, reviews[j].to} = ends /\ reviews[j].decision = "confirmed"

(* The operator confirmed this relationship.                               *)
Ordered(k) ==
    \E i \in DOMAIN rulings :
        rulings[i].key = k /\ rulings[i].by = 0 /\ rulings[i].decision = "confirmed"

RecordInv ==
    /\ scenario \in Scenarios /\ stored \in SUBSET Post /\ pictured \in SUBSET stored
    /\ facts \in SUBSET scenario.facts
    /\ \A f \in facts : /\ f.from \in pictured
                        /\ f.kind \in {"same_bytes", "thumbnail"} => f.to \in pictured

(* A candidate is told by its key, and links two posts; a target that is   *)
(* resolved is a post of the catalog, one found here is resolved.          *)
MatchStands(m) ==
    /\ m \in MatchRow /\ m.key = <<m.relation, m.from, m.to, m.key[4]>>
    /\ m.from # m.to /\ m.from \in stored
    /\ m.target = "post" => m.to \in stored
    /\ m.key[4] = "local" => m.target = "post"
    /\ About(m.evidence, {m.from, m.to})
    /\ m.state = "confirmed" => Asked({m.from, m.to})

MatchesStand(ms) ==
    /\ ms \in Seq(MatchRow)
    /\ \A i \in DOMAIN ms : MatchStands(ms[i])
    /\ \A i, j \in DOMAIN ms : ms[i].key = ms[j].key => i = j

(* A relationship is between two objects that there are.                   *)
Grounded(k) ==
    /\ k \in RelationKey /\ k.subject \in LineageNodes /\ k.object \in LineageNodes
    /\ k.subject # k.object

RelationStands(k, row) ==
    /\ Grounded(k) /\ row \in RelationRow /\ About(row.evidence, Endpoints(k))
    /\ row.review = "confirmed" => Ordered(k) \/ Asked(Endpoints(k))

WorksInv ==
    /\ works \in Seq(Post) /\ IsInjective(works) /\ \A w \in DOMAIN works : works[w] \in pictured

PostInv ==
    /\ RecordInv /\ reviews \in Seq(ReviewRow) /\ MatchesStand(matches)
    /\ WorksInv /\ rulings \in Seq(RulingRow)
    /\ \A k \in DOMAIN relations : RelationStands(k, relations[k])

-----------------------------------------------------------------------------

(* What a scenario may bring is about posts.                               *)
LEMMA ScenarioFacts ==
  ASSUME RecordInv
  PROVE  /\ \A l \in scenario.links : l \in [from : Post, to : Post]
         /\ \A l, m \in scenario.links : l.from = m.from => l = m
         /\ \A r \in scenario.lookups :
               r \in [strategy : {"source", "verified", "declared", "external"},
                      seed : Post, found : Post]
         /\ \A c \in scenario.manual : c \in [relation : Relation, from : Post, to : Post]
         /\ \A f \in scenario.facts :
               f \in [kind : {"source_url", "parent_of", "same_bytes", "thumbnail"},
                      from : Post, to : Post]
<1> DEFINE s == scenario
<1>1. s \in Scenarios
  BY DEF RecordInv
<1>2. s \in [links : SUBSET [from : Post, to : Post],
           lookups : SUBSET [strategy : {"source", "verified", "declared", "external"},
                             seed : Post, found : Post],
           manual : SUBSET [relation : {"sourced_from", "same_work", "variant_of", "unresolved"},
                            from : Post, to : Post],
           facts : SUBSET [kind : {"source_url", "parent_of", "same_bytes", "thumbnail"},
                           from : Post, to : Post]]
  BY <1>1, RelationsAssumption
<1>3. \A l, m \in s.links : l.from = m.from => l = m
  BY <1>1, RelationsAssumption
<1>4. /\ s.links \in SUBSET [from : Post, to : Post]
      /\ s.lookups \in SUBSET [strategy : {"source", "verified", "declared", "external"},
                               seed : Post, found : Post]
      /\ s.manual \in SUBSET [relation : {"sourced_from", "same_work", "variant_of", "unresolved"},
                              from : Post, to : Post]
      /\ s.facts \in SUBSET [kind : {"source_url", "parent_of", "same_bytes", "thumbnail"},
                             from : Post, to : Post]
  BY <1>2
<1> QED
  BY <1>3, <1>4 DEF Relation

(* The first of some rows of a table.                                      *)
LEMMA FirstRow ==
  ASSUME NEW n \in Nat, NEW S \in SUBSET (1..n), S # {}
  PROVE  Min(S) \in S
<1>1. IsFiniteSet(1..n) /\ S \in SUBSET Nat
  BY FS_Interval
<1>2. IsFiniteSet(S)
  BY <1>1, FS_Subset
<1> QED
  BY <1>1, <1>2, MinOfFinite

(* The numbers of a finite set in ascending order are a sequence of        *)
(* different members of it.                                                *)
LEMMA AscendingFacts ==
  ASSUME NEW S \in SUBSET Nat, IsFiniteSet(S), NEW s \in Ascending(S)
  PROVE  /\ s \in Seq(S) /\ Len(s) \in Nat /\ DOMAIN s = 1..Len(s)
         /\ \A i \in DOMAIN s : s[i] \in S
         /\ \A i, j \in DOMAIN s : s[i] = s[j] => i = j
<1>1. Cardinality(S) \in Nat
  BY FS_CardinalityType
<1>2. s \in [1..Cardinality(S) -> S] /\ \A i, j \in DOMAIN s : i < j => s[i] < s[j]
  BY DEF Ascending
<1>3. s \in Seq(S) /\ Len(s) = Cardinality(S)
  BY <1>1, <1>2
<1>4. ASSUME NEW i \in DOMAIN s, NEW j \in DOMAIN s, s[i] = s[j]
      PROVE  i = j
  <2>1. i \in Nat /\ j \in Nat /\ s[i] \in S /\ s[j] \in S
    BY <1>1, <1>2
  <2>2. s[i] \in Nat /\ s[j] \in Nat
    BY <2>1
  <2>3. ~ (i < j) /\ ~ (j < i)
    BY <1>2, <1>4, <2>2
  <2> QED
    BY <2>1, <2>3
<1> QED
  BY <1>1, <1>2, <1>3, <1>4

(***************************************************************************)
(* What there is remains                                                   *)
(***************************************************************************)

(* Tables of posts, occurrences, works and decisions only grow.            *)
TablesGrow ==
    /\ stored \subseteq stored' /\ pictured \subseteq pictured'
    /\ DOMAIN works \subseteq DOMAIN works' /\ \A w \in DOMAIN works : works'[w] = works[w]
    /\ DOMAIN reviews \subseteq DOMAIN reviews'
    /\ \A i \in DOMAIN reviews : reviews'[i] = reviews[i]
    /\ DOMAIN rulings \subseteq DOMAIN rulings'
    /\ \A i \in DOMAIN rulings : rulings'[i] = rulings[i]

(* What a candidate rests on stays.                                        *)
LEMMA MatchStandsOn ==
  ASSUME TablesGrow, NEW m, MatchStands(m)
  PROVE  MatchStands(m)'
<1>1. \A ends : Asked(ends) => Asked(ends)'
  BY DEF TablesGrow, Asked
<1> QED
  BY <1>1 DEF TablesGrow, MatchStands

(* What a relationship rests on stays, and so do its endpoints.            *)
LEMMA RelationStandsOn ==
  ASSUME TablesGrow, NEW k, NEW row, RelationStands(k, row)
  PROVE  RelationStands(k, row)'
<1>1. \A ends : Asked(ends) => Asked(ends)'
  BY DEF TablesGrow, Asked
<1>2. Ordered(k) => Ordered(k)'
  BY DEF TablesGrow, Ordered
<1>3. Grounded(k)' /\ Endpoints(k)' = Endpoints(k)
  <2>1. Grounded(k)
    BY DEF RelationStands
  <2>2. ASSUME NEW o \in LineageNodes
        PROVE  o \in LineageNodes' /\ PostsOf(o)' = PostsOf(o)
    BY DEF TablesGrow, LineageNodes, PostsOf
  <2> QED
    BY <2>1, <2>2 DEF Grounded, Endpoints
<1> QED
  BY <1>1, <1>2, <1>3 DEF RelationStands

(***************************************************************************)
(* Candidates                                                              *)
(***************************************************************************)

(* A candidate that is new, pending and without evidence, field by field.  *)
LEMMA NewMatchFields ==
  ASSUME NEW relation \in Relation, NEW from \in Post, NEW to \in Post,
         NEW how \in {"reference", "local"}
  PROVE  LET m == NewMatch(relation, from, to, how)
         IN  /\ m \in MatchRow /\ m.key = <<relation, from, to, how>> /\ m.relation = relation
             /\ m.from = from /\ m.to = to /\ m.state = "pending" /\ m.evidence = {}
             /\ m.target = "post" <=> (how = "local" \/ to \in stored)
BY DEF NewMatch, MatchRow, Verdicts

(* A row with another piece of evidence, field by field.                   *)
LEMMA SupportedFields ==
  ASSUME NEW m \in MatchRow, NEW item \in EvidenceRow
  PROVE  LET n == Supported(m, item)
         IN  /\ n \in MatchRow /\ n.key = m.key /\ n.relation = m.relation
             /\ n.from = m.from /\ n.to = m.to /\ n.target = m.target /\ n.state = m.state
             /\ n.evidence = m.evidence \cup {item}
<1> DEFINE e == m.evidence \cup {item}
<1>1. e \in SUBSET EvidenceRow
  BY DEF MatchRow
<1>2. Supported(m, item) = [m EXCEPT !.evidence = e]
  BY DEF Supported, MatchRow
<1> HIDE DEF e
<1>3. LET n == [m EXCEPT !.evidence = e]
      IN  /\ n \in MatchRow /\ n.key = m.key /\ n.relation = m.relation
          /\ n.from = m.from /\ n.to = m.to /\ n.target = m.target /\ n.state = m.state
          /\ n.evidence = e
  BY <1>1 DEF MatchRow
<1> QED
  BY <1>2, <1>3 DEF e

(* What a row has to have for it to stand once evidence is added.          *)
Ready(m, ends) ==
    /\ m \in MatchRow /\ m.key = <<m.relation, m.from, m.to, m.key[4]>>
    /\ m.from # m.to /\ m.from \in stored
    /\ m.target = "post" => m.to \in stored
    /\ m.key[4] = "local" => m.target = "post"
    /\ {m.from, m.to} = ends
    /\ \A e \in m.evidence : {e.from, e.to} = ends
    /\ m.state = "confirmed" => Asked(ends)

(* Evidence about the two posts of a candidate leaves it standing.         *)
LEMMA SupportedStands ==
  ASSUME NEW m, NEW item \in EvidenceRow, Ready(m, {item.from, item.to})
  PROVE  MatchStands(Supported(m, item))
<1> DEFINE n == Supported(m, item)
<1>1. /\ n \in MatchRow /\ n.key = m.key /\ n.relation = m.relation
      /\ n.from = m.from /\ n.to = m.to /\ n.target = m.target /\ n.state = m.state
      /\ n.evidence = m.evidence \cup {item}
  BY SupportedFields DEF Ready
<1> HIDE DEF n
<1>2. About(n.evidence, {n.from, n.to})
  BY <1>1 DEF About, Ready
<1>3. MatchStands(n)
  BY <1>1, <1>2 DEF MatchStands, Ready
<1> QED
  BY <1>3 DEF n

(* A row that stands is ready for more.                                    *)
LEMMA StandingIsReady ==
  ASSUME NEW m, MatchStands(m)
  PROVE  Ready(m, {m.from, m.to})
BY DEF MatchStands, Ready, About

(* So is a new one, if the posts are there.                                *)
LEMMA NewIsReady ==
  ASSUME NEW relation \in Relation, NEW from \in Post, NEW to \in Post,
         NEW how \in {"reference", "local"},
         from \in stored, from # to, how = "local" => to \in stored
  PROVE  Ready(NewMatch(relation, from, to, how), {from, to})
<1> DEFINE m == NewMatch(relation, from, to, how)
<1>1. /\ m \in MatchRow /\ m.key = <<relation, from, to, how>> /\ m.relation = relation
      /\ m.from = from /\ m.to = to /\ m.state = "pending" /\ m.evidence = {}
      /\ m.target = "post" <=> (how = "local" \/ to \in stored)
  BY NewMatchFields
<1> HIDE DEF m
<1>2. m.key[4] = how
  BY <1>1
<1>3. Ready(m, {from, to})
  BY <1>1, <1>2 DEF Ready
<1> QED
  BY <1>3 DEF m

(* A row that is written or appended keeps the table in order, if no other *)
(* has its key.                                                            *)
LEMMA WithRowStands ==
  ASSUME MatchesStand(matches), NEW i \in Nat \ {0}, i <= Len(matches) + 1, NEW m, MatchStands(m),
         \A j \in DOMAIN matches : j # i => matches[j].key # m.key
  PROVE  MatchesStand(WithRow(matches, i, m))
<1> DEFINE ms == WithRow(matches, i, m)
<1>1. matches \in Seq(MatchRow) /\ m \in MatchRow /\ Len(matches) \in Nat
  BY DEF MatchesStand, MatchStands
<1>2. /\ ms \in Seq(MatchRow) /\ DOMAIN ms = DOMAIN matches \cup {i}
      /\ \A j \in DOMAIN ms : ms[j] = IF j = i THEN m ELSE matches[j]
  <2>1. CASE i > Len(matches)
    <3>1. i = Len(matches) + 1 /\ ms = Append(matches, m)
      BY <1>1, <2>1 DEF WithRow
    <3>2. ms \in Seq(MatchRow) /\ Len(ms) = Len(matches) + 1
      BY <1>1, <3>1
    <3>3. \A j \in 1..Len(matches) + 1 : ms[j] = IF j = i THEN m ELSE matches[j]
      BY <1>1, <3>1
    <3>4. DOMAIN ms = 1..Len(matches) + 1 /\ DOMAIN matches = 1..Len(matches)
      BY <1>1, <3>2
    <3>5. 1..Len(matches) + 1 = (1..Len(matches)) \cup {i}
      BY <1>1, <3>1
    <3> QED
      BY <3>2, <3>3, <3>4, <3>5
  <2>2. CASE ~ (i > Len(matches))
    <3>1. i \in DOMAIN matches /\ ms = [matches EXCEPT ![i] = m]
      BY <1>1, <2>2 DEF WithRow
    <3>2. ms \in Seq(MatchRow)
      BY <1>1, <3>1
    <3> QED
      BY <1>1, <3>1, <3>2
  <2> QED
    BY <2>1, <2>2
<1> HIDE DEF ms
<1>3. \A j \in DOMAIN ms : MatchStands(ms[j])
  BY <1>2 DEF MatchesStand
<1>4. \A j, k \in DOMAIN ms : ms[j].key = ms[k].key => j = k
  BY <1>2 DEF MatchesStand
<1>5. MatchesStand(ms)
  BY <1>2, <1>3, <1>4 DEF MatchesStand
<1> QED
  BY <1>5 DEF ms

(* What an action leaves that only moves candidates.                       *)
OnlyMatches ==
    UNCHANGED <<scenario, stored, pictured, facts, reviews, works, relations, rulings>>

(* The rest is in order if the candidates are.                             *)
LEMMA MatchesMove ==
  ASSUME PostInv, OnlyMatches, MatchesStand(matches')
  PROVE  PostInv'
<1>1. RecordInv' /\ (reviews \in Seq(ReviewRow))' /\ (rulings \in Seq(RulingRow))' /\ WorksInv'
  BY DEF PostInv, OnlyMatches, RecordInv, WorksInv
<1>2. MatchesStand(matches)'
  BY DEF OnlyMatches, MatchesStand, MatchStands, Asked
<1>3. TablesGrow
  BY DEF OnlyMatches, TablesGrow
<1>4. (\A k \in DOMAIN relations : RelationStands(k, relations[k]))'
  BY <1>3, RelationStandsOn DEF OnlyMatches, PostInv
<1> QED
  BY <1>1, <1>2, <1>4 DEF PostInv

(* An operator's candidate.                                                *)
LEMMA CreateKeeps ==
  ASSUME PostInv, NEW c \in scenario.manual, CreatePostCandidate(c)
  PROVE  PostInv'
<1> DEFINE sorted == c.relation = "same_work"
           from == IF sorted THEN Lesser(c.from, c.to) ELSE c.from
           to == IF sorted THEN Greater(c.from, c.to) ELSE c.to
           key == <<c.relation, from, to, "local">>
           at == {j \in DOMAIN matches : matches[j].key = key}
           i == RowOf(matches, key)
           old == IF i \in DOMAIN matches THEN matches[i]
                  ELSE NewMatch(c.relation, from, to, "local")
           item == [kind |-> "manual", from |-> from, to |-> to]
<1>1. /\ {c.from, c.to} \subseteq stored /\ c.from # c.to
      /\ matches' = WithRow(matches, i, Supported(old, item)) /\ OnlyMatches
  BY DEF CreatePostCandidate, OnlyMatches
<1>2. /\ c.relation \in Relation /\ c.from \in Post /\ c.to \in Post
      /\ MatchesStand(matches) /\ matches \in Seq(MatchRow) /\ Len(matches) \in Nat
  BY ScenarioFacts DEF PostInv, MatchesStand
<1>3. {from, to} = {c.from, c.to} /\ from \in Post /\ to \in Post
  BY <1>2 DEF Lesser, Greater
<1>4. from # to /\ from \in stored /\ to \in stored
  BY <1>1, <1>3
<1> HIDE DEF sorted, from, to
<1>5. /\ i \in Nat \ {0} /\ i <= Len(matches) + 1
      /\ i \in DOMAIN matches => matches[i].key = key
      /\ i \notin DOMAIN matches => at = {}
  <2>1. CASE at = {}
    <3>1. i = Len(matches) + 1
      BY <2>1 DEF RowOf
    <3> QED
      BY <1>2, <2>1, <3>1
  <2>2. CASE at # {}
    <3>1. i = Min(at) /\ at \in SUBSET (1..Len(matches))
      BY <1>2, <2>2 DEF RowOf
    <3> HIDE DEF i
    <3>2. i \in at
      BY <1>2, <2>2, <3>1, FirstRow
    <3>3. i \in DOMAIN matches /\ matches[i].key = key
      BY <3>2
    <3>4. i \in 1..Len(matches)
      BY <3>1, <3>2
    <3> QED
      BY <1>2, <3>3, <3>4
  <2> QED
    BY <2>1, <2>2
<1>6. \A j \in DOMAIN matches : j # i => matches[j].key # key
  BY <1>2, <1>5 DEF MatchesStand
<1>7. item \in EvidenceRow /\ item.from = from /\ item.to = to
  BY <1>3 DEF EvidenceRow
<1> HIDE DEF item, i, at
<1>8. Ready(old, {from, to}) /\ old.key = key
  <2>1. CASE i \in DOMAIN matches
    <3>1. old = matches[i] /\ MatchStands(old) /\ old.key = key
      BY <1>2, <1>5, <2>1 DEF MatchesStand
    <3>2. old.from = from /\ old.to = to
      BY <3>1 DEF MatchStands
    <3> QED
      BY <3>1, <3>2, StandingIsReady
  <2>2. CASE i \notin DOMAIN matches
    <3>1. old = NewMatch(c.relation, from, to, "local")
      BY <2>2
    <3>2. Ready(NewMatch(c.relation, from, to, "local"), {from, to})
      BY <1>2, <1>3, <1>4, NewIsReady
    <3>3. NewMatch(c.relation, from, to, "local").key = key
      BY <1>2, <1>3, NewMatchFields
    <3> QED
      BY <3>1, <3>2, <3>3
  <2> QED
    BY <2>1, <2>2
<1> HIDE DEF old
<1>9. MatchStands(Supported(old, item)) /\ Supported(old, item).key = key
  BY <1>7, <1>8, SupportedStands, SupportedFields DEF Ready
<1>10. MatchesStand(matches')
  BY <1>1, <1>2, <1>5, <1>6, <1>9, WithRowStands
<1> QED
  BY <1>1, <1>10, MatchesMove

(* A candidate of this kind for these posts, in either orientation.        *)
IsFor(m, relation, a, b) ==
    m.relation = relation /\ m.target = "post" /\ {m.from, m.to} = {a, b}

(* The candidate a lookup adds to: one for a source, if there is any, and  *)
(* a new one only if there is none for the same work either.               *)
LEMMA ExistingMatchFacts ==
  ASSUME MatchesStand(matches), NEW a, NEW b
  PROVE  LET i == ExistingMatch(a, b)
         IN  /\ i \in Nat \ {0} /\ i <= Len(matches) + 1
             /\ i \in DOMAIN matches =>
                   IsFor(matches[i], "sourced_from", a, b) \/ IsFor(matches[i], "same_work", a, b)
             /\ (i \notin DOMAIN matches \/ matches[i].relation = "same_work") =>
                   \A j \in DOMAIN matches : ~ IsFor(matches[j], "sourced_from", a, b)
             /\ i \notin DOMAIN matches =>
                   \A j \in DOMAIN matches : ~ IsFor(matches[j], "same_work", a, b)
<1> DEFINE Sources == {j \in DOMAIN matches : IsFor(matches[j], "sourced_from", a, b)}
           Same == {j \in DOMAIN matches : IsFor(matches[j], "same_work", a, b)}
           i == ExistingMatch(a, b)
<1>1. /\ Len(matches) \in Nat /\ DOMAIN matches = 1..Len(matches)
      /\ Sources \in SUBSET (1..Len(matches)) /\ Same \in SUBSET (1..Len(matches))
  BY DEF MatchesStand
<1>2. i = IF Sources # {} THEN Min(Sources) ELSE IF Same # {} THEN Min(Same) ELSE Len(matches) + 1
  BY DEF ExistingMatch, IsFor
<1>3. Sources # {} => Min(Sources) \in Sources
  BY <1>1, FirstRow
<1>4. Same # {} => Min(Same) \in Same
  BY <1>1, FirstRow
<1>5. /\ \A j \in DOMAIN matches : IsFor(matches[j], "sourced_from", a, b) => j \in Sources
      /\ \A j \in DOMAIN matches : IsFor(matches[j], "same_work", a, b) => j \in Same
      /\ \A j \in Sources : j \in DOMAIN matches /\ IsFor(matches[j], "sourced_from", a, b)
      /\ \A j \in Same : j \in DOMAIN matches /\ IsFor(matches[j], "same_work", a, b)
  OBVIOUS
<1> HIDE DEF Sources, Same, i
<1>6. \A j \in DOMAIN matches : j \in Nat \ {0} /\ j <= Len(matches) + 1
  BY <1>1
<1>7. CASE Sources # {}
  <2>1. i \in Sources
    BY <1>2, <1>3, <1>7
  <2>2. i \in DOMAIN matches /\ IsFor(matches[i], "sourced_from", a, b)
    BY <1>5, <2>1
  <2>3. matches[i].relation # "same_work"
    BY <2>2 DEF IsFor
  <2> QED
    BY <1>6, <2>2, <2>3 DEF i
<1>8. CASE Sources = {} /\ Same # {}
  <2>1. i \in Same
    BY <1>2, <1>4, <1>8
  <2> QED
    BY <1>5, <1>6, <1>8, <2>1 DEF i
<1>9. CASE Sources = {} /\ Same = {}
  <2>1. i = Len(matches) + 1 /\ i \notin DOMAIN matches /\ i \in Nat \ {0}
    BY <1>1, <1>2, <1>9
  <2> QED
    BY <1>1, <1>5, <1>9, <2>1 DEF i
<1> QED
  BY <1>7, <1>8, <1>9

(* A candidate for the same work that becomes one for a source.            *)
Upgraded(m, from, to) ==
    [m EXCEPT !.relation = "sourced_from", !.from = from, !.to = to,
              !.key = <<"sourced_from", from, to, "local">>]

(* It takes the posts in another order, and the rest of the row.           *)
LEMMA UpgradedFields ==
  ASSUME NEW m \in MatchRow, NEW from \in Post, NEW to \in Post
  PROVE  LET u == Upgraded(m, from, to)
         IN  /\ u \in MatchRow /\ u.key = <<"sourced_from", from, to, "local">>
             /\ u.relation = "sourced_from" /\ u.from = from /\ u.to = to
             /\ u.target = m.target /\ u.state = m.state /\ u.evidence = m.evidence
BY DEF Upgraded, MatchRow, Relation

(* What a lookup found becomes evidence of a candidate for the two posts.  *)
LEMMA LookupKeeps ==
  ASSUME PostInv, NEW r \in scenario.lookups, LookupPost(r)
  PROVE  PostInv'
<1> DEFINE new == Interpretation(r)
           from == new.from
           to == new.to
           relation == new.relation
           i == ExistingMatch(from, to)
           item == [kind |-> r.strategy, from |-> from, to |-> to]
           old == matches[i]
           upgraded == Upgraded(old, from, to)
           fresh == NewMatch(relation, from, to, "local")
           row == IF i > Len(matches) THEN fresh
                  ELSE IF relation = "sourced_from" /\ old.relation = "same_work" THEN upgraded
                  ELSE old
<1>1. /\ matches' = WithRow(matches, i, Supported(row, item)) /\ OnlyMatches
  BY DEF LookupPost, OnlyMatches, Upgraded
<1>0. {r.seed, r.found} \subseteq stored /\ r.seed # r.found
  BY DEF LookupPost
<1>2. /\ MatchesStand(matches) /\ matches \in Seq(MatchRow) /\ Len(matches) \in Nat
      /\ r.strategy \in {"source", "verified", "declared", "external"}
      /\ r.seed \in Post /\ r.found \in Post
  BY ScenarioFacts DEF PostInv, MatchesStand
<1>3. /\ relation \in {"sourced_from", "same_work"} /\ from \in Post /\ to \in Post
      /\ {from, to} = {r.seed, r.found}
  BY <1>2 DEF Interpretation, Lesser, Greater
<1>5. item \in EvidenceRow /\ item.from = from /\ item.to = to
  BY <1>2, <1>3 DEF EvidenceRow
<1>6. /\ i \in Nat \ {0} /\ i <= Len(matches) + 1
      /\ i \in DOMAIN matches =>
            IsFor(matches[i], "sourced_from", from, to) \/ IsFor(matches[i], "same_work", from, to)
      /\ (i \notin DOMAIN matches \/ matches[i].relation = "same_work") =>
            \A j \in DOMAIN matches : ~ IsFor(matches[j], "sourced_from", from, to)
      /\ i \notin DOMAIN matches =>
            \A j \in DOMAIN matches : ~ IsFor(matches[j], "same_work", from, to)
  BY <1>2, ExistingMatchFacts
<1> HIDE DEF new, from, to, relation, i, item
<1>4. from # to /\ from \in stored /\ to \in stored
  BY <1>0, <1>3
<1>7. ASSUME NEW j \in DOMAIN matches, NEW rel, matches[j].key = <<rel, from, to, "local">>
      PROVE  IsFor(matches[j], rel, from, to)
  <2>1. MatchStands(matches[j])
    BY <1>2 DEF MatchesStand
  <2> QED
    BY <1>7, <2>1 DEF MatchStands, IsFor
<1>8. /\ Ready(row, {from, to})
      /\ \A j \in DOMAIN matches : j # i => matches[j].key # row.key
  <2>1. CASE i > Len(matches)
    <3>1. row = fresh /\ i \notin DOMAIN matches
      BY <1>2, <2>1
    <3>2. relation \in Relation
      BY <1>3 DEF Relation
    <3>3. Ready(fresh, {from, to}) /\ fresh.key = <<relation, from, to, "local">>
      BY <1>3, <1>4, <3>2, NewIsReady, NewMatchFields
    <3>4. \A j \in DOMAIN matches : matches[j].key # <<relation, from, to, "local">>
      BY <1>3, <1>6, <1>7, <3>1
    <3> QED
      BY <3>1, <3>3, <3>4
  <2>2. CASE i <= Len(matches)
    <3>1. i \in DOMAIN matches /\ ~ (i > Len(matches))
      BY <1>2, <1>6, <2>2
    <3>2. MatchStands(old) /\ old \in MatchRow /\ {old.from, old.to} = {from, to}
      BY <1>2, <1>6, <3>1 DEF MatchesStand, MatchStands, IsFor
    <3>3. Ready(old, {from, to})
      BY <3>2, StandingIsReady
    <3>4. CASE relation = "sourced_from" /\ old.relation = "same_work"
      <4>1. row = upgraded
        BY <3>1, <3>4
      <4> HIDE DEF old
      <4>2. /\ upgraded \in MatchRow /\ upgraded.key = <<"sourced_from", from, to, "local">>
            /\ upgraded.relation = "sourced_from" /\ upgraded.from = from /\ upgraded.to = to
            /\ upgraded.target = old.target /\ upgraded.state = old.state
            /\ upgraded.evidence = old.evidence
        BY <1>3, <3>2, UpgradedFields
      <4>3. old.target = "post"
        BY <1>6, <3>1 DEF IsFor, old
      <4> HIDE DEF upgraded
      <4>4. Ready(upgraded, {from, to})
        BY <1>4, <3>3, <4>2, <4>3 DEF Ready
      <4>5. \A j \in DOMAIN matches : matches[j].key # <<"sourced_from", from, to, "local">>
        BY <1>6, <1>7, <3>1, <3>4 DEF old
      <4> QED
        BY <4>1, <4>2, <4>4, <4>5
    <3>5. CASE ~ (relation = "sourced_from" /\ old.relation = "same_work")
      <4>1. row = old
        BY <3>1, <3>5
      <4>2. \A j \in DOMAIN matches : j # i => matches[j].key # old.key
        BY <1>2, <3>1 DEF MatchesStand
      <4> QED
        BY <3>3, <4>1, <4>2
    <3> QED
      BY <3>4, <3>5
  <2> QED
    BY <1>2, <1>6, <2>1, <2>2
<1> HIDE DEF row
<1>9. MatchStands(Supported(row, item)) /\ Supported(row, item).key = row.key
  BY <1>5, <1>8, SupportedStands, SupportedFields DEF Ready
<1>10. MatchesStand(matches')
  BY <1>1, <1>2, <1>6, <1>8, <1>9, WithRowStands
<1> QED
  BY <1>1, <1>10, MatchesMove

(* A row with more evidence and a target,                                  *)
Resolved(m, items, target) == [m EXCEPT !.evidence = items, !.target = target]

(* field by field.                                                         *)
LEMMA ResolvedMatchFields ==
  ASSUME NEW m \in MatchRow, NEW items \in SUBSET EvidenceRow, NEW target \in {"post", "reference"}
  PROVE  LET n == Resolved(m, items, target)
         IN  /\ n \in MatchRow /\ n.key = m.key /\ n.relation = m.relation
             /\ n.from = m.from /\ n.to = m.to /\ n.state = m.state
             /\ n.evidence = items /\ n.target = target
BY DEF Resolved, MatchRow

Kept == {l \in scenario.links : l.from \in stored /\ l.from # l.to}
LinkItems(m) == {LinkItem(l) : l \in {k \in Kept : LinkKey(k) = m.key}}
Again(m) ==
    [m EXCEPT !.evidence = @ \cup LinkItems(m),
              !.target = IF LinkItems(m) # {} /\ m.to \in stored THEN "post" ELSE @]
NewLinks == {l \in Kept : \A i \in DOMAIN matches : matches[i].key # LinkKey(l)}
NewOf(post) ==
    LET l == CHOOSE k \in NewLinks : k.from = post
    IN  Supported(NewMatch("sourced_from", l.from, l.to, "reference"), LinkItem(l))

(* Discovering a link again adds to its candidate and resolves its target. *)
LEMMA AgainStands ==
  ASSUME RecordInv, NEW m, MatchStands(m)
  PROVE  MatchStands(Again(m)) /\ Again(m).key = m.key
<1> DEFINE items == m.evidence \cup LinkItems(m)
           target == IF LinkItems(m) # {} /\ m.to \in stored THEN "post" ELSE m.target
           n == Resolved(m, items, target)
<1>1. /\ m \in MatchRow /\ m.key = <<m.relation, m.from, m.to, m.key[4]>>
      /\ About(m.evidence, {m.from, m.to})
  BY DEF MatchStands
<1>2. ASSUME NEW e \in LinkItems(m)
      PROVE  e \in EvidenceRow /\ {e.from, e.to} = {m.from, m.to}
  <2>1. PICK l \in Kept : LinkKey(l) = m.key /\ e = LinkItem(l)
    BY DEF LinkItems
  <2>2. l \in [from : Post, to : Post]
    BY ScenarioFacts DEF Kept
  <2>3. l.from = m.from /\ l.to = m.to
    BY <1>1, <2>1 DEF LinkKey
  <2>4. e = [kind |-> "official_link", from |-> l.from, to |-> l.to]
    BY <2>1 DEF LinkItem
  <2> QED
    BY <2>2, <2>3, <2>4 DEF EvidenceRow
<1>3. items \in SUBSET EvidenceRow /\ target \in {"post", "reference"}
  BY <1>1, <1>2 DEF MatchRow
<1>4. About(items, {m.from, m.to})
  BY <1>1, <1>2 DEF About
<1>5. Again(m) = n
  BY <1>1 DEF Again, Resolved, MatchRow
<1>6. target = "post" => m.to \in stored
  BY DEF MatchStands
<1>7. m.target = "post" => target = "post"
  OBVIOUS
<1> HIDE DEF items, target
<1>8. /\ n \in MatchRow /\ n.key = m.key /\ n.relation = m.relation
      /\ n.from = m.from /\ n.to = m.to /\ n.state = m.state
      /\ n.evidence = items /\ n.target = target
  BY <1>1, <1>3, ResolvedMatchFields
<1> HIDE DEF n
<1>9. MatchStands(n)
  BY <1>4, <1>6, <1>7, <1>8 DEF MatchStands
<1> QED
  BY <1>5, <1>8, <1>9

(* The candidate of a link that has none yet.                              *)
LEMMA NewOfStands ==
  ASSUME RecordInv, NEW post \in {l.from : l \in NewLinks}
  PROVE  /\ MatchStands(NewOf(post)) /\ NewOf(post).from = post
         /\ \A i \in DOMAIN matches : matches[i].key # NewOf(post).key
<1> DEFINE l == CHOOSE k \in NewLinks : k.from = post
<1>1. l \in NewLinks /\ l.from = post
  OBVIOUS
<1>2. NewOf(post) = Supported(NewMatch("sourced_from", l.from, l.to, "reference"), LinkItem(l))
  BY DEF NewOf
<1> HIDE DEF l
<1>3. /\ l.from \in Post /\ l.to \in Post /\ l.from # l.to /\ l.from \in stored
      /\ \A i \in DOMAIN matches : matches[i].key # LinkKey(l)
  BY <1>1, ScenarioFacts DEF NewLinks, Kept
<1> DEFINE m == NewMatch("sourced_from", l.from, l.to, "reference")
           item == LinkItem(l)
<1>4. "sourced_from" \in Relation /\ "reference" \in {"reference", "local"} /\ "reference" # "local"
  BY DEF Relation
<1>5. Ready(m, {l.from, l.to})
  BY <1>3, <1>4, NewIsReady
<1>6. m \in MatchRow /\ m.key = LinkKey(l) /\ m.from = l.from
  BY <1>3, <1>4, NewMatchFields DEF LinkKey
<1>7. item \in EvidenceRow /\ item.from = l.from /\ item.to = l.to
  BY <1>3 DEF LinkItem, EvidenceRow
<1> HIDE DEF m, item
<1>8. MatchStands(Supported(m, item))
  BY <1>5, <1>7, SupportedStands
<1>9. Supported(m, item).key = LinkKey(l) /\ Supported(m, item).from = l.from
  BY <1>6, <1>7, SupportedFields
<1> QED
  BY <1>1, <1>2, <1>3, <1>8, <1>9 DEF m, item

(* Discovery keeps every candidate, and appends those of new links.        *)
LEMMA DiscoverPostsKeeps ==
  ASSUME PostInv, DiscoverPosts
  PROVE  PostInv'
<1> DEFINE S == {l.from : l \in NewLinks}
<1>1. PICK posts \in Ascending(S) :
         matches' = [i \in DOMAIN matches |-> Again(matches[i])]
                       \o [n \in DOMAIN posts |-> NewOf(posts[n])]
  BY DEF DiscoverPosts, NewLinks, Kept, NewOf, Again, LinkItems
<1>2. OnlyMatches
  BY DEF DiscoverPosts, OnlyMatches
<1>3. /\ MatchesStand(matches) /\ matches \in Seq(MatchRow) /\ Len(matches) \in Nat
      /\ RecordInv
  BY DEF PostInv, MatchesStand
<1>4. S \in SUBSET Nat /\ IsFiniteSet(S)
  <2>1. S \in SUBSET Post
    BY <1>3, ScenarioFacts DEF NewLinks, Kept
  <2> HIDE DEF S
  <2> QED
    BY <2>1, RelationsAssumption, FS_Subset
<1> HIDE DEF S
<1>5. /\ Len(posts) \in Nat /\ DOMAIN posts = 1..Len(posts)
      /\ \A i \in DOMAIN posts : posts[i] \in S
      /\ \A i, j \in DOMAIN posts : posts[i] = posts[j] => i = j
  BY <1>4, AscendingFacts
<1> DEFINE olds == [i \in DOMAIN matches |-> Again(matches[i])]
           news == [n \in DOMAIN posts |-> NewOf(posts[n])]
           ms == olds \o news
<1>6. \A i \in DOMAIN matches : MatchStands(olds[i]) /\ olds[i].key = matches[i].key
  BY <1>3, AgainStands DEF MatchesStand
<1>7. \A n \in DOMAIN posts :
         /\ MatchStands(news[n]) /\ news[n].from = posts[n]
         /\ \A i \in DOMAIN matches : matches[i].key # news[n].key
  BY <1>3, <1>5, NewOfStands DEF S
<1>8. olds \in Seq(MatchRow) /\ Len(olds) = Len(matches)
  <2>1. \A i \in DOMAIN matches : olds[i] \in MatchRow
    BY <1>6 DEF MatchStands
  <2> QED
    BY <1>3, <2>1
<1>9. news \in Seq(MatchRow) /\ Len(news) = Len(posts)
  <2>1. \A n \in DOMAIN posts : news[n] \in MatchRow
    BY <1>7 DEF MatchStands
  <2> QED
    BY <1>5, <2>1
<1> HIDE DEF olds, news
<1>10. /\ ms \in Seq(MatchRow) /\ DOMAIN ms = 1..(Len(matches) + Len(posts))
       /\ DOMAIN matches = 1..Len(matches)
  BY <1>3, <1>5, <1>8, <1>9
<1>11. ASSUME NEW i \in DOMAIN ms
       PROVE  \/ i \in DOMAIN matches /\ ms[i] = olds[i]
              \/ i \notin DOMAIN matches /\ i - Len(matches) \in DOMAIN posts
                   /\ ms[i] = news[i - Len(matches)]
  BY <1>3, <1>5, <1>8, <1>9, <1>10
<1> HIDE DEF ms
<1>12. \A i \in DOMAIN ms : MatchStands(ms[i])
  BY <1>6, <1>7, <1>11
<1>13. ASSUME NEW i \in DOMAIN ms, NEW j \in DOMAIN ms, ms[i].key = ms[j].key
       PROVE  i = j
  <2>1. CASE i \in DOMAIN matches /\ j \in DOMAIN matches
    BY <1>3, <1>6, <1>11, <1>13, <2>1 DEF MatchesStand
  <2>2. CASE i \notin DOMAIN matches /\ j \notin DOMAIN matches
    <3> DEFINE x == i - Len(matches)
               y == j - Len(matches)
    <3>1. x \in DOMAIN posts /\ y \in DOMAIN posts /\ news[x].key = news[y].key
      BY <1>11, <1>13, <2>2
    <3> HIDE DEF x, y
    <3>2. ASSUME NEW m, MatchStands(m)
          PROVE  m.key[2] = m.from
      BY <3>2 DEF MatchStands
    <3>3. news[x].from = news[y].from
      BY <1>7, <3>1, <3>2
    <3>4. x = y
      BY <1>5, <1>7, <3>1, <3>3
    <3> QED
      BY <1>3, <1>5, <1>10, <3>4 DEF x, y
  <2>3. CASE ~ (i \in DOMAIN matches <=> j \in DOMAIN matches)
    BY <1>6, <1>7, <1>11, <1>13, <2>3
  <2> QED
    BY <2>1, <2>2, <2>3
<1>14. MatchesStand(ms)
  BY <1>10, <1>12, <1>13 DEF MatchesStand
<1>15. matches' = ms
  BY <1>1 DEF ms, olds, news
<1> QED
  BY <1>2, <1>14, <1>15, MatchesMove

(* A reviewed row,                                                         *)
Judged(m, decision) == [m EXCEPT !.state = decision, !.revision = @ + 1]

(* field by field.                                                         *)
LEMMA JudgedFields ==
  ASSUME NEW m \in MatchRow, NEW decision \in Verdicts
  PROVE  LET n == Judged(m, decision)
         IN  /\ n \in MatchRow /\ n.key = m.key /\ n.relation = m.relation
             /\ n.from = m.from /\ n.to = m.to /\ n.target = m.target
             /\ n.evidence = m.evidence /\ n.state = decision
<1> DEFINE revision == m.revision + 1
<1>1. revision \in Nat
  BY DEF MatchRow
<1>2. Judged(m, decision) = [m EXCEPT !.state = decision, !.revision = revision]
  BY DEF Judged, MatchRow
<1> HIDE DEF revision
<1> QED
  BY <1>1, <1>2 DEF MatchRow

(* A review is what a confirmed candidate has to show.                     *)
LEMMA ReviewPostKeeps ==
  ASSUME PostInv, NEW i \in DOMAIN matches, NEW decision \in Rulings, ReviewPost(i, decision)
  PROVE  PostInv'
<1> PICK m : m = matches[i]
  OBVIOUS
<1> DEFINE n == Judged(m, decision)
           review == [match |-> i, relation |-> m.relation, from |-> m.from, to |-> m.to,
                      decision |-> decision]
<1>1. /\ matches' = [matches EXCEPT ![i] = n] /\ reviews' = Append(reviews, review)
      /\ UNCHANGED <<scenario, stored, pictured, facts, works, relations, rulings>>
  BY DEF ReviewPost, Judged
<1>2. /\ MatchesStand(matches) /\ matches \in Seq(MatchRow) /\ Len(matches) \in Nat
      /\ MatchStands(m) /\ reviews \in Seq(ReviewRow)
  BY DEF PostInv, MatchesStand
<1>13. m \in MatchRow
  BY <1>2 DEF MatchStands
<1>3. decision \in Verdicts
  BY RelationsAssumption DEF Verdicts
<1>4. review \in ReviewRow
  <2>1. i \in Nat
    BY <1>2
  <2> QED
    BY <1>13, <1>3, <2>1 DEF ReviewRow, MatchRow
<1>5. review.from = m.from /\ review.to = m.to /\ review.decision = decision
  OBVIOUS
<1> HIDE DEF review
<1>6. /\ reviews' \in Seq(ReviewRow) /\ DOMAIN reviews \subseteq DOMAIN reviews'
      /\ \A j \in DOMAIN reviews : reviews'[j] = reviews[j]
      /\ \E j \in DOMAIN reviews' : reviews'[j] = review
  BY <1>1, <1>2, <1>4
<1>7. TablesGrow
  BY <1>1, <1>6 DEF TablesGrow
<1>8. /\ n \in MatchRow /\ n.key = m.key /\ n.relation = m.relation
      /\ n.from = m.from /\ n.to = m.to /\ n.target = m.target
      /\ n.evidence = m.evidence /\ n.state = decision
  BY <1>13, <1>3, JudgedFields
<1> HIDE DEF n
<1>9. MatchStands(n)'
  <2>1. decision = "confirmed" => Asked({m.from, m.to})'
    <3>1. PICK j \in DOMAIN reviews' : reviews'[j] = review
      BY <1>6
    <3> QED
      BY <1>5, <3>1 DEF Asked
  <2>2. MatchStands(m)'
    BY <1>2, <1>7, MatchStandsOn
  <2> QED
    BY <1>8, <2>1, <2>2 DEF MatchStands
<1>10. MatchesStand(matches)'
  <2>1. /\ matches' \in Seq(MatchRow) /\ DOMAIN matches' = DOMAIN matches
        /\ \A j \in DOMAIN matches : matches'[j] = IF j = i THEN n ELSE matches[j]
    BY <1>1, <1>2, <1>8
  <2>2. \A c : (\E j \in DOMAIN matches : c = matches[j]) => MatchStands(c)'
    BY <1>2, <1>7, MatchStandsOn DEF MatchesStand
  <2>3. \A j \in DOMAIN matches : matches'[j].key = matches[j].key
    BY <1>8, <2>1
  <2>4. (\A j \in DOMAIN matches : MatchStands(matches[j]))'
    <3>1. ASSUME NEW j \in DOMAIN matches'
          PROVE  MatchStands(matches[j])'
      <4>1. PICK c : c = IF j = i THEN n ELSE matches[j]
        OBVIOUS
      <4>2. MatchStands(c)'
        BY <1>9, <2>1, <2>2, <4>1
      <4>3. matches'[j] = c
        BY <2>1, <4>1
      <4> QED
        BY <4>2, <4>3
    <3> QED
      BY <3>1
  <2> QED
    BY <1>2, <2>1, <2>3, <2>4 DEF MatchesStand
<1>11. (\A k \in DOMAIN relations : RelationStands(k, relations[k]))'
  BY <1>1, <1>7, RelationStandsOn DEF PostInv
<1>12. RecordInv' /\ WorksInv' /\ (rulings \in Seq(RulingRow))'
  BY <1>1 DEF PostInv, RecordInv, WorksInv
<1> QED
  BY <1>6, <1>10, <1>11, <1>12 DEF PostInv

(***************************************************************************)
(* Relationships                                                           *)
(***************************************************************************)

RelationKind == {"reposted_from", "parent_of", "same_bytes", "thumbnail_of",
                 "same_work", "variant_of"}
RelationStatus == {"observed", "verified", "derived", "inferred", "reviewed"}

(* What a relationship may link.                                           *)
LEMMA NodeFacts ==
  ASSUME PostInv
  PROVE  /\ \A o \in LineageNodes : o \in Object /\ PostsOf(o) \in stored
         /\ \A p \in stored : <<"post", p>> \in LineageNodes /\ PostsOf(<<"post", p>>) = p
         /\ \A p \in pictured : /\ <<"media_occurrence", p>> \in LineageNodes
                                /\ PostsOf(<<"media_occurrence", p>>) = p
         /\ \A w \in DOMAIN works : /\ <<"work", w>> \in LineageNodes
                                    /\ PostsOf(<<"work", w>>) = works[w]
<1>1. /\ stored \in SUBSET Post /\ pictured \in SUBSET stored
      /\ works \in Seq(Post) /\ \A w \in DOMAIN works : works[w] \in pictured
  BY DEF PostInv, RecordInv, WorksInv
<1>2. \A w \in DOMAIN works : w \in Nat \ {0}
  BY <1>1
<1>3. ASSUME NEW o \in LineageNodes
      PROVE  o \in Object /\ PostsOf(o) \in stored
  <2>1. CASE o \in {"post"} \X stored
    BY <1>1, <2>1 DEF Object, PostsOf
  <2>2. CASE o \in {"media_occurrence"} \X pictured
    BY <1>1, <2>2 DEF Object, PostsOf
  <2>3. CASE o \in {"work"} \X DOMAIN works
    BY <1>1, <1>2, <2>3 DEF Object, PostsOf
  <2> QED
    BY <2>1, <2>2, <2>3 DEF LineageNodes
<1> QED
  BY <1>3 DEF LineageNodes, PostsOf

(* A key links its two objects, in whatever order.                         *)
LEMMA KeyStands ==
  ASSUME PostInv, NEW kind \in RelationKind, NEW a \in LineageNodes, NEW b \in LineageNodes, a # b
  PROVE  /\ Grounded(Key(kind, a, b)) /\ Endpoints(Key(kind, a, b)) = {PostsOf(a), PostsOf(b)}
         /\ Key(kind, a, b).kind = kind
<1>1. a \in Object /\ b \in Object
  BY NodeFacts
<1>2. PICK x, y : Key(kind, a, b) = [kind |-> kind, subject |-> x, object |-> y]
                  /\ ((x = a /\ y = b) \/ (x = b /\ y = a))
  BY DEF Key
<1> QED
  BY <1>1, <1>2 DEF Grounded, RelationKey, RelationKind, Endpoints

(* A row that gains evidence, field by field.                              *)
LEMMA InsertedFields ==
  ASSUME NEW k, NEW status \in RelationStatus, NEW items \in SUBSET EvidenceRow,
         k \in DOMAIN relations => relations[k] \in RelationRow
  PROVE  LET row == Inserted(k, status, items)
         IN  /\ row \in RelationRow /\ items \subseteq row.evidence
             /\ k \in DOMAIN relations =>
                   /\ row.review = relations[k].review
                   /\ row.evidence = relations[k].evidence \cup items
             /\ k \notin DOMAIN relations => row.review = "pending" /\ row.evidence = items
<1> DEFINE old == IF k \in DOMAIN relations THEN relations[k] ELSE NewRelation(status)
           evidence == old.evidence \cup items
<1>1. old \in RelationRow
  BY DEF NewRelation, RelationRow, RelationStatus, Verdicts
<1>2. k \notin DOMAIN relations => old.review = "pending" /\ old.evidence = {}
  BY DEF NewRelation
<1>3. k \in DOMAIN relations => old = relations[k]
  OBVIOUS
<1>4. Inserted(k, status, items) = [old EXCEPT !.evidence = evidence]
  BY DEF Inserted
<1> HIDE DEF old
<1>5. evidence \in SUBSET EvidenceRow /\ items \subseteq evidence
  BY <1>1 DEF RelationRow
<1>6. evidence = old.evidence \cup items
  OBVIOUS
<1> HIDE DEF evidence
<1>7. LET row == [old EXCEPT !.evidence = evidence]
      IN  row \in RelationRow /\ row.review = old.review /\ row.evidence = evidence
  BY <1>1, <1>5 DEF RelationRow
<1> DEFINE row == [old EXCEPT !.evidence = evidence]
<1> HIDE DEF row
<1>8. row \in RelationRow /\ row.review = old.review /\ row.evidence = evidence
  BY <1>7 DEF row
<1>9. Inserted(k, status, items) = row
  BY <1>4 DEF row
<1> QED
  BY <1>2, <1>3, <1>5, <1>6, <1>8, <1>9

(* Evidence about its two posts leaves a relationship standing, a new one  *)
(* included.                                                               *)
LEMMA InsertedStands ==
  ASSUME PostInv, NEW k, Grounded(k), NEW status \in RelationStatus,
         NEW items \in SUBSET EvidenceRow, \A e \in items : {e.from, e.to} = Endpoints(k),
         items # {} \/ k \in DOMAIN relations
  PROVE  RelationStands(k, Inserted(k, status, items))
<1> DEFINE row == Inserted(k, status, items)
<1>1. k \in DOMAIN relations => RelationStands(k, relations[k])
  BY DEF PostInv
<1>2. k \in DOMAIN relations => relations[k] \in RelationRow
  BY <1>1 DEF RelationStands
<1>3. /\ row \in RelationRow /\ items \subseteq row.evidence
      /\ k \in DOMAIN relations =>
            /\ row.review = relations[k].review
            /\ row.evidence = relations[k].evidence \cup items
      /\ k \notin DOMAIN relations => row.review = "pending" /\ row.evidence = items
  BY <1>2, InsertedFields
<1> HIDE DEF row
<1>4. About(row.evidence, Endpoints(k))
  BY <1>1, <1>3 DEF About, RelationStands
<1>5. row.review = "confirmed" => Ordered(k) \/ Asked(Endpoints(k))
  BY <1>1, <1>3 DEF RelationStands
<1>6. RelationStands(k, row)
  BY <1>3, <1>4, <1>5 DEF RelationStands
<1> QED
  BY <1>6 DEF row

(* A decision about a relationship, field by field.                        *)
LEMMA RuledFields ==
  ASSUME NEW row \in RelationRow, NEW decision \in Verdicts
  PROVE  /\ Ruled(row, decision) \in RelationRow /\ Ruled(row, decision).review = decision
         /\ Ruled(row, decision).evidence = row.evidence
<1> DEFINE status == IF decision = "confirmed" THEN "reviewed" ELSE row.status
<1>1. status \in RelationStatus
  BY DEF RelationRow, RelationStatus
<1>2. Ruled(row, decision) = [row EXCEPT !.review = decision, !.status = status]
  BY DEF Ruled, RelationRow
<1> HIDE DEF status
<1> QED
  BY <1>1, <1>2 DEF RelationRow, RelationStatus

(* A new status, field by field.                                           *)
LEMMA StatusFields ==
  ASSUME NEW row \in RelationRow, NEW status \in RelationStatus
  PROVE  LET new == [row EXCEPT !.status = status]
         IN  /\ new \in RelationRow /\ new.review = row.review
             /\ new.evidence = row.evidence
BY DEF RelationRow, RelationStatus

(***************************************************************************)
(* The actions                                                             *)
(***************************************************************************)

(* Posts and facts that arrive disturb nothing.                            *)
LEMMA ArrivalKeeps ==
  ASSUME PostInv,
         \/ \E p \in Post : StorePost(p)
         \/ \E f \in scenario.facts : StoreFact(f)
  PROVE  PostInv'
<1>1. /\ stored \in SUBSET stored' /\ pictured \in SUBSET pictured'
      /\ UNCHANGED <<scenario, matches, reviews, works, relations, rulings>>
  BY DEF StorePost, StoreFact
<1>2. RecordInv'
  <2>1. CASE \E p \in Post : StorePost(p)
    <3>1. PICK p \in Post : StorePost(p)
      BY <2>1
    <3> QED
      BY <3>1 DEF PostInv, RecordInv, StorePost
  <2>2. CASE \E f \in scenario.facts : StoreFact(f)
    BY <2>2 DEF PostInv, RecordInv, StoreFact
  <2> QED
    BY <2>1, <2>2
<1>3. TablesGrow
  BY <1>1 DEF TablesGrow
<1>4. \A i \in DOMAIN matches : MatchStands(matches[i])'
  BY <1>1, <1>3, MatchStandsOn DEF PostInv, MatchesStand
<1>5. MatchesStand(matches)'
  BY <1>1, <1>4 DEF PostInv, MatchesStand
<1>6. WorksInv'
  BY <1>1 DEF PostInv, WorksInv
<1>7. (\A k \in DOMAIN relations : RelationStands(k, relations[k]))'
  BY <1>1, <1>3, RelationStandsOn DEF PostInv
<1> QED
  BY <1>1, <1>2, <1>5, <1>6, <1>7 DEF PostInv

(* Anchors are appended for pictured posts without one.                    *)
LEMMA MaterializeWorksKeeps ==
  ASSUME PostInv, MaterializeWorks
  PROVE  PostInv'
<1> DEFINE S == pictured \ Range(works)
<1>1. PICK posts \in Ascending(S) : works' = works \o posts
  BY DEF MaterializeWorks
<1>2. UNCHANGED <<scenario, stored, pictured, facts, matches, reviews, relations, rulings>>
  BY DEF MaterializeWorks
<1>3. /\ works \in Seq(Post) /\ IsInjective(works) /\ Len(works) \in Nat
      /\ DOMAIN works = 1..Len(works) /\ \A w \in DOMAIN works : works[w] \in pictured
      /\ pictured \in SUBSET Post
  BY DEF PostInv, WorksInv, RecordInv
<1>4. S \in SUBSET Post
  BY <1>3
<1>5. \A p \in S : p \in pictured /\ \A w \in DOMAIN works : works[w] # p
  BY DEF Range
<1> HIDE DEF S
<1>6. S \in SUBSET Nat /\ IsFiniteSet(S)
  BY <1>4, RelationsAssumption, FS_Subset
<1>7. /\ posts \in Seq(S) /\ Len(posts) \in Nat /\ DOMAIN posts = 1..Len(posts)
      /\ \A i \in DOMAIN posts : posts[i] \in S
      /\ \A i, j \in DOMAIN posts : posts[i] = posts[j] => i = j
  BY <1>6, AscendingFacts
<1>8. posts \in Seq(Post)
  BY <1>4, <1>7
<1>9. /\ works' \in Seq(Post) /\ DOMAIN works' = 1..(Len(works) + Len(posts))
      /\ \A w \in DOMAIN works : w \in DOMAIN works' /\ works'[w] = works[w]
  BY <1>1, <1>3, <1>7, <1>8
<1>10. ASSUME NEW w \in DOMAIN works', w \notin DOMAIN works
       PROVE  w - Len(works) \in DOMAIN posts /\ works'[w] = posts[w - Len(works)]
  BY <1>1, <1>3, <1>7, <1>8, <1>9, <1>10
<1>11. ASSUME NEW w \in DOMAIN works', NEW x \in DOMAIN works', works'[w] = works'[x]
       PROVE  w = x
  <2>1. CASE w \in DOMAIN works /\ x \in DOMAIN works
    BY <1>3, <1>9, <1>11, <2>1 DEF IsInjective
  <2>2. CASE w \notin DOMAIN works /\ x \notin DOMAIN works
    <3>1. w - Len(works) = x - Len(works)
      BY <1>7, <1>10, <1>11, <2>2
    <3> QED
      BY <1>3, <1>7, <1>9, <3>1
  <2>3. CASE ~ (w \in DOMAIN works <=> x \in DOMAIN works)
    BY <1>5, <1>7, <1>9, <1>10, <1>11, <2>3
  <2> QED
    BY <2>1, <2>2, <2>3
<1>12. WorksInv'
  <2>1. \A w \in DOMAIN works' : works'[w] \in pictured
    BY <1>3, <1>5, <1>7, <1>9, <1>10
  <2> QED
    BY <1>2, <1>9, <1>11, <2>1 DEF WorksInv, IsInjective
<1>13. TablesGrow
  BY <1>2, <1>9 DEF TablesGrow
<1>14. MatchesStand(matches)'
  BY <1>2 DEF PostInv, MatchesStand, MatchStands, Asked
<1>15. (\A k \in DOMAIN relations : RelationStands(k, relations[k]))'
  BY <1>2, <1>13, RelationStandsOn DEF PostInv
<1>16. RecordInv' /\ (reviews \in Seq(ReviewRow))' /\ (rulings \in Seq(RulingRow))'
  BY <1>2 DEF PostInv, RecordInv
<1> QED
  BY <1>12, <1>14, <1>15, <1>16 DEF PostInv

(* What an action leaves that only moves relationships and their rulings.  *)
OnlyRelations == UNCHANGED <<scenario, stored, pictured, facts, matches, reviews, works>>

(* The rest is in order if the relationships stand.                        *)
LEMMA RelationsMove ==
  ASSUME PostInv, OnlyRelations, rulings' \in Seq(RulingRow),
         (\A k \in DOMAIN relations : RelationStands(k, relations[k]))'
  PROVE  PostInv'
<1>1. RecordInv' /\ (reviews \in Seq(ReviewRow))' /\ WorksInv'
  BY DEF PostInv, OnlyRelations, RecordInv, WorksInv
<1>2. MatchesStand(matches)'
  BY DEF PostInv, OnlyRelations, MatchesStand, MatchStands, Asked
<1> QED
  BY <1>1, <1>2 DEF PostInv

(* What is seeded stands between the posts of its fact.                    *)
LEMMA SeedKeyStands ==
  ASSUME PostInv, NEW f \in facts, f.from # f.to, f.to \in stored
  PROVE  /\ Grounded(SeedKey(f)) /\ Endpoints(SeedKey(f)) = {f.from, f.to}
         /\ f.from \in Post /\ f.to \in Post
<1>1. /\ f.kind \in {"source_url", "parent_of", "same_bytes", "thumbnail"}
      /\ f.from \in pictured /\ f.from \in stored /\ f.from \in Post /\ f.to \in Post
      /\ f.kind \in {"same_bytes", "thumbnail"} => f.to \in pictured
  BY ScenarioFacts DEF PostInv, RecordInv
<1>2. /\ <<"post", f.from>> \in LineageNodes /\ PostsOf(<<"post", f.from>>) = f.from
      /\ <<"post", f.to>> \in LineageNodes /\ PostsOf(<<"post", f.to>>) = f.to
      /\ <<"post", f.from>> # <<"post", f.to>>
  BY <1>1, NodeFacts
<1>3. f.to \in pictured =>
        /\ <<"media_occurrence", f.from>> \in LineageNodes
        /\ PostsOf(<<"media_occurrence", f.from>>) = f.from
        /\ <<"media_occurrence", f.to>> \in LineageNodes
        /\ PostsOf(<<"media_occurrence", f.to>>) = f.to
        /\ <<"media_occurrence", f.from>> # <<"media_occurrence", f.to>>
  BY <1>1, NodeFacts
<1>4. CASE f.kind = "source_url"
  <2>1. SeedKey(f) = Key("reposted_from", <<"post", f.from>>, <<"post", f.to>>)
    BY <1>4 DEF SeedKey
  <2>2. "reposted_from" \in RelationKind
    BY DEF RelationKind
  <2> QED
    BY <1>1, <1>2, <2>1, <2>2, KeyStands
<1>5. CASE f.kind = "parent_of"
  <2>1. SeedKey(f) = Key("parent_of", <<"post", f.from>>, <<"post", f.to>>)
    BY <1>5 DEF SeedKey
  <2>2. "parent_of" \in RelationKind
    BY DEF RelationKind
  <2> QED
    BY <1>1, <1>2, <2>1, <2>2, KeyStands
<1>6. CASE f.kind = "same_bytes"
  <2>1. SeedKey(f) = Key("same_bytes", <<"media_occurrence", f.from>>, <<"media_occurrence", f.to>>)
    BY <1>6 DEF SeedKey
  <2>2. "same_bytes" \in RelationKind
    BY DEF RelationKind
  <2> QED
    BY <1>1, <1>3, <1>6, <2>1, <2>2, KeyStands
<1>7. CASE f.kind = "thumbnail"
  <2>1. SeedKey(f) = Key("thumbnail_of", <<"media_occurrence", f.from>>, <<"media_occurrence", f.to>>)
    BY <1>7 DEF SeedKey
  <2>2. "thumbnail_of" \in RelationKind
    BY DEF RelationKind
  <2> QED
    BY <1>1, <1>3, <1>7, <2>1, <2>2, KeyStands
<1> QED
  BY <1>1, <1>4, <1>5, <1>6, <1>7

(* Seeding adds what facts are evidence of.                                *)
LEMMA SeedKeeps ==
  ASSUME PostInv, Seed
  PROVE  PostInv'
<1> DEFINE usable == {f \in facts : f.from # f.to /\ f.to \in stored}
           keys == {SeedKey(f) : f \in usable}
           Items(k) == {[kind |-> f.kind, from |-> f.from, to |-> f.to] :
                           f \in {g \in usable : SeedKey(g) = k}}
           Status(k) == IF k.kind = "same_bytes" THEN "verified" ELSE "observed"
<1>1. /\ relations' = [k \in DOMAIN relations \cup keys |-> Inserted(k, Status(k), Items(k))]
      /\ OnlyRelations /\ rulings' = rulings
  BY DEF Seed, OnlyRelations
<1>2. ASSUME NEW k \in DOMAIN relations \cup keys
      PROVE  RelationStands(k, Inserted(k, Status(k), Items(k)))
  <2>1. ASSUME NEW e \in Items(k)
        PROVE  e \in EvidenceRow /\ {e.from, e.to} = Endpoints(k)
    <3>1. PICK f \in usable : SeedKey(f) = k /\ e = [kind |-> f.kind, from |-> f.from, to |-> f.to]
      OBVIOUS
    <3>2. Endpoints(k) = {f.from, f.to} /\ f.from \in Post /\ f.to \in Post
      BY <3>1, SeedKeyStands
    <3>3. f.kind \in {"source_url", "parent_of", "same_bytes", "thumbnail"}
      BY ScenarioFacts DEF PostInv, RecordInv
    <3> QED
      BY <3>1, <3>2, <3>3 DEF EvidenceRow
  <2>2. Items(k) # {} \/ k \in DOMAIN relations
    <3>1. CASE k \in keys
      <4>1. PICK f \in usable : SeedKey(f) = k
        BY <3>1
      <4> QED
        BY <4>1
    <3> QED
      BY <3>1
  <2>3. Grounded(k)
    <3>1. k \in keys => Grounded(k)
      BY SeedKeyStands
    <3>2. k \in DOMAIN relations => Grounded(k)
      BY DEF PostInv, RelationStands
    <3> QED
      BY <3>1, <3>2
  <2>4. Status(k) \in RelationStatus
    BY DEF RelationStatus
  <2> HIDE DEF Items, Status
  <2>5. Items(k) \in SUBSET EvidenceRow
    BY <2>1
  <2> QED
    BY <2>1, <2>2, <2>3, <2>4, <2>5, InsertedStands
<1> HIDE DEF Items, Status, keys
<1>3. TablesGrow
  BY <1>1 DEF TablesGrow, OnlyRelations
<1>4. (\A k \in DOMAIN relations : RelationStands(k, relations[k]))'
  <2>1. ASSUME NEW k \in DOMAIN relations'
        PROVE  RelationStands(k, relations[k])'
    <3>1. k \in DOMAIN relations \cup keys /\ relations'[k] = Inserted(k, Status(k), Items(k))
      BY <1>1
    <3>2. PICK row : row = Inserted(k, Status(k), Items(k))
      OBVIOUS
    <3>3. RelationStands(k, row)'
      BY <1>2, <1>3, <3>1, <3>2, RelationStandsOn
    <3> QED
      BY <3>1, <3>2, <3>3
  <2> QED
    BY <2>1
<1>5. rulings' \in Seq(RulingRow)
  BY <1>1 DEF PostInv
<1> QED
  BY <1>1, <1>4, <1>5, RelationsMove

(* What is materialized stands between the posts of its candidate, which   *)
(* was confirmed.                                                          *)
LEMMA MatchKeyStands ==
  ASSUME PostInv, NEW m, MatchStands(m), Materializable(m)
  PROVE  /\ Grounded(MatchKey(m)) /\ Endpoints(MatchKey(m)) = {m.from, m.to}
         /\ Asked({m.from, m.to})
<1>1. /\ m \in MatchRow /\ m.from # m.to /\ m.from \in stored /\ m.to \in stored
      /\ m.relation \in Relation /\ m.relation # "unresolved" /\ Asked({m.from, m.to})
      /\ m.relation \in {"same_work", "variant_of"} => {m.from, m.to} \subseteq Range(works)
  BY DEF MatchStands, Materializable, MatchRow
<1>2. CASE m.relation = "sourced_from"
  <2>1. MatchKey(m) = Key("reposted_from", <<"post", m.from>>, <<"post", m.to>>)
    BY <1>2 DEF MatchKey
  <2>2. "reposted_from" \in RelationKind
    BY DEF RelationKind
  <2>3. /\ <<"post", m.from>> \in LineageNodes /\ PostsOf(<<"post", m.from>>) = m.from
        /\ <<"post", m.to>> \in LineageNodes /\ PostsOf(<<"post", m.to>>) = m.to
        /\ <<"post", m.from>> # <<"post", m.to>>
    BY <1>1, NodeFacts
  <2> QED
    BY <1>1, <2>1, <2>2, <2>3, KeyStands
<1>3. CASE m.relation # "sourced_from"
  <2>1. m.relation \in RelationKind /\ m.relation \in {"same_work", "variant_of"}
    BY <1>1, <1>3 DEF Relation, RelationKind
  <2> DEFINE v == WorkOf(m.from)
             w == WorkOf(m.to)
  <2>2. v \in DOMAIN works /\ w \in DOMAIN works /\ works[v] = m.from /\ works[w] = m.to
    BY <1>1, <2>1 DEF WorkOf, Range
  <2>3. MatchKey(m) = Key(m.relation, <<"work", v>>, <<"work", w>>)
    BY <1>3 DEF MatchKey
  <2> HIDE DEF v, w
  <2>4. /\ <<"work", v>> \in LineageNodes /\ PostsOf(<<"work", v>>) = m.from
        /\ <<"work", w>> \in LineageNodes /\ PostsOf(<<"work", w>>) = m.to
        /\ <<"work", v>> # <<"work", w>>
    BY <1>1, <2>2, NodeFacts
  <2> DEFINE k == Key(m.relation, <<"work", v>>, <<"work", w>>)
  <2>5. /\ Grounded(k)
        /\ Endpoints(k) = {PostsOf(<<"work", v>>), PostsOf(<<"work", w>>)}
    BY <2>1, <2>4, KeyStands
  <2> HIDE DEF k
  <2>6. MatchKey(m) = k
    BY <2>3 DEF k
  <2> QED
    BY <1>1, <2>4, <2>5, <2>6
<1> QED
  BY <1>2, <1>3

(* Materialization adds what confirmed candidates are evidence of, and     *)
(* confirms what nobody has decided.                                       *)
LEMMA MaterializeKeeps ==
  ASSUME PostInv, MaterializeCandidates
  PROVE  PostInv'
<1> DEFINE usable == {i \in DOMAIN matches : Materializable(matches[i])}
           Of(k) == {i \in usable : MatchKey(matches[i]) = k}
           keys == {MatchKey(matches[i]) : i \in usable}
           items(k) == UNION {matches[i].evidence : i \in Of(k)}
           Added(k) == Inserted(k, "reviewed", items(k))
           confirming == {Min(Of(k)) : k \in {x \in keys : Undecided(x)}}
           Ruling(i) == [key |-> MatchKey(matches[i]), decision |-> "confirmed", by |-> i]
<1>1. relations' = [k \in DOMAIN relations \cup keys |->
                      IF k \notin keys THEN relations[k]
                      ELSE IF Undecided(k) THEN Ruled(Added(k), "confirmed") ELSE Added(k)]
  BY DEF MaterializeCandidates
<1>2. OnlyRelations
  BY DEF MaterializeCandidates, OnlyRelations
<1>3. PICK order \in Ascending(confirming) :
         rulings' = rulings \o [n \in DOMAIN order |-> Ruling(order[n])]
  BY DEF MaterializeCandidates
<1>4. ASSUME NEW i \in usable
      PROVE  /\ Grounded(MatchKey(matches[i]))
             /\ Endpoints(MatchKey(matches[i])) = {matches[i].from, matches[i].to}
             /\ Asked(Endpoints(MatchKey(matches[i])))
             /\ matches[i].evidence \in SUBSET EvidenceRow
             /\ About(matches[i].evidence, Endpoints(MatchKey(matches[i])))
  <2>1. PICK m : m = matches[i]
    OBVIOUS
  <2>2. MatchStands(m) /\ Materializable(m)
    BY <2>1 DEF PostInv, MatchesStand
  <2>3. /\ Grounded(MatchKey(m)) /\ Endpoints(MatchKey(m)) = {m.from, m.to}
        /\ Asked({m.from, m.to})
    BY <2>2, MatchKeyStands
  <2>4. m.evidence \in SUBSET EvidenceRow /\ About(m.evidence, {m.from, m.to})
    BY <2>2 DEF MatchStands, MatchRow
  <2> QED
    BY <2>1, <2>3, <2>4
<1>5. ASSUME NEW k \in keys
      PROVE  /\ RelationStands(k, Added(k)) /\ RelationStands(k, Ruled(Added(k), "confirmed"))
  <2>1. PICK i \in usable : MatchKey(matches[i]) = k
    OBVIOUS
  <2>2. Grounded(k) /\ Asked(Endpoints(k))
    BY <1>4, <2>1
  <2>3. ASSUME NEW e \in items(k)
        PROVE  e \in EvidenceRow /\ {e.from, e.to} = Endpoints(k)
    <3>1. PICK j \in usable : MatchKey(matches[j]) = k /\ e \in matches[j].evidence
      OBVIOUS
    <3> QED
      BY <1>4, <3>1 DEF About
  <2>4. items(k) # {}
    <3>1. PICK e : e \in matches[i].evidence
      BY <1>4 DEF About
    <3>2. e \in items(k)
      BY <2>1, <3>1
    <3> QED
      BY <3>2
  <2> HIDE DEF items
  <2>5. items(k) \in SUBSET EvidenceRow /\ "reviewed" \in RelationStatus
    BY <2>3 DEF RelationStatus
  <2>6. RelationStands(k, Added(k))
    BY <2>2, <2>3, <2>4, <2>5, InsertedStands
  <2> HIDE DEF Added
  <2> DEFINE ruled == Ruled(Added(k), "confirmed")
  <2>7. ruled \in RelationRow /\ ruled.evidence = Added(k).evidence
    <3>1. Added(k) \in RelationRow /\ "confirmed" \in Verdicts
      BY <2>6 DEF RelationStands, Verdicts
    <3> QED
      BY <3>1, RuledFields
  <2> HIDE DEF ruled
  <2>8. RelationStands(k, ruled)
    BY <2>2, <2>6, <2>7 DEF RelationStands
  <2> QED
    BY <2>6, <2>8 DEF ruled
<1>6. confirming \in SUBSET usable
  <2>1. ASSUME NEW k \in keys
        PROVE  Min(Of(k)) \in usable
    <3>1. Len(matches) \in Nat /\ DOMAIN matches = 1..Len(matches)
      BY DEF PostInv, MatchesStand
    <3>2. Of(k) \in SUBSET (1..Len(matches)) /\ Of(k) # {}
      BY <3>1
    <3>3. Min(Of(k)) \in Of(k)
      BY <3>1, <3>2, FirstRow
    <3> QED
      BY <3>3
  <2> QED
    BY <2>1
<1>7. /\ DOMAIN matches = 1..Len(matches) /\ Len(matches) \in Nat
      /\ rulings \in Seq(RulingRow) /\ Len(rulings) \in Nat
  BY DEF PostInv, MatchesStand
<1>8. ASSUME NEW i \in usable
      PROVE  Ruling(i) \in RulingRow
  <2>1. MatchKey(matches[i]) \in RelationKey /\ "confirmed" \in Verdicts /\ i \in Nat
    BY <1>4, <1>7 DEF Grounded, Verdicts
  <2> QED
    BY <2>1 DEF RulingRow
<1>9. usable \in SUBSET (1..Len(matches))
  BY <1>7
<1> HIDE DEF usable, keys, Added, confirming, Ruling
<1>10. confirming \in SUBSET Nat /\ IsFiniteSet(confirming)
  <2>1. confirming \in SUBSET (1..Len(matches)) /\ IsFiniteSet(1..Len(matches))
    BY <1>6, <1>7, <1>9, FS_Interval
  <2>2. IsFiniteSet(confirming)
    BY <2>1, FS_Subset
  <2>3. 1..Len(matches) \subseteq Nat
    BY <1>7
  <2> QED
    BY <2>1, <2>2, <2>3
<1>11. /\ Len(order) \in Nat /\ DOMAIN order = 1..Len(order)
       /\ \A n \in DOMAIN order : order[n] \in confirming
  BY <1>10, AscendingFacts
<1> DEFINE more == [n \in DOMAIN order |-> Ruling(order[n])]
<1>12. more \in Seq(RulingRow)
  <2>1. \A n \in DOMAIN order : Ruling(order[n]) \in RulingRow
    BY <1>6, <1>8, <1>11
  <2> QED
    BY <1>11, <2>1
<1> HIDE DEF more
<1>13. rulings' = rulings \o more
  BY <1>3 DEF more
<1>14. /\ rulings' \in Seq(RulingRow) /\ DOMAIN rulings \subseteq DOMAIN rulings'
       /\ \A i \in DOMAIN rulings : rulings'[i] = rulings[i]
  BY <1>7, <1>12, <1>13
<1>15. TablesGrow
  BY <1>2, <1>14 DEF TablesGrow, OnlyRelations
<1>16. (\A k \in DOMAIN relations : RelationStands(k, relations[k]))'
  <2>1. ASSUME NEW k \in DOMAIN relations'
        PROVE  RelationStands(k, relations[k])'
    <3>1. PICK row : row = IF k \notin keys THEN relations[k]
                           ELSE IF Undecided(k) THEN Ruled(Added(k), "confirmed") ELSE Added(k)
      OBVIOUS
    <3>2. relations'[k] = row /\ k \in DOMAIN relations \cup keys
      BY <1>1, <3>1
    <3>3. RelationStands(k, row)
      BY <1>5, <3>1, <3>2 DEF PostInv
    <3>4. RelationStands(k, row)'
      BY <1>15, <3>3, RelationStandsOn
    <3> QED
      BY <3>2, <3>4
  <2> QED
    BY <2>1
<1> QED
  BY <1>2, <1>14, <1>16, RelationsMove

(* A row that replaces that of a relationship and stands.                  *)
LEMMA RowReplaced ==
  ASSUME PostInv, OnlyRelations, TablesGrow, rulings' \in Seq(RulingRow),
         NEW k \in DOMAIN relations, NEW row,
         relations' = [relations EXCEPT ![k] = row], RelationStands(k, row)'
  PROVE  PostInv'
<1>1. ASSUME NEW x \in DOMAIN relations'
      PROVE  RelationStands(x, relations[x])'
  <2>1. CASE x = k
    BY <2>1
  <2>2. CASE x # k
    <3>1. PICK r : r = relations[x]
      OBVIOUS
    <3>2. RelationStands(x, r)' /\ relations'[x] = r
      BY <2>2, <3>1, RelationStandsOn DEF PostInv
    <3> QED
      BY <3>2
  <2> QED
    BY <2>1, <2>2
<1>2. (\A x \in DOMAIN relations : RelationStands(x, relations[x]))'
  BY <1>1
<1> QED
  BY <1>2, RelationsMove

(* The operator's decision is what a confirmed relationship has to show.   *)
LEMMA ReviewRelationshipKeeps ==
  ASSUME PostInv, NEW k \in DOMAIN relations, NEW decision \in Rulings,
         ReviewRelationship(k, decision)
  PROVE  PostInv'
<1> PICK old : old = relations[k]
  OBVIOUS
<1> DEFINE row == Ruled(old, decision)
           ruling == [key |-> k, decision |-> decision, by |-> 0]
<1>1. /\ relations' = [relations EXCEPT ![k] = row] /\ rulings' = Append(rulings, ruling)
      /\ OnlyRelations
  BY DEF ReviewRelationship, OnlyRelations
<1>2. RelationStands(k, old) /\ rulings \in Seq(RulingRow)
  BY DEF PostInv
<1>3. decision \in Verdicts /\ old \in RelationRow /\ k \in RelationKey
  BY <1>2, RelationsAssumption DEF Verdicts, RelationStands, Grounded
<1>4. /\ row \in RelationRow /\ row.review = decision /\ row.evidence = old.evidence
  BY <1>3, RuledFields
<1>5. ruling \in RulingRow /\ ruling.key = k /\ ruling.by = 0 /\ ruling.decision = decision
  BY <1>3 DEF RulingRow
<1> HIDE DEF row, ruling
<1>6. /\ rulings' \in Seq(RulingRow) /\ DOMAIN rulings \subseteq DOMAIN rulings'
      /\ \A i \in DOMAIN rulings : rulings'[i] = rulings[i]
      /\ \E i \in DOMAIN rulings' : rulings'[i] = ruling
  BY <1>1, <1>2, <1>5
<1>7. TablesGrow
  BY <1>1, <1>6 DEF TablesGrow, OnlyRelations
<1>8. decision = "confirmed" => Ordered(k)'
  BY <1>5, <1>6 DEF Ordered
<1>9. RelationStands(k, old)'
  BY <1>2, <1>7, RelationStandsOn
<1>10. RelationStands(k, row)'
  BY <1>4, <1>8, <1>9 DEF RelationStands
<1>11. PICK r : r = row
  OBVIOUS
<1> QED
  BY <1>1, <1>6, <1>7, <1>10, <1>11, RowReplaced

(* A status that the operator sets changes nothing else.                   *)
LEMMA TransitionKeeps ==
  ASSUME PostInv, NEW k \in DOMAIN relations, NEW status \in Transitions,
         TransitionStatus(k, status)
  PROVE  PostInv'
<1> PICK old : old = relations[k]
  OBVIOUS
<1> PICK row : row = [old EXCEPT !.status = status]
  OBVIOUS
<1>1. /\ relations' = [relations EXCEPT ![k] = row] /\ rulings' = rulings /\ OnlyRelations
  BY DEF TransitionStatus, OnlyRelations
<1>2. RelationStands(k, old) /\ rulings' \in Seq(RulingRow)
  BY <1>1 DEF PostInv
<1>3. status \in RelationStatus /\ old \in RelationRow
  BY <1>2, RelationsAssumption DEF RelationStatus, RelationStands
<1>4. row \in RelationRow /\ row.review = old.review /\ row.evidence = old.evidence
  BY <1>3, StatusFields
<1>5. RelationStands(k, row)
  BY <1>2, <1>4 DEF RelationStands
<1>6. TablesGrow
  BY <1>1 DEF TablesGrow, OnlyRelations
<1>7. RelationStands(k, row)'
  BY <1>5, <1>6, RelationStandsOn
<1> QED
  BY <1>1, <1>2, <1>6, <1>7, RowReplaced

-----------------------------------------------------------------------------

(* At first there is neither a candidate nor a relationship.               *)
LEMMA PostInitKeeps ==
  ASSUME PostInit
  PROVE  PostInv
<1>1. /\ scenario \in Scenarios /\ stored = KnownPosts /\ pictured = PicturedPosts /\ facts = {}
      /\ matches = << >> /\ reviews = << >> /\ works = << >>
      /\ relations = << >> /\ rulings = << >>
  BY DEF PostInit
<1>2. RecordInv
  BY <1>1, RelationsAssumption DEF RecordInv
<1>3. MatchesStand(matches)
  BY <1>1 DEF MatchesStand
<1>4. WorksInv
  BY <1>1 DEF WorksInv, IsInjective
<1>5. reviews \in Seq(ReviewRow) /\ rulings \in Seq(RulingRow) /\ DOMAIN relations = {}
  BY <1>1
<1> QED
  BY <1>2, <1>3, <1>4, <1>5 DEF PostInv

(* Every transaction keeps the tables in order.                            *)
LEMMA PostStepKeeps ==
  ASSUME PostInv, [PostNext]_postVars
  PROVE  PostInv'
<1>1. CASE UNCHANGED postVars
  <2>1. /\ UNCHANGED <<scenario, stored, pictured, facts, matches>>
        /\ UNCHANGED <<reviews, works, relations, rulings>>
    BY <1>1 DEF postVars
  <2>2. MatchesStand(matches')
    BY <2>1 DEF PostInv
  <2>3. OnlyMatches
    BY <2>1 DEF OnlyMatches
  <2> QED
    BY <2>2, <2>3, MatchesMove
<1>2. CASE (\E p \in Post : StorePost(p)) \/ \E f \in scenario.facts : StoreFact(f)
  BY <1>2, ArrivalKeeps
<1>3. CASE DiscoverPosts
  BY <1>3, DiscoverPostsKeeps
<1>4. ASSUME NEW r \in scenario.lookups, LookupPost(r)
      PROVE  PostInv'
  BY <1>4, LookupKeeps
<1>5. ASSUME NEW c \in scenario.manual, CreatePostCandidate(c)
      PROVE  PostInv'
  BY <1>5, CreateKeeps
<1>6. ASSUME NEW i \in DOMAIN matches, NEW d \in Rulings, ReviewPost(i, d)
      PROVE  PostInv'
  BY <1>6, ReviewPostKeeps
<1>7. CASE MaterializeWorks
  BY <1>7, MaterializeWorksKeeps
<1>8. CASE Seed
  BY <1>8, SeedKeeps
<1>9. CASE MaterializeCandidates
  BY <1>9, MaterializeKeeps
<1>10. ASSUME NEW k \in DOMAIN relations, NEW d \in Rulings, ReviewRelationship(k, d)
       PROVE  PostInv'
  BY <1>10, ReviewRelationshipKeeps
<1>11. ASSUME NEW k \in DOMAIN relations, NEW s \in Transitions, TransitionStatus(k, s)
       PROVE  PostInv'
  BY <1>11, TransitionKeeps
<1> QED
  BY <1>1, <1>2, <1>3, <1>4, <1>5, <1>6, <1>7, <1>8, <1>9, <1>10, <1>11, Zenon DEF PostNext

(* The inductive invariant holds throughout.                               *)
THEOREM PostInvariance == PostSpec => []PostInv
<1>1. PostInit => PostInv
  BY PostInitKeeps
<1>2. PostInv /\ [PostNext]_postVars => PostInv'
  BY PostStepKeeps
<1> QED
  BY <1>1, <1>2, PTL DEF PostSpec

(* The tables hold rows of their columns: a candidate is identified by its *)
(* key and links two posts, a post has one work anchor, a relationship     *)
(* links two different objects (discovery/candidates.py:106-115,           *)
(* persistence/relationships.py:61-153).                                   *)
THEOREM PostTypesStand == PostSpec => []PostTypeOK
<1>1. PostInv => PostTypeOK
  <2> SUFFICES ASSUME PostInv PROVE PostTypeOK
    OBVIOUS
  <2>1. RecordInv /\ MatchesStand(matches) /\ WorksInv
    BY DEF PostInv
  <2>2. ASSUME NEW i \in DOMAIN matches
        PROVE  /\ Restrict(matches[i], DOMAIN matches[i] \ {"key", "evidence"}) \in Match
               /\ matches[i].evidence # {} /\ matches[i].from # matches[i].to
    <3>1. MatchStands(matches[i])
      BY <2>1 DEF MatchesStand
    <3>2. matches[i] \in MatchRow
      BY <3>1 DEF MatchStands
    <3>3. DOMAIN matches[i] \ {"key", "evidence"} =
             {"relation", "from", "to", "target", "state", "revision"}
      BY <3>2 DEF MatchRow
    <3>4. [f \in {"relation", "from", "to", "target", "state", "revision"} |-> matches[i][f]]
             \in Match
      BY <3>2 DEF MatchRow, Match, Relation
    <3> QED
      BY <3>1, <3>3, <3>4 DEF MatchStands, About, Restrict
  <2>3. Range(works) \subseteq pictured
    BY <2>1 DEF WorksInv, Range
  <2>4. ASSUME NEW k \in DOMAIN relations
        PROVE  /\ k.subject \in Object /\ k.object \in Object /\ k.subject # k.object
               /\ relations[k].status \in {"observed", "verified", "derived", "inferred", "reviewed"}
               /\ relations[k].review \in Verdicts
    <3>1. RelationStands(k, relations[k])
      BY DEF PostInv
    <3>2. Grounded(k) /\ relations[k] \in RelationRow
      BY <3>1 DEF RelationStands
    <3> QED
      BY <3>2 DEF Grounded, RelationKey, RelationRow
  <2> QED
    BY <2>1, <2>2, <2>3, <2>4 DEF PostTypeOK, RecordInv, MatchesStand, WorksInv
<1> QED
  BY <1>1, PostInvariance, PTL

(* Only the operator changes a review that was given: seeding and          *)
(* materializing again add evidence and leave it                           *)
(* (persistence/relationships.py:61-153,                                   *)
(* relationships/materialize_candidates.py:132-151).                       *)
THEOREM OperatorStands == PostSpec => [][OperatorHasLastWord]_postVars
<1>1. PostInv /\ [PostNext]_postVars => [OperatorHasLastWord]_postVars
  <2> SUFFICES ASSUME PostInv, PostNext, NEW k \in DOMAIN relations,
                      relations[k].review # "pending",
                      relations'[k].review # relations[k].review
               PROVE  rulings' # rulings /\ Last(rulings').key = k /\ Last(rulings').by = 0
    BY DEF OperatorHasLastWord
  <2>1. RelationStands(k, relations[k]) /\ relations[k] \in RelationRow
    BY DEF PostInv, RelationStands
  <2>2. CASE relations' = relations
    BY <2>2
  <2>3. CASE Seed
    <3>1. PICK status, items : relations'[k] = Inserted(k, status, items)
      BY <2>3 DEF Seed
    <3>2. Inserted(k, status, items).review = relations[k].review
      BY <2>1 DEF Inserted, RelationRow
    <3> QED
      BY <3>1, <3>2
  <2>4. CASE MaterializeCandidates
    <3>1. ~ Undecided(k)
      BY DEF Undecided
    <3>2. \/ relations'[k] = relations[k]
          \/ \E items : relations'[k] = Inserted(k, "reviewed", items)
      BY <2>4, <3>1 DEF MaterializeCandidates
    <3>3. \A items : Inserted(k, "reviewed", items).review = relations[k].review
      BY <2>1 DEF Inserted, RelationRow
    <3> QED
      BY <3>2, <3>3
  <2>5. ASSUME NEW x \in DOMAIN relations, NEW d \in Rulings, ReviewRelationship(x, d)
        PROVE  rulings' # rulings /\ Last(rulings').key = k /\ Last(rulings').by = 0
    <3>1. x = k
      BY <2>5 DEF ReviewRelationship
    <3>2. rulings \in Seq(RulingRow) /\ rulings' = Append(rulings, [key |-> x, decision |-> d, by |-> 0])
      BY <2>5 DEF PostInv, ReviewRelationship
    <3> DEFINE ruling == [key |-> x, decision |-> d, by |-> 0]
    <3>3. ruling.key = x /\ ruling.by = 0
      OBVIOUS
    <3> HIDE DEF ruling
    <3>4. Len(rulings') = Len(rulings) + 1 /\ rulings'[Len(rulings) + 1] = ruling
          /\ Len(rulings) \in Nat
      BY <3>2 DEF ruling
    <3>5. Last(rulings') = ruling /\ rulings' # rulings
      BY <3>4 DEF Last
    <3> QED
      BY <3>1, <3>3, <3>5
  <2>6. ASSUME NEW x \in DOMAIN relations, NEW s \in Transitions, TransitionStatus(x, s)
        PROVE  FALSE
    <3>1. relations' = [relations EXCEPT ![x].status = s]
      BY <2>6 DEF TransitionStatus
    <3>2. CASE x = k
      BY <2>1, <3>1, <3>2 DEF RelationRow
    <3>3. CASE x # k
      BY <3>1, <3>3
    <3> QED
      BY <3>2, <3>3
  <2>7. \/ relations' = relations \/ Seed \/ MaterializeCandidates
        \/ \E x \in DOMAIN relations : \/ \E d \in Rulings : ReviewRelationship(x, d)
                                       \/ \E s \in Transitions : TransitionStatus(x, s)
    BY DEF PostNext, StorePost, StoreFact, DiscoverPosts, LookupPost, CreatePostCandidate,
           ReviewPost, MaterializeWorks
  <2> QED
    BY <2>2, <2>3, <2>4, <2>5, <2>6, <2>7, Zenon
<1> QED
  BY <1>1, PostInvariance, PTL DEF PostSpec

(***************************************************************************)
(* Lineages                                                                *)
(***************************************************************************)

(* What derives lineages is a finite graph over the objects there are.     *)
LEMMA LineageGraph ==
  ASSUME PostInv
  PROVE  LET E == AnchorEdges \cup DependenceEdges
         IN  E \in SUBSET (LineageNodes \X LineageNodes) /\ IsFiniteSet(E)
<1> DEFINE E == AnchorEdges \cup DependenceEdges
           N == LineageNodes
<1>1. /\ stored \in SUBSET Post /\ pictured \in SUBSET stored
      /\ works \in Seq(Post) /\ Len(works) \in Nat /\ DOMAIN works = 1..Len(works)
      /\ \A w \in DOMAIN works : works[w] \in pictured
  BY DEF PostInv, RecordInv, WorksInv
<1>2. AnchorEdges \in SUBSET (N \X N)
  <2>1. \A p \in pictured : <<"media_occurrence", p>> \in N /\ <<"post", p>> \in N
    BY <1>1, NodeFacts
  <2>2. \A w \in DOMAIN works :
           /\ <<"work", w>> \in N /\ <<"post", works[w]>> \in N
           /\ <<"media_occurrence", works[w]>> \in N
    BY <1>1, NodeFacts
  <2> HIDE DEF N
  <2>3. ASSUME NEW e \in AnchorEdges
        PROVE  e \in N \X N
    <3>1. CASE e \in {<<<<"media_occurrence", p>>, <<"post", p>>>> : p \in pictured}
      BY <2>1, <3>1
    <3>2. CASE e \in {<<<<"work", w>>, <<"post", works[w]>>>> : w \in DOMAIN works}
      <4>1. PICK w \in DOMAIN works : e = <<<<"work", w>>, <<"post", works[w]>>>>
        BY <3>2
      <4> QED
        BY <2>2, <4>1
    <3>3. CASE e \in {<<<<"work", w>>, <<"media_occurrence", works[w]>>>> : w \in DOMAIN works}
      <4>1. PICK w \in DOMAIN works : e = <<<<"work", w>>, <<"media_occurrence", works[w]>>>>
        BY <3>3
      <4> QED
        BY <2>2, <4>1
    <3> QED
      BY <3>1, <3>2, <3>3 DEF AnchorEdges
  <2> QED
    BY <2>3
<1>3. DependenceEdges \in SUBSET (N \X N)
  <2>1. \A k \in DOMAIN relations : k.subject \in N /\ k.object \in N
    BY DEF PostInv, RelationStands, Grounded
  <2> HIDE DEF N
  <2> QED
    BY <2>1 DEF DependenceEdges
<1>4. IsFiniteSet(N)
  <2>1. IsFiniteSet(stored) /\ IsFiniteSet(pictured) /\ IsFiniteSet(DOMAIN works)
    <3>1. pictured \in SUBSET Post /\ IsFiniteSet(Post)
      BY <1>1, RelationsAssumption
    <3>2. IsFiniteSet(stored) /\ IsFiniteSet(pictured)
      BY <1>1, <3>1, FS_Subset
    <3>3. IsFiniteSet(DOMAIN works)
      BY <1>1, FS_Interval
    <3> QED
      BY <3>2, <3>3
  <2>2. \A x : IsFiniteSet({x})
    BY FS_Singleton
  <2>3. /\ IsFiniteSet({"post"} \X stored) /\ IsFiniteSet({"media_occurrence"} \X pictured)
        /\ IsFiniteSet({"work"} \X DOMAIN works)
    BY <2>1, <2>2, FS_Product
  <2>4. IsFiniteSet(({"post"} \X stored) \cup ({"media_occurrence"} \X pictured))
    BY <2>3, FS_Union
  <2> QED
    BY <2>3, <2>4, FS_Union DEF LineageNodes
<1>5. IsFiniteSet(N \X N)
  BY <1>4, FS_Product
<1>6. E \in SUBSET (N \X N)
  BY <1>2, <1>3
<1>7. IsFiniteSet(E)
  BY <1>5, <1>6, FS_Subset
<1> QED
  BY <1>6, <1>7

(* Union-find gives each object its component, and anchors make those of a *)
(* post, its occurrence and its work one.                                  *)
LEMMA LineageParts ==
  ASSUME PostInv
  PROVE  LET E == AnchorEdges \cup DependenceEdges
             Of(o) == PartOf(o, LineageNodes, E)
         IN  /\ LineageComponents = Parts(LineageNodes, E)
             /\ \A o \in LineageNodes : <<"post", PostsOf(o)>> \in Of(o)
<1> DEFINE E == AnchorEdges \cup DependenceEdges
           N == LineageNodes
<1>1. E \in SUBSET (N \X N) /\ IsFiniteSet(E)
  BY LineageGraph
<1>2. LineageComponents = FoldSet(United, {{n} : n \in N}, E)
  BY DEF LineageComponents
<1>3. ASSUME NEW o \in N
      PROVE  <<"post", PostsOf(o)>> \in PartOf(o, N, E)
  <2>1. o \in PartOf(o, N, E) /\ Unsplit(PartOf(o, N, E), E)
    BY <1>1, PartUnsplit
  <2>2. CASE o \in {"post"} \X stored
    <3>1. <<"post", PostsOf(o)>> = o
      BY <2>2 DEF PostsOf
    <3> QED
      BY <2>1, <3>1
  <2>3. CASE o \in {"media_occurrence"} \X pictured
    <3>1. <<o, <<"post", PostsOf(o)>>>> \in E
      BY <2>3 DEF PostsOf, AnchorEdges
    <3> QED
      BY <2>1, <3>1 DEF Unsplit
  <2>4. CASE o \in {"work"} \X DOMAIN works
    <3>1. <<o, <<"post", PostsOf(o)>>>> \in E
      BY <2>4 DEF PostsOf, AnchorEdges
    <3> QED
      BY <2>1, <3>1 DEF Unsplit
  <2> QED
    BY <2>2, <2>3, <2>4 DEF LineageNodes
<1> HIDE DEF E, N
<1>4. LineageComponents = Parts(N, E)
  BY <1>1, <1>2, UnionFindIsParts
<1> QED
  BY <1>3, <1>4 DEF E, N

(* Which relationships count for lineage.                                  *)
Standing(k) ==
    /\ k.kind \in {"reposted_from", "variant_of", "thumbnail_of", "same_bytes", "same_work"}
    /\ relations[k].review # "rejected" /\ relations[k].status # "inferred"

(* A lineage is what standing relationships join.                          *)
LEMMA LineageStands ==
  ASSUME PostInv
  PROVE  LineageIsStanding
<1> DEFINE E == AnchorEdges \cup DependenceEdges
           N == LineageNodes
           groups == LineageComponents
           lineage == [p \in stored |-> CHOOSE g \in groups : <<"post", p>> \in g]
           standing == {Endpoints(k) : k \in {x \in DOMAIN relations : Standing(x)}}
<1>1. E \in SUBSET (N \X N)
  BY LineageGraph
<1>2. /\ groups = Parts(N, E)
      /\ \A o \in N : <<"post", PostsOf(o)>> \in PartOf(o, N, E)
  BY LineageParts
<1>3. /\ \A o \in N : PostsOf(o) \in stored
      /\ \A p \in stored : <<"post", p>> \in N /\ PostsOf(<<"post", p>>) = p
  BY NodeFacts
<1>4. DependenceEdges =
         {<<k.subject, k.object>> : k \in {x \in DOMAIN relations : Standing(x)}}
  <2>1. ASSUME NEW k \in DOMAIN relations
        PROVE  Standing(k) <=> /\ k.kind \in Descent \cup Symmetric
                               /\ relations[k].status \in Conclusions
                               /\ relations[k].review # "rejected"
    <3>1. relations[k] \in RelationRow
      BY DEF PostInv, RelationStands
    <3>2. relations[k].status \in Conclusions <=> relations[k].status # "inferred"
      BY <3>1 DEF RelationRow, Conclusions
    <3> QED
      BY <3>2 DEF Standing, Descent, Symmetric
  <2> QED
    BY <2>1 DEF DependenceEdges
<1>5. ASSUME NEW k \in DOMAIN relations, Standing(k)
      PROVE  <<k.subject, k.object>> \in E /\ k.subject \in N /\ k.object \in N
  <2>1. k.subject \in N /\ k.object \in N
    BY DEF PostInv, RelationStands, Grounded
  <2> QED
    BY <1>4, <1>5, <2>1
<1>6. \A e \in DependenceEdges : \E k \in DOMAIN relations :
         Standing(k) /\ e = <<k.subject, k.object>>
  BY <1>4
<1>7. \A e \in AnchorEdges : PostsOf(e[1]) = PostsOf(e[2])
  BY DEF AnchorEdges, PostsOf
<1>8. \A e \in E : e \in AnchorEdges \/ e \in DependenceEdges
  OBVIOUS
<1>9. ASSUME NEW p \in stored
      PROVE  lineage[p] = PartOf(<<"post", p>>, N, E)
  <2> DEFINE o == <<"post", p>>
  <2>1. o \in N
    BY <1>3
  <2> HIDE DEF o, E, N
  <2>2. PartOf(o, N, E) \in groups /\ o \in PartOf(o, N, E)
    BY <1>1, <1>2, <2>1, PartUnsplit DEF Parts
  <2>3. ASSUME NEW g \in groups, o \in g
        PROVE  g = PartOf(o, N, E)
    <3>1. PICK n \in N : g = PartOf(n, N, E)
      BY <1>2 DEF Parts
    <3> QED
      BY <1>1, <2>3, <3>1, PartSame
  <2>4. (CHOOSE g \in groups : o \in g) = PartOf(o, N, E)
    BY <2>2, <2>3
  <2> QED
    BY <2>4 DEF o
<1> HIDE DEF E, N, lineage, groups
<1>10. ASSUME NEW k \in DOMAIN relations, Standing(k)
       PROVE  lineage[PostsOf(k.subject)] = lineage[PostsOf(k.object)]
  <2> DEFINE s == k.subject
             o == k.object
  <2>1. <<s, o>> \in E /\ s \in N /\ o \in N
    BY <1>5, <1>10
  <2>2. /\ s \in PartOf(s, N, E) /\ Unsplit(PartOf(s, N, E), E)
    BY <1>1, <2>1, PartUnsplit
  <2>3. o \in PartOf(s, N, E)
    BY <2>1, <2>2 DEF Unsplit
  <2>4. PartOf(o, N, E) = PartOf(s, N, E)
    BY <1>1, <2>1, <2>3, PartSame
  <2>5. /\ PartOf(<<"post", PostsOf(s)>>, N, E) = PartOf(s, N, E)
        /\ PartOf(<<"post", PostsOf(o)>>, N, E) = PartOf(o, N, E)
    BY <1>1, <1>2, <2>1, PartSame
  <2> QED
    BY <1>3, <1>9, <2>1, <2>4, <2>5
<1>11. ASSUME NEW e \in standing, NEW p \in e, NEW q \in e
       PROVE  lineage[p] = lineage[q]
  <2>1. PICK k \in DOMAIN relations : Standing(k) /\ e = Endpoints(k)
    OBVIOUS
  <2>2. e = {PostsOf(k.subject), PostsOf(k.object)}
    BY <2>1 DEF Endpoints
  <2>3. lineage[PostsOf(k.subject)] = lineage[PostsOf(k.object)]
    BY <1>10, <2>1
  <2> QED
    BY <2>2, <2>3
<1>12. ASSUME NEW S \in SUBSET stored, NEW p \in S, NEW q \in stored \ S, lineage[p] = lineage[q]
       PROVE  \E e \in standing : e \cap S # {} /\ e \ S # {}
  <2> SUFFICES ASSUME \A e \in standing : e \cap S = {} \/ e \subseteq S
               PROVE  FALSE
    OBVIOUS
  <2> DEFINE T == {n \in N : PostsOf(n) \in S}
  <2>1. ASSUME NEW k \in DOMAIN relations, Standing(k)
        PROVE  PostsOf(k.subject) \in S <=> PostsOf(k.object) \in S
    <3>1. Endpoints(k) \in standing
      BY <2>1
    <3>2. Endpoints(k) \cap S = {} \/ Endpoints(k) \subseteq S
      BY <3>1
    <3> QED
      BY <3>2 DEF Endpoints
  <2>2. ASSUME NEW e \in E
        PROVE  PostsOf(e[1]) \in S <=> PostsOf(e[2]) \in S
    <3>1. CASE e \in AnchorEdges
      BY <1>7, <3>1
    <3>2. CASE e \in DependenceEdges
      <4>1. PICK k \in DOMAIN relations : Standing(k) /\ e = <<k.subject, k.object>>
        BY <1>6, <3>2
      <4> QED
        BY <2>1, <4>1
    <3> QED
      BY <1>8, <3>1, <3>2
  <2>3. Unsplit(T, E)
    BY <1>1, <2>2 DEF Unsplit
  <2>4. <<"post", p>> \in T /\ <<"post", q>> \in N /\ <<"post", q>> \notin T
    BY <1>3
  <2>5. PartOf(<<"post", p>>, N, E) \subseteq T
    BY <2>3, <2>4, PartLeast
  <2>6. <<"post", q>> \in PartOf(<<"post", q>>, N, E)
    BY <1>1, <2>4, PartUnsplit
  <2> QED
    BY <1>9, <1>12, <2>4, <2>5, <2>6
<1> QED
  BY <1>11, <1>12 DEF LineageIsStanding, Standing, lineage, groups

(* Evidence is about the posts of its candidate or relationship, nothing   *)
(* is confirmed that nobody confirmed, and a lineage is joined by          *)
(* relationships that stand (persistence/relationships.py,                 *)
(* relationships/materialize_candidates.py, relationships/dependence.py).  *)
THEOREM ConclusionsStand == PostSpec => []ConclusionsAreGrounded
<1>1. PostInv => ConclusionsAreGrounded
  <2> SUFFICES ASSUME PostInv PROVE ConclusionsAreGrounded
    OBVIOUS
  <2>1. \A i \in DOMAIN matches : MatchStands(matches[i])
    BY DEF PostInv, MatchesStand
  <2>2. \A k \in DOMAIN relations : RelationStands(k, relations[k])
    BY DEF PostInv
  <2>3. EvidenceAboutEndpoints
    BY <2>1, <2>2 DEF EvidenceAboutEndpoints, MatchStands, RelationStands, About
  <2>4. NothingConfirmedUnasked
    BY <2>2 DEF NothingConfirmedUnasked, RelationStands, Ordered, Asked
  <2>5. LineageIsStanding
    BY LineageStands
  <2> QED
    BY <2>3, <2>4, <2>5 DEF ConclusionsAreGrounded
<1> QED
  BY <1>1, PostInvariance, PTL

=============================================================================
