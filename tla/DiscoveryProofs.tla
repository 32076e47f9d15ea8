--------------------------- MODULE DiscoveryProofs ---------------------------
(***************************************************************************)
(* Proofs about ProviderWalks, for any posts, tokens, page size and        *)
(* numbers of changes and faults, and about DiscoverySession with the      *)
(* lookups below it, for any processes, seeds, materials, answers and      *)
(* budgets.                                                                *)
(*                                                                         *)
(* WalkInv says of each page that a walk is at that what lies before it    *)
(* was read or came too late, and that nothing behind it was read.         *)
(* LookupInv says of each run that what it and the runs it goes on with    *)
(* have collected reaches to its checkpoint, and SessionInv of each        *)
(* session that its steps rest on such runs and its execution has them yet *)
(* to do.                                                                  *)
(***************************************************************************)
EXTENDS DiscoverySession, ProviderWalks, FiniteSetTheorems, TLAPS

-----------------------------------------------------------------------------
(* Places in a listing *)

(* A place is a number, smaller for the newer post. *)
LEMMA PlaceOrders ==
  ASSUME NEW L \in SUBSET Nat, IsFiniteSet(L)
  PROVE  /\ \A x : Place(L, x) \in Nat
         /\ \A x \in L : Place(L, x) \in 0..Cardinality(L) - 1
         /\ \A x, y \in L : x < y => Place(L, y) < Place(L, x)
         /\ \A x, y \in L : Place(L, x) = Place(L, y) => x = y
<1> DEFINE Up(x) == {y \in L : y > x}
<1>1. \A x : IsFiniteSet(Up(x)) /\ Cardinality(Up(x)) \in Nat
  BY FS_Subset, FS_CardinalityType
<1>2. ASSUME NEW x \in L
      PROVE  Place(L, x) \in 0..Cardinality(L) - 1
  <2>1. x \notin Up(x) /\ Up(x) \cup {x} \in SUBSET L
    OBVIOUS
  <2>2. Cardinality(Up(x) \cup {x}) = Cardinality(Up(x)) + 1
    BY <1>1, <2>1, FS_AddElement
  <2>3. Cardinality(Up(x) \cup {x}) <= Cardinality(L)
    BY <2>1, FS_Subset
  <2>4. Cardinality(L) \in Nat
    BY FS_CardinalityType
  <2>5. Place(L, x) = Cardinality(Up(x))
    BY DEF Place
  <2> HIDE DEF Up
  <2> QED
    BY <1>1, <2>2, <2>3, <2>4, <2>5
<1>3. ASSUME NEW x \in L, NEW y \in L, x < y
      PROVE  Place(L, y) < Place(L, x)
  <2>1. y \notin Up(y) /\ Up(y) \cup {y} \in SUBSET Up(x)
    <3>1. ASSUME NEW z \in Up(y) \cup {y}
          PROVE  z \in Up(x)
      <4>1. z \in L /\ z \in Nat /\ x \in Nat /\ y \in Nat /\ (z > y \/ z = y)
        OBVIOUS
      <4> QED
        BY <1>3, <4>1
    <3>2. y \notin Up(y)
      OBVIOUS
    <3> HIDE DEF Up
    <3> QED
      BY <3>1, <3>2
  <2>2. Cardinality(Up(y) \cup {y}) = Cardinality(Up(y)) + 1
    BY <1>1, <2>1, FS_AddElement
  <2>3. Cardinality(Up(y) \cup {y}) <= Cardinality(Up(x))
    BY <1>1, <2>1, FS_Subset
  <2>4. Place(L, x) = Cardinality(Up(x)) /\ Place(L, y) = Cardinality(Up(y))
    BY DEF Place
  <2> HIDE DEF Up
  <2> QED
    BY <1>1, <2>2, <2>3, <2>4
<1>4. ASSUME NEW x \in L, NEW y \in L, Place(L, x) = Place(L, y)
      PROVE  x = y
  <2>1. Place(L, x) \in Nat
    BY <1>1 DEF Place
  <2> QED
    BY <1>3, <1>4, <2>1
<1>5. \A x : Place(L, x) \in Nat
  BY <1>1 DEF Place
<1> QED
  BY <1>2, <1>3, <1>4, <1>5

(* Every place of a listing is taken. *)
LEMMA EveryPlace ==
  ASSUME NEW L \in SUBSET Nat, IsFiniteSet(L), NEW k \in 0..Cardinality(L) - 1
  PROVE  \E x \in L : Place(L, x) = k
<1> DEFINE f == [x \in L |-> Place(L, x)]
           T == 0..Cardinality(L) - 1
<1>1. IsFiniteSet(T) /\ Cardinality(T) = Cardinality(L)
  BY FS_CardinalityType, FS_Interval
<1>2. f \in Injection(L, T)
  BY PlaceOrders DEF Injection, IsInjective
<1>3. f \in Surjection(L, T)
  BY <1>1, <1>2, FS_Injection
<1>4. PICK x \in L : f[x] = k
  BY <1>3 DEF Surjection
<1> QED
  BY <1>4

(* Between two places there are no more posts than places. *)
LEMMA Between ==
  ASSUME NEW L \in SUBSET Nat, IsFiniteSet(L), NEW T \in SUBSET L,
         NEW from \in Nat, NEW to \in Nat, from <= to,
         \A x \in T : from <= Place(L, x) /\ Place(L, x) < to
  PROVE  IsFiniteSet(T) /\ Cardinality(T) \in Nat /\ Cardinality(T) <= to - from
<1> DEFINE f == [x \in T |-> Place(L, x)]
           I == from..(to - 1)
<1>1. IsFiniteSet(I) /\ Cardinality(I) = to - from
  <2>1. from \in Int /\ to - 1 \in Int
    OBVIOUS
  <2>2. Cardinality(I) = IF from > to - 1 THEN 0 ELSE (to - 1) - from + 1
    BY <2>1, FS_Interval
  <2>3. IsFiniteSet(I)
    BY <2>1, FS_Interval
  <2> HIDE DEF I
  <2> QED
    BY <2>2, <2>3
<1>2. \A x \in T : Place(L, x) \in I
  BY PlaceOrders
<1>3. f \in Injection(T, I)
  BY <1>2, PlaceOrders DEF Injection, IsInjective
<1>4. Cardinality(T) <= Cardinality(I)
  BY <1>1, <1>3, FS_Injection
<1> QED
  BY <1>1, <1>4, FS_Subset, FS_CardinalityType

(* A page is the top of a listing, and one that is not full is all of it.  *)
LEMMA PageIsTop ==
  ASSUME NEW L \in SUBSET Nat, IsFiniteSet(L)
  PROVE  /\ UpToSize(L) \in SUBSET L
         /\ Cardinality(UpToSize(L)) \in Nat /\ Cardinality(UpToSize(L)) <= PageSize
         /\ \A x \in L, y \in UpToSize(L) : y <= x => x \in UpToSize(L)
         /\ Cardinality(UpToSize(L)) < PageSize => UpToSize(L) = L
<1> DEFINE P == UpToSize(L)
<1>0. PageSize \in Nat \ {0}
  BY WalkAssumption
<1>1. P \in SUBSET L /\ \A x \in P : Place(L, x) < PageSize
  BY DEF UpToSize
<1>2. IsFiniteSet(P) /\ Cardinality(P) \in Nat /\ Cardinality(P) <= PageSize
  <2>1. \A x \in P : 0 <= Place(L, x)
    BY <1>1, PlaceOrders
  <2>2. IsFiniteSet(P) /\ Cardinality(P) \in Nat /\ Cardinality(P) <= PageSize - 0
    BY <1>0, <1>1, <2>1, Between
  <2> QED
    BY <1>0, <2>2
<1>3. ASSUME NEW x \in L, NEW y \in P, y <= x
      PROVE  x \in P
  <2>1. y \in L /\ x \in Nat /\ y \in Nat
    BY <1>1
  <2>2. x = y \/ Place(L, x) < Place(L, y)
    BY <1>3, <2>1, PlaceOrders
  <2>3. Place(L, x) \in Nat /\ Place(L, y) \in Nat /\ Place(L, y) < PageSize
    BY <1>1, PlaceOrders
  <2>4. Place(L, x) < PageSize
    BY <1>0, <2>2, <2>3
  <2> QED
    BY <2>4 DEF UpToSize
<1>4. ASSUME Cardinality(P) < PageSize, NEW x \in L
      PROVE  x \in P
  <2> SUFFICES ASSUME x \notin P PROVE FALSE
    OBVIOUS
  <2>1. Place(L, x) \in Nat /\ ~ (Place(L, x) < PageSize)
    BY PlaceOrders DEF UpToSize
  <2> DEFINE f == [y \in P |-> Place(L, y)]
             I == 0..PageSize - 1
  <2>2. IsFiniteSet(I) /\ Cardinality(I) = PageSize
    BY <1>0, FS_Interval
  <2>3. \A y \in P : Place(L, y) \in I
    BY <1>0, <1>1, PlaceOrders
  <2>4. f \in [P -> I]
    BY <2>3
  <2>5. \A k \in I : \E y \in P : f[y] = k
    <3> SUFFICES ASSUME NEW k \in I PROVE \E y \in P : f[y] = k
      OBVIOUS
    <3>1. Place(L, x) \in 0..Cardinality(L) - 1 /\ Cardinality(L) \in Nat
      BY PlaceOrders, FS_CardinalityType
    <3>2. k \in 0..Cardinality(L) - 1 /\ k < PageSize
      BY <1>0, <2>1, <3>1
    <3>3. PICK y \in L : Place(L, y) = k
      BY <3>2, EveryPlace
    <3>4. y \in P
      BY <3>2, <3>3 DEF UpToSize
    <3> QED
      BY <3>3, <3>4
  <2>6. f \in Surjection(P, I)
    BY <2>4, <2>5 DEF Surjection
  <2>7. Cardinality(I) <= Cardinality(P)
    BY <1>2, <2>6, FS_Surjection
  <2> QED
    BY <1>0, <1>2, <1>4, <2>2, <2>7
<1> QED
  BY <1>1, <1>2, <1>3, <1>4

(* The place of a post in what follows a place is counted from there.      *)
LEMMA PlaceInRest ==
  ASSUME NEW L \in SUBSET Nat, IsFiniteSet(L), NEW from \in Nat,
         NEW x \in L, from <= Place(L, x)
  PROVE  Place({y \in L : Place(L, y) >= from}, x) <= Place(L, x) - from
<1> DEFINE F == {y \in L : Place(L, y) >= from}
           T == {y \in F : y > x}
<1>1. T \in SUBSET L /\ Place(L, x) \in Nat
  BY PlaceOrders
<1>2. \A y \in T : from <= Place(L, y) /\ Place(L, y) < Place(L, x)
  BY PlaceOrders
<1>3. Cardinality(T) <= Place(L, x) - from
  BY <1>1, <1>2, Between
<1> QED
  BY <1>3 DEF Place

(* A page that is not empty has a last post. *)
LEMMA LastIsOldest ==
  ASSUME NEW L \in SUBSET Nat, IsFiniteSet(L), L # {}
  PROVE  LastOf(L) \in L /\ \A x \in L : LastOf(L) <= x
<1>1. Cardinality(L) \in Nat /\ Cardinality(L) # 0
  BY FS_CardinalityType, FS_EmptySet
<1>2. PICK m \in L : Place(L, m) = Cardinality(L) - 1
  BY <1>1, EveryPlace
<1>3. \A x \in L : m <= x
  BY <1>1, <1>2, PlaceOrders
<1> QED
  BY <1>3 DEF LastOf, Min

(* A listing that grew places a post no higher. *)
LEMMA PlaceGrows ==
  ASSUME NEW M \in SUBSET Nat, IsFiniteSet(M), NEW L \in SUBSET M, NEW x
  PROVE  Place(L, x) <= Place(M, x)
<1> DEFINE T == {y \in L : y > x}
           U == {y \in M : y > x}
<1>1. T \in SUBSET U /\ IsFiniteSet(U)
  BY FS_Subset
<1>2. Cardinality(T) <= Cardinality(U)
  BY <1>1, FS_Subset
<1> QED
  BY <1>2 DEF Place

-----------------------------------------------------------------------------
(* What a walk stands on *)

(* What lies before a page of a listing: the posts from the boundary up,   *)
(* or those at lower places.                                               *)
Behind(page, listing, x) ==
    IF walk \in Keyset THEN page # FirstPage /\ x >= page
    ELSE Place(listing, x) < (IF walk \in GelbooruWalks THEN page * PageSize ELSE page)

(* Where the walk promises to miss nothing, and to read nothing twice. *)
Exact == (walk \in Keyset \/ ~ removed) /\ walk # "gelbooru_lookup" /\ ~ blank
Once == walk \in E621Walks \/ (walk \in Keyset /\ ~ rude)

Had(q, t) == (TokensOf(q)[t] \cap stood) \subseteq seen[q][t]
HadBefore(q, t, page) ==
    \A x \in TokensOf(q)[t] \cap stood :
        Behind(page, TokensOf(q)[t] \cap site, x) => x \in seen[q][t]

(* A walk that has come to a page of a token: it has what it had to pass,  *)
(* and nothing yet of what follows.                                        *)
Stands(q, t, page) ==
    /\ t \in DOMAIN TokensOf(q)
    /\ walk \notin Lookups => q = query
    /\ \A o \in Query : \A u \in DOMAIN Tokens[o] : o # q \/ u > t => seen[o][u] = {}
    /\ Once => \A x \in seen[q][t] : page # FirstPage /\ x >= page
    /\ Exact => /\ \A u \in DOMAIN TokensOf(q) : u < t => Had(q, u)
                /\ HadBefore(q, t, page)

Unread == \A q \in Query : \A t \in DOMAIN Tokens[q] : seen[q][t] = {}

(* Only a site of e621 or Danbooru may be rude. *)
RudeSites == rude => walk \in E621Walks \cup DanbooruWalks

(* A walk that is at a page has begun it at its cursor; one that has ended *)
(* by itself has everything; any other stands at its cursor.               *)
WalkInv ==
    /\ WalkTypeOK /\ RudeSites /\ seen = [q \in Query |-> seen[q]]
    /\ release + faults + (IF Resumable THEN 1 ELSE 0) <= MaxFaults + 1
    /\ request # Nothing => ending = "open" /\ Fits(cursor) /\ request = RequestOf(cursor)
    /\ ending = "complete" => cursor = Nothing /\ (Exact => Covered)
    /\ ending # "complete" => IF cursor = Nothing THEN Unread
                              ELSE Stands(cursor.query, cursor.token, cursor.page)
    /\ Once => ~ again

LEMMA TokenFacts ==
  ASSUME NEW q \in Query
  PROVE  /\ Tokens[q] \in Seq(SUBSET SitePost) /\ TokensOf(q) \in Seq(SUBSET SitePost)
         /\ 1 \in DOMAIN TokensOf(q) /\ DOMAIN TokensOf(q) \subseteq DOMAIN Tokens[q]
         /\ walk \notin Lookups => Len(TokensOf(q)) = 1 /\ DOMAIN TokensOf(q) = {1}
         /\ \A t \in DOMAIN TokensOf(q) : TokensOf(q)[t] \in SUBSET SitePost
<1>1. Tokens[q] \in Seq(SUBSET SitePost) /\ Tokens[q] # <<>>
  BY WalkAssumption
<1>2. Len(Tokens[q]) \in Nat \ {0} /\ DOMAIN Tokens[q] = 1..Len(Tokens[q])
  BY <1>1
<1>3. Tokens[q][1] \in SUBSET SitePost
  BY <1>1, <1>2
<1>4. CASE walk \in Lookups
  BY <1>1, <1>2, <1>4 DEF TokensOf
<1>5. CASE walk \notin Lookups
  <2>1. TokensOf(q) = <<Tokens[q][1]>>
    BY <1>5 DEF TokensOf
  <2> QED
    BY <1>1, <1>2, <1>3, <1>5, <2>1
<1> QED
  BY <1>4, <1>5

(* Any part of a listing is finite. *)
LEMMA ListingIsFinite ==
  ASSUME NEW L \in SUBSET SitePost
  PROVE  IsFiniteSet(L) /\ L \in SUBSET Nat
BY WalkAssumption, FS_Subset

Statuses == {200, 401, 403, 404, 410, 418, 422, 429, 500, 503}

(* What the adapters make of a status is a classified failure or a success, *)
(* and of 200 always a success.                                             *)
LEMMA OutcomesAreClassified ==
  ASSUME walk \in Walk
  PROVE  /\ \A status \in Statuses : OutcomeOf(status) \in Classified \cup {"success"}
         /\ OutcomeOf(200) = "success"
<1>1. \A status \in Statuses : StatusOutcome(status) \in Classified \cup {"success"}
  BY DEF StatusOutcome, Classified, Statuses
<1>2. StatusOutcome(200) = "success"
  BY DEF StatusOutcome
<1>3. \A status \in Statuses : PawchiveOutcome(status) \in Classified \cup {"success"}
  BY <1>1 DEF PawchiveOutcome, Classified
<1>4. \A status \in Statuses : E621Outcome(status) \in Classified \cup {"success"}
  BY <1>3 DEF E621Outcome, Classified
<1>5. \A status \in Statuses : PixivOutcome(status) \in Classified \cup {"success"}
  BY <1>1 DEF PixivOutcome, Classified
<1>6. PawchiveOutcome(200) = "success" /\ E621Outcome(200) = "success" /\ PixivOutcome(200) = "success"
  BY <1>2 DEF PawchiveOutcome, E621Outcome, PixivOutcome
<1>7. CASE walk \in E621Walks
  BY <1>4, <1>6, <1>7 DEF OutcomeOf, E621Walks
<1>8. CASE walk = "pawchive_listing"
  BY <1>3, <1>6, <1>8 DEF OutcomeOf, E621Walks
<1>9. CASE walk = "pixiv_listing"
  BY <1>5, <1>6, <1>9 DEF OutcomeOf, E621Walks
<1>10. CASE walk \notin E621Walks \cup {"pawchive_listing", "pixiv_listing"}
  BY <1>1, <1>2, <1>10 DEF OutcomeOf, E621Walks
<1> QED
  BY <1>7, <1>8, <1>9, <1>10

-----------------------------------------------------------------------------
(* What a page brings *)

(* Where a token ends, and where its next page begins, in the words of the *)
(* adapters: by a page that is not full, by an empty one, or by the site's *)
(* own cursor.                                                             *)
Ends(r, posts) ==
    IF walk \in Lookups \cup {"gelbooru_listing", "pawchive_listing"}
    THEN ~ (Cardinality(posts) >= PageSize)
    ELSE IF walk \in TokenWalks THEN posts = {} \/ posts = Following(r)
    ELSE posts = {}

NextPlace(r, posts) ==
    IF walk \in Keyset THEN LastOf(posts)
    ELSE IF walk = "gelbooru_listing" THEN r.page + 1
    ELSE IF walk = "gelbooru_lookup" THEN r.page + PageSize
    ELSE r.page + Cardinality(posts)

NextOf(r, posts) ==
    IF Ends(r, posts) THEN NextToken(r) ELSE NextPage(r, NextPlace(r, posts))

ListedPage(r, a) ==
    /\ a.status = 200 /\ a.body = "posts"
    /\ \/ a.posts = UpToSize(Following(r))
       \/ rude /\ a.posts = UpToSize(Listed(r))
    /\ a.next = SiteCursor(r, a.posts)

LEMMA AnswersAreListed ==
  ASSUME NEW r, NEW a \in AnswersTo(r)
  PROVE  ListedPage(r, a)
BY DEF AnswersTo, ListedPage, Answer

(* The posts of a page are finitely many posts of the site. *)
LEMMA PostsOfPage ==
  ASSUME WalkTypeOK, NEW r, NEW a, ListedPage(r, a),
         r \in PageRequest, r.token \in DOMAIN TokensOf(r.query)
  PROVE  /\ Listed(r) \in SUBSET SitePost /\ Listed(r) \in SUBSET Nat /\ IsFiniteSet(Listed(r))
         /\ Following(r) \in SUBSET Listed(r) /\ IsFiniteSet(Following(r))
         /\ a.posts \in SUBSET Listed(r) /\ IsFiniteSet(a.posts)
         /\ Cardinality(a.posts) \in Nat /\ Cardinality(a.posts) <= PageSize
         /\ Cardinality(a.posts) < PageSize =>
               \/ a.posts = Following(r)
               \/ rude /\ a.posts = Listed(r)
<1>1. r.query \in Query
  BY DEF PageRequest
<1>2. Listed(r) \in SUBSET SitePost
  BY <1>1, TokenFacts DEF Listed
<1>3. Listed(r) \in SUBSET Nat /\ IsFiniteSet(Listed(r))
  BY <1>2, ListingIsFinite
<1>4. Following(r) \in SUBSET Listed(r)
  BY DEF Following
<1>5. Following(r) \in SUBSET Nat /\ IsFiniteSet(Following(r))
  BY <1>3, <1>4, FS_Subset
<1>6. CASE a.posts = UpToSize(Following(r))
  <2>1. /\ a.posts \in SUBSET Following(r)
        /\ Cardinality(a.posts) \in Nat /\ Cardinality(a.posts) <= PageSize
        /\ Cardinality(a.posts) < PageSize => a.posts = Following(r)
    BY <1>5, <1>6, PageIsTop
  <2> QED
    BY <1>2, <1>3, <1>4, <1>5, <2>1, FS_Subset
<1>7. CASE rude /\ a.posts = UpToSize(Listed(r))
  <2>1. /\ a.posts \in SUBSET Listed(r)
        /\ Cardinality(a.posts) \in Nat /\ Cardinality(a.posts) <= PageSize
        /\ Cardinality(a.posts) < PageSize => a.posts = Listed(r)
    BY <1>3, <1>7, PageIsTop
  <2> QED
    BY <1>2, <1>3, <1>4, <1>5, <1>7, <2>1, FS_Subset
<1> QED
  BY <1>6, <1>7 DEF ListedPage

LEMMA FaultsAreNoPages ==
  ASSUME NEW a \in FaultyAnswers
  PROVE  a.status \in Statuses /\ a.body \in {"garbled", "blank", "error"} /\ a.posts = {}
BY DEF FaultyAnswers, Answer, Statuses

(* What every adapter makes of a page that is answered: its posts, and     *)
(* what NextOf says; e621's refuses one that crosses the boundary.         *)
LEMMA AdapterAccepts ==
  ASSUME WalkTypeOK, NEW r, NEW a, ListedPage(r, a),
         r \in PageRequest, r.token \in DOMAIN TokensOf(r.query)
  PROVE  \/ /\ Normalize(r, a) = Accepted(a.posts, NextOf(r, a.posts))
            /\ walk \in E621Walks => ~ CrossesBoundary(r, a.posts)
         \/ Normalize(r, a) = Malformed
<1>1. OutcomeOf(a.status) = "success" /\ ~ EnvelopeRefused(a) /\ a.body = "posts" /\ walk \in Walk
  BY OutcomesAreClassified DEF ListedPage, EnvelopeRefused, WalkTypeOK
<1>0. r.query \in Query /\ r.token \in Nat /\ r.page \in Nat
  BY DEF PageRequest
<1>2. walk \notin Lookups => NextToken(r) = Nothing
  <2> SUFFICES ASSUME walk \notin Lookups PROVE NextToken(r) = Nothing
    OBVIOUS
  <2>1. Len(TokensOf(r.query)) = 1 /\ r.token = 1
    BY <1>0, TokenFacts
  <2> QED
    BY <2>1 DEF NextToken
<1>3. CASE walk = "e621_lookup"
  <2>1. Normalize(r, a) = E621Lookup(r, a)
    BY <1>1, <1>3 DEF Normalize
  <2>2. E621LookupContinuation(r, a.posts) = NextOf(r, a.posts)
    BY <1>3 DEF E621LookupContinuation, NextOf, Ends, NextPlace, Lookups, Keyset, E621Walks
  <2> QED
    BY <1>1, <2>1, <2>2 DEF E621Lookup
<1>4. CASE walk = "e621_listing"
  <2>1. Normalize(r, a) = E621Listing(r, a)
    BY <1>1, <1>4 DEF Normalize
  <2>2. E621ListingContinuation(r, a.posts) = NextOf(r, a.posts)
    BY <1>2, <1>4 DEF E621ListingContinuation, NextOf, Ends, NextPlace, Lookups, Keyset, E621Walks,
                      TokenWalks
  <2> QED
    BY <1>1, <2>1, <2>2 DEF E621Listing
<1>5. CASE walk = "danbooru_lookup"
  <2>1. Normalize(r, a) = DanbooruLookup(r, a)
    BY <1>1, <1>5 DEF Normalize
  <2>2. DanbooruLookupContinuation(r, a.posts) = NextOf(r, a.posts)
    BY <1>5 DEF DanbooruLookupContinuation, NextOf, Ends, NextPlace, Lookups, Keyset, DanbooruWalks
  <2> QED
    BY <1>1, <1>5, <2>1, <2>2 DEF DanbooruLookup, E621Walks
<1>6. CASE walk = "danbooru_listing"
  <2>1. Normalize(r, a) = DanbooruListing(r, a)
    BY <1>1, <1>6 DEF Normalize
  <2>2. NextOf(r, a.posts) =
          IF a.posts = {} THEN Nothing ELSE NextPage(r, LastOf(a.posts))
    BY <1>2, <1>6 DEF NextOf, Ends, NextPlace, Lookups, Keyset, DanbooruWalks, TokenWalks
  <2> QED
    BY <1>1, <1>6, <2>1, <2>2 DEF DanbooruListing, E621Walks
<1>7. CASE walk = "gelbooru_lookup"
  <2>1. Normalize(r, a) = GelbooruLookup(r, a)
    BY <1>1, <1>7 DEF Normalize
  <2>2. GelbooruLookupContinuation(r, a.posts) = NextOf(r, a.posts)
    BY <1>7 DEF GelbooruLookupContinuation, NextOf, Ends, NextPlace, Lookups, Keyset, E621Walks,
                DanbooruWalks
  <2> QED
    BY <1>1, <1>7, <2>1, <2>2 DEF GelbooruLookup, E621Walks
<1>8. CASE walk = "gelbooru_listing"
  <2>1. Normalize(r, a) = GelbooruListing(r, a)
    BY <1>1, <1>8 DEF Normalize
  <2>2. GelbooruListingContinuation(r, a.posts) = NextOf(r, a.posts)
    BY <1>2, <1>8 DEF GelbooruListingContinuation, NextOf, Ends, NextPlace, Lookups, Keyset,
                      E621Walks, DanbooruWalks
  <2> QED
    BY <1>1, <1>8, <2>1, <2>2 DEF GelbooruListing, ErrorEnvelope, E621Walks
<1>9. CASE walk = "pawchive_listing"
  <2>1. Normalize(r, a) = PawchiveListing(r, a)
    BY <1>1, <1>9 DEF Normalize
  <2>2. NextOf(r, a.posts) = IF Cardinality(a.posts) >= PageSize
                             THEN NextPage(r, r.page + Cardinality(a.posts)) ELSE Nothing
    BY <1>2, <1>9 DEF NextOf, Ends, NextPlace, Lookups, Keyset, E621Walks, DanbooruWalks
  <2> QED
    BY <1>1, <1>9, <2>1, <2>2 DEF PawchiveListing, E621Walks
<1>10. CASE walk = "sankaku_listing"
  <2>1. Normalize(r, a) = SankakuListing(r, a)
    BY <1>1, <1>10 DEF Normalize
  <2>2. a.next = IF a.posts = {} \/ a.posts = Following(r) THEN Nothing ELSE LastOf(a.posts)
    BY <1>10 DEF ListedPage, SiteCursor, Keyset
  <2>3. NextOf(r, a.posts) = IF a.posts = {} \/ a.posts = Following(r) THEN Nothing
                             ELSE NextPage(r, LastOf(a.posts))
    BY <1>2, <1>10 DEF NextOf, Ends, NextPlace, Lookups, Keyset, TokenWalks
  <2>4. a.posts # {} => LastOf(a.posts) # Nothing
    BY PostsOfPage, LastIsOldest, WalkAssumption
  <2> QED
    BY <1>1, <1>10, <2>1, <2>2, <2>3, <2>4 DEF SankakuListing, E621Walks
<1>11. CASE walk = "pixiv_listing"
  <2>1. Normalize(r, a) = PixivListing(r, a)
    BY <1>1, <1>11 DEF Normalize
  <2>2. a.next = IF a.posts = {} \/ a.posts = Following(r) THEN Nothing
                 ELSE r.page + Cardinality(a.posts)
    BY <1>11 DEF ListedPage, SiteCursor, Keyset, E621Walks, DanbooruWalks
  <2>3. NextOf(r, a.posts) = IF a.posts = {} \/ a.posts = Following(r) THEN Nothing
                             ELSE NextPage(r, r.page + Cardinality(a.posts))
    BY <1>2, <1>11 DEF NextOf, Ends, NextPlace, Lookups, Keyset, TokenWalks, E621Walks,
                       DanbooruWalks
  <2>4. r.page + Cardinality(a.posts) # Nothing
    BY <1>0, PostsOfPage, WalkAssumption
  <2> QED
    BY <1>1, <1>11, <2>1, <2>2, <2>3, <2>4 DEF PixivListing, PixivContinuation, E621Walks
<1> QED
  BY <1>1, <1>3, <1>4, <1>5, <1>6, <1>7, <1>8, <1>9, <1>10, <1>11
     DEF Walk, Lookups, Keyset, E621Walks, DanbooruWalks, GelbooruWalks, Offset

PageCame(r, a) ==
    /\ WalkTypeOK /\ RudeSites
    /\ r \in PageRequest /\ r.token \in DOMAIN TokensOf(r.query)
    /\ ListedPage(r, a)

(* A page that ends its token has all that followed its place. *)
LEMMA LastPageHasRest ==
  ASSUME NEW r, NEW a, PageCame(r, a), Ends(r, a.posts), NEW x \in Listed(r)
  PROVE  Behind(r.page, Listed(r), x) \/ x \in a.posts
<1>1. /\ WalkTypeOK /\ r \in PageRequest /\ r.token \in DOMAIN TokensOf(r.query) /\ ListedPage(r, a)
  BY DEF PageCame
<1>2. PageSize \in Nat \ {0} /\ r.page \in Nat
  BY <1>1, WalkAssumption DEF PageRequest
<1>3. a.posts = {} => Cardinality(a.posts) = 0
  BY FS_EmptySet
<1>4. a.posts = Following(r) \/ a.posts = Listed(r)
  <2>1. CASE Cardinality(a.posts) < PageSize
    BY <1>1, <2>1, PostsOfPage
  <2>2. CASE ~ (Cardinality(a.posts) < PageSize)
    <3>1. a.posts # {}
      BY <1>2, <1>3, <2>2
    <3>2. Cardinality(a.posts) \in Nat
      BY <1>1, PostsOfPage
    <3> QED
      BY <1>2, <2>2, <3>1, <3>2 DEF Ends
  <2> QED
    BY <2>1, <2>2
<1>5. Listed(r) \in SUBSET Nat /\ IsFiniteSet(Listed(r))
  BY <1>1, PostsOfPage
<1>6. Behind(r.page, Listed(r), x) \/ x \in Following(r)
  <2>1. CASE walk \in Keyset
    BY <1>2, <1>5, <2>1 DEF Behind, Following, FirstPage
  <2>2. CASE walk \notin Keyset
    <3> DEFINE o == PlaceOf(r)
    <3>1. o \in Nat
      BY <1>2 DEF PlaceOf
    <3>2. Place(Listed(r), x) \in Nat
      BY <1>5, PlaceOrders
    <3>3. Behind(r.page, Listed(r), x) <=> Place(Listed(r), x) < o
      BY <2>2 DEF Behind, PlaceOf
    <3>4. x \in Following(r) <=> Place(Listed(r), x) >= o
      BY <2>2 DEF Following
    <3> HIDE DEF o
    <3> QED
      BY <3>1, <3>2, <3>3, <3>4
  <2> QED
    BY <2>1, <2>2
<1> QED
  BY <1>4, <1>6

(* Where a token goes on: behind the next place lies what lay behind this  *)
(* one, and the page.  Only Gelbooru's lookup goes on too far.             *)
LEMMA NextPlaceBehind ==
  ASSUME NEW r, NEW a, PageCame(r, a), ~ Ends(r, a.posts), walk # "gelbooru_lookup",
         NEW x \in Listed(r), Behind(NextPlace(r, a.posts), Listed(r), x)
  PROVE  Behind(r.page, Listed(r), x) \/ x \in a.posts
<1>1. /\ WalkTypeOK /\ RudeSites
      /\ r \in PageRequest /\ r.token \in DOMAIN TokensOf(r.query) /\ ListedPage(r, a)
  BY DEF PageCame
<1>2. PageSize \in Nat \ {0} /\ r.page \in Nat /\ walk \in Walk
  BY <1>1, WalkAssumption DEF PageRequest, WalkTypeOK
<1>3. /\ Listed(r) \in SUBSET Nat /\ IsFiniteSet(Listed(r))
      /\ Following(r) \in SUBSET Listed(r) /\ IsFiniteSet(Following(r))
      /\ a.posts \in SUBSET Listed(r) /\ IsFiniteSet(a.posts)
      /\ Cardinality(a.posts) \in Nat /\ Cardinality(a.posts) <= PageSize
  BY <1>1, PostsOfPage
<1>4. CASE walk \in Keyset
  <2>1. a.posts # {}
    <3>1. a.posts = {} => Cardinality(a.posts) = 0
      BY FS_EmptySet
    <3> QED
      BY <1>2, <3>1 DEF Ends
  <2>2. LastOf(a.posts) \in a.posts
    BY <1>3, <2>1, LastIsOldest
  <2>3. x >= LastOf(a.posts) /\ x \in Nat /\ LastOf(a.posts) \in Nat
    BY <1>3, <1>4, <2>2 DEF Behind, NextPlace
  <2>4. CASE a.posts = UpToSize(Following(r))
    <3>1. x \in Following(r) => x \in a.posts
      BY <1>3, <2>2, <2>3, <2>4, PageIsTop
    <3>2. x \in Following(r) \/ Behind(r.page, Listed(r), x)
      BY <1>2, <1>4, <2>3 DEF Following, Behind
    <3> QED
      BY <3>1, <3>2
  <2>5. CASE a.posts = UpToSize(Listed(r))
    BY <1>3, <2>2, <2>3, <2>5, PageIsTop
  <2> QED
    BY <1>1, <2>4, <2>5 DEF ListedPage
<1>5. CASE walk \notin Keyset
  <2> DEFINE o == PlaceOf(r)
             F == {y \in Listed(r) : Place(Listed(r), y) >= o}
  <2>1. o \in Nat
    BY <1>2 DEF PlaceOf
  <2>2. Following(r) = F
    BY <1>5 DEF Following
  <2>3. a.posts = UpToSize(F)
    BY <1>1, <1>5, <2>2 DEF ListedPage, RudeSites, Keyset
  <2>4. Place(Listed(r), x) \in Nat
    BY <1>3, PlaceOrders
  <2>5. Place(Listed(r), x) < o + PageSize
    <3>1. CASE walk = "gelbooru_listing"
      <4>1. Place(Listed(r), x) < (r.page + 1) * PageSize
        BY <1>5, <3>1 DEF Behind, NextPlace, GelbooruWalks
      <4>2. (r.page + 1) * PageSize = r.page * PageSize + PageSize
        BY <1>2
      <4>3. o = r.page * PageSize
        BY <3>1 DEF PlaceOf, GelbooruWalks
      <4> QED
        BY <4>1, <4>2, <4>3
    <3>2. CASE walk # "gelbooru_listing"
      <4>1. walk \notin GelbooruWalks
        BY <3>2 DEF GelbooruWalks
      <4>2. Place(Listed(r), x) < r.page + Cardinality(a.posts)
        BY <1>5, <3>2, <4>1 DEF Behind, NextPlace
      <4>3. o = r.page
        BY <4>1 DEF PlaceOf
      <4> QED
        BY <1>2, <1>3, <2>4, <4>2, <4>3
    <3> QED
      BY <3>1, <3>2
  <2>6. CASE Place(Listed(r), x) < o
    BY <1>5, <2>6 DEF Behind, PlaceOf
  <2>7. CASE o <= Place(Listed(r), x)
    <3>1. x \in F
      BY <2>1, <2>4, <2>7
    <3>2. Place(F, x) <= Place(Listed(r), x) - o
      BY <1>3, <2>1, <2>7, PlaceInRest
    <3>3. Place(F, x) \in Nat
      BY <1>3, <2>2, PlaceOrders
    <3> HIDE DEF o, F
    <3>4. Place(F, x) < PageSize
      BY <1>2, <2>1, <2>4, <2>5, <3>2, <3>3
    <3> QED
      BY <2>3, <3>1, <3>4 DEF UpToSize
  <2> HIDE DEF o
  <2> QED
    BY <2>1, <2>4, <2>6, <2>7
<1> QED
  BY <1>4, <1>5

(* The next place is a page; a boundary is a post, no newer than those of  *)
(* the page, which lie beyond the boundary before unless the site is rude  *)
(* and the adapter does not look.                                          *)
LEMMA NextPlaceIsPage ==
  ASSUME NEW r, NEW a, PageCame(r, a), ~ Ends(r, a.posts)
  PROVE  /\ NextPlace(r, a.posts) \in Nat
         /\ walk \in Keyset =>
               /\ NextPlace(r, a.posts) # FirstPage
               /\ \A x \in a.posts : x >= NextPlace(r, a.posts)
<1>1. /\ WalkTypeOK
      /\ r \in PageRequest /\ r.token \in DOMAIN TokensOf(r.query) /\ ListedPage(r, a)
  BY DEF PageCame
<1>2. PageSize \in Nat \ {0} /\ r.page \in Nat /\ SitePost \subseteq Nat \ {0}
  BY <1>1, WalkAssumption DEF PageRequest
<1>3. /\ a.posts \in SUBSET Nat /\ a.posts \in SUBSET SitePost /\ IsFiniteSet(a.posts)
      /\ Cardinality(a.posts) \in Nat
  BY <1>1, PostsOfPage
<1>4. CASE walk \in Keyset
  <2>1. a.posts # {}
    <3>1. a.posts = {} => Cardinality(a.posts) = 0
      BY FS_EmptySet
    <3> QED
      BY <1>2, <3>1 DEF Ends
  <2>2. LastOf(a.posts) \in a.posts /\ \A x \in a.posts : LastOf(a.posts) <= x
    BY <1>3, <2>1, LastIsOldest
  <2> QED
    BY <1>2, <1>3, <1>4, <2>2 DEF NextPlace, FirstPage
<1>5. CASE walk \notin Keyset
  BY <1>2, <1>3, <1>5 DEF NextPlace
<1> QED
  BY <1>4, <1>5

LEMMA PageIsBeyond ==
  ASSUME NEW r, NEW a, PageCame(r, a), Once,
         walk \in E621Walks => ~ CrossesBoundary(r, a.posts), NEW x \in a.posts
  PROVE  r.page = FirstPage \/ ~ (x >= r.page)
<1>1. /\ WalkTypeOK
      /\ r \in PageRequest /\ r.token \in DOMAIN TokensOf(r.query) /\ ListedPage(r, a)
  BY DEF PageCame
<1>2. CASE walk \in E621Walks
  BY <1>2 DEF CrossesBoundary
<1>3. CASE walk \in Keyset /\ ~ rude
  <2>1. r.page \in Nat /\ Following(r) \in SUBSET Nat /\ IsFiniteSet(Following(r))
    BY <1>1, PostsOfPage DEF PageRequest
  <2>2. x \in Following(r)
    BY <1>1, <1>3, <2>1, PageIsTop DEF ListedPage
  <2> QED
    BY <1>3, <2>1, <2>2 DEF Following
<1> QED
  BY <1>2, <1>3 DEF Once

-----------------------------------------------------------------------------
(* The steps of a walk *)

LEMMA NothingIsNoRecord == Nothing \notin Cursor /\ Nothing \notin PageRequest /\ Nothing \notin Nat
BY WalkAssumption

(* What a walk stands on depends on its site and on what it has seen. *)
LEMMA StandsStill ==
  ASSUME UNCHANGED <<walk, rude, site, stood, removed, seen, blank>>,
         walk \notin Lookups => query' = query
  PROVE  /\ \A q, t, page : Stands(q, t, page) => Stands(q, t, page)'
         /\ Unread => Unread'
         /\ Once' = Once /\ Exact' = Exact
         /\ query' = query => Covered' = Covered
<1>1. \A q : TokensOf(q)' = TokensOf(q)
  BY DEF TokensOf
<1>2. Once' = Once /\ Exact' = Exact
  BY DEF Once, Exact
<1>3. \A q, t : Had(q, t)' = Had(q, t)
  BY <1>1 DEF Had
<1>4. \A page, L, x : Behind(page, L, x)' = Behind(page, L, x)
  BY DEF Behind, Place
<1>5. \A q, t, page : HadBefore(q, t, page)' = HadBefore(q, t, page)
  BY <1>1, <1>4 DEF HadBefore
<1>6. ASSUME NEW q, NEW t, NEW page, Stands(q, t, page)
      PROVE  Stands(q, t, page)'
  BY <1>1, <1>2, <1>3, <1>5, <1>6 DEF Stands
<1>7. Unread => Unread'
  BY DEF Unread
<1>8. query' = query => Covered' = Covered
  BY <1>1 DEF Covered
<1> QED
  BY <1>2, <1>6, <1>7, <1>8

(* A post is added on top: no place falls. *)
LEMMA PostAddedKeeps ==
  ASSUME WalkInv, NEW x \in SitePost, PostAdded(x)
  PROVE  WalkInv'
<1>1. /\ site' = site \cup {x} /\ changes' = changes - 1 /\ changes > 0
      /\ UNCHANGED <<walk, rude, stood, removed, faults>>
      /\ UNCHANGED <<query, release, cursor, seen, again, blank, ending>>
      /\ UNCHANGED <<request, access, attempt, stale>>
  BY DEF PostAdded, keptVars, fetchVars
<1>2. WalkTypeOK /\ RudeSites
  BY DEF WalkInv
<1>3. WalkTypeOK'
  BY <1>1, <1>2, WalkAssumption DEF WalkTypeOK
<1>4. \A q : TokensOf(q)' = TokensOf(q)
  BY <1>1 DEF TokensOf
<1>5. Once' = Once /\ Exact' = Exact
  BY <1>1 DEF Once, Exact
<1>6. \A q, t : Had(q, t)' = Had(q, t)
  BY <1>1, <1>4 DEF Had
<1>7. ASSUME NEW q \in Query, NEW t \in DOMAIN TokensOf(q), NEW page \in Nat, HadBefore(q, t, page)
      PROVE  HadBefore(q, t, page)'
  <2> DEFINE L == TokensOf(q)[t] \cap site
             M == TokensOf(q)[t] \cap (site \cup {x})
  <2>1. TokensOf(q)[t] \in SUBSET SitePost
    BY <1>7, TokenFacts
  <2>2. L \in SUBSET M /\ M \in SUBSET Nat /\ IsFiniteSet(M) /\ L \in SUBSET Nat /\ IsFiniteSet(L)
    BY <1>2, <2>1, ListingIsFinite DEF WalkTypeOK
  <2>3. \A y : Place(L, y) <= Place(M, y) /\ Place(L, y) \in Nat /\ Place(M, y) \in Nat
    BY <2>2, PlaceGrows, PlaceOrders
  <2>4. PageSize \in Nat
    BY WalkAssumption
  <2>5. ASSUME NEW y, Behind(page, M, y)
        PROVE  Behind(page, L, y)
    <3>1. CASE walk \in Keyset
      BY <2>5, <3>1 DEF Behind
    <3>2. CASE walk \notin Keyset
      <4> DEFINE o == IF walk \in GelbooruWalks THEN page * PageSize ELSE page
      <4>1. o \in Nat
        BY <1>7, <2>4
      <4>2. Place(M, y) < o
        BY <2>5, <3>2 DEF Behind
      <4>3. Place(L, y) < o
        <5>1. Place(L, y) <= Place(M, y) /\ Place(L, y) \in Nat /\ Place(M, y) \in Nat
          BY <2>3
        <5> HIDE DEF o, L, M
        <5> QED
          BY <4>1, <4>2, <5>1
      <4> QED
        BY <3>2, <4>3 DEF Behind
    <3> QED
      BY <3>1, <3>2
  <2>6. \A y \in TokensOf(q)[t] \cap stood : Behind(page, M, y) => y \in seen[q][t]
    BY <1>7, <2>5 DEF HadBefore
  <2> QED
    BY <1>1, <1>4, <2>6 DEF HadBefore, Behind, Place
<1>8. ASSUME NEW q \in Query, NEW t, NEW page \in Nat, Stands(q, t, page)
      PROVE  Stands(q, t, page)'
  <2>1. Exact => HadBefore(q, t, page)'
    BY <1>7, <1>8 DEF Stands
  <2> QED
    BY <1>1, <1>4, <1>5, <1>6, <1>8, <2>1 DEF Stands
<1>9. cursor # Nothing => cursor.query \in Query /\ cursor.page \in Nat
  BY <1>2 DEF WalkTypeOK, Cursor
<1>10. cursor # Nothing /\ Stands(cursor.query, cursor.token, cursor.page)
         => Stands(cursor.query, cursor.token, cursor.page)'
  <2> SUFFICES ASSUME cursor # Nothing, Stands(cursor.query, cursor.token, cursor.page)
               PROVE  Stands(cursor.query, cursor.token, cursor.page)'
    OBVIOUS
  <2> PICK c : c = cursor
    OBVIOUS
  <2>1. Stands(c.query, c.token, c.page)'
    BY <1>8, <1>9
  <2>2. cursor' = c
    BY <1>1
  <2> QED
    BY <2>1, <2>2
<1>11. Covered' = Covered /\ Unread' = Unread /\ Resumable' = Resumable
  BY <1>1, <1>4 DEF Covered, Unread, Resumable
<1>12. RequestOf(cursor)' = RequestOf(cursor) /\ Fits(cursor)' = Fits(cursor)
  BY <1>1 DEF RequestOf, Fits, FitsLookup, FitsListing
<1> QED
  BY <1>1, <1>2, <1>3, <1>5, <1>10, <1>11, <1>12 DEF WalkInv, RudeSites

(* A post that is removed takes no promise with it where boundaries are    *)
(* asked for, and all of it where places are counted.                      *)
LEMMA PostRemovedKeeps ==
  ASSUME WalkInv, NEW x \in SitePost, PostRemoved(x)
  PROVE  WalkInv'
<1>1. /\ site' = site \ {x} /\ stood' = stood \ {x} /\ removed' = TRUE
      /\ changes' = changes - 1 /\ changes > 0
      /\ UNCHANGED <<walk, rude, faults>>
      /\ UNCHANGED <<query, release, cursor, seen, again, blank, ending>>
      /\ UNCHANGED <<request, access, attempt, stale>>
  BY DEF PostRemoved, keptVars, fetchVars
<1>2. WalkTypeOK /\ RudeSites
  BY DEF WalkInv
<1>3. WalkTypeOK'
  BY <1>1, <1>2, WalkAssumption DEF WalkTypeOK
<1>4. \A q : TokensOf(q)' = TokensOf(q)
  BY <1>1 DEF TokensOf
<1>5. Once' = Once /\ (Exact' => Exact /\ walk \in Keyset)
  BY <1>1 DEF Once, Exact
<1>6. \A q, t : Had(q, t) => Had(q, t)'
  BY <1>1, <1>4 DEF Had
<1>7. ASSUME walk \in Keyset, NEW q, NEW t, NEW page, HadBefore(q, t, page)
      PROVE  HadBefore(q, t, page)'
  BY <1>1, <1>4, <1>7 DEF HadBefore, Behind
<1>8. ASSUME NEW q, NEW t, NEW page, Stands(q, t, page)
      PROVE  Stands(q, t, page)'
  BY <1>1, <1>4, <1>5, <1>6, <1>7, <1>8 DEF Stands
<1>9. Stands(cursor.query, cursor.token, cursor.page)
         => Stands(cursor.query, cursor.token, cursor.page)'
  <2> SUFFICES ASSUME Stands(cursor.query, cursor.token, cursor.page)
               PROVE  Stands(cursor.query, cursor.token, cursor.page)'
    OBVIOUS
  <2> PICK c : c = cursor
    OBVIOUS
  <2>1. Stands(c.query, c.token, c.page)'
    BY <1>8
  <2>2. cursor' = c
    BY <1>1
  <2> QED
    BY <2>1, <2>2
<1>10. (Covered => Covered') /\ Unread' = Unread /\ Resumable' = Resumable
  BY <1>1, <1>4 DEF Covered, Unread, Resumable
<1>11. RequestOf(cursor)' = RequestOf(cursor) /\ Fits(cursor)' = Fits(cursor)
  BY <1>1 DEF RequestOf, Fits, FitsLookup, FitsListing
<1> QED
  BY <1>1, <1>2, <1>3, <1>5, <1>9, <1>10, <1>11 DEF WalkInv, RudeSites


LEMMA CursorStandsStill ==
  ASSUME UNCHANGED <<walk, rude, site, stood, removed, seen, blank, query, cursor>>
  PROVE  /\ Stands(cursor.query, cursor.token, cursor.page)
              => Stands(cursor.query, cursor.token, cursor.page)'
         /\ Unread => Unread'
         /\ Once' = Once /\ Exact' = Exact /\ Covered' = Covered
         /\ RudeSites' = RudeSites
<1>1. ASSUME Stands(cursor.query, cursor.token, cursor.page)
      PROVE  Stands(cursor.query, cursor.token, cursor.page)'
  <2> PICK c : c = cursor
    OBVIOUS
  <2>1. Stands(c.query, c.token, c.page)'
    BY <1>1, StandsStill
  <2>2. cursor' = c
    OBVIOUS
  <2> QED
    BY <2>1, <2>2
<1> QED
  BY <1>1, StandsStill DEF RudeSites

LEMMA TokenGoesStaleKeeps ==
  ASSUME WalkInv, TokenGoesStale
  PROVE  WalkInv'
<1>1. /\ UNCHANGED <<walk, rude, site, stood, removed, faults, query, release, cursor, seen, again,
                     blank, ending, request, attempt>>
      /\ changes > 0 /\ changes' = changes - 1 /\ access' = "stale"
      /\ stale' \in {stale, stale + 1}
  BY DEF TokenGoesStale, keptVars
<1>2. WalkTypeOK
  BY DEF WalkInv
<1>3. WalkTypeOK'
  BY <1>1, <1>2, WalkAssumption DEF WalkTypeOK
<1>4. RequestOf(cursor)' = RequestOf(cursor) /\ Fits(cursor)' = Fits(cursor) /\ Resumable' = Resumable
  BY <1>1 DEF RequestOf, Fits, FitsLookup, FitsListing, Resumable
<1> QED
  BY <1>1, <1>3, <1>4, CursorStandsStill DEF WalkInv

(* The request of a cursor that fits is one of a page of a token. *)
LEMMA RequestIsPage ==
  ASSUME WalkInv, Fits(cursor), ending # "complete"
  PROVE  /\ RequestOf(cursor) \in PageRequest
         /\ cursor # Nothing => cursor.release = release /\ cursor.query = query
         /\ Stands(RequestOf(cursor).query, RequestOf(cursor).token, RequestOf(cursor).page)
<1>1. WalkTypeOK
  BY DEF WalkInv
<1>2. query \in Query
  BY <1>1 DEF WalkTypeOK
<1>3. CASE cursor = Nothing
  <2>1. RequestOf(cursor) = [query |-> query, token |-> 1, page |-> FirstPage]
    BY <1>3 DEF RequestOf
  <2>2. Unread
    BY <1>3 DEF WalkInv
  <2>3. 1 \in DOMAIN TokensOf(query) /\ DOMAIN TokensOf(query) \subseteq DOMAIN Tokens[query]
        /\ Tokens[query] \in Seq(SUBSET SitePost) /\ TokensOf(query) \in Seq(SUBSET SitePost)
    BY <1>2, TokenFacts
  <2>4. HadBefore(query, 1, FirstPage)
    <3> SUFFICES ASSUME NEW x \in TokensOf(query)[1] \cap stood,
                        Behind(FirstPage, TokensOf(query)[1] \cap site, x)
                 PROVE  FALSE
      BY DEF HadBefore
    <3>1. TokensOf(query)[1] \cap site \in SUBSET SitePost
      BY <1>2, TokenFacts
    <3>2. Place(TokensOf(query)[1] \cap site, x) \in Nat
      BY <3>1, ListingIsFinite, PlaceOrders
    <3>3. PageSize \in Nat
      BY WalkAssumption
    <3> QED
      BY <3>2, <3>3 DEF Behind, FirstPage
  <2>5. \A u \in DOMAIN TokensOf(query) : ~ (u < 1)
    BY <2>3
  <2>6. Stands(query, 1, FirstPage)
    BY <1>2, <2>2, <2>3, <2>4, <2>5 DEF Stands, Unread
  <2> QED
    BY <1>2, <1>3, <2>1, <2>6 DEF PageRequest, FirstPage
<1>4. CASE cursor # Nothing
  <2>1. cursor \in Cursor /\ Stands(cursor.query, cursor.token, cursor.page)
    BY <1>1, <1>4 DEF WalkInv, WalkTypeOK
  <2>2. cursor.query = query
    BY <1>4, <2>1 DEF Fits, FitsLookup, Stands
  <2>3. cursor.release = release
    BY <1>4 DEF Fits, FitsLookup, FitsListing
  <2>4. RequestOf(cursor) = [query |-> query, token |-> cursor.token, page |-> cursor.page]
    BY <1>4 DEF RequestOf
  <2> QED
    BY <1>2, <1>4, <2>1, <2>2, <2>3, <2>4 DEF PageRequest, Cursor
<1> QED
  BY <1>3, <1>4

LEMMA BeginPageKeeps ==
  ASSUME WalkInv, BeginPage
  PROVE  WalkInv'
<1>1. /\ UNCHANGED <<walk, rude, site, stood, removed, changes, faults, query, release, cursor, seen,
                     again, blank, access>>
      /\ ending = "open" /\ request = Nothing /\ attempt' = 0 /\ stale' \in {0, 1}
      /\ \/ Fits(cursor) /\ request' = RequestOf(cursor) /\ ending' = ending
         \/ request' = request /\ ending' \in {"malformed_response", "refused"}
  BY DEF BeginPage, siteVars
<1>2. WalkTypeOK
  BY DEF WalkInv
<1>3. request' \in PageRequest \cup {Nothing}
  BY <1>1, RequestIsPage
<1>4. WalkTypeOK'
  BY <1>1, <1>2, <1>3 DEF WalkTypeOK, WalkEnding, Classified
<1>5. RequestOf(cursor)' = RequestOf(cursor) /\ Fits(cursor)' = Fits(cursor)
  BY <1>1 DEF RequestOf, Fits, FitsLookup, FitsListing
<1>6. ~ Resumable /\ ~ Resumable'
  BY <1>1 DEF Resumable
<1> QED
  BY <1>1, <1>4, <1>5, <1>6, CursorStandsStill DEF WalkInv

LEMMA ExchangeTokenKeeps ==
  ASSUME WalkInv, ExchangeToken
  PROVE  WalkInv'
<1>1. /\ UNCHANGED <<walk, rude, site, stood, removed, changes, faults, query, release, cursor, seen,
                     again, blank, ending, request, attempt, stale>>
      /\ access' = "valid"
  BY DEF ExchangeToken, siteVars, keptVars
<1>2. WalkTypeOK
  BY DEF WalkInv
<1>3. WalkTypeOK'
  BY <1>1, <1>2 DEF WalkTypeOK
<1>4. RequestOf(cursor)' = RequestOf(cursor) /\ Fits(cursor)' = Fits(cursor) /\ Resumable' = Resumable
  BY <1>1 DEF RequestOf, Fits, FitsLookup, FitsListing, Resumable
<1> QED
  BY <1>1, <1>3, <1>4, CursorStandsStill DEF WalkInv

(* A page fails: the walk stays where it was, and may be taken up again    *)
(* only if what failed counts among the faults.                            *)
LEMMA PageFailsKeeps ==
  ASSUME WalkInv, NEW outcome \in Classified \cup {"invalid"}, PageFails(outcome),
         request # Nothing, UNCHANGED <<walk, rude, site, stood, removed, changes>>,
         access' \in {"none", "valid", "stale"}, attempt' \in 0..1, stale' \in Nat,
         \/ faults' = faults /\ outcome \in {"authentication_required", "malformed_response"}
         \/ faults > 0 /\ faults' = faults - 1
  PROVE  WalkInv'
<1>1. /\ UNCHANGED <<query, release, cursor, seen, again, blank>>
      /\ ending' = outcome /\ request' = Nothing
  BY DEF PageFails
<1>2. WalkTypeOK /\ ending = "open"
  BY DEF WalkInv
<1>3. faults \in 0..MaxFaults /\ MaxFaults \in Nat /\ release \in 1..MaxFaults + 1
  BY <1>2, WalkAssumption DEF WalkTypeOK
<1>4. faults' \in 0..MaxFaults
  BY <1>3
<1>5. ending' \in WalkEnding /\ ending' # "complete" /\ ending' # "open"
  BY <1>1 DEF WalkEnding, Classified
<1>6. WalkTypeOK'
  BY <1>1, <1>2, <1>4, <1>5 DEF WalkTypeOK
<1>7. ~ Resumable /\ release + faults <= MaxFaults + 1
  <2>1. ~ Resumable
    BY <1>2 DEF Resumable
  <2> QED
    BY <2>1, <1>3 DEF WalkInv
<1>8. faults' = faults => ~ Resumable'
  BY <1>1, <1>3 DEF Resumable
<1>9. release' + faults' + (IF Resumable' THEN 1 ELSE 0) <= MaxFaults + 1
  <2>1. CASE faults' = faults
    BY <1>1, <1>3, <1>7, <1>8, <2>1
  <2>2. CASE faults' = faults - 1
    BY <1>1, <1>3, <1>7, <2>2
  <2> QED
    BY <2>1, <2>2
<1> QED
  BY <1>1, <1>2, <1>5, <1>6, <1>9, CursorStandsStill DEF WalkInv

LEMMA ExchangeFailsKeeps ==
  ASSUME WalkInv, NEW outcome \in {"authentication_required", "transient_provider"},
         ExchangeFails(outcome)
  PROVE  WalkInv'
<1>1. /\ UNCHANGED <<walk, rude, site, stood, removed, changes, access, attempt, stale>>
      /\ request # Nothing /\ faults > 0 /\ faults' = faults - 1 /\ PageFails(outcome)
  BY DEF ExchangeFails
<1>2. WalkTypeOK
  BY DEF WalkInv
<1>3. access' \in {"none", "valid", "stale"} /\ attempt' \in 0..1 /\ stale' \in Nat
  BY <1>1, <1>2 DEF WalkTypeOK
<1>4. outcome \in Classified \cup {"invalid"}
  BY DEF Classified
<1> QED
  BY <1>1, <1>3, <1>4, PageFailsKeeps

LEMMA UnauthorizedKeeps ==
  ASSUME WalkInv, Unauthorized
  PROVE  WalkInv'
<1>1. UNCHANGED <<walk, rude, site, stood, removed, changes, faults, stale>> /\ request # Nothing
  BY DEF Unauthorized, siteVars
<1>2. WalkTypeOK
  BY DEF WalkInv
<1>3. CASE UNCHANGED <<keptVars, request>> /\ access' = "none" /\ attempt' = 1
  <2>1. UNCHANGED <<query, release, cursor, seen, again, blank, ending, request>>
    BY <1>3 DEF keptVars
  <2>2. WalkTypeOK'
    BY <1>1, <1>2, <1>3, <2>1 DEF WalkTypeOK
  <2>3. RequestOf(cursor)' = RequestOf(cursor) /\ Fits(cursor)' = Fits(cursor) /\ Resumable' = Resumable
    BY <1>1, <2>1 DEF RequestOf, Fits, FitsLookup, FitsListing, Resumable
  <2> QED
    BY <1>1, <2>1, <2>2, <2>3, CursorStandsStill DEF WalkInv
<1>4. CASE PageFails("authentication_required") /\ UNCHANGED <<access, attempt>>
  <2>1. access' \in {"none", "valid", "stale"} /\ attempt' \in 0..1 /\ stale' \in Nat
    BY <1>1, <1>2, <1>4 DEF WalkTypeOK
  <2>2. "authentication_required" \in Classified \cup {"invalid"}
    BY DEF Classified
  <2> QED
    BY <1>1, <1>4, <2>1, <2>2, PageFailsKeeps
<1> QED
  BY <1>3, <1>4 DEF Unauthorized

LEMMA PauseKeeps ==
  ASSUME WalkInv, Pause
  PROVE  WalkInv'
<1>1. /\ UNCHANGED <<walk, rude, site, stood, removed, changes, query, release, cursor, seen,
                     again, blank, request, access, attempt, stale>>
      /\ ending = "open" /\ request = Nothing /\ ending' = "paused"
      /\ faults > 0 /\ faults' = faults - 1
  BY DEF Pause, fetchVars
<1>2. WalkTypeOK
  BY DEF WalkInv
<1>3. faults \in 0..MaxFaults /\ MaxFaults \in Nat /\ release \in 1..MaxFaults + 1
  BY <1>2, WalkAssumption DEF WalkTypeOK
<1>4. WalkTypeOK'
  BY <1>1, <1>2, <1>3 DEF WalkTypeOK, WalkEnding
<1>5. release + faults <= MaxFaults + 1
  <2>1. ~ Resumable
    BY <1>1 DEF Resumable
  <2> QED
    BY <2>1, <1>3 DEF WalkInv
<1>6. release' + faults' + (IF Resumable' THEN 1 ELSE 0) <= MaxFaults + 1
  BY <1>1, <1>3, <1>5
<1> QED
  BY <1>1, <1>4, <1>6, CursorStandsStill DEF WalkInv

(* A walk goes on where it stood; whether its cursor still fits is seen    *)
(* when it begins a page.                                                  *)
LEMMA WalkOnKeeps ==
  ASSUME WalkInv, NEW later \in BOOLEAN, NEW q \in Query, WalkOn(later, q)
  PROVE  WalkInv'
<1>1. /\ UNCHANGED <<walk, rude, site, stood, removed, changes, faults, cursor, seen, again, blank,
                     request, attempt, stale>>
      /\ Resumable /\ ending' = "open" /\ access' = "none" /\ query' = q
      /\ walk \notin Lookups => query' = query
      /\ release' \in {release, release + 1}
  BY DEF WalkOn, siteVars
<1>2. WalkTypeOK
  BY DEF WalkInv
<1>3. faults \in 0..MaxFaults /\ MaxFaults \in Nat /\ release \in 1..MaxFaults + 1
  BY <1>2, WalkAssumption DEF WalkTypeOK
<1>4. release + faults + 1 <= MaxFaults + 1 /\ ~ Resumable'
  BY <1>1 DEF WalkInv, Resumable
<1>5. release' \in 1..MaxFaults + 1 /\ release' + faults' + 0 <= MaxFaults + 1
  <2>1. CASE release' = release
    BY <1>1, <1>3, <1>4, <2>1
  <2>2. CASE release' = release + 1
    BY <1>1, <1>3, <1>4, <2>2
  <2> QED
    BY <1>1, <2>1, <2>2
<1>6. WalkTypeOK'
  BY <1>1, <1>2, <1>5 DEF WalkTypeOK, WalkEnding
<1>7. ending # "complete" /\ ending # "open"
  BY <1>1 DEF Resumable
<1>8. request = Nothing
  BY <1>7 DEF WalkInv
<1>9. Stands(cursor.query, cursor.token, cursor.page)
        => Stands(cursor.query, cursor.token, cursor.page)'
  <2> SUFFICES ASSUME Stands(cursor.query, cursor.token, cursor.page)
               PROVE  Stands(cursor.query, cursor.token, cursor.page)'
    OBVIOUS
  <2> PICK c : c = cursor
    OBVIOUS
  <2>1. Stands(c.query, c.token, c.page)'
    BY <1>1, StandsStill
  <2>2. cursor' = c
    BY <1>1
  <2> QED
    BY <2>1, <2>2
<1>10. (Unread => Unread') /\ (Once' = Once)
  BY <1>1, StandsStill
<1> QED
  BY <1>1, <1>4, <1>5, <1>6, <1>7, <1>8, <1>9, <1>10 DEF WalkInv, RudeSites

LEMMA SeenAfter ==
  ASSUME WalkInv, NEW q \in Query, NEW t \in DOMAIN Tokens[q], NEW posts \in SUBSET SitePost,
         seen' = [seen EXCEPT ![q][t] = @ \cup posts]
  PROVE  /\ seen' = [o \in Query |-> seen'[o]]
         /\ \A o \in Query : seen'[o] \in [DOMAIN Tokens[o] -> SUBSET SitePost]
         /\ \A o \in Query : \A u \in DOMAIN Tokens[o] :
               seen'[o][u] = IF o = q /\ u = t THEN seen[q][t] \cup posts ELSE seen[o][u]
<1>1. /\ seen = [o \in Query |-> seen[o]]
      /\ \A o \in Query : seen[o] \in [DOMAIN Tokens[o] -> SUBSET SitePost]
  BY DEF WalkInv, WalkTypeOK
<1>2. seen' = [o \in Query |-> IF o = q THEN [seen[q] EXCEPT ![t] = @ \cup posts] ELSE seen[o]]
  BY <1>1
<1>3. [seen[q] EXCEPT ![t] = @ \cup posts] \in [DOMAIN Tokens[q] -> SUBSET SitePost]
  BY <1>1
<1>4. \A u \in DOMAIN Tokens[q] :
        [seen[q] EXCEPT ![t] = @ \cup posts][u] = IF u = t THEN seen[q][t] \cup posts ELSE seen[q][u]
  BY <1>1
<1> QED
  BY <1>1, <1>2, <1>3, <1>4

(* What holds once a page is accepted: the walk has its token or stands at *)
(* the next place of it, and a walk that reads once has not seen the page. *)
LEMMA AcceptKeeps ==
  ASSUME WalkInv, NEW a, request # Nothing, PageCame(request, a),
         walk \in E621Walks => ~ CrossesBoundary(request, a.posts),
         PageAccepted(a, Accepted(a.posts, NextOf(request, a.posts))),
         UNCHANGED <<walk, rude, site, stood, removed, changes, query, release, access, attempt,
                     stale>>,
         faults' = faults \/ (faults > 0 /\ faults' = faults - 1)
  PROVE  WalkInv'
<1> PICK r : r = request
  OBVIOUS
<1> DEFINE q == r.query
           t == r.token
           next == NextOf(r, a.posts)
<1>1. WalkTypeOK /\ RudeSites /\ ending = "open" /\ Fits(cursor) /\ r = RequestOf(cursor)
  BY DEF WalkInv
<1>2. /\ r \in PageRequest /\ Stands(q, t, r.page)
      /\ walk \in E621Walks => ~ CrossesBoundary(r, a.posts)
      /\ PageCame(r, a)
  BY <1>1, RequestIsPage
<1>3. q = query /\ q \in Query /\ t \in Nat \ {0} /\ r.page \in Nat
  BY <1>1, <1>2 DEF RequestOf, PageRequest, Fits, FitsLookup, Stands, WalkTypeOK
<1>4. /\ t \in DOMAIN TokensOf(q) /\ t \in DOMAIN Tokens[q]
      /\ Tokens[q] \in Seq(SUBSET SitePost) /\ TokensOf(q) \in Seq(SUBSET SitePost)
      /\ DOMAIN TokensOf(q) \subseteq DOMAIN Tokens[q]
  BY <1>2, <1>3, TokenFacts DEF Stands
<1>5. /\ a.posts \in SUBSET Listed(r) /\ a.posts \in SUBSET SitePost /\ a.posts \in SUBSET Nat
      /\ Listed(r) = TokensOf(q)[t] \cap site
  BY <1>2, PostsOfPage DEF PageCame, Listed
<1>6. /\ cursor' = next
      /\ seen' = [seen EXCEPT ![q][t] = @ \cup a.posts]
      /\ again' = (again \/ seen[q][t] \cap a.posts # {})
      /\ ending' = (IF next = Nothing THEN "complete" ELSE "open") /\ request' = Nothing
  BY DEF PageAccepted, Accepted
<1>7. blank' = blank
  BY <1>2, <1>1 DEF PageAccepted, PageCame, ListedPage, WalkTypeOK
<1>8. /\ seen' = [o \in Query |-> seen'[o]]
      /\ \A o \in Query : seen'[o] \in [DOMAIN Tokens[o] -> SUBSET SitePost]
      /\ \A o \in Query : \A u \in DOMAIN Tokens[o] :
            seen'[o][u] = IF o = q /\ u = t THEN seen[q][t] \cup a.posts ELSE seen[o][u]
  BY <1>3, <1>4, <1>5, <1>6, SeenAfter
<1>9. /\ \A o : TokensOf(o)' = TokensOf(o)
      /\ Once' = Once /\ Exact' = Exact
      /\ \A page, L, x : Behind(page, L, x)' = Behind(page, L, x)
  BY <1>7 DEF TokensOf, Once, Exact, Behind, Place
<1>10. stood \subseteq site
  BY <1>1 DEF WalkTypeOK
<1>11. Once => walk \in Keyset
  BY DEF Once, Keyset
<1>12. Once => \A x \in seen[q][t] : x \notin a.posts
  <2> SUFFICES ASSUME Once, NEW x \in seen[q][t], x \in a.posts PROVE FALSE
    OBVIOUS
  <2>1. r.page # FirstPage /\ x >= r.page
    BY <1>2 DEF Stands
  <2> QED
    BY <1>2, <2>1, PageIsBeyond
<1>13. Once' => ~ again'
  BY <1>6, <1>9, <1>12 DEF WalkInv
<1>14. faults' \in 0..MaxFaults
       /\ release' + faults' + (IF Resumable' THEN 1 ELSE 0) <= MaxFaults + 1
  <2>1. faults \in 0..MaxFaults /\ MaxFaults \in Nat /\ release \in 1..MaxFaults + 1
    BY <1>1, WalkAssumption DEF WalkTypeOK
  <2>2. ~ Resumable /\ ~ Resumable'
    BY <1>1, <1>6 DEF Resumable
  <2>3. release + faults <= MaxFaults + 1
    BY <2>1, <2>2 DEF WalkInv
  <2> QED
    BY <2>1, <2>2, <2>3
<1>15. Exact => \A u \in DOMAIN TokensOf(q) : u < t => Had(q, u)'
  <2> SUFFICES ASSUME Exact, NEW u \in DOMAIN TokensOf(q), u < t
               PROVE  Had(q, u)'
    OBVIOUS
  <2>1. Had(q, u)
    BY <1>2 DEF Stands
  <2>2. seen[q][u] \subseteq seen'[q][u]
    BY <1>3, <1>4, <1>8
  <2> QED
    BY <1>9, <2>1, <2>2 DEF Had
<1>16. release \in Nat
  BY <1>1, WalkAssumption DEF WalkTypeOK
<1>17. walk \notin Lookups => q = query'
  BY <1>3
<1>18. seen'[q][t] = seen[q][t] \cup a.posts
  BY <1>3, <1>4, <1>8
<1> HIDE DEF next
<1>19. CASE Ends(r, a.posts)
  <2>1. next = NextToken(r)
    BY <1>19 DEF NextOf, next
  <2>2. Exact => Had(q, t)'
    <3> SUFFICES ASSUME Exact, NEW x \in TokensOf(q)[t] \cap stood
                 PROVE  x \in seen'[q][t]
      BY <1>9 DEF Had
    <3>1. x \in Listed(r)
      BY <1>5, <1>10
    <3>2. Behind(r.page, Listed(r), x) \/ x \in a.posts
      BY <1>2, <1>19, <3>1, LastPageHasRest
    <3>3. Behind(r.page, Listed(r), x) => x \in seen[q][t]
      BY <1>2, <1>5 DEF Stands, HadBefore
    <3> QED
      BY <1>18, <3>2, <3>3
  <2>3. CASE t < Len(TokensOf(q))
    <3>1. next = [release |-> release, query |-> q, token |-> t + 1, page |-> FirstPage]
      BY <2>1, <2>3 DEF NextToken
    <3>2. next \in Cursor /\ next # Nothing
      BY <1>3, <1>16, <3>1, NothingIsNoRecord DEF Cursor, FirstPage
    <3>3. t + 1 \in DOMAIN TokensOf(q) /\ t + 1 \in DOMAIN Tokens[q]
      BY <1>3, <1>4, <2>3
    <3>4. \A o \in Query : \A u \in DOMAIN Tokens[o] : o # q \/ u > t + 1 => seen'[o][u] = {}
      <4> SUFFICES ASSUME NEW o \in Query, NEW u \in DOMAIN Tokens[o], o # q \/ u > t + 1
                   PROVE  seen'[o][u] = {}
        OBVIOUS
      <4>1. o # q \/ (u \in Nat /\ u > t)
        BY <1>3, <1>4
      <4>2. seen[o][u] = {}
        BY <1>2, <4>1 DEF Stands
      <4> QED
        BY <1>3, <1>8, <4>1, <4>2
    <3>5. seen'[q][t + 1] = {}
      <4>1. seen[q][t + 1] = {}
        BY <1>2, <1>3, <3>3 DEF Stands
      <4> QED
        BY <1>3, <1>8, <3>3, <4>1
    <3>6. Exact => \A u \in DOMAIN TokensOf(q) : u < t + 1 => Had(q, u)'
      <4> SUFFICES ASSUME Exact, NEW u \in DOMAIN TokensOf(q), u < t + 1
                   PROVE  Had(q, u)'
        OBVIOUS
      <4>1. u < t \/ u = t
        BY <1>3, <1>4
      <4> QED
        BY <1>15, <2>2, <4>1
    <3>7. HadBefore(q, t + 1, FirstPage)'
      <4> SUFFICES ASSUME NEW x, Behind(FirstPage, TokensOf(q)[t + 1] \cap site, x)
                   PROVE  FALSE
        BY <1>9 DEF HadBefore
      <4>1. TokensOf(q)[t + 1] \cap site \in SUBSET SitePost
        BY <1>3, <3>3, TokenFacts
      <4>2. Place(TokensOf(q)[t + 1] \cap site, x) \in Nat
        BY <4>1, ListingIsFinite, PlaceOrders
      <4>3. PageSize \in Nat
        BY WalkAssumption
      <4> QED
        BY <4>2, <4>3 DEF Behind, FirstPage
    <3>8. Stands(q, t + 1, FirstPage)'
      BY <1>9, <1>17, <3>3, <3>4, <3>5, <3>6, <3>7 DEF Stands
    <3>9. Stands(cursor.query, cursor.token, cursor.page)'
      <4> PICK c : c = next
        OBVIOUS
      <4>1. c.query = q /\ c.token = t + 1 /\ c.page = FirstPage /\ cursor' = c
        BY <1>6, <3>1
      <4> QED
        BY <3>8, <4>1
    <3>10. WalkTypeOK'
      BY <1>1, <1>6, <1>7, <1>8, <1>14, <3>2 DEF WalkTypeOK, WalkEnding
    <3>11. ending' = "open" /\ cursor' # Nothing
      BY <1>6, <3>2
    <3> QED
      BY <1>1, <1>6, <1>8, <1>13, <1>14, <3>9, <3>10, <3>11 DEF WalkInv, RudeSites
  <2>4. CASE ~ (t < Len(TokensOf(q)))
    <3>1. next = Nothing
      BY <2>1, <2>4 DEF NextToken
    <3>2. Exact => Covered'
      <4> SUFFICES ASSUME Exact, NEW u \in DOMAIN TokensOf(q)
                   PROVE  (TokensOf(q)[u] \cap stood) \subseteq seen'[q][u]
        BY <1>3, <1>9 DEF Covered
      <4>1. u < t \/ u = t
        BY <1>3, <1>4, <2>4
      <4> QED
        BY <1>9, <1>15, <2>2, <4>1 DEF Had
    <3>3. WalkTypeOK'
      BY <1>1, <1>6, <1>7, <1>8, <1>14, <3>1 DEF WalkTypeOK, WalkEnding
    <3>4. ending' = "complete" /\ cursor' = Nothing
      BY <1>6, <3>1
    <3> QED
      BY <1>1, <1>6, <1>8, <1>9, <1>13, <1>14, <3>2, <3>3, <3>4 DEF WalkInv, RudeSites
  <2> QED
    BY <2>3, <2>4
<1>20. CASE ~ Ends(r, a.posts)
  <2> PICK n : n = NextPlace(r, a.posts)
    OBVIOUS
  <2>1. next = [release |-> release, query |-> q, token |-> t, page |-> n]
    BY <1>20 DEF NextOf, NextPage, next
  <2>2. /\ n \in Nat
        /\ walk \in Keyset => n # FirstPage /\ \A x \in a.posts : x >= n
    BY <1>2, <1>20, NextPlaceIsPage
  <2>3. next \in Cursor /\ next # Nothing
    BY <1>3, <1>16, <2>1, <2>2, NothingIsNoRecord DEF Cursor
  <2>4. \A o \in Query : \A u \in DOMAIN Tokens[o] : o # q \/ u > t => seen'[o][u] = {}
    <3> SUFFICES ASSUME NEW o \in Query, NEW u \in DOMAIN Tokens[o], o # q \/ u > t
                 PROVE  seen'[o][u] = {}
      OBVIOUS
    <3>1. o # q \/ u # t
      BY <1>3
    <3>2. seen[o][u] = {}
      BY <1>2 DEF Stands
    <3> QED
      BY <1>8, <3>1, <3>2
  <2>5. Once => \A x \in seen'[q][t] : n # FirstPage /\ x >= n
    <3> SUFFICES ASSUME Once, NEW x \in seen'[q][t] PROVE n # FirstPage /\ x >= n
      OBVIOUS
    <3>1. CASE x \in a.posts
      BY <1>11, <2>2, <3>1
    <3>2. CASE x \in seen[q][t]
      <4>1. r.page # FirstPage /\ x >= r.page
        BY <1>2, <3>2 DEF Stands
      <4>2. n \in a.posts
        <5>1. n = LastOf(a.posts)
          BY <1>11 DEF NextPlace
        <5>2. IsFiniteSet(a.posts)
          BY <1>2, PostsOfPage DEF PageCame
        <5>3. a.posts # {}
          <6>1. PageSize \in Nat \ {0}
            BY WalkAssumption
          <6>2. a.posts = {} => Cardinality(a.posts) = 0
            BY FS_EmptySet
          <6> QED
            BY <1>20, <6>1, <6>2 DEF Ends
        <5> QED
          BY <1>5, <5>1, <5>2, <5>3, LastIsOldest
      <4>3. ~ (n >= r.page)
        BY <1>2, <4>1, <4>2, PageIsBeyond
      <4>4. x \in SitePost /\ x \in Nat
        <5>1. seen[q][t] \in SUBSET SitePost
          BY <1>1, <1>3, <1>4 DEF WalkTypeOK
        <5> QED
          BY <3>2, <5>1, WalkAssumption
      <4> QED
        BY <1>11, <1>3, <2>2, <4>1, <4>3, <4>4
    <3> QED
      BY <1>18, <3>1, <3>2
  <2>6. Exact => HadBefore(q, t, n)'
    <3> SUFFICES ASSUME Exact, NEW x \in TokensOf(q)[t] \cap stood, Behind(n, Listed(r), x)
                 PROVE  x \in seen'[q][t]
      BY <1>5, <1>9 DEF HadBefore
    <3>1. x \in Listed(r)
      BY <1>5, <1>10
    <3>2. walk # "gelbooru_lookup"
      BY DEF Exact
    <3>3. Behind(r.page, Listed(r), x) \/ x \in a.posts
      BY <1>2, <1>20, <3>1, <3>2, NextPlaceBehind
    <3>4. Behind(r.page, Listed(r), x) => x \in seen[q][t]
      BY <1>2, <1>5 DEF Stands, HadBefore
    <3> QED
      BY <1>18, <3>3, <3>4
  <2>7. Stands(q, t, n)'
    BY <1>4, <1>9, <1>15, <1>17, <2>4, <2>5, <2>6 DEF Stands
  <2>8. Stands(cursor.query, cursor.token, cursor.page)'
    <3> PICK c : c = next
      OBVIOUS
    <3>1. c.query = q /\ c.token = t /\ c.page = n /\ cursor' = c
      BY <1>6, <2>1
    <3> QED
      BY <2>7, <3>1
  <2>9. WalkTypeOK'
    BY <1>1, <1>6, <1>7, <1>8, <1>14, <2>3 DEF WalkTypeOK, WalkEnding
  <2>10. ending' = "open" /\ cursor' # Nothing
    BY <1>6, <2>3
  <2> QED
    BY <1>1, <1>6, <1>8, <1>13, <1>14, <2>8, <2>9, <2>10 DEF WalkInv, RudeSites
<1> QED
  BY <1>19, <1>20

LEMMA FetchVarsStay ==
  ASSUME WalkTypeOK, UNCHANGED <<access, attempt, stale>>
  PROVE  access' \in {"none", "valid", "stale"} /\ attempt' \in 0..1 /\ stale' \in Nat
BY DEF WalkTypeOK

LEMMA ReceiveAnswerKeeps ==
  ASSUME WalkInv, ReceiveAnswer
  PROVE  WalkInv'
<1>1. PICK a \in AnswersTo(request) : ReceivePage(a)
  BY DEF ReceiveAnswer
<1>2. /\ request # Nothing
      /\ UNCHANGED <<walk, rude, site, stood, removed, changes, faults, access, attempt, stale>>
  BY <1>1 DEF ReceiveAnswer, Sent, siteVars, ReceivePage
<1>3. WalkTypeOK /\ RudeSites /\ ending = "open" /\ Fits(cursor) /\ request = RequestOf(cursor)
  BY <1>2 DEF WalkInv
<1>4. PageCame(request, a)
  <2>1. request \in PageRequest /\ request.token \in DOMAIN TokensOf(request.query)
    BY <1>3, RequestIsPage DEF Stands
  <2> QED
    BY <1>1, <1>3, <2>1, AnswersAreListed DEF PageCame
<1>5. \/ /\ Normalize(request, a) = Accepted(a.posts, NextOf(request, a.posts))
         /\ walk \in E621Walks => ~ CrossesBoundary(request, a.posts)
      \/ Normalize(request, a) = Malformed
  BY <1>4, AdapterAccepts DEF PageCame
<1>6. CASE /\ Normalize(request, a) = Accepted(a.posts, NextOf(request, a.posts))
           /\ walk \in E621Walks => ~ CrossesBoundary(request, a.posts)
  <2>1. PageAccepted(a, Accepted(a.posts, NextOf(request, a.posts))) /\ UNCHANGED <<query, release>>
    BY <1>1, <1>6 DEF ReceivePage, Accepted
  <2> QED
    BY <1>2, <1>4, <1>6, <2>1, AcceptKeeps
<1>7. CASE Normalize(request, a) = Malformed
  <2>1. PageFails("malformed_response")
    BY <1>1, <1>7 DEF ReceivePage, Malformed, Refused
  <2>2. "malformed_response" \in Classified \cup {"invalid"}
    BY DEF Classified
  <2> QED
    BY <1>2, <1>3, <2>1, <2>2, FetchVarsStay, PageFailsKeeps
<1> QED
  BY <1>5, <1>6, <1>7

(* What the adapters make of an answer that is no page: a classified       *)
(* failure, but for Gelbooru's listing, which takes one without a body for *)
(* an empty page.                                                          *)
LEMMA FaultsAreClassified ==
  ASSUME WalkTypeOK, NEW r, NEW a \in FaultyAnswers
  PROVE  \/ /\ Normalize(r, a).outcome \in Classified \cup {"invalid"}
         \/ /\ Normalize(r, a) = Accepted({}, Nothing)
            /\ walk = "gelbooru_listing" /\ a.body = "blank"
<1>1. a.status \in Statuses /\ a.body \in {"garbled", "blank", "error"} /\ a.posts = {}
  BY FaultsAreNoPages
<1>2. OutcomeOf(a.status) \in Classified \cup {"success"} /\ walk \in Walk
  BY <1>1, OutcomesAreClassified DEF WalkTypeOK
<1>3. CASE EnvelopeRefused(a)
  BY <1>3 DEF Normalize, Refused
<1>4. CASE ~ EnvelopeRefused(a) /\ OutcomeOf(a.status) # "success"
  BY <1>2, <1>4 DEF Normalize, Refused
<1>5. Malformed.outcome \in Classified \cup {"invalid"}
  BY DEF Malformed, Refused, Classified
<1>6. CASE ~ EnvelopeRefused(a) /\ OutcomeOf(a.status) = "success" /\ a.body = "garbled"
  BY <1>5, <1>6 DEF Normalize
<1>7. CASE ~ EnvelopeRefused(a) /\ OutcomeOf(a.status) = "success" /\ a.body # "garbled"
  <2>1. a.body # "posts"
    BY <1>1
  <2>2. CASE walk = "e621_lookup"
    BY <1>5, <1>7, <2>1, <2>2 DEF Normalize, E621Lookup
  <2>3. CASE walk = "e621_listing"
    BY <1>5, <1>7, <2>1, <2>3 DEF Normalize, E621Listing
  <2>4. CASE walk = "danbooru_lookup"
    BY <1>5, <1>7, <2>1, <2>4 DEF Normalize, DanbooruLookup
  <2>5. CASE walk = "danbooru_listing"
    BY <1>5, <1>7, <2>1, <2>5 DEF Normalize, DanbooruListing
  <2>6. CASE walk = "gelbooru_lookup"
    BY <1>5, <1>7, <2>1, <2>6 DEF Normalize, GelbooruLookup
  <2>7. CASE walk = "gelbooru_listing"
    <3>1. Normalize(r, a) = GelbooruListing(r, a)
      BY <1>7, <2>7 DEF Normalize
    <3>2. CASE a.body = "error"
      BY <1>5, <3>1, <3>2 DEF GelbooruListing, ErrorEnvelope
    <3>3. CASE a.body = "blank"
      <4>1. GelbooruListingContinuation(r, {}) = Nothing
        <5>1. ~ (Cardinality({}) >= PageSize)
          BY FS_EmptySet, WalkAssumption
        <5> QED
          BY <5>1 DEF GelbooruListingContinuation
      <4> QED
        BY <1>1, <2>7, <3>1, <3>3, <4>1 DEF GelbooruListing, ErrorEnvelope
    <3> QED
      BY <1>1, <1>7, <3>2, <3>3
  <2>8. CASE walk = "pawchive_listing"
    BY <1>5, <1>7, <2>1, <2>8 DEF Normalize, PawchiveListing
  <2>9. CASE walk = "sankaku_listing"
    BY <1>5, <1>7, <2>1, <2>9 DEF Normalize, SankakuListing
  <2>10. CASE walk = "pixiv_listing"
    BY <1>5, <1>7, <2>1, <2>10 DEF Normalize, PixivListing
  <2> QED
    BY <1>2, <2>2, <2>3, <2>4, <2>5, <2>6, <2>7, <2>8, <2>9, <2>10
       DEF Walk, Lookups, Keyset, E621Walks, DanbooruWalks, GelbooruWalks, Offset
<1> QED
  BY <1>3, <1>4, <1>6, <1>7

(* An answer without a body that is taken for a page ends the walk, which  *)
(* promises nothing from then on.                                          *)
LEMMA BlankKeeps ==
  ASSUME WalkInv, NEW a, request # Nothing, walk = "gelbooru_listing", a.body = "blank",
         PageAccepted(a, Accepted({}, Nothing)),
         UNCHANGED <<walk, rude, site, stood, removed, changes, query, release, access, attempt,
                     stale>>,
         faults > 0, faults' = faults - 1
  PROVE  WalkInv'
<1> PICK r : r = request
  OBVIOUS
<1>1. WalkTypeOK /\ RudeSites /\ ending = "open" /\ Fits(cursor) /\ r = RequestOf(cursor)
  BY DEF WalkInv
<1>2. r \in PageRequest /\ Stands(r.query, r.token, r.page)
  BY <1>1, RequestIsPage
<1>3. r.query \in Query /\ r.token \in DOMAIN Tokens[r.query]
  BY <1>2, TokenFacts DEF PageRequest, Stands
<1>4. /\ cursor' = Nothing /\ blank' = TRUE /\ ending' = "complete" /\ request' = Nothing
      /\ seen' = [seen EXCEPT ![r.query][r.token] = @ \cup {}]
      /\ again' = (again \/ seen[r.query][r.token] \cap {} # {})
  BY DEF PageAccepted, Accepted
<1>5. /\ seen' = [o \in Query |-> seen'[o]]
      /\ \A o \in Query : seen'[o] \in [DOMAIN Tokens[o] -> SUBSET SitePost]
  <2> PICK none : none = {}
    OBVIOUS
  <2>1. none \in SUBSET SitePost /\ seen' = [seen EXCEPT ![r.query][r.token] = @ \cup none]
    BY <1>4
  <2> QED
    BY <1>3, <2>1, SeenAfter
<1>6. again' = again
  BY <1>1, <1>4 DEF WalkTypeOK
<1>7. faults' \in 0..MaxFaults
       /\ release' + faults' + (IF Resumable' THEN 1 ELSE 0) <= MaxFaults + 1
  <2>1. faults \in 0..MaxFaults /\ MaxFaults \in Nat /\ release \in 1..MaxFaults + 1
    BY <1>1, WalkAssumption DEF WalkTypeOK
  <2>2. ~ Resumable /\ ~ Resumable'
    BY <1>1, <1>4 DEF Resumable
  <2>3. release + faults <= MaxFaults + 1
    BY <2>1, <2>2 DEF WalkInv
  <2> QED
    BY <2>1, <2>2, <2>3
<1>8. WalkTypeOK'
  BY <1>1, <1>4, <1>5, <1>6, <1>7 DEF WalkTypeOK, WalkEnding
<1>9. ~ Exact' /\ ~ Once'
  BY <1>4 DEF Exact, Once, Keyset, E621Walks, DanbooruWalks
<1> QED
  BY <1>1, <1>4, <1>5, <1>7, <1>8, <1>9 DEF WalkInv, RudeSites

LEMMA ReceiveFaultKeeps ==
  ASSUME WalkInv, ReceiveFault
  PROVE  WalkInv'
<1>1. PICK a \in FaultyAnswers : ReceivePage(a)
  BY DEF ReceiveFault
<1>2. /\ request # Nothing /\ faults > 0 /\ faults' = faults - 1
      /\ UNCHANGED <<walk, rude, site, stood, removed, changes, access, attempt, stale>>
  BY <1>1 DEF ReceiveFault, Sent, ReceivePage
<1>3. WalkTypeOK
  BY DEF WalkInv
<1>4. CASE Normalize(request, a).outcome \in Classified \cup {"invalid"}
  <2>1. PageFails(Normalize(request, a).outcome)
    BY <1>1, <1>4 DEF ReceivePage, Classified
  <2> QED
    BY <1>2, <1>3, <1>4, <2>1, FetchVarsStay, PageFailsKeeps
<1>5. CASE /\ Normalize(request, a) = Accepted({}, Nothing)
           /\ walk = "gelbooru_listing" /\ a.body = "blank"
  <2>1. PageAccepted(a, Accepted({}, Nothing)) /\ UNCHANGED <<query, release>>
    BY <1>1, <1>5 DEF ReceivePage, Accepted
  <2> QED
    BY <1>2, <1>5, <2>1, BlankKeeps
<1> QED
  BY <1>3, <1>4, <1>5, FaultsAreClassified

LEMMA InitWalks ==
  ASSUME WalkInit
  PROVE  WalkInv
<1>1. \A q \in Query : seen[q] = [t \in DOMAIN Tokens[q] |-> {}]
  BY DEF WalkInit
<1>2. WalkTypeOK
  <2>1. release \in 1..MaxFaults + 1 /\ faults \in 0..MaxFaults /\ changes \in 0..MaxChanges
    BY WalkAssumption DEF WalkInit
  <2>2. \A q \in Query : seen[q] \in [DOMAIN Tokens[q] -> SUBSET SitePost]
    BY <1>1
  <2>3. /\ walk \in Walk /\ rude \in BOOLEAN /\ removed \in BOOLEAN
        /\ stood \subseteq site /\ site \subseteq SitePost /\ query \in Query
    BY DEF WalkInit
  <2>4. /\ cursor \in Cursor \cup {Nothing} /\ request \in PageRequest \cup {Nothing}
        /\ again \in BOOLEAN /\ blank \in BOOLEAN
    BY DEF WalkInit
  <2>5. ending \in WalkEnding
    BY DEF WalkInit, WalkEnding
  <2>6. access \in {"none", "valid", "stale"} /\ attempt \in 0..1 /\ stale \in Nat
    BY DEF WalkInit
  <2> QED
    BY <2>1, <2>2, <2>3, <2>4, <2>5, <2>6 DEF WalkTypeOK
<1>3. Unread
  BY <1>1 DEF Unread
<1>4. ~ Resumable
  BY DEF WalkInit, Resumable
<1>5. release + faults + 0 <= MaxFaults + 1
  BY WalkAssumption DEF WalkInit
<1> QED
  BY <1>2, <1>3, <1>4, <1>5 DEF WalkInit, WalkInv, RudeSites

LEMMA WalkStepKeeps ==
  ASSUME WalkInv, [WalkNext]_walkVars
  PROVE  WalkInv'
<1>1. CASE SiteStep
  BY <1>1, PostAddedKeeps, PostRemovedKeeps, TokenGoesStaleKeeps DEF SiteStep
<1>2. CASE FetchStep
  BY <1>2, BeginPageKeeps, ExchangeTokenKeeps, UnauthorizedKeeps, ReceiveAnswerKeeps DEF FetchStep
<1>3. CASE CallerStep
  BY <1>3, PauseKeeps, ReceiveFaultKeeps, ExchangeFailsKeeps, WalkOnKeeps DEF CallerStep
<1>4. CASE UNCHANGED walkVars
  <2>1. UNCHANGED <<walk, rude, site, stood, removed, changes, faults, query, release, cursor, seen,
                    again, blank, ending, request, access, attempt, stale>>
    BY <1>4 DEF walkVars, siteVars, keptVars, fetchVars
  <2>2. WalkTypeOK' = WalkTypeOK /\ Resumable' = Resumable
    BY <2>1 DEF WalkTypeOK, Resumable
  <2>3. RequestOf(cursor)' = RequestOf(cursor) /\ Fits(cursor)' = Fits(cursor)
    BY <2>1 DEF RequestOf, Fits, FitsLookup, FitsListing
  <2> QED
    BY <2>1, <2>2, <2>3, CursorStandsStill DEF WalkInv
<1> QED
  BY <1>1, <1>2, <1>3, <1>4 DEF WalkNext

(* The invariant of a walk, of any adapter, whatever its site does. *)
THEOREM WalkInvariance == WalkSpec => []WalkInv
<1>1. WalkInit => WalkInv
  BY InitWalks
<1>2. WalkInv /\ [WalkNext]_walkVars => WalkInv'
  BY WalkStepKeeps
<1> QED
  BY <1>1, <1>2, PTL DEF WalkSpec

(* The cursors, requests and endings of a walk are of their types: what an *)
(* adapter makes of any status and body is a page or a classified failure. *)
THEOREM WalkTypesStand == WalkSpec => []WalkTypeOK
<1>1. WalkInv => WalkTypeOK
  BY DEF WalkInv
<1> QED
  BY <1>1, WalkInvariance, PTL

(* A walk that ended by itself has every post that was there all along,    *)
(* whatever was added and removed, refused, paused and upgraded meanwhile, *)
(* and a walk by boundaries has nothing twice.                             *)
THEOREM WalksAreExact == WalkSpec => []WalkIsExact
<1>1. WalkInv => WalkIsExact
  BY DEF WalkInv, WalkIsExact, CompleteMissesNothing, KeysetReadsOnce, Exact, Once
<1> QED
  BY <1>1, WalkInvariance, PTL

(* The least of some numbers is one of them. *)
LEMMA MinIsIn ==
  ASSUME NEW L \in SUBSET Nat, IsFiniteSet(L), L # {}
  PROVE  Min(L) \in L
BY LastIsOldest DEF LastOf

-----------------------------------------------------------------------------
(* What a run of a lookup goes on with *)

(* Chain and what is collected along it, of any rows.                      *)
HoldsResumedOf(rows, runs) == \A x \in runs : rows[x].pred \in runs \cup {0}

ChainOf(rows, r) ==
    {x \in DOMAIN rows :
        \A runs \in SUBSET DOMAIN rows : r \in runs /\ HoldsResumedOf(rows, runs) => x \in runs}

CollectedOf(rows, r) == UNION {rows[x].results : x \in ChainOf(rows, r)}

Asks(row) == <<row.provider, row.material>>
HitsTo(ans, q) == UNION Range(ans[q])

(* The pages before one are collected.                                     *)
HasPages(ans, rows, r, page) ==
    /\ page \in DOMAIN ans[Asks(rows[r])]
    /\ \A i \in DOMAIN ans[Asks(rows[r])] :
          i < page => ans[Asks(rows[r])][i] \subseteq CollectedOf(rows, r)

GoesOnWith(row, pred) ==
    /\ <<row.seed, row.provider, row.material, row.revision>>
         = <<pred.seed, pred.provider, pred.material, pred.revision>>
    /\ pred.status = "paused"

PredStands(rows, r) ==
    rows[r].pred # 0 => /\ rows[r].pred \in DOMAIN rows
                        /\ GoesOnWith(rows[r], rows[rows[r].pred])

RowStands(ans, rows, r) ==
    /\ PredStands(rows, r)
    /\ CollectedOf(rows, r) \subseteq HitsTo(ans, Asks(rows[r]))
    /\ rows[r].status = "complete" => HitsTo(ans, Asks(rows[r])) \subseteq CollectedOf(rows, r)
    /\ rows[r].checkpoint # None => HasPages(ans, rows, r, rows[r].checkpoint)

RowsStand(ans, rows) ==
    /\ rows \in Seq(Lookup)
    /\ \A r \in DOMAIN rows : RowStands(ans, rows, r)

(* The first item of a plan goes on with a paused run, at a page.          *)
MayResume(ans, rows, s, provider, queue, pred, page) ==
    /\ pred \in DOMAIN rows /\ rows[pred].status = "paused"
    /\ <<s, provider, Head(queue).material, Head(queue).revision>>
         = <<rows[pred].seed, rows[pred].provider, rows[pred].material, rows[pred].revision>>
    /\ HasPages(ans, rows, pred, page)

(* What stands behind an invocation: it owns the run it executes, goes on  *)
(* with a paused one that asked the same, and has the pages before its own.*)
WorkStands(ans, rows, label, w) ==
    /\ w = None <=> label \in {"idle", "plan", "step"}
    /\ w # None =>
        /\ w.run = 0 <=> label \in {"check", "begin", "returned"}
        /\ label \in {"begin", "ask", "commit", "finish"} => w.queue # <<>>
        /\ w.pred # 0 => Len(w.queue) <= 1
        /\ w.queue # <<>> /\ w.run = 0 /\ w.pred = 0 => w.page = 1
        /\ w.queue # <<>> /\ w.run = 0 /\ w.pred # 0 =>
              MayResume(ans, rows, w.seed, w.provider, w.queue, w.pred, w.page)
        /\ w.run # 0 =>
              /\ w.run \in DOMAIN rows /\ rows[w.run].status = "running"
              /\ Asks(rows[w.run]) = <<w.provider, Head(w.queue).material>>
              /\ HasPages(ans, rows, w.run, w.page)
              /\ rows[w.run].asked <= w.limit
        /\ label = "finish" =>
              /\ w.ending \in {"complete", "paused", "failed"}
              /\ w.ending = "complete" =>
                    HitsTo(ans, Asks(rows[w.run])) \subseteq CollectedOf(rows, w.run)
        /\ \A i \in DOMAIN w.ran : w.ran[i] \in DOMAIN rows
        /\ w.ran = <<>> => w.sent = 0
        /\ Len(w.ran) = 1 => w.sent <= w.limit

Label == {"idle", "plan", "step", "check", "begin", "ask", "commit", "finish", "returned"}

RunsApart(works) ==
    \A p, q \in Process : works[p] # None /\ works[q] # None /\ works[p].run = works[q].run =>
                              p = q \/ works[p].run = 0

(* The invariant of lookups. *)
LookupInv ==
    /\ answers \in Answers /\ origin \in [Seed -> Origin]
    /\ pc \in [Process -> Label] /\ work \in [Process -> Work \cup {None}]
    /\ RowsStand(answers, lookups)
    /\ \A p \in Process : WorkStands(answers, lookups, pc[p], work[p])
    /\ RunsApart(work)
    /\ NoRunLeftBehind

(* One run is written, or begun, and it is none that another goes on with. *)
OneRunChanges(rows, new, run) ==
    /\ rows \in Seq(Lookup) /\ new \in Seq(Lookup)
    /\ DOMAIN rows \subseteq DOMAIN new /\ DOMAIN new \subseteq DOMAIN rows \cup {run}
    /\ \A r \in DOMAIN rows : r # run => new[r] = rows[r]
    /\ run \in DOMAIN rows => /\ rows[run].status = "running"
                              /\ new[run].pred = rows[run].pred
                              /\ Asks(new[run]) = Asks(rows[run])
                              /\ new[run].seed = rows[run].seed
                              /\ rows[run].results \subseteq new[run].results
    /\ run \in DOMAIN new /\ run \notin DOMAIN rows => new[run].pred # run

(* Runs are never taken back, nor is what one found or that it is complete.*)
RowsGrow(rows, new) ==
    /\ DOMAIN rows \subseteq DOMAIN new
    /\ \A r \in DOMAIN rows :
          /\ new[r].seed = rows[r].seed /\ new[r].provider = rows[r].provider
          /\ rows[r].results \subseteq new[r].results
          /\ rows[r].status = "complete" => new[r].status = "complete"

LookupsKept == LookupInv' /\ RowsGrow(lookups, lookups')

(* A run is in its chain, which goes on with what each of it resumed.      *)
LEMMA ChainHoldsRun ==
  ASSUME NEW rows, NEW r \in DOMAIN rows,
         \A x \in DOMAIN rows : rows[x].pred \in DOMAIN rows \cup {0}
  PROVE  /\ r \in ChainOf(rows, r) /\ ChainOf(rows, r) \subseteq DOMAIN rows
         /\ HoldsResumedOf(rows, ChainOf(rows, r))
<1>1. r \in ChainOf(rows, r) /\ ChainOf(rows, r) \subseteq DOMAIN rows
  BY DEF ChainOf
<1>2. ASSUME NEW x \in ChainOf(rows, r), rows[x].pred # 0
      PROVE  rows[x].pred \in ChainOf(rows, r)
  <2>1. rows[x].pred \in DOMAIN rows
    BY <1>1, <1>2
  <2>2. ASSUME NEW runs \in SUBSET DOMAIN rows, r \in runs, HoldsResumedOf(rows, runs)
        PROVE  rows[x].pred \in runs
    <3>1. x \in runs
      BY <2>2 DEF ChainOf
    <3> QED
      BY <1>2, <2>2, <3>1 DEF HoldsResumedOf
  <2> QED
    BY <2>1, <2>2 DEF ChainOf
<1> QED
  BY <1>1, <1>2 DEF HoldsResumedOf

LEMMA ChainIsLeast ==
  ASSUME NEW rows, NEW r, NEW runs \in SUBSET DOMAIN rows, r \in runs,
         HoldsResumedOf(rows, runs)
  PROVE  ChainOf(rows, r) \subseteq runs
BY DEF ChainOf

(* A chain is a run and the chain of the one it resumed.                   *)
LEMMA ChainGoesOn ==
  ASSUME NEW rows, NEW r \in DOMAIN rows,
         \A x \in DOMAIN rows : rows[x].pred \in DOMAIN rows \cup {0}
  PROVE  ChainOf(rows, r) =
            {r} \cup (IF rows[r].pred = 0 THEN {} ELSE ChainOf(rows, rows[r].pred))
<1> DEFINE C == IF rows[r].pred = 0 THEN {} ELSE ChainOf(rows, rows[r].pred)
<1>1. /\ r \in ChainOf(rows, r) /\ ChainOf(rows, r) \in SUBSET DOMAIN rows
      /\ HoldsResumedOf(rows, ChainOf(rows, r))
  BY ChainHoldsRun
<1>2. rows[r].pred \in ChainOf(rows, r) \cup {0}
  BY <1>1 DEF HoldsResumedOf
<1>3. CASE rows[r].pred = 0
  <2>1. HoldsResumedOf(rows, {r})
    BY <1>3 DEF HoldsResumedOf
  <2>2. ChainOf(rows, r) \subseteq {r}
    BY <2>1, ChainIsLeast
  <2> QED
    BY <1>1, <1>3, <2>2
<1>4. CASE rows[r].pred # 0
  <2> DEFINE q == rows[r].pred
  <2>1. q \in DOMAIN rows /\ q \in ChainOf(rows, r)
    BY <1>1, <1>2, <1>4
  <2>2. ChainOf(rows, q) \subseteq ChainOf(rows, r)
    BY <1>1, <2>1, ChainIsLeast
  <2>3. /\ q \in ChainOf(rows, q) /\ ChainOf(rows, q) \in SUBSET DOMAIN rows
        /\ HoldsResumedOf(rows, ChainOf(rows, q))
    BY <2>1, ChainHoldsRun
  <2>4. HoldsResumedOf(rows, {r} \cup ChainOf(rows, q))
    BY <2>3 DEF HoldsResumedOf
  <2>5. ChainOf(rows, r) \subseteq {r} \cup ChainOf(rows, q)
    BY <2>3, <2>4, ChainIsLeast
  <2> QED
    BY <1>1, <1>4, <2>2, <2>5
<1> QED
  BY <1>3, <1>4

(* What is not the run itself in a chain is paused.                        *)
LEMMA ChainIsPaused ==
  ASSUME NEW rows, NEW r \in DOMAIN rows, \A x \in DOMAIN rows : PredStands(rows, x)
  PROVE  \A x \in ChainOf(rows, r) : x = r \/ rows[x].status = "paused"
<1> DEFINE P == {r} \cup {x \in DOMAIN rows : rows[x].status = "paused"}
<1>1. HoldsResumedOf(rows, P)
  BY DEF HoldsResumedOf, PredStands, GoesOnWith
<1>2. ChainOf(rows, r) \subseteq P
  BY <1>1, ChainIsLeast
<1> QED
  BY <1>2


(* The chains of the other runs, and what they collected, stay.            *)
LEMMA OtherChainsStay ==
  ASSUME NEW rows, NEW new, NEW run, OneRunChanges(rows, new, run),
         \A x \in DOMAIN rows : PredStands(rows, x),
         NEW r \in DOMAIN rows, r # run
  PROVE  /\ ChainOf(new, r) = ChainOf(rows, r)
         /\ CollectedOf(new, r) = CollectedOf(rows, r)
<1> DEFINE C == ChainOf(rows, r)
           D == ChainOf(new, r)
<1>1. \A x \in DOMAIN rows : rows[x].pred \in DOMAIN rows \cup {0}
  BY DEF PredStands
<1>2. r \in C /\ C \in SUBSET DOMAIN rows /\ HoldsResumedOf(rows, C)
  BY <1>1, ChainHoldsRun
<1>3. \A x \in C : x # run
  BY <1>2, ChainIsPaused DEF OneRunChanges
<1>4. \A x \in C : new[x] = rows[x]
  BY <1>2, <1>3 DEF OneRunChanges
<1>5. C \in SUBSET DOMAIN new /\ HoldsResumedOf(new, C)
  BY <1>2, <1>4 DEF OneRunChanges, HoldsResumedOf
<1>6. D \subseteq C
  BY <1>2, <1>5, ChainIsLeast
<1>7. ASSUME NEW x \in C, NEW runs \in SUBSET DOMAIN new, r \in runs, HoldsResumedOf(new, runs)
      PROVE  x \in runs
  <2> DEFINE R == runs \cap C
  <2>1. R \in SUBSET DOMAIN rows /\ r \in R
    BY <1>2, <1>7
  <2>2. HoldsResumedOf(rows, R)
    BY <1>2, <1>4, <1>7 DEF HoldsResumedOf
  <2>3. C \subseteq R
    BY <2>1, <2>2, ChainIsLeast
  <2> QED
    BY <2>3
<1>8. C \subseteq D
  <2>1. \A x \in C : x \in DOMAIN new
    BY <1>5
  <2> QED
    BY <1>7, <2>1 DEF ChainOf
<1>9. D = C
  BY <1>6, <1>8
<1> QED
  BY <1>4, <1>9 DEF CollectedOf

(* What the written run has collected.                                     *)
LEMMA RunCollects ==
  ASSUME NEW rows, NEW new, NEW run, OneRunChanges(rows, new, run),
         \A x \in DOMAIN rows : PredStands(rows, x),
         run \in DOMAIN new, PredStands(new, run)
  PROVE  CollectedOf(new, run) =
            new[run].results \cup
               (IF new[run].pred = 0 THEN {} ELSE CollectedOf(rows, new[run].pred))
<1> DEFINE q == new[run].pred
<1>1. \A x \in DOMAIN rows : rows[x].pred \in DOMAIN rows \cup {0}
  BY DEF PredStands
<1>2. \A x \in DOMAIN new : new[x].pred \in DOMAIN new \cup {0}
  <2>1. new[run].pred \in DOMAIN new \cup {0}
    BY DEF PredStands
  <2>2. ASSUME NEW x \in DOMAIN rows, x # run
        PROVE  new[x].pred \in DOMAIN new \cup {0}
    BY <1>1, <2>2 DEF OneRunChanges
  <2> QED
    BY <2>1, <2>2 DEF OneRunChanges
<1>3. ChainOf(new, run) = {run} \cup (IF q = 0 THEN {} ELSE ChainOf(new, q))
  BY <1>2, ChainGoesOn
<1>4. CASE q = 0
  BY <1>3, <1>4 DEF CollectedOf
<1>5. CASE q # 0
  <2>1. q \in DOMAIN new /\ q # run => q \in DOMAIN rows
    BY <1>5 DEF PredStands, OneRunChanges
  <2>2. q # run
    <3>1. CASE run \in DOMAIN rows
      <4>1. rows[run].pred = q /\ rows[run].status = "running"
        BY <3>1 DEF OneRunChanges
      <4>2. rows[q].status = "paused"
        BY <1>5, <3>1, <4>1 DEF PredStands, GoesOnWith
      <4> QED
        BY <4>1, <4>2
    <3>2. CASE run \notin DOMAIN rows
      BY <3>2 DEF OneRunChanges
    <3> QED
      BY <3>1, <3>2
  <2>3. CollectedOf(new, q) = CollectedOf(rows, q)
    BY <1>5, <2>1, <2>2, OtherChainsStay DEF PredStands
  <2>4. CollectedOf(new, run) = new[run].results \cup CollectedOf(new, q)
    BY <1>3, <1>5 DEF CollectedOf
  <2> QED
    BY <1>5, <2>3, <2>4
<1> QED
  BY <1>4, <1>5


(* The other rows stand as they did.                                       *)
LEMMA OtherRowStands ==
  ASSUME NEW ans, NEW rows, NEW new, NEW run, RowsStand(ans, rows), OneRunChanges(rows, new, run),
         NEW r \in DOMAIN rows, r # run
  PROVE  RowStands(ans, new, r)
<1>1. RowStands(ans, rows, r) /\ \A x \in DOMAIN rows : PredStands(rows, x)
  BY DEF RowsStand, RowStands
<1>2. new[r] = rows[r] /\ CollectedOf(new, r) = CollectedOf(rows, r)
  <2>1. new[r] = rows[r]
    BY DEF OneRunChanges
  <2> QED
    BY <1>1, <2>1, OtherChainsStay
<1>3. PredStands(new, r)
  <2> SUFFICES ASSUME rows[r].pred # 0
               PROVE  PredStands(new, r)
    BY <1>2 DEF PredStands
  <2> DEFINE q == rows[r].pred
  <2>1. q \in DOMAIN rows /\ GoesOnWith(rows[r], rows[q])
    BY <1>1 DEF PredStands
  <2>2. q # run
    BY <2>1 DEF OneRunChanges, GoesOnWith
  <2>3. q \in DOMAIN new /\ new[q] = rows[q]
    BY <2>1, <2>2 DEF OneRunChanges
  <2> QED
    BY <1>2, <2>1, <2>3 DEF PredStands
<1>4. HasPages(ans, rows, r, rows[r].checkpoint) => HasPages(ans, new, r, rows[r].checkpoint)
  BY <1>2 DEF HasPages
<1> QED
  BY <1>1, <1>2, <1>3, <1>4 DEF RowStands

LEMMA OtherRowsStand ==
  ASSUME NEW ans, NEW rows, NEW new, NEW run, RowsStand(ans, rows), OneRunChanges(rows, new, run),
         run \in DOMAIN new => RowStands(ans, new, run)
  PROVE  RowsStand(ans, new)
<1>1. ASSUME NEW r \in DOMAIN new
      PROVE  RowStands(ans, new, r)
  BY OtherRowStands DEF OneRunChanges
<1> QED
  BY <1>1 DEF RowsStand, OneRunChanges

(* And so does what another invocation executes.                           *)
LEMMA OtherWorkStands ==
  ASSUME NEW ans, NEW rows, NEW new, NEW run, RowsStand(ans, rows), OneRunChanges(rows, new, run),
         NEW label, NEW w, WorkStands(ans, rows, label, w),
         w # None => w.run = 0 \/ w.run # run
  PROVE  WorkStands(ans, new, label, w)
<1> SUFFICES ASSUME w # None
             PROVE  WorkStands(ans, new, label, w)
  BY DEF WorkStands
<1>0. \A x \in DOMAIN rows : PredStands(rows, x)
  BY DEF RowsStand, RowStands
<1>1. ASSUME NEW r \in DOMAIN rows, r # run
      PROVE  /\ r \in DOMAIN new /\ new[r] = rows[r]
             /\ CollectedOf(new, r) = CollectedOf(rows, r)
             /\ \A k : HasPages(ans, rows, r, k) => HasPages(ans, new, r, k)
  <2>1. r \in DOMAIN new /\ new[r] = rows[r]
    BY <1>1 DEF OneRunChanges
  <2>2. CollectedOf(new, r) = CollectedOf(rows, r)
    BY <1>0, <1>1, OtherChainsStay
  <2> QED
    BY <2>1, <2>2 DEF HasPages
<1>2. ASSUME w.queue # <<>> /\ w.run = 0 /\ w.pred # 0
      PROVE  MayResume(ans, new, w.seed, w.provider, w.queue, w.pred, w.page)
  <2>1. MayResume(ans, rows, w.seed, w.provider, w.queue, w.pred, w.page)
    BY <1>2 DEF WorkStands
  <2>2. w.pred \in DOMAIN rows /\ w.pred # run
    BY <2>1 DEF OneRunChanges, MayResume
  <2> QED
    BY <1>1, <2>1, <2>2 DEF MayResume
<1>3. ASSUME w.run # 0
      PROVE  /\ w.run \in DOMAIN new /\ new[w.run] = rows[w.run]
             /\ CollectedOf(new, w.run) = CollectedOf(rows, w.run)
             /\ HasPages(ans, new, w.run, w.page)
  <2>1. w.run \in DOMAIN rows /\ HasPages(ans, rows, w.run, w.page) /\ w.run # run
    BY <1>3 DEF WorkStands
  <2> QED
    BY <1>1, <2>1
<1>4. label = "finish" => w.run # 0
  BY DEF WorkStands
<1>5. DOMAIN rows \subseteq DOMAIN new
  BY DEF OneRunChanges
<1> QED
  BY <1>2, <1>3, <1>4, <1>5 DEF WorkStands

(* An invocation that is done with its run leaves it finished or killed.   *)
LeavesNone(new, w, run) ==
    run \in DOMAIN new /\ new[run].status = "running" =>
        new[run].killed \/ (w # None /\ w.run = run)

(* A step of one invocation, which writes no run but its own.              *)
StepOf(p, label, w, run) ==
    /\ answers' = answers /\ origin' \in [Seed -> Origin]
    /\ label \in Label /\ pc' = [pc EXCEPT ![p] = label]
    /\ w \in Work \cup {None} /\ work' = [work EXCEPT ![p] = w]
    /\ work[p] # None => work[p].run \in {0, run}
    /\ w # None => w.run \in {0, run}
    /\ \A q \in Process : q # p /\ work[q] # None => work[q].run = 0 \/ work[q].run # run
    /\ OneRunChanges(lookups, lookups', run)
    /\ run \in DOMAIN lookups' => RowStands(answers, lookups', run)
    /\ WorkStands(answers, lookups', label, w)
    /\ LeavesNone(lookups', w, run)

LEMMA StepKeeps ==
  ASSUME LookupInv, NEW p \in Process, NEW label, NEW w, NEW run, StepOf(p, label, w, run)
  PROVE  LookupsKept
<1>1. /\ answers' = answers /\ answers \in Answers /\ origin' \in [Seed -> Origin]
      /\ pc' = [pc EXCEPT ![p] = label] /\ pc' \in [Process -> Label]
      /\ work' = [work EXCEPT ![p] = w] /\ work' \in [Process -> Work \cup {None}]
      /\ work \in [Process -> Work \cup {None}] /\ pc \in [Process -> Label]
  BY DEF LookupInv, StepOf
<1>2. RowsStand(answers, lookups) /\ OneRunChanges(lookups, lookups', run)
  BY DEF LookupInv, StepOf
<1>3. RowsStand(answers, lookups')
  BY <1>2, OtherRowsStand DEF StepOf
<1>4. ASSUME NEW q \in Process
      PROVE  WorkStands(answers, lookups', pc'[q], work'[q])
  <2>1. CASE q = p
    BY <1>1, <2>1 DEF StepOf
  <2>2. CASE q # p
    <3>1. pc'[q] = pc[q] /\ work'[q] = work[q]
      BY <1>1, <2>2
    <3>2. WorkStands(answers, lookups, pc[q], work[q])
      BY DEF LookupInv
    <3>3. work[q] # None => work[q].run = 0 \/ work[q].run # run
      BY <2>2 DEF StepOf
    <3> QED
      BY <1>2, <3>1, <3>2, <3>3, OtherWorkStands
  <2> QED
    BY <2>1, <2>2
<1>5. RunsApart(work')
  BY <1>1 DEF LookupInv, StepOf, RunsApart
<1>6. NoRunLeftBehind'
  <2> SUFFICES ASSUME NEW r \in DOMAIN lookups', lookups'[r].status = "running", ~ lookups'[r].killed
               PROVE  \E q \in Process : work'[q] # None /\ work'[q].run = r
    BY DEF NoRunLeftBehind
  <2>1. CASE r = run
    BY <1>1, <2>1 DEF StepOf, LeavesNone
  <2>2. CASE r # run
    <3>1. r \in DOMAIN lookups /\ lookups'[r] = lookups[r]
      BY <1>2, <2>2 DEF OneRunChanges
    <3>2. PICK q \in Process : work[q] # None /\ work[q].run = r
      BY <3>1 DEF LookupInv, NoRunLeftBehind
    <3>3. r # 0
      BY <1>2, <3>1 DEF OneRunChanges
    <3>4. q # p
      BY <2>2, <3>2, <3>3 DEF StepOf
    <3> QED
      BY <1>1, <3>2, <3>4
  <2> QED
    BY <2>1, <2>2
<1>7. RowsGrow(lookups, lookups')
  BY <1>2 DEF OneRunChanges, RowsGrow, Asks
<1>8. LookupInv'
  BY <1>1, <1>3, <1>4, <1>5, <1>6 DEF LookupInv
<1> QED
  BY <1>7, <1>8 DEF LookupsKept


-----------------------------------------------------------------------------
(* The steps of an invocation *)

RunOf(p) == IF work[p] = None THEN 0 ELSE work[p].run

LEMMA InvocationFacts ==
  ASSUME LookupInv, NEW p \in Process
  PROVE  /\ work[p] \in Work \cup {None} /\ None \notin Work
         /\ WorkStands(answers, lookups, pc[p], work[p])
         /\ work \in [Process -> Work \cup {None}] /\ pc \in [Process -> Label]
         /\ RowsStand(answers, lookups) /\ lookups \in Seq(Lookup)
         /\ answers \in Answers /\ origin \in [Seed -> Origin]
         /\ \A q \in Process : q # p /\ work[q] # None => work[q].run = 0 \/ work[q].run # RunOf(p)
         /\ RunOf(p) # 0 => RunOf(p) \in DOMAIN lookups /\ lookups[RunOf(p)].status = "running"
<1>1. \A q \in Process : q # p /\ work[q] # None => work[q].run = 0 \/ work[q].run # RunOf(p)
  BY DEF LookupInv, RunsApart, RunOf
<1>2. RunOf(p) # 0 => RunOf(p) \in DOMAIN lookups /\ lookups[RunOf(p)].status = "running"
  BY DEF LookupInv, RunOf, WorkStands
<1> QED
  BY <1>1, <1>2, LookupAssumption DEF LookupInv, RowsStand

LEMMA SameRows ==
  ASSUME NEW ans, NEW rows, RowsStand(ans, rows), NEW run,
         run \in DOMAIN rows => rows[run].status = "running"
  PROVE  OneRunChanges(rows, rows, run) /\ (run \in DOMAIN rows => RowStands(ans, rows, run))
BY DEF RowsStand, OneRunChanges

(* A step that writes no row.                                              *)
LEMMA QuietStepKeeps ==
  ASSUME LookupInv, NEW p \in Process, NEW label \in Label, NEW w \in Work \cup {None},
         UNCHANGED <<answers, lookups>>, origin' \in [Seed -> Origin],
         pc' = [pc EXCEPT ![p] = label], work' = [work EXCEPT ![p] = w],
         RunOf(p) = (IF w = None THEN 0 ELSE w.run),
         WorkStands(answers, lookups, label, w)
  PROVE  LookupsKept
<1> DEFINE run == RunOf(p)
<1>1. run # 0 => run \in DOMAIN lookups /\ lookups[run].status = "running"
  BY InvocationFacts
<1>2. RowsStand(answers, lookups) /\ lookups \in Seq(Lookup)
  BY InvocationFacts
<1>3. 0 \notin DOMAIN lookups
  BY <1>2
<1>4. OneRunChanges(lookups, lookups, run) /\ (run \in DOMAIN lookups => RowStands(answers, lookups, run))
  BY <1>1, <1>2, <1>3, SameRows
<1>5. \A q \in Process : q # p /\ work[q] # None => work[q].run = 0 \/ work[q].run # run
  BY InvocationFacts
<1>6. work[p] # None => work[p].run \in {0, run}
  BY DEF RunOf
<1>7. w # None => w.run \in {0, run}
  OBVIOUS
<1>8. LeavesNone(lookups, w, run)
  BY <1>3 DEF LeavesNone
<1>9. StepOf(p, label, w, run)
  BY <1>4, <1>5, <1>6, <1>7, <1>8 DEF StepOf
<1> QED
  BY <1>9, StepKeeps

(* A step that leaves the lookups and who executes them.                   *)
LEMMA RewriteKeeps ==
  ASSUME LookupInv, UNCHANGED <<answers, lookups, pc, work>>, origin' \in [Seed -> Origin]
  PROVE  LookupsKept
<1>1. LookupInv'
  BY DEF LookupInv, NoRunLeftBehind
<1>2. RowsGrow(lookups, lookups')
  BY DEF RowsGrow
<1> QED
  BY <1>1, <1>2 DEF LookupsKept

(* An execution ends with what it has.                                     *)
Ended(w, status, unwinds) == [w EXCEPT !.ending = status, !.unwinds = unwinds]

LEMMA EndingStands ==
  ASSUME NEW ans, NEW rows, NEW label \in {"ask", "commit"}, NEW w \in Work,
         WorkStands(ans, rows, label, w), None \notin Work,
         NEW status \in {"complete", "paused", "failed"}, NEW unwinds \in {"no", "raise", "exit"},
         status = "complete" =>
            HitsTo(ans, Asks(rows[w.run])) \subseteq CollectedOf(rows, w.run)
  PROVE  /\ Ended(w, status, unwinds) \in Work /\ Ended(w, status, unwinds).run = w.run
         /\ WorkStands(ans, rows, "finish", Ended(w, status, unwinds))
<1> DEFINE v == Ended(w, status, unwinds)
<1>1. v \in Work
  BY DEF Work, Ended
<1>2. /\ v.seed = w.seed /\ v.provider = w.provider /\ v.limit = w.limit /\ v.queue = w.queue
      /\ v.pred = w.pred /\ v.run = w.run /\ v.page = w.page /\ v.ran = w.ran /\ v.sent = w.sent
      /\ v.ending = status
  BY DEF Work, Ended
<1>3. v # None /\ w # None
  BY <1>1
<1> HIDE DEF v
<1>4. w.run # 0 /\ w.queue # <<>>
  BY <1>3 DEF WorkStands
<1>5. WorkStands(ans, rows, "finish", v)
  BY <1>2, <1>3, <1>4 DEF WorkStands
<1> QED
  BY <1>1, <1>2, <1>5 DEF v

LEMMA EndingKeeps ==
  ASSUME LookupInv, NEW p \in Process, pc[p] \in {"ask", "commit"},
         NEW status \in {"paused", "failed"}, NEW unwinds \in {"no", "raise", "exit"},
         Ending(p, status, unwinds), UNCHANGED <<answers, origin, lookups>>
  PROVE  LookupsKept
<1> DEFINE w == Ended(work[p], status, unwinds)
<1>1. work[p] \in Work /\ WorkStands(answers, lookups, pc[p], work[p]) /\ None \notin Work
  <2>1. work[p] # None
    BY InvocationFacts DEF WorkStands
  <2> QED
    BY <2>1, InvocationFacts
<1>2. w \in Work /\ w.run = work[p].run /\ WorkStands(answers, lookups, "finish", w)
  <2>1. status \in {"complete", "paused", "failed"} /\ status # "complete"
    OBVIOUS
  <2>2. PICK label \in {"ask", "commit"} : label = pc[p]
    OBVIOUS
  <2>3. WorkStands(answers, lookups, label, work[p])
    BY <1>1, <2>2
  <2>4. status = "complete" => HitsTo(answers, Asks(lookups[work[p].run])) \subseteq
                                   CollectedOf(lookups, work[p].run)
    BY <2>1
  <2> HIDE DEF w
  <2> QED
    BY ONLY <1>1, <2>1, <2>3, <2>4, unwinds \in {"no", "raise", "exit"}, EndingStands DEF w
<1>3. work' = [work EXCEPT ![p] = w] /\ pc' = [pc EXCEPT ![p] = "finish"]
  BY <1>1, InvocationFacts DEF Ending, Goto, Ended
<1>4. w # None /\ work[p] # None
  BY <1>1, <1>2
<1>5. origin' \in [Seed -> Origin] /\ "finish" \in Label
  BY InvocationFacts DEF Label
<1>6. RunOf(p) = IF w = None THEN 0 ELSE w.run
  BY <1>2, <1>4 DEF RunOf
<1> HIDE DEF w
<1> QED
  BY <1>2, <1>3, <1>5, <1>6, QuietStepKeeps

LEMMA EndingsKeep ==
  ASSUME LookupInv, NEW p \in Process,
         Exhausted(p) \/ CommitLate(p) \/ Interrupted(p) \/ Raises(p)
  PROVE  LookupsKept
<1>1. CASE Exhausted(p)
  BY <1>1, EndingKeeps DEF Exhausted, At
<1>2. CASE CommitLate(p)
  BY <1>2, EndingKeeps DEF CommitLate, At
<1>3. CASE Interrupted(p)
  BY <1>3, EndingKeeps DEF Interrupted
<1>4. CASE Raises(p)
  BY <1>4, EndingKeeps DEF Raises
<1> QED
  BY <1>1, <1>2, <1>3, <1>4


-----------------------------------------------------------------------------
(* What is planned *)

(* Places are in a total order.                                            *)
LEMMA PlacesAreOrdered ==
  ASSUME NEW x \in Nat \X Nat \X Nat, NEW y \in Nat \X Nat \X Nat, NEW z \in Nat \X Nat \X Nat
  PROVE  /\ ~ Before(x, x)
         /\ Before(x, y) /\ Before(y, z) => Before(x, z)
         /\ x # y => Before(x, y) \/ Before(y, x)
<1>1. /\ x = <<x[1], x[2], x[3]>> /\ x[1] \in Nat /\ x[2] \in Nat /\ x[3] \in Nat
      /\ y = <<y[1], y[2], y[3]>> /\ y[1] \in Nat /\ y[2] \in Nat /\ y[3] \in Nat
      /\ z = <<z[1], z[2], z[3]>> /\ z[1] \in Nat /\ z[2] \in Nat /\ z[3] \in Nat
  OBVIOUS
<1>2. x # y => x[1] # y[1] \/ x[2] # y[2] \/ x[3] # y[3]
  BY <1>1
<1>3. ~ Before(x, x)
  BY <1>1 DEF Before
<1>4. x # y => Before(x, y) \/ Before(y, x)
  BY <1>1, <1>2 DEF Before
<1>5. Before(x, y) /\ Before(y, z) => Before(x, z)
  BY <1>1 DEF Before
<1> QED
  BY <1>3, <1>4, <1>5

Rank(places, x) == Cardinality({y \in places : Before(y, x)})

LEMMA RanksAreApart ==
  ASSUME NEW places \in SUBSET (Nat \X Nat \X Nat), IsFiniteSet(places)
  PROVE  /\ Cardinality(places) \in Nat
         /\ \A x \in places : Rank(places, x) \in 0..Cardinality(places) - 1
         /\ \A x, y \in places : Rank(places, x) = Rank(places, y) => x = y
<1> DEFINE Up(x) == {y \in places : Before(y, x)}
<1>0. Cardinality(places) \in Nat
  BY FS_CardinalityType
<1>1. \A x : IsFiniteSet(Up(x)) /\ Cardinality(Up(x)) \in Nat
  BY FS_Subset, FS_CardinalityType
<1>2. ASSUME NEW x \in places
      PROVE  Rank(places, x) \in 0..Cardinality(places) - 1
  <2>1. x \notin Up(x) /\ Up(x) \cup {x} \in SUBSET places
    BY PlacesAreOrdered
  <2>2. Cardinality(Up(x) \cup {x}) = Cardinality(Up(x)) + 1
    BY <1>1, <2>1, FS_AddElement
  <2>3. Cardinality(Up(x) \cup {x}) <= Cardinality(places)
    BY <2>1, FS_Subset
  <2>5. Rank(places, x) = Cardinality(Up(x))
    BY DEF Rank
  <2> HIDE DEF Up
  <2> QED
    BY <1>0, <1>1, <2>2, <2>3, <2>5
<1>3. ASSUME NEW x \in places, NEW y \in places, Before(x, y)
      PROVE  Rank(places, x) < Rank(places, y)
  <2>1. x \notin Up(x) /\ Up(x) \cup {x} \in SUBSET Up(y)
    BY <1>3, PlacesAreOrdered
  <2>2. Cardinality(Up(x) \cup {x}) = Cardinality(Up(x)) + 1
    BY <1>1, <2>1, FS_AddElement
  <2>3. Cardinality(Up(x) \cup {x}) <= Cardinality(Up(y))
    BY <1>1, <2>1, FS_Subset
  <2>4. Rank(places, x) = Cardinality(Up(x)) /\ Rank(places, y) = Cardinality(Up(y))
    BY DEF Rank
  <2> HIDE DEF Up
  <2> QED
    BY <1>1, <2>2, <2>3, <2>4
<1>4. ASSUME NEW x \in places, NEW y \in places, Rank(places, x) = Rank(places, y)
      PROVE  x = y
  <2>1. \A k \in Nat : ~ (k < k)
    OBVIOUS
  <2>2. Rank(places, x) \in Nat
    BY <1>1 DEF Rank
  <2> QED
    BY <1>3, <1>4, <2>1, <2>2, PlacesAreOrdered
<1> QED
  BY <1>0, <1>2, <1>4

LEMMA EveryRank ==
  ASSUME NEW places \in SUBSET (Nat \X Nat \X Nat), IsFiniteSet(places),
         NEW k \in 0..Cardinality(places) - 1
  PROVE  \E x \in places : Rank(places, x) = k
<1> DEFINE f == [x \in places |-> Rank(places, x)]
           T == 0..Cardinality(places) - 1
<1>1. IsFiniteSet(T) /\ Cardinality(T) = Cardinality(places)
  BY FS_CardinalityType, FS_Interval
<1>2. f \in Injection(places, T)
  BY RanksAreApart DEF Injection, IsInjective
<1>3. f \in Surjection(places, T)
  BY <1>1, <1>2, FS_Injection
<1>4. PICK x \in places : f[x] = k
  BY <1>3 DEF Surjection
<1> QED
  BY <1>4

(* What is put in order is what was found.                                 *)
LEMMA InOrderFinds ==
  ASSUME NEW found, IsFiniteSet(DOMAIN found), DOMAIN found \in SUBSET (Nat \X Nat \X Nat)
  PROVE  /\ \A n \in DOMAIN InOrder(found) : \E x \in DOMAIN found : InOrder(found)[n] = found[x]
         /\ \E n \in Nat : DOMAIN InOrder(found) = 1..n
         /\ \A S : (\A x \in DOMAIN found : found[x] \in S) => InOrder(found) \in Seq(S)
<1> DEFINE D == DOMAIN found
           c == Cardinality(D)
           Nth(n) == CHOOSE x \in D : Rank(D, x) = n - 1
<1>1. c \in Nat
  BY FS_CardinalityType
<1>2. InOrder(found) = [n \in 1..c |-> found[Nth(n)]]
  BY DEF InOrder, Rank
<1>3. ASSUME NEW n \in 1..c
      PROVE  Nth(n) \in D
  <2>1. n - 1 \in 0..c - 1
    BY <1>1
  <2>2. \E x \in D : Rank(D, x) = n - 1
    BY <2>1, EveryRank
  <2> QED
    BY <2>2
<1> HIDE DEF Nth, c
<1>4. ASSUME NEW S, \A x \in D : found[x] \in S
      PROVE  InOrder(found) \in Seq(S)
  <2>1. InOrder(found) \in [1..c -> S]
    BY <1>2, <1>3, <1>4
  <2> QED
    BY <1>1, <2>1
<1> QED
  BY <1>1, <1>2, <1>3, <1>4

(* Places that are finitely many in each component are finitely many.      *)
LEMMA FiniteBox ==
  ASSUME NEW A, NEW B, NEW C, IsFiniteSet(A), IsFiniteSet(B), IsFiniteSet(C)
  PROVE  IsFiniteSet(A \X B \X C)
<1> DEFINE P == (A \X B) \X C
           f == [x \in P |-> <<x[1][1], x[1][2], x[2]>>]
<1>1. IsFiniteSet(A \X B)
  BY FS_Product
<1>2. IsFiniteSet(P)
  BY <1>1, FS_Product
<1>3. f \in [P -> A \X B \X C]
  OBVIOUS
<1>4. ASSUME NEW y \in A \X B \X C
      PROVE  \E x \in P : f[x] = y
  <2>1. y = <<y[1], y[2], y[3]>> /\ y[1] \in A /\ y[2] \in B /\ y[3] \in C
    OBVIOUS
  <2>2. <<<<y[1], y[2]>>, y[3]>> \in P
    BY <2>1
  <2>3. f[<<<<y[1], y[2]>>, y[3]>>] = y
    BY <2>1, <2>2
  <2> QED
    BY <2>2, <2>3
<1>5. f \in Surjection(P, A \X B \X C)
  BY <1>3, <1>4 DEF Surjection
<1> QED
  BY <1>2, <1>5, FS_Surjection


LEMMA PlansAreItems ==
  ASSUME LookupInv, NEW s \in Seed, NEW provider, NEW strategy
  PROVE  /\ MaterialsFor(s, strategy) \in Seq(Material)
         /\ PlanItems(s, provider, strategy) \in Seq(Item)
<1> DEFINE at == {i \in DOMAIN Materials[s] : StrategyOf[Materials[s][i]] = strategy}
           found == [x \in at \X {0} \X {0} |-> Materials[s][x[1]]]
<1>1. Materials[s] \in Seq(Material)
  BY LookupAssumption
<1>2. Len(Materials[s]) \in Nat /\ DOMAIN Materials[s] = 1..Len(Materials[s])
  BY <1>1
<1>3. IsFiniteSet(DOMAIN Materials[s])
  BY <1>2, FS_Interval
<1>4. at \in SUBSET DOMAIN Materials[s] /\ at \in SUBSET Nat
  BY <1>2
<1>5. IsFiniteSet(at) /\ IsFiniteSet({0})
  BY <1>3, <1>4, FS_Subset, FS_Singleton
<1>6. DOMAIN found = at \X {0} \X {0}
  OBVIOUS
<1>7. IsFiniteSet(DOMAIN found)
  BY <1>5, <1>6, FiniteBox
<1>8. DOMAIN found \in SUBSET (Nat \X Nat \X Nat)
  BY <1>4, <1>6
<1>9. \A x \in DOMAIN found : found[x] \in Material
  <2>1. ASSUME NEW x \in at \X {0} \X {0}
        PROVE  Materials[s][x[1]] \in Material
    <3>1. x[1] \in at
      OBVIOUS
    <3>2. x[1] \in DOMAIN Materials[s]
      BY <1>4, <3>1
    <3> QED
      BY <1>1, <3>2
  <2> QED
    BY <2>1
<1>10. MaterialsFor(s, strategy) = InOrder(found)
  BY DEF MaterialsFor
<1> HIDE DEF found
<1>11. MaterialsFor(s, strategy) \in Seq(Material)
  BY <1>7, <1>8, <1>9, <1>10, InOrderFinds
<1>12. PlanItems(s, provider, strategy) \in Seq(Item)
  <2> DEFINE m == MaterialsFor(s, strategy)
  <2>1. origin[s] \in Origin
    BY DEF LookupInv
  <2>2. \A i \in DOMAIN m : m[i] \in Material
    BY <1>11
  <2>3. DOMAIN m = 1..Len(m) /\ Len(m) \in Nat
    BY <1>11
  <2> HIDE DEF m
  <2>4. [i \in DOMAIN m |-> [material |-> m[i], revision |-> origin[s]]] \in [1..Len(m) -> Item]
    BY <2>1, <2>2, <2>3 DEF Item
  <2>5. [i \in DOMAIN m |-> [material |-> m[i], revision |-> origin[s]]] \in Seq(Item)
    BY <2>3, <2>4
  <2>6. <<>> \in Seq(Item)
    OBVIOUS
  <2> QED
    BY <2>5, <2>6 DEF PlanItems, m
<1> QED
  BY <1>11, <1>12

(* What a new plan stands on.                                              *)
MayPlan(ans, rows, s, provider, limit, queue, pred, page) ==
    /\ s \in Seed /\ provider \in Provider /\ limit \in Nat \ {0}
    /\ queue \in Seq(Item) /\ pred \in Nat /\ page \in Page
    /\ pred = 0 => page = 1
    /\ pred # 0 => Len(queue) = 1 /\ MayResume(ans, rows, s, provider, queue, pred, page)

LEMMA NewWorkStands ==
  ASSUME NEW ans, NEW rows, NEW s, NEW provider, NEW limit, NEW queue, NEW pred, NEW page,
         MayPlan(ans, rows, s, provider, limit, queue, pred, page)
  PROVE  /\ NewWork(s, provider, limit, queue, pred, page) \in Work
         /\ NewWork(s, provider, limit, queue, pred, page).run = 0
         /\ WorkStands(ans, rows, "check", NewWork(s, provider, limit, queue, pred, page))
<1> DEFINE w == NewWork(s, provider, limit, queue, pred, page)
<1>1. w \in Work
  <2>1. <<>> \in Seq(Nat) /\ 0 \in Nat
    OBVIOUS
  <2> QED
    BY <2>1 DEF NewWork, Work, MayPlan
<1>2. /\ w.seed = s /\ w.provider = provider /\ w.limit = limit /\ w.queue = queue
      /\ w.pred = pred /\ w.run = 0 /\ w.page = page /\ w.ran = <<>> /\ w.sent = 0
  BY DEF NewWork
<1>3. w # None
  BY <1>1, LookupAssumption
<1> HIDE DEF w
<1>4. ASSUME pred # 0
      PROVE  Len(queue) <= 1
  <2>1. Len(queue) = 1
    BY <1>4 DEF MayPlan
  <2>2. \A k : k = 1 => k <= 1
    OBVIOUS
  <2> QED
    BY ONLY <2>1, <2>2
<1>5. Len(w.ran) # 1 /\ \A i \in DOMAIN w.ran : w.ran[i] \in DOMAIN rows
  BY <1>2
<1>6. WorkStands(ans, rows, "check", w)
  BY <1>2, <1>3, <1>4, <1>5 DEF WorkStands, MayPlan
<1> QED
  BY <1>1, <1>2, <1>6 DEF w

LEMMA IdleHasNone ==
  ASSUME LookupInv, NEW p \in Process, pc[p] \in {"idle", "plan", "step"}
  PROVE  work[p] = None /\ RunOf(p) = 0
BY InvocationFacts DEF WorkStands, RunOf

(* A plan that is begun.                                                   *)
LEMMA NewWorkKeeps ==
  ASSUME LookupInv, NEW p \in Process, pc[p] \in {"idle", "plan", "step"},
         NEW w \in Work, w.run = 0, WorkStands(answers, lookups, "check", w),
         work' = [work EXCEPT ![p] = w], Goto(p, "check"),
         UNCHANGED <<answers, origin, lookups>>
  PROVE  LookupsKept
<1>1. RunOf(p) = 0 /\ w # None /\ origin' \in [Seed -> Origin]
  BY IdleHasNone, InvocationFacts
<1>2. "check" \in Label /\ pc' = [pc EXCEPT ![p] = "check"]
  BY DEF Label, Goto
<1>3. RunOf(p) = IF w = None THEN 0 ELSE w.run
  BY <1>1
<1> QED
  BY <1>1, <1>2, <1>3, QuietStepKeeps

LEMMA LookUpKeeps ==
  ASSUME LookupInv, NEW p \in Process, NEW s \in Seed, NEW provider \in Provider,
         NEW strategy, NEW limit \in Budgets, LookUp(p, s, provider, strategy, limit)
  PROVE  LookupsKept
<1> DEFINE w == NewWork(s, provider, limit, PlanItems(s, provider, strategy), 0, 1)
<1>1. limit \in Nat \ {0} /\ 1 \in Page /\ PlanItems(s, provider, strategy) \in Seq(Item)
  BY PlansAreItems, LookupAssumption DEF Page
<1>2. w \in Work /\ w.run = 0 /\ WorkStands(answers, lookups, "check", w)
  <2>1. MayPlan(answers, lookups, s, provider, limit, PlanItems(s, provider, strategy), 0, 1)
    BY <1>1 DEF MayPlan
  <2> QED
    BY <2>1, NewWorkStands
<1>3. /\ pc[p] = "idle" /\ Goto(p, "check") /\ UNCHANGED <<answers, origin, lookups>>
      /\ work' = [work EXCEPT ![p] = w]
  BY DEF LookUp, At
<1> HIDE DEF w
<1> QED
  BY <1>2, <1>3, NewWorkKeeps

LEMMA ResumeKeeps ==
  ASSUME LookupInv, NEW p \in Process, NEW r \in DOMAIN lookups, NEW limit \in Budgets,
         Resume(p, r, limit)
  PROVE  LookupsKept
<1> DEFINE row == lookups[r]
           item == [material |-> row.material, revision |-> origin[row.seed]]
           page == IF row.checkpoint = None THEN 1 ELSE row.checkpoint
           w == NewWork(row.seed, row.provider, limit, <<item>>, r, page)
<1>1. row \in Lookup /\ RowStands(answers, lookups, r) /\ r \in Nat /\ r # 0
  BY DEF LookupInv, RowsStand
<1>2. /\ row.seed \in Seed /\ row.provider \in Provider /\ row.material \in Material
      /\ row.checkpoint \in Page \cup {None}
  BY <1>1 DEF Lookup
<1>3. row.status = "paused" /\ row.revision = origin[row.seed]
  BY DEF Resume, Compatible
<1>4. item \in Item
  BY <1>2 DEF LookupInv, Item
<1>5. <<item>> \in Seq(Item) /\ Len(<<item>>) = 1 /\ Head(<<item>>) = item
  BY <1>4
<1>6. item.material = row.material /\ item.revision = row.revision
  BY <1>3
<1>7. page \in Page /\ limit \in Nat \ {0}
  BY <1>2, LookupAssumption DEF Page
<1> HIDE DEF item
<1>8. HasPages(answers, lookups, r, page)
  <2>1. Asks(row) \in Asked
    BY <1>2 DEF Asks, Asked
  <2>2. answers[Asks(row)] \in Seq(SUBSET Post) \ {<<>>}
    BY <2>1, LookupAssumption DEF LookupInv
  <2>3. 1 \in DOMAIN answers[Asks(row)] /\ DOMAIN answers[Asks(row)] \subseteq Nat \ {0}
    BY <2>2
  <2>4. HasPages(answers, lookups, r, 1)
    BY <2>3 DEF HasPages
  <2> QED
    BY <1>1, <2>4 DEF RowStands
<1>9. MayResume(answers, lookups, row.seed, row.provider, <<item>>, r, page)
  BY <1>3, <1>5, <1>6, <1>8 DEF MayResume
<1>10. /\ pc[p] = "idle" /\ Goto(p, "check") /\ UNCHANGED <<answers, origin, lookups>>
       /\ work' = [work EXCEPT ![p] = w]
  BY DEF Resume, At, item
<1>11. w \in Work /\ w.run = 0 /\ WorkStands(answers, lookups, "check", w)
  <2> DEFINE queue == <<item>>
             s == row.seed
             provider == row.provider
  <2>1. /\ s \in Seed /\ provider \in Provider /\ queue \in Seq(Item)
        /\ page \in Page /\ limit \in Nat \ {0} /\ r \in Nat
    BY <1>1, <1>2, <1>5, <1>7
  <2>2. r # 0 /\ Len(queue) = 1 /\ MayResume(answers, lookups, s, provider, queue, r, page)
    BY <1>1, <1>5, <1>9
  <2> HIDE DEF s, provider, queue, page
  <2>3. MayPlan(answers, lookups, s, provider, limit, queue, r, page)
    BY <2>1, <2>2 DEF MayPlan
  <2>4. w = NewWork(s, provider, limit, queue, r, page)
    BY DEF s, provider, queue
  <2> HIDE DEF w
  <2> QED
    BY <2>3, <2>4, NewWorkStands
<1> HIDE DEF w
<1> QED
  BY <1>10, <1>11, NewWorkKeeps


-----------------------------------------------------------------------------
(* Execution *)

LEMMA WorkAt ==
  ASSUME LookupInv, NEW p \in Process, pc[p] \in {"check", "begin", "ask", "commit", "finish", "returned"}
  PROVE  /\ work[p] \in Work /\ work[p] # None /\ RunOf(p) = work[p].run
         /\ WorkStands(answers, lookups, pc[p], work[p])
<1>1. work[p] # None
  BY InvocationFacts DEF WorkStands
<1> QED
  BY <1>1, InvocationFacts DEF RunOf

Unwound(w, unwinds) == [w EXCEPT !.unwinds = unwinds]

LEMMA UnwoundStands ==
  ASSUME NEW ans, NEW rows, NEW w \in Work, WorkStands(ans, rows, "check", w),
         NEW unwinds \in {"no", "raise", "exit"}
  PROVE  /\ Unwound(w, unwinds) \in Work /\ Unwound(w, unwinds).run = w.run
         /\ WorkStands(ans, rows, "returned", Unwound(w, unwinds))
<1> DEFINE v == Unwound(w, unwinds)
<1>1. v \in Work
  BY DEF Work, Unwound
<1>2. /\ v.seed = w.seed /\ v.provider = w.provider /\ v.limit = w.limit /\ v.queue = w.queue
      /\ v.pred = w.pred /\ v.run = w.run /\ v.page = w.page /\ v.ran = w.ran /\ v.sent = w.sent
      /\ v.ending = w.ending
  BY DEF Work, Unwound
<1>3. v # None /\ w # None
  BY <1>1, LookupAssumption
<1> HIDE DEF v
<1>4. WorkStands(ans, rows, "returned", v)
  BY <1>2, <1>3 DEF WorkStands
<1> QED
  BY <1>1, <1>2, <1>4 DEF v

LEMMA CheckKeeps ==
  ASSUME LookupInv, NEW p \in Process, Check(p)
  PROVE  LookupsKept
<1>1. pc[p] = "check" /\ UNCHANGED <<answers, origin, lookups>>
  BY DEF Check, At
<1>2. /\ work[p] \in Work /\ work[p] # None /\ RunOf(p) = work[p].run
      /\ WorkStands(answers, lookups, "check", work[p])
  BY <1>1, WorkAt
<1>3. origin' \in [Seed -> Origin] /\ "begin" \in Label /\ "returned" \in Label
  BY <1>1, InvocationFacts DEF Label
<1>4. ASSUME NEW unwinds \in {"no", "raise", "exit"}, Return(p, unwinds)
      PROVE  LookupsKept
  <2> DEFINE w == Unwound(work[p], unwinds)
  <2>1. /\ w \in Work /\ w.run = work[p].run /\ WorkStands(answers, lookups, "returned", w)
    BY <1>2, UnwoundStands
  <2>2. work' = [work EXCEPT ![p] = w] /\ pc' = [pc EXCEPT ![p] = "returned"]
    BY <1>2, <1>4, InvocationFacts DEF Return, Goto, Unwound
  <2>3. RunOf(p) = IF w = None THEN 0 ELSE w.run
    BY <1>2, <2>1, LookupAssumption
  <2> HIDE DEF w
  <2> QED
    BY <1>1, <1>3, <2>1, <2>2, <2>3, QuietStepKeeps
<1>5. CASE work[p].queue # <<>> /\ Goto(p, "begin") /\ UNCHANGED work
  <2>1. WorkStands(answers, lookups, "begin", work[p])
    BY <1>2, <1>5 DEF WorkStands
  <2>2. work' = [work EXCEPT ![p] = work[p]] /\ pc' = [pc EXCEPT ![p] = "begin"]
    BY <1>5, InvocationFacts DEF Goto
  <2>3. RunOf(p) = IF work[p] = None THEN 0 ELSE work[p].run
    BY DEF RunOf
  <2> QED
    BY <1>1, <1>2, <1>3, <2>1, <2>2, <2>3, QuietStepKeeps
<1> QED
  BY <1>4, <1>5 DEF Check

LEMMA DoneKeeps ==
  ASSUME LookupInv, NEW p \in Process, NEW label \in {"idle", "step"},
         pc[p] \in {"plan", "step", "returned"}, Goto(p, label), work' = [work EXCEPT ![p] = None],
         UNCHANGED <<answers, lookups>>, origin' \in [Seed -> Origin]
  PROVE  LookupsKept
<1>1. RunOf(p) = 0
  BY InvocationFacts DEF WorkStands, RunOf
<1>2. WorkStands(answers, lookups, label, None)
  BY DEF WorkStands
<1>3. label \in Label /\ pc' = [pc EXCEPT ![p] = label]
  BY DEF Label, Goto
<1> QED
  BY <1>1, <1>2, <1>3, QuietStepKeeps

(* A row that is written with the same question and results stands.        *)
SameAnswers(row, old) ==
    /\ row.seed = old.seed /\ row.provider = old.provider /\ row.material = old.material
    /\ row.revision = old.revision /\ row.pred = old.pred /\ row.results = old.results
    /\ row.checkpoint = old.checkpoint

LEMMA RowTouched ==
  ASSUME NEW ans, NEW rows, RowsStand(ans, rows), NEW run \in DOMAIN rows,
         rows[run].status = "running", NEW row \in Lookup, SameAnswers(row, rows[run]),
         row.status = "complete" => HitsTo(ans, Asks(row)) \subseteq CollectedOf(rows, run)
  PROVE  LET new == [rows EXCEPT ![run] = row] IN
         /\ OneRunChanges(rows, new, run) /\ RowStands(ans, new, run)
         /\ CollectedOf(new, run) = CollectedOf(rows, run)
         /\ Asks(new[run]) = Asks(rows[run])
         /\ \A k : HasPages(ans, rows, run, k) => HasPages(ans, new, run, k)
<1> DEFINE new == [rows EXCEPT ![run] = row]
<1>0. rows \in Seq(Lookup) /\ RowStands(ans, rows, run) /\ \A x \in DOMAIN rows : PredStands(rows, x)
  BY DEF RowsStand, RowStands
<1>1. /\ new \in Seq(Lookup) /\ DOMAIN new = DOMAIN rows /\ new[run] = row
      /\ \A r \in DOMAIN rows : r # run => new[r] = rows[r]
  BY <1>0
<1> HIDE DEF new
<1>2. Asks(row) = Asks(rows[run])
  BY DEF SameAnswers, Asks
<1>3. OneRunChanges(rows, new, run)
  BY <1>0, <1>1, <1>2 DEF OneRunChanges, SameAnswers
<1>4. PredStands(new, run)
  <2>1. PredStands(rows, run)
    BY <1>0
  <2> SUFFICES ASSUME row.pred # 0
               PROVE  PredStands(new, run)
    BY <1>1 DEF PredStands
  <2> DEFINE q == row.pred
  <2>2. q \in DOMAIN rows /\ GoesOnWith(rows[run], rows[q])
    BY <2>1 DEF PredStands, SameAnswers
  <2>3. q # run
    BY <2>2 DEF GoesOnWith
  <2>4. new[q] = rows[q]
    BY <1>1, <2>2, <2>3
  <2> QED
    BY <1>1, <2>2, <2>4 DEF PredStands, GoesOnWith, SameAnswers
<1>5. CollectedOf(new, run) =
         row.results \cup (IF row.pred = 0 THEN {} ELSE CollectedOf(rows, row.pred))
  BY <1>0, <1>1, <1>3, <1>4, RunCollects
<1>6. CollectedOf(rows, run) =
         row.results \cup (IF row.pred = 0 THEN {} ELSE CollectedOf(rows, row.pred))
  <2>1. OneRunChanges(rows, rows, run)
    BY <1>0 DEF OneRunChanges
  <2>2. PredStands(rows, run)
    BY <1>0
  <2>3. CollectedOf(rows, run) =
           rows[run].results \cup
              (IF rows[run].pred = 0 THEN {} ELSE CollectedOf(rows, rows[run].pred))
    BY <1>0, <2>1, <2>2, RunCollects
  <2> QED
    BY <2>3 DEF SameAnswers
<1>7. CollectedOf(new, run) = CollectedOf(rows, run)
  BY <1>5, <1>6
<1>8. \A k : HasPages(ans, rows, run, k) => HasPages(ans, new, run, k)
  BY <1>1, <1>2, <1>7 DEF HasPages
<1>9. RowStands(ans, new, run)
  BY <1>0, <1>1, <1>2, <1>4, <1>7, <1>8 DEF RowStands, SameAnswers
<1>10. Asks(new[run]) = Asks(rows[run])
  BY <1>1, <1>2
<1> QED
  BY <1>3, <1>7, <1>8, <1>9, <1>10 DEF new


(* A run that is begun.                                                    *)
BegunRow(w) ==
    [seed |-> w.seed, provider |-> w.provider, material |-> Head(w.queue).material,
     revision |-> Head(w.queue).revision, pred |-> w.pred, status |-> "running", pages |-> 0,
     checkpoint |-> None, results |-> {}, requests |-> 0, asked |-> 0, killed |-> FALSE]

Begun(w, run) == [w EXCEPT !.run = run]

LEMMA BegunStands ==
  ASSUME NEW ans \in Answers, NEW rows, RowsStand(ans, rows), NEW w \in Work,
         WorkStands(ans, rows, "begin", w), NEW run, run = Len(rows) + 1
  PROVE  LET new == Append(rows, BegunRow(w)) IN
         /\ OneRunChanges(rows, new, run) /\ RowStands(ans, new, run)
         /\ Begun(w, run) \in Work /\ Begun(w, run).run = run
         /\ WorkStands(ans, new, "ask", Begun(w, run))
<1> DEFINE row == BegunRow(w)
           new == Append(rows, row)
           v == Begun(w, run)
           item == Head(w.queue)
<1>0. /\ rows \in Seq(Lookup) /\ \A x \in DOMAIN rows : PredStands(rows, x)
      /\ run \in Nat \ {0} /\ run \notin DOMAIN rows
  BY DEF RowsStand, RowStands
<1>1. /\ w # None /\ w.queue \in Seq(Item) /\ w.queue # <<>> /\ w.run = 0
      /\ w.seed \in Seed /\ w.provider \in Provider /\ w.pred \in Nat /\ w.limit \in Nat \ {0}
      /\ w.ran \in Seq(Nat)
  BY LookupAssumption DEF WorkStands, Work
<1>2. item \in Item
  BY <1>1
<1>3. item.material \in Material /\ item.revision \in Origin
  BY <1>2 DEF Item
<1> HIDE DEF item
<1>4. row \in Lookup
  BY <1>1, <1>3 DEF BegunRow, Lookup, Status, item
<1>5. /\ row.seed = w.seed /\ row.provider = w.provider /\ row.material = item.material
      /\ row.revision = item.revision /\ row.pred = w.pred /\ row.status = "running"
      /\ row.checkpoint = None /\ row.results = {} /\ row.asked = 0
  BY DEF BegunRow, item
<1>6. Asks(row) = <<w.provider, item.material>>
  BY <1>5 DEF Asks
<1> HIDE DEF row
<1>7. /\ new \in Seq(Lookup) /\ DOMAIN new = DOMAIN rows \cup {run} /\ new[run] = row
      /\ \A r \in DOMAIN rows : new[r] = rows[r]
  BY <1>0, <1>4
<1> HIDE DEF new
<1>8. w.pred # 0 => /\ w.pred \in DOMAIN rows /\ rows[w.pred].status = "paused"
                    /\ <<w.seed, w.provider, item.material, item.revision>> =
                          <<rows[w.pred].seed, rows[w.pred].provider,
                            rows[w.pred].material, rows[w.pred].revision>>
                    /\ HasPages(ans, rows, w.pred, w.page)
  BY <1>1 DEF WorkStands, MayResume, item
<1>9. OneRunChanges(rows, new, run)
  BY <1>0, <1>5, <1>7, <1>8 DEF OneRunChanges
<1>10. PredStands(new, run)
  BY <1>5, <1>7, <1>8 DEF PredStands, GoesOnWith
<1>11. CollectedOf(new, run) = IF w.pred = 0 THEN {} ELSE CollectedOf(rows, w.pred)
  <2>1. run \in DOMAIN new
    BY <1>7
  <2>2. CollectedOf(new, run) =
           new[run].results \cup
              (IF new[run].pred = 0 THEN {} ELSE CollectedOf(rows, new[run].pred))
    BY <1>0, <1>9, <1>10, <2>1, RunCollects
  <2> QED
    BY <1>5, <1>7, <2>2
<1>12. w.pred # 0 => Asks(rows[w.pred]) = Asks(row)
  BY <1>6, <1>8 DEF Asks
<1>13. CollectedOf(new, run) \subseteq HitsTo(ans, Asks(row))
  <2>1. w.pred # 0 => CollectedOf(rows, w.pred) \subseteq HitsTo(ans, Asks(row))
    BY <1>8, <1>12 DEF RowsStand, RowStands
  <2> QED
    BY <1>11, <2>1
<1>14. RowStands(ans, new, run)
  BY <1>5, <1>7, <1>10, <1>13 DEF RowStands
<1>15. Asks(row) \in Asked
  BY <1>1, <1>3, <1>6 DEF Asked
<1>16. HasPages(ans, new, run, w.page)
  <2>1. CASE w.pred = 0
    <3>1. w.page = 1
      BY <1>1, <2>1 DEF WorkStands
    <3>2. ans[Asks(row)] \in Seq(SUBSET Post) \ {<<>>}
      BY <1>15, LookupAssumption
    <3>3. 1 \in DOMAIN ans[Asks(row)] /\ DOMAIN ans[Asks(row)] \subseteq Nat \ {0}
      BY <3>2
    <3> QED
      BY <1>7, <3>1, <3>3 DEF HasPages
  <2>2. CASE w.pred # 0
    BY <1>7, <1>8, <1>11, <1>12, <2>2 DEF HasPages
  <2> QED
    BY <2>1, <2>2
<1>17. v \in Work
  BY <1>0 DEF Begun, Work
<1>18. /\ v.seed = w.seed /\ v.provider = w.provider /\ v.limit = w.limit /\ v.queue = w.queue
       /\ v.pred = w.pred /\ v.run = run /\ v.page = w.page /\ v.ran = w.ran /\ v.sent = w.sent
  BY DEF Begun, Work
<1> HIDE DEF v
<1>19. v # None
  BY <1>17, LookupAssumption
<1>20. /\ v.queue # <<>> /\ (v.pred # 0 => Len(v.queue) <= 1)
       /\ \A i \in DOMAIN v.ran : v.ran[i] \in DOMAIN new
       /\ v.ran = <<>> => v.sent = 0
       /\ Len(v.ran) = 1 => v.sent <= v.limit
  BY <1>1, <1>7, <1>18 DEF WorkStands
<1>21. /\ new[v.run].status = "running"
       /\ Asks(new[v.run]) = <<v.provider, Head(v.queue).material>>
       /\ new[v.run].asked <= v.limit
  BY <1>1, <1>5, <1>6, <1>7, <1>18 DEF item
<1>22. WorkStands(ans, new, "ask", v)
  BY <1>0, <1>7, <1>16, <1>18, <1>19, <1>20, <1>21 DEF WorkStands
<1> QED
  BY <1>9, <1>14, <1>17, <1>18, <1>22 DEF new, row, v

LEMMA BeginKeeps ==
  ASSUME LookupInv, NEW p \in Process, Begin(p)
  PROVE  LookupsKept
<1> DEFINE run == Len(lookups) + 1
           w == Begun(work[p], run)
<1>0. pc[p] = "begin"
  BY DEF Begin, At
<1>1. /\ work[p] \in Work /\ work[p] # None /\ RunOf(p) = work[p].run
      /\ WorkStands(answers, lookups, "begin", work[p])
  BY <1>0, WorkAt
<1>2. /\ RowsStand(answers, lookups) /\ lookups \in Seq(Lookup) /\ answers \in Answers
      /\ origin \in [Seed -> Origin] /\ work \in [Process -> Work \cup {None}]
  BY InvocationFacts
<1>3. /\ lookups' = Append(lookups, BegunRow(work[p])) /\ work' = [work EXCEPT ![p] = w]
      /\ pc' = [pc EXCEPT ![p] = "ask"] /\ UNCHANGED <<answers, origin>>
  BY <1>1, <1>2 DEF Begin, BegunRow, Begun, Goto
<1>4. /\ OneRunChanges(lookups, lookups', run) /\ RowStands(answers, lookups', run)
      /\ w \in Work /\ w.run = run /\ WorkStands(answers, lookups', "ask", w)
  BY <1>1, <1>2, <1>3, BegunStands
<1>5. \A q \in Process : q # p /\ work[q] # None => work[q].run = 0 \/ work[q].run # run
  <2>1. run \notin DOMAIN lookups
    BY <1>2
  <2>2. \A q \in Process : work[q] # None => work[q].run = 0 \/ work[q].run \in DOMAIN lookups
    BY DEF LookupInv, WorkStands
  <2> QED
    BY <2>1, <2>2
<1>6. work[p].run = 0 /\ w # None /\ "ask" \in Label
  BY <1>1, <1>4, LookupAssumption DEF WorkStands, Label
<1> HIDE DEF w, run
<1>7. LeavesNone(lookups', w, run)
  BY <1>4, <1>6 DEF LeavesNone
<1>8. StepOf(p, "ask", w, run)
  BY <1>2, <1>3, <1>4, <1>5, <1>6, <1>7 DEF StepOf
<1> QED
  BY <1>8, StepKeeps


(* A step that writes the row of its run, but neither question nor results.*)
LEMMA TouchKeeps ==
  ASSUME LookupInv, NEW p \in Process, RunOf(p) # 0,
         NEW row \in Lookup, SameAnswers(row, lookups[RunOf(p)]),
         row.status = "complete" =>
            HitsTo(answers, Asks(row)) \subseteq CollectedOf(lookups, RunOf(p)),
         lookups' = [lookups EXCEPT ![RunOf(p)] = row], UNCHANGED <<answers, origin>>,
         NEW label \in Label, NEW w \in Work \cup {None},
         pc' = [pc EXCEPT ![p] = label], work' = [work EXCEPT ![p] = w],
         WorkStands(answers, lookups', label, w),
         w # None => w.run \in {0, RunOf(p)},
         row.status = "running" => row.killed \/ (w # None /\ w.run = RunOf(p))
  PROVE  LookupsKept
<1> DEFINE run == RunOf(p)
<1>1. /\ run \in DOMAIN lookups /\ lookups[run].status = "running"
      /\ RowsStand(answers, lookups) /\ lookups \in Seq(Lookup) /\ origin \in [Seed -> Origin]
      /\ \A q \in Process : q # p /\ work[q] # None => work[q].run = 0 \/ work[q].run # run
  BY InvocationFacts
<1>2. OneRunChanges(lookups, lookups', run) /\ RowStands(answers, lookups', run)
  BY <1>1, RowTouched
<1>3. work[p] # None => work[p].run \in {0, run}
  BY DEF RunOf
<1>4. LeavesNone(lookups', w, run)
  BY <1>1 DEF LeavesNone
<1> HIDE DEF run
<1>5. StepOf(p, label, w, run)
  BY <1>1, <1>2, <1>3, <1>4 DEF StepOf, run
<1> QED
  BY <1>5, StepKeeps

(* The row of an invocation that is at its run.                            *)
LEMMA RunAt ==
  ASSUME LookupInv, NEW p \in Process, pc[p] \in {"ask", "commit", "finish"}
  PROVE  /\ work[p] \in Work /\ work[p] # None /\ RunOf(p) = work[p].run /\ RunOf(p) # 0
         /\ WorkStands(answers, lookups, pc[p], work[p])
         /\ RunOf(p) \in DOMAIN lookups /\ lookups[RunOf(p)] \in Lookup
         /\ lookups[RunOf(p)].status = "running"
         /\ RowsStand(answers, lookups) /\ lookups \in Seq(Lookup)
         /\ work \in [Process -> Work \cup {None}] /\ pc \in [Process -> Label]
         /\ origin \in [Seed -> Origin]
<1>1. work[p] \in Work /\ work[p] # None /\ RunOf(p) = work[p].run
  BY WorkAt
<1>2. WorkStands(answers, lookups, pc[p], work[p])
  BY InvocationFacts
<1>3. RunOf(p) # 0
  BY <1>1, <1>2 DEF WorkStands
<1>4. RunOf(p) \in DOMAIN lookups /\ lookups[RunOf(p)].status = "running"
  BY <1>3, InvocationFacts
<1>5. lookups \in Seq(Lookup)
  BY InvocationFacts
<1>6. lookups[RunOf(p)] \in Lookup
  BY <1>4, <1>5
<1> QED
  BY <1>1, <1>2, <1>3, <1>4, <1>5, <1>6, InvocationFacts

AskedRow(row) == [row EXCEPT !.asked = @ + 1]

LEMMA AskKeeps ==
  ASSUME LookupInv, NEW p \in Process, Ask(p)
  PROVE  LookupsKept
<1> DEFINE run == RunOf(p)
           row == AskedRow(lookups[run])
           w == work[p]
<1>0. pc[p] = "ask"
  BY DEF Ask, At
<1>1. /\ w \in Work /\ w # None /\ run = w.run /\ run # 0
      /\ WorkStands(answers, lookups, "ask", w)
      /\ run \in DOMAIN lookups /\ lookups[run] \in Lookup /\ lookups[run].status = "running"
      /\ RowsStand(answers, lookups) /\ lookups \in Seq(Lookup)
      /\ work \in [Process -> Work \cup {None}] /\ pc \in [Process -> Label]
      /\ origin \in [Seed -> Origin]
  BY <1>0, RunAt
<1>2. lookups' = [lookups EXCEPT ![run] = row] /\ UNCHANGED <<answers, origin>>
  BY <1>1 DEF Ask, AskedRow
<1>3. /\ row \in Lookup /\ SameAnswers(row, lookups[run]) /\ row.status = "running"
      /\ row.asked = lookups[run].asked + 1
  <2>1. PICK old \in Lookup : old = lookups[run]
    BY <1>1
  <2>2. row = AskedRow(old)
    BY <2>1
  <2>3. row \in Lookup /\ row.asked = old.asked + 1 /\ row.status = old.status
    BY <2>2 DEF AskedRow, Lookup
  <2>4. SameAnswers(row, old)
    BY <2>2 DEF AskedRow, Lookup, SameAnswers
  <2> QED
    BY <1>1, <2>1, <2>3, <2>4
<1>4. row.asked <= w.limit
  <2>1. lookups[run].asked \in Nat /\ w.limit \in Nat
    BY <1>1 DEF Lookup, Work
  <2>2. ~ (lookups[run].asked >= w.limit)
    BY <1>1 DEF Ask, RequestsSpent
  <2> QED
    BY <1>3, <2>1, <2>2
<1> HIDE DEF row, run
<1>5. /\ Asks(lookups'[run]) = Asks(lookups[run]) /\ lookups'[run] = row
      /\ \A k : HasPages(answers, lookups, run, k) => HasPages(answers, lookups', run, k)
      /\ DOMAIN lookups' = DOMAIN lookups
  BY <1>1, <1>2, <1>3, RowTouched
<1>6. WorkStands(answers, lookups', "commit", w)
  BY <1>1, <1>3, <1>4, <1>5 DEF WorkStands
<1>7. CASE Goto(p, "commit") /\ UNCHANGED work
  <2>1. /\ "commit" \in Label /\ pc' = [pc EXCEPT ![p] = "commit"] /\ work' = [work EXCEPT ![p] = w]
        /\ w \in Work \cup {None} /\ w.run \in {0, run}
    BY <1>1, <1>7 DEF Label, Goto
  <2> HIDE DEF w
  <2> QED
    BY <1>1, <1>2, <1>3, <1>6, <2>1, TouchKeeps DEF run
<1>8. ASSUME NEW status \in {"paused", "failed"}, Ending(p, status, "no")
      PROVE  LookupsKept
  <2> DEFINE v == Ended(w, status, "no")
  <2>1. /\ status \in {"complete", "paused", "failed"} /\ "no" \in {"no", "raise", "exit"}
        /\ None \notin Work /\ "commit" \in {"ask", "commit"}
    BY LookupAssumption
  <2>2. status = "complete" =>
           HitsTo(answers, Asks(lookups'[w.run])) \subseteq CollectedOf(lookups', w.run)
    OBVIOUS
  <2>3. v \in Work /\ v.run = w.run /\ WorkStands(answers, lookups', "finish", v)
    <3>1. w \in Work
      BY <1>1
    <3> HIDE DEF w, v
    <3> QED
      BY ONLY <1>6, <2>1, <2>2, <3>1, EndingStands DEF v
  <2>4. work' = [work EXCEPT ![p] = v] /\ pc' = [pc EXCEPT ![p] = "finish"] /\ "finish" \in Label
    BY <1>1, <1>8 DEF Ending, Goto, Ended, Label
  <2>5. v \in Work \cup {None} /\ v # None /\ v.run = run
    BY <1>1, <2>1, <2>3
  <2> HIDE DEF w, v
  <2> QED
    BY <1>1, <1>2, <1>3, <2>3, <2>4, <2>5, TouchKeeps DEF run
<1> QED
  BY <1>7, <1>8 DEF Ask


FinishedRow(row, status) == [row EXCEPT !.status = status, !.requests = row.asked]

Passed(w, asked) ==
    [w EXCEPT !.queue = Tail(@), !.ran = Append(@, w.run), !.sent = @ + asked,
              !.run = 0, !.page = 1, !.pages = 0, !.ending = None]

LEMMA PassedStands ==
  ASSUME NEW ans, NEW rows, NEW new, DOMAIN new = DOMAIN rows, NEW w \in Work,
         WorkStands(ans, rows, "finish", w), rows[w.run].asked \in Nat,
         NEW label \in {"check", "returned"}
  PROVE  /\ Passed(w, rows[w.run].asked) \in Work
         /\ Passed(w, rows[w.run].asked).run = 0
         /\ WorkStands(ans, new, label, Passed(w, rows[w.run].asked))
<1> DEFINE asked == rows[w.run].asked
           v == Passed(w, asked)
<1>1. /\ w # None /\ w.queue \in Seq(Item) /\ w.queue # <<>> /\ w.run \in Nat
      /\ w.ran \in Seq(Nat) /\ w.sent \in Nat /\ w.limit \in Nat
  BY LookupAssumption DEF WorkStands, Work
<1>2. w.run \in DOMAIN rows /\ asked <= w.limit /\ (w.pred # 0 => Len(w.queue) <= 1)
  BY <1>1 DEF WorkStands
<1>3. /\ Tail(w.queue) \in Seq(Item) /\ Len(w.queue) \in Nat
      /\ Len(w.queue) <= 1 => Tail(w.queue) = <<>>
  <2>1. Tail(w.queue) \in Seq(Item) /\ Len(w.queue) \in Nat
    BY <1>1
  <2>2. Len(Tail(w.queue)) = Len(w.queue) - 1
    BY <1>1
  <2>3. Len(w.queue) # 0 /\ Len(Tail(w.queue)) \in Nat
    BY <1>1, <2>1
  <2>4. Len(w.queue) <= 1 => Len(Tail(w.queue)) = 0
    <3>1. \A n, m \in Nat : n <= 1 /\ n # 0 /\ m = n - 1 => m = 0
      OBVIOUS
    <3> QED
      BY ONLY <2>1, <2>2, <2>3, <3>1
  <2> QED
    BY <2>1, <2>4
<1>4. /\ Append(w.ran, w.run) \in Seq(Nat) /\ Len(Append(w.ran, w.run)) = Len(w.ran) + 1
      /\ \A i \in DOMAIN Append(w.ran, w.run) : Append(w.ran, w.run)[i] \in DOMAIN rows
  <2>1. \A i \in DOMAIN w.ran : w.ran[i] \in DOMAIN rows
    BY <1>1 DEF WorkStands
  <2> QED
    BY <1>1, <1>2, <2>1
<1>5. v \in Work
  <2>1. w.sent + asked \in Nat
    BY <1>1
  <2>2. PICK queue \in Seq(Item) : queue = Tail(w.queue)
    BY <1>3
  <2>3. PICK ran \in Seq(Nat) : ran = Append(w.ran, w.run)
    BY <1>4
  <2>4. PICK sent \in Nat : sent = w.sent + asked
    BY <2>1
  <2>5. v = [seed |-> w.seed, provider |-> w.provider, limit |-> w.limit, queue |-> queue,
             pred |-> w.pred, run |-> 0, page |-> 1, pages |-> 0, ending |-> None,
             unwinds |-> w.unwinds, ran |-> ran, sent |-> sent]
    <3>1. v = [w EXCEPT !.queue = queue, !.ran = ran, !.sent = sent,
                        !.run = 0, !.page = 1, !.pages = 0, !.ending = None]
      <4>1. Passed(w, asked) = [w EXCEPT !.queue = Tail(w.queue), !.ran = Append(w.ran, w.run),
                                            !.sent = w.sent + asked, !.run = 0, !.page = 1,
                                            !.pages = 0, !.ending = None]
        BY DEF Passed, Work
      <4> QED
        BY <2>2, <2>3, <2>4, <4>1
    <3>2. w = [seed |-> w.seed, provider |-> w.provider, limit |-> w.limit, queue |-> w.queue,
               pred |-> w.pred, run |-> w.run, page |-> w.page, pages |-> w.pages,
               ending |-> w.ending, unwinds |-> w.unwinds, ran |-> w.ran, sent |-> w.sent]
      BY DEF Work
    <3> HIDE DEF v
    <3> QED
      BY <3>1, <3>2
  <2>6. /\ w.seed \in Seed /\ w.provider \in Provider /\ w.limit \in Nat \ {0}
        /\ w.pred \in Nat /\ w.unwinds \in {"no", "raise", "exit"} /\ 1 \in Page
    BY DEF Work, Page
  <2> HIDE DEF v
  <2> QED
    BY <2>5, <2>6 DEF Work
<1>6. /\ v.seed = w.seed /\ v.provider = w.provider /\ v.limit = w.limit
      /\ v.queue = Tail(w.queue) /\ v.pred = w.pred /\ v.run = 0 /\ v.page = 1
      /\ v.ran = Append(w.ran, w.run) /\ v.sent = w.sent + asked
  BY DEF Passed, Work
<1> HIDE DEF v
<1>7. v # None
  BY <1>5, LookupAssumption
<1>8. v.pred # 0 => v.queue = <<>> /\ Len(v.queue) <= 1
  <2>1. Len(<<>>) <= 1
    OBVIOUS
  <2> QED
    BY <1>2, <1>3, <1>6, <2>1
<1>9. /\ v.ran # <<>>
      /\ Len(v.ran) = 1 => v.sent <= v.limit
  <2>1. v.ran # <<>>
    BY <1>1, <1>4, <1>6
  <2>2. ASSUME Len(v.ran) = 1
        PROVE  v.sent <= v.limit
    <3>1. Len(w.ran) = 0
      BY <1>1, <1>4, <1>6, <2>2
    <3>2. w.ran = <<>>
      BY <1>1, <3>1
    <3>3. w.sent = 0
      BY <1>1, <3>2 DEF WorkStands
    <3> QED
      BY <1>1, <1>2, <1>6, <3>3
  <2> QED
    BY <2>1, <2>2
<1>10. WorkStands(ans, new, label, v)
  BY <1>4, <1>6, <1>7, <1>8, <1>9 DEF WorkStands
<1> QED
  BY <1>5, <1>6, <1>10 DEF v

LEMMA FinishKeeps ==
  ASSUME LookupInv, NEW p \in Process, Finish(p)
  PROVE  LookupsKept
<1> DEFINE run == RunOf(p)
           old == lookups[run]
           w == work[p]
           row == FinishedRow(old, w.ending)
           v == Passed(w, lookups[w.run].asked)
           label == IF w.unwinds = "no" THEN "check" ELSE "returned"
<1>0. pc[p] = "finish"
  BY DEF Finish, At
<1>1. /\ w \in Work /\ w # None /\ run = w.run /\ run # 0
      /\ WorkStands(answers, lookups, "finish", w)
      /\ run \in DOMAIN lookups /\ old \in Lookup /\ old.status = "running"
      /\ RowsStand(answers, lookups) /\ lookups \in Seq(Lookup)
      /\ work \in [Process -> Work \cup {None}] /\ pc \in [Process -> Label]
      /\ origin \in [Seed -> Origin]
  BY <1>0, RunAt
<1>2. /\ lookups' = [lookups EXCEPT ![run] = row] /\ UNCHANGED <<answers, origin>>
      /\ work' = [work EXCEPT ![p] = v] /\ pc' = [pc EXCEPT ![p] = label]
  <2>1. lookups' = [lookups EXCEPT ![run] = row] /\ UNCHANGED <<answers, origin>>
    BY <1>1 DEF Finish, FinishedRow
  <2>2. work' = [work EXCEPT ![p] = v]
    BY <1>1 DEF Finish, Passed
  <2> QED
    BY <2>1, <2>2 DEF Finish, Goto
<1>3. w.ending \in {"complete", "paused", "failed"}
  BY <1>1 DEF WorkStands
<1>4. /\ row \in Lookup /\ SameAnswers(row, old) /\ row.status = w.ending
  <2>1. PICK o \in Lookup : o = old
    BY <1>1
  <2>2. PICK status \in {"complete", "paused", "failed"} : status = w.ending
    BY <1>3
  <2>3. row = FinishedRow(o, status)
    BY <2>1, <2>2
  <2>4. row \in Lookup /\ row.status = status
    BY <2>3 DEF FinishedRow, Lookup, Status
  <2>5. SameAnswers(row, o)
    BY <2>3 DEF FinishedRow, Lookup, SameAnswers
  <2> QED
    BY <2>1, <2>2, <2>4, <2>5
<1>5. row.status = "complete" =>
         HitsTo(answers, Asks(row)) \subseteq CollectedOf(lookups, run)
  <2>1. Asks(row) = Asks(old)
    BY <1>4 DEF SameAnswers, Asks
  <2> QED
    BY <1>1, <1>4, <2>1 DEF WorkStands
<1>6. DOMAIN lookups' = DOMAIN lookups /\ lookups[w.run].asked \in Nat
  BY <1>1, <1>2 DEF Lookup
<1>7. label \in {"check", "returned"} /\ label \in Label
  BY DEF Label
<1>8. v \in Work /\ v.run = 0 /\ WorkStands(answers, lookups', label, v)
  BY <1>1, <1>6, <1>7, PassedStands
<1>9. row.status # "running"
  BY <1>3, <1>4
<1> HIDE DEF w, v, row, label
<1> QED
  BY <1>1, <1>2, <1>4, <1>5, <1>7, <1>8, <1>9, TouchKeeps

KilledRow(row) == [row EXCEPT !.killed = TRUE]

(* An invocation that is killed.                                           *)
LEMMA KillKeeps ==
  ASSUME LookupInv, NEW p \in Process, lookups' = Abandoned(p), Goto(p, "idle"),
         work' = [work EXCEPT ![p] = None], UNCHANGED <<answers, origin>>
  PROVE  LookupsKept
<1> DEFINE run == RunOf(p)
<1>1. /\ WorkStands(answers, lookups', "idle", None)
      /\ "idle" \in Label /\ pc' = [pc EXCEPT ![p] = "idle"] /\ origin' \in [Seed -> Origin]
  BY InvocationFacts DEF WorkStands, Label, Goto
<1>2. CASE run = 0
  <2>1. lookups' = lookups
    BY <1>2 DEF Abandoned, RunOf
  <2>2. run = IF None = None THEN 0 ELSE None.run
    BY <1>2
  <2>3. WorkStands(answers, lookups, "idle", None)
    BY DEF WorkStands
  <2> QED
    BY <1>1, <2>1, <2>2, <2>3, QuietStepKeeps
<1>3. CASE run # 0
  <2> DEFINE row == KilledRow(lookups[run])
  <2>1. work[p] # None /\ run = work[p].run
    BY <1>3 DEF RunOf
  <2>2. lookups' = [lookups EXCEPT ![run] = row]
    BY <1>3, <2>1 DEF Abandoned, KilledRow
  <2>3. /\ run \in DOMAIN lookups /\ lookups[run].status = "running" /\ lookups \in Seq(Lookup)
    BY <1>3, InvocationFacts
  <2>4. PICK o \in Lookup : o = lookups[run]
    BY <2>3
  <2>5. row \in Lookup /\ row.status = o.status /\ row.killed
    BY <2>4 DEF KilledRow, Lookup
  <2>6. SameAnswers(row, lookups[run])
    BY <2>4 DEF KilledRow, Lookup, SameAnswers
  <2>7. row.status # "complete"
    BY <2>3, <2>4, <2>5
  <2> HIDE DEF row, run
  <2> QED
    BY <1>1, <1>3, <2>2, <2>5, <2>6, <2>7, TouchKeeps DEF run
<1> QED
  BY <1>2, <1>3


(* A page that is committed, and what it leaves.                           *)
MayCommit(ans, rows, run, page, hits, last, row) ==
    /\ ans \in Answers /\ RowsStand(ans, rows)
    /\ run \in DOMAIN rows /\ rows[run].status = "running"
    /\ HasPages(ans, rows, run, page)
    /\ hits = ans[Asks(rows[run])][page] /\ last = Len(ans[Asks(rows[run])])
    /\ row = WithPage(rows[run], hits, page, last)

Committed(ans, rows, new, run, page, hits, last, row) ==
    /\ OneRunChanges(rows, new, run) /\ RowStands(ans, new, run)
    /\ DOMAIN new = DOMAIN rows /\ new[run] = row
    /\ Asks(row) = Asks(rows[run]) /\ row.asked = rows[run].asked /\ row.status = "running"
    /\ CollectedOf(rows, run) \subseteq CollectedOf(new, run)
    /\ page = last => HitsTo(ans, Asks(row)) \subseteq CollectedOf(new, run)
    /\ page # last => HasPages(ans, new, run, page + 1)
    /\ page \in Nat \ {0} /\ hits \subseteq Post

LEMMA PageCommitted ==
  ASSUME NEW ans, NEW rows, NEW run, NEW page, NEW hits, NEW last, NEW row,
         MayCommit(ans, rows, run, page, hits, last, row)
  PROVE  Committed(ans, rows, [rows EXCEPT ![run] = row], run, page, hits, last, row)
<1> DEFINE new == [rows EXCEPT ![run] = row]
           old == rows[run]
           A == ans[Asks(old)]
<1>c. /\ ans \in Answers /\ RowsStand(ans, rows) /\ run \in DOMAIN rows
      /\ old.status = "running" /\ HasPages(ans, rows, run, page)
      /\ hits = A[page] /\ last = Len(A) /\ row = WithPage(old, hits, page, last)
  BY DEF MayCommit
<1>0. rows \in Seq(Lookup) /\ RowStands(ans, rows, run) /\ \A x \in DOMAIN rows : PredStands(rows, x)
  BY <1>c DEF RowsStand, RowStands
<1>1. old \in Lookup
  BY <1>0, <1>c
<1>2. /\ A \in Seq(SUBSET Post) /\ page \in DOMAIN A /\ last = Len(A) /\ hits = A[page]
  <2>1. Asks(old) \in Asked
    BY <1>1 DEF Asks, Asked, Lookup
  <2>2. A \in Seq(SUBSET Post)
    BY <1>c, <2>1, LookupAssumption
  <2> QED
    BY <1>c, <2>2 DEF HasPages
<1>3. /\ DOMAIN A = 1..last /\ last \in Nat /\ page \in Nat \ {0} /\ page <= last
      /\ hits \in SUBSET Post /\ \A i \in DOMAIN A : i \in Nat
  BY <1>2
<1>4. \A i \in DOMAIN A : i < page => A[i] \subseteq CollectedOf(rows, run)
  BY <1>c DEF HasPages
<1> HIDE DEF A
<1>5. /\ row \in Lookup /\ row.seed = old.seed /\ row.provider = old.provider
      /\ row.material = old.material /\ row.revision = old.revision /\ row.pred = old.pred
      /\ row.status = "running" /\ row.asked = old.asked
      /\ row.results = old.results \cup hits
      /\ row.checkpoint = IF page = last THEN old.checkpoint ELSE page + 1
  <2>1. PICK o \in Lookup : o = old
    BY <1>1
  <2>2. row = WithPage(o, hits, page, last)
    BY <1>c, <2>1
  <2>3. o.results \cup hits \in SUBSET Post /\ o.pages + 1 \in Nat
    BY <1>3 DEF Lookup
  <2>4. PICK cp : cp = IF page = last THEN o.checkpoint ELSE page + 1
    OBVIOUS
  <2>5. cp \in Page \cup {None}
    <3>1. page + 1 \in Page
      BY <1>3 DEF Page
    <3>2. o.checkpoint \in Page \cup {None}
      BY DEF Lookup
    <3> QED
      BY <2>4, <3>1, <3>2
  <2>6. row = [o EXCEPT !.results = o.results \cup hits, !.pages = o.pages + 1, !.checkpoint = cp]
    BY <2>2, <2>4 DEF WithPage, Lookup
  <2> HIDE DEF old
  <2>7. row \in Lookup
    BY ONLY <2>3, <2>5, <2>6, o \in Lookup DEF Lookup
  <2>8. /\ row.seed = o.seed /\ row.provider = o.provider
        /\ row.material = o.material /\ row.revision = o.revision /\ row.pred = o.pred
        /\ row.status = o.status /\ row.asked = o.asked
        /\ row.results = o.results \cup hits /\ row.checkpoint = cp
    BY ONLY <2>6, o \in Lookup DEF Lookup
  <2> QED
    BY <1>c, <2>1, <2>4, <2>7, <2>8 DEF old
<1>6. Asks(row) = Asks(old)
  BY <1>5 DEF Asks
<1>7. /\ new \in Seq(Lookup) /\ DOMAIN new = DOMAIN rows /\ new[run] = row
      /\ \A r \in DOMAIN rows : r # run => new[r] = rows[r]
  BY <1>0, <1>5, <1>c
<1> HIDE DEF new
<1>8. OneRunChanges(rows, new, run)
  BY <1>0, <1>5, <1>6, <1>7, <1>c DEF OneRunChanges
<1>9. PredStands(new, run)
  <2>1. PredStands(rows, run)
    BY <1>0, <1>c
  <2> SUFFICES ASSUME row.pred # 0
               PROVE  PredStands(new, run)
    BY <1>7 DEF PredStands
  <2> DEFINE q == row.pred
  <2>2. q \in DOMAIN rows /\ GoesOnWith(old, rows[q])
    BY <1>5, <2>1 DEF PredStands
  <2>3. q # run
    BY <1>c, <2>2 DEF GoesOnWith
  <2>4. new[q] = rows[q]
    BY <1>7, <2>2, <2>3
  <2> QED
    BY <1>5, <1>7, <2>2, <2>4 DEF PredStands, GoesOnWith
<1>10. CollectedOf(new, run) = CollectedOf(rows, run) \cup hits
  <2> DEFINE before == IF old.pred = 0 THEN {} ELSE CollectedOf(rows, old.pred)
  <2>1. CollectedOf(new, run) = row.results \cup before
    <3>1. CollectedOf(new, run) =
             new[run].results \cup
                (IF new[run].pred = 0 THEN {} ELSE CollectedOf(rows, new[run].pred))
      BY <1>0, <1>7, <1>8, <1>9, <1>c, RunCollects
    <3> QED
      BY <1>5, <1>7, <3>1
  <2>2. CollectedOf(rows, run) = old.results \cup before
    <3>1. OneRunChanges(rows, rows, run)
      BY <1>0, <1>c DEF OneRunChanges
    <3> QED
      BY <1>0, <1>c, <3>1, RunCollects
  <2> HIDE DEF before
  <2> QED
    BY <1>5, <2>1, <2>2
<1>11. \A i \in DOMAIN A : i <= page => A[i] \subseteq CollectedOf(new, run)
  <2>1. ASSUME NEW i \in DOMAIN A, i <= page
        PROVE  A[i] \subseteq CollectedOf(new, run)
    <3>1. i < page \/ i = page
      BY <1>3, <2>1
    <3> QED
      BY <1>2, <1>4, <1>10, <3>1
  <2> QED
    BY <2>1
<1>12. page # last => HasPages(ans, new, run, page + 1)
  <2>1. ASSUME page # last
        PROVE  page + 1 \in DOMAIN A /\ \A i \in DOMAIN A : i < page + 1 => i <= page
    BY <1>3, <2>1
  <2> QED
    BY <1>6, <1>7, <1>11, <2>1 DEF HasPages, A
<1>13. page = last => HitsTo(ans, Asks(row)) \subseteq CollectedOf(new, run)
  <2>1. ASSUME page = last, NEW i \in DOMAIN A
        PROVE  i <= page
    BY <1>3, <2>1
  <2> QED
    BY <1>6, <1>11, <2>1 DEF HitsTo, Range, A
<1>14. CollectedOf(new, run) \subseteq HitsTo(ans, Asks(row))
  <2>1. hits \subseteq HitsTo(ans, Asks(row))
    BY <1>2, <1>6 DEF HitsTo, Range, A
  <2> QED
    BY <1>0, <1>6, <1>10, <2>1 DEF RowStands
<1>15. row.checkpoint # None => HasPages(ans, new, run, row.checkpoint)
  <2>1. HasPages(ans, rows, run, old.checkpoint) => HasPages(ans, new, run, old.checkpoint)
    BY <1>6, <1>7, <1>10 DEF HasPages
  <2> QED
    BY <1>0, <1>5, <1>12, <2>1 DEF RowStands
<1>16. RowStands(ans, new, run)
  BY <1>5, <1>7, <1>9, <1>14, <1>15 DEF RowStands
<1> QED
  BY <1>3, <1>5, <1>6, <1>7, <1>8, <1>10, <1>12, <1>13, <1>16 DEF Committed, new, old


Turned(w) == [w EXCEPT !.page = @ + 1, !.pages = @ + 1]

LEMMA TurnedStands ==
  ASSUME NEW ans, NEW rows, NEW w \in Work, WorkStands(ans, rows, "commit", w),
         HasPages(ans, rows, w.run, w.page + 1)
  PROVE  Turned(w) \in Work /\ Turned(w).run = w.run /\ WorkStands(ans, rows, "ask", Turned(w))
<1> DEFINE v == Turned(w)
<1>1. v \in Work
  <2>1. PICK n \in Page : n = w.page + 1
    BY DEF Work, Page
  <2>2. PICK m \in Nat : m = w.pages + 1
    BY DEF Work
  <2>3. v = [w EXCEPT !.page = n, !.pages = m]
    BY <2>1, <2>2 DEF Turned, Work
  <2> HIDE DEF v
  <2> QED
    BY <2>3 DEF Work
<1>2. /\ v.seed = w.seed /\ v.provider = w.provider /\ v.limit = w.limit /\ v.queue = w.queue
      /\ v.pred = w.pred /\ v.run = w.run /\ v.ran = w.ran /\ v.sent = w.sent
      /\ v.page = w.page + 1
  BY DEF Work, Turned
<1>3. v # None /\ w # None
  BY <1>1, LookupAssumption
<1> HIDE DEF v
<1>4. w.run # 0 /\ w.queue # <<>>
  BY <1>3 DEF WorkStands
<1>5. WorkStands(ans, rows, "ask", v)
  BY <1>2, <1>3, <1>4 DEF WorkStands
<1> QED
  BY <1>1, <1>2, <1>5 DEF v

LEMMA CommitKeeps ==
  ASSUME LookupInv, NEW p \in Process, Commit(p)
  PROVE  LookupsKept
<1> DEFINE run == RunOf(p)
           old == lookups[run]
           w == work[p]
           page == w.page
           hits == Pages(p)[page]
           last == Len(Pages(p))
           row == WithPage(old, hits, page, last)
<1>0. pc[p] = "commit"
  BY DEF Commit, At
<1>1. /\ w \in Work /\ w # None /\ run = w.run /\ run # 0
      /\ WorkStands(answers, lookups, "commit", w)
      /\ run \in DOMAIN lookups /\ old \in Lookup /\ old.status = "running"
      /\ RowsStand(answers, lookups) /\ lookups \in Seq(Lookup)
      /\ work \in [Process -> Work \cup {None}] /\ pc \in [Process -> Label]
      /\ origin \in [Seed -> Origin]
  BY <1>0, RunAt
<1>2. answers \in Answers /\ HasPages(answers, lookups, run, page) /\ Asks(old) = Asking(p)
  BY <1>1 DEF LookupInv, WorkStands, Asking
<1>3. lookups' = [lookups EXCEPT ![run] = row] /\ answers' = answers
  BY <1>1 DEF Commit
<1>4. hits = answers[Asks(old)][page] /\ last = Len(answers[Asks(old)])
  BY <1>2 DEF Pages
<1> HIDE DEF row, hits, last
<1>5. /\ OneRunChanges(lookups, lookups', run) /\ RowStands(answers, lookups', run)
      /\ DOMAIN lookups' = DOMAIN lookups /\ lookups'[run] = row
      /\ Asks(row) = Asks(old) /\ row.asked = old.asked /\ row.status = "running"
      /\ CollectedOf(lookups, run) \subseteq CollectedOf(lookups', run)
      /\ page = last => HitsTo(answers, Asks(row)) \subseteq CollectedOf(lookups', run)
      /\ page # last => HasPages(answers, lookups', run, page + 1)
      /\ page \in Nat \ {0} /\ hits \subseteq Post
  <2>1. MayCommit(answers, lookups, run, page, hits, last, row)
    BY <1>1, <1>2, <1>4 DEF MayCommit, row
  <2>2. Committed(answers, lookups, lookups', run, page, hits, last, row)
    BY <1>3, <2>1, PageCommitted
  <2> HIDE DEF run, page
  <2> QED
    BY <2>2 DEF Committed
<1>6. origin' \in [Seed -> Origin]
  <2>1. Asking(p) \in Asked
    BY <1>1, <1>2 DEF Asks, Asked, Lookup
  <2>2. FromPage(Asking(p), page) \in Origin
    BY <1>5, <2>1 DEF FromPage, Origin, Page
  <2>3. origin' = [s \in Seed |-> IF s \in hits THEN FromPage(Asking(p), page) ELSE origin[s]]
    BY DEF Commit, hits
  <2> QED
    BY <1>1, <2>2, <2>3
<1>7. \A q \in Process : q # p /\ work[q] # None => work[q].run = 0 \/ work[q].run # run
  BY InvocationFacts
<1>8. HasPages(answers, lookups', run, page)
  <2>1. page \in DOMAIN answers[Asks(old)]
    BY <1>2 DEF HasPages
  <2> QED
    BY <1>2, <1>5, <2>1 DEF HasPages
<1>9. WorkStands(answers, lookups', "commit", w)
  BY <1>1, <1>5, <1>8 DEF WorkStands
<1>10. work[p] # None => work[p].run \in {0, run}
  BY <1>1
<1>11. ASSUME NEW label \in Label, NEW v \in Work, v.run = run,
              WorkStands(answers, lookups', label, v),
              pc' = [pc EXCEPT ![p] = label], work' = [work EXCEPT ![p] = v]
       PROVE  LookupsKept
  <2>1. v # None
    BY LookupAssumption
  <2>2. LeavesNone(lookups', v, run)
    BY <1>11, <2>1 DEF LeavesNone
  <2>3. v \in Work \cup {None} /\ (v # None => v.run \in {0, run})
    BY <1>11
  <2> HIDE DEF run
  <2>4. StepOf(p, label, v, run)
    BY <1>3, <1>5, <1>6, <1>7, <1>10, <1>11, <2>2, <2>3 DEF StepOf
  <2> QED
    BY <2>4, StepKeeps
<1>12. CASE page = last /\ Ending(p, "complete", "no")
  <2> DEFINE v == Ended(w, "complete", "no")
  <2>1. /\ "complete" \in {"complete", "paused", "failed"} /\ "no" \in {"no", "raise", "exit"}
        /\ None \notin Work /\ "commit" \in {"ask", "commit"}
    BY LookupAssumption
  <2>2. "complete" = "complete" =>
           HitsTo(answers, Asks(lookups'[w.run])) \subseteq CollectedOf(lookups', w.run)
    BY <1>1, <1>5, <1>12
  <2>3. v \in Work /\ v.run = w.run /\ WorkStands(answers, lookups', "finish", v)
    <3>1. w \in Work
      BY <1>1
    <3> HIDE DEF w, v
    <3> QED
      BY ONLY <1>9, <2>1, <2>2, <3>1, EndingStands DEF v
  <2>4. work' = [work EXCEPT ![p] = v] /\ pc' = [pc EXCEPT ![p] = "finish"] /\ "finish" \in Label
    BY <1>1, <1>12 DEF Ending, Goto, Ended, Label
  <2>5. v.run = run
    BY <1>1, <2>3
  <2> HIDE DEF w, v, run
  <2> QED
    BY <1>11, <2>3, <2>4, <2>5
<1>13. CASE /\ page # last /\ Goto(p, "ask")
            /\ work' = [work EXCEPT ![p].page = @ + 1, ![p].pages = @ + 1]
  <2> DEFINE v == Turned(w)
  <2>1. v \in Work /\ v.run = w.run /\ WorkStands(answers, lookups', "ask", v)
    BY <1>1, <1>5, <1>9, <1>13, TurnedStands
  <2>2. work' = [work EXCEPT ![p] = v] /\ pc' = [pc EXCEPT ![p] = "ask"] /\ "ask" \in Label
    BY <1>1, <1>13 DEF Goto, Turned, Label
  <2>3. v.run = run
    BY <1>1, <2>1
  <2> HIDE DEF w, v, run
  <2> QED
    BY <1>11, <2>1, <2>2, <2>3
<1> QED
  BY <1>12, <1>13 DEF Commit, hits, last


(* Every step of an execution keeps the invariant, and is its own.         *)
LEMMA LookupStepKeeps ==
  ASSUME LookupInv, NEW p \in Process, LookupStep(p)
  PROVE  LookupsKept
BY CheckKeeps, BeginKeeps, EndingsKeep, AskKeeps, CommitKeeps, FinishKeeps DEF LookupStep

LookupLabel == {"check", "begin", "ask", "commit", "finish", "returned"}

LEMMA LookupStepIsOwn ==
  ASSUME LookupInv, NEW p \in Process, LookupStep(p)
  PROVE  /\ pc[p] \in LookupLabel /\ pc'[p] \in LookupLabel
         /\ work[p] # None /\ work'[p].limit = work[p].limit
         /\ \A q \in Process : q # p => pc'[q] = pc[q] /\ work'[q] = work[q]
<1>1. work \in [Process -> Work \cup {None}] /\ pc \in [Process -> Label]
  BY DEF LookupInv
<1>2. pc[p] \in LookupLabel \ {"returned"}
  BY DEF LookupStep, At, Check, Begin, Exhausted, Ask, Commit, CommitLate, Interrupted, Raises,
         Finish, LookupLabel
<1>3. work[p] # None /\ work[p] \in Work
  BY <1>2, WorkAt DEF LookupLabel
<1>4. ASSUME NEW label \in LookupLabel, Goto(p, label)
      PROVE  pc'[p] \in LookupLabel /\ \A q \in Process : q # p => pc'[q] = pc[q]
  BY <1>1, <1>4 DEF Goto
<1>5. ASSUME NEW w, work' = [work EXCEPT ![p] = w], w.limit = work[p].limit
      PROVE  /\ work'[p].limit = work[p].limit
             /\ \A q \in Process : q # p => work'[q] = work[q]
  BY <1>1, <1>5
<1>6. ASSUME NEW status, NEW unwinds, Ending(p, status, unwinds)
      PROVE  /\ pc'[p] \in LookupLabel /\ work'[p].limit = work[p].limit
             /\ \A q \in Process : q # p => pc'[q] = pc[q] /\ work'[q] = work[q]
  <2>1. work' = [work EXCEPT ![p] = Ended(work[p], status, unwinds)]
    BY <1>1, <1>3, <1>6 DEF Ending, Ended
  <2>2. Ended(work[p], status, unwinds).limit = work[p].limit
    BY <1>3 DEF Ended, Work
  <2> QED
    BY <1>4, <1>5, <1>6, <2>1, <2>2 DEF Ending, LookupLabel
<1>7. CASE Check(p)
  <2>1. ASSUME NEW unwinds, Return(p, unwinds)
        PROVE  /\ pc'[p] \in LookupLabel /\ work'[p].limit = work[p].limit
               /\ \A q \in Process : q # p => pc'[q] = pc[q] /\ work'[q] = work[q]
    <3>1. work' = [work EXCEPT ![p] = Unwound(work[p], unwinds)]
      BY <1>1, <1>3, <2>1 DEF Return, Unwound
    <3>2. Unwound(work[p], unwinds).limit = work[p].limit
      BY <1>3 DEF Unwound, Work
    <3> QED
      BY <1>4, <1>5, <2>1, <3>1, <3>2 DEF Return, LookupLabel
  <2>2. ASSUME Goto(p, "begin"), UNCHANGED work
        PROVE  /\ pc'[p] \in LookupLabel /\ work'[p].limit = work[p].limit
               /\ \A q \in Process : q # p => pc'[q] = pc[q] /\ work'[q] = work[q]
    BY <1>4, <2>2 DEF LookupLabel
  <2> QED
    BY <1>2, <1>3, <1>7, <2>1, <2>2 DEF Check
<1>8. CASE Begin(p)
  <2>1. work' = [work EXCEPT ![p] = Begun(work[p], Len(lookups) + 1)] /\ Goto(p, "ask")
    BY <1>1, <1>3, <1>8 DEF Begin, Begun
  <2>2. Begun(work[p], Len(lookups) + 1).limit = work[p].limit
    BY <1>3 DEF Begun, Work
  <2> QED
    BY <1>2, <1>3, <1>4, <1>5, <2>1, <2>2 DEF LookupLabel
<1>9. CASE Exhausted(p) \/ CommitLate(p) \/ Interrupted(p) \/ Raises(p)
  BY <1>2, <1>3, <1>6, <1>9 DEF Exhausted, CommitLate, Interrupted, Raises
<1>10. CASE Ask(p)
  <2>1. \/ Goto(p, "commit") /\ UNCHANGED work
        \/ Ending(p, "paused", "no") \/ Ending(p, "failed", "no")
    BY <1>10 DEF Ask
  <2> QED
    BY <1>2, <1>3, <1>4, <1>6, <2>1 DEF LookupLabel
<1>11. CASE Commit(p)
  <2>1. \/ Ending(p, "complete", "no")
        \/ /\ work' = [work EXCEPT ![p].page = @ + 1, ![p].pages = @ + 1]
           /\ Goto(p, "ask")
    BY <1>11 DEF Commit
  <2>2. ASSUME work' = [work EXCEPT ![p].page = @ + 1, ![p].pages = @ + 1]
        PROVE  work' = [work EXCEPT ![p] = Turned(work[p])]
    BY <1>1, <1>3, <2>2 DEF Turned
  <2>3. Turned(work[p]).limit = work[p].limit
    BY <1>3 DEF Turned, Work
  <2> QED
    BY <1>2, <1>3, <1>4, <1>5, <1>6, <2>1, <2>2, <2>3 DEF LookupLabel
<1>12. CASE Finish(p)
  <2> DEFINE asked == lookups[work[p].run].asked
  <2>1. work' = [work EXCEPT ![p] = Passed(work[p], asked)]
    BY <1>1, <1>3, <1>12 DEF Finish, Passed
  <2>2. Passed(work[p], asked).limit = work[p].limit
    BY <1>3 DEF Passed, Work
  <2>3. PICK label \in LookupLabel : Goto(p, label)
    BY <1>12 DEF Finish, LookupLabel
  <2> HIDE DEF asked
  <2> QED
    BY <1>2, <1>3, <1>4, <1>5, <2>1, <2>2, <2>3
<1> QED
  BY <1>7, <1>8, <1>9, <1>10, <1>11, <1>12 DEF LookupStep

(* What is complete is answered.                                           *)
LEMMA ChainsStand ==
  ASSUME LookupInv
  PROVE  CompleteChainCovers /\ ChainAsksTheSame /\ NoRunLeftBehind
<1>1. \A r \in DOMAIN lookups : RowStands(answers, lookups, r)
  BY DEF LookupInv, RowsStand
<1>2. \A r : Chain(r) = ChainOf(lookups, r)
  BY DEF Chain, ChainOf, HoldsResumed, HoldsResumedOf
<1>3. \A r : Collected(r) = CollectedOf(lookups, r)
  BY <1>2 DEF Collected, CollectedOf
<1>4. \A r : AllHits(r) = HitsTo(answers, Asks(lookups[r]))
  BY DEF AllHits, HitsTo, Question, Asks
<1>5. CompleteChainCovers
  BY <1>1, <1>3, <1>4 DEF CompleteChainCovers, RowStands
<1>6. ChainAsksTheSame
  BY <1>1 DEF ChainAsksTheSame, RowStands, PredStands, GoesOnWith
<1> QED
  BY <1>5, <1>6 DEF LookupInv


-----------------------------------------------------------------------------
(* Sessions *)

LedTo(rows, seed, steps, i) ==
    IF steps[i].method = "fetch_post"
    THEN \E r \in DOMAIN rows :
            /\ rows[r].seed = seed /\ rows[r].provider = steps[i].source
            /\ steps[i].target \in rows[r].results
    ELSE /\ \E k \in 1..(i - 1) :
              /\ steps[k].method = "fetch_post" /\ steps[k].status = "complete"
              /\ steps[k].target = steps[i].seed
         /\ steps[i].target \in Range(Materials[steps[i].seed])

StepStands(rows, seed, steps, i) ==
    /\ \A n \in DOMAIN steps[i].runs :
          /\ steps[i].runs[n] \in DOMAIN rows
          /\ steps[i].status = "complete" => rows[steps[i].runs[n]].status = "complete"
    /\ steps[i].method = "fetch_post" => steps[i].generation = 1
    /\ steps[i].generation = 1 => LedTo(rows, seed, steps, i)

(* No step but those still to do asked about more than one material, or    *)
(* ended by an exception.                                                  *)
Plain(steps, todo) ==
    \A i \in DOMAIN steps \ todo : Len(steps[i].runs) <= 1 /\ steps[i].outcome # "error"

Tells(session) ==
    /\ session.status = "complete" <=> ~ Pending(session.steps)
    /\ session.live => ~ Pending(session.steps)
    /\ \A i \in DOMAIN session.steps :
          session.steps[i].status = "planned" => ~ IsLocal(session.steps[i])

SessionStands(rows, session) ==
    /\ session \in Session
    /\ \A i \in DOMAIN session.steps : StepStands(rows, session.seed, session.steps, i)
    /\ Plain(session.steps, {}) => session.sent <= session.budget
    /\ session.finished /\ ~ session.peeked /\ ~ session.killed => Tells(session)

(* What the steps of a session and its execution have to do with each      *)
(* other: what is to do is planned, what is planned for it is to do, what  *)
(* was fetched is told as complete, and what was spent is what was sent.   *)
DueStands(label, steps, live, e) ==
    /\ \A i \in e.todo : i \in DOMAIN steps /\ steps[i].status = "planned"
    /\ label # "plan" => \A i \in DOMAIN steps :
          steps[i].status = "planned" /\ (IsLocal(steps[i]) \/ live) => i \in e.todo
    /\ \A j \in DOMAIN e.fetched : \E k \in DOMAIN steps :
          /\ steps[k].method = "fetch_post" /\ steps[k].status = "complete"
          /\ steps[k].target = e.fetched[j]

ExecStands(session, label, w, e) ==
    /\ ~ session.killed /\ (session.finished => session.peeked)
    /\ label # "idle"
    /\ label = "plan" => session.steps = <<>> /\ session.sent = 0 /\ e.spent = 0
    /\ label \in LookupLabel => e.todo # {}
    /\ DueStands(label, session.steps, session.live, e)
    /\ Plain(session.steps, e.todo) => session.sent = e.spent /\ session.sent <= session.budget
    /\ w # None => w.limit + e.spent <= session.budget

ProcessStands(sess, label, w, e) ==
    /\ e = None => label = "idle"
    /\ e # None => e.session \in DOMAIN sess /\ ExecStands(sess[e.session], label, w, e)

ExecsApart(execs) ==
    \A p, q \in SessionProcess : execs[p] # None /\ execs[q] # None /\
                                 execs[p].session = execs[q].session => p = q

(* A session that is neither reported nor killed is being executed.        *)
Held(sess, execs) ==
    \A s \in DOMAIN sess : sess[s].finished \/ sess[s].killed \/
        \E p \in SessionProcess : execs[p] # None /\ execs[p].session = s

(* The invariant of sessions.                                              *)
SessionInv ==
    /\ LookupInv
    /\ sessions \in Seq(Session) /\ exec \in [SessionProcess -> Exec \cup {None}]
    /\ \A s \in DOMAIN sessions : SessionStands(lookups, sessions[s])
    /\ \A p \in SessionProcess : ProcessStands(sessions, pc[p], work[p], exec[p])
    /\ \A p \in Process \ SessionProcess : pc[p] \notin {"plan", "step"}
    /\ ExecsApart(exec) /\ Held(sessions, exec)

(* What a session stands on is never taken back.                           *)
LEMMA SessionStandsOn ==
  ASSUME NEW rows, NEW new, RowsGrow(rows, new), NEW session, SessionStands(rows, session)
  PROVE  SessionStands(new, session)
<1> DEFINE steps == session.steps
           seed == session.seed
<1>1. ASSUME NEW i \in DOMAIN steps
      PROVE  StepStands(new, seed, steps, i)
  <2>1. StepStands(rows, seed, steps, i)
    BY DEF SessionStands
  <2>2. LedTo(rows, seed, steps, i) => LedTo(new, seed, steps, i)
    <3>1. ASSUME NEW r \in DOMAIN rows, rows[r].seed = seed, rows[r].provider = steps[i].source,
                 steps[i].target \in rows[r].results
          PROVE  \E x \in DOMAIN new :
                    /\ new[x].seed = seed /\ new[x].provider = steps[i].source
                    /\ steps[i].target \in new[x].results
      BY <3>1 DEF RowsGrow
    <3> QED
      BY <3>1 DEF LedTo
  <2>3. \A n \in DOMAIN steps[i].runs :
           /\ steps[i].runs[n] \in DOMAIN new
           /\ steps[i].status = "complete" => new[steps[i].runs[n]].status = "complete"
    BY <2>1 DEF StepStands, RowsGrow
  <2> QED
    BY <2>1, <2>2, <2>3 DEF StepStands
<1> QED
  BY <1>1 DEF SessionStands

(* A step of a session, which rewrites no session but its own.             *)
SessionStepOf(p, s, session, e) ==
    /\ LookupsKept
    /\ exec[p] # None /\ exec[p].session = s
    /\ sessions' = [sessions EXCEPT ![s] = session] /\ SessionStands(lookups', session)
    /\ e \in Exec \cup {None} /\ exec' = [exec EXCEPT ![p] = e]
    /\ e = None => pc'[p] = "idle" /\ (session.finished \/ session.killed)
    /\ e # None => e.session = s /\ ExecStands(session, pc'[p], work'[p], e)
    /\ \A q \in Process : q # p => pc'[q] = pc[q] /\ work'[q] = work[q]

LEMMA SessionStepKeeps ==
  ASSUME SessionInv, NEW p \in SessionProcess, NEW s, NEW session, NEW e,
         SessionStepOf(p, s, session, e)
  PROVE  SessionInv'
<1>1. /\ LookupInv' /\ RowsGrow(lookups, lookups')
      /\ exec[p] # None /\ exec[p].session = s
      /\ sessions' = [sessions EXCEPT ![s] = session] /\ SessionStands(lookups', session)
      /\ e \in Exec \cup {None} /\ exec' = [exec EXCEPT ![p] = e]
      /\ \A q \in Process : q # p => pc'[q] = pc[q] /\ work'[q] = work[q]
  BY DEF SessionStepOf, LookupsKept
<1>2. /\ sessions \in Seq(Session) /\ exec \in [SessionProcess -> Exec \cup {None}]
      /\ SessionProcess \subseteq Process
  BY SessionAssumption DEF SessionInv
<1>3. s \in DOMAIN sessions /\ session \in Session
  BY <1>1 DEF SessionInv, ProcessStands, SessionStands
<1>4. /\ sessions' \in Seq(Session) /\ DOMAIN sessions' = DOMAIN sessions /\ sessions'[s] = session
      /\ \A x \in DOMAIN sessions : x # s => sessions'[x] = sessions[x]
  BY <1>1, <1>2, <1>3
<1>5. /\ exec' \in [SessionProcess -> Exec \cup {None}] /\ exec'[p] = e
      /\ \A q \in SessionProcess : q # p => exec'[q] = exec[q]
  BY <1>1, <1>2
<1>6. ASSUME NEW x \in DOMAIN sessions'
      PROVE  SessionStands(lookups', sessions'[x])
  <2>1. CASE x = s
    BY <1>1, <1>4, <2>1
  <2>2. CASE x # s
    <3>1. SessionStands(lookups, sessions[x]) /\ sessions'[x] = sessions[x]
      BY <1>4, <2>2 DEF SessionInv
    <3> QED
      BY <1>1, <3>1, SessionStandsOn
  <2> QED
    BY <2>1, <2>2
<1>7. ASSUME NEW q \in SessionProcess
      PROVE  ProcessStands(sessions', pc'[q], work'[q], exec'[q])
  <2>1. CASE q = p
    BY <1>3, <1>4, <1>5, <2>1 DEF SessionStepOf, ProcessStands
  <2>2. CASE q # p
    <3>1. /\ pc'[q] = pc[q] /\ work'[q] = work[q] /\ exec'[q] = exec[q]
          /\ ProcessStands(sessions, pc[q], work[q], exec[q])
      BY <1>1, <1>2, <1>5, <2>2 DEF SessionInv
    <3>2. exec[q] # None => exec[q].session # s
      BY <1>1, <2>2 DEF SessionInv, ExecsApart
    <3>3. exec[q] # None => sessions'[exec[q].session] = sessions[exec[q].session]
      BY <1>4, <3>1, <3>2 DEF ProcessStands
    <3> QED
      BY <1>4, <3>1, <3>3 DEF ProcessStands
  <2> QED
    BY <2>1, <2>2
<1>8. \A q \in Process \ SessionProcess : pc'[q] \notin {"plan", "step"}
  BY <1>1 DEF SessionInv
<1>9. ExecsApart(exec')
  BY <1>1, <1>5 DEF SessionInv, ExecsApart, SessionStepOf
<1>10. Held(sessions', exec')
  <2>1. ASSUME NEW x \in DOMAIN sessions, ~ sessions'[x].finished, ~ sessions'[x].killed
        PROVE  \E q \in SessionProcess : exec'[q] # None /\ exec'[q].session = x
    <3>1. CASE x = s
      BY <1>4, <1>5, <2>1, <3>1 DEF SessionStepOf
    <3>2. CASE x # s
      <4>1. PICK q \in SessionProcess : exec[q] # None /\ exec[q].session = x
        BY <1>4, <2>1, <3>2 DEF SessionInv, Held
      <4> QED
        BY <1>1, <1>5, <3>2, <4>1
    <3> QED
      BY <3>1, <3>2
  <2> QED
    BY <1>4, <2>1 DEF Held
<1> QED
  BY <1>1, <1>4, <1>5, <1>6, <1>7, <1>8, <1>9, <1>10 DEF SessionInv

(* A step that leaves the sessions and who executes them.                  *)
LEMMA SessionsStay ==
  ASSUME SessionInv, LookupsKept, UNCHANGED sessionVars,
         \A p \in SessionProcess : ProcessStands(sessions, pc'[p], work'[p], exec[p]),
         \A p \in Process \ SessionProcess : pc'[p] \notin {"plan", "step"}
  PROVE  SessionInv'
<1>1. \A s \in DOMAIN sessions : SessionStands(lookups', sessions[s])
  BY SessionStandsOn DEF SessionInv, LookupsKept
<1> QED
  BY <1>1 DEF SessionInv, LookupsKept, sessionVars


(* What a session and its invocation are. *)
LEMMA SessionFacts ==
  ASSUME SessionInv, NEW p \in SessionProcess
  PROVE  /\ p \in Process /\ LookupInv /\ None \notin Exec
         /\ exec \in [SessionProcess -> Exec \cup {None}] /\ sessions \in Seq(Session)
         /\ ProcessStands(sessions, pc[p], work[p], exec[p])
BY SessionAssumption DEF SessionInv

LEMMA ExecutingFacts ==
  ASSUME SessionInv, NEW p \in SessionProcess, exec[p] # None \/ pc[p] # "idle"
  PROVE  /\ exec[p] # None /\ exec[p] \in Exec
         /\ exec[p].session \in DOMAIN sessions /\ Mine(p) \in Session
         /\ SessionStands(lookups, Mine(p))
         /\ ExecStands(Mine(p), pc[p], work[p], exec[p])
<1>1. exec[p] # None /\ exec[p] \in Exec
  BY SessionFacts DEF ProcessStands
<1>2. exec[p].session \in DOMAIN sessions /\ ExecStands(Mine(p), pc[p], work[p], exec[p])
  BY <1>1, SessionFacts DEF ProcessStands, Mine
<1>3. SessionStands(lookups, Mine(p))
  BY <1>2 DEF SessionInv, Mine
<1> QED
  BY <1>1, <1>2, <1>3 DEF SessionStands

LEMMA CurrentIsDue ==
  ASSUME SessionInv, NEW p \in SessionProcess, exec[p] # None \/ pc[p] # "idle", exec[p].todo # {}
  PROVE  CurrentStep(p) \in exec[p].todo
<1>1. /\ exec[p] # None /\ exec[p] \in Exec /\ Mine(p) \in Session
      /\ ExecStands(Mine(p), pc[p], work[p], exec[p])
  BY ExecutingFacts
<1>2. Mine(p).steps \in Seq(Step)
  BY <1>1 DEF Session
<1>3. DOMAIN Mine(p).steps = 1..Len(Mine(p).steps) /\ Len(Mine(p).steps) \in Nat
  BY <1>2
<1>4. exec[p].todo \in SUBSET DOMAIN Mine(p).steps
  BY <1>1 DEF ExecStands, DueStands
<1>5. IsFiniteSet(DOMAIN Mine(p).steps)
  BY <1>3, FS_Interval
<1>6. IsFiniteSet(exec[p].todo)
  BY <1>4, <1>5, FS_Subset
<1>7. exec[p].todo \in SUBSET Nat
  BY <1>1 DEF Exec
<1> QED
  BY <1>6, <1>7, MinIsIn DEF CurrentStep

(* What is told of a step, of its session, and what is left to do then.    *)
ToldStep(step, status, outcome, runs) ==
    [step EXCEPT !.status = status, !.outcome = outcome, !.runs = runs]

Told(session, i, status, outcome, runs, sent) ==
    [session EXCEPT
        !.steps = [session.steps EXCEPT
                      ![i] = ToldStep(session.steps[i], status, outcome, runs)],
        !.sent = @ + sent]

Moved(e, i, spent, fetched) ==
    [e EXCEPT !.todo = @ \ {i}, !.spent = @ + spent, !.fetched = fetched]

MayTell(rows, session, label, w, e, i, status, outcome, runs, sent, spent, fetched) ==
    /\ session \in Session /\ e \in Exec /\ SessionStands(rows, session)
    /\ ExecStands(session, label, w, e) /\ i \in e.todo /\ label # "plan"
    /\ status \in {"complete", "failed"} /\ outcome \in Outcome /\ runs \in Seq(Nat)
    /\ \A n \in DOMAIN runs : /\ runs[n] \in DOMAIN rows
                              /\ status = "complete" => rows[runs[n]].status = "complete"
    /\ sent \in Nat /\ spent \in Nat /\ fetched \in Seq(Post)
    /\ \A j \in DOMAIN fetched :
          \/ \E k \in DOMAIN e.fetched : fetched[j] = e.fetched[k]
          \/ /\ status = "complete" /\ session.steps[i].method = "fetch_post"
             /\ fetched[j] = session.steps[i].target
    /\ Plain(session.steps, e.todo) /\ Len(runs) <= 1 /\ outcome # "error" =>
          sent = spent /\ e.spent + spent <= session.budget

ToldWell(rows, session, e) ==
    /\ SessionStands(rows, session) /\ e \in Exec /\ ExecStands(session, "step", None, e)

LEMMA ToldStepIs ==
  ASSUME NEW step \in Step, NEW status \in {"complete", "failed"}, NEW outcome \in Outcome,
         NEW runs \in Seq(Nat)
  PROVE  LET new == ToldStep(step, status, outcome, runs) IN
         /\ new \in Step /\ new.status = status /\ new.outcome = outcome /\ new.runs = runs
         /\ new.source = step.source /\ new.method = step.method /\ new.target = step.target
         /\ new.seed = step.seed /\ new.generation = step.generation
BY DEF ToldStep, Step, StepStatus

LEMMA ToldIs ==
  ASSUME NEW session \in Session, NEW i \in DOMAIN session.steps,
         NEW status \in {"complete", "failed"}, NEW outcome \in Outcome,
         NEW runs \in Seq(Nat), NEW sent \in Nat
  PROVE  LET new == Told(session, i, status, outcome, runs, sent) IN
         /\ new \in Session /\ new.sent = session.sent + sent
         /\ new.seed = session.seed /\ new.live = session.live /\ new.budget = session.budget
         /\ new.finished = session.finished /\ new.peeked = session.peeked
         /\ new.killed = session.killed /\ new.status = session.status
         /\ DOMAIN new.steps = DOMAIN session.steps
         /\ new.steps[i] = ToldStep(session.steps[i], status, outcome, runs)
         /\ \A j \in DOMAIN session.steps : j # i => new.steps[j] = session.steps[j]
<1> DEFINE steps == session.steps
           step == ToldStep(steps[i], status, outcome, runs)
           told == [steps EXCEPT ![i] = step]
<1>1. steps \in Seq(Step) /\ session.sent \in Nat
  BY DEF Session
<1>2. steps[i] \in Step
  BY <1>1
<1>3. step \in Step
  BY <1>2, ToldStepIs
<1> HIDE DEF step
<1>4. told \in Seq(Step)
  BY <1>1, <1>3
<1>5. DOMAIN told = DOMAIN steps /\ told[i] = step /\ \A j \in DOMAIN steps : j # i => told[j] = steps[j]
  OBVIOUS
<1>6. Told(session, i, status, outcome, runs, sent)
         = [session EXCEPT !.steps = told, !.sent = @ + sent]
  BY DEF Told, step
<1>7. session.sent + sent \in Nat
  BY <1>1
<1> HIDE DEF told
<1>8. ASSUME NEW n \in Nat
      PROVE  [session EXCEPT !.steps = told, !.sent = n] \in Session
  BY <1>4 DEF Session
<1>9. LET new == [session EXCEPT !.steps = told, !.sent = @ + sent] IN
         /\ new \in Session /\ new.sent = session.sent + sent /\ new.steps = told
         /\ new.seed = session.seed /\ new.live = session.live /\ new.budget = session.budget
         /\ new.finished = session.finished /\ new.peeked = session.peeked
         /\ new.killed = session.killed /\ new.status = session.status
  BY <1>7, <1>8 DEF Session
<1> QED
  BY <1>5, <1>6, <1>9 DEF step


(* A step that is told keeps what its session and its execution stand on.  *)
LEMMA TellingKeeps ==
  ASSUME NEW rows, NEW session, NEW label, NEW w, NEW e, NEW i, NEW status, NEW outcome,
         NEW runs, NEW sent, NEW spent, NEW fetched,
         MayTell(rows, session, label, w, e, i, status, outcome, runs, sent, spent, fetched)
  PROVE  ToldWell(rows, Told(session, i, status, outcome, runs, sent),
                  Moved(e, i, spent, fetched))
<1> DEFINE steps == session.steps
           new == Told(session, i, status, outcome, runs, sent)
           v == Moved(e, i, spent, fetched)
<1>1. /\ session \in Session /\ e \in Exec /\ SessionStands(rows, session)
      /\ ExecStands(session, label, w, e) /\ i \in e.todo /\ label # "plan"
      /\ status \in {"complete", "failed"} /\ outcome \in Outcome /\ runs \in Seq(Nat)
      /\ sent \in Nat /\ spent \in Nat /\ fetched \in Seq(Post)
  BY DEF MayTell
<1>2. i \in DOMAIN steps /\ steps[i].status = "planned" /\ steps[i] \in Step
  BY <1>1 DEF ExecStands, DueStands, Session
<1>3. /\ new \in Session /\ new.sent = session.sent + sent
      /\ new.seed = session.seed /\ new.live = session.live /\ new.budget = session.budget
      /\ new.finished = session.finished /\ new.peeked = session.peeked
      /\ new.killed = session.killed /\ new.status = session.status
      /\ DOMAIN new.steps = DOMAIN steps
      /\ new.steps[i] = ToldStep(steps[i], status, outcome, runs)
      /\ \A j \in DOMAIN steps : j # i => new.steps[j] = steps[j]
  BY <1>1, <1>2, ToldIs
<1>4. /\ new.steps[i].status = status /\ new.steps[i].outcome = outcome /\ new.steps[i].runs = runs
      /\ new.steps[i].source = steps[i].source /\ new.steps[i].method = steps[i].method
      /\ new.steps[i].target = steps[i].target /\ new.steps[i].seed = steps[i].seed
      /\ new.steps[i].generation = steps[i].generation
  BY <1>1, <1>2, <1>3, ToldStepIs
<1>5. /\ v \in Exec /\ v.session = e.session /\ v.todo = e.todo \ {i}
      /\ v.spent = e.spent + spent /\ v.fetched = fetched
  <2>1. e.spent \in Nat /\ e.todo \ {i} \in SUBSET (Nat \ {0}) /\ spent \in Nat
    BY <1>1 DEF Exec
  <2>2. e.spent + spent \in Nat
    BY <2>1
  <2> QED
    BY <1>1, <2>1, <2>2 DEF Exec, Moved
<1> HIDE DEF new, v
<1>6. \A j \in DOMAIN steps :
         /\ new.steps[j].method = steps[j].method /\ new.steps[j].target = steps[j].target
         /\ new.steps[j].source = steps[j].source /\ new.steps[j].seed = steps[j].seed
         /\ new.steps[j].generation = steps[j].generation
         /\ j # i => new.steps[j] = steps[j]
         /\ steps[j].status = "complete" => new.steps[j].status = "complete"
  BY <1>2, <1>3, <1>4
<1>7. ASSUME NEW j \in DOMAIN new.steps
      PROVE  StepStands(rows, new.seed, new.steps, j)
  <2>1. j \in DOMAIN steps /\ StepStands(rows, session.seed, steps, j)
    BY <1>1, <1>3 DEF SessionStands
  <2>2. \A n \in DOMAIN new.steps[j].runs :
           /\ new.steps[j].runs[n] \in DOMAIN rows
           /\ new.steps[j].status = "complete" => rows[new.steps[j].runs[n]].status = "complete"
    <3>1. CASE j = i
      BY <1>4, <3>1 DEF MayTell
    <3>2. CASE j # i
      BY <1>6, <2>1, <3>2 DEF StepStands
    <3> QED
      BY <3>1, <3>2
  <2>3. LedTo(rows, session.seed, steps, j) => LedTo(rows, new.seed, new.steps, j)
    <3>1. 1..(j - 1) \subseteq DOMAIN steps
      <4>1. steps \in Seq(Step)
        BY <1>1 DEF Session
      <4>2. DOMAIN steps = 1..Len(steps) /\ Len(steps) \in Nat
        BY <4>1
      <4> QED
        BY <2>1, <4>2
    <3>2. ASSUME NEW k \in 1..(j - 1), steps[k].method = "fetch_post",
                 steps[k].status = "complete", steps[k].target = steps[j].seed
          PROVE  /\ new.steps[k].method = "fetch_post" /\ new.steps[k].status = "complete"
                 /\ new.steps[k].target = new.steps[j].seed
      BY <1>6, <2>1, <3>1, <3>2
    <3> QED
      BY <1>3, <1>6, <2>1, <3>2 DEF LedTo
  <2> QED
    BY <1>6, <2>1, <2>2, <2>3 DEF StepStands
<1>8. ASSUME NEW todo, todo \subseteq e.todo \ {i}, Plain(new.steps, todo)
      PROVE  new.sent = e.spent + spent /\ new.sent <= session.budget
  <2>1. Plain(steps, e.todo)
    BY <1>1, <1>3, <1>8 DEF Plain
  <2>2. Len(runs) <= 1 /\ outcome # "error"
    BY <1>2, <1>3, <1>4, <1>8 DEF Plain
  <2>3. session.sent = e.spent
    BY <1>1, <2>1 DEF ExecStands
  <2>4. sent = spent /\ e.spent + spent <= session.budget
    BY <2>1, <2>2 DEF MayTell
  <2> QED
    BY <1>3, <2>3, <2>4
<1>9. SessionStands(rows, new)
  <2>1. Plain(new.steps, {}) => new.sent <= new.budget
    BY <1>3, <1>8
  <2>2. new.finished => new.peeked
    BY <1>1, <1>3 DEF ExecStands
  <2> QED
    BY <1>3, <1>7, <2>1, <2>2 DEF SessionStands
<1>10. DueStands("step", new.steps, new.live, v)
  <2>1. \A j \in v.todo : j \in DOMAIN new.steps /\ new.steps[j].status = "planned"
    BY <1>1, <1>3, <1>5 DEF ExecStands, DueStands
  <2>2. ASSUME NEW j \in DOMAIN new.steps, new.steps[j].status = "planned",
               IsLocal(new.steps[j]) \/ new.live
        PROVE  j \in v.todo
    <3>1. j # i
      BY <1>1, <1>4, <2>2
    <3>2. j \in DOMAIN steps /\ steps[j].status = "planned" /\ (IsLocal(steps[j]) \/ session.live)
      BY <1>3, <2>2, <3>1
    <3>3. j \in e.todo
      BY <1>1, <3>2 DEF ExecStands, DueStands
    <3> QED
      BY <1>5, <3>1, <3>3
  <2>3. ASSUME NEW j \in DOMAIN fetched
        PROVE  \E k \in DOMAIN new.steps :
                  /\ new.steps[k].method = "fetch_post" /\ new.steps[k].status = "complete"
                  /\ new.steps[k].target = fetched[j]
    <3>1. CASE \E k \in DOMAIN e.fetched : fetched[j] = e.fetched[k]
      <4>1. PICK k \in DOMAIN e.fetched : fetched[j] = e.fetched[k]
        BY <3>1
      <4>2. PICK x \in DOMAIN steps : /\ steps[x].method = "fetch_post"
                                      /\ steps[x].status = "complete"
                                      /\ steps[x].target = e.fetched[k]
        BY <1>1 DEF ExecStands, DueStands
      <4> QED
        BY <1>3, <1>6, <4>1, <4>2
    <3>2. CASE /\ status = "complete" /\ steps[i].method = "fetch_post"
               /\ fetched[j] = steps[i].target
      BY <1>2, <1>3, <1>4, <3>2
    <3> QED
      BY <3>1, <3>2 DEF MayTell
  <2> QED
    BY <1>5, <2>1, <2>2, <2>3 DEF DueStands
<1>11. Plain(new.steps, v.todo) => new.sent = v.spent /\ new.sent <= new.budget
  BY <1>3, <1>5, <1>8
<1>12. /\ ~ new.killed /\ (new.finished => new.peeked)
       /\ "step" \notin LookupLabel
  BY <1>1, <1>3 DEF ExecStands, LookupLabel
<1>13. ExecStands(new, "step", None, v)
  BY <1>10, <1>11, <1>12 DEF ExecStands
<1> QED
  BY <1>5, <1>9, <1>13 DEF ToldWell, new, v


LEMMA FinishedIs ==
  ASSUME SessionInv, NEW p \in SessionProcess, exec[p] # None \/ pc[p] # "idle", exec[p].todo # {},
         NEW status, NEW outcome, NEW runs, NEW sent
  PROVE  FinishedStep(p, status, outcome, runs, sent)
            = [sessions EXCEPT ![exec[p].session] =
                  Told(Mine(p), CurrentStep(p), status, outcome, runs, sent)]
<1> DEFINE s == exec[p].session
           i == CurrentStep(p)
<1>1. /\ s \in DOMAIN sessions /\ sessions[s] \in Session /\ sessions \in Seq(Session)
      /\ ExecStands(Mine(p), pc[p], work[p], exec[p])
  BY ExecutingFacts, SessionFacts DEF Mine
<1>2. i \in exec[p].todo
  BY CurrentIsDue
<1>3. i \in DOMAIN sessions[s].steps /\ sessions[s].steps \in Seq(Step)
  BY <1>1, <1>2 DEF ExecStands, DueStands, Mine, Session
<1>4. sessions[s].steps[i] \in Step
  BY <1>3
<1> HIDE DEF s, i
<1> DEFINE step == ToldStep(sessions[s].steps[i], status, outcome, runs)
<1>5. FinishedStep(p, status, outcome, runs, sent)
         = [sessions EXCEPT ![s].steps[i] = step, ![s].sent = @ + sent]
  BY DEF FinishedStep, ToldStep, s, i
<1> HIDE DEF step
<1>6. [sessions EXCEPT ![s].steps[i] = step, ![s].sent = @ + sent]
         = [sessions EXCEPT ![s] = [sessions[s] EXCEPT
               !.steps = [sessions[s].steps EXCEPT ![i] = step], !.sent = @ + sent]]
  BY <1>1, <1>3 DEF Session
<1> QED
  BY <1>5, <1>6 DEF Mine, Told, s, i, step

LEMMA NextStepIs ==
  ASSUME SessionInv, NEW p \in SessionProcess, exec[p] # None \/ pc[p] # "idle",
         NEW spent, NextStep(p, spent)
  PROVE  exec' = [exec EXCEPT ![p] = Moved(exec[p], CurrentStep(p), spent, exec[p].fetched)]
<1>1. exec[p] \in Exec /\ exec \in [SessionProcess -> Exec \cup {None}]
  BY ExecutingFacts, SessionFacts
<1>2. exec' = [exec EXCEPT ![p].todo = @ \ {CurrentStep(p)}, ![p].spent = @ + spent]
  BY DEF NextStep
<1> QED
  BY <1>1, <1>2 DEF Moved, Exec

(* The current step of an invocation is told.                              *)
TellsStep(p, status, outcome, runs, sent, spent, fetched) ==
    /\ exec[p].todo # {} /\ pc[p] # "idle"
    /\ MayTell(lookups, Mine(p), pc[p], work[p], exec[p], CurrentStep(p),
               status, outcome, runs, sent, spent, fetched)
    /\ sessions' = FinishedStep(p, status, outcome, runs, sent)
    /\ exec' = [exec EXCEPT ![p] = Moved(exec[p], CurrentStep(p), spent, fetched)]
    /\ lookups' = lookups /\ pc'[p] = "step" /\ work'[p] = None
    /\ \A q \in Process : q # p => pc'[q] = pc[q] /\ work'[q] = work[q]

LEMMA TellKeeps ==
  ASSUME SessionInv, NEW p \in SessionProcess, LookupsKept,
         NEW status, NEW outcome, NEW runs, NEW sent, NEW spent, NEW fetched,
         TellsStep(p, status, outcome, runs, sent, spent, fetched)
  PROVE  SessionInv'
<1> DEFINE session == Told(Mine(p), CurrentStep(p), status, outcome, runs, sent)
           e == Moved(exec[p], CurrentStep(p), spent, fetched)
           s == exec[p].session
<1>1. /\ exec[p].todo # {} /\ pc[p] # "idle"
      /\ MayTell(lookups, Mine(p), pc[p], work[p], exec[p], CurrentStep(p),
                 status, outcome, runs, sent, spent, fetched)
      /\ lookups' = lookups /\ pc'[p] = "step" /\ work'[p] = None
      /\ \A q \in Process : q # p => pc'[q] = pc[q] /\ work'[q] = work[q]
      /\ exec' = [exec EXCEPT ![p] = e]
  BY DEF TellsStep
<1>2. exec[p] # None /\ exec[p] \in Exec /\ None \notin Exec
  BY <1>1, ExecutingFacts, SessionFacts
<1>3. ToldWell(lookups, session, e)
  BY <1>1, TellingKeeps
<1>4. e.session = s
  BY <1>2 DEF Moved, Exec
<1>5. sessions' = [sessions EXCEPT ![s] = session]
  <2>1. sessions' = FinishedStep(p, status, outcome, runs, sent)
    BY DEF TellsStep
  <2> QED
    BY <1>1, <2>1, FinishedIs
<1> HIDE DEF session, e, s
<1>6. e \in Exec /\ e # None /\ SessionStands(lookups, session) /\ ExecStands(session, "step", None, e)
  BY <1>2, <1>3 DEF ToldWell
<1>7. SessionStepOf(p, s, session, e)
  BY <1>1, <1>2, <1>4, <1>5, <1>6 DEF SessionStepOf, s
<1> QED
  BY <1>7, SessionStepKeeps


LEMMA StepFacts ==
  ASSUME SessionInv, NEW p \in SessionProcess, AtStep(p)
  PROVE  /\ pc[p] = "step" /\ work[p] = None /\ p \in Process
         /\ exec[p] # None /\ exec[p] \in Exec /\ exec[p].todo # {}
         /\ Mine(p) \in Session /\ SessionStands(lookups, Mine(p))
         /\ ExecStands(Mine(p), "step", None, exec[p])
         /\ CurrentStep(p) \in exec[p].todo /\ CurrentStep(p) \in DOMAIN Mine(p).steps
         /\ Current(p) \in Step /\ Mine(p).budget \in Nat /\ exec[p].spent \in Nat
<1>1. pc[p] = "step" /\ exec[p].todo # {} /\ p \in Process /\ LookupInv
  BY SessionFacts DEF AtStep, At
<1>2. work[p] = None
  BY <1>1, IdleHasNone
<1>3. /\ exec[p] # None /\ exec[p] \in Exec /\ Mine(p) \in Session
      /\ SessionStands(lookups, Mine(p)) /\ ExecStands(Mine(p), "step", None, exec[p])
  BY <1>1, <1>2, ExecutingFacts
<1>4. CurrentStep(p) \in exec[p].todo
  BY <1>1, CurrentIsDue
<1>5. CurrentStep(p) \in DOMAIN Mine(p).steps /\ Mine(p).steps \in Seq(Step)
  BY <1>3, <1>4 DEF ExecStands, DueStands, Session
<1>6. Current(p) \in Step /\ Mine(p).budget \in Nat /\ exec[p].spent \in Nat
  BY <1>3, <1>5 DEF Current, Session, Exec
<1> QED
  BY <1>1, <1>2, <1>3, <1>4, <1>5, <1>6

(* A step that ends without a lookup.                                      *)
LEMMA PlainTelling ==
  ASSUME SessionInv, NEW p \in SessionProcess, AtStep(p), UNCHANGED <<answers, lookups, pc, work>>,
         origin' \in [Seed -> Origin],
         NEW status \in {"complete", "failed"}, NEW outcome \in Outcome,
         NEW sent, sent \in Nat, NEW spent, spent \in Nat, NEW fetched, fetched \in Seq(Post),
         \A j \in DOMAIN fetched :
            \/ \E k \in DOMAIN exec[p].fetched : fetched[j] = exec[p].fetched[k]
            \/ /\ status = "complete" /\ Current(p).method = "fetch_post"
               /\ fetched[j] = Current(p).target,
         Plain(Mine(p).steps, exec[p].todo) /\ outcome # "error" =>
            sent = spent /\ exec[p].spent + spent <= Mine(p).budget,
         sessions' = FinishedStep(p, status, outcome, <<>>, sent),
         exec' = [exec EXCEPT ![p] = Moved(exec[p], CurrentStep(p), spent, fetched)]
  PROVE  SessionInv'
<1>1. LookupsKept
  BY RewriteKeeps DEF SessionInv
<1>2. <<>> \in Seq(Nat) /\ DOMAIN (<<>>) = {}
  OBVIOUS
<1>3. "step" # "plan"
  OBVIOUS
<1>4. MayTell(lookups, Mine(p), "step", None, exec[p], CurrentStep(p),
              status, outcome, <<>>, sent, spent, fetched)
  BY <1>2, <1>3, StepFacts DEF MayTell, Current
<1>5. pc[p] = "step" /\ work[p] = None /\ exec[p].todo # {} /\ pc[p] # "idle"
  BY StepFacts
<1>6. TellsStep(p, status, outcome, <<>>, sent, spent, fetched)
  BY <1>4, <1>5 DEF TellsStep
<1> QED
  BY <1>1, <1>6, TellKeeps

LEMMA FetchedKept ==
  ASSUME SessionInv, NEW p \in SessionProcess, AtStep(p)
  PROVE  /\ exec[p].fetched \in Seq(Post)
         /\ \A j \in DOMAIN exec[p].fetched :
               \E k \in DOMAIN exec[p].fetched : exec[p].fetched[j] = exec[p].fetched[k]
BY StepFacts DEF Exec

LEMMA QuietStep ==
  ASSUME SessionInv, UNCHANGED lookupVars
  PROVE  UNCHANGED <<answers, lookups, pc, work>> /\ origin' \in [Seed -> Origin]
BY DEF SessionInv, LookupInv, lookupVars

LEMMA LocalKeeps ==
  ASSUME SessionInv, NEW p \in SessionProcess, ExecuteLocal(p) \/ StepExhausted(p)
  PROVE  SessionInv'
<1>1. /\ AtStep(p) /\ UNCHANGED lookupVars /\ NextStep(p, 0)
      /\ \/ sessions' = FinishedStep(p, "complete", "success", <<>>, 0)
         \/ sessions' = FinishedStep(p, "failed", "budget_exhausted", <<>>, 0)
  BY DEF ExecuteLocal, StepExhausted, Due
<1>2. exec' = [exec EXCEPT ![p] = Moved(exec[p], CurrentStep(p), 0, exec[p].fetched)]
  BY <1>1, StepFacts, NextStepIs
<1>3. /\ UNCHANGED <<answers, lookups, pc, work>> /\ origin' \in [Seed -> Origin]
      /\ exec[p].fetched \in Seq(Post)
      /\ \A j \in DOMAIN exec[p].fetched :
            \E k \in DOMAIN exec[p].fetched : exec[p].fetched[j] = exec[p].fetched[k]
  BY <1>1, QuietStep, FetchedKept
<1>4. Plain(Mine(p).steps, exec[p].todo) => exec[p].spent + 0 <= Mine(p).budget
  <2>1. exec[p].spent \in Nat /\ ExecStands(Mine(p), "step", None, exec[p])
    BY <1>1, StepFacts
  <2> QED
    BY <2>1 DEF ExecStands
<1>5. 0 \in Nat /\ {"success", "budget_exhausted"} \subseteq Outcome
  BY DEF Outcome
<1>6. CASE sessions' = FinishedStep(p, "complete", "success", <<>>, 0)
  BY <1>1, <1>2, <1>3, <1>4, <1>5, <1>6, PlainTelling
<1>7. CASE sessions' = FinishedStep(p, "failed", "budget_exhausted", <<>>, 0)
  BY <1>1, <1>2, <1>3, <1>4, <1>5, <1>7, PlainTelling
<1> QED
  BY <1>1, <1>6, <1>7


(* What is fetched was found by a lookup, hence a post.                    *)
LEMMA FetchesPost ==
  ASSUME SessionInv, NEW p \in SessionProcess, AtStep(p), Current(p).method = "fetch_post"
  PROVE  Current(p).target \in Post
<1> DEFINE steps == Mine(p).steps
           i == CurrentStep(p)
<1>1. StepStands(lookups, Mine(p).seed, steps, i)
  BY StepFacts DEF SessionStands
<1>2. LedTo(lookups, Mine(p).seed, steps, i)
  BY <1>1 DEF StepStands, Current
<1>3. PICK r \in DOMAIN lookups : Current(p).target \in lookups[r].results
  BY <1>2 DEF LedTo, Current
<1>4. lookups \in Seq(Lookup)
  BY DEF SessionInv, LookupInv, RowsStand
<1>5. lookups[r] \in Lookup
  BY <1>4
<1>6. lookups[r].results \in SUBSET Post
  BY <1>5 DEF Lookup
<1> QED
  BY <1>3, <1>6

LEMMA FetchKeeps ==
  ASSUME SessionInv, NEW p \in SessionProcess, StepFetches(p)
  PROVE  SessionInv'
<1> DEFINE target == Current(p).target
           fetched == exec[p].fetched
<1>1. /\ AtStep(p) /\ ~ Spent(p) /\ Current(p).method = "fetch_post"
      /\ UNCHANGED <<answers, lookups, pc, work>>
  BY DEF StepFetches, Due
<1>2. target \in Post /\ target \in Seed
  BY <1>1, FetchesPost DEF Seed
<1>3. origin \in [Seed -> Origin] /\ Synced \in Origin
  BY DEF SessionInv, LookupInv, Origin
<1>4. exec[p].spent + 1 <= Mine(p).budget
  <2>1. exec[p].spent \in Nat /\ Mine(p).budget \in Nat
    BY <1>1, StepFacts
  <2>2. ~ (Mine(p).budget - exec[p].spent <= 0)
    BY <1>1 DEF Spent, Remaining
  <2>3. \A b, n \in Nat : ~ (b - n <= 0) => n + 1 <= b
    OBVIOUS
  <2> QED
    BY ONLY <2>1, <2>2, <2>3
<1>5. /\ fetched \in Seq(Post)
      /\ \A j \in DOMAIN fetched : \E k \in DOMAIN fetched : fetched[j] = fetched[k]
  BY <1>1, FetchedKept
<1>6. /\ 0 \in Nat /\ 1 \in Nat /\ "error" \in Outcome
      /\ {"success", "provider_failure"} \subseteq Outcome
  BY DEF Outcome
<1>7. CASE /\ origin' = [origin EXCEPT ![target] = Synced]
           /\ sessions' = FinishedStep(p, "complete", "success", <<>>, 1)
           /\ exec' = [exec EXCEPT ![p].todo = @ \ {CurrentStep(p)}, ![p].spent = @ + 1,
                                   ![p].fetched = Append(@, target)]
  <2> DEFINE more == Append(fetched, target)
  <2>1. origin' \in [Seed -> Origin]
    BY <1>2, <1>3, <1>7
  <2>2. more \in Seq(Post) /\ \A j \in DOMAIN more :
           (\E k \in DOMAIN fetched : more[j] = fetched[k]) \/ more[j] = target
    BY <1>2, <1>5
  <2>3. exec' = [exec EXCEPT ![p] = Moved(exec[p], CurrentStep(p), 1, more)]
    <3>1. exec[p] \in Exec /\ exec \in [SessionProcess -> Exec \cup {None}]
      BY <1>1, StepFacts, SessionFacts
    <3> QED
      BY <1>7, <3>1 DEF Moved, Exec
  <2> HIDE DEF more
  <2>4. "success" # "error" /\ "complete" \in {"complete", "failed"} /\ "success" \in Outcome
    BY <1>6
  <2>5. \A j \in DOMAIN more :
           \/ \E k \in DOMAIN exec[p].fetched : more[j] = exec[p].fetched[k]
           \/ /\ "complete" = "complete" /\ Current(p).method = "fetch_post"
              /\ more[j] = Current(p).target
    BY <1>1, <2>2
  <2>6. more \in Seq(Post) /\ sessions' = FinishedStep(p, "complete", "success", <<>>, 1)
    BY <1>7, <2>2
  <2> QED
    BY <1>1, <1>4, <1>6, <2>1, <2>3, <2>4, <2>5, <2>6, PlainTelling
<1>8. ASSUME origin' = origin, NextStep(p, 1),
             sessions' = FinishedStep(p, "failed", "provider_failure", <<>>, 1)
      PROVE  SessionInv'
  <2>1. exec' = [exec EXCEPT ![p] = Moved(exec[p], CurrentStep(p), 1, fetched)]
    BY <1>1, <1>8, StepFacts, NextStepIs
  <2>2. origin' \in [Seed -> Origin]
    BY <1>3, <1>8
  <2> HIDE DEF fetched
  <2> QED
    BY <1>1, <1>4, <1>5, <1>6, <1>8, <2>1, <2>2, PlainTelling DEF fetched
<1>9. ASSUME origin' = origin, NextStep(p, 0),
             sessions' = FinishedStep(p, "failed", "error", <<>>, 1)
      PROVE  SessionInv'
  <2>1. exec' = [exec EXCEPT ![p] = Moved(exec[p], CurrentStep(p), 0, fetched)]
    BY <1>1, <1>9, StepFacts, NextStepIs
  <2>2. origin' \in [Seed -> Origin]
    BY <1>3, <1>9
  <2> QED
    BY <1>1, <1>5, <1>6, <1>9, <2>1, <2>2, PlainTelling
<1> QED
  BY <1>7, <1>8, <1>9 DEF StepFetches

(* The lookups of a step have returned.                                    *)
LEMMA ReturnKeeps ==
  ASSUME SessionInv, NEW p \in SessionProcess, StepReturns(p)
  PROVE  SessionInv'
<1> DEFINE i == CurrentStep(p)
           w == work[p]
           e == exec[p]
           fetched == exec[p].fetched
<1>1. pc[p] = "returned" /\ UNCHANGED <<answers, origin, lookups>>
      /\ work' = [work EXCEPT ![p] = None] /\ Goto(p, "step")
  BY DEF StepReturns, At
<1>2. p \in Process /\ LookupInv
  BY SessionFacts
<1>3. LookupsKept
  BY <1>1, <1>2, InvocationFacts, DoneKeeps
<1>4. /\ pc'[p] = "step" /\ work'[p] = None
      /\ \A q \in Process : q # p => pc'[q] = pc[q] /\ work'[q] = work[q]
  BY <1>1, <1>2, InvocationFacts DEF Goto
<1>5. w \in Work /\ w # None /\ WorkStands(answers, lookups, "returned", w)
  BY <1>1, <1>2, WorkAt
<1>6. /\ exec[p] # None /\ e \in Exec /\ Mine(p) \in Session /\ SessionStands(lookups, Mine(p))
      /\ ExecStands(Mine(p), "returned", w, e)
  BY <1>1, ExecutingFacts
<1>7. exec[p].todo # {}
  BY <1>6 DEF ExecStands, LookupLabel
<1>8. i \in exec[p].todo
  BY <1>6, <1>7, CurrentIsDue
<1>9. /\ fetched \in Seq(Post)
      /\ \A j \in DOMAIN fetched : \E k \in DOMAIN fetched : fetched[j] = fetched[k]
  BY <1>6 DEF Exec
<1>10. w.ran \in Seq(Nat) /\ w.sent \in Nat /\ w.limit \in Nat /\ e.spent \in Nat
       /\ Mine(p).budget \in Nat
  BY <1>5, <1>6 DEF Work, Exec, Session
<1>11. \A n \in DOMAIN w.ran : w.ran[n] \in DOMAIN lookups
  BY <1>5 DEF WorkStands
<1>12. Len(w.ran) <= 1 => e.spent + w.sent <= Mine(p).budget
  <2>1. w.limit + e.spent <= Mine(p).budget
    BY <1>5, <1>6 DEF ExecStands
  <2>2. Len(w.ran) <= 1 => w.sent <= w.limit
    <3>1. Len(w.ran) \in Nat /\ (Len(w.ran) = 0 => w.ran = <<>>)
      BY <1>10
    <3>2. (w.ran = <<>> => w.sent = 0) /\ (Len(w.ran) = 1 => w.sent <= w.limit)
      BY <1>5 DEF WorkStands
    <3>3. \A n \in Nat : n <= 1 => n = 0 \/ n = 1
      OBVIOUS
    <3>4. 0 <= w.limit
      BY <1>10
    <3> QED
      BY <3>1, <3>2, <3>3, <3>4
  <2> QED
    BY <1>10, <2>1, <2>2
<1>13. ASSUME NEW status \in {"complete", "failed"}, NEW outcome \in Outcome,
              NEW runs, runs \in Seq(Nat), NEW spent, spent \in Nat, NextStep(p, spent),
              \A n \in DOMAIN runs : /\ runs[n] \in DOMAIN lookups
                                     /\ status = "complete" => lookups[runs[n]].status = "complete",
              Len(runs) <= 1 /\ outcome # "error" =>
                 w.sent = spent /\ e.spent + spent <= Mine(p).budget,
              sessions' = FinishedStep(p, status, outcome, runs, w.sent)
       PROVE  SessionInv'
  <2>1. exec' = [exec EXCEPT ![p] = Moved(exec[p], CurrentStep(p), spent, fetched)]
    BY <1>6, <1>13, NextStepIs
  <2> HIDE DEF w, i
  <2>2. MayTell(lookups, Mine(p), "returned", w, e, i, status, outcome, runs, w.sent, spent,
                fetched)
    BY <1>6, <1>7, <1>8, <1>9, <1>10, <1>13 DEF MayTell
  <2>3. TellsStep(p, status, outcome, runs, w.sent, spent, fetched)
    BY <1>1, <1>4, <1>7, <1>13, <2>1, <2>2 DEF TellsStep, w, i
  <2> QED
    BY <1>3, <2>3, TellKeeps
<1>14. /\ <<>> \in Seq(Nat) /\ DOMAIN (<<>>) = {} /\ 0 \in Nat
       /\ {"error", "success", "provider_failure"} \subseteq Outcome
  BY DEF Outcome
<1>15. CASE w.unwinds = "raise"
  <2>1. sessions' = FinishedStep(p, "failed", "error", <<>>, w.sent) /\ NextStep(p, 0)
    BY <1>15 DEF StepReturns
  <2> HIDE DEF w, e
  <2> QED
    BY <1>13, <1>14, <2>1
<1>16. CASE w.unwinds # "raise"
  <2> DEFINE done == AllComplete(w.ran)
             status == IF done THEN "complete" ELSE "failed"
             outcome == IF done THEN "success" ELSE "provider_failure"
  <2>1. sessions' = FinishedStep(p, status, outcome, w.ran, w.sent) /\ NextStep(p, w.sent)
    BY <1>16 DEF StepReturns
  <2>2. status = "complete" => \A n \in DOMAIN w.ran : lookups[w.ran[n]].status = "complete"
    <3>1. done => \A n \in DOMAIN w.ran : lookups[w.ran[n]].status = "complete"
      BY DEF AllComplete, Range
    <3> QED
      BY <3>1
  <2>3. status \in {"complete", "failed"} /\ outcome \in Outcome
    BY <1>14
  <2> HIDE DEF status, outcome, w, e
  <2> QED
    BY <1>10, <1>11, <1>12, <1>13, <2>1, <2>2, <2>3
<1> QED
  BY <1>15, <1>16


(* What another invocation stands on is left alone.                        *)
LEMMA OthersStay ==
  ASSUME SessionInv, LookupsKept, UNCHANGED sessionVars, NEW p \in SessionProcess,
         ProcessStands(sessions, pc'[p], work'[p], exec[p]),
         \A q \in Process : q # p => pc'[q] = pc[q] /\ work'[q] = work[q]
  PROVE  SessionInv'
<1>1. \A q \in SessionProcess : q \in Process
  BY SessionAssumption
<1>2. \A q \in SessionProcess : ProcessStands(sessions, pc'[q], work'[q], exec[q])
  BY <1>1 DEF SessionInv
<1>3. \A q \in Process \ SessionProcess : pc'[q] \notin {"plan", "step"}
  BY DEF SessionInv
<1> QED
  BY <1>2, <1>3, SessionsStay

LEMMA PlanKeeps ==
  ASSUME SessionInv, NEW p \in SessionProcess, StepLookup(p)
  PROVE  SessionInv'
<1> DEFINE s == StepSeed(p)
           provider == Current(p).source
           queue == PlanItems(s, provider, Current(p).method)
           w == NewWork(s, provider, Remaining(p), queue, 0, 1)
<1>1. /\ AtStep(p) /\ ~ IsLocal(Current(p)) /\ ~ Spent(p)
      /\ UNCHANGED <<answers, origin, lookups>>
  BY DEF StepLookup, Due
<1>2. /\ p \in Process /\ LookupInv /\ pc[p] = "step" /\ work[p] = None
      /\ exec[p] # None /\ exec[p].todo # {}
      /\ Mine(p) \in Session /\ Current(p) \in Step
      /\ ExecStands(Mine(p), "step", None, exec[p])
      /\ Mine(p).budget \in Nat /\ exec[p].spent \in Nat
  BY <1>1, StepFacts, SessionFacts
<1>3. origin' \in [Seed -> Origin]
  BY <1>1, <1>2, InvocationFacts
<1>4. s \in Seed
  BY <1>2 DEF StepSeed, Session, Step
<1>5. provider \in Provider
  BY <1>1, <1>2 DEF IsLocal, Step
<1>6. Remaining(p) \in Nat \ {0} /\ Remaining(p) + exec[p].spent <= Mine(p).budget
  <2>1. ~ (Mine(p).budget - exec[p].spent <= 0)
    BY <1>1 DEF Spent, Remaining
  <2>2. \A b, n \in Nat : ~ (b - n <= 0) => b - n \in Nat \ {0} /\ (b - n) + n <= b
    OBVIOUS
  <2> QED
    BY <1>2, <2>1, <2>2 DEF Remaining
<1>7. CASE work' = [work EXCEPT ![p] = w] /\ Goto(p, "check") /\ UNCHANGED sessionVars
  <2>1. queue \in Seq(Item) /\ 1 \in Page
    BY <1>2, <1>4, PlansAreItems DEF Page
  <2> HIDE DEF s, provider, queue
  <2>2. MayPlan(answers, lookups, s, provider, Remaining(p), queue, 0, 1)
    BY <1>4, <1>5, <1>6, <2>1 DEF MayPlan
  <2>3. w \in Work /\ w.run = 0 /\ WorkStands(answers, lookups, "check", w)
    BY <2>2, NewWorkStands
  <2>4. w.limit = Remaining(p)
    BY DEF NewWork
  <2> HIDE DEF w
  <2>5. LookupsKept
    BY <1>1, <1>2, <1>7, <2>3, NewWorkKeeps
  <2>6. /\ pc'[p] = "check" /\ work'[p] = w
        /\ \A q \in Process : q # p => pc'[q] = pc[q] /\ work'[q] = work[q]
    BY <1>2, <1>7, InvocationFacts DEF Goto
  <2>7. DueStands("check", Mine(p).steps, Mine(p).live, exec[p])
    BY <1>2 DEF ExecStands, DueStands
  <2>8. w.limit + exec[p].spent <= Mine(p).budget
    BY <1>6, <2>4
  <2>9. ExecStands(Mine(p), "check", w, exec[p])
    BY <1>2, <2>7, <2>8 DEF ExecStands
  <2>10. ProcessStands(sessions, pc'[p], work'[p], exec[p])
    BY <1>2, <2>6, <2>9, SessionFacts DEF ProcessStands, Mine
  <2> QED
    BY <1>7, <2>5, <2>6, <2>10, OthersStay
<1>8. CASE /\ sessions' = FinishedStep(p, "failed", "error", <<>>, 0) /\ NextStep(p, 0)
           /\ UNCHANGED <<pc, work>>
  <2>1. exec' = [exec EXCEPT ![p] = Moved(exec[p], CurrentStep(p), 0, exec[p].fetched)]
    BY <1>2, <1>8, NextStepIs
  <2>2. "error" \in Outcome /\ 0 \in Nat
    BY DEF Outcome
  <2>3. /\ exec[p].fetched \in Seq(Post)
        /\ \A j \in DOMAIN exec[p].fetched :
              \E k \in DOMAIN exec[p].fetched : exec[p].fetched[j] = exec[p].fetched[k]
    BY <1>1, FetchedKept
  <2> QED
    BY <1>1, <1>3, <1>8, <2>1, <2>2, <2>3, PlainTelling
<1> QED
  BY <1>7, <1>8 DEF StepLookup

(* Time that runs out, and a step of a lookup.                             *)
LEMMA ExpireKeeps ==
  ASSUME SessionInv, NEW p \in SessionProcess, Expire(p)
  PROVE  SessionInv'
<1> DEFINE e == [exec[p] EXCEPT !.late = TRUE]
           s == exec[p].session
<1>1. AtStep(p) /\ UNCHANGED lookupVars /\ sessions' = sessions
  BY DEF Expire, Due
<1>2. /\ pc[p] = "step" /\ work[p] = None /\ exec[p] # None /\ exec[p] \in Exec
      /\ SessionStands(lookups, Mine(p)) /\ ExecStands(Mine(p), "step", None, exec[p])
  BY <1>1, StepFacts
<1>3. /\ e \in Exec /\ e.session = s /\ e.todo = exec[p].todo /\ e.spent = exec[p].spent
      /\ e.fetched = exec[p].fetched
  BY <1>2 DEF Exec
<1>4. exec' = [exec EXCEPT ![p] = e]
  BY <1>2, SessionFacts DEF Expire
<1> HIDE DEF e
<1>5. e # None /\ ExecStands(Mine(p), "step", None, e)
  BY <1>2, <1>3, SessionFacts DEF ExecStands, DueStands
<1>6. LookupsKept
  BY <1>1, QuietStep, RewriteKeeps DEF SessionInv
<1>7. sessions' = [sessions EXCEPT ![s] = Mine(p)]
  BY <1>1, SessionFacts DEF Mine
<1>8. SessionStepOf(p, s, Mine(p), e)
  BY <1>1, <1>2, <1>3, <1>4, <1>5, <1>6, <1>7 DEF SessionStepOf, lookupVars
<1> QED
  BY <1>8, SessionStepKeeps

LEMMA LookingKeeps ==
  ASSUME SessionInv, NEW p \in SessionProcess, LookupStep(p), UNCHANGED sessionVars
  PROVE  SessionInv'
<1>1. p \in Process /\ LookupInv
  BY SessionFacts
<1>2. LookupsKept
  BY <1>1, LookupStepKeeps
<1>3. /\ pc[p] \in LookupLabel /\ pc'[p] \in LookupLabel
      /\ work[p] # None /\ work'[p].limit = work[p].limit
      /\ \A q \in Process : q # p => pc'[q] = pc[q] /\ work'[q] = work[q]
  BY <1>1, LookupStepIsOwn
<1>4. pc[p] # "idle" /\ pc[p] # "plan" /\ pc'[p] # "idle" /\ pc'[p] # "plan"
  BY <1>3 DEF LookupLabel
<1>5. exec[p] # None /\ exec[p].session \in DOMAIN sessions
      /\ ExecStands(Mine(p), pc[p], work[p], exec[p])
  BY <1>4, ExecutingFacts
<1>6. ExecStands(Mine(p), pc'[p], work'[p], exec[p])
  BY <1>3, <1>4, <1>5 DEF ExecStands, DueStands
<1>7. ProcessStands(sessions, pc'[p], work'[p], exec[p])
  BY <1>5, <1>6 DEF ProcessStands, Mine
<1> QED
  BY <1>2, <1>3, <1>7, OthersStay


(* What a report and a kill leave of a session.                            *)
LEMMA ReportedIs ==
  ASSUME NEW session \in Session
  PROVE  LET new == Reported(session) IN
         /\ new \in Session /\ new.finished /\ new.steps = session.steps /\ new.seed = session.seed
         /\ new.live = session.live /\ new.budget = session.budget /\ new.sent = session.sent
         /\ new.peeked = session.peeked /\ new.killed = session.killed
         /\ session.finished => new = session
         /\ ~ session.finished =>
               new.status = IF Pending(session.steps) THEN "planned" ELSE "complete"
<1>1. CASE session.finished
  BY <1>1 DEF Reported, Session
<1>2. CASE ~ session.finished
  <2>1. PICK status \in {"planned", "complete"} :
           status = IF Pending(session.steps) THEN "planned" ELSE "complete"
    OBVIOUS
  <2>2. Reported(session) = [session EXCEPT !.finished = TRUE, !.status = status]
    BY <1>2, <2>1 DEF Reported
  <2> QED
    BY <1>2, <2>1, <2>2 DEF Session
<1> QED
  BY <1>1, <1>2

Stopped(session) == [session EXCEPT !.killed = TRUE]

LEMMA StoppedStands ==
  ASSUME NEW rows, NEW session, SessionStands(rows, session)
  PROVE  SessionStands(rows, Stopped(session)) /\ Stopped(session).killed
<1> DEFINE new == Stopped(session)
<1>1. session \in Session
  BY DEF SessionStands
<1>2. /\ new \in Session /\ new.killed /\ new.steps = session.steps /\ new.seed = session.seed
      /\ new.budget = session.budget /\ new.sent = session.sent
  BY <1>1 DEF Stopped, Session
<1> HIDE DEF new
<1>3. SessionStands(rows, new) /\ new.killed
  BY <1>2 DEF SessionStands
<1> QED
  BY <1>3 DEF new

(* A report of a session none of whose steps are left to do.               *)
LEMMA ReportedStands ==
  ASSUME NEW rows, NEW session, SessionStands(rows, session),
         ~ session.finished /\ ~ session.peeked /\ ~ session.killed =>
            \A i \in DOMAIN session.steps :
               session.steps[i].status = "planned" =>
                  ~ IsLocal(session.steps[i]) /\ ~ session.live
  PROVE  SessionStands(rows, Reported(session))
<1> DEFINE new == Reported(session)
<1>1. session \in Session
  BY DEF SessionStands
<1>2. /\ new \in Session /\ new.finished /\ new.steps = session.steps /\ new.seed = session.seed
      /\ new.live = session.live /\ new.budget = session.budget /\ new.sent = session.sent
      /\ new.peeked = session.peeked /\ new.killed = session.killed
      /\ session.finished => new = session
      /\ ~ session.finished =>
            new.status = IF Pending(session.steps) THEN "planned" ELSE "complete"
  BY <1>1, ReportedIs
<1> HIDE DEF new
<1>3. CASE session.finished
  BY <1>2, <1>3 DEF new
<1>4. CASE ~ session.finished
  <2>1. ~ new.peeked /\ ~ new.killed => Tells(new)
    <3>1. new.status = "complete" <=> ~ Pending(new.steps)
      BY <1>2, <1>4
    <3> SUFFICES ASSUME ~ new.peeked, ~ new.killed
                 PROVE  Tells(new)
      OBVIOUS
    <3>2. \A i \in DOMAIN new.steps :
             new.steps[i].status = "planned" => ~ IsLocal(new.steps[i]) /\ ~ new.live
      BY <1>2, <1>4
    <3> QED
      BY <3>1, <3>2 DEF Tells, Pending
  <2> QED
    BY <1>2, <2>1 DEF SessionStands, new
<1> QED
  BY <1>3, <1>4

(* An invocation stops, with its session told or killed.                   *)
LEMMA StopKeeps ==
  ASSUME SessionInv, NEW p \in SessionProcess, exec[p] # None, Stop(p), LookupsKept,
         NEW session, SessionStands(lookups', session), session.finished \/ session.killed,
         sessions' = [sessions EXCEPT ![exec[p].session] = session]
  PROVE  SessionInv'
<1>1. p \in Process /\ pc \in [Process -> Label] /\ work \in [Process -> Work \cup {None}]
  BY SessionFacts, InvocationFacts
<1>2. /\ exec' = [exec EXCEPT ![p] = None] /\ pc'[p] = "idle"
      /\ \A q \in Process : q # p => pc'[q] = pc[q] /\ work'[q] = work[q]
  BY <1>1 DEF Stop, Goto
<1>3. SessionStepOf(p, exec[p].session, session, None)
  BY <1>2 DEF SessionStepOf
<1> QED
  BY <1>3, SessionStepKeeps

LEMMA ReportKeeps ==
  ASSUME SessionInv, NEW p \in SessionProcess, Report(p)
  PROVE  SessionInv'
<1> DEFINE session == Mine(p)
           s == exec[p].session
<1>1. /\ pc[p] = "step" /\ exec[p].todo = {} /\ Stop(p) /\ UNCHANGED <<answers, origin, lookups>>
      /\ sessions' = [sessions EXCEPT ![s] = Reported(@)]
  BY DEF Report, Over, WaveOver, At
<1>2. /\ exec[p] # None /\ SessionStands(lookups, session) /\ s \in DOMAIN sessions
      /\ ExecStands(session, "step", work[p], exec[p]) /\ session \in Session
  BY <1>1, ExecutingFacts
<1>3. \A i \in DOMAIN session.steps :
         session.steps[i].status = "planned" => ~ IsLocal(session.steps[i]) /\ ~ session.live
  BY <1>1, <1>2 DEF ExecStands, DueStands
<1>4. sessions' = [sessions EXCEPT ![s] = Reported(session)]
  BY <1>1 DEF Mine
<1> HIDE DEF session
<1>5. SessionStands(lookups, Reported(session)) /\ Reported(session).finished
  BY <1>2, <1>3, ReportedStands, ReportedIs
<1>6. LookupsKept
  BY <1>1, SessionFacts, InvocationFacts, DoneKeeps DEF Stop
<1> QED
  BY <1>1, <1>2, <1>4, <1>5, <1>6, StopKeeps

LEMMA AbortKeeps ==
  ASSUME SessionInv, NEW p \in SessionProcess, Aborted(p) \/ KillSession(p)
  PROVE  SessionInv'
<1> DEFINE session == Mine(p)
           s == exec[p].session
<1>1. Stop(p) /\ UNCHANGED <<answers, origin>> /\ sessions' = [sessions EXCEPT ![s].killed = TRUE]
  BY DEF Aborted, KillSession
<1>2. exec[p] # None \/ pc[p] # "idle"
  BY DEF Aborted, KillSession, At
<1>3. /\ exec[p] # None /\ SessionStands(lookups, session) /\ s \in DOMAIN sessions
      /\ session \in Session
  BY <1>2, ExecutingFacts
<1>4. LookupsKept
  <2>1. p \in Process /\ LookupInv /\ origin' \in [Seed -> Origin]
    BY <1>1, SessionFacts, InvocationFacts
  <2>2. CASE Aborted(p)
    BY <1>1, <2>1, <2>2, DoneKeeps DEF Aborted, At, Stop
  <2>3. CASE KillSession(p)
    BY <1>1, <2>1, <2>3, KillKeeps DEF KillSession, Stop
  <2> QED
    BY <2>2, <2>3
<1>5. sessions' = [sessions EXCEPT ![s] = Stopped(session)]
  BY <1>1, <1>3, SessionFacts DEF Stopped, Mine
<1> HIDE DEF session
<1>6. SessionStands(lookups', Stopped(session)) /\ Stopped(session).killed
  BY <1>3, <1>4, StoppedStands, SessionStandsOn DEF LookupsKept
<1> QED
  BY <1>1, <1>3, <1>4, <1>5, <1>6, StopKeeps

(* Someone reports a session from elsewhere.                               *)
LEMMA InspectKeeps ==
  ASSUME SessionInv, NEW s \in DOMAIN sessions, Inspect(s)
  PROVE  SessionInv'
<1> DEFINE session == sessions[s]
           run == Executed(s)
           told == Reported(session)
           new == Inspected(session, run)
<1>1. session \in Session /\ SessionStands(lookups, session) /\ sessions \in Seq(Session)
  BY DEF SessionInv, SessionStands
<1>2. /\ UNCHANGED <<answers, origin, lookups, pc, work, exec>>
      /\ sessions' = [sessions EXCEPT ![s] = new]
  <2>1. UNCHANGED <<answers, origin, lookups, pc, work, exec>>
    BY DEF Inspect, lookupVars
  <2>2. sessions' = [sessions EXCEPT ![s] = new]
    BY DEF Inspect
  <2> QED
    BY <2>1, <2>2
<1>3. /\ told \in Session /\ told.finished /\ told.steps = session.steps /\ told.seed = session.seed
      /\ told.live = session.live /\ told.budget = session.budget /\ told.sent = session.sent
      /\ told.peeked = session.peeked /\ told.killed = session.killed
      /\ session.finished => told = session
  BY <1>1, ReportedIs
<1> HIDE DEF told
<1>4. /\ new \in Session /\ new.finished /\ new.steps = session.steps /\ new.seed = session.seed
      /\ new.live = session.live /\ new.budget = session.budget /\ new.sent = session.sent
      /\ new.killed = session.killed /\ (new.peeked <=> session.peeked \/ run)
      /\ new.status = told.status
  <2>1. new = [told EXCEPT !.peeked = told.peeked \/ run]
    BY DEF Inspected, told
  <2>2. PICK b \in BOOLEAN : b <=> told.peeked \/ run
    OBVIOUS
  <2>3. [told EXCEPT !.peeked = told.peeked \/ run] = [told EXCEPT !.peeked = b]
    BY <2>2
  <2> QED
    BY <1>3, <2>1, <2>2, <2>3 DEF Session
<1> HIDE DEF new
<1>5. ~ new.peeked /\ ~ new.killed => Tells(new)
  <2> SUFFICES ASSUME ~ new.peeked, ~ new.killed
               PROVE  Tells(new)
    OBVIOUS
  <2>1. ~ run /\ ~ session.peeked /\ ~ session.killed
    BY <1>4
  <2>2. session.finished
    BY <2>1 DEF SessionInv, Held, Executed
  <2>3. Tells(session) /\ new.status = session.status
    BY <1>1, <1>3, <1>4, <2>1, <2>2 DEF SessionStands
  <2> QED
    BY <1>4, <2>3 DEF Tells
<1>6. SessionStands(lookups, new)
  BY <1>1, <1>4, <1>5 DEF SessionStands
<1>7. ASSUME NEW p \in SessionProcess, exec[p] # None, exec[p].session = s
      PROVE  ExecStands(new, pc[p], work[p], exec[p])
  <2>1. ExecStands(session, pc[p], work[p], exec[p])
    BY <1>7, ExecutingFacts DEF Mine
  <2>2. new.peeked
    BY <1>4, <1>7 DEF Executed
  <2> QED
    BY <1>4, <2>1, <2>2 DEF ExecStands
<1>8. /\ sessions' \in Seq(Session) /\ DOMAIN sessions' = DOMAIN sessions /\ sessions'[s] = new
      /\ \A x \in DOMAIN sessions : x # s => sessions'[x] = sessions[x]
  BY <1>1, <1>2, <1>4
<1>9. \A x \in DOMAIN sessions' : SessionStands(lookups', sessions'[x])
  BY <1>2, <1>6, <1>8 DEF SessionInv
<1>10. \A p \in SessionProcess : ProcessStands(sessions', pc'[p], work'[p], exec'[p])
  <2> SUFFICES ASSUME NEW p \in SessionProcess
               PROVE  ProcessStands(sessions', pc[p], work[p], exec[p])
    BY <1>2
  <2>1. ProcessStands(sessions, pc[p], work[p], exec[p])
    BY SessionFacts
  <2> QED
    BY <1>7, <1>8, <2>1 DEF ProcessStands
<1>11. ExecsApart(exec') /\ Held(sessions', exec')
  BY <1>2, <1>4, <1>8 DEF SessionInv, ExecsApart, Held
<1>12. LookupInv'
  BY <1>2, InvocationFacts, RewriteKeeps DEF SessionInv, LookupsKept, LookupInv
<1> QED
  BY <1>2, <1>8, <1>9, <1>10, <1>11, <1>12 DEF SessionInv


-----------------------------------------------------------------------------
(* Sessions are planned *)

(* A step that nothing is told of yet, asked of the seed of the session.   *)
Fresh(step) == step.status # "complete" /\ step.outcome = None /\ step.runs = <<>>
PlannedStep == {step \in Step : Fresh(step) /\ step.generation = 0 /\ step.method # "fetch_post"}

LEMMA PlannedStepIs ==
  ASSUME NEW source, NEW method, NEW status,
         \/ source = "catalog" /\ method \in Range(LocalMethods)
         \/ source \in Provider /\ method \in Strategy,
         status \in {"planned", "skipped", "excluded"}
  PROVE  NewStep(source, method, None, None, 0, status) \in PlannedStep
<1> DEFINE step == NewStep(source, method, None, None, 0, status)
<1>1. "fetch_post" \notin Range(LocalMethods) /\ "fetch_post" \notin Strategy
  BY SessionAssumption DEF LocalMethods, Range
<1>2. <<>> \in Seq(Nat) /\ 0 \in 0..1 /\ None \in Outcome
  BY DEF Outcome
<1>3. step \in Step
  BY <1>2 DEF NewStep, Step, StepStatus
<1>4. /\ step.status # "complete" /\ step.outcome = None /\ step.runs = <<>>
      /\ step.generation = 0 /\ step.method # "fetch_post"
  BY <1>1 DEF NewStep
<1> QED
  BY <1>3, <1>4 DEF PlannedStep, Fresh

LEMMA PlannedStepsAre ==
  ASSUME NEW s, NEW term
  PROVE  PlannedSteps(s, term) \in Seq(PlannedStep)
<1> DEFINE local == [i \in DOMAIN LocalMethods |-> LocalStep(s, LocalMethods[i])]
           places == (DOMAIN Providers) \X (DOMAIN Strategies) \X {0}
           found == [x \in places |-> ProviderStep(s, term, Providers[x[1]], Strategies[x[2]])]
<1>1. local \in Seq(PlannedStep)
  <2>1. ASSUME NEW i \in DOMAIN LocalMethods
        PROVE  LocalStep(s, LocalMethods[i]) \in PlannedStep
    <3>1. LocalMethods[i] \in Range(LocalMethods)
      BY DEF Range
    <3> QED
      BY <3>1, PlannedStepIs DEF LocalStep
  <2>2. DOMAIN LocalMethods = 1..3 /\ 3 \in Nat
    BY DEF LocalMethods
  <2>3. local \in [1..3 -> PlannedStep]
    BY <2>1, <2>2
  <2> QED
    BY <2>2, <2>3
<1>2. /\ DOMAIN Providers = 1..Len(Providers) /\ Len(Providers) \in Nat
      /\ DOMAIN Strategies = 1..Len(Strategies) /\ Len(Strategies) \in Nat
  BY LookupAssumption
<1>3. IsFiniteSet(DOMAIN Providers) /\ IsFiniteSet(DOMAIN Strategies) /\ IsFiniteSet({0})
  <2>1. \A n \in Nat : IsFiniteSet(1..n)
    BY FS_Interval
  <2>2. IsFiniteSet({0})
    BY FS_Singleton
  <2> QED
    BY <1>2, <2>1, <2>2
<1>4. IsFiniteSet(places) /\ places \in SUBSET (Nat \X Nat \X Nat)
  <2>1. IsFiniteSet(places)
    BY <1>3, FiniteBox
  <2> QED
    BY <1>2, <2>1
<1>5. ASSUME NEW x \in places
      PROVE  found[x] \in PlannedStep
  <2>1. x[1] \in DOMAIN Providers /\ x[2] \in DOMAIN Strategies
    OBVIOUS
  <2>2. Providers[x[1]] \in Provider /\ Strategies[x[2]] \in Strategy
    BY <2>1 DEF Provider, Strategy, Range
  <2>3. found[x] = ProviderStep(s, term, Providers[x[1]], Strategies[x[2]])
    OBVIOUS
  <2> HIDE DEF found
  <2> QED
    BY <2>2, <2>3, PlannedStepIs DEF ProviderStep
<1>6. DOMAIN found = places
  OBVIOUS
<1>7. PlannedSteps(s, term) = local \o InOrder(found)
  BY DEF PlannedSteps
<1> HIDE DEF local, found
<1>8. InOrder(found) \in Seq(PlannedStep)
  BY <1>4, <1>5, <1>6, InOrderFinds
<1> QED
  BY <1>1, <1>7, <1>8


(* A session that is planned, and what is to be done for it.               *)
LEMMA PlannedStands ==
  ASSUME NEW rows, NEW session \in Session, session.steps \in Seq(PlannedStep), session.sent = 0,
         session.finished => session.peeked
  PROVE  SessionStands(rows, session)
<1> DEFINE steps == session.steps
<1>1. ASSUME NEW i \in DOMAIN steps
      PROVE  StepStands(rows, session.seed, steps, i)
  <2>1. steps[i] \in PlannedStep
    BY <1>1
  <2>2. steps[i].runs = <<>> /\ steps[i].generation = 0 /\ steps[i].method # "fetch_post"
    BY <2>1 DEF PlannedStep, Fresh
  <2> QED
    BY <2>2 DEF StepStands
<1>2. session.budget \in Nat
  BY DEF Session
<1> QED
  BY <1>1, <1>2 DEF SessionStands

LEMMA ToDoStands ==
  ASSUME NEW session \in Session, session.steps \in Seq(PlannedStep), session.sent = 0,
         ~ session.killed, session.finished => session.peeked,
         NEW e \in Exec, e.spent = 0, DOMAIN e.fetched = {},
         e.todo = ToDo(session.steps, session.live)
  PROVE  ExecStands(session, "step", None, e)
<1>1. DueStands("step", session.steps, session.live, e)
  BY DEF DueStands, ToDo
<1>2. session.budget \in Nat
  BY DEF Session
<1> QED
  BY <1>1, <1>2 DEF ExecStands, LookupLabel

LEMMA StepsToDo ==
  ASSUME NEW steps \in Seq(Step), NEW live
  PROVE  ToDo(steps, live) \in SUBSET (Nat \ {0})
BY DEF ToDo

LEMMA NewSessionIs ==
  ASSUME NEW s \in Seed, NEW live \in BOOLEAN, NEW budget \in Nat \ {0}, NEW steps \in Seq(Step),
         NEW status \in {"planning", "planned"}
  PROVE  LET new == NewSession(s, live, budget, steps, status) IN
         /\ new \in Session /\ new.steps = steps /\ new.live = live /\ new.sent = 0
         /\ ~ new.finished /\ ~ new.killed
BY DEF NewSession, Session

LEMMA NewExecIs ==
  ASSUME NEW n \in Nat \ {0}, NEW todo \in SUBSET (Nat \ {0})
  PROVE  /\ NewExec(n, todo) \in Exec /\ NewExec(n, todo).session = n
         /\ NewExec(n, todo).todo = todo /\ NewExec(n, todo).spent = 0
         /\ DOMAIN NewExec(n, todo).fetched = {}
<1>1. <<>> \in Seq(Post) /\ 0 \in Nat /\ 0 \in 0..2
  OBVIOUS
<1> QED
  BY <1>1 DEF NewExec, Exec

(* A session begins.                                                       *)
BeginsSession(p, session, e, label) ==
    /\ LookupsKept /\ lookups' = lookups
    /\ pc[p] = "idle" /\ pc'[p] = label /\ label \in {"plan", "step"}
    /\ work'[p] = None
    /\ \A q \in Process : q # p => pc'[q] = pc[q] /\ work'[q] = work[q]
    /\ sessions' = Append(sessions, session) /\ SessionStands(lookups, session)
    /\ e \in Exec /\ e.session = Len(sessions) + 1 /\ exec' = [exec EXCEPT ![p] = e]
    /\ ExecStands(session, label, None, e)

LEMMA BeginningKeeps ==
  ASSUME SessionInv, NEW p \in SessionProcess, NEW session, NEW e, NEW label,
         BeginsSession(p, session, e, label)
  PROVE  SessionInv'
<1> DEFINE s == Len(sessions) + 1
<1>1. /\ LookupInv' /\ lookups' = lookups
      /\ pc[p] = "idle" /\ pc'[p] = label /\ work'[p] = None
      /\ \A q \in Process : q # p => pc'[q] = pc[q] /\ work'[q] = work[q]
      /\ sessions' = Append(sessions, session) /\ SessionStands(lookups, session)
      /\ e \in Exec /\ e.session = s /\ exec' = [exec EXCEPT ![p] = e]
      /\ ExecStands(session, label, None, e)
  BY DEF BeginsSession, LookupsKept
<1>2. /\ p \in Process /\ None \notin Exec /\ sessions \in Seq(Session)
      /\ exec \in [SessionProcess -> Exec \cup {None}] /\ SessionProcess \subseteq Process
  BY SessionFacts, SessionAssumption
<1>3. session \in Session
  BY <1>1 DEF SessionStands
<1>4. /\ sessions' \in Seq(Session) /\ DOMAIN sessions' = DOMAIN sessions \cup {s}
      /\ s \notin DOMAIN sessions /\ sessions'[s] = session
      /\ \A x \in DOMAIN sessions : sessions'[x] = sessions[x]
  BY <1>1, <1>2, <1>3
<1> HIDE DEF s
<1>5. /\ exec' \in [SessionProcess -> Exec \cup {None}] /\ exec'[p] = e /\ e # None
      /\ \A q \in SessionProcess : q # p => exec'[q] = exec[q]
  BY <1>1, <1>2
<1>6. \A x \in DOMAIN sessions' : SessionStands(lookups', sessions'[x])
  BY <1>1, <1>4 DEF SessionInv
<1>7. ASSUME NEW q \in SessionProcess
      PROVE  ProcessStands(sessions', pc'[q], work'[q], exec'[q])
  <2>1. CASE q = p
    BY <1>1, <1>4, <1>5, <2>1 DEF ProcessStands
  <2>2. CASE q # p
    <3>1. /\ pc'[q] = pc[q] /\ work'[q] = work[q] /\ exec'[q] = exec[q]
          /\ ProcessStands(sessions, pc[q], work[q], exec[q])
      BY <1>1, <1>2, <1>5, <2>2 DEF SessionInv
    <3> QED
      BY <1>4, <3>1 DEF ProcessStands
  <2> QED
    BY <2>1, <2>2
<1>8. \A q \in Process \ SessionProcess : pc'[q] \notin {"plan", "step"}
  BY <1>1 DEF SessionInv
<1>9. ExecsApart(exec')
  <2>1. ASSUME NEW q \in SessionProcess, q # p, exec'[q] # None
        PROVE  exec'[q].session # s
    <3>1. exec'[q] = exec[q] /\ ProcessStands(sessions, pc[q], work[q], exec[q])
      BY <1>5, <2>1 DEF SessionInv
    <3> QED
      BY <1>4, <2>1, <3>1 DEF ProcessStands
  <2> QED
    BY <1>1, <1>5, <2>1 DEF ExecsApart, SessionInv
<1>10. Held(sessions', exec')
  <2>1. ASSUME NEW x \in DOMAIN sessions', ~ sessions'[x].finished, ~ sessions'[x].killed
        PROVE  \E q \in SessionProcess : exec'[q] # None /\ exec'[q].session = x
    <3>1. CASE x = s
      BY <1>1, <1>5, <3>1
    <3>2. CASE x # s
      <4>1. x \in DOMAIN sessions /\ sessions'[x] = sessions[x]
        BY <1>4, <3>2
      <4>2. PICK q \in SessionProcess : exec[q] # None /\ exec[q].session = x
        BY <2>1, <4>1 DEF SessionInv, Held
      <4>3. exec[p] = None
        BY <1>1, ExecutingFacts DEF ExecStands
      <4> QED
        BY <1>5, <4>2, <4>3
    <3> QED
      BY <3>1, <3>2
  <2> QED
    BY <2>1 DEF Held
<1> QED
  BY <1>1, <1>4, <1>5, <1>6, <1>7, <1>8, <1>9, <1>10 DEF SessionInv

LEMMA PlannedAreSteps ==
  Seq(PlannedStep) \subseteq Seq(Step)
<1>1. PlannedStep \subseteq Step
  BY DEF PlannedStep
<1> QED
  BY <1>1

LEMMA StartKeeps ==
  ASSUME SessionInv, NEW p \in SessionProcess, NEW s \in Seed, NEW live \in BOOLEAN,
         NEW budget \in Budgets, NEW term, Start(p, s, live, budget, term)
  PROVE  SessionInv'
<1> DEFINE steps == PlannedSteps(s, term)
           session == NewSession(s, live, budget, steps, "planned")
           n == Len(sessions) + 1
           e == NewExec(n, ToDo(steps, live))
<1>1. /\ pc[p] = "idle" /\ Goto(p, "step") /\ UNCHANGED <<answers, origin, lookups, work>>
      /\ sessions' = Append(sessions, session) /\ exec' = [exec EXCEPT ![p] = e]
  BY DEF Start, Starting, At
<1>2. /\ p \in Process /\ LookupInv /\ sessions \in Seq(Session) /\ budget \in Nat \ {0}
      /\ pc \in [Process -> Label] /\ work \in [Process -> Work \cup {None}]
      /\ origin \in [Seed -> Origin]
  BY SessionFacts, InvocationFacts, LookupAssumption
<1>3. work[p] = None /\ RunOf(p) = 0
  BY <1>1, <1>2, IdleHasNone
<1>4. LookupsKept
  <2>1. work' = [work EXCEPT ![p] = None] /\ pc' = [pc EXCEPT ![p] = "step"]
    BY <1>1, <1>2, <1>3 DEF Goto
  <2>2. "step" \in Label /\ WorkStands(answers, lookups, "step", None)
    BY DEF Label, WorkStands
  <2>3. RunOf(p) = (IF None = None THEN 0 ELSE None.run)
    BY <1>3
  <2> QED
    BY <1>1, <1>2, <2>1, <2>2, <2>3, QuietStepKeeps
<1>5. steps \in Seq(PlannedStep) /\ steps \in Seq(Step)
  BY PlannedStepsAre, PlannedAreSteps
<1>6. n \in Nat \ {0} /\ ToDo(steps, live) \in SUBSET (Nat \ {0})
  BY <1>2, <1>5, StepsToDo
<1> HIDE DEF steps
<1>7. /\ session \in Session /\ session.steps = steps /\ session.live = live /\ session.sent = 0
      /\ ~ session.finished /\ ~ session.killed
  BY <1>2, <1>5, NewSessionIs
<1>8. /\ e \in Exec /\ e.session = n /\ e.todo = ToDo(steps, live) /\ e.spent = 0
      /\ DOMAIN e.fetched = {}
  BY <1>6, NewExecIs
<1> HIDE DEF session, e
<1>9. SessionStands(lookups, session) /\ ExecStands(session, "step", None, e)
  BY <1>5, <1>7, <1>8, PlannedStands, ToDoStands
<1>10. /\ pc'[p] = "step" /\ work'[p] = None
       /\ \A q \in Process : q # p => pc'[q] = pc[q] /\ work'[q] = work[q]
  BY <1>1, <1>2, <1>3 DEF Goto
<1>11. BeginsSession(p, session, e, "step")
  BY <1>1, <1>4, <1>8, <1>9, <1>10 DEF BeginsSession
<1> QED
  BY <1>11, BeginningKeeps


LEMMA StartFileKeeps ==
  ASSUME SessionInv, NEW p \in SessionProcess, NEW f \in File, NEW live \in BOOLEAN,
         NEW budget \in Budgets, StartFile(p, f, live, budget)
  PROVE  SessionInv'
<1> DEFINE steps == <<>>
           session == NewSession(f, live, budget, steps, "planning")
           n == Len(sessions) + 1
           e == NewExec(n, {})
<1>1. /\ pc[p] = "idle" /\ Goto(p, "plan") /\ UNCHANGED <<answers, lookups, work>>
      /\ origin' = [origin EXCEPT ![f] = Seeded]
      /\ sessions' = Append(sessions, session) /\ exec' = [exec EXCEPT ![p] = e]
  BY DEF StartFile, Starting, At
<1>2. /\ p \in Process /\ LookupInv /\ sessions \in Seq(Session) /\ budget \in Nat \ {0}
      /\ pc \in [Process -> Label] /\ work \in [Process -> Work \cup {None}]
      /\ origin \in [Seed -> Origin] /\ f \in Seed
  BY SessionFacts, InvocationFacts, LookupAssumption DEF Seed
<1>3. work[p] = None /\ RunOf(p) = 0
  BY <1>1, <1>2, IdleHasNone
<1>4. LookupsKept
  <2>1. work' = [work EXCEPT ![p] = None] /\ pc' = [pc EXCEPT ![p] = "plan"]
    BY <1>1, <1>2, <1>3 DEF Goto
  <2>2. "plan" \in Label /\ WorkStands(answers, lookups, "plan", None)
    BY DEF Label, WorkStands
  <2>3. RunOf(p) = (IF None = None THEN 0 ELSE None.run)
    BY <1>3
  <2>4. origin' \in [Seed -> Origin]
    BY <1>1, <1>2 DEF Origin
  <2> QED
    BY <1>1, <1>2, <2>1, <2>2, <2>3, <2>4, QuietStepKeeps
<1>5. /\ steps \in Seq(Step) /\ steps \in Seq(PlannedStep) /\ steps = <<>>
      /\ {} \in SUBSET (Nat \ {0})
  OBVIOUS
<1> HIDE DEF steps
<1>6. n \in Nat \ {0}
  BY <1>2
<1>7. /\ session \in Session /\ session.steps = steps /\ session.sent = 0
      /\ ~ session.finished /\ ~ session.killed
  <2>1. /\ f \in Seed /\ live \in BOOLEAN /\ budget \in Nat \ {0} /\ steps \in Seq(Step)
        /\ "planning" \in {"planning", "planned"}
    BY <1>2, <1>5
  <2> QED
    BY ONLY <2>1, NewSessionIs DEF session
<1>8. /\ e \in Exec /\ e.session = n /\ e.todo = {} /\ e.spent = 0
      /\ DOMAIN e.fetched = {}
  BY <1>5, <1>6, NewExecIs
<1> HIDE DEF session, e
<1>9. SessionStands(lookups, session)
  BY <1>5, <1>7, PlannedStands
<1>10. ExecStands(session, "plan", None, e)
  <2>1. DueStands("plan", session.steps, session.live, e)
    BY <1>5, <1>7, <1>8 DEF DueStands
  <2>2. session.budget \in Nat
    BY <1>7 DEF Session
  <2> QED
    BY <1>5, <1>7, <1>8, <2>1, <2>2 DEF ExecStands, LookupLabel
<1>11. /\ pc'[p] = "plan" /\ work'[p] = None
       /\ \A q \in Process : q # p => pc'[q] = pc[q] /\ work'[q] = work[q]
  BY <1>1, <1>2, <1>3 DEF Goto
<1>12. BeginsSession(p, session, e, "plan")
  BY <1>1, <1>4, <1>8, <1>9, <1>10, <1>11 DEF BeginsSession
<1> QED
  BY <1>12, BeginningKeeps

(* The session of a file has its steps.                                    *)
Planning(session, steps) == [session EXCEPT !.steps = steps, !.status = "planned"]

LEMMA PlanFileKeeps ==
  ASSUME SessionInv, NEW p \in SessionProcess, PlanFile(p)
  PROVE  SessionInv'
<1> DEFINE s == exec[p].session
           steps == PlannedSteps(Mine(p).seed, FALSE)
           session == Planning(Mine(p), steps)
           e == [exec[p] EXCEPT !.todo = ToDo(steps, Mine(p).live)]
<1>1. /\ pc[p] = "plan" /\ Goto(p, "step") /\ UNCHANGED <<answers, origin, lookups, work>>
      /\ sessions' = [sessions EXCEPT ![s].steps = steps, ![s].status = "planned"]
      /\ exec' = [exec EXCEPT ![p].todo = ToDo(steps, Mine(p).live)]
  BY DEF PlanFile, At, Mine
<1>2. /\ p \in Process /\ LookupInv /\ sessions \in Seq(Session)
      /\ exec \in [SessionProcess -> Exec \cup {None}] /\ None \notin Exec
      /\ pc \in [Process -> Label] /\ work \in [Process -> Work \cup {None}]
      /\ origin \in [Seed -> Origin]
  BY SessionFacts, InvocationFacts
<1>3. /\ exec[p] # None /\ exec[p] \in Exec /\ s \in DOMAIN sessions /\ Mine(p) \in Session
      /\ ExecStands(Mine(p), "plan", work[p], exec[p])
  BY <1>1, ExecutingFacts
<1>4. work[p] = None /\ RunOf(p) = 0
  BY <1>1, <1>2, IdleHasNone
<1>5. LookupsKept
  <2>1. work' = [work EXCEPT ![p] = None] /\ origin' \in [Seed -> Origin]
    BY <1>1, <1>2, <1>4
  <2> QED
    BY <1>1, <1>2, <2>1, DoneKeeps
<1>6. steps \in Seq(PlannedStep) /\ steps \in Seq(Step)
  BY PlannedStepsAre, PlannedAreSteps
<1>7. ToDo(steps, Mine(p).live) \in SUBSET (Nat \ {0})
  BY <1>6, StepsToDo
<1>8. sessions' = [sessions EXCEPT ![s] = session]
  BY <1>1, <1>2, <1>3 DEF Planning, Mine, Session
<1> HIDE DEF steps
<1>9. /\ session \in Session /\ session.steps = steps /\ session.live = Mine(p).live
      /\ session.sent = Mine(p).sent /\ session.killed = Mine(p).killed
      /\ session.finished = Mine(p).finished /\ session.peeked = Mine(p).peeked
  BY <1>3, <1>6 DEF Planning, Session
<1>10. /\ e \in Exec /\ e.session = s /\ e.todo = ToDo(steps, Mine(p).live)
       /\ e.spent = exec[p].spent /\ e.fetched = exec[p].fetched
  BY <1>3, <1>7 DEF Exec
<1>11. exec' = [exec EXCEPT ![p] = e]
  BY <1>1, <1>2, <1>3
<1> HIDE DEF session, e
<1>12. /\ session.sent = 0 /\ e.spent = 0 /\ ~ session.killed
       /\ (session.finished => session.peeked)
  BY <1>3, <1>9, <1>10 DEF ExecStands
<1>13. DOMAIN e.fetched = {}
  BY <1>3, <1>10 DEF ExecStands, DueStands
<1>14. SessionStands(lookups', session) /\ ExecStands(session, "step", None, e)
  BY <1>1, <1>6, <1>9, <1>10, <1>12, <1>13, PlannedStands, ToDoStands
<1>15. /\ pc'[p] = "step" /\ work'[p] = None
       /\ \A q \in Process : q # p => pc'[q] = pc[q] /\ work'[q] = work[q]
  BY <1>1, <1>2, <1>4 DEF Goto
<1>16. SessionStepOf(p, s, session, e)
  BY <1>2, <1>3, <1>5, <1>8, <1>10, <1>11, <1>14, <1>15 DEF SessionStepOf
<1> QED
  BY <1>16, SessionStepKeeps

(* What rewrites the catalog leaves the sessions.                          *)
LEMMA CatalogKeeps ==
  ASSUME SessionInv, UNCHANGED <<answers, lookups, pc, work>>, UNCHANGED sessionVars,
         origin' \in [Seed -> Origin]
  PROVE  SessionInv'
<1>1. LookupsKept
  BY RewriteKeeps DEF SessionInv
<1>2. /\ \A p \in SessionProcess : ProcessStands(sessions, pc'[p], work'[p], exec[p])
      /\ \A p \in Process \ SessionProcess : pc'[p] \notin {"plan", "step"}
  BY DEF SessionInv
<1> QED
  BY <1>1, <1>2, SessionsStay

LEMMA RewritesKeep ==
  ASSUME SessionInv, NEW s \in Seed,
         Materialize(s) \/ (Synchronized(s) /\ UNCHANGED sessionVars)
  PROVE  SessionInv'
<1>1. UNCHANGED <<answers, lookups, pc, work>> /\ UNCHANGED sessionVars
  BY DEF Materialize, Synchronized
<1>2. origin \in [Seed -> Origin] /\ Seeded \in Origin /\ Synced \in Origin
  BY DEF SessionInv, LookupInv, Origin
<1>3. origin' \in [Seed -> Origin]
  BY <1>2 DEF Materialize, Synchronized
<1> QED
  BY <1>1, <1>3, CatalogKeeps


-----------------------------------------------------------------------------
(* The follow-up generation *)

(* A step that follows up what a session has.                              *)
Follows(rows, seed, steps, step) ==
    /\ step.status = "planned" /\ step.runs = <<>> /\ step.generation = 1
    /\ IF step.method = "fetch_post"
       THEN \E r \in DOMAIN rows :
               /\ rows[r].seed = seed /\ rows[r].provider = step.source
               /\ step.target \in rows[r].results
       ELSE /\ \E k \in DOMAIN steps :
                 /\ steps[k].method = "fetch_post" /\ steps[k].status = "complete"
                 /\ steps[k].target = step.seed
            /\ step.target \in Range(Materials[step.seed])

Extended(session, new) == [session EXCEPT !.steps = session.steps \o new]
Waved(e, todo) == [e EXCEPT !.todo = todo, !.wave = e.wave + 1]

MayFollow(rows, session, w, e, new) ==
    /\ session \in Session /\ e \in Exec /\ SessionStands(rows, session)
    /\ ExecStands(session, "step", w, e) /\ e.todo = {} /\ e.wave \in 0..1 /\ w = None
    /\ new \in Seq(Step) /\ \A i \in DOMAIN new : Follows(rows, session.seed, session.steps, new[i])

LEMMA FollowingStands ==
  ASSUME NEW rows, NEW session, NEW w, NEW e, NEW new, MayFollow(rows, session, w, e, new)
  PROVE  ToldWell(rows, Extended(session, new),
                  Waved(e, {Len(session.steps) + i : i \in DOMAIN new}))
<1> DEFINE steps == session.steps
           n == Len(steps)
           todo == {n + i : i \in DOMAIN new}
           more == steps \o new
           s == Extended(session, new)
           v == Waved(e, todo)
<1>1. /\ session \in Session /\ e \in Exec /\ SessionStands(rows, session)
      /\ ExecStands(session, "step", None, e) /\ e.todo = {} /\ e.wave \in 0..1
      /\ new \in Seq(Step) /\ steps \in Seq(Step)
      /\ \A i \in DOMAIN new : Follows(rows, session.seed, steps, new[i])
  BY DEF MayFollow, Session
<1>2. /\ n \in Nat /\ DOMAIN steps = 1..n /\ Len(new) \in Nat /\ DOMAIN new = 1..Len(new)
      /\ more \in Seq(Step) /\ DOMAIN more = 1..(n + Len(new))
      /\ \A i \in 1..n : more[i] = steps[i]
      /\ \A i \in DOMAIN new : more[n + i] = new[i]
  BY <1>1
<1> HIDE DEF more, n
<1>3. \A j \in DOMAIN more : j \in DOMAIN steps \/ \E i \in DOMAIN new : j = n + i
  <2>1. ASSUME NEW j \in 1..(n + Len(new)), ~ (j \in 1..n)
        PROVE  j - n \in 1..Len(new) /\ j = n + (j - n)
    BY <1>2, <2>1
  <2> QED
    BY <1>2, <2>1
<1>4. todo \in SUBSET (Nat \ {0})
  BY <1>2
<1> HIDE DEF todo
<1>5. /\ s \in Session /\ s.steps = more /\ s.seed = session.seed /\ s.live = session.live
      /\ s.budget = session.budget /\ s.sent = session.sent /\ s.killed = session.killed
      /\ s.finished = session.finished /\ s.peeked = session.peeked
  BY <1>1, <1>2 DEF Extended, Session, more
<1>6. /\ v \in Exec /\ v.session = e.session /\ v.todo = todo /\ v.spent = e.spent
      /\ v.fetched = e.fetched
  <2>1. PICK wave \in 0..2 : wave = e.wave + 1
    BY <1>1
  <2>2. v = [e EXCEPT !.todo = todo, !.wave = wave]
    BY <2>1 DEF Waved
  <2> QED
    BY <1>1, <1>4, <2>2 DEF Exec
<1> HIDE DEF s, v
<1>7. ASSUME NEW j \in DOMAIN more
      PROVE  StepStands(rows, session.seed, more, j)
  <2>1. CASE j \in DOMAIN steps
    <3>1. more[j] = steps[j] /\ StepStands(rows, session.seed, steps, j)
      BY <1>1, <1>2, <2>1 DEF SessionStands
    <3>2. \A k \in 1..(j - 1) : more[k] = steps[k]
      BY <1>2, <2>1
    <3>3. LedTo(rows, session.seed, steps, j) => LedTo(rows, session.seed, more, j)
      BY <3>1, <3>2 DEF LedTo
    <3> QED
      BY <3>1, <3>3 DEF StepStands
  <2>2. ASSUME NEW i \in DOMAIN new, j = n + i
        PROVE  StepStands(rows, session.seed, more, j)
    <3>1. more[j] = new[i] /\ Follows(rows, session.seed, steps, new[i])
      BY <1>1, <1>2, <2>2
    <3>2. \A k \in DOMAIN steps : k \in 1..(j - 1) /\ more[k] = steps[k]
      BY <1>2, <2>2
    <3>3. LedTo(rows, session.seed, more, j)
      BY <3>1, <3>2 DEF LedTo, Follows
    <3>4. more[j].runs = <<>> /\ more[j].generation = 1
      BY <3>1 DEF Follows
    <3> QED
      BY <3>3, <3>4 DEF StepStands
  <2> QED
    BY <1>3, <2>1, <2>2
<1>8. ASSUME NEW late, late \subseteq todo, Plain(more, late)
      PROVE  s.sent = v.spent /\ s.sent <= s.budget
  <2>1. \A i \in DOMAIN steps : i \in DOMAIN more /\ i \notin todo
    BY <1>2 DEF todo
  <2>2. Plain(steps, e.todo)
    BY <1>1, <1>2, <1>8, <2>1 DEF Plain
  <2> QED
    BY <1>1, <1>5, <1>6, <2>2 DEF ExecStands
<1>9. SessionStands(rows, s)
  <2>1. s.finished => s.peeked
    BY <1>1, <1>5 DEF ExecStands
  <2>2. Plain(s.steps, {}) => s.sent <= s.budget
    BY <1>5, <1>8
  <2> QED
    BY <1>5, <1>7, <2>1, <2>2 DEF SessionStands
<1>10. DueStands("step", more, session.live, v)
  <2>1. \A j \in v.todo : j \in DOMAIN more /\ more[j].status = "planned"
    <3>1. ASSUME NEW i \in DOMAIN new
          PROVE  n + i \in DOMAIN more /\ more[n + i].status = "planned"
      BY <1>1, <1>2, <3>1 DEF Follows
    <3> QED
      BY <1>6, <3>1 DEF todo
  <2>2. ASSUME NEW j \in DOMAIN more, more[j].status = "planned", IsLocal(more[j]) \/ session.live
        PROVE  j \in v.todo
    <3>1. CASE j \in DOMAIN steps
      BY <1>1, <1>2, <2>2, <3>1 DEF ExecStands, DueStands
    <3>2. CASE \E i \in DOMAIN new : j = n + i
      BY <1>6, <3>2 DEF todo
    <3> QED
      BY <1>3, <3>1, <3>2
  <2>3. ASSUME NEW j \in DOMAIN v.fetched
        PROVE  \E k \in DOMAIN more : /\ more[k].method = "fetch_post"
                                      /\ more[k].status = "complete"
                                      /\ more[k].target = v.fetched[j]
    <3>1. PICK k \in DOMAIN steps : /\ steps[k].method = "fetch_post"
                                    /\ steps[k].status = "complete"
                                    /\ steps[k].target = v.fetched[j]
      BY <1>1, <1>6 DEF ExecStands, DueStands
    <3> QED
      BY <1>2, <3>1
  <2> QED
    BY <2>1, <2>2, <2>3 DEF DueStands
<1>11. ExecStands(s, "step", None, v)
  BY <1>1, <1>5, <1>6, <1>8, <1>10 DEF ExecStands, LookupLabel
<1> QED
  BY <1>6, <1>9, <1>11 DEF ToldWell, s, v, todo, n


LEMMA FollowKeeps ==
  ASSUME SessionInv, NEW p \in SessionProcess, pc[p] = "step", exec[p].todo = {},
         exec[p].wave \in 0..1, NEW found, Follow(p, found),
         NewSteps(Mine(p).steps, found) \in Seq(Step),
         \A i \in DOMAIN NewSteps(Mine(p).steps, found) :
            Follows(lookups, Mine(p).seed, Mine(p).steps, NewSteps(Mine(p).steps, found)[i])
  PROVE  SessionInv'
<1> DEFINE s == exec[p].session
           new == NewSteps(Mine(p).steps, found)
           todo == {Len(Mine(p).steps) + i : i \in DOMAIN new}
           session == Extended(Mine(p), new)
           e == Waved(exec[p], todo)
<1>1. /\ sessions' = [sessions EXCEPT ![s].steps = @ \o new]
      /\ exec' = [exec EXCEPT ![p].todo = todo, ![p].wave = @ + 1]
      /\ UNCHANGED lookupVars
  BY DEF Follow, Mine
<1>2. /\ p \in Process /\ LookupInv /\ sessions \in Seq(Session) /\ None \notin Exec
      /\ exec \in [SessionProcess -> Exec \cup {None}]
  BY SessionFacts
<1>3. /\ exec[p] # None /\ exec[p] \in Exec /\ s \in DOMAIN sessions /\ Mine(p) \in Session
      /\ SessionStands(lookups, Mine(p)) /\ ExecStands(Mine(p), "step", work[p], exec[p])
  BY ExecutingFacts
<1>4. work[p] = None
  BY <1>2, IdleHasNone
<1> HIDE DEF new
<1>5. MayFollow(lookups, Mine(p), work[p], exec[p], new)
  BY <1>3, <1>4 DEF MayFollow, new
<1>6. ToldWell(lookups, session, e)
  BY <1>5, FollowingStands
<1>7. sessions' = [sessions EXCEPT ![s] = session]
  BY <1>1, <1>2, <1>3 DEF Extended, Mine, Session
<1> HIDE DEF todo
<1>8. exec' = [exec EXCEPT ![p] = e] /\ e.session = s
  BY <1>1, <1>2, <1>3 DEF Waved, Exec
<1> HIDE DEF session, e
<1>9. e \in Exec /\ e # None /\ SessionStands(lookups, session) /\ ExecStands(session, "step", None, e)
  BY <1>2, <1>6 DEF ToldWell
<1>10. LookupsKept
  BY <1>1, <1>2, QuietStep, RewriteKeeps
<1>11. SessionStepOf(p, s, session, e)
  BY <1>1, <1>3, <1>4, <1>7, <1>8, <1>9, <1>10 DEF SessionStepOf, lookupVars
<1> QED
  BY <1>11, SessionStepKeeps

(* What is new among the steps found was found.                            *)
LEMMA NewStepsAreFound ==
  ASSUME NEW existing, NEW found, IsFiniteSet(DOMAIN found),
         DOMAIN found \in SUBSET (Nat \X Nat \X Nat)
  PROVE  LET new == NewSteps(existing, found) IN
         /\ \A n \in DOMAIN new : \E x \in DOMAIN found : new[n] = found[x]
         /\ \A S : (\A x \in DOMAIN found : found[x] \in S) => new \in Seq(S)
<1> DEFINE identities == {Identity(existing[i]) : i \in DOMAIN existing}
           at == {x \in DOMAIN found :
                     /\ Identity(found[x]) \notin identities
                     /\ \A y \in DOMAIN found :
                           Before(y, x) => Identity(found[y]) # Identity(found[x])}
           kept == [x \in at |-> found[x]]
<1>1. NewSteps(existing, found) = InOrder(kept)
  BY DEF NewSteps
<1>2. at \in SUBSET DOMAIN found
  OBVIOUS
<1> HIDE DEF at
<1>3. DOMAIN kept = at /\ \A x \in at : kept[x] = found[x]
  OBVIOUS
<1> HIDE DEF kept
<1>4. IsFiniteSet(DOMAIN kept) /\ DOMAIN kept \in SUBSET (Nat \X Nat \X Nat)
  BY <1>2, <1>3, FS_Subset
<1>5. \A n \in DOMAIN InOrder(kept) : \E x \in DOMAIN kept : InOrder(kept)[n] = kept[x]
  BY <1>4, InOrderFinds
<1>6. \A S : (\A x \in DOMAIN kept : kept[x] \in S) => InOrder(kept) \in Seq(S)
  BY <1>4, InOrderFinds
<1> QED
  BY <1>1, <1>2, <1>3, <1>5, <1>6

(* The hits of a seed, as a sequence.                                      *)
LEMMA HitsAreListed ==
  ASSUME LookupInv, NEW s
  PROVE  /\ SetToSeq(Hits(s)) \in Seq(Hits(s))
         /\ \A hit \in Hits(s) :
               /\ hit[1] \in Provider /\ hit[2] \in Post
               /\ \E r \in DOMAIN lookups :
                     /\ lookups[r].seed = s /\ lookups[r].provider = hit[1]
                     /\ hit[2] \in lookups[r].results
<1>1. lookups \in Seq(Lookup)
  BY InvocationFacts DEF LookupInv, RowsStand
<1>2. ASSUME NEW hit \in Hits(s)
      PROVE  /\ hit \in Provider \X Post
             /\ \E r \in DOMAIN lookups :
                   /\ lookups[r].seed = s /\ lookups[r].provider = hit[1]
                   /\ hit[2] \in lookups[r].results
  <2>1. PICK r \in DOMAIN lookups :
           lookups[r].seed = s /\ hit \in {lookups[r].provider} \X lookups[r].results
    BY <1>2 DEF Hits
  <2>2. lookups[r] \in Lookup
    BY <1>1
  <2>3. lookups[r].provider \in Provider /\ lookups[r].results \in SUBSET Post
    BY <2>2 DEF Lookup
  <2> QED
    BY <2>1, <2>3
<1>3. IsFiniteSet(Provider)
  <2> DEFINE n == Len(Providers)
  <2>1. n \in Nat /\ DOMAIN Providers = 1..n /\ Providers \in [1..n -> Provider]
    BY LookupAssumption
  <2>2. Providers \in Surjection(1..n, Provider)
    BY <2>1 DEF Surjection, Provider, Range
  <2>3. IsFiniteSet(1..n)
    BY <2>1, FS_Interval
  <2> QED
    BY <2>2, <2>3, FS_Surjection
<1>4. IsFiniteSet(Provider \X Post)
  BY <1>3, LookupAssumption, FS_Product
<1>5. IsFiniteSet(Hits(s))
  BY <1>2, <1>4, FS_Subset
<1>6. /\ Cardinality(Hits(s)) \in Nat
      /\ ExistsBijection(1..Cardinality(Hits(s)), Hits(s))
  BY <1>5, FS_CardinalityType
<1>7. \E f \in [1..Cardinality(Hits(s)) -> Hits(s)] : IsInjective(f)
  BY <1>6 DEF ExistsBijection, Bijection, Injection, IsInjective
<1>8. SetToSeq(Hits(s)) \in [1..Cardinality(Hits(s)) -> Hits(s)]
  BY <1>7 DEF SetToSeq
<1> HIDE DEF Hits
<1>9. SetToSeq(Hits(s)) \in Seq(Hits(s))
  BY <1>6, <1>8
<1> QED
  BY <1>2, <1>9


LEMMA FollowHitsFollow ==
  ASSUME LookupInv, NEW s, NEW steps
  PROVE  LET found == FollowHits(s) IN
         /\ IsFiniteSet(DOMAIN found) /\ DOMAIN found \in SUBSET (Nat \X Nat \X Nat)
         /\ \A x \in DOMAIN found : found[x] \in Step /\ Follows(lookups, s, steps, found[x])
<1> DEFINE hits == SetToSeq(Hits(s))
           places == (DOMAIN hits) \X {0} \X {0}
           found == [x \in places |->
                        NewStep(hits[x[1]][1], "fetch_post", hits[x[1]][2], None, 1, "planned")]
<1>1. hits \in Seq(Hits(s))
  BY HitsAreListed
<1>2. FollowHits(s) = found
  BY DEF FollowHits
<1> HIDE DEF hits
<1>3. DOMAIN hits = 1..Len(hits) /\ Len(hits) \in Nat
  BY <1>1
<1>4. IsFiniteSet(DOMAIN hits) /\ IsFiniteSet({0})
  <2>1. \A n \in Nat : IsFiniteSet(1..n)
    BY FS_Interval
  <2>2. IsFiniteSet({0})
    BY FS_Singleton
  <2> QED
    BY <1>3, <2>1, <2>2
<1>5. IsFiniteSet(places)
  BY <1>4, FiniteBox
<1>6. places \in SUBSET (Nat \X Nat \X Nat)
  BY <1>3
<1>7. ASSUME NEW x \in places
      PROVE  found[x] \in Step /\ Follows(lookups, s, steps, found[x])
  <2> DEFINE hit == hits[x[1]]
             step == NewStep(hit[1], "fetch_post", hit[2], None, 1, "planned")
  <2>1. x[1] \in DOMAIN hits
    OBVIOUS
  <2>2. hit \in Hits(s)
    BY <1>1, <2>1
  <2>3. found[x] = step
    OBVIOUS
  <2> HIDE DEF hit
  <2>4. /\ hit[1] \in Provider /\ hit[2] \in Post
        /\ \E r \in DOMAIN lookups :
              /\ lookups[r].seed = s /\ lookups[r].provider = hit[1]
              /\ hit[2] \in lookups[r].results
    BY <2>2, HitsAreListed
  <2>5. step \in Step
    <3>1. <<>> \in Seq(Nat) /\ 1 \in 0..1
      OBVIOUS
    <3> QED
      BY <2>4, <3>1 DEF NewStep, Step, StepStatus, Outcome
  <2>6. /\ step.source = hit[1] /\ step.method = "fetch_post" /\ step.target = hit[2]
        /\ step.generation = 1 /\ step.status = "planned" /\ step.runs = <<>>
    BY DEF NewStep
  <2> HIDE DEF step
  <2>7. Follows(lookups, s, steps, step)
    BY <2>4, <2>6 DEF Follows
  <2> QED
    BY <2>3, <2>5, <2>7
<1>8. DOMAIN found = places
  OBVIOUS
<1> HIDE DEF found, places
<1> QED
  BY <1>2, <1>5, <1>6, <1>7, <1>8

(* The materials of posts that were fetched.                               *)
LEMMA FollowPostsFollow ==
  ASSUME NEW rows, NEW s, NEW steps, NEW posts \in Seq(Post),
         \A j \in DOMAIN posts : \E k \in DOMAIN steps :
            /\ steps[k].method = "fetch_post" /\ steps[k].status = "complete"
            /\ steps[k].target = posts[j]
  PROVE  LET found == FollowPosts(posts) IN
         /\ IsFiniteSet(DOMAIN found) /\ DOMAIN found \in SUBSET (Nat \X Nat \X Nat)
         /\ \A x \in DOMAIN found : found[x] \in Step /\ Follows(rows, s, steps, found[x])
<1> DEFINE material(x) == Materials[posts[x[1]]][x[3]]
           Of(i) == {i} \X (DOMAIN Providers) \X (DOMAIN Materials[posts[i]])
           boxes == {Of(i) : i \in DOMAIN posts}
           places == {x \in UNION boxes :
                         /\ <<Providers[x[2]], StrategyOf[material(x)]>> \in Supported
                         /\ StrategyOf[material(x)] \notin Artist}
           found == [x \in places |-> NewStep(Providers[x[2]], StrategyOf[material(x)], material(x),
                                              posts[x[1]], 1, "planned")]
<1>1. FollowPosts(posts) = found
  BY DEF FollowPosts
<1>2. DOMAIN posts = 1..Len(posts) /\ Len(posts) \in Nat
  OBVIOUS
<1>3. DOMAIN Providers = 1..Len(Providers) /\ Len(Providers) \in Nat
  BY LookupAssumption
<1>4. \A n \in Nat : IsFiniteSet(1..n)
  BY FS_Interval
<1>5. ASSUME NEW i \in DOMAIN posts
      PROVE  /\ posts[i] \in Post /\ Materials[posts[i]] \in Seq(Material)
             /\ DOMAIN Materials[posts[i]] \in SUBSET Nat
             /\ IsFiniteSet(DOMAIN Materials[posts[i]])
  <2>1. posts[i] \in Post
    OBVIOUS
  <2>2. Materials[posts[i]] \in Seq(Material)
    BY <2>1, LookupAssumption DEF Seed
  <2>3. /\ Len(Materials[posts[i]]) \in Nat
        /\ DOMAIN Materials[posts[i]] = 1..Len(Materials[posts[i]])
    BY <2>2
  <2> QED
    BY <1>4, <2>1, <2>2, <2>3
<1>6. ASSUME NEW i \in DOMAIN posts
      PROVE  IsFiniteSet(Of(i)) /\ Of(i) \in SUBSET (Nat \X Nat \X Nat)
  <2>1. IsFiniteSet({i}) /\ IsFiniteSet(DOMAIN Providers)
    BY <1>3, <1>4, FS_Singleton
  <2>2. IsFiniteSet(Of(i))
    BY <1>5, <2>1, FiniteBox
  <2> QED
    BY <1>2, <1>3, <1>5, <2>2
<1>7. IsFiniteSet(boxes)
  <2> DEFINE f == [i \in DOMAIN posts |-> Of(i)]
  <2> HIDE DEF Of
  <2>1. f \in Surjection(DOMAIN posts, boxes)
    BY DEF Surjection
  <2>2. IsFiniteSet(DOMAIN posts)
    BY <1>2, <1>4
  <2> QED
    BY <2>1, <2>2, FS_Surjection
<1>8. \A x \in UNION boxes : \E i \in DOMAIN posts : x \in Of(i)
  OBVIOUS
<1>9. IsFiniteSet(UNION boxes) /\ UNION boxes \in SUBSET (Nat \X Nat \X Nat)
  <2> HIDE DEF Of
  <2>1. \A box \in boxes : IsFiniteSet(box)
    BY <1>6
  <2>2. IsFiniteSet(UNION boxes)
    BY <1>7, <2>1, FS_UNION
  <2> HIDE DEF boxes
  <2>3. ASSUME NEW x \in UNION boxes
        PROVE  x \in Nat \X Nat \X Nat
    <3>1. PICK i \in DOMAIN posts : x \in Of(i)
      BY <1>8
    <3> QED
      BY <1>6, <3>1
  <2> QED
    BY <2>2, <2>3
<1>10. IsFiniteSet(places) /\ places \in SUBSET (Nat \X Nat \X Nat) /\ places \in SUBSET UNION boxes
  <2> HIDE DEF boxes
  <2>1. places \in SUBSET UNION boxes
    OBVIOUS
  <2> HIDE DEF places
  <2>2. IsFiniteSet(places)
    BY <1>9, <2>1, FS_Subset
  <2> QED
    BY <1>9, <2>1, <2>2
<1>11. ASSUME NEW x \in places
       PROVE  found[x] \in Step /\ Follows(rows, s, steps, found[x])
  <2> DEFINE m == material(x)
             post == posts[x[1]]
             strategy == StrategyOf[m]
             provider == Providers[x[2]]
             step == NewStep(provider, strategy, m, post, 1, "planned")
  <2>1. PICK i \in DOMAIN posts : x \in Of(i)
    BY <1>8, <1>10
  <2>2. x[1] = i /\ x[2] \in DOMAIN Providers /\ x[3] \in DOMAIN Materials[posts[i]]
    BY <2>1
  <2>3. found[x] = step
    OBVIOUS
  <2>4. post \in Post /\ m \in Material /\ m \in Range(Materials[post])
    BY <1>5, <2>2 DEF Range
  <2>5. provider \in Provider
    BY <2>2 DEF Provider, Range
  <2> HIDE DEF m, post, provider
  <2>6. strategy \in Strategy /\ strategy # "fetch_post"
    BY <2>4, LookupAssumption, SessionAssumption
  <2>7. \E k \in DOMAIN steps : /\ steps[k].method = "fetch_post" /\ steps[k].status = "complete"
                                /\ steps[k].target = post
    BY <2>2 DEF post
  <2> HIDE DEF strategy
  <2>8. step \in Step
    <3>1. <<>> \in Seq(Nat) /\ 1 \in 0..1 /\ post \in Seed
      BY <2>4 DEF Seed
    <3> QED
      BY <2>4, <2>5, <2>6, <3>1 DEF NewStep, Step, StepStatus, Outcome
  <2>9. /\ step.method = strategy /\ step.target = m /\ step.seed = post
        /\ step.generation = 1 /\ step.status = "planned" /\ step.runs = <<>>
    BY DEF NewStep
  <2> HIDE DEF step
  <2>10. Follows(rows, s, steps, step)
    BY <2>4, <2>6, <2>7, <2>9 DEF Follows
  <2> HIDE DEF found
  <2> QED
    BY <2>3, <2>8, <2>10
<1>12. DOMAIN found = places
  OBVIOUS
<1> HIDE DEF found, places
<1> QED
  BY <1>1, <1>10, <1>11, <1>12

LEMMA WavesKeep ==
  ASSUME SessionInv, NEW p \in SessionProcess, WaveA(p) \/ WaveB(p)
  PROVE  SessionInv'
<1>1. pc[p] = "step" /\ exec[p].todo = {} /\ exec[p].wave \in 0..1
  BY DEF WaveA, WaveB, WaveOver, At
<1>2. /\ exec[p] # None /\ exec[p] \in Exec /\ LookupInv
      /\ ExecStands(Mine(p), "step", work[p], exec[p])
  BY <1>1, ExecutingFacts, SessionFacts
<1>3. ASSUME NEW found, Follow(p, found),
             IsFiniteSet(DOMAIN found), DOMAIN found \in SUBSET (Nat \X Nat \X Nat),
             \A x \in DOMAIN found : /\ found[x] \in Step
                                     /\ Follows(lookups, Mine(p).seed, Mine(p).steps, found[x])
      PROVE  SessionInv'
  <2> DEFINE new == NewSteps(Mine(p).steps, found)
  <2>1. /\ \A n \in DOMAIN new : \E x \in DOMAIN found : new[n] = found[x]
        /\ new \in Seq(Step)
    BY <1>3, NewStepsAreFound
  <2>2. \A n \in DOMAIN new : Follows(lookups, Mine(p).seed, Mine(p).steps, new[n])
    BY <1>3, <2>1
  <2> QED
    BY <1>1, <1>3, <2>1, <2>2, FollowKeeps
<1>4. CASE WaveA(p)
  <2> DEFINE found == FollowHits(Mine(p).seed)
  <2>1. Follow(p, found)
    BY <1>4 DEF WaveA
  <2>2. /\ IsFiniteSet(DOMAIN found) /\ DOMAIN found \in SUBSET (Nat \X Nat \X Nat)
        /\ \A x \in DOMAIN found : /\ found[x] \in Step
                                   /\ Follows(lookups, Mine(p).seed, Mine(p).steps, found[x])
    BY <1>2, FollowHitsFollow
  <2> HIDE DEF found
  <2> QED
    BY <1>3, <2>1, <2>2
<1>5. CASE WaveB(p)
  <2> DEFINE found == FollowPosts(exec[p].fetched)
  <2>1. Follow(p, found)
    BY <1>5 DEF WaveB
  <2>2. exec[p].fetched \in Seq(Post)
    BY <1>2 DEF Exec
  <2>3. \A j \in DOMAIN exec[p].fetched : \E k \in DOMAIN Mine(p).steps :
           /\ Mine(p).steps[k].method = "fetch_post" /\ Mine(p).steps[k].status = "complete"
           /\ Mine(p).steps[k].target = exec[p].fetched[j]
    BY <1>2 DEF ExecStands, DueStands
  <2>4. /\ IsFiniteSet(DOMAIN found) /\ DOMAIN found \in SUBSET (Nat \X Nat \X Nat)
        /\ \A x \in DOMAIN found : /\ found[x] \in Step
                                   /\ Follows(lookups, Mine(p).seed, Mine(p).steps, found[x])
    BY <2>2, <2>3, FollowPostsFollow
  <2> HIDE DEF found
  <2> QED
    BY <1>3, <2>1, <2>4
<1> QED
  BY <1>4, <1>5


-----------------------------------------------------------------------------
(* The invariant stands *)

LEMMA InitStands ==
  ASSUME Init
  PROVE  SessionInv
<1>1. /\ answers \in Answers /\ origin \in [Seed -> {Absent, Seeded}] /\ lookups = <<>>
      /\ pc = [p \in Process |-> "idle"] /\ work = [p \in Process |-> None]
      /\ sessions = <<>> /\ exec = [p \in SessionProcess |-> None]
  BY DEF Init, LookupInit
<1>2. origin \in [Seed -> Origin]
  BY <1>1 DEF Origin
<1>3. RowsStand(answers, lookups)
  <2>1. <<>> \in Seq(Lookup) /\ DOMAIN (<<>>) = {}
    OBVIOUS
  <2> QED
    BY <1>1, <2>1 DEF RowsStand
<1>4. \A p \in Process : WorkStands(answers, lookups, pc[p], work[p])
  BY <1>1 DEF WorkStands
<1>5. pc \in [Process -> Label] /\ work \in [Process -> Work \cup {None}]
  BY <1>1 DEF Label
<1>6. LookupInv
  BY <1>1, <1>2, <1>3, <1>4, <1>5 DEF LookupInv, RunsApart, NoRunLeftBehind
<1>7. sessions \in Seq(Session) /\ DOMAIN sessions = {}
  BY <1>1
<1>8. /\ exec \in [SessionProcess -> Exec \cup {None}]
      /\ \A p \in SessionProcess : ProcessStands(sessions, pc[p], work[p], exec[p])
      /\ \A p \in Process \ SessionProcess : pc[p] \notin {"plan", "step"}
      /\ ExecsApart(exec)
  BY <1>1, SessionAssumption DEF ProcessStands, ExecsApart
<1> QED
  BY <1>6, <1>7, <1>8 DEF SessionInv, Held

(* A lookup by hand.                                                       *)
LEMMA HandKeeps ==
  ASSUME SessionInv, NEW p \in Process \ SessionProcess, LookupsKept, UNCHANGED sessionVars,
         pc'[p] \notin {"plan", "step"},
         \A q \in Process : q # p => pc'[q] = pc[q] /\ work'[q] = work[q]
  PROVE  SessionInv'
<1>1. \A q \in SessionProcess : q \in Process /\ q # p
  BY SessionAssumption
<1>2. \A q \in SessionProcess : ProcessStands(sessions, pc'[q], work'[q], exec[q])
  BY <1>1 DEF SessionInv
<1>3. \A q \in Process \ SessionProcess : pc'[q] \notin {"plan", "step"}
  BY DEF SessionInv
<1> QED
  BY <1>2, <1>3, SessionsStay

LEMMA ByHandKeeps ==
  ASSUME SessionInv, ByHand
  PROVE  SessionInv'
<1>1. UNCHANGED sessionVars /\ LookupInv
  BY DEF ByHand, SessionInv
<1>2. ASSUME NEW p \in Process \ SessionProcess, NEW label \in Label, NEW w,
             label \notin {"plan", "step"}, Goto(p, label), work' = [work EXCEPT ![p] = w],
             LookupsKept
      PROVE  SessionInv'
  <2>1. /\ pc'[p] = label
        /\ \A q \in Process : q # p => pc'[q] = pc[q] /\ work'[q] = work[q]
    BY <1>1, <1>2, InvocationFacts DEF Goto
  <2> QED
    BY <1>1, <1>2, <2>1, HandKeeps
<1>3. "check" \in Label /\ "idle" \in Label
  BY DEF Label
<1>4. ASSUME NEW p \in Process \ SessionProcess, NEW s \in Seed, NEW provider \in Provider,
             NEW strategy \in Strategy, NEW limit \in Budgets, LookUp(p, s, provider, strategy, limit)
      PROVE  SessionInv'
  <2>1. LookupsKept
    BY <1>1, <1>4, LookUpKeeps
  <2>2. Goto(p, "check") /\ \E w : work' = [work EXCEPT ![p] = w]
    BY <1>4 DEF LookUp
  <2> QED
    BY <1>2, <1>3, <2>1, <2>2
<1>5. ASSUME NEW p \in Process \ SessionProcess, NEW r \in DOMAIN lookups, NEW limit \in Budgets,
             Resume(p, r, limit)
      PROVE  SessionInv'
  <2>1. LookupsKept
    BY <1>1, <1>5, ResumeKeeps
  <2>2. Goto(p, "check") /\ \E w : work' = [work EXCEPT ![p] = w]
    BY <1>5 DEF Resume
  <2> QED
    BY <1>2, <1>3, <2>1, <2>2
<1>6. ASSUME NEW p \in Process \ SessionProcess, LookupStep(p)
      PROVE  SessionInv'
  <2>1. LookupsKept
    BY <1>1, <1>6, LookupStepKeeps
  <2>2. /\ pc'[p] \in LookupLabel
        /\ \A q \in Process : q # p => pc'[q] = pc[q] /\ work'[q] = work[q]
    BY <1>1, <1>6, LookupStepIsOwn
  <2> QED
    BY <1>1, <2>1, <2>2, HandKeeps DEF LookupLabel
<1>7. ASSUME NEW p \in Process \ SessionProcess, Done(p)
      PROVE  SessionInv'
  <2>1. LookupsKept
    BY <1>1, <1>7, InvocationFacts, DoneKeeps DEF Done, At
  <2>2. Goto(p, "idle") /\ work' = [work EXCEPT ![p] = None]
    BY <1>7 DEF Done
  <2> QED
    BY <1>2, <1>3, <2>1, <2>2
<1>8. ASSUME NEW p \in Process \ SessionProcess, Kill(p)
      PROVE  SessionInv'
  <2>1. LookupsKept
    BY <1>1, <1>8, KillKeeps DEF Kill
  <2>2. Goto(p, "idle") /\ work' = [work EXCEPT ![p] = None]
    BY <1>8 DEF Kill
  <2> QED
    BY <1>2, <1>3, <2>1, <2>2
<1> QED
  BY <1>4, <1>5, <1>6, <1>7, <1>8 DEF ByHand

LEMMA DiscoverKeeps ==
  ASSUME SessionInv, Discover
  PROVE  SessionInv'
<1>1. CASE \E s \in Post : Materialize(s)
  BY <1>1, RewritesKeep DEF Seed
<1>2. CASE \E s \in DOMAIN sessions : Inspect(s)
  BY <1>2, InspectKeeps
<1>3. ASSUME NEW p \in SessionProcess, NEW live \in BOOLEAN, NEW budget \in Budgets,
             \/ \E s \in Seed, term \in BOOLEAN : Start(p, s, live, budget, term)
             \/ \E f \in File : StartFile(p, f, live, budget)
      PROVE  SessionInv'
  BY <1>3, StartKeeps, StartFileKeeps
<1>4. ASSUME NEW p \in SessionProcess, SessionStep(p)
      PROVE  SessionInv'
  <2>1. CASE PlanFile(p)
    BY <2>1, PlanFileKeeps
  <2>2. CASE ExecuteLocal(p) \/ StepExhausted(p)
    BY <2>2, LocalKeeps
  <2>3. CASE StepLookup(p)
    BY <2>3, PlanKeeps
  <2>4. CASE StepFetches(p)
    BY <2>4, FetchKeeps
  <2>5. CASE StepReturns(p)
    BY <2>5, ReturnKeeps
  <2>6. CASE Aborted(p)
    BY <2>6, AbortKeeps
  <2>7. CASE WaveA(p) \/ WaveB(p)
    BY <2>7, WavesKeep
  <2>8. CASE Report(p)
    BY <2>8, ReportKeeps
  <2>9. CASE LookupStep(p) /\ UNCHANGED sessionVars
    BY <2>9, LookingKeeps
  <2> QED
    BY <1>4, <2>1, <2>2, <2>3, <2>4, <2>5, <2>6, <2>7, <2>8, <2>9 DEF SessionStep
<1>5. ASSUME NEW p \in SessionProcess, Expire(p) \/ KillSession(p)
      PROVE  SessionInv'
  BY <1>5, ExpireKeeps, AbortKeeps
<1> QED
  BY <1>1, <1>2, <1>3, <1>4, <1>5 DEF Discover

(* What sessions and lookups stand on always holds: whatever lookups by    *)
(* hand, synchronizations, kills and reports come between the steps of a   *)
(* session (orchestration.py, candidate_lookup/service.py).                *)
THEOREM SessionInvariance ==
  Spec => []SessionInv
<1>1. Init => SessionInv
  BY InitStands
<1>2. SessionInv /\ [Next]_vars => SessionInv'
  <2> SUFFICES ASSUME SessionInv, [Next]_vars
               PROVE  SessionInv'
    OBVIOUS
  <2>1. CASE Discover
    BY <2>1, DiscoverKeeps
  <2>2. CASE ByHand
    BY <2>2, ByHandKeeps
  <2>3. CASE Synchronize
    BY <2>3, RewritesKeep DEF Synchronize
  <2>4. CASE UNCHANGED vars
    BY <2>4, QuietStep, CatalogKeeps DEF vars, sessionVars
  <2> QED
    BY <2>1, <2>2, <2>3, <2>4 DEF Next
<1> QED
  BY <1>1, <1>2, PTL DEF Spec


-----------------------------------------------------------------------------
(* What follows *)

(* The rows of lookups and sessions are of their types, and a checkpoint   *)
(* names a page that the provider answers (candidate_lookup/service.py).   *)
THEOREM SessionTypesStand ==
  Spec => []SessionTypeOK
<1>1. SessionInv => SessionTypeOK
  <2> SUFFICES ASSUME SessionInv
               PROVE  SessionTypeOK
    OBVIOUS
  <2>1. LookupInv /\ RowsStand(answers, lookups)
    BY DEF SessionInv, LookupInv
  <2>2. ASSUME NEW r \in DOMAIN lookups
        PROVE  lookups[r].checkpoint \in DOMAIN answers[Question(r)] \cup {None}
    BY <2>1 DEF RowsStand, RowStands, HasPages, Question, Asks
  <2>3. LookupTypeOK
    BY <2>1, <2>2 DEF LookupTypeOK, LookupInv, RowsStand
  <2> QED
    BY <2>3 DEF SessionTypeOK, SessionInv
<1> QED
  BY <1>1, SessionInvariance, PTL

(* A lookup or a step of a session that says complete rests on runs that   *)
(* asked one question to its end, over every pause, kill and resumption,   *)
(* and no run is left that claims to be running (service.py:155-171 and    *)
(* 398-463, orchestration.py:499-514).                                     *)
THEOREM CompleteRestsOnAnswers ==
  Spec => []CompleteIsAnswered
<1>1. SessionInv => CompleteIsAnswered
  <2> SUFFICES ASSUME SessionInv
               PROVE  CompleteIsAnswered
    OBVIOUS
  <2>1. CompleteChainCovers /\ ChainAsksTheSame /\ NoRunLeftBehind
    BY ChainsStand DEF SessionInv
  <2>2. ASSUME NEW s \in DOMAIN sessions, NEW i \in DOMAIN sessions[s].steps,
               sessions[s].steps[i].status = "complete",
               NEW n \in DOMAIN sessions[s].steps[i].runs
        PROVE  LET r == sessions[s].steps[i].runs[n] IN
               lookups[r].status = "complete" /\ Collected(r) = AllHits(r)
    <3>1. StepStands(lookups, sessions[s].seed, sessions[s].steps, i)
      BY <2>2 DEF SessionInv, SessionStands
    <3> QED
      BY <2>1, <2>2, <3>1 DEF StepStands, CompleteChainCovers
  <2>3. CompleteStepIsAnswered
    BY <2>2 DEF CompleteStepIsAnswered, Range
  <2> QED
    BY <2>1, <2>3 DEF CompleteIsAnswered
<1> QED
  BY <1>1, SessionInvariance, PTL

(* A session follows only what it was led to, sends no more requests than  *)
(* its budget as far as it promises that, and its report tells its steps   *)
(* (orchestration.py:483-503 and 527-661).                                 *)
THEOREM SessionKeepsToBounds ==
  Spec => []SessionKeepsBounds
<1>1. SessionInv => SessionKeepsBounds
  <2> SUFFICES ASSUME SessionInv
               PROVE  SessionKeepsBounds
    OBVIOUS
  <2>1. \A s \in DOMAIN sessions : SessionStands(lookups, sessions[s])
    BY DEF SessionInv
  <2>2. FollowupsAreLedTo
    <3> SUFFICES ASSUME NEW s \in DOMAIN sessions, NEW i \in DOMAIN sessions[s].steps,
                        sessions[s].steps[i].generation = 1
                 PROVE  LET steps == sessions[s].steps
                            fetched == {steps[j].target :
                                           j \in {k \in 1..(i - 1) :
                                                     /\ steps[k].method = "fetch_post"
                                                     /\ steps[k].status = "complete"}}
                        IN  IF steps[i].method = "fetch_post"
                            THEN \E r \in DOMAIN lookups :
                                    /\ lookups[r].seed = sessions[s].seed
                                    /\ lookups[r].provider = steps[i].source
                                    /\ steps[i].target \in lookups[r].results
                            ELSE /\ steps[i].seed \in fetched
                                 /\ steps[i].target \in Range(Materials[steps[i].seed])
      BY DEF FollowupsAreLedTo
    <3>1. LedTo(lookups, sessions[s].seed, sessions[s].steps, i)
      BY <2>1 DEF SessionStands, StepStands
    <3> QED
      BY <3>1 DEF LedTo
  <2>3. SingleMaterialWithinBudget
    BY <2>1 DEF SingleMaterialWithinBudget, SessionStands, Plain
  <2>4. ReportTellsSteps
    BY <2>1 DEF ReportTellsSteps, SessionStands, Tells
  <2> QED
    BY <2>2, <2>3, <2>4 DEF SessionKeepsBounds
<1> QED
  BY <1>1, SessionInvariance, PTL

=============================================================================
