---------------------------- MODULE PostRelations ----------------------------
(***************************************************************************)
(* The post side of match review and relationships/: candidates that two   *)
(* posts are related, from discovery, candidate lookup and an operator;    *)
(* their reviews; and the typed relationships that seeding and confirmed   *)
(* candidates are turned into, with the lineages derived from them.        *)
(*                                                                         *)
(* A post has at most one media occurrence and one work anchor, and both   *)
(* are named by it where no row id matters.  A transaction is one step.    *)
(***************************************************************************)
EXTENDS Naturals, Sequences, FiniteSets, FiniteSetsExt, SequencesExt, Functions

CONSTANTS
    Post,           \* post ids
    KnownPosts,     \* posts of the catalog at first
    PicturedPosts,  \* those of them with an occurrence
    Scenarios,      \* what is on record or may be found, in one behaviour
    Rulings,        \* the decisions an operator takes
    Transitions,    \* the statuses an operator sets
    MaxReviews,     \* a bound of the model: reviews of candidates
    MaxRulings      \* a bound of the model: decisions about relationships

ASSUME RelationsAssumption ==
    /\ Post \subseteq Nat \ {0} /\ IsFiniteSet(Post) /\ KnownPosts \subseteq Post
    /\ PicturedPosts \subseteq KnownPosts
    /\ Scenarios \subseteq
          [links : SUBSET [from : Post, to : Post],
           lookups : SUBSET [strategy : {"source", "verified", "declared", "external"},
                             seed : Post, found : Post],
           manual : SUBSET [relation : {"sourced_from", "same_work", "variant_of", "unresolved"},
                            from : Post, to : Post],
           facts : SUBSET [kind : {"source_url", "parent_of", "same_bytes", "thumbnail"},
                           from : Post, to : Post]]
    /\ \A s \in Scenarios : \A l, m \in s.links : l.from = m.from => l = m
    /\ Rulings \subseteq {"pending", "confirmed", "rejected"}
    /\ Transitions \subseteq {"observed", "verified", "derived", "inferred", "reviewed"}
    /\ {MaxReviews, MaxRulings} \subseteq Nat

(* links are in retained fields, lookups are what a lookup for one post    *)
(* may find, manual is what an operator may assert, facts is what later    *)
(* pages and downloads bring.                                              *)
VARIABLES
    scenario,   \* fixed in Init
    stored,     \* posts of the catalog
    pictured,   \* posts with a media occurrence
    facts,      \* source URLs, parents, shared assets and roles on record
    matches,    \* post_match_candidates, in the order of their ids
    reviews,    \* post_candidate_decisions, in order
    works,      \* works: the origin posts, in the order of the work ids
    relations,  \* relationships by key
    rulings     \* relationship_review_decisions, in order

postVars == <<scenario, stored, pictured, facts, matches, reviews, works, relations, rulings>>

Verdicts == {"pending", "confirmed", "rejected"}
Lesser(a, b) == IF a <= b THEN a ELSE b
Greater(a, b) == IF a <= b THEN b ELSE a

(* A relationship links two objects, each a kind and a row id.             *)
Object == ({"post", "media_occurrence"} \X Post) \cup ({"work"} \X (Nat \ {0}))

Match == [relation : {"sourced_from", "same_work", "variant_of", "unresolved"},
          from : Post, to : Post, target : {"post", "reference"},
          state : Verdicts, revision : Nat]

PostTypeOK ==
    /\ pictured \subseteq stored /\ stored \subseteq Post /\ facts \subseteq scenario.facts
    /\ scenario \in Scenarios
    /\ \A i \in DOMAIN matches :
          /\ Restrict(matches[i], DOMAIN matches[i] \ {"key", "evidence"}) \in Match
          /\ matches[i].evidence # {}
          /\ matches[i].from # matches[i].to
    /\ \A i, j \in DOMAIN matches : matches[i].key = matches[j].key => i = j
    /\ IsInjective(works) /\ Range(works) \subseteq pictured
    /\ \A k \in DOMAIN relations :
          /\ k.subject \in Object /\ k.object \in Object /\ k.subject # k.object
          /\ relations[k].status \in {"observed", "verified", "derived", "inferred", "reviewed"}
          /\ relations[k].review \in Verdicts

PostInit ==
    /\ scenario \in Scenarios /\ stored = KnownPosts /\ pictured = PicturedPosts /\ facts = {}
    /\ matches = << >> /\ reviews = << >> /\ works = << >>
    /\ relations = << >> /\ rulings = << >>

-----------------------------------------------------------------------------
(* What synchronizations bring *)

StorePost(p) ==
    /\ p \notin pictured
    /\ stored' = stored \cup {p} /\ pictured' = pictured \cup {p}
    /\ UNCHANGED <<scenario, facts, matches, reviews, works, relations, rulings>>

StoreFact(f) ==
    /\ f \notin facts /\ f.from \in pictured
    /\ f.kind \in {"same_bytes", "thumbnail"} => f.to \in pictured
    /\ facts' = facts \cup {f}
    /\ UNCHANGED <<scenario, stored, pictured, matches, reviews, works, relations, rulings>>

-----------------------------------------------------------------------------
(* Candidates *)

NewMatch(relation, from, to, how) ==
    [key |-> <<relation, from, to, how>>, relation |-> relation, from |-> from, to |-> to,
     target |-> IF how = "local" \/ to \in stored THEN "post" ELSE "reference",
     state |-> "pending", revision |-> 0, evidence |-> {}]

Supported(m, item) == [m EXCEPT !.evidence = @ \cup {item}]

(* The row of a key, or a new one after the others.                        *)
RowOf(rows, key) ==
    LET at == {i \in DOMAIN rows : rows[i].key = key}
    IN  IF at = {} THEN Len(rows) + 1 ELSE Min(at)

WithRow(rows, i, m) == IF i > Len(rows) THEN Append(rows, m) ELSE [rows EXCEPT ![i] = m]

(* The numbers of a set in ascending order.                                *)
Ascending(S) ==
    {s \in [1..Cardinality(S) -> S] : \A i, j \in DOMAIN s : i < j => s[i] < s[j]}

LinkKey(l) == <<"sourced_from", l.from, l.to, "reference">>

LinkItem(l) == [kind |-> "official_link", from |-> l.from, to |-> l.to]

(* Discovery, one transaction over all retained links in the order of      *)
(* their posts: a link of a post to itself is skipped, and a target once   *)
(* resolved stays.                                                         *)
DiscoverPosts ==
    LET kept == {l \in scenario.links : l.from \in stored /\ l.from # l.to}
        Again(m) ==
            LET items == {LinkItem(l) : l \in {k \in kept : LinkKey(k) = m.key}}
            IN  [m EXCEPT !.evidence = @ \cup items,
                          !.target = IF items # {} /\ m.to \in stored THEN "post" ELSE @]
        new == {l \in kept : \A i \in DOMAIN matches : matches[i].key # LinkKey(l)}
        NewOf(post) == LET l == CHOOSE k \in new : k.from = post
                       IN  Supported(NewMatch("sourced_from", l.from, l.to, "reference"), LinkItem(l))
    IN  /\ \E posts \in Ascending({l.from : l \in new}) :
              matches' = [i \in DOMAIN matches |-> Again(matches[i])]
                            \o [n \in DOMAIN posts |-> NewOf(posts[n])]
        /\ matches' # matches
        /\ UNCHANGED <<scenario, stored, pictured, facts, reviews, works, relations, rulings>>

(* What a result of each strategy is evidence of.  The source of a found   *)
(* post that names the seed makes the found post the derivative.           *)
Interpretation(r) ==
    IF r.strategy = "source"
    THEN [relation |-> "sourced_from", from |-> r.found, to |-> r.seed]
    ELSE [relation |-> "same_work", from |-> Lesser(r.seed, r.found),
          to |-> Greater(r.seed, r.found)]

(* Mutant: candidates are looked for by one endpoint. *)
ExistingMatchOneEnd(a, b) ==
    LET same(relation) == {i \in DOMAIN matches :
            matches[i].relation = relation /\ matches[i].target = "post"
            /\ (matches[i].from = a \/ matches[i].to = a)}
    IN  IF same("sourced_from") # {} THEN Min(same("sourced_from"))
        ELSE IF same("same_work") # {} THEN Min(same("same_work")) ELSE Len(matches) + 1

(* The candidate of a pair that lookup adds to: in either orientation, one *)
(* that states a source before one that states the same work.              *)
ExistingMatch(a, b) ==
    LET same(relation) == {i \in DOMAIN matches :
            matches[i].relation = relation /\ matches[i].target = "post"
            /\ {matches[i].from, matches[i].to} = {a, b}}
    IN  IF same("sourced_from") # {} THEN Min(same("sourced_from"))
        ELSE IF same("same_work") # {} THEN Min(same("same_work")) ELSE Len(matches) + 1

(* A source found for a candidate of the same work turns that row into a   *)
(* candidate for the source, with another key; its state stays.            *)
LookupPost(r) ==
    LET new == Interpretation(r)
        i == ExistingMatch(new.from, new.to)
        item == [kind |-> r.strategy, from |-> new.from, to |-> new.to]
        old == matches[i]
        upgraded == [old EXCEPT !.relation = "sourced_from", !.from = new.from, !.to = new.to,
                                !.key = <<"sourced_from", new.from, new.to, "local">>]
        row == IF i > Len(matches) THEN NewMatch(new.relation, new.from, new.to, "local")
               ELSE IF new.relation = "sourced_from" /\ old.relation = "same_work" THEN upgraded
               ELSE old
    IN  /\ {r.seed, r.found} \subseteq stored /\ r.seed # r.found
        /\ matches' = WithRow(matches, i, Supported(row, item))
        /\ matches' # matches
        /\ UNCHANGED <<scenario, stored, pictured, facts, reviews, works, relations, rulings>>

CreatePostCandidate(c) ==
    LET sorted == c.relation = "same_work"
        from == IF sorted THEN Lesser(c.from, c.to) ELSE c.from
        to == IF sorted THEN Greater(c.from, c.to) ELSE c.to
        i == RowOf(matches, <<c.relation, from, to, "local">>)
        old == IF i \in DOMAIN matches THEN matches[i] ELSE NewMatch(c.relation, from, to, "local")
        item == [kind |-> "manual", from |-> from, to |-> to]
    IN  /\ {c.from, c.to} \subseteq stored /\ c.from # c.to
        /\ matches' = WithRow(matches, i, Supported(old, item))
        /\ matches' # matches
        /\ UNCHANGED <<scenario, stored, pictured, facts, reviews, works, relations, rulings>>

(* A review of a post candidate touches nothing else.                      *)
ReviewPost(i, decision) ==
    /\ Len(reviews) < MaxReviews
    /\ matches' = [matches EXCEPT ![i].state = decision, ![i].revision = @ + 1]
    /\ reviews' = Append(reviews, [match |-> i, relation |-> matches[i].relation,
                                   from |-> matches[i].from, to |-> matches[i].to,
                                   decision |-> decision])
    /\ UNCHANGED <<scenario, stored, pictured, facts, works, relations, rulings>>

-----------------------------------------------------------------------------
(* Works and relationships *)

(* Mutant: anchors are made for all posts again. *)
MaterializeWorksAgain ==
    /\ \E posts \in Ascending(pictured) : works' = works \o posts
    /\ Len(works') < 4
    /\ UNCHANGED <<scenario, stored, pictured, facts, matches, reviews, relations, rulings>>

MaterializeWorks ==
    /\ \E posts \in Ascending(pictured \ Range(works)) : works' = works \o posts
    /\ works' # works
    /\ UNCHANGED <<scenario, stored, pictured, facts, matches, reviews, relations, rulings>>

Symmetric == {"same_bytes", "same_work"}

(* The endpoints of a symmetric kind are put in the order of their ids.    *)
Key(kind, a, b) ==
    IF kind \in Symmetric /\ a[2] > b[2] THEN [kind |-> kind, subject |-> b, object |-> a]
    ELSE [kind |-> kind, subject |-> a, object |-> b]

NewRelation(status) == [status |-> status, review |-> "pending", evidence |-> {}]

(* A row that exists keeps its status and its review.                      *)
Inserted(key, status, items) ==
    [(IF key \in DOMAIN relations THEN relations[key] ELSE NewRelation(status))
        EXCEPT !.evidence = @ \cup items]

SeedKey(f) ==
    CASE f.kind = "source_url" -> Key("reposted_from", <<"post", f.from>>, <<"post", f.to>>)
      [] f.kind = "parent_of" -> Key("parent_of", <<"post", f.from>>, <<"post", f.to>>)
      [] f.kind = "same_bytes" ->
            Key("same_bytes", <<"media_occurrence", f.from>>, <<"media_occurrence", f.to>>)
      [] f.kind = "thumbnail" ->
            Key("thumbnail_of", <<"media_occurrence", f.from>>, <<"media_occurrence", f.to>>)

(* One transaction over all that is on record; a source or parent that is  *)
(* the post itself, or a source not in the catalog, is counted as skipped. *)
Seed ==
    LET usable == {f \in facts : f.from # f.to /\ f.to \in stored}
        keys == {SeedKey(f) : f \in usable}
        Items(k) == {[kind |-> f.kind, from |-> f.from, to |-> f.to] :
                        f \in {g \in usable : SeedKey(g) = k}}
        Status(k) == IF k.kind = "same_bytes" THEN "verified" ELSE "observed"
    IN  /\ relations' = [k \in DOMAIN relations \cup keys |-> Inserted(k, Status(k), Items(k))]
        /\ relations' # relations
        /\ UNCHANGED <<scenario, stored, pictured, facts, matches, reviews, works, rulings>>

(* Confirming a relationship also makes its status reviewed.               *)
Ruled(relation, decision) ==
    [relation EXCEPT !.review = decision,
                     !.status = IF decision = "confirmed" THEN "reviewed" ELSE @]

WorkOf(p) == CHOOSE w \in DOMAIN works : works[w] = p

(* Only these; the others are refused with a reason.                       *)
Materializable(m) ==
    /\ m.state = "confirmed" /\ m.relation # "unresolved" /\ m.target = "post"
    /\ m.relation \in {"same_work", "variant_of"} => {m.from, m.to} \subseteq Range(works)

MatchKey(m) ==
    IF m.relation = "sourced_from" THEN Key("reposted_from", <<"post", m.from>>, <<"post", m.to>>)
    ELSE Key(m.relation, <<"work", WorkOf(m.from)>>, <<"work", WorkOf(m.to)>>)

(* Mutant: a candidate's confirmation overrides a decision of the operator. *)
UndecidedAny(key) == TRUE

Undecided(key) == key \notin DOMAIN relations \/ relations[key].review = "pending"

(* Confirmed candidates become relationships, in one transaction.  One     *)
(* that exists is confirmed if its review is pending, by the first of      *)
(* several candidates, and gains the evidence of all.                      *)
MaterializeCandidates ==
    LET usable == {i \in DOMAIN matches : Materializable(matches[i])}
        Of(k) == {i \in usable : MatchKey(matches[i]) = k}
        keys == {MatchKey(matches[i]) : i \in usable}
        Row(k) == Inserted(k, "reviewed", UNION {matches[i].evidence : i \in Of(k)})
        confirming == {Min(Of(k)) : k \in {x \in keys : Undecided(x)}}
        Ruling(i) == [key |-> MatchKey(matches[i]), decision |-> "confirmed", by |-> i]
    IN  /\ relations' = [k \in DOMAIN relations \cup keys |->
                            IF k \notin keys THEN relations[k]
                            ELSE IF Undecided(k) THEN Ruled(Row(k), "confirmed") ELSE Row(k)]
        /\ \E order \in Ascending(confirming) :
              rulings' = rulings \o [n \in DOMAIN order |-> Ruling(order[n])]
        /\ relations' # relations
        /\ UNCHANGED <<scenario, stored, pictured, facts, matches, reviews, works>>

ReviewRelationship(key, decision) ==
    /\ Len(rulings) < MaxRulings
    /\ relations' = [relations EXCEPT ![key] = Ruled(@, decision)]
    /\ rulings' = Append(rulings, [key |-> key, decision |-> decision, by |-> 0])
    /\ UNCHANGED <<scenario, stored, pictured, facts, matches, reviews, works>>

(* A transition to the status a relationship already has is refused.       *)
TransitionStatus(key, status) ==
    /\ relations[key].status # status
    /\ relations' = [relations EXCEPT ![key].status = status]
    /\ UNCHANGED <<scenario, stored, pictured, facts, matches, reviews, works, rulings>>

PostNext ==
    \/ \E p \in Post : StorePost(p)
    \/ \E f \in scenario.facts : StoreFact(f)
    \/ DiscoverPosts
    \/ \E r \in scenario.lookups : LookupPost(r)
    \/ \E c \in scenario.manual : CreatePostCandidate(c)
    \/ \E i \in DOMAIN matches, d \in Rulings : ReviewPost(i, d)
    \/ MaterializeWorks
    \/ Seed
    \/ MaterializeCandidates
    \/ \E k \in DOMAIN relations : \/ \E d \in Rulings : ReviewRelationship(k, d)
                                   \/ \E s \in Transitions : TransitionStatus(k, s)

PostSpec == PostInit /\ [][PostNext]_postVars

-----------------------------------------------------------------------------
(* Lineages *)

Descent == {"reposted_from", "variant_of", "thumbnail_of"}
Conclusions == {"observed", "verified", "derived", "reviewed"}

DependenceEdges ==
    {<<k.subject, k.object>> : k \in {x \in DOMAIN relations :
        /\ x.kind \in Descent \cup Symmetric
        /\ relations[x].status \in Conclusions
        /\ relations[x].review # "rejected"}}

(* A post, its occurrence and its work are one for lineage.                *)
AnchorEdges ==
    {<<<<"media_occurrence", p>>, <<"post", p>>>> : p \in pictured}
    \cup {<<<<"work", w>>, <<"post", works[w]>>>> : w \in DOMAIN works}
    \cup {<<<<"work", w>>, <<"media_occurrence", works[w]>>>> : w \in DOMAIN works}

LineageNodes ==
    ({"post"} \X stored) \cup ({"media_occurrence"} \X pictured) \cup ({"work"} \X DOMAIN works)

(* Union-find: the groups of the two ends of an edge become one.           *)
United(e, groups) ==
    LET hit == {g \in groups : {e[1], e[2]} \cap g # {}}
    IN  (groups \ hit) \cup {UNION hit}

LineageComponents ==
    FoldSet(United, {{n} : n \in LineageNodes}, AnchorEdges \cup DependenceEdges)

-----------------------------------------------------------------------------
(* Properties *)

PostsOf(object) == IF object[1] = "work" THEN works[object[2]] ELSE object[2]

Endpoints(k) == {PostsOf(k.subject), PostsOf(k.object)}

(* Whatever path it took - discovery, a lookup that met a candidate in the *)
(* other orientation or turned it into another kind, the work anchors a    *)
(* relationship is stated between - every piece of evidence is about the   *)
(* two posts of the candidate or relationship it is attached to, and every *)
(* relationship has some.                                                  *)
EvidenceAboutEndpoints ==
    /\ \A i \in DOMAIN matches : \A e \in matches[i].evidence :
          {e.from, e.to} = {matches[i].from, matches[i].to}
    /\ \A k \in DOMAIN relations :
          /\ relations[k].evidence # {}
          /\ \A e \in relations[k].evidence : {e.from, e.to} = Endpoints(k)

(* A relationship is confirmed only when an operator confirmed it or a     *)
(* candidate for the same two posts.                                       *)
NothingConfirmedUnasked ==
    \A k \in DOMAIN relations : relations[k].review = "confirmed" =>
        \/ \E i \in DOMAIN rulings :
              rulings[i].key = k /\ rulings[i].by = 0 /\ rulings[i].decision = "confirmed"
        \/ \E i \in DOMAIN reviews :
              /\ {reviews[i].from, reviews[i].to} = Endpoints(k)
              /\ reviews[i].decision = "confirmed"

(* What a ruling confirms, somebody confirmed: this relation between these *)
(* posts, in this direction.  Only violated: a lookup turns a confirmed    *)
(* candidate for the same work into a confirmed one for a source.          *)
ConfirmedClaimWasReviewed ==
    \A i \in DOMAIN rulings : rulings[i].by # 0 /\ rulings[i].key.kind = "reposted_from" =>
        \E j \in DOMAIN reviews :
            /\ reviews[j].decision = "confirmed" /\ reviews[j].relation = "sourced_from"
            /\ reviews[j].from = rulings[i].key.subject[2]
            /\ reviews[j].to = rulings[i].key.object[2]

(* Seeding again and materializing again change no relationship an         *)
(* operator confirmed or rejected, except that evidence is added: only     *)
(* another decision of the operator moves its review state.                *)
OperatorHasLastWord ==
    \A k \in DOMAIN relations :
        relations[k].review # "pending" /\ relations'[k].review # relations[k].review
        => /\ rulings' # rulings
           /\ Last(rulings').key = k /\ Last(rulings').by = 0

(* Two objects are of one lineage exactly when a chain of relationships of *)
(* descent or equivalence that stand - not rejected, not mere inferences - *)
(* and of anchors joins them: rejecting the only link separates them.      *)
LineageIsStanding ==
    LET Stands(k) == /\ k.kind \in {"reposted_from", "variant_of", "thumbnail_of",
                                    "same_bytes", "same_work"}
                     /\ relations[k].review # "rejected" /\ relations[k].status # "inferred"
        groups == LineageComponents
        lineage == [p \in stored |-> CHOOSE g \in groups : <<"post", p>> \in g]
        standing == {Endpoints(k) : k \in {x \in DOMAIN relations : Stands(x)}}
    IN  /\ \A e \in standing : \A p, q \in e : lineage[p] = lineage[q]
        /\ \A S \in SUBSET stored : \A p \in S : \A q \in stored \ S :
              lineage[p] = lineage[q] => \E e \in standing : e \cap S # {} /\ e \ S # {}

(* No conclusion about two works is drawn that their evidence and the      *)
(* operator's decisions do not give.                                       *)
ConclusionsAreGrounded ==
    EvidenceAboutEndpoints /\ NothingConfirmedUnasked /\ LineageIsStanding

=============================================================================
