------------------------------ MODULE MCReview ------------------------------
(* Instance of the two sides of match review for TLC.  They share no row   *)
(* of the catalog, so that each is explored while the other rests: half    *)
(* names the one that moves.                                               *)
EXTENDS AccountIdentity, PostRelations

VARIABLE half

AccountLink(a, b, f) == [from |-> a, to |-> b, field |-> f]
Found(s, a, b) == [strategy |-> s, seed |-> a, found |-> b]
Fact(k, a, b) == [kind |-> k, from |-> a, to |-> b]
Asserted(r, a, b) == [relation |-> r, from |-> a, to |-> b]

(* A chain of four accounts, one link of it stated twice, and a link that  *)
(* closes a triangle.                                                      *)
MCKeptLinks == {AccountLink(1, 2, "website"), AccountLink(2, 3, "website"),
                AccountLink(3, 4, "bio")}
MCLaterLinks == {AccountLink(1, 2, "bio")}
MCArtistLinks == {AccountLink(1, 3, "artist")}
MCWatched == {<<1, 2>>}

(* Seeding beside a manual candidate; lookups that meet each other's       *)
(* candidates; a lookup, a discovered link and a seeded source for one     *)
(* pair, of which one post arrives later.                                  *)
MCScenarios ==
    {[links |-> {}, lookups |-> {}, manual |-> {Asserted("variant_of", 2, 1)},
      facts |-> {Fact("source_url", 1, 2), Fact("same_bytes", 1, 2), Fact("parent_of", 2, 3)}],
     [links |-> {[from |-> 1, to |-> 3]}, manual |-> {}, facts |-> {},
      lookups |-> {Found("declared", 2, 1), Found("source", 2, 1), Found("external", 2, 3)}],
     [links |-> {[from |-> 1, to |-> 3]}, lookups |-> {Found("source", 3, 1)},
      manual |-> {Asserted("same_work", 2, 1)}, facts |-> {Fact("source_url", 1, 3)}]}

(* The union-find of a rebuild: each edge joins the groups of its ends, as *)
(* in the rebuild of lineages.                                             *)
UnionFind(edges) == FoldSet(United, {{a} : a \in Account}, edges)

(* What it arrives at are the components.                                  *)
ASSUME UnionFindJoins ==
    \A edges \in SUBSET {e \in Account \X Account : e[1] < e[2]} :
        UnionFind(edges) = Joined(edges, Account)

Init == half \in {"accounts", "posts"} /\ AccountInit /\ PostInit
            /\ (half = "accounts" => scenario = CHOOSE s \in Scenarios : TRUE)

Next ==
    /\ UNCHANGED half
    /\ \/ half = "accounts" /\ AccountNext /\ UNCHANGED postVars
       \/ half = "posts" /\ PostNext /\ UNCHANGED accountVars

Spec == Init /\ [][Next]_<<half, accountVars, postVars>>

(* The rows of candidates, identities and relationships are of their types. *)
TypesOK == AccountTypeOK /\ PostTypeOK

(* Who and what is not under review keeps what earlier reviews gave it: a  *)
(* review of one candidate moves no identity it does not touch, and        *)
(* neither seeding nor materializing overrides an operator's decision.     *)
OnlyDecisionsMove == [][OthersKeepIdentity /\ OperatorHasLastWord]_<<accountVars, postVars>>

=============================================================================
