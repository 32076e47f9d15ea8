--------------------------- MODULE AccountIdentity ---------------------------
(***************************************************************************)
(* The account side of discovery/ and of candidate lookup: candidates that *)
(* two accounts are one person, the evidence they collect, the reviews of  *)
(* an operator, and the identities that confirmed candidates hold together.*)
(*                                                                         *)
(* A candidate is known by its key, here the pair of the subject account   *)
(* and the account its stable reference names; the catalog need not have a *)
(* row for the latter yet.  A catalog transaction is one step.             *)
(***************************************************************************)
EXTENDS Naturals, Sequences, FiniteSets, FiniteSetsExt, SequencesExt

CONSTANTS
    Account,        \* stable account identities
    KnownAccounts,  \* those with a row in accounts at first
    KeptLinks,      \* account links in the retained fields at first
    LaterLinks,     \* account links that later snapshots may bring
    ArtistLinks,    \* account links of provider artist records
    Decisions,      \* the decisions an operator takes
    Watched,        \* candidates an operator looks at before deciding
    MaxDecisions,   \* a bound of the model
    MaxLooks,       \* a bound: decisions after which nobody looks again
    NoView

ASSUME IdentityAssumption ==
    /\ KnownAccounts \subseteq Account
    /\ KeptLinks \cup LaterLinks \cup ArtistLinks
          \subseteq [from : Account, to : Account, field : STRING]
    /\ IsFiniteSet(Account) /\ IsFiniteSet(KeptLinks \cup LaterLinks \cup ArtistLinks)
    /\ {l.from : l \in KeptLinks} \subseteq KnownAccounts
    /\ Decisions \subseteq {"pending", "confirmed", "rejected"}
    /\ {MaxDecisions, MaxLooks} \subseteq Nat

VARIABLES
    known,      \* accounts with a row
    kept,       \* account links in the retained snapshots
    claims,     \* account_match_candidates by key
    verdicts,   \* account_candidate_decisions, in order
    member,     \* identity_accounts by account
    view        \* what a reviewer read before deciding

accountVars == <<known, kept, claims, verdicts, member, view>>

Link == KeptLinks \cup LaterLinks \cup ArtistLinks
Pair == {<<l.from, l.to>> : l \in Link}
State == {"pending", "confirmed", "rejected"}

(* target is "reference" while the candidate names a platform reference.   *)
Claim == [target : {"reference", "account"}, state : State,
          evidence : SUBSET Link, generation : Nat, revision : Nat]

(* Besides, history: had is the evidence the candidate had, and saw what   *)
(* the reviewer had in view when the review was checked, else NoView.      *)
Verdict == [claim : Pair, prior : State, decision : State, generation : Nat]

AccountTypeOK ==
    /\ known \subseteq Account /\ kept \subseteq Link
    /\ DOMAIN claims \subseteq Pair
    /\ \A p \in DOMAIN claims :
          claims[p] \in Claim /\ (claims[p].target = "account" => p[2] \in known)
    /\ \A i \in DOMAIN verdicts :
          /\ [f \in {"claim", "prior", "decision", "generation"} |-> verdicts[i][f]] \in Verdict
          /\ verdicts[i].saw = NoView \/ verdicts[i].saw.claim = verdicts[i].claim
    /\ DOMAIN member \subseteq known
    /\ \A a \in DOMAIN member :
          member[a] \in [id : Nat \ {0}, claim : Pair, decision : DOMAIN verdicts]
    /\ view = NoView \/ (view.claim \in DOMAIN claims /\ view.evidence \in SUBSET Link)

AccountInit ==
    /\ known = KnownAccounts /\ kept = KeptLinks
    /\ claims = << >> /\ verdicts = << >> /\ member = << >> /\ view = NoView

-----------------------------------------------------------------------------
(* Where candidates come from *)

(* A synchronization stores an account, or a snapshot with another link.   *)
StoreAccount(a) ==
    /\ a \notin known
    /\ known' = known \cup {a}
    /\ UNCHANGED <<kept, claims, verdicts, member, view>>

StoreSnapshot(l) ==
    /\ l \in LaterLinks \ kept /\ l.from \in known
    /\ kept' = kept \cup {l}
    /\ UNCHANGED <<known, claims, verdicts, member, view>>

NewClaim(p) ==
    [target |-> IF p[2] \in known THEN "account" ELSE "reference", state |-> "pending",
     evidence |-> {}, generation |-> 0, revision |-> 0]

(* The evidence generation is the number of supporting evidence rows.      *)
WithEvidence(c, links) ==
    [c EXCEPT !.evidence = @ \cup links, !.generation = Cardinality(c.evidence \cup links)]

(* Discovery resolves the target of a candidate that names a reference;    *)
(* a target once set stays.                                                *)
UpsertClaim(p, links) ==
    LET c == IF p \in DOMAIN claims THEN claims[p] ELSE NewClaim(p)
    IN  WithEvidence([c EXCEPT !.target = IF p[2] \in known THEN "account" ELSE @], links)

(* One run over everything that is retained, in one transaction; a link of *)
(* an account to itself is skipped.                                        *)
Discover ==
    LET linked == {<<l.from, l.to>> : l \in {k \in kept : k.from # k.to}}
        LinksOf(p) == {l \in kept : <<l.from, l.to>> = p}
    IN  /\ claims' = [p \in DOMAIN claims \cup linked |->
                        IF p \in linked THEN UpsertClaim(p, LinksOf(p)) ELSE claims[p]]
        /\ claims' # claims
        /\ UNCHANGED <<known, kept, verdicts, member, view>>

(* An artist record found for a seed account lists a stable account URL.   *)
(* The target of an existing candidate is left alone.  A record that lists *)
(* the seed itself fails the CHECK of the table: the page is rolled back   *)
(* and nothing of it is stored.                                            *)
LookupArtist(l) ==
    LET p == <<l.from, l.to>>
    IN  /\ l \in ArtistLinks /\ l.from \in known /\ l.from # l.to
        /\ p \in DOMAIN claims => l \notin claims[p].evidence
        /\ claims' = [q \in DOMAIN claims \cup {p} |->
                        IF q # p THEN claims[q]
                        ELSE WithEvidence(IF p \in DOMAIN claims THEN claims[p] ELSE NewClaim(p), {l})]
        /\ UNCHANGED <<known, kept, verdicts, member, view>>

-----------------------------------------------------------------------------
(* Reviews *)

(* The closure and the union-find of a rebuild: the component of an        *)
(* account is the least set with it that no edge leaves.                   *)
Unsplit(S, edges) == \A e \in edges : e[1] \in S <=> e[2] \in S

Component(a, edges) ==
    {b \in Account : \A S \in SUBSET Account : a \in S /\ Unsplit(S, edges) => b \in S}

Joined(edges, S) == {Component(a, edges) : a \in S}

Ends(edges) == UNION {{e[1], e[2]} : e \in edges}

Confirmed(cs) == {p \in DOMAIN cs : cs[p].state = "confirmed" /\ cs[p].target = "account"}

SameIdentity(a) == {b \in DOMAIN member : a \in DOMAIN member /\ member[b].id = member[a].id}

UsedIds == {member[a].id : a \in DOMAIN member}

(* SQLite gives a new row the id after the greatest in the table.          *)
NextId(used) == 1 + Max(used \cup {0})

(* Mutant: the first verdict about the candidate. *)
FirstVerdict(ds, p) == Min({i \in DOMAIN ds : ds[i].claim = p})

(* The verdict that a membership cites: the latest that confirmed it.      *)
LatestConfirmation(ds, p) ==
    Max({i \in DOMAIN ds : ds[i].claim = p /\ ds[i].decision = "confirmed"})

IdentityConflict(p) ==
    /\ {p[1], p[2]} \subseteq DOMAIN member
    /\ member[p[1]].id # member[p[2]].id

(* A confirmed candidate whose target is still a reference gives its       *)
(* account a row first.                                                    *)
ConfirmIdentity(p, decision) ==
    LET ids == {member[a].id : a \in {p[1], p[2]} \cap DOMAIN member}
        id == IF ids = {} THEN NextId(UsedIds) ELSE CHOOSE i \in ids : TRUE
    IN  /\ ~IdentityConflict(p)
        /\ known' = known \cup {p[2]}
        /\ member' = [a \in DOMAIN member \cup {p[1], p[2]} |->
                        IF a \in DOMAIN member THEN member[a]
                        ELSE [id |-> id, claim |-> p, decision |-> decision]]

(* The endpoints, the accounts of their identities, and all that confirmed *)
(* candidates join to those.                                               *)
Involved(p, edges) ==
    LET start == {p[1], p[2]} \cup SameIdentity(p[1]) \cup SameIdentity(p[2])
    IN  UNION Joined(edges, start)

(* The groups one after the other, in the order that rank gives them: each *)
(* takes an identity id one of its accounts had, if no group before it     *)
(* took that, and a new id otherwise.                                      *)
Numbers(groups, rank, ids) ==
    \A g \in groups :
        LET taken == {ids[h] : h \in {h \in groups : rank[h] < rank[g]}}
            free == {member[a].id : a \in g \cap DOMAIN member} \ taken
        IN  ids[g] = IF free = {} THEN NextId(UsedIds \cup taken) ELSE Min(free)

(* The memberships of the involved accounts are written anew for the       *)
(* groups that confirmed candidates still join.  The order of the groups   *)
(* and of the candidates is that of a query without ORDER BY.              *)
Rebuild(p, cs, ds) ==
    LET edges == Confirmed(cs)
        involved == Involved(p, edges)
        rows == {e \in edges : {e[1], e[2]} \cap involved # {}}
        linked == Ends(rows)
        groups == Joined(rows, linked)
        others == DOMAIN member \ involved
        places == 1..Cardinality(groups)
    IN  \E rank \in [groups -> places], cited \in [linked -> rows] :
          /\ \A g, h \in groups : rank[g] = rank[h] => g = h
          /\ \A a \in linked : a \in {cited[a][1], cited[a][2]}
          /\ \E ids \in [groups -> 1..(NextId(UsedIds) + Cardinality(groups))] :
                /\ Numbers(groups, rank, ids)
                /\ member' = [a \in others \cup linked |->
                                IF a \in linked
                                THEN [id |-> ids[Component(a, rows)], claim |-> cited[a],
                                      decision |-> LatestConfirmation(ds, cited[a])]
                                ELSE member[a]]
          /\ UNCHANGED known

Look(p) ==
    /\ p \in DOMAIN claims \cap Watched /\ Len(verdicts) < MaxLooks
    /\ view' = [claim |-> p, generation |-> claims[p].generation,
                revision |-> claims[p].revision, evidence |-> claims[p].evidence]
    /\ view' # view
    /\ UNCHANGED <<known, kept, claims, verdicts, member>>

StaleReview(v) ==
    \/ claims[v.claim].generation # v.generation
    \/ claims[v.claim].revision # v.revision

Reviewed(c, decision) ==
    [c EXCEPT !.state = decision, !.revision = @ + 1,
              !.target = IF decision = "confirmed" THEN "account" ELSE @]

(* A decision, the row of the ledger and what follows for identities are   *)
(* one transaction; saw is what the reviewer asked to be checked.          *)
Decide(p, decision, saw) ==
    LET c == claims[p]
        confirms == decision = "confirmed"
        cs == [claims EXCEPT ![p] = Reviewed(c, decision)]
        ds == Append(verdicts, [claim |-> p, prior |-> c.state, decision |-> decision,
                                generation |-> c.generation, saw |-> saw,
                                had |-> c.evidence])
    IN  /\ Len(verdicts) < MaxDecisions
        /\ claims' = cs /\ verdicts' = ds
        /\ \/ confirms /\ ConfirmIdentity(p, Len(ds))
           \/ ~confirms /\ c.state = "confirmed" /\ Rebuild(p, cs, ds)
           \/ ~confirms /\ c.state # "confirmed" /\ UNCHANGED <<known, member>>
        /\ UNCHANGED kept

Review ==
    \E p \in DOMAIN claims, decision \in Decisions :
        Decide(p, decision, NoView) /\ UNCHANGED view

CheckedReview ==
    \E decision \in Decisions :
        /\ view # NoView /\ ~StaleReview(view)
        /\ Decide(view.claim, decision, view)
        /\ view' = NoView

AccountNext ==
    \/ \E a \in Account : StoreAccount(a)
    \/ \E l \in Link : StoreSnapshot(l) \/ LookupArtist(l)
    \/ Discover
    \/ \E p \in Pair : Look(p)
    \/ Review
    \/ CheckedReview

AccountSpec == AccountInit /\ [][AccountNext]_accountVars

-----------------------------------------------------------------------------
(* Properties *)

(* Accounts share an identity exactly when confirmed candidates connect    *)
(* them, with no part of an identity that no candidate leaves, however     *)
(* confirmations and withdrawals alternate: what confirming adds to        *)
(* identity_accounts and what a rebuild writes anew agree.                 *)
IdentityIsComponent ==
    /\ \A p \in DOMAIN claims : claims[p].state = "confirmed" => claims[p].target = "account"
    /\ DOMAIN member = Ends(Confirmed(claims))
    /\ \A p \in Confirmed(claims) : member[p[1]].id = member[p[2]].id
    /\ \A S \in SUBSET DOMAIN member : \A a \in S : \A b \in SameIdentity(a) \ S :
          \E p \in Confirmed(claims) : Cardinality({p[1], p[2]} \cap S) = 1

(* What a membership cites is a candidate that is confirmed now and is     *)
(* about that account, and a decision of the ledger that confirmed it.     *)
MembershipJustified ==
    \A a \in DOMAIN member :
        LET m == member[a]
        IN  /\ m.claim \in Confirmed(claims) /\ a \in {m.claim[1], m.claim[2]}
            /\ verdicts[m.decision].claim = m.claim
            /\ verdicts[m.decision].decision = "confirmed"

(* The state of a candidate is what the last decision about it said, each  *)
(* decision names the state it found, and the revision counts them:        *)
(* discovery and lookup, which keep adding evidence and resolving targets, *)
(* never decide.                                                           *)
LedgerTellsState ==
    \A p \in DOMAIN claims :
        LET own == {i \in DOMAIN verdicts : verdicts[i].claim = p}
            Said(is) == IF is = {} THEN "pending" ELSE verdicts[Max(is)].decision
        IN  /\ claims[p].revision = Cardinality(own)
            /\ claims[p].state = Said(own)
            /\ \A i \in own : verdicts[i].prior = Said({j \in own : j < i})

(* A review that carries the generation and the revision it was based on   *)
(* is stored only if the candidate still has exactly that evidence.        *)
CheckedReviewSawEvidence ==
    \A i \in DOMAIN verdicts :
        verdicts[i].saw # NoView => verdicts[i].saw.evidence = verdicts[i].had

(* Who shares an identity follows from what was decided, and what was      *)
(* decided from reviews of the evidence there was.                         *)
IdentityIsDecided ==
    LedgerTellsState /\ IdentityIsComponent /\ MembershipJustified /\ CheckedReviewSawEvidence

(* A review leaves the memberships of all accounts alone that neither a    *)
(* candidate confirmed before it nor the reviewed one connects to the      *)
(* endpoints of the latter.                                                *)
OthersKeepIdentity ==
    verdicts' # verdicts =>
       LET p == Last(verdicts').claim
           near == Component(p[1], Confirmed(claims) \cup {p})
       IN  \A a \in DOMAIN member \ near :
              a \in DOMAIN member' /\ member'[a] = member[a]

=============================================================================
