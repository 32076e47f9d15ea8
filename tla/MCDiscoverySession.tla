------------------------- MODULE MCDiscoverySession -------------------------
(* Instance of lookups and discovery sessions for TLC: lookups by hand     *)
(* while their seed is synchronized, or a session, whose own pages rewrite *)
(* its seed; and the walks of the adapters through the pages of a site,    *)
(* which share no variable with them.  half names what is explored.        *)
EXTENDS DiscoverySession, ProviderWalks

VARIABLE half

(* The post "s" has two hashes and is itself what its provider finds for   *)
(* the first of them, on a page before the last; the post "h" shares the   *)
(* other one.                                                              *)
MCProviders == <<"dan", "esix">>
MCStrategies == <<"md5", "artist">>
MCSupported == {<<"dan", "md5">>, <<"dan", "artist">>, <<"esix", "artist">>}
MCStrategyOf == [m \in Material |-> IF m = "name" THEN "artist" ELSE "md5"]
MCMaterials == [s |-> <<"m1", "m2">>, h |-> <<"m2">>, f |-> <<"m1">>, a |-> <<"name">>]
MCAnswer(first) ==
    [q \in Asked |-> IF q = <<"dan", "m1">> THEN first
                     ELSE IF q = <<"dan", "m2">> THEN <<{"h"}>> ELSE <<{}>>]
MCAnswers == {MCAnswer(<<{"s"}, {"h"}>>), MCAnswer(<<{"h"}>>)}

(* The posts 1 to 4 may be there at first. *)
MCTokens == <<<<{1, 2, 3, 5}, {2, 4}>>, <<{1, 4}, {3}>>>>

Apart == Init /\ answers = MCAnswer(<<{"h"}>>) /\ origin["s"] = Seeded
Aside ==
    /\ walk = "pixiv_listing" /\ rude = FALSE /\ removed = FALSE /\ site = {} /\ stood = {}
    /\ changes = 0 /\ faults = 0 /\ query = 1 /\ release = 1 /\ cursor = Nothing
    /\ seen = [q \in Query |-> [t \in DOMAIN Tokens[q] |-> {}]]
    /\ again = FALSE /\ blank = FALSE /\ ending = "complete"
    /\ request = Nothing /\ access = "none" /\ attempt = 0 /\ stale = 0

MCInit ==
    /\ half \in {"lookups", "session", "pages"}
    /\ IF half = "pages" THEN Apart /\ WalkInit /\ site \subseteq 1..4 /\ query = 1
       ELSE Init /\ Aside
    /\ origin["h"] = Absent
    /\ half = "lookups" => origin["s"] = Seeded

MCNext ==
    /\ UNCHANGED half
    /\ \/ half = "lookups" /\ (ByHand \/ Synchronize) /\ UNCHANGED walkVars
       \/ half = "session" /\ Discover /\ UNCHANGED walkVars
       \/ half = "pages" /\ WalkNext /\ UNCHANGED vars

MCSpec ==
    /\ MCInit /\ [][MCNext]_<<half, vars, walkVars>>
    /\ \A p \in SessionProcess : WF_vars(SessionStep(p) /\ UNCHANGED walkVars)
    /\ WF_walkVars(half = "pages" /\ FetchStep /\ UNCHANGED vars)

(* The rows of lookups and sessions and the state of a walk are of their   *)
(* types.                                                                  *)
TypesOK == SessionTypeOK /\ WalkTypeOK

(* Sessions and walks come to an end. *)
BothEnd == SessionEnds /\ WalkEnds

=============================================================================
