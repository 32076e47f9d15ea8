-------------------------- MODULE MCAcquisitionRuns --------------------------
(* Instance of AcquisitionRuns for TLC.  The first item can get another    *)
(* target, whose bytes contradict its claims.  half names what is          *)
(* explored: invocations one after the other, over both items; or two at   *)
(* the same time, over the second one, until the last run, which is alone. *)
EXTENDS AcquisitionRuns, TLC

CONSTANTS p1, p2, a, b

VARIABLE half

MCMaterial == 1 :> {a, b} @@ 2 :> {a}
MCMismatching == {<<1, b>>}
Symmetry == Permutations(Process)

MCInit ==
    /\ Init
    /\ half \in {"in turn", "at once"}
    /\ half = "at once" => target[1] = a

InTurn(p) ==
    /\ half = "in turn"
    /\ \A q \in Process \ {p} : pc[q] = "idle"
    /\ Step(p)
    /\ Len(runs') < MaxRuns
    /\ pc[p] = "idle" /\ pc'[p] = "enter" => Len(runs) < MaxRuns - 1

AtOnce(p) ==
    /\ half = "at once"
    /\ Step(p)
    /\ preview'[p] # None => DOMAIN preview'[p].material = {2}
    /\ Len(runs') = MaxRuns => \A q \in Process \ {p} : pc[q] = "idle"

MCNext ==
    /\ UNCHANGED half
    /\ \/ \E p \in Process : InTurn(p) \/ AtOnce(p)
       \/ half = "in turn" /\ \E i \in Item, v \in Version : TargetChanges(i, v)

MCSpec == MCInit /\ [][MCNext]_<<half, vars>>

=============================================================================
