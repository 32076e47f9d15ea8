---------------------------- MODULE MCManagedCas ----------------------------
(* Instance of ManagedCas for TLC: item a accepts anything, item b only    *)
(* one digest, so that quarantine happens.                                 *)
EXTENDS ManagedCas, TLC

CONSTANTS p1, p2, i1, i2, a, b

MCDigest == {<<"sha256", c>> : c \in Content}
MCSha256 == [c \in Content |-> <<"sha256", c>>]
MCAccepted == (a :> MCDigest) @@ (b :> {<<"sha256", <<1>>>>})

Symmetry == Permutations(Process) \cup Permutations(Inode)

=============================================================================
