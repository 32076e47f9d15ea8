------------------------ MODULE MCStorageVerification ------------------------
(* Instance of StorageVerification for TLC: an occurrence with two source  *)
(* files and no declared digest, one with a declared digest that shares a  *)
(* file, a second registration of one source, and four contents: one is    *)
(* not an image, one claims to be, one exceeds the byte limit.             *)
EXTENDS StorageVerification

CONSTANTS a1, a2, b1, b2, b3, b4, o1, o2

MCSourceRows ==
    <<[occurrence |-> o1, path |-> "x"], [occurrence |-> o1, path |-> "x"],
      [occurrence |-> o1, path |-> "y"], [occurrence |-> o2, path |-> "y"]>>

MCDeclared == o1 :> None @@ o2 :> b1

(* The last root has the remains of a file no catalog knows. *)
MCInitialRoots ==
    {[source |-> "x" :> f[1] @@ "y" :> f[2],
      managed |-> [b \in Content |-> IF b = f[3] THEN "damaged" ELSE None]] :
        f \in {<<b1, b1, None>>, <<b2, b1, None>>, <<b1, b3, None>>, <<b4, b1, None>>,
               <<b1, b2, b1>>}}

Interchangeable == Permutations(Adopter)

=============================================================================
