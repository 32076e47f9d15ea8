---------------------------- MODULE ContentStore ----------------------------
(***************************************************************************)
(* What the managed root promises the catalog: a write-once map from a     *)
(* digest to the bytes it digests, and a set of references that only ever  *)
(* point at stored bytes.                                                  *)
(***************************************************************************)
CONSTANTS Content, Digest, Sha256, None

VARIABLES
    store,   \* [Digest -> Content \cup {None}]
    refs     \* digests the catalog refers to

Init ==
    /\ store = [d \in Digest |-> None]
    /\ refs = {}

(* Bytes are stored under their own digest, once. *)
Put(c) ==
    /\ store[Sha256[c]] = None
    /\ store' = [store EXCEPT ![Sha256[c]] = c]
    /\ UNCHANGED refs

(* Only stored bytes are referred to. *)
Refer(d) ==
    /\ store[d] # None
    /\ refs' = refs \cup {d}
    /\ UNCHANGED store

Next ==
    \/ \E c \in Content : Put(c)
    \/ \E d \in Digest : Refer(d)

Spec == Init /\ [][Next]_<<store, refs>>

=============================================================================
