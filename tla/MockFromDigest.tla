--------------------------- MODULE MockFromDigest ---------------------------
(***************************************************************************)
(* Calls of FromDigest::from_digest for the mock curve (dev.rs): each step *)
(* is one call on some digest, recording what it returned.                 *)
(***************************************************************************)
EXTENDS ScalarReduce

VARIABLES
    digest,   \* the digest of the last call, <<>> before the first
    result    \* what it returned: the scalar, or a panic in unwrap

vars == <<digest, result>>

Init ==
    /\ digest = <<>>
    /\ result = [panic |-> FALSE, scalar |-> 0]

(* from_digest(digest): sub_inner of the digest's limbs and MODULUS, then *)
(* Scalar::try_from(..).unwrap(), which panics on a non-canonical value.  *)
CallFromDigest(d) ==
    /\ digest' = d
    /\ result' = [panic |-> FromDigestPanics(d), scalar |-> FromDigest(d)]

Next == \E d \in FieldBytes : CallFromDigest(d)

Spec == Init /\ [][Next]_vars

(* from_digest never panics and returns the digest, read big-endian, mod   *)
(* n: one masked add-back after the borrow of the five-limb subtraction is *)
(* exactly one conditional subtraction of n, with no data-dependent branch. *)
FromDigestCorrect ==
    digest # <<>> => ~result.panic /\ result.scalar = ReduceRef(digest)
=============================================================================
