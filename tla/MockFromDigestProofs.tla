------------------------ MODULE MockFromDigestProofs ------------------------
(***************************************************************************)
(* Proof that every call of FromDigest::from_digest on the mock curve      *)
(* (dev.rs) returns the digest mod n and does not panic, for every word    *)
(* width and every MODULUS that satisfy the assumptions of ScalarReduce.   *)
(***************************************************************************)
EXTENDS MockFromDigest, ScalarReduceProofs

(* Each call establishes FromDigestCorrect for its own digest, whatever    *)
(* the state before: no invariant strengthening is needed.                *)
LEMMA CorrectInit == Init => FromDigestCorrect
  BY DEF Init, FromDigestCorrect

LEMMA CorrectStep == FromDigestCorrect /\ [Next]_vars => FromDigestCorrect'
  <1> SUFFICES ASSUME FromDigestCorrect, [Next]_vars
               PROVE  FromDigestCorrect'
    OBVIOUS
  <1>1. CASE \E d \in FieldBytes : CallFromDigest(d)
    <2>1. PICK d \in FieldBytes : CallFromDigest(d)
      BY <1>1
    <2>2. ~FromDigestPanics(d) /\ FromDigest(d) = ReduceRef(d)
      BY FromDigestCorrectAll
    <2>. QED  BY <2>1, <2>2 DEF CallFromDigest, FromDigestCorrect
  <1>2. CASE UNCHANGED vars
    BY <1>2 DEF vars, FromDigestCorrect
  <1>. QED  BY <1>1, <1>2 DEF Next

(* from_digest never panics and returns the digest mod n, in every run:   *)
(* the property the from_digest run checks on 2-bit limbs, here for every *)
(* limb width and order.                                                   *)
THEOREM FromDigestCorrectHolds == Spec => []FromDigestCorrect
  <1>1. Init => FromDigestCorrect
    BY CorrectInit
  <1>2. FromDigestCorrect /\ [Next]_vars => FromDigestCorrect'
    BY CorrectStep
  <1>. QED  BY <1>1, <1>2, PTL DEF Spec
=============================================================================
