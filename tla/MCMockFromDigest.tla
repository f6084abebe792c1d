-------------------------- MODULE MCMockFromDigest --------------------------
(* Two-bit limbs: 256 digests.  The order 1 + 0*4 + 3*16 + 3*64 = 241 is a *)
(* prime with its top bit set, as the P-256 order the mock curve uses      *)
(* (2n > 2^8), and its zero limb 1 makes digests just above n borrow       *)
(* through several limbs.                                                  *)
EXTENDS MockFromDigest

MCWordBits == 2

MCModulus == [i \in 0 .. 3 |-> << 1, 0, 3, 3 >>[i + 1]]
=============================================================================
