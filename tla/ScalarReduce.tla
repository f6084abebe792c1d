---------------------------- MODULE ScalarReduce ----------------------------
(***************************************************************************)
(* The reduction of a message digest into a scalar modulo the group order *)
(* (src/ecdsa/src/dev.rs, FromDigest for the mock curve and sub_inner).   *)
(*                                                                         *)
(* The code works on four 64-bit limbs.  The model keeps the four limbs   *)
(* and the carry/borrow chains word by word but lets the word width be a   *)
(* constant, so that every digest of a small instance can be enumerated.   *)
(* A digest is the big-endian sequence of its four words (one word stands  *)
(* for one 8-byte chunk of the 32-byte digest); the group order MODULUS is *)
(* given little-endian, limb 0 first, as in elliptic_curve::dev::MODULUS.  *)
(***************************************************************************)
EXTENDS Integers

CONSTANTS
    WordBits,   \* width of one limb (64 in the code)
    MODULUS     \* the group order as limbs: a function from 0..3 to words

B == 2 ^ WordBits
Word == 0 .. B - 1
LimbIdx == 0 .. 3

(* 2^(4 WordBits): one more than the largest value of four limbs. *)
B4 == B * B * B * B

(* A limb has at least one bit, so a word holds at least 0 and 1, and its *)
(* top bit is worth B \div 2 (borrow >> 63 in sbb64).                      *)
ASSUME WordBitsAssumption ==
    WordBits \in Nat \ {0} /\ B \in Nat /\ B >= 2 /\ B % 2 = 0

ASSUME ModulusAssumption == MODULUS \in [LimbIdx -> Word]

(* Value of little-endian limbs. *)
LimbValue(w) == w[0] + B * (w[1] + B * (w[2] + B * w[3]))

(* The group order n. *)
N == LimbValue(MODULUS)

(* The group order is odd, and its top bit is set: 2n exceeds the digest  *)
(* range, which is what lets sub_inner reduce with a single subtraction.  *)
ASSUME OrderAssumption == N % 2 = 1 /\ 2 * N > B4

Scalar == 0 .. N - 1
NonZeroScalar == 1 .. N - 1

(* A digest (FieldBytes) is the big-endian sequence of four words. *)
FieldBytes == [1 .. 4 -> Word]

(* Big-endian value of a digest or of a scalar's byte encoding. *)
BytesValue(b) == b[4] + B * (b[3] + B * (b[2] + B * b[1]))

(* MODULUS[i] & borrow for a borrow that is a mask, 0 or all ones: the  *)
(* only values sbb64 returns as its borrow.                               *)
MaskedLimb(m, borrow) == IF borrow = 0 THEN 0 ELSE m

(* elliptic_curve::util::sbb64: a - (b + (borrow >> 63)) computed on a     *)
(* double-width integer with wrap-around; returns the low word and the     *)
(* high word, which is 0 or all ones (a mask) after a borrow.              *)
Sbb(a, b, borrow) ==
    LET ret == (a - (b + borrow \div (B \div 2))) % (B * B)
    IN  <<ret % B, ret \div B>>

(* elliptic_curve::util::adc64: a + b + carry with the carry out. *)
Adc(a, b, carry) ==
    LET ret == a + b + carry
    IN  <<ret % B, ret \div B>>

(* The borrow chain of sub_inner: (w_i, borrow) = sbb64(l_i, r_i, borrow) *)
(* for i = 0..4, the borrow of limb i feeding limb i + 1.  Element i + 1 of *)
(* the tuple is the pair sbb64 returns for limb i.                         *)
SbbChain(l, r) ==
    LET s0 == Sbb(l[0], r[0], 0)
        s1 == Sbb(l[1], r[1], s0[2])
        s2 == Sbb(l[2], r[2], s1[2])
        s3 == Sbb(l[3], r[3], s2[2])
        s4 == Sbb(l[4], r[4], s3[2])
    IN  << s0, s1, s2, s3, s4 >>

(* The add-back chain: (w_i, carry) = adc64(w_i, MODULUS[i] & borrow,     *)
(* carry) for i = 0..3, the carry of limb i feeding limb i + 1.            *)
AdcChain(w, borrow) ==
    LET a0 == Adc(w[0], MaskedLimb(MODULUS[0], borrow), 0)
        a1 == Adc(w[1], MaskedLimb(MODULUS[1], borrow), a0[2])
        a2 == Adc(w[2], MaskedLimb(MODULUS[2], borrow), a1[2])
        a3 == Adc(w[3], MaskedLimb(MODULUS[3], borrow), a2[2])
    IN  << a0, a1, a2, a3 >>

(* sub_inner(l0..l4, r0..r4): the five-limb subtraction l - r, then        *)
(* MODULUS & borrow added back; the four result limbs before               *)
(* Scalar::try_from.  The difference limb of l4 - r4 is dropped.           *)
SubInner(l, r) ==
    LET s == SbbChain(l, r)
        a == AdcChain([i \in LimbIdx |-> s[i + 1][1]], s[5][2])
    IN  [i \in LimbIdx |-> a[i + 1][1]]

(* Mutant of DigestLimbs: bytes[0..8] is read as l0. *)
DigestLimbsSwapped(digest) == [i \in 0 .. 4 |-> IF i = 4 THEN 0 ELSE digest[i + 1]]

(* The limbs FromDigest passes to sub_inner: l0 is the last 8-byte chunk   *)
(* of the digest (u64::from_be_bytes(bytes[24..32])), l3 the first; l4 and *)
(* r4 are 0 and r0..r3 are the limbs of MODULUS.                           *)
DigestLimbs(digest) == [i \in 0 .. 4 |-> IF i = 4 THEN 0 ELSE digest[4 - i]]
ModulusLimbs == [i \in 0 .. 4 |-> IF i = 4 THEN 0 ELSE MODULUS[i]]

(* The limbs FromDigest hands to Scalar::try_from. *)
ReducedLimbs(digest) == SubInner(DigestLimbs(digest), ModulusLimbs)

(* Scalar::try_from(..).unwrap() panics unless the limbs are below n. *)
FromDigestPanics(digest) == LimbValue(ReducedLimbs(digest)) >= N

(* FromDigest::from_digest for the mock curve: the scalar it returns when  *)
(* it does not panic.                                                      *)
FromDigest(digest) == LimbValue(ReducedLimbs(digest))

(* Reference definition: the digest read as a big-endian integer mod n. *)
ReduceRef(digest) == BytesValue(digest) % N
=============================================================================
