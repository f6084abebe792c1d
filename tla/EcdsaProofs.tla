----------------------------- MODULE EcdsaProofs -----------------------------
(***************************************************************************)
(* Proofs about the Ecdsa key objects, for every word width, group order, *)
(* curve and RNG/HMAC stand-in that satisfy the assumptions of Ecdsa and  *)
(* ScalarReduce.                                                           *)
(***************************************************************************)
EXTENDS Ecdsa, ScalarReduceProofs

-----------------------------------------------------------------------------
(* Arithmetic facts.                                                       *)

LEMMA ModRange ==
    ASSUME NEW x \in Int, NEW m \in Nat \ {0}
    PROVE  x % m \in 0 .. m - 1
  OBVIOUS

(* The group order is a positive natural. *)
LEMMA OrderPositive == N \in Nat \ {0}
  <1>1. \A i \in LimbIdx : MODULUS[i] \in Nat
    BY ModulusAssumption, WordFacts DEF Word
  <1>2. N \in Nat
    BY <1>1, WordFacts DEF N, LimbValue, LimbIdx
  <1>3. N # 0
    BY OrderAssumption
  <1>. QED  BY <1>2, <1>3

-----------------------------------------------------------------------------
(* The reduction always yields a natural number, whatever limbs it gets.   *)

LEMMA SbbType ==
    \A a, b, c \in Int : Sbb(a, b, c)[1] \in Word /\ Sbb(a, b, c)[2] \in Int
  BY WordFacts DEF Sbb, Word

LEMMA AdcType ==
    \A a, b, c \in Int : Adc(a, b, c)[1] \in Word /\ Adc(a, b, c)[2] \in Int
  BY WordFacts DEF Adc, Word

LEMMA MaskedLimbType ==
    ASSUME NEW i \in LimbIdx, NEW c
    PROVE  MaskedLimb(MODULUS[i], c) \in Int
  BY ModulusAssumption, WordFacts DEF MaskedLimb, Word

LEMMA SbbChainType ==
    ASSUME NEW l \in [0 .. 4 -> Int], NEW r \in [0 .. 4 -> Int]
    PROVE  \A j \in 1 .. 5 : SbbChain(l, r)[j][1] \in Word /\ SbbChain(l, r)[j][2] \in Int
  <1> DEFINE s0 == Sbb(l[0], r[0], 0)
             s1 == Sbb(l[1], r[1], s0[2])
             s2 == Sbb(l[2], r[2], s1[2])
             s3 == Sbb(l[3], r[3], s2[2])
             s4 == Sbb(l[4], r[4], s3[2])
  <1> HIDE DEF s0, s1, s2, s3, s4
  <1>0. /\ 0 \in Int
        /\ l[0] \in Int /\ l[1] \in Int /\ l[2] \in Int /\ l[3] \in Int /\ l[4] \in Int
        /\ r[0] \in Int /\ r[1] \in Int /\ r[2] \in Int /\ r[3] \in Int /\ r[4] \in Int
    OBVIOUS
  <1>1. s0[1] \in Word /\ s0[2] \in Int  BY <1>0, SbbType DEF s0
  <1>2. s1[1] \in Word /\ s1[2] \in Int  BY <1>1, <1>0, SbbType DEF s0, s1
  <1>3. s2[1] \in Word /\ s2[2] \in Int  BY <1>2, <1>0, SbbType DEF s1, s2
  <1>4. s3[1] \in Word /\ s3[2] \in Int  BY <1>3, <1>0, SbbType DEF s2, s3
  <1>5. s4[1] \in Word /\ s4[2] \in Int  BY <1>4, <1>0, SbbType DEF s3, s4
  <1>6. SbbChain(l, r) = << s0, s1, s2, s3, s4 >>
    BY DEF SbbChain, s0, s1, s2, s3, s4
  <1>. QED
    <2> SUFFICES ASSUME NEW j \in 1 .. 5
                 PROVE  << s0, s1, s2, s3, s4 >>[j][1] \in Word
                        /\ << s0, s1, s2, s3, s4 >>[j][2] \in Int
      BY <1>6
    <2>1. CASE j = 1  BY <2>1, <1>1
    <2>2. CASE j = 2  BY <2>2, <1>2
    <2>3. CASE j = 3  BY <2>3, <1>3
    <2>4. CASE j = 4  BY <2>4, <1>4
    <2>5. CASE j = 5  BY <2>5, <1>5
    <2>. QED  BY <2>1, <2>2, <2>3, <2>4, <2>5

LEMMA AdcChainType ==
    ASSUME NEW w \in [LimbIdx -> Int], NEW c
    PROVE  \A j \in 1 .. 4 : AdcChain(w, c)[j][1] \in Word /\ AdcChain(w, c)[j][2] \in Int
  <1> DEFINE a0 == Adc(w[0], MaskedLimb(MODULUS[0], c), 0)
             a1 == Adc(w[1], MaskedLimb(MODULUS[1], c), a0[2])
             a2 == Adc(w[2], MaskedLimb(MODULUS[2], c), a1[2])
             a3 == Adc(w[3], MaskedLimb(MODULUS[3], c), a2[2])
  <1> HIDE DEF a0, a1, a2, a3
  <1>0. /\ 0 \in Int
        /\ w[0] \in Int /\ w[1] \in Int /\ w[2] \in Int /\ w[3] \in Int
        /\ MaskedLimb(MODULUS[0], c) \in Int /\ MaskedLimb(MODULUS[1], c) \in Int
        /\ MaskedLimb(MODULUS[2], c) \in Int /\ MaskedLimb(MODULUS[3], c) \in Int
    BY MaskedLimbType DEF LimbIdx
  <1>1. a0[1] \in Word /\ a0[2] \in Int  BY <1>0, AdcType DEF a0
  <1>2. a1[1] \in Word /\ a1[2] \in Int  BY <1>0, <1>1, AdcType DEF a1
  <1>3. a2[1] \in Word /\ a2[2] \in Int  BY <1>0, <1>2, AdcType DEF a2
  <1>4. a3[1] \in Word /\ a3[2] \in Int  BY <1>0, <1>3, AdcType DEF a3
  <1>5. AdcChain(w, c) = << a0, a1, a2, a3 >>
    BY DEF AdcChain, a0, a1, a2, a3
  <1>. QED
    <2> SUFFICES ASSUME NEW j \in 1 .. 4
                 PROVE  << a0, a1, a2, a3 >>[j][1] \in Word
                        /\ << a0, a1, a2, a3 >>[j][2] \in Int
      BY <1>5
    <2>1. CASE j = 1  BY <2>1, <1>1
    <2>2. CASE j = 2  BY <2>2, <1>2
    <2>3. CASE j = 3  BY <2>3, <1>3
    <2>4. CASE j = 4  BY <2>4, <1>4
    <2>. QED  BY <2>1, <2>2, <2>3, <2>4

LEMMA SubInnerType ==
    ASSUME NEW l \in [0 .. 4 -> Int], NEW r \in [0 .. 4 -> Int]
    PROVE  SubInner(l, r) \in [LimbIdx -> Word]
  <1> DEFINE s == SbbChain(l, r)
             w == [i \in LimbIdx |-> s[i + 1][1]]
             a == AdcChain(w, s[5][2])
  <1> HIDE DEF s, w, a
  <1>1. \A j \in 1 .. 5 : s[j][1] \in Word /\ s[j][2] \in Int
    BY SbbChainType DEF s
  <1>2. w \in [LimbIdx -> Int]
    BY <1>1, WordFacts DEF w, LimbIdx, Word
  <1>3. \A j \in 1 .. 4 : a[j][1] \in Word
    BY <1>2, AdcChainType DEF a
  <1>4. SubInner(l, r) = [i \in LimbIdx |-> a[i + 1][1]]
    BY DEF SubInner, s, w, a
  <1>. QED  BY <1>3, <1>4 DEF LimbIdx

LEMMA ReducedType == Reduced \in [FieldBytes -> Nat]
  <1>1. SUFFICES ASSUME NEW d \in FieldBytes PROVE FromDigest(d) \in Nat
    BY DEF Reduced
  <1>2. DigestLimbs(d) \in [0 .. 4 -> Int] /\ ModulusLimbs \in [0 .. 4 -> Int]
    BY ModulusAssumption, WordFacts DEF DigestLimbs, ModulusLimbs, FieldBytes, Word, LimbIdx
  <1>3. ReducedLimbs(d) \in [LimbIdx -> Word]
    BY <1>2, SubInnerType DEF ReducedLimbs
  <1>. QED  BY <1>3, WordFacts DEF FromDigest, LimbValue, LimbIdx, Word

-----------------------------------------------------------------------------
(* The nonce, the inverse and the sign primitive stay in range.            *)

LEMMA GenerateKType ==
    ASSUME NEW x \in Scalar, NEW h \in Scalar, NEW e \in AddedEntropy
    PROVE  GenerateK(x, h, e) \in NonZeroScalar
  BY HmacDrbgAssumption DEF GenerateK

LEMMA InvType == Inv \in [NonZeroScalar -> NonZeroScalar]
  BY PrimeOrderAssumption DEF Inv, InvMod

SignOutcome == [status : Status, sig : Signature \cup {NoSignature}]

LEMMA TrySignPrehashedType ==
    ASSUME NEW d \in Scalar, NEW k \in NonZeroScalar, NEW z \in Scalar
    PROVE  TrySignPrehashed(d, k, z) \in SignOutcome
  <1>1. XCoord[k] \in Nat  BY XCoordAssumption
  <1>2. Inv[k] \in NonZeroScalar  BY InvType
  <1>3. XCoord[k] % N \in Scalar  BY <1>1, OrderPositive DEF Scalar
  <1>4. (Inv[k] * (z + (XCoord[k] % N) * d)) % N \in Scalar
    BY <1>2, <1>3, OrderPositive DEF Scalar, NonZeroScalar
  <1>. QED  BY <1>3, <1>4 DEF TrySignPrehashed, SignOutcome, Signature, Status,
                                NoSignature, Scalar, NonZeroScalar

LEMMA SignResultType ==
    ASSUME NEW k \in [kind : KeyKind, secret_scalar : Scalar],
           NEW d \in FieldBytes, NEW e \in AddedEntropy
    PROVE  SignResult(k, d, e) \in SignOutcome
  <1>1. CASE Reduced[d] >= N
    BY <1>1 DEF SignResult, SignOutcome, Status, NoSignature
  <1>2. CASE ~(Reduced[d] >= N)
    <2>1. Reduced[d] \in Scalar  BY <1>2, ReducedType, OrderPositive DEF Scalar
    <2>2. GenerateK(k.secret_scalar, Reduced[d], e) \in NonZeroScalar
      BY <2>1, GenerateKType
    <2>3. MsgScalar(k.kind, d) \in Scalar
      <3>1. BytesValue(d) \in Int
        BY WordFacts DEF BytesValue, FieldBytes, Word
      <3>. QED  BY <2>1, <3>1, OrderPositive DEF MsgScalar, Scalar
    <2>. QED  BY <1>2, <2>2, <2>3, TrySignPrehashedType DEF SignResult
  <1>. QED  BY <1>1, <1>2

-----------------------------------------------------------------------------
(* Type correctness of the key objects and of every call's outcome.        *)

LEMMA TypeInit == Init => TypeOK
  BY SlotsAssumption, OrderPositive DEF Init, TypeOK, KeyObject, Scalar, Returned,
                                        Outcome, Op, Status, NoSignature, NoKey

LEMMA TypeStep == TypeOK /\ [Next]_vars => TypeOK'
  <1> SUFFICES ASSUME TypeOK, [Next]_vars PROVE TypeOK'
    OBVIOUS
  <1>. USE DEF TypeOK, KeyObject, Outcome, Returned, Op, Status
  <1>1. ASSUME NEW s \in Slots, SigningKeyRandom(s) PROVE TypeOK'
    BY <1>1 DEF SigningKeyRandom, Scalar, NonZeroScalar, KeyKind, NoSignature
  <1>2. ASSUME NEW s \in Slots, NEW b \in FieldBytes \cup {<<>>},
               SigningKeyNew(s, b)
        PROVE  TypeOK'
    BY <1>2 DEF SigningKeyNew, Scalar, NonZeroScalar, KeyKind, NoSignature
  <1>3. ASSUME NEW s \in Slots, NEW d \in NonZeroScalar,
               SigningKeyFromScalar(s, d)
        PROVE  TypeOK'
    BY <1>3 DEF SigningKeyFromScalar, Scalar, NonZeroScalar, KeyKind, NoSignature
  <1>4. ASSUME NEW s \in Slots, NEW b \in FieldBytes, SignerNew(s, b)
        PROVE  TypeOK'
    BY <1>4 DEF SignerNew, Scalar, NonZeroScalar, KeyKind, NoSignature
  <1>5. ASSUME NEW s \in Slots, NEW h \in FieldBytes, NEW e \in AddedEntropy,
               NEW op \in Op, Live(s), out' = Signed(op, s, h, e), UNCHANGED key
        PROVE  TypeOK'
    <2>1. key[s] \in [kind : KeyKind, secret_scalar : Scalar]
      BY <1>5 DEF Live, KeyKind
    <2>2. SignTable[key[s]][h][e] = SignResult(key[s], h, e)
      BY <2>1 DEF SignTable
    <2>3. SignTable[key[s]][h][e] \in SignOutcome
      BY <2>1, <2>2, SignResultType
    <2>. QED  BY <1>5, <2>3 DEF Signed, SignOutcome
  <1>6. ASSUME NEW s \in Slots, Zeroize(s) PROVE TypeOK'
    BY <1>6, ZeroizedScalarAssumption DEF Zeroize, NoSignature
  <1>7. ASSUME NEW s \in Slots, Drop(s) PROVE TypeOK'
    BY <1>7, ZeroizedScalarAssumption DEF Drop, NoSignature
  <1>8. CASE UNCHANGED vars
    BY <1>8 DEF vars
  <1>. QED
    BY <1>1, <1>2, <1>3, <1>4, <1>5, <1>6, <1>7, <1>8, EntropiesAssumption
    DEF Next, TrySignDigest, TrySignDigestWithRng, AddedEntropy

THEOREM TypeCorrect == Spec => []TypeOK
  BY TypeInit, TypeStep, PTL DEF Spec
=============================================================================
