------------------------- MODULE ScalarReduceProofs -------------------------
(***************************************************************************)
(* from_digest of the mock curve returns the digest modulo n and never    *)
(* panics, for every word width and every MODULUS that satisfy the        *)
(* assumptions of ScalarReduce (n odd, 2n > 2^(4 WordBits)).              *)
(***************************************************************************)
EXTENDS ScalarReduce, TLAPS

-----------------------------------------------------------------------------
(* The word primitives.                                                    *)

LEMMA WordFacts ==
    /\ B \in Nat /\ B >= 2
    /\ B \div 2 \in Nat \ {0} /\ 2 * (B \div 2) = B
  BY WordBitsAssumption

(* The borrow bit sbb64 reads: borrow >> 63 of a mask. *)
Bit(c) == IF c = 0 THEN 0 ELSE 1

(* The borrows sbb64 returns: 0 or all ones. *)
Mask == {0, B - 1}

LEMMA BitOfMask ==
    ASSUME NEW c \in Mask
    PROVE  c \div (B \div 2) = Bit(c)
  <1>1. CASE c = 0
    BY <1>1, WordFacts DEF Bit
  <1>2. CASE c = B - 1
    <2>1. B \div 2 <= B - 1 /\ B - 1 < 2 * (B \div 2)
      BY WordFacts
    <2>. QED  BY <1>2, <2>1, WordFacts DEF Bit
  <1>. QED  BY <1>1, <1>2 DEF Mask

(* sbb64 on words and a mask borrow: a word and a mask, and the identity  *)
(* low - 2^w * borrow_bit = a - b - borrow_bit_in.                         *)
LEMMA SbbSpec ==
    ASSUME NEW a \in Word, NEW b \in Word, NEW c \in Mask
    PROVE  /\ Sbb(a, b, c)[1] \in Word
           /\ Sbb(a, b, c)[2] \in Mask
           /\ Sbb(a, b, c)[1] - B * Bit(Sbb(a, b, c)[2]) = a - b - Bit(c)
  <1> DEFINE x == a - b - Bit(c)
  <1>1. c \div (B \div 2) = Bit(c)
    BY BitOfMask
  <1>2. Sbb(a, b, c) = << (x % (B * B)) % B, (x % (B * B)) \div B >>
    <2>1. a - (b + c \div (B \div 2)) = x
      BY <1>1, WordFacts DEF Word, Bit
    <2>. QED  BY <2>1 DEF Sbb
  <1>3. x \in -B .. B - 1
    BY WordFacts DEF Word, Bit
  <1> HIDE DEF x
  <1>4. CASE x >= 0
    <2>1. x % (B * B) = x
      BY <1>3, <1>4, WordFacts
    <2>2. x % B = x /\ x \div B = 0
      BY <1>3, <1>4, WordFacts
    <2>. QED  BY <1>2, <1>3, <1>4, <2>1, <2>2, WordFacts DEF Word, Mask, Bit, x
  <1>5. CASE x < 0
    <2>1. x % (B * B) = x + B * B
      BY <1>3, <1>5, WordFacts
    <2>2. (x + B * B) % B = x + B /\ (x + B * B) \div B = B - 1
      BY <1>3, <1>5, WordFacts
    <2>3. B - 1 # 0
      BY WordFacts
    <2>. QED  BY <1>2, <1>3, <1>5, <2>1, <2>2, <2>3, WordFacts DEF Word, Mask, Bit, x
  <1>. QED  BY <1>4, <1>5, <1>3

(* adc64 on words and a carry bit: low + 2^w * carry = a + b + carry_in. *)
LEMMA AdcSpec ==
    ASSUME NEW a \in Word, NEW b \in Word, NEW c \in {0, 1}
    PROVE  /\ Adc(a, b, c)[1] \in Word
           /\ Adc(a, b, c)[2] \in {0, 1}
           /\ Adc(a, b, c)[1] + B * Adc(a, b, c)[2] = a + b + c
  BY WordFacts DEF Adc, Word

(* A limb below B in front of a value below P gives a value below B * P. *)
LEMMA Horner ==
    ASSUME NEW P \in Nat \ {0}, NEW a \in Word, NEW x \in 0 .. P - 1
    PROVE  a + B * x \in 0 .. B * P - 1
  <1>1. B * x \in 0 .. B * (P - 1)
    BY WordFacts
  <1>. QED  BY <1>1, WordFacts DEF Word

(* Four limbs have a value in 0 .. 2^(4 WordBits) - 1. *)
LEMMA LimbValueRange ==
    ASSUME NEW w, \A j \in LimbIdx : w[j] \in Word
    PROVE  LimbValue(w) \in 0 .. B4 - 1
  <1>0. /\ B \in Nat \ {0}
        /\ B * B \in Nat \ {0}
        /\ B * (B * B) \in Nat \ {0}
        /\ B * (B * (B * B)) = B4
    BY WordFacts DEF B4
  <1>1. w[3] \in 0 .. B - 1
    BY DEF LimbIdx, Word
  <1>2. w[2] + B * w[3] \in 0 .. B * B - 1
    <2>1. w[2] \in Word
      BY DEF LimbIdx
    <2>. QED  BY <1>0, <1>1, <2>1, Horner
  <1>3. w[1] + B * (w[2] + B * w[3]) \in 0 .. B * (B * B) - 1
    <2>1. w[1] \in Word
      BY DEF LimbIdx
    <2>. QED  BY <1>0, <1>2, <2>1, Horner
  <1>4. w[0] + B * (w[1] + B * (w[2] + B * w[3])) \in 0 .. B * (B * (B * B)) - 1
    <2>1. w[0] \in Word
      BY DEF LimbIdx
    <2>. QED  BY <1>0, <1>3, <2>1, Horner
  <1>. QED  BY <1>0, <1>4 DEF LimbValue

-----------------------------------------------------------------------------
(* One link of each chain: limb i of sub_inner is computed from limb i's  *)
(* inputs and the borrow (carry) of limb i - 1, 0 for limb 0.             *)

LEMMA SbbChainStep ==
    ASSUME NEW lv, NEW rv, NEW k \in 0 .. 4
    PROVE  SbbChain(lv, rv)[k + 1] =
             Sbb(lv[k], rv[k], IF k = 0 THEN 0 ELSE SbbChain(lv, rv)[k][2])
  <1>1. CASE k = 0  BY <1>1 DEF SbbChain
  <1>2. CASE k = 1  BY <1>2 DEF SbbChain
  <1>3. CASE k = 2  BY <1>3 DEF SbbChain
  <1>4. CASE k = 3  BY <1>4 DEF SbbChain
  <1>5. CASE k = 4  BY <1>5 DEF SbbChain
  <1>. QED  BY <1>1, <1>2, <1>3, <1>4, <1>5

LEMMA AdcChainStep ==
    ASSUME NEW wv, NEW c, NEW k \in 0 .. 3
    PROVE  AdcChain(wv, c)[k + 1] =
             Adc(wv[k], MaskedLimb(MODULUS[k], c),
                 IF k = 0 THEN 0 ELSE AdcChain(wv, c)[k][2])
  <1>1. CASE k = 0  BY <1>1 DEF AdcChain
  <1>2. CASE k = 1  BY <1>2 DEF AdcChain
  <1>3. CASE k = 2  BY <1>3 DEF AdcChain
  <1>4. CASE k = 3  BY <1>4 DEF AdcChain
  <1>. QED  BY <1>1, <1>2, <1>3, <1>4

(* The borrow chain on five limbs of words: every limb a word, every      *)
(* borrow a mask, and limb k's identity low - 2^w borrow_out = l - r -     *)
(* borrow_in.                                                              *)
LEMMA SbbChainSpec ==
    ASSUME NEW lv \in [0 .. 4 -> Word], NEW rv \in [0 .. 4 -> Word]
    PROVE  \A k \in 0 .. 4 :
              /\ SbbChain(lv, rv)[k + 1][1] \in Word
              /\ SbbChain(lv, rv)[k + 1][2] \in Mask
              /\ SbbChain(lv, rv)[k + 1][1] - B * Bit(SbbChain(lv, rv)[k + 1][2])
                   = lv[k] - rv[k] - (IF k = 0 THEN 0 ELSE Bit(SbbChain(lv, rv)[k][2]))
  <1> DEFINE S == SbbChain(lv, rv)
  <1> DEFINE P(k) ==
              /\ S[k + 1][1] \in Word
              /\ S[k + 1][2] \in Mask
              /\ S[k + 1][1] - B * Bit(S[k + 1][2])
                   = lv[k] - rv[k] - (IF k = 0 THEN 0 ELSE Bit(S[k][2]))
  <1>0. 0 \in Mask
    BY DEF Mask
  <1>1. P(0)
    <2>1. S[1] = Sbb(lv[0], rv[0], 0)
      BY SbbChainStep
    <2>. QED  BY <1>0, <2>1, SbbSpec DEF Bit
  <1>2. ASSUME NEW k \in 1 .. 4, P(k - 1) PROVE P(k)
    <2>1. S[k + 1] = Sbb(lv[k], rv[k], S[k][2])
      BY SbbChainStep
    <2>2. S[k][2] \in Mask
      BY <1>2
    <2>3. lv[k] \in Word /\ rv[k] \in Word /\ k # 0
      OBVIOUS
    <2>4. /\ Sbb(lv[k], rv[k], S[k][2])[1] \in Word
          /\ Sbb(lv[k], rv[k], S[k][2])[2] \in Mask
          /\ Sbb(lv[k], rv[k], S[k][2])[1] - B * Bit(Sbb(lv[k], rv[k], S[k][2])[2])
               = lv[k] - rv[k] - Bit(S[k][2])
      BY <2>2, <2>3, SbbSpec
    <2>. QED  BY <2>1, <2>3, <2>4
  <1>3. P(1)  BY <1>1, <1>2
  <1>4. P(2)  BY <1>3, <1>2
  <1>5. P(3)  BY <1>4, <1>2
  <1>6. P(4)  BY <1>5, <1>2
  <1>. QED  BY <1>1, <1>3, <1>4, <1>5, <1>6

(* The add-back chain on four words: every limb a word, every carry a bit, *)
(* and limb k's identity low + 2^w carry_out = w + (MODULUS & borrow) +    *)
(* carry_in.                                                               *)
LEMMA AdcChainSpec ==
    ASSUME NEW wv \in [LimbIdx -> Word], NEW br \in Mask
    PROVE  \A k \in 0 .. 3 :
              /\ AdcChain(wv, br)[k + 1][1] \in Word
              /\ AdcChain(wv, br)[k + 1][2] \in {0, 1}
              /\ AdcChain(wv, br)[k + 1][1] + B * AdcChain(wv, br)[k + 1][2]
                   = wv[k] + MaskedLimb(MODULUS[k], br)
                     + (IF k = 0 THEN 0 ELSE AdcChain(wv, br)[k][2])
  <1> DEFINE A == AdcChain(wv, br)
  <1> DEFINE P(k) ==
              /\ A[k + 1][1] \in Word
              /\ A[k + 1][2] \in {0, 1}
              /\ A[k + 1][1] + B * A[k + 1][2]
                   = wv[k] + MaskedLimb(MODULUS[k], br) + (IF k = 0 THEN 0 ELSE A[k][2])
  <1>0. \A k \in 0 .. 3 : wv[k] \in Word /\ MaskedLimb(MODULUS[k], br) \in Word
    BY ModulusAssumption, WordFacts DEF MaskedLimb, LimbIdx, Word
  <1>1. P(0)
    <2>1. A[1] = Adc(wv[0], MaskedLimb(MODULUS[0], br), 0)
      BY AdcChainStep
    <2>2. /\ Adc(wv[0], MaskedLimb(MODULUS[0], br), 0)[1] \in Word
          /\ Adc(wv[0], MaskedLimb(MODULUS[0], br), 0)[2] \in {0, 1}
          /\ Adc(wv[0], MaskedLimb(MODULUS[0], br), 0)[1]
               + B * Adc(wv[0], MaskedLimb(MODULUS[0], br), 0)[2]
             = wv[0] + MaskedLimb(MODULUS[0], br) + 0
      BY <1>0, AdcSpec
    <2>. QED  BY <2>1, <2>2
  <1>2. ASSUME NEW k \in 1 .. 3, P(k - 1) PROVE P(k)
    <2>1. A[k + 1] = Adc(wv[k], MaskedLimb(MODULUS[k], br), A[k][2])
      BY AdcChainStep
    <2>2. A[k][2] \in {0, 1} /\ k # 0
      BY <1>2
    <2>3. /\ Adc(wv[k], MaskedLimb(MODULUS[k], br), A[k][2])[1] \in Word
          /\ Adc(wv[k], MaskedLimb(MODULUS[k], br), A[k][2])[2] \in {0, 1}
          /\ Adc(wv[k], MaskedLimb(MODULUS[k], br), A[k][2])[1]
               + B * Adc(wv[k], MaskedLimb(MODULUS[k], br), A[k][2])[2]
             = wv[k] + MaskedLimb(MODULUS[k], br) + A[k][2]
      BY <1>0, <2>2, AdcSpec
    <2>. QED  BY <2>1, <2>2, <2>3
  <1>3. P(1)  BY <1>1, <1>2
  <1>4. P(2)  BY <1>3, <1>2
  <1>5. P(3)  BY <1>4, <1>2
  <1>. QED  BY <1>1, <1>3, <1>4, <1>5

-----------------------------------------------------------------------------
(* The arithmetic of the reduction, on integers.                          *)

(* The case analysis: with no borrow the limbs hold l - n and nothing is   *)
(* added; with a borrow they hold l - n + 2^(4w), n is added and the      *)
(* carry out of limb 3 drops 2^(4w).  Either way the result is l mod n,   *)
(* as l < 2^(4w) < 2n.                                                     *)
LEMMA ReduceCases ==
    ASSUME NEW q \in Nat, NEW n \in Nat \ {0}, q < 2 * n,
           NEW l \in 0 .. q - 1, NEW wv \in 0 .. q - 1, NEW rv \in 0 .. q - 1,
           NEW c \in {0, 1}, NEW y \in {0, 1},
           wv = l - n + q * c,
           rv + q * y = wv + (IF c = 0 THEN 0 ELSE n)
    PROVE  rv = l % n
  <1>1. CASE c = 0
    <2>1. n <= l /\ l < 2 * n /\ rv = l - n
      BY <1>1
    <2>2. l % n = l - n
      BY <2>1
    <2>. QED  BY <2>1, <2>2
  <1>2. CASE c = 1
    <2>1. l < n /\ rv = l
      BY <1>2
    <2>. QED  BY <2>1
  <1>. QED  BY <1>1, <1>2

-----------------------------------------------------------------------------
(* sub_inner(l, MODULUS) with l4 = r4 = 0 returns l mod n.  The borrow    *)
(* chain computes l - n + 2^(4w) c, c the borrow out of limb 3 (and of    *)
(* limb 4); the add-back chain adds n exactly when c is set, and wraps    *)
(* exactly then.  Since l < 2^(4w) < 2n, l - n is l mod n when no borrow *)
(* occurs, and l is when one does.                                        *)
LEMMA SubInnerCorrect ==
    ASSUME NEW lv \in [0 .. 4 -> Word], lv[4] = 0
    PROVE  LimbValue(SubInner(lv, ModulusLimbs)) = LimbValue(lv) % N
  <1> DEFINE S == SbbChain(lv, ModulusLimbs)
             br == S[5][2]
             W0 == [j \in LimbIdx |-> S[j + 1][1]]
             A == AdcChain(W0, br)
             R == [j \in LimbIdx |-> A[j + 1][1]]
  <1>1. /\ ModulusLimbs \in [0 .. 4 -> Word]
        /\ ModulusLimbs[4] = 0
        /\ \A j \in LimbIdx : ModulusLimbs[j] = MODULUS[j]
    BY ModulusAssumption, WordFacts DEF ModulusLimbs, LimbIdx, Word
  <1>2. SubInner(lv, ModulusLimbs) = R
    BY DEF SubInner
  <1>3. \A k \in 0 .. 4 :
           /\ S[k + 1][1] \in Word
           /\ S[k + 1][2] \in Mask
           /\ S[k + 1][1] - B * Bit(S[k + 1][2])
                = lv[k] - ModulusLimbs[k] - (IF k = 0 THEN 0 ELSE Bit(S[k][2]))
    BY <1>1, SbbChainSpec
  <1>4. W0 \in [LimbIdx -> Word] /\ br \in Mask
    BY <1>3 DEF LimbIdx
  <1>5. \A k \in 0 .. 3 :
           /\ A[k + 1][1] \in Word
           /\ A[k + 1][2] \in {0, 1}
           /\ A[k + 1][1] + B * A[k + 1][2]
                = W0[k] + MaskedLimb(MODULUS[k], br) + (IF k = 0 THEN 0 ELSE A[k][2])
    BY <1>4, AdcChainSpec
  <1> DEFINE w(k) == S[k + 1][1]
             c(k) == Bit(S[k + 1][2])
             a(k) == A[k + 1][1]
             y(k) == A[k + 1][2]
             m(k) == MODULUS[k]
             x(k) == lv[k]
  <1>6a. \A k \in 0 .. 4 : w(k) \in Word /\ c(k) \in {0, 1} /\ x(k) \in Word
    BY <1>3 DEF Bit
  <1>6b. \A k \in 0 .. 3 : a(k) \in Word /\ y(k) \in {0, 1} /\ m(k) \in Word
    BY <1>5, ModulusAssumption DEF LimbIdx
  <1>6c. \A k \in 0 .. 3 : W0[k] = w(k) /\ R[k] = a(k)
    BY DEF LimbIdx
  <1>6d. \A k \in 0 .. 3 : MaskedLimb(m(k), br) \in Word
    BY <1>6b DEF MaskedLimb, Word
  <1>6. c(4) = Bit(br)
    OBVIOUS
  <1>6e. /\ \A k \in 0 .. 4 : w(k) \in Int /\ c(k) \in Int /\ x(k) \in Int
         /\ \A k \in 0 .. 3 : m(k) \in Int
    <2> HIDE DEF S, br, W0, A, R, w, c, a, y, m, x
    <2>. QED  BY <1>6a, <1>6b, WordFacts DEF Word
  <1>7. /\ w(0) - B * c(0) = x(0) - m(0)
        /\ w(1) - B * c(1) = x(1) - m(1) - c(0)
        /\ w(2) - B * c(2) = x(2) - m(2) - c(1)
        /\ w(3) - B * c(3) = x(3) - m(3) - c(2)
        /\ w(4) - B * c(4) = 0 - c(3)
    <2>0. /\ ModulusLimbs[0] = m(0) /\ ModulusLimbs[1] = m(1)
          /\ ModulusLimbs[2] = m(2) /\ ModulusLimbs[3] = m(3)
          /\ ModulusLimbs[4] = 0 /\ x(4) = 0
      BY <1>1 DEF LimbIdx
    <2>1. w(0) - B * c(0) = x(0) - m(0)
      <3>1. w(0) - B * c(0) = x(0) - ModulusLimbs[0] - 0
        BY <1>3
      <3>2. w(0) \in Int /\ c(0) \in Int /\ x(0) \in Int /\ m(0) \in Int
        <4> HIDE DEF S, br, W0, A, R, w, c, a, y, m, x
        <4>. QED  BY <1>6e
      <3>. QED  BY <2>0, <3>1, <3>2
    <2>2. w(1) - B * c(1) = x(1) - m(1) - c(0)
      <3>1. w(1) - B * c(1) = x(1) - ModulusLimbs[1] - c(0)
        BY <1>3
      <3>2. w(1) \in Int /\ c(1) \in Int /\ x(1) \in Int /\ c(0) \in Int /\ m(1) \in Int
        <4> HIDE DEF S, br, W0, A, R, w, c, a, y, m, x
        <4>. QED  BY <1>6e
      <3>. QED  BY <2>0, <3>1, <3>2
    <2>3. w(2) - B * c(2) = x(2) - m(2) - c(1)
      <3>1. w(2) - B * c(2) = x(2) - ModulusLimbs[2] - c(1)
        BY <1>3
      <3>2. w(2) \in Int /\ c(2) \in Int /\ x(2) \in Int /\ c(1) \in Int /\ m(2) \in Int
        <4> HIDE DEF S, br, W0, A, R, w, c, a, y, m, x
        <4>. QED  BY <1>6e
      <3>. QED  BY <2>0, <3>1, <3>2
    <2>4. w(3) - B * c(3) = x(3) - m(3) - c(2)
      <3>1. w(3) - B * c(3) = x(3) - ModulusLimbs[3] - c(2)
        BY <1>3
      <3>2. w(3) \in Int /\ c(3) \in Int /\ x(3) \in Int /\ c(2) \in Int /\ m(3) \in Int
        <4> HIDE DEF S, br, W0, A, R, w, c, a, y, m, x
        <4>. QED  BY <1>6e
      <3>. QED  BY <2>0, <3>1, <3>2
    <2>5. w(4) - B * c(4) = 0 - c(3)
      <3>1. w(4) - B * c(4) = x(4) - ModulusLimbs[4] - c(3)
        BY <1>3
      <3>2. w(4) \in Int /\ c(4) \in Int /\ x(4) \in Int /\ c(3) \in Int
        <4> HIDE DEF S, br, W0, A, R, w, c, a, y, m, x
        <4>. QED  BY <1>6e
      <3>. QED  BY <2>0, <3>1, <3>2
    <2>. QED  BY <2>1, <2>2, <2>3, <2>4, <2>5
  <1> HIDE DEF W0
  <1>8. /\ a(0) + B * y(0) = w(0) + MaskedLimb(m(0), br)
        /\ a(1) + B * y(1) = w(1) + MaskedLimb(m(1), br) + y(0)
        /\ a(2) + B * y(2) = w(2) + MaskedLimb(m(2), br) + y(1)
        /\ a(3) + B * y(3) = w(3) + MaskedLimb(m(3), br) + y(2)
    <2>1. a(0) + B * y(0) = w(0) + MaskedLimb(m(0), br)
      <3>1. a(0) + B * y(0) = W0[0] + MaskedLimb(MODULUS[0], br) + 0
        BY <1>5
      <3>2. W0[0] = w(0) /\ w(0) \in Int /\ MaskedLimb(m(0), br) \in Int
        BY <1>6a, <1>6b, <1>6c, <1>6d DEF Word
      <3>. QED  BY <3>1, <3>2
    <2>2. a(1) + B * y(1) = w(1) + MaskedLimb(m(1), br) + y(0)
      <3>1. a(1) + B * y(1) = W0[1] + MaskedLimb(MODULUS[1], br) + y(0)
        BY <1>5
      <3>2. W0[1] = w(1) /\ w(1) \in Int /\ MaskedLimb(m(1), br) \in Int /\ y(0) \in Int
        BY <1>6a, <1>6b, <1>6c, <1>6d DEF Word
      <3>. QED  BY <3>1, <3>2
    <2>3. a(2) + B * y(2) = w(2) + MaskedLimb(m(2), br) + y(1)
      <3>1. a(2) + B * y(2) = W0[2] + MaskedLimb(MODULUS[2], br) + y(1)
        BY <1>5
      <3>2. W0[2] = w(2) /\ w(2) \in Int /\ MaskedLimb(m(2), br) \in Int /\ y(1) \in Int
        BY <1>6a, <1>6b, <1>6c, <1>6d DEF Word
      <3>. QED  BY <3>1, <3>2
    <2>4. a(3) + B * y(3) = w(3) + MaskedLimb(m(3), br) + y(2)
      <3>1. a(3) + B * y(3) = W0[3] + MaskedLimb(MODULUS[3], br) + y(2)
        BY <1>5
      <3>2. W0[3] = w(3) /\ w(3) \in Int /\ MaskedLimb(m(3), br) \in Int /\ y(2) \in Int
        BY <1>6a, <1>6b, <1>6c, <1>6d DEF Word
      <3>. QED  BY <3>1, <3>2
    <2>. QED  BY <2>1, <2>2, <2>3, <2>4
  <1>9. c(4) = c(3)
    <2>1. w(4) \in Word /\ c(3) \in {0, 1} /\ c(4) \in {0, 1}
      BY <1>6a
    <2>. QED  BY <1>7, <2>1, WordFacts DEF Word
  <1>10. \A k \in 0 .. 3 : MaskedLimb(m(k), br) = IF c(3) = 0 THEN 0 ELSE m(k)
    <2>1. br \in Mask /\ c(4) = Bit(br)
      BY <1>4, <1>6
    <2>2. B - 1 # 0
      BY WordFacts
    <2>. QED  BY <1>9, <2>1, <2>2 DEF MaskedLimb, Mask, Bit
  <1>11. LimbValue(W0) = LimbValue(lv) - N + B4 * c(3)
    <2>1. LimbValue(W0) = w(0) + B * (w(1) + B * (w(2) + B * w(3)))
      BY <1>6c DEF LimbValue, LimbIdx
    <2>2. /\ LimbValue(lv) = x(0) + B * (x(1) + B * (x(2) + B * x(3)))
          /\ N = m(0) + B * (m(1) + B * (m(2) + B * m(3)))
      BY DEF LimbValue, N
    <2>3. /\ w(0) \in Int /\ w(1) \in Int /\ w(2) \in Int /\ w(3) \in Int
          /\ c(0) \in Int /\ c(1) \in Int /\ c(2) \in Int /\ c(3) \in Int
          /\ x(0) \in Int /\ x(1) \in Int /\ x(2) \in Int /\ x(3) \in Int
          /\ m(0) \in Int /\ m(1) \in Int /\ m(2) \in Int /\ m(3) \in Int
      BY <1>6a, <1>6b DEF Word
    <2>4. B \in Int
      BY WordFacts
    <2> HIDE DEF w, c, x, m, B
    <2>5. PICK bb, w0, w1, w2, w3, c0, c1, c2, c3, x0, x1, x2, x3, m0, m1, m2, m3 \in Int :
            /\ bb = B
            /\ w0 = w(0) /\ w1 = w(1) /\ w2 = w(2) /\ w3 = w(3)
            /\ c0 = c(0) /\ c1 = c(1) /\ c2 = c(2) /\ c3 = c(3)
            /\ x0 = x(0) /\ x1 = x(1) /\ x2 = x(2) /\ x3 = x(3)
            /\ m0 = m(0) /\ m1 = m(1) /\ m2 = m(2) /\ m3 = m(3)
      BY <2>3, <2>4
    <2>6. /\ w0 - bb * c0 = x0 - m0
          /\ w1 - bb * c1 = x1 - m1 - c0
          /\ w2 - bb * c2 = x2 - m2 - c1
          /\ w3 - bb * c3 = x3 - m3 - c2
      BY <1>7, <2>5
    <2>7. w0 + bb * (w1 + bb * (w2 + bb * w3))
            = (x0 + bb * (x1 + bb * (x2 + bb * x3)))
              - (m0 + bb * (m1 + bb * (m2 + bb * m3))) + bb * bb * bb * bb * c3
      BY <2>6
    <2>. QED  BY <2>1, <2>2, <2>5, <2>7 DEF B4
  <1>12. LimbValue(R) + B4 * y(3) = LimbValue(W0) + (IF c(3) = 0 THEN 0 ELSE N)
    <2> DEFINE p(k) == MaskedLimb(m(k), br)
    <2>1. LimbValue(R) = a(0) + B * (a(1) + B * (a(2) + B * a(3)))
      BY <1>6c DEF LimbValue, LimbIdx
    <2>2. LimbValue(W0) = w(0) + B * (w(1) + B * (w(2) + B * w(3)))
      BY <1>6c DEF LimbValue, LimbIdx
    <2>3. /\ w(0) \in Int /\ w(1) \in Int /\ w(2) \in Int /\ w(3) \in Int
          /\ a(0) \in Int /\ a(1) \in Int /\ a(2) \in Int /\ a(3) \in Int
          /\ y(0) \in Int /\ y(1) \in Int /\ y(2) \in Int /\ y(3) \in Int
          /\ p(0) \in Int /\ p(1) \in Int /\ p(2) \in Int /\ p(3) \in Int
      BY <1>6a, <1>6b, <1>6d DEF Word
    <2>4. B \in Int
      BY WordFacts
    <2>5. LimbValue(R) + B4 * y(3)
            = LimbValue(W0) + (p(0) + B * (p(1) + B * (p(2) + B * p(3))))
      <3> HIDE DEF w, a, y, p, B
      <3>1. PICK bb, w0, w1, w2, w3, a0, a1, a2, a3, y0, y1, y2, y3, p0, p1, p2, p3 \in Int :
              /\ bb = B
              /\ w0 = w(0) /\ w1 = w(1) /\ w2 = w(2) /\ w3 = w(3)
              /\ a0 = a(0) /\ a1 = a(1) /\ a2 = a(2) /\ a3 = a(3)
              /\ y0 = y(0) /\ y1 = y(1) /\ y2 = y(2) /\ y3 = y(3)
              /\ p0 = p(0) /\ p1 = p(1) /\ p2 = p(2) /\ p3 = p(3)
        BY <2>3, <2>4
      <3>2. /\ a0 + bb * y0 = w0 + p0
            /\ a1 + bb * y1 = w1 + p1 + y0
            /\ a2 + bb * y2 = w2 + p2 + y1
            /\ a3 + bb * y3 = w3 + p3 + y2
        BY <1>8, <3>1 DEF p
      <3>3. a0 + bb * (a1 + bb * (a2 + bb * a3)) + bb * bb * bb * bb * y3
              = (w0 + bb * (w1 + bb * (w2 + bb * w3)))
                + (p0 + bb * (p1 + bb * (p2 + bb * p3)))
        BY <3>2
      <3>. QED  BY <2>1, <2>2, <3>1, <3>3 DEF B4
    <2>6. p(0) + B * (p(1) + B * (p(2) + B * p(3))) = IF c(3) = 0 THEN 0 ELSE N
      <3>1. CASE c(3) = 0
        BY <1>10, <3>1, WordFacts
      <3>2. CASE c(3) # 0
        BY <1>10, <3>2 DEF N, LimbValue
      <3>. QED  BY <3>1, <3>2
    <2> HIDE DEF p
    <2>. QED  BY <2>5, <2>6
  <1>13. /\ LimbValue(lv) \in 0 .. B4 - 1
         /\ LimbValue(W0) \in 0 .. B4 - 1
         /\ LimbValue(R) \in 0 .. B4 - 1
    <2>1. \A j \in LimbIdx : lv[j] \in Word /\ W0[j] \in Word /\ R[j] \in Word
      BY <1>6a, <1>6b, <1>6c DEF LimbIdx
    <2>. QED  BY <2>1, LimbValueRange
  <1>14. /\ N \in Nat \ {0}
         /\ B4 \in Nat /\ B4 < 2 * N
         /\ c(3) \in {0, 1} /\ y(3) \in {0, 1}
    <2>1. \A j \in LimbIdx : MODULUS[j] \in Word
      BY ModulusAssumption
    <2>2. N \in 0 .. B4 - 1
      BY <2>1, LimbValueRange DEF N
    <2>3. B4 \in Nat
      BY WordFacts DEF B4
    <2>. QED  BY <1>6a, <1>6b, <2>2, <2>3, OrderAssumption
  <1> HIDE DEF S, br, W0, A, R, w, c, a, y, m, x
  <1>. QED  BY <1>2, <1>11, <1>12, <1>13, <1>14, ReduceCases
-----------------------------------------------------------------------------
(* from_digest for every digest: sub_inner of the digest's limbs is the   *)
(* digest, read big-endian, mod n, so Scalar::try_from(..).unwrap() never *)
(* panics and FromDigest agrees with the reference ReduceRef.              *)
LEMMA FromDigestCorrectAll ==
    ASSUME NEW d \in FieldBytes
    PROVE  ~FromDigestPanics(d) /\ FromDigest(d) = ReduceRef(d)
  <1>1. /\ DigestLimbs(d) \in [0 .. 4 -> Word]
        /\ DigestLimbs(d)[4] = 0
    BY WordFacts DEF DigestLimbs, FieldBytes, Word
  <1>2. LimbValue(DigestLimbs(d)) = BytesValue(d)
    BY DEF LimbValue, BytesValue, DigestLimbs
  <1>3. FromDigest(d) = BytesValue(d) % N
    BY <1>1, <1>2, SubInnerCorrect DEF FromDigest, ReducedLimbs
  <1>4. N \in Nat \ {0} /\ BytesValue(d) \in Int
    <2>1. \A j \in LimbIdx : MODULUS[j] \in Word
      BY ModulusAssumption
    <2>2. N \in 0 .. B4 - 1
      BY <2>1, LimbValueRange DEF N
    <2>3. \A j \in LimbIdx : DigestLimbs(d)[j] \in Word
      BY <1>1 DEF LimbIdx
    <2>4. LimbValue(DigestLimbs(d)) \in 0 .. B4 - 1
      BY <2>3, LimbValueRange
    <2>. QED  BY <1>2, <2>2, <2>4, OrderAssumption
  <1>5. FromDigest(d) < N
    <2>1. PICK v \in Int, n \in Nat \ {0} : v = BytesValue(d) /\ n = N
      BY <1>4
    <2>2. v % n < n
      OBVIOUS
    <2>. QED  BY <1>3, <2>1, <2>2
  <1>6. FromDigestPanics(d) = (FromDigest(d) >= N)
    BY DEF FromDigestPanics, FromDigest
  <1>7. FromDigest(d) \in Int /\ N \in Int
    BY <1>3, <1>4
  <1>8. ~FromDigestPanics(d)
    <2>1. PICK x \in Int, n \in Int : x = FromDigest(d) /\ n = N
      BY <1>7
    <2>2. ~(x >= n)
      BY <1>5, <2>1
    <2>. QED  BY <1>6, <2>1, <2>2
  <1>. QED  BY <1>3, <1>8 DEF ReduceRef
=============================================================================
