----------------------- MODULE EcdsaRoundTripProofs -----------------------
(***************************************************************************)
(* Proof that every signature a SigningKey or a Signer returns verifies   *)
(* under that key's verify_key() for the same digest (RoundTrip), for     *)
(* every group order, curve table and HMAC stand-in that satisfy the      *)
(* assumptions of Ecdsa and ScalarReduce.                                  *)
(***************************************************************************)
EXTENDS EcdsaProofs

-----------------------------------------------------------------------------
(* Arithmetic modulo a positive n.                                         *)

(* The remainder is the unique r in 0..n-1 with x = n q + r. *)
LEMMA ModUnique ==
  ASSUME NEW n \in Nat \ {0}, NEW x \in Int, NEW q \in Int, NEW r \in 0 .. n - 1,
         x = n * q + r
  PROVE  x % n = r
OBVIOUS

(* Division with remainder, as the provers know it. *)
LEMMA DivMod ==
  ASSUME NEW n \in Nat \ {0}, NEW x \in Int
  PROVE  /\ x % n \in 0 .. n - 1
         /\ x \div n \in Int
         /\ x % n = x - (x \div n) * n
<1>1. x % n \in 0 .. n - 1 OBVIOUS
<1>2. x \div n \in Int OBVIOUS
<1>3. x % n = x - (x \div n) * n OBVIOUS
<1> QED BY <1>1, <1>2, <1>3

(* Adding a multiple of n does not change the remainder. *)
LEMMA ModShift ==
  ASSUME NEW n \in Nat \ {0}, NEW x \in Int, NEW t \in Int
  PROVE  (x + n * t) % n = x % n
<1>1. PICK q \in Int, r \in 0 .. n - 1 : q = x \div n /\ r = x % n /\ r = x - q * n
  BY DivMod
<1>2. PICK y \in Int, p \in Int : y = x + n * t /\ p = q + t
  OBVIOUS
<1>3. y = n * p + r
  BY <1>1, <1>2
<1>4. y % n = r
  BY <1>3, ModUnique
<1> QED BY <1>1, <1>2, <1>4

(* a and b are inverses modulo n. *)
IsInverseMod(n, a, b) == (a * b) % n = 1

(* s of try_sign_prehashed, k^-1 (z + r d) mod n, with ki = k^-1. *)
SignS(n, ki, z, r, d) == (ki * (z + r * d)) % n

(* x-free part of verify_prehashed: u1 + u2 d mod n, with u1 = z w mod n,  *)
(* u2 = r w mod n and w = s^-1.                                            *)
VerifyPoint(n, z, r, d, w) == (((z * w) % n) + ((r * w) % n) * d) % n

(* The algebra of ECDSA: with s = k^-1 (z + r d) and w = s^-1 mod n,      *)
(* u1 + u2 d = z w + r w d = w (z + r d) = k mod n, so the verifier's      *)
(* point u1 G + u2 Q is the signer's kG.                                   *)
LEMMA SignVerifyIdentity ==
  ASSUME NEW n \in Nat \ {0}, NEW k \in Int, 0 < k, k < n,
         NEW ki \in Int, NEW z \in Int, NEW r \in Int, NEW d \in Int,
         NEW s \in Int, NEW w \in Int,
         IsInverseMod(n, k, ki), s = SignS(n, ki, z, r, d), IsInverseMod(n, s, w)
  PROVE  VerifyPoint(n, z, r, d, w) = k
<1> SUFFICES (((z * w) % n) + ((r * w) % n) * d) % n = k
  BY DEF VerifyPoint
<1>h. /\ (k * ki) % n = 1
      /\ s = (ki * (z + r * d)) % n
      /\ (s * w) % n = 1
  BY DEF IsInverseMod, SignS
<1>0. PICK a \in Int, zw \in Int, rw \in Int, kA \in Int, sw \in Int, kki \in Int, e \in Int :
        /\ a = z + r * d
        /\ zw = z * w /\ rw = r * w /\ kA = ki * a
        /\ sw = s * w /\ kki = k * ki /\ e = a * w
  OBVIOUS
<1>1. PICK q1 \in Int : zw % n = zw - q1 * n
  BY DivMod
<1>2. PICK q2 \in Int : rw % n = rw - q2 * n
  BY DivMod
<1>3. PICK q3 \in Int : kA % n = kA - q3 * n
  BY DivMod
<1>4. PICK q4 \in Int : sw % n = sw - q4 * n
  BY DivMod
<1>5. PICK q5 \in Int : kki % n = kki - q5 * n
  BY DivMod
<1>6. PICK m1 \in Int, m2 \in Int, t \in Int :
        m1 = zw % n /\ m2 = rw % n /\ t = 0 - q1 - q2 * d
  <2>1. zw % n \in Int /\ rw % n \in Int /\ 0 - q1 - q2 * d \in Int
    BY <1>1, <1>2
  <2>. QED  BY <2>1
<1>7. m1 + m2 * d = e + n * t
  <2>1. m1 = zw - q1 * n /\ m2 = rw - q2 * n
    BY <1>1, <1>2, <1>6
  <2>2. m2 * d = rw * d - n * (q2 * d)
    BY <2>1
  <2>3. e = zw + rw * d
    <3>1. e = (z + r * d) * w  BY <1>0
    <3>. QED  BY <3>1, <1>0
  <2>. QED  BY <2>1, <2>2, <2>3, <1>6
<1>8. (e + n * t) % n = e % n
  BY ModShift
<1>9. s = kA - q3 * n /\ sw = 1 + q4 * n /\ kki = 1 + q5 * n
  BY <1>h, <1>0, <1>3, <1>4, <1>5
<1>10. PICK t2 \in Int : t2 = k * q4 + k * q3 * w - q5 * e
  OBVIOUS
<1>11a. e = k + n * t2
  <2>1. k * sw = k + n * (k * q4)
    BY <1>9
  <2>2. kki * e = e + n * (q5 * e)
    BY <1>9
  <2>3. kki * e = k * sw + n * (k * q3 * w)
    <3>1. k * sw = k * (s * w)  BY <1>0
    <3>2. k * (s * w) = k * ((kA - q3 * n) * w)  BY <1>9
    <3>3. k * ((kA - q3 * n) * w) = k * kA * w - n * (k * q3 * w)  OBVIOUS
    <3>4. k * kA * w = kki * e
      <4>1. k * kA * w = k * (ki * a) * w  BY <1>0
      <4>2. kki * e = (k * ki) * (a * w)  BY <1>0
      <4>. QED  BY <4>1, <4>2
    <3>. QED  BY <3>1, <3>2, <3>3, <3>4
  <2>. QED  BY <2>1, <2>2, <2>3, <1>10
<1>11b. (k + n * t2) % n = k % n
  <2>1. k \in Int  OBVIOUS
  <2>. QED  BY <2>1, ModShift
<1>11. k % n = k
  <2>1. k = n * 0 + k  OBVIOUS
  <2>. QED  BY <2>1, ModUnique
<1>12. (m1 + m2 * d) % n = k
  BY <1>7, <1>8, <1>11a, <1>11b, <1>11
<1>13. (z * w) % n = m1 /\ (r * w) % n = m2
  BY <1>0, <1>6
<1>. QED  BY <1>12, <1>13

-----------------------------------------------------------------------------
(* The scalars of the sign and verify pipelines.                           *)

(* from_digest, as tabulated in Reduced, is the digest mod n: below n, so *)
(* it never panics, and equal to the reduction Signer leaves to the       *)
(* primitive (digest.finalize() mod n).                                    *)
LEMMA ReducedRight ==
    ASSUME NEW d \in FieldBytes
    PROVE  /\ Reduced[d] = BytesValue(d) % N
           /\ Reduced[d] \in 0 .. N - 1
  <1>1. Reduced[d] = BytesValue(d) % N
    BY FromDigestCorrectAll DEF Reduced, ReduceRef
  <1>2. BytesValue(d) \in Int
    BY WordFacts DEF BytesValue, FieldBytes, Word
  <1>. QED  BY <1>1, <1>2, OrderPositive, ModRange

(* Inv is the inverse modulo n, on non-zero scalars. *)
LEMMA InvRight ==
    ASSUME NEW a \in NonZeroScalar
    PROVE  Inv[a] \in NonZeroScalar /\ (a * Inv[a]) % N = 1
  BY PrimeOrderAssumption DEF Inv, InvMod

(* A signature the sign pipeline returns with Ok passes verify_digest      *)
(* under the key's verify_key(): both sides derive the same z from the     *)
(* digest, and the primitive's s makes u1 G + u2 Q the nonce point kG.     *)
LEMMA SignVerifies ==
    ASSUME NEW k \in [kind : KeyKind, secret_scalar : Scalar],
           NEW d \in FieldBytes, NEW e \in AddedEntropy,
           SignResult(k, d, e).status = "Ok"
    PROVE  VerifyDigest(VerifyKeyOf(k), d, SignResult(k, d, e).sig)
  <1> DEFINE x  == k.secret_scalar
             h  == Reduced[d]
             kk == GenerateK(x, h, e)
             z  == MsgScalar(k.kind, d)
             r  == XCoord[kk] % N
             s  == (Inv[kk] * (z + r * x)) % N
  <1>1. N \in Nat \ {0}
    BY OrderPositive
  <1>2. h \in 0 .. N - 1 /\ z = h
    BY ReducedRight DEF MsgScalar
  <1>3. x \in Scalar /\ kk \in NonZeroScalar
    BY <1>2, GenerateKType DEF Scalar
  <1>4. SignResult(k, d, e) = TrySignPrehashed(x, kk, z)
    BY <1>2 DEF SignResult
  <1>5. /\ Inv[kk] \in NonZeroScalar /\ (kk * Inv[kk]) % N = 1
    BY <1>3, InvRight
  <1>6. r \in Scalar /\ s \in Scalar
    <2>1. XCoord[kk] \in Nat
      BY <1>3, XCoordAssumption
    <2>2. Inv[kk] * (z + r * x) \in Int
      BY <1>2, <1>3, <1>5, <2>1, <1>1 DEF Scalar, NonZeroScalar
    <2>. QED  BY <1>1, <2>1, <2>2, ModRange DEF Scalar
  <1>7. r # 0 /\ s # 0 /\ SignResult(k, d, e).sig = [r |-> r, s |-> s]
    BY <1>4 DEF TrySignPrehashed
  <1>8. r \in NonZeroScalar /\ s \in NonZeroScalar
    BY <1>6, <1>7 DEF Scalar, NonZeroScalar
  <1>9. Inv[s] \in NonZeroScalar /\ (s * Inv[s]) % N = 1
    BY <1>8, InvRight
  <1>10. (((z * Inv[s]) % N) + ((r * Inv[s]) % N) * x) % N = kk
    <2>1. /\ kk \in 1 .. N - 1 /\ Inv[kk] \in Int
          /\ z \in Int /\ r \in Int /\ x \in Int /\ s \in Int /\ Inv[s] \in Int
      BY <1>2, <1>3, <1>5, <1>6, <1>9 DEF Scalar, NonZeroScalar
    <2>2. s = (Inv[kk] * (z + r * x)) % N
      OBVIOUS
    <2> HIDE DEF x, h, kk, z, r, s
    <2>3. PICK n0 \in Nat \ {0}, ki \in Int, w \in Int,
               k0 \in Int, z0 \in Int, r0 \in Int, x0 \in Int, s0 \in Int :
            /\ n0 = N /\ ki = Inv[kk] /\ w = Inv[s]
            /\ k0 = kk /\ z0 = z /\ r0 = r /\ x0 = x /\ s0 = s
      BY <1>1, <2>1
    <2>4. /\ 0 < k0 /\ k0 < n0
          /\ IsInverseMod(n0, k0, ki)
          /\ s0 = SignS(n0, ki, z0, r0, x0)
          /\ IsInverseMod(n0, s0, w)
      BY <1>5, <1>9, <2>1, <2>2, <2>3 DEF IsInverseMod, SignS
    <2>5. VerifyPoint(n0, z0, r0, x0, w) = k0
      BY <2>3, <2>4, SignVerifyIdentity
    <2>. QED  BY <2>3, <2>5 DEF VerifyPoint
  <1>11. kk # 0 /\ XCoord[kk] % N = r
    BY <1>3 DEF NonZeroScalar
  <1>12. VerifyPrehashed(x, h, [r |-> r, s |-> s])
    <2> HIDE DEF x, h, kk, z, r, s
    <2>. QED  BY <1>2, <1>8, <1>10, <1>11 DEF VerifyPrehashed
  <1> HIDE DEF kk, z, r, s
  <1>13. Reduced[d] < N
    BY <1>1, <1>2
  <1>14. VerifyPrehashed(VerifyKeyOf(k), Reduced[d], SignResult(k, d, e).sig)
    BY <1>7, <1>12, Zenon DEF VerifyKeyOf
  <1>. QED  BY <1>13, <1>14 DEF VerifyDigest
-----------------------------------------------------------------------------
(* The inductive invariant.  RoundTrip speaks of key[out.slot] and of      *)
(* out.sig, but not of the entropy the signature was made with, so it is  *)
(* not inductive as it stands.  SignedRight remembers that the last sign   *)
(* call's signature is what SignResult returns for the current key of its *)
(* slot, that digest and some added entropy: each call overwrites out, and *)
(* a sign call leaves the keys alone, so nothing can change the key under  *)
(* a signature that is still the last outcome.                             *)
SignedRight ==
    out.status = "Ok" /\ out.op \in {"sign", "sign_rng"} =>
        /\ key[out.slot].kind \in KeyKind
        /\ out.digest \in FieldBytes
        /\ \E e \in AddedEntropy :
              /\ SignResult(key[out.slot], out.digest, e).status = "Ok"
              /\ SignResult(key[out.slot], out.digest, e).sig = out.sig

RInv == TypeOK /\ SignedRight

LEMMA RInvInit == Init => RInv
  BY TypeInit DEF Init, Returned, RInv, SignedRight

LEMMA RInvStep == RInv /\ [Next]_vars => RInv'
  <1> SUFFICES ASSUME RInv, [Next]_vars PROVE RInv'
    OBVIOUS
  <1>0. TypeOK'
    BY TypeStep DEF RInv
  <1> USE <1>0
  (* Every call but a sign call returns an outcome with another op. *)
  <1>1. ASSUME NEW s \in Slots, NEW op \in Op \ {"sign", "sign_rng"},
               out'.op = op
        PROVE  SignedRight'
    BY <1>1 DEF SignedRight
  <1>2. ASSUME NEW s \in Slots, NEW h \in FieldBytes, NEW e \in AddedEntropy,
               NEW op \in Op, Live(s), out' = Signed(op, s, h, e), UNCHANGED key
        PROVE  SignedRight'
    <2>1. key[s] \in [kind : KeyKind, secret_scalar : Scalar]
      BY <1>2 DEF RInv, TypeOK, KeyObject, Live, KeyKind
    <2>2. SignTable[key[s]][h][e] = SignResult(key[s], h, e)
      BY <2>1 DEF SignTable
    <2>3. /\ out'.slot = s /\ out'.digest = h
          /\ out'.status = SignResult(key[s], h, e).status
          /\ out'.sig = SignResult(key[s], h, e).sig
      BY <1>2, <2>2 DEF Signed
    <2>. QED  BY <1>2, <2>1, <2>3 DEF SignedRight
  <1>3. CASE UNCHANGED vars
    BY <1>3 DEF vars, RInv, SignedRight
  <1>. QED
    BY <1>1, <1>2, <1>3, EntropiesAssumption
    DEF Next, SigningKeyRandom, SigningKeyNew, SigningKeyFromScalar, SignerNew,
        TrySignDigest, TrySignDigestWithRng, Zeroize, Drop, Returned, Op,
        AddedEntropy, RInv

LEMMA RInvRoundTrip == RInv => RoundTrip
  <1> SUFFICES ASSUME RInv, out.status = "Ok", out.op \in {"sign", "sign_rng"}
               PROVE  VerifyDigest(VerifyKeyOf(key[out.slot]), out.digest, out.sig)
    BY DEF RoundTrip
  <1>1. PICK e \in AddedEntropy :
           /\ SignResult(key[out.slot], out.digest, e).status = "Ok"
           /\ SignResult(key[out.slot], out.digest, e).sig = out.sig
    BY DEF RInv, SignedRight
  <1>2. /\ key[out.slot] \in [kind : KeyKind, secret_scalar : Scalar]
        /\ out.digest \in FieldBytes
    BY DEF RInv, SignedRight, TypeOK, KeyObject, Outcome
  <1>. QED  BY <1>1, <1>2, SignVerifies

(* Every signature a sign call returns with Ok verifies under the signing *)
(* key's verify_key() for the same digest: the property the round_trip     *)
(* run checks on a 2-bit toy group, here for every group order, word       *)
(* width, x-coordinate table and HMAC_DRBG stand-in meeting the            *)
(* assumptions.                                                            *)
THEOREM RoundTripHolds == Spec => []RoundTrip
  <1>1. Init => RInv  BY RInvInit
  <1>2. RInv /\ [Next]_vars => RInv'  BY RInvStep
  <1>3. RInv => RoundTrip  BY RInvRoundTrip
  <1>. QED  BY <1>1, <1>2, <1>3, PTL DEF Spec
=============================================================================
