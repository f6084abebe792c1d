-------------------------------- MODULE Ecdsa --------------------------------
(***************************************************************************)
(* The ECDSA signing keys of src/ecdsa/src/sign.rs (SigningKey) and        *)
(* src/ecdsa/src/signer.rs (Signer), their lifecycle (construction,        *)
(* zeroize, drop) and the sign and verify orchestration around them        *)
(* (sign.rs, signer.rs, verify.rs).                                        *)
(*                                                                         *)
(* The curve is abstracted to the cyclic group it generates: a point is    *)
(* represented by its discrete logarithm to the generator G (0 is the      *)
(* point at infinity), and XCoord[k] is the affine x-coordinate of kG.     *)
(* The RFC 6979 generator, the sign primitive and the verify primitive are *)
(* code outside src/ and are modelled from the spec (sections 4.2 and 6).  *)
(***************************************************************************)
EXTENDS ScalarReduce

CONSTANTS
    Slots,          \* the key objects that may exist at once
    Entropies,      \* the values rng.fill_bytes may produce (FieldBytes)
    XCoord,         \* XCoord[k]: the x-coordinate of kG, for k # 0
    HmacDrbg(_, _, _, _),  \* HmacDrbg(x, h, data, i): i-th candidate of RFC 6979
    MaxRetry,       \* a bound on the retries of the RFC 6979 loop
    ZeroizedScalar  \* the value Scalar::zeroize leaves in a scalar

VARIABLES
    key,    \* key[s]: the key object in slot s, or "free"
    out     \* the outcome of the last call

vars == <<key, out>>

ASSUME SlotsAssumption == Slots # {}

ASSUME XCoordAssumption == XCoord \in [NonZeroScalar -> Nat]

ASSUME EntropiesAssumption == Entropies \subseteq FieldBytes

(* The additional data given to the RFC 6979 generator: the empty slice   *)
(* &[] on the deterministic path, or the bytes drawn from the rng.        *)
AddedEntropy == {<<>>} \cup Entropies

ASSUME MaxRetryAssumption == MaxRetry \in Nat

(* Every candidate the generator's loop draws is a FieldBytes value, and  *)
(* its first non-zero scalar below n comes within MaxRetry retries.       *)
ASSUME HmacDrbgAssumption ==
    \A x \in Scalar, h \in Scalar, e \in AddedEntropy :
        /\ \A i \in 0 .. MaxRetry : HmacDrbg(x, h, e, i) \in 0 .. B4 - 1
        /\ \E i \in 0 .. MaxRetry :
              /\ HmacDrbg(x, h, e, i) \in NonZeroScalar
              /\ \A j \in 0 .. i - 1 : HmacDrbg(x, h, e, j) \notin NonZeroScalar

ASSUME ZeroizedScalarAssumption == ZeroizedScalar \in Scalar

-----------------------------------------------------------------------------
(* Group arithmetic, from the spec's capability interface (section 6).     *)

(* n is prime: every non-zero scalar has an inverse modulo n. *)
ASSUME PrimeOrderAssumption ==
    \A a \in NonZeroScalar : \E b \in NonZeroScalar : (a * b) % N = 1

(* The inverse of a non-zero scalar modulo the prime n. *)
InvMod(a) == CHOOSE b \in NonZeroScalar : (a * b) % N = 1

(* The same, and from_digest, tabulated once over their whole domain. *)
Inv == [a \in NonZeroScalar |-> InvMod(a)]

Reduced == [d \in FieldBytes |-> FromDigest(d)]

(* rfc6979::generate_k(x, digest, data): h is from_digest(digest); the     *)
(* generation loop returns the first candidate that is a non-zero scalar. *)
GenerateK(x, h, e) ==
    LET i == CHOOSE i \in 0 .. MaxRetry :
                /\ HmacDrbg(x, h, e, i) \in NonZeroScalar
                /\ \A j \in 0 .. i - 1 : HmacDrbg(x, h, e, j) \notin NonZeroScalar
    IN  HmacDrbg(x, h, e, i)

(* SignPrimitive::try_sign_prehashed(d, k, z): r = x(kG) mod n,            *)
(* s = k^-1 (z + r d) mod n; Err (SigningFailed) when r or s is zero.      *)
Signature == [r : NonZeroScalar, s : NonZeroScalar]

NoSignature == [r |-> 0, s |-> 0]

TrySignPrehashed(d, k, z) ==
    LET r == XCoord[k] % N
        s == (Inv[k] * (z + r * d)) % N
    IN  IF r = 0 \/ s = 0 THEN [status |-> "SigningFailed", sig |-> NoSignature]
                          ELSE [status |-> "Ok", sig |-> [r |-> r, s |-> s]]

(* VerifyPrimitive::verify_prehashed(Q, z, sig): rejects r or s outside    *)
(* 1..n-1, else accepts iff x(u1 G + u2 Q) mod n = r for u1 = z/s and      *)
(* u2 = r/s, the point at infinity being rejected.                         *)
VerifyPrehashed(q, z, sig) ==
    /\ sig.r \in NonZeroScalar
    /\ sig.s \in NonZeroScalar
    /\ LET w  == Inv[sig.s]
           pt == (((z * w) % N) + ((sig.r * w) % N) * q) % N
       IN  pt # 0 /\ XCoord[pt] % N = sig.r

-----------------------------------------------------------------------------
(* The key objects and the operations on them.  A slot whose kind is       *)
(* "None" holds no object.                                                 *)

KeyKind == {"SigningKey", "Signer"}

KeyObject == [kind : KeyKind \cup {"None"}, secret_scalar : Scalar]

Live(s) == key[s].kind # "None"

(* What a call returned: Ok (with the signature when it signs), Err from a *)
(* constructor, SigningFailed from the primitive, or a panic in            *)
(* from_digest.                                                            *)
Status == {"Ok", "Err", "SigningFailed", "Panic"}

Op == {"none", "random", "new", "from", "sign", "sign_rng", "zeroize", "drop"}

Outcome == [op : Op, slot : Slots, digest : FieldBytes \cup {<<>>},
            status : Status, sig : Signature \cup {NoSignature}]

(* The outcome of a call that signs nothing. *)
Returned(op, s, status) ==
    [op |-> op, slot |-> s, digest |-> <<>>, status |-> status, sig |-> NoSignature]

NoKey == [kind |-> "None", secret_scalar |-> 0]

Init ==
    /\ key = [s \in Slots |-> NoKey]
    /\ out = Returned("none", CHOOSE s \in Slots : TRUE, "Ok")

(* SigningKey::random: a fresh NonZeroScalar drawn from the rng. *)
SigningKeyRandom(s) ==
    /\ ~Live(s)
    /\ \E d \in NonZeroScalar :
          key' = [key EXCEPT ![s] = [kind |-> "SigningKey", secret_scalar |-> d]]
    /\ out' = Returned("random", s, "Ok")

(* Mutant of SigningKeyNew: the scalar range check is dropped. *)
SigningKeyNewUnchecked(s, bytes) ==
    /\ ~Live(s)
    /\ bytes # <<>>
    /\ key' = [key EXCEPT ![s] = [kind |-> "SigningKey",
                                  secret_scalar |-> BytesValue(bytes)]]
    /\ out' = Returned("new", s, "Ok")

(* SigningKey::new(bytes): the slice must have the field size and hold a   *)
(* non-zero scalar below n (NonZeroScalar::from_field_bytes); else Err.   *)
(* A slice of another length is the empty sequence here.                  *)
SigningKeyNew(s, bytes) ==
    /\ ~Live(s)
    /\ IF bytes # <<>> /\ BytesValue(bytes) \in NonZeroScalar
         THEN /\ key' = [key EXCEPT ![s] = [kind |-> "SigningKey",
                                            secret_scalar |-> BytesValue(bytes)]]
              /\ out' = Returned("new", s, "Ok")
         ELSE /\ out' = Returned("new", s, "Err")
              /\ UNCHANGED key

(* From<&SecretKey> and From<NonZeroScalar>: the key takes a copy of an    *)
(* already validated non-zero scalar.                                      *)
SigningKeyFromScalar(s, d) ==
    /\ ~Live(s)
    /\ key' = [key EXCEPT ![s] = [kind |-> "SigningKey", secret_scalar |-> d]]
    /\ out' = Returned("from", s, "Ok")

(* Signer::new(&SecretKey): NonZeroScalar::from_bytes of the secret key's  *)
(* bytes, Err when they are zero or not below n.                          *)
SignerNew(s, bytes) ==
    /\ ~Live(s)
    /\ IF BytesValue(bytes) \in NonZeroScalar
         THEN /\ key' = [key EXCEPT ![s] = [kind |-> "Signer",
                                            secret_scalar |-> BytesValue(bytes)]]
              /\ out' = Returned("new", s, "Ok")
         ELSE /\ out' = Returned("new", s, "Err")
              /\ UNCHANGED key

(* The message scalar z the sign primitive receives: SigningKey passes     *)
(* from_digest(digest); Signer passes digest.finalize(), which the         *)
(* primitive reduces modulo n itself.                                      *)
MsgScalar(kind, digest) ==
    IF kind = "SigningKey" THEN Reduced[digest] ELSE BytesValue(digest) % N

(* Mutant of SignResult: the secret and the message scalar swap roles. *)
SignResultSwapped(k, digest, e) ==
    IF Reduced[digest] >= N THEN [status |-> "Panic", sig |-> NoSignature]
    ELSE TrySignPrehashed(MsgScalar(k.kind, digest),
                          GenerateK(k.secret_scalar, Reduced[digest], e),
                          k.secret_scalar)

(* Status and signature of signing digest with entropy e (<<>> on the     *)
(* deterministic path): generate_k reduces the digest with from_digest,    *)
(* which panics if the reduction is not canonical.                         *)
SignResult(k, digest, e) ==
    IF Reduced[digest] >= N THEN [status |-> "Panic", sig |-> NoSignature]
    ELSE TrySignPrehashed(k.secret_scalar,
                          GenerateK(k.secret_scalar, Reduced[digest], e),
                          MsgScalar(k.kind, digest))

(* SignResult tabulated once over keys, digests and entropies. *)
SignTable == [k \in [kind : KeyKind, secret_scalar : Scalar] |->
                [d \in FieldBytes |-> [e \in AddedEntropy |-> SignResult(k, d, e)]]]

Signed(op, s, digest, e) ==
    LET res == SignTable[key[s]][digest][e]
    IN  [op |-> op, slot |-> s, digest |-> digest,
         status |-> res.status, sig |-> res.sig]

(* try_sign_digest (and try_sign, which hashes the message first): the    *)
(* deterministic RFC 6979 nonce with no added entropy (&[]).              *)
TrySignDigest(s, digest) ==
    /\ Live(s)
    /\ out' = Signed("sign", s, digest, <<>>)
    /\ UNCHANGED key

(* try_sign_digest_with_rng (and try_sign_with_rng): rng.fill_bytes       *)
(* supplies a FieldBytes of added entropy for the nonce.                  *)
TrySignDigestWithRng(s, digest, e) ==
    /\ Live(s)
    /\ out' = Signed("sign_rng", s, digest, e)
    /\ UNCHANGED key

(* Zeroize::zeroize: overwrites the secret scalar; the object lives on.   *)
Zeroize(s) ==
    /\ Live(s)
    /\ key' = [key EXCEPT ![s].secret_scalar = ZeroizedScalar]
    /\ out' = Returned("zeroize", s, "Ok")

(* Drop::drop: zeroize, then the object is gone. *)
Drop(s) ==
    /\ Live(s)
    /\ key' = [key EXCEPT ![s] = [kind |-> "None", secret_scalar |-> ZeroizedScalar]]
    /\ out' = Returned("drop", s, "Ok")

Next ==
    \E s \in Slots :
        \/ SigningKeyRandom(s)
        \/ \E b \in FieldBytes \cup {<<>>} : SigningKeyNew(s, b)
        \/ \E d \in NonZeroScalar : SigningKeyFromScalar(s, d)
        \/ \E b \in FieldBytes : SignerNew(s, b)
        \/ \E h \in FieldBytes : TrySignDigest(s, h)
        \/ \E h \in FieldBytes, e \in Entropies : TrySignDigestWithRng(s, h, e)
        \/ Zeroize(s)
        \/ Drop(s)

Spec == Init /\ [][Next]_vars

-----------------------------------------------------------------------------
(* The verify key side (verify.rs).  Verification changes no state: it is *)
(* the value verify_digest returns.                                        *)

(* SigningKey::verify_key: the point G * secret_scalar. *)
VerifyKeyOf(k) == k.secret_scalar

(* VerifyKey::verify_digest (and verify, which hashes first): from_digest *)
(* of the digest, then the verify primitive on the key's affine point.    *)
VerifyDigest(q, digest, sig) ==
    Reduced[digest] < N /\ VerifyPrehashed(q, Reduced[digest], sig)

-----------------------------------------------------------------------------
(* Properties                                                              *)

TypeOK ==
    /\ key \in [Slots -> KeyObject]
    /\ out \in Outcome

(* A signature just returned by a key verifies, under that key's           *)
(* verify_key() and for the same digest (spec section 8, round trip): the  *)
(* sign path and the verify path must derive the same z from the digest    *)
(* and hand the nonce, the message scalar and the secret to the primitive  *)
(* in the right roles.                                                     *)
RoundTrip ==
    out.status = "Ok" /\ out.op \in {"sign", "sign_rng"} =>
        VerifyDigest(VerifyKeyOf(key[out.slot]), out.digest, out.sig)

(* Every live key holds a non-zero secret scalar (spec section 3: a       *)
(* secret key wraps a non-zero scalar; NonZeroScalar's invariant).        *)
NonZeroSecret ==
    \A s \in Slots : Live(s) => key[s].secret_scalar # 0
=============================================================================
