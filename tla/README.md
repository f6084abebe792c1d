# TLA+ models of the `ecdsa` crate

This directory holds TLA+ models of the ECDSA signing and verification
layer in `src/ecdsa/src/`: `sign.rs`, `signer.rs`, `verify.rs` and `dev.rs`.
It contains TLC configurations that check the models on small instances,
and TLAPS proofs of the results that hold for every instance.

## The system

The crate wraps four pieces of code that live outside `src/`:
- the curve arithmetic of `elliptic_curve`;
- the RFC 6979 nonce generator;
- the sign primitive, which computes `(r, s)` from `d`, `k` and `z`;
- the verify primitive.

Around them it provides:

* **Key objects.** A `SigningKey` (`sign.rs`) or a `Signer` (`signer.rs`)
  owns a `NonZeroScalar`, the secret.
  * It is created by `random`, `new(bytes)`, `From<&SecretKey>`,
    `From<NonZeroScalar>` or `Signer::new(&SecretKey)`.
  * It signs through `try_sign_digest` / `try_sign` (the deterministic path,
    no added entropy) or through `try_sign_digest_with_rng` /
    `try_sign_with_rng` (the hedged path: `rng.fill_bytes` supplies extra
    data for the nonce).
  * It is wiped by the public `zeroize()`, and by `drop`, which calls
    `zeroize`.
* **Scalar reduction.** `FromDigest::from_digest` maps a 32-byte digest to
  a scalar mod n. For the mock curve of `dev.rs` it reads the digest as four
  big-endian 64-bit words and calls `sub_inner`, which:
  * runs a five-limb `sbb64` borrow chain;
  * adds back `MODULUS & borrow` with an `adc64` carry chain;
  * calls `Scalar::try_from(..).unwrap()`.
* **The sign pipeline.** `SigningKey` computes
  `k = generate_k(d, digest, data)` (which reduces the digest itself) and
  `z = from_digest(digest)`, then calls `try_sign_prehashed(d, k, z)`.
  `Signer` passes the raw `digest.finalize()` as z, leaving the reduction to
  the primitive.
* **Verification.** `VerifyKey::verify_digest` computes `from_digest(digest)`
  and calls `verify_prehashed` on the key's point. `SigningKey::verify_key`
  computes `G * d`.

## Modules

| module | models | state / actions |
|---|---|---|
| `ScalarReduce` | `dev.rs` `from_digest`, `sub_inner` | Pure operators. `Sbb` and `Adc` stand for `sbb64` and `adc64` on words of `WordBits` bits. `SubInner` is the two chains unrolled limb by limb, as in the code. `FromDigest` and `FromDigestPanics` are the result and the panic condition of `unwrap`. `ReduceRef` is the reference: the digest read big-endian, mod n. |
| `MockFromDigest` | calls of `from_digest` | Variables `digest`, `result`. One action, `CallFromDigest(d)`, for every digest. |
| `Ecdsa` | `sign.rs`, `signer.rs`, `verify.rs` | Variables `key` (the key object in each slot: its kind, `SigningKey`, `Signer` or `None`, and its secret scalar) and `out` (the outcome of the last call). One action per operation: `SigningKeyRandom`, `SigningKeyNew`, `SigningKeyFromScalar`, `SignerNew`, `TrySignDigest`, `TrySignDigestWithRng`, `Zeroize`, `Drop`. |
| `ScalarReduceProofs`, `MockFromDigestProofs`, `EcdsaProofs`, `EcdsaRoundTripProofs` | – | TLAPS proofs (see below). |
| `MCEcdsa`, `MCMockFromDigest` | – | Instances for TLC. |

More detail on the modelling:
- **Curve.** It is abstracted to the cyclic group spanned by the generator.
  A point is its discrete logarithm, with 0 the point at infinity.
  `XCoord[k]` is the x-coordinate of kG.
- **Verification changes no state.** `VerifyDigest(q, digest, sig)` is an
  operator, not an action.
- **Code outside `src/`** is modelled from `spec.md` and marked
  `spec_modelled` in `PROJECT.json`:
  - `GenerateK` is section 4.2: the first candidate of the HMAC_DRBG stream
    that is a non-zero scalar. The stream is the uninterpreted constant
    operator `HmacDrbg`.
  - `TrySignPrehashed` and `VerifyPrehashed` are section 6.
  - `InvMod` is scalar inversion; `Sbb` and `Adc` are the word primitives.
- **`to_bytes`, `to_encoded_point` and `eq`** change no state. They are left
  out.

## Runs

| run | cfg | expect | properties |
|---|---|---|---|
| `ecdsa_keys` | `MCEcdsa.cfg` | pass (1269 states, about 3 s) | `TypeOK`, `RoundTrip` |
| `ecdsa_zeroize` | `MCEcdsaZeroize.cfg` | violation | `NonZeroSecret` |
| `from_digest` | `MCMockFromDigest.cfg` | pass (257 states, about 2 s) | `FromDigestCorrect` |

* **`RoundTrip`.** Whenever the last call was a sign call that returned
  `Ok`, the signature verifies under `verify_key()` of the same object, for
  the same digest.
  * It compares the whole sign pipeline with the whole verify pipeline:
    - nonce generation;
    - the role of each scalar passed to the primitive;
    - for `Signer`, the raw digest;
    - `from_digest` on the verify side.
  * The mutant that swaps the secret and the message scalar breaks it.
* **`FromDigestCorrect`.** Every call returns the digest mod n and does not
  panic. This is the claim that one masked add-back after the borrow of a
  five-limb subtraction is one conditional subtraction of n. It depends on
  two assumptions stated in `ScalarReduce`:
  * n is odd;
  * `2n > 2^(4·WordBits)`.

  The mutant that reads the limbs in the wrong order breaks it.
* **`NonZeroSecret`** (violation). Every live key object holds a non-zero
  secret. TLC shows `random` followed by `zeroize`. The public `zeroize()`
  overwrites the scalar with zero but leaves the object live, so its sign
  calls stay enabled. This contradicts spec section 3 ("wraps one
  non-zero scalar … destroyed on … explicit invalidation"). It is recorded as a finding.

### Bounds and why they suffice

* **`MCEcdsa`** uses a toy curve, y² = x³ + 7x + 4 over GF(17), with
  generator (0, 2) of prime order n = 13, and one-bit limbs. This gives:
  - 16 digests;
  - all 12 non-zero secrets and all 13 scalars;
  - 2 rng outputs plus the empty data of the deterministic path;
  - up to 3 HMAC_DRBG candidates per nonce.

  13 = 0b1101 has its top bit set, so `2n > 2^4`, as for P-256. Digests
  13–15 therefore take the subtraction path of `from_digest`, which is the
  interesting case.

  One slot is enough. Key objects share no state, so one object running
  every sequence of calls covers what several would do.
* **`MCMockFromDigest`** uses 2-bit limbs and n = 241 = 3·64 + 3·16 + 1, a
  prime with its top bit set. Its zero limb makes a borrow ripple through
  several limbs. All 256 digests are enumerated, including the 15 in
  [n, 2^8).

### Fairness

The modules are libraries of synchronous calls, with no scheduler, retry
loop or background task that the code would guarantee to run. Their
properties are safety properties, and they assume no fairness.

## Proofs

Every theorem holds for every value of the constants that satisfies the
`ASSUME`s. `ScalarReduce` has three of them:
- `WordBitsAssumption`: the word has at least one bit, and `B = 2^WordBits`
  is even;
- `ModulusAssumption`: MODULUS is four words;
- `OrderAssumption`: n is odd and `2n > B4 = B·B·B·B`.

`Ecdsa` adds assumptions on the curve table, the entropies and the HMAC
stand-in.

* **`ScalarReduceProofs`: `FromDigestCorrectAll`.** For every digest,
  `sub_inner` returns the digest mod n, and `unwrap` does not panic. The
  argument is in lemmas:
  - `SbbSpec`, `AdcSpec`: one `sbb64` yields a word and a borrow that is
    a mask (0 or all ones), with `low - B·bit(borrow) = a - b - bit(c)`.
    One `adc64` yields a word and a carry in {0, 1}, with
    `low + B·carry = a + b + c`.
  - `SbbChainSpec`, `AdcChainSpec`: these identities hold limb by limb
    along the unrolled chains.
  - `SubInnerCorrect`: summing them with weights `1, B, B², B³` gives
    `w = l - n + B4·c3` and `result + B4·y3 = w + (c3 ? n : 0)`.
    `ReduceCases` then shows that the result is `l mod n`, because
    `l < B4 < 2n`. The top borrow equals `c3`, because `l4 = r4 = 0`.
* **`MockFromDigestProofs`: `FromDigestCorrectHolds`.**
  `Spec => []FromDigestCorrect`. Every call re-establishes it from
  `FromDigestCorrectAll`, so no strengthening is needed.
* **`EcdsaProofs`: `TypeCorrect`.** `Spec => []TypeOK`. `TypeOK` is
  inductive on its own. The lemmas behind it:
  - the chains yield words;
  - `GenerateK` returns a non-zero scalar (`HmacDrbgAssumption`);
  - inversion maps non-zero scalars to non-zero scalars
    (`PrimeOrderAssumption`);
  - the primitive returns either no signature or `(r, s)` in `1..n-1`.
* **`EcdsaRoundTripProofs`: `RoundTripHolds`.** `Spec => []RoundTrip`.
  The proof has three layers.
  - **Modular algebra.** `SignVerifyIdentity` proves, for every modulus n:
    if `k·k⁻¹ ≡ 1`, `s = k⁻¹(z + r·d) mod n` and `s·w ≡ 1`, then
    `((z·w mod n) + (r·w mod n)·d) mod n = k` for `0 < k < n`. Its
    hypotheses are stated through the opaque operators `IsInverseMod`,
    `SignS` and `VerifyPoint`, because the provers cannot match
    hypotheses that contain `%` and `*` against the use site. The
    argument multiplies `s·w ≡ 1` by `k` and uses `k·k⁻¹ ≡ 1`. The
    lemmas `DivMod`, `ModShift` and `ModUnique` do the remainder
    arithmetic.
  - **One call.** `SignVerifies`: for every key, digest and added
    entropy, a `SignResult` with status `Ok` verifies under
    `VerifyKeyOf(key)` for that digest. Both sides derive the same z
    from `Reduced[digest]`, and the lemma applies with `k` the nonce,
    `w = Inv[s]`. `PrimeOrderAssumption` gives the inverses.
  - **Runs.** `RoundTrip` is not inductive, because it does not say which
    entropy made `out.sig`. `RInv` adds `TypeOK` and `SignedRight`:
    after a sign call that returned `Ok`, `out.sig` is the signature
    `SignResult` returns for the current key of `out.slot`, that digest
    and some added entropy. Every call overwrites `out`, and a sign call
    leaves the keys alone, so the key under a signature cannot change
    while it is the last outcome. TLC checked `RInv` on the `ecdsa_keys`
    instance before it was proved.

Every property of a passing run is proved. Liveness under fairness and
`ENABLED` would be out of the prover's reach, but no property here needs
them.

RECURSIVE operators take away the SMT backend, and induction over data
needs operator parameters that the provers cannot instantiate. The models
therefore have no recursion: `SubInner` is unrolled, as in the code.

## Not modelled

* **`VerifyKey` constructors** (`from_sec1_bytes`, `from_encoded_point`,
  conversions). They only wrap `elliptic_curve::PublicKey` point decoding,
  which is outside `src/`.
* **The test-vector macros of `dev.rs`.** They are tests, not library
  behaviour.
* **Memory-level zeroization on drop.** The model records the scalar value
  after `zeroize`; whether memory is overwritten is not a question about
  states.
* **Tamper rejection** (spec section 8). In a group small enough for TLC,
  `x(kG) mod n` collides for distinct `k`, so flipped bits are accepted by
  accident; the question only makes sense for a group of cryptographic
  size.
* **Nonce uniqueness** across hedged signatures. The nonce is a function
  of an uninterpreted HMAC; that two digests never share a nonce is an
  assumption about HMAC, not a property of this code.
* **Statement-level interleaving inside `from_digest`.** The call is
  straight-line code on the caller's thread that touches only its locals,
  so it is modelled as one atomic step.

## Plan

1. **`VerifyKey` construction.** Model it from `PublicKey` (identity and
   off-curve points rejected), and check verification under keys built
   from encodings.
2. **Hedged nonces.** A model of the RFC 6979 candidate loop that can state
   nonce uniqueness without assuming it of the HMAC.
