------------------------------- MODULE MCEcdsa -------------------------------
(* A toy curve for Ecdsa: y^2 = x^3 + 7x + 4 over GF(17), generator (0, 2), *)
(* of prime order n = 13, with one-bit limbs, so that a digest has 4 bits  *)
(* and 2n > 2^4 as for the P-256 order the mock curve uses.                *)
EXTENDS Ecdsa, TLC

CONSTANTS s1

(* Key objects share no state: one object exercises every sequence of
   calls on it. *)
MCSlots == {s1}

MCWordBits == 1

(* 13 = 1 + 4 + 8, limb 0 first. *)
MCModulus == [i \in 0 .. 3 |-> << 1, 0, 1, 1 >>[i + 1]]

(* x-coordinates of G, 2G, ..., 12G on the toy curve. *)
MCXCoord == [k \in 1 .. 12 |-> << 0, 2, 11, 15, 3, 16, 16, 3, 15, 11, 2, 0 >>[k]]

MCEntropies == {<< 0, 0, 0, 0 >>, << 1, 0, 1, 1 >>}

(* A stand-in for the HMAC_DRBG output stream: a mix of the secret, the    *)
(* reduced digest and the added data, stepped by an odd stride per retry.  *)
EntropyCode(e) == IF e = << >> THEN 0 ELSE 1 + BytesValue(e)

MCHmacDrbg(x, h, e, i) == (7 * x + 5 * h + 3 * EntropyCode(e) + 1 + 9 * i) % 16

MCMaxRetry == 2

MCZeroizedScalar == 0
=============================================================================
