------------------------------ MODULE Primitives ------------------------------
(***************************************************************************)
(* The cryptographic building blocks that opaque-vx takes from other       *)
(* crates (voprf, hkdf, hmac, the curve crates, ml-kem, the signature      *)
(* crates), as a free algebra: two terms are equal exactly when they are   *)
(* built the same way from the same parts.  A random value is a term that  *)
(* carries the session which drew it, so two sessions never draw the same  *)
(* value.  Also the Result type of errors.rs.                              *)
(***************************************************************************)
CONSTANTS
  BlindRefuses,     \* the passwords that voprf refuses to blind
  FinalizeRefuses,  \* the passwords that voprf refuses to hash in its finalize
  KsfRefuses        \* the stretchings that fail: one whose configuration does not
                    \* fit, or one that runs out of memory this time

Ok(v)  == [ok |-> TRUE,  val |-> v]
Err(e) == [ok |-> FALSE, err |-> e]

-------------------------------------------------------------------------------
(* Key pairs and Diffie-Hellman: both sides of a product reach the same set. *)

Pk(sk)     == <<"pk", sk>>
DH(sk, pk) == {sk, pk[2]}

Sign(sk, m)         == <<"sig", sk, m>>
Verify(pk, m, sig)  == sig = <<"sig", pk[2], m>>

-------------------------------------------------------------------------------
(* The OPRF over a prime-order group.  A group element is H(pw)^(blind*key): *)
(* key is {} until the server has evaluated it.                              *)

Blind(pw, r)         == [pw |-> pw, blind |-> r, key |-> {}]
BlindEvaluate(k, el) == [el EXCEPT !.key = @ \cup {k}]

(* Unblinding with another blind than the one used leaves the ratio of both  *)
(* in the result; the input is hashed in a second time, if its length fits.  *)
OprfOutput(pw, r, el) ==
  <<"oprf", pw, el.pw, IF el.blind = r THEN <<>> ELSE <<r, el.blind>>, el.key>>

Finalize(pw, r, el) ==
  IF pw \in FinalizeRefuses THEN Err("OprfError") ELSE Ok(OprfOutput(pw, r, el))

-------------------------------------------------------------------------------
(* HKDF, HMAC and the key-stretching function.                               *)

Extract(oprf, hardened)     == <<"rwd", oprf, hardened>>
Hardened(ksf, x)            == <<"ksf", ksf, x>>
Stretch(ksf, x)             ==
  IF ksf \in KsfRefuses THEN Err("KsfError") ELSE Ok(Hardened(ksf, x))
Expand(prk, label, info)    == <<label, prk, info>>
Hmac(k, m)                  == <<"hmac", k, m>>

-------------------------------------------------------------------------------
(* The key-encapsulation mechanism: a decapsulation key recovers the secret  *)
(* of a ciphertext made for it, and rejects implicitly any other.            *)

Encapsulate(ek, h)   == <<"ct", ek, h>>
EncapsulatedSecret(ek, h) == <<"kem", ek, h>>
Decapsulate(dk, ct)  ==
  IF ct[2] = Pk(dk) THEN EncapsulatedSecret(ct[2], ct[3]) ELSE <<"reject", dk, ct>>
===============================================================================
