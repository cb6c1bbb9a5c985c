-------------------------------- MODULE MCKeys --------------------------------
(* A small instance of Keys for TLC. *)
EXTENDS Keys

(* Zero, small scalars, clamped and unclamped strings on either side of 16,  *)
(* the order itself, and the largest string.                                 *)
MCSeeds == {0, 5, 8, 13, 14, 22, 31}

MCTexts == {<<1, 2>>, <<2>>}

(* Key pairs of the curves of other crates are saved in serde's form by those *)
(* crates' code; Ed25519's is looked at by itself.                           *)
MCStores ==
  (Kinds \X {"native"}) \cup {<<"Ristretto255", "serde">>, <<"Curve25519", "serde">>}

Ed25519Serde == {<<"Ed25519", "serde">>}

(* It keeps different inputs apart well enough to tell the faulty variants.  *)
MCDigest(data) ==
  FoldLeft(LAMBDA acc, b : (acc * 421 + b * (57 * b + 13) + 101) % (Bytes * Bytes), 1, data)
===============================================================================
