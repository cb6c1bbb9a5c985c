-------------------------------- MODULE MCWire --------------------------------
(* A small instance of Wire for TLC.                                        *)
EXTENDS Wire

(* Widths that differ wherever the code's may differ.                       *)
MCWidth ==
  [ nonce |-> 2, oprf_hash |-> 3, ke_hash |-> 1, element |-> 2, scalar |-> 1, static_pk |-> 1,
    ephemeral_pk |-> 2, static_sk |-> 1, ephemeral_sk |-> 2, signature |-> 2, kem |-> 1 ]

MCExtras == {<<0>>, <<1, 2>>}

(* Short parameters in which a byte may be taken for part of a length, and  *)
(* one that is one byte too long for the two-byte prefix.                   *)
MCIds == {None, <<>>, <<0>>, <<1>>, <<0, 1>>, <<1, 0>>, [i \in 1 .. Base * Base |-> 1]}

MCContexts == {None, <<0>>, <<0, 1>>, <<0, 2>>, [i \in 1 .. Base * Base |-> 1]}

(* Contents that tell the fields apart and that no curve refuses.           *)
AllFields == <<
  "client_nonce", "server_nonce", "masking_nonce", "envelope_nonce", "masked_nonce",
  "masking_key", "envelope_hmac", "masked_hash", "oprf_seed", "session_key", "expected_mac",
  "mac", "pre_hash", "blinded_element", "evaluation_element", "oprf_client", "client_s_pk",
  "server_s_pk", "dummy_pk", "masked_pk", "client_e_pk", "server_e_pk", "server_s_sk",
  "client_e_sk", "signature", "client_signature", "kem_dk", "kem_ek", "kem_ct" >>

MCContent(s, salt, f) ==
  LET number == CHOOSE i \in DOMAIN AllFields : AllFields[i] = f
  IN  [i \in 1 .. FieldWidth(s, f) |->
         IF i = 1 THEN 1 + ((number + salt) % (Base - 1)) ELSE ((number * i) + salt) % Base]

(* Any function of the bytes that it is derived from.                       *)
MCPad(evaluation_element, masking_nonce) ==
  LET seed == FoldLeft(+, 0, evaluation_element \o masking_nonce)
  IN  [i \in 1 .. Width["nonce"] + Width["oprf_hash"] + Width["static_pk"] |->
         ((i * i) + seed) % Base]

(* Bit by bit; Base is a power of two.                                      *)
MCXorByte(a, b) ==
  LET bit[i \in Nat] ==
        IF 2 ^ i >= Base THEN 0
        ELSE 2 ^ i * (((a \div 2 ^ i) + (b \div 2 ^ i)) % 2) + bit[i + 1]
  IN  bit[0]
===============================================================================
