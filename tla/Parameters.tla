------------------------------ MODULE Parameters ------------------------------
(***************************************************************************)
(* The optional parameters an application gives to both ends of the        *)
(* protocol, in the form that is hashed: SerializedContext and             *)
(* SerializedIdentifiers of key_exchange/mod.rs.  Only what the encoding   *)
(* does to them is kept: a missing value is replaced by its default, and a *)
(* value whose length does not fit the two-byte prefix is refused.         *)
(***************************************************************************)
EXTENDS Primitives

CONSTANTS
  None,         \* the Option of a parameter that is not given
  EmptyString,  \* the byte string of length zero
  TooLong       \* the byte strings of 2^16 bytes and more

ASSUME ParametersAssumption ==
  None \notin TooLong /\ EmptyString \notin TooLong /\ None # EmptyString

I2osp2(bytes) == IF bytes \in TooLong THEN Err("SerializationError") ELSE Ok(bytes)

SerializedContext(context) ==
  I2osp2(IF context = None THEN EmptyString ELSE context)

SerializedIdentifier(id, s_pk) == IF id = None THEN Ok(s_pk) ELSE I2osp2(id)

SerializedIdentifiers(ids, client_s_pk, server_s_pk) ==
  LET client == SerializedIdentifier(ids.client, client_s_pk)
      server == SerializedIdentifier(ids.server, server_s_pk)
  IN  IF ~client.ok THEN client
      ELSE IF ~server.ok THEN server
      ELSE Ok([client |-> client.val, server |-> server.val])
===============================================================================
