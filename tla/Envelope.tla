------------------------------- MODULE Envelope -------------------------------
(***************************************************************************)
(* envelope.rs: sealing a fresh client key pair under the password-derived *)
(* key, and opening it again.  Only the nonce and the MAC are stored; the  *)
(* key pair and the export key are derived again from the password.        *)
(***************************************************************************)
EXTENDS Parameters

ClientStaticKey(rwd, nonce) == Expand(rwd, "PrivateKey", nonce)
ExportKey(rwd, nonce)       == Expand(rwd, "ExportKey", nonce)

(* Faulty variant: the identifiers are not authenticated.                  *)
ConstructAadWithoutIdentifiers(id_u, id_s, server_s_pk) == <<server_s_pk>>

ConstructAad(id_u, id_s, server_s_pk) == <<server_s_pk, id_s, id_u>>

EnvelopeMac(rwd, nonce, aad) == Hmac(Expand(rwd, "AuthKey", nonce), <<nonce, aad>>)

SealRaw(rwd, nonce, aad, mode) ==
  [ envelope   |-> [mode |-> mode, nonce |-> nonce, hmac |-> EnvelopeMac(rwd, nonce, aad)],
    export_key |-> ExportKey(rwd, nonce) ]

Seal(nonce, rwd, server_s_pk, ids) ==
  LET client_s_pk == Pk(ClientStaticKey(rwd, nonce))
      identifiers == SerializedIdentifiers(ids, client_s_pk, server_s_pk)
  IN  IF ~identifiers.ok THEN identifiers
      ELSE LET aad == ConstructAad(identifiers.val.client, identifiers.val.server, server_s_pk)
               raw == SealRaw(rwd, nonce, aad, "Internal")
           IN  Ok([ envelope    |-> raw.envelope,
                    client_s_pk |-> client_s_pk,
                    export_key  |-> raw.export_key ])

OpenRaw(envelope, rwd, aad) ==
  IF envelope.hmac = EnvelopeMac(rwd, envelope.nonce, aad)
  THEN Ok(ExportKey(rwd, envelope.nonce))
  ELSE Err("SealOpenHmacError")

Open(envelope, rwd, server_s_pk, ids) ==
  LET client_s_sk == ClientStaticKey(rwd, envelope.nonce)
      identifiers == SerializedIdentifiers(ids, Pk(client_s_sk), server_s_pk)
      raw == OpenRaw(envelope, rwd,
               ConstructAad(identifiers.val.client, identifiers.val.server, server_s_pk))
  IN  IF envelope.mode = "Zero" THEN Err("IncompatibleEnvelopeModeError")
      ELSE IF ~identifiers.ok THEN identifiers
      ELSE IF ~raw.ok THEN raw
      ELSE Ok([ client_s_sk |-> client_s_sk,
                export_key  |-> raw.val,
                identifiers |-> identifiers.val ])

DummyEnvelope == [mode |-> "Zero", nonce |-> <<"zeros">>, hmac |-> <<"zeros">>]

(* The bytes of an envelope do not carry its mode: whatever was written,   *)
(* what is read back is taken for an internal-mode envelope.               *)
SerializeEnvelope(envelope)   == [nonce |-> envelope.nonce, hmac |-> envelope.hmac]
DeserializeEnvelope(bytes)    == [mode |-> "Internal", nonce |-> bytes.nonce, hmac |-> bytes.hmac]
===============================================================================
