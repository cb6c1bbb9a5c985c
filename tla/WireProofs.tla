------------------------------- MODULE WireProofs -------------------------------
(***************************************************************************)
(* That what is written is read back, that an input which is too short is  *)
(* noticed, and that the client understands the response of the server:    *)
(* for every type and suite, whatever the widths of the fields and their   *)
(* contents.  Formats are compared part by part (Reads), the bytes as      *)
(* slices of the input (Sliced).                                           *)
(***************************************************************************)
EXTENDS Wire, SequenceTheorems, WellFoundedInduction, TLAPS

-------------------------------------------------------------------------------
(* Numbers and sequences.                                                    *)

(* A set of numbers has a least element.                                     *)
LEMMA LeastNumber ==
  ASSUME NEW T, T \subseteq Nat, T # {}
  PROVE  \E least \in T : \A other \in T : least <= other
<1> DEFINE less == {ss \in Nat \X Nat : ss[1] < ss[2]}
<1>1. IsWellFoundedOn(less, Nat)
  BY NatLessThanWellFounded DEF OpToRel
<1>2. \A a, b \in Nat : a < b => <<a, b>> \in less
  OBVIOUS
<1>3. \E least \in T : \A other \in T : ~ (<<other, least>> \in less)
  <2> HIDE DEF less
  <2> QED
    BY <1>1, WFMin
<1>4. PICK least \in T : \A other \in T : ~ (<<other, least>> \in less)
  BY <1>3
<1>5. \A other \in T : ~ (other < least)
  BY <1>2, <1>4
<1>6. QED
  BY <1>5

(* Induction, for a set of numbers.                                          *)
LEMMA NumbersUpTo ==
  ASSUME NEW N \in Nat, NEW T, 0 \in T,
         \A n \in 0 .. N : n # 0 /\ n - 1 \in T => n \in T
  PROVE  0 .. N \subseteq T
<1> DEFINE missing == (0 .. N) \ T
<1>1. SUFFICES ASSUME missing # {} PROVE FALSE
  OBVIOUS
<1>2. \E least \in missing : \A other \in missing : least <= other
  <2>1. missing \subseteq Nat
    OBVIOUS
  <2> HIDE DEF missing
  <2>2. QED
    BY <1>1, <2>1, LeastNumber
<1>3. PICK n \in missing : \A other \in missing : n <= other
  BY <1>2
<1>4. n \in 0 .. N /\ n \notin T /\ n # 0
  BY <1>3
<1>5. n - 1 \in T
  BY <1>3, <1>4
<1>6. QED
  BY <1>4, <1>5

-------------------------------------------------------------------------------
(* The fields.                                                               *)

(* Every name in a format is the one of a field.                             *)
LEMMA FieldNames ==
  /\ {"client_nonce", "server_nonce", "masking_nonce", "envelope_nonce"} \subseteq Fields
  /\ "masked_nonce" \in Fields
  /\ {"masking_key", "envelope_hmac", "masked_hash", "oprf_seed"} \subseteq Fields
  /\ {"session_key", "expected_mac", "mac", "pre_hash"} \subseteq Fields
  /\ {"blinded_element", "evaluation_element", "oprf_client"} \subseteq Fields
  /\ {"client_s_pk", "server_s_pk", "dummy_pk", "masked_pk"} \subseteq Fields
  /\ {"client_e_pk", "server_e_pk", "server_s_sk", "client_e_sk"} \subseteq Fields
  /\ {"signature", "client_signature", "kem_dk", "kem_ek", "kem_ct"} \subseteq Fields
  BY DEF Fields, FieldsOf, Kinds

(* A field is as wide as its kind, or as another kind.                       *)
LEMMA FieldWidths ==
  ASSUME NEW s, NEW f \in Fields
  PROVE  FieldWidth(s, f) \in Nat \ {0}
<1>1. Kind(f) \in Kinds
  BY DEF Kind, Fields
<1>2. \A k \in Kinds : Width[k] \in 1 .. Base * Base - 1
  BY WireAssumption
<1>3. "static_pk" \in Kinds /\ "static_sk" \in Kinds
  BY DEF Kinds
<1>4. \E k \in Kinds : FieldWidth(s, f) = Width[k]
  BY <1>1, <1>3 DEF FieldWidth
<1>5. QED
  BY <1>2, <1>4

(* The masked response has the widths of what it hides.                      *)
LEMMA MaskedKinds ==
  /\ Kind("masked_nonce") = "nonce" /\ Kind("envelope_nonce") = "nonce"
  /\ Kind("masked_hash") = "oprf_hash" /\ Kind("envelope_hmac") = "oprf_hash"
  /\ Kind("masked_pk") = "static_pk" /\ Kind("server_s_pk") = "static_pk"
<1>1. \A k \in Kinds : "masked_nonce" \in FieldsOf[k] <=> k = "nonce"
  BY DEF FieldsOf, Kinds
<1>2. \A k \in Kinds : "envelope_nonce" \in FieldsOf[k] <=> k = "nonce"
  BY DEF FieldsOf, Kinds
<1>3. \A k \in Kinds : "masked_hash" \in FieldsOf[k] <=> k = "oprf_hash"
  BY DEF FieldsOf, Kinds
<1>4. \A k \in Kinds : "envelope_hmac" \in FieldsOf[k] <=> k = "oprf_hash"
  BY DEF FieldsOf, Kinds
<1>5. \A k \in Kinds : "masked_pk" \in FieldsOf[k] <=> k = "static_pk"
  BY DEF FieldsOf, Kinds
<1>6. \A k \in Kinds : "server_s_pk" \in FieldsOf[k] <=> k = "static_pk"
  BY DEF FieldsOf, Kinds
<1>7. {"nonce", "oprf_hash", "static_pk"} \subseteq Kinds
  BY DEF Kinds
<1>8. QED
  BY <1>1, <1>2, <1>3, <1>4, <1>5, <1>6, <1>7 DEF Kind

-------------------------------------------------------------------------------
(* The formats: serialize and deserialize go through the same fields.        *)

Masked == {"masked_nonce", "masked_hash", "masked_pk"}
Hows   == {"array", "key", "element", "tail", "rest"}
Entry  == [field : Fields, how : Hows]

(* read takes off what written wrote, and no curve looks at masked bytes.    *)
Reads(read, written) ==
  /\ read \in Seq(Entry)
  /\ written \in Seq(Fields)
  /\ Len(read) = Len(written)
  /\ \A i \in 1 .. Len(read) :
       /\ read[i].field = written[i]
       /\ read[i].field \in Masked => read[i].how = "array"

(* Fields that are taken in the order in which they are written.             *)
LEMMA ReadsTake ==
  ASSUME NEW how \in Hows, NEW fields \in Seq(Fields),
         how = "array" \/ \A i \in 1 .. Len(fields) : fields[i] \notin Masked
  PROVE  Reads(Take(how, fields), fields)
<1>1. /\ Len(fields) \in Nat /\ DOMAIN fields = 1 .. Len(fields)
      /\ \A i \in 1 .. Len(fields) : fields[i] \in Fields
  BY LenProperties
<1>2. Take(how, fields) = [i \in 1 .. Len(fields) |-> [field |-> fields[i], how |-> how]]
  BY <1>1 DEF Take
<1>3. \A i \in 1 .. Len(fields) : [field |-> fields[i], how |-> how] \in Entry
  BY <1>1 DEF Entry
<1>4. Take(how, fields) \in Seq(Entry) /\ Len(Take(how, fields)) = Len(fields)
  BY <1>1, <1>2, <1>3
<1>5. QED
  BY <1>2, <1>4 DEF Reads

(* One part of a format behind another.                                      *)
LEMMA ReadsConcat ==
  ASSUME NEW r1, NEW w1, NEW r2, NEW w2, Reads(r1, w1), Reads(r2, w2)
  PROVE  Reads(r1 \o r2, w1 \o w2)
<1>1. /\ r1 \in Seq(Entry) /\ r2 \in Seq(Entry) /\ Len(r1) = Len(w1)
      /\ w1 \in Seq(Fields) /\ w2 \in Seq(Fields) /\ Len(r2) = Len(w2)
      /\ Len(r1) \in Nat /\ Len(r2) \in Nat
  BY LenProperties DEF Reads
<1>2. /\ r1 \o r2 \in Seq(Entry) /\ Len(r1 \o r2) = Len(r1) + Len(r2)
      /\ \A i \in 1 .. Len(r1) + Len(r2) :
           (r1 \o r2)[i] = IF i <= Len(r1) THEN r1[i] ELSE r2[i - Len(r1)]
  BY <1>1, ConcatProperties
<1>3. /\ w1 \o w2 \in Seq(Fields) /\ Len(w1 \o w2) = Len(r1) + Len(r2)
      /\ \A i \in 1 .. Len(r1) + Len(r2) :
           (w1 \o w2)[i] = IF i <= Len(r1) THEN w1[i] ELSE w2[i - Len(r1)]
  BY <1>1, ConcatProperties
<1>4. ASSUME NEW i \in 1 .. Len(r1) + Len(r2)
      PROVE  /\ (r1 \o r2)[i].field = (w1 \o w2)[i]
             /\ (r1 \o r2)[i].field \in Masked => (r1 \o r2)[i].how = "array"
  <2>1. CASE i <= Len(r1)
    <3>1. i \in 1 .. Len(r1) /\ (r1 \o r2)[i] = r1[i] /\ (w1 \o w2)[i] = w1[i]
      BY <1>1, <1>2, <1>3, <2>1
    <3>2. QED
      BY <3>1 DEF Reads
  <2>2. CASE ~ (i <= Len(r1))
    <3> DEFINE j == i - Len(r1)
    <3>1. j \in 1 .. Len(r2) /\ (r1 \o r2)[i] = r2[j] /\ (w1 \o w2)[i] = w2[j]
      BY <1>1, <1>2, <1>3, <2>2
    <3>2. QED
      BY <3>1 DEF Reads
  <2>3. QED
    BY <2>1, <2>2
<1>5. QED
  BY <1>2, <1>3, <1>4 DEF Reads

(* Where a part of a format is left out.                                     *)
LEMMA ReadsNothing == Reads(<<>>, <<>>)
  BY EmptySeq DEF Reads

(* A single field.                                                           *)
LEMMA ReadsOne ==
  ASSUME NEW how \in Hows, NEW f \in Fields, how = "array" \/ f \notin Masked
  PROVE  Reads(Take(how, <<f>>), <<f>>)
<1> DEFINE fields == <<f>>
<1>1. fields \in Seq(Fields) /\ Len(fields) = 1 /\ fields[1] = f
  OBVIOUS
<1>2. how = "array" \/ \A i \in 1 .. Len(fields) : fields[i] \notin Masked
  BY <1>1
<1>3. QED
  <2> HIDE DEF fields
  <2>1. Reads(Take(how, fields), fields)
    BY <1>1, <1>2, ReadsTake
  <2>2. QED
    BY <2>1 DEF fields

(* Tuples, put together from shorter ones.                                   *)
LEMMA TupleOfTwo ==
  ASSUME NEW a, NEW b
  PROVE  <<a>> \o <<b>> = <<a, b>>
<1> DEFINE X == {a, b}
           s == <<a>>
           t == <<b>>
           both == <<a, b>>
<1>1. s \in Seq(X) /\ t \in Seq(X) /\ Len(s) = 1 /\ Len(t) = 1 /\ s[1] = a /\ t[1] = b
  OBVIOUS
<1>2. both \in Seq(X) /\ Len(both) = 2 /\ both[1] = a /\ both[2] = b
  OBVIOUS
<1> HIDE DEF s, t, both, X
<1>3. /\ s \o t \in Seq(X) /\ Len(s \o t) = 2
      /\ \A i \in 1 .. 2 : (s \o t)[i] = IF i <= 1 THEN s[i] ELSE t[i - 1]
  <2>1. s \in Seq(X) /\ t \in Seq(X)
    BY <1>1
  <2>2. /\ s \o t \in Seq(X) /\ Len(s \o t) = Len(s) + Len(t)
        /\ \A i \in 1 .. Len(s) + Len(t) :
             (s \o t)[i] = IF i <= Len(s) THEN s[i] ELSE t[i - Len(s)]
    BY <2>1, ConcatProperties
  <2>3. QED
    BY <1>1, <2>2
<1>4. \A i \in 1 .. 2 : (s \o t)[i] = both[i]
  BY <1>1, <1>2, <1>3
<1>5. s \o t = both
  BY <1>2, <1>3, <1>4, SeqEqual
<1>6. QED
  BY <1>5 DEF s, t, both

(* The same for a third component.                                           *)
LEMMA TupleOfThree ==
  ASSUME NEW a, NEW b, NEW c
  PROVE  <<a, b>> \o <<c>> = <<a, b, c>>
<1> DEFINE X == {a, b, c}
           s == <<a, b>>
           t == <<c>>
           all == <<a, b, c>>
<1>1. /\ s \in Seq(X) /\ t \in Seq(X) /\ Len(s) = 2 /\ Len(t) = 1
      /\ s[1] = a /\ s[2] = b /\ t[1] = c
  OBVIOUS
<1>2. all \in Seq(X) /\ Len(all) = 3 /\ all[1] = a /\ all[2] = b /\ all[3] = c
  OBVIOUS
<1> HIDE DEF s, t, all, X
<1>3. /\ s \o t \in Seq(X) /\ Len(s \o t) = 3
      /\ \A i \in 1 .. 3 : (s \o t)[i] = IF i <= 2 THEN s[i] ELSE t[i - 2]
  <2>1. s \in Seq(X) /\ t \in Seq(X)
    BY <1>1
  <2>2. /\ s \o t \in Seq(X) /\ Len(s \o t) = Len(s) + Len(t)
        /\ \A i \in 1 .. Len(s) + Len(t) :
             (s \o t)[i] = IF i <= Len(s) THEN s[i] ELSE t[i - Len(s)]
    BY <2>1, ConcatProperties
  <2>3. QED
    BY <1>1, <2>2
<1>4. \A i \in 1 .. 3 : (s \o t)[i] = all[i]
  BY <1>1, <1>2, <1>3
<1>5. s \o t = all
  BY <1>2, <1>3, <1>4, SeqEqual
<1>6. QED
  BY <1>5 DEF s, t, all

(* A format written in one piece and read in two.                            *)
LEMMA ReadsPair ==
  ASSUME NEW how1 \in Hows, NEW how2 \in Hows,
         NEW f1 \in Fields \ Masked, NEW f2 \in Fields \ Masked
  PROVE  Reads(Take(how1, <<f1>>) \o Take(how2, <<f2>>), <<f1, f2>>)
<1>1. <<f1>> \o <<f2>> = <<f1, f2>>
  BY TupleOfTwo
<1>2. Reads(Take(how1, <<f1>>), <<f1>>) /\ Reads(Take(how2, <<f2>>), <<f2>>)
  BY ReadsOne
<1>3. Reads(Take(how1, <<f1>>) \o Take(how2, <<f2>>), <<f1>> \o <<f2>>)
  BY <1>2, ReadsConcat
<1>4. QED
  BY <1>1, <1>3

(* What take_array reads may hold any field.                                 *)
LEMMA ReadsArray ==
  ASSUME NEW fields \in Seq(Fields)
  PROVE  Reads(Take("array", fields), fields)
  BY ReadsTake DEF Hows

(* The fields that are not part of a masked response.                        *)
LEMMA PlainNames ==
  /\ {"client_nonce", "server_nonce", "masking_nonce", "envelope_nonce"} \subseteq Fields \ Masked
  /\ {"masking_key", "envelope_hmac", "oprf_seed"} \subseteq Fields \ Masked
  /\ {"session_key", "expected_mac", "mac", "pre_hash"} \subseteq Fields \ Masked
  /\ {"blinded_element", "evaluation_element", "oprf_client"} \subseteq Fields \ Masked
  /\ {"client_s_pk", "server_s_pk", "dummy_pk"} \subseteq Fields \ Masked
  /\ {"client_e_pk", "server_e_pk", "server_s_sk", "client_e_sk"} \subseteq Fields \ Masked
  /\ {"signature", "client_signature", "kem_dk", "kem_ek", "kem_ct"} \subseteq Fields \ Masked
  BY FieldNames DEF Masked

(* Envelope and MaskedResponse.                                              *)
LEMMA ReadsEnvelope ==
  /\ Reads(EnvelopeRead, EnvelopeWritten)
  /\ Reads(MaskedResponseRead, MaskedResponseWritten)
<1>1. EnvelopeWritten \in Seq(Fields) /\ MaskedResponseWritten \in Seq(Fields)
  BY FieldNames DEF EnvelopeWritten, MaskedResponseWritten
<1>2. QED
  BY <1>1, ReadsArray DEF EnvelopeRead, EnvelopeWritten, MaskedResponseRead, MaskedResponseWritten

(* Ke1State.                                                                 *)
LEMMA ReadsKe1State ==
  ASSUME NEW s \in Suites
  PROVE  Reads(Ke1StateRead(s), Ke1StateWritten(s))
<1> DEFINE dk == IF Kem(s) THEN <<"kem_dk">> ELSE <<>>
           sk == <<"client_e_sk">>
           nonce == <<"client_nonce">>
<1>1. dk \in Seq(Fields) /\ sk \in Seq(Fields) /\ nonce \in Seq(Fields)
  BY FieldNames
<1>2. Reads(Take("key", sk), sk)
  BY PlainNames, ReadsOne DEF Hows
<1>3. sk \o nonce = <<"client_e_sk", "client_nonce">>
  BY TupleOfTwo
<1>4. /\ Ke1StateRead(s) = Take("key", sk) \o Take("array", nonce \o dk)
      /\ Ke1StateWritten(s) = (sk \o nonce) \o dk
  BY <1>3 DEF Ke1StateRead, Ke1StateWritten
<1> HIDE DEF dk, sk, nonce
<1>5. nonce \o dk \in Seq(Fields) /\ (sk \o nonce) \o dk = sk \o (nonce \o dk)
  BY <1>1, ConcatProperties, ConcatAssociative
<1>6. Reads(Take("array", nonce \o dk), nonce \o dk)
  BY <1>5, ReadsArray
<1>7. QED
  BY <1>2, <1>4, <1>5, <1>6, ReadsConcat

(* Ke1Message and CredentialRequest.                                         *)
LEMMA ReadsCredentialRequest ==
  ASSUME NEW s \in Suites
  PROVE  Reads(CredentialRequestRead(s), CredentialRequestWritten(s))
<1>1. Reads(Take("array", <<"client_nonce">>) \o Take("key", <<"client_e_pk">>),
            <<"client_nonce", "client_e_pk">>)
  BY PlainNames, ReadsPair DEF Hows
<1>2. Reads(IF Kem(s) THEN Take("array", <<"kem_ek">>) ELSE <<>>,
            IF Kem(s) THEN <<"kem_ek">> ELSE <<>>)
  BY FieldNames, ReadsOne, ReadsNothing DEF Hows
<1>3. Reads(Ke1MessageRead(s), Ke1MessageWritten(s))
  BY <1>1, <1>2, ReadsConcat DEF Ke1MessageRead, Ke1MessageWritten
<1>4. Reads(Take("element", <<"blinded_element">>), <<"blinded_element">>)
  BY PlainNames, ReadsOne DEF Hows
<1>5. QED
  BY <1>3, <1>4, ReadsConcat DEF CredentialRequestRead, CredentialRequestWritten

(* Ke2Message.                                                               *)
LEMMA ReadsKe2Message ==
  ASSUME NEW s \in Suites
  PROVE  Reads(Ke2MessageRead(s), Ke2MessageWritten(s))
<1> DEFINE read1 == Take("array", <<"server_nonce">>) \o Take("key", <<"server_e_pk">>)
           keys  == <<"server_nonce", "server_e_pk">>
           read2 == IF Sigma(s) THEN Take("key", <<"signature">>) ELSE <<>>
           sig   == IF Sigma(s) THEN <<"signature">> ELSE <<>>
           mac   == <<"mac">>
           ct    == IF Kem(s) THEN <<"kem_ct">> ELSE <<>>
<1>1. Reads(read1, keys)
  BY PlainNames, ReadsPair DEF Hows
<1>2. Reads(read2, sig)
  BY PlainNames, ReadsOne, ReadsNothing DEF Hows
<1>3. mac \in Seq(Fields) /\ ct \in Seq(Fields) /\ keys \in Seq(Fields) /\ sig \in Seq(Fields)
  BY FieldNames
<1>4. /\ Ke2MessageRead(s) = (read1 \o read2) \o Take("array", mac \o ct)
      /\ Ke2MessageWritten(s) = ((keys \o sig) \o mac) \o ct
  BY DEF Ke2MessageRead, Ke2MessageWritten
<1> HIDE DEF read1, keys, read2, sig, mac, ct
<1>5. mac \o ct \in Seq(Fields) /\ keys \o sig \in Seq(Fields)
  BY <1>3, ConcatProperties
<1>6. ((keys \o sig) \o mac) \o ct = (keys \o sig) \o (mac \o ct)
  BY <1>3, <1>5, ConcatAssociative
<1>7. Reads(read1 \o read2, keys \o sig)
  BY <1>1, <1>2, ReadsConcat
<1>8. Reads(Take("array", mac \o ct), mac \o ct)
  BY <1>5, ReadsArray
<1>9. QED
  BY <1>4, <1>6, <1>7, <1>8, ReadsConcat

(* Ke3Message.                                                               *)
LEMMA ReadsKe3Message ==
  ASSUME NEW s \in Suites
  PROVE  Reads(Ke3MessageRead(s), Ke3MessageWritten(s))
<1>1. Reads(Take("array", <<"expected_mac">>), <<"expected_mac">>)
  BY PlainNames, ReadsOne DEF Hows
<1>2. CASE Sigma(s)
  <2>1. Reads(Take("key", <<"client_signature">>) \o Take("array", <<"expected_mac">>),
              <<"client_signature", "expected_mac">>)
    BY PlainNames, ReadsPair DEF Hows
  <2>2. QED
    BY <1>2, <2>1 DEF Ke3MessageRead, Ke3MessageWritten
<1>3. CASE ~Sigma(s)
  <2>1. <<>> \o Take("array", <<"expected_mac">>) = Take("array", <<"expected_mac">>)
    BY <1>1, ConcatEmptySeq DEF Reads
  <2>2. QED
    BY <1>1, <1>3, <2>1 DEF Ke3MessageRead, Ke3MessageWritten
<1>4. QED
  BY <1>2, <1>3

(* CachedMessage.                                                            *)
LEMMA ReadsCachedMessage == Reads(CachedMessageRead, CachedMessageWritten)
<1> DEFINE front == <<"blinded_element", "client_nonce", "client_e_pk", "evaluation_element",
                      "masking_nonce">>
           back  == <<"server_nonce", "server_e_pk", "mac">>
<1>1. front \in Seq(Fields) /\ back \in Seq(Fields)
  BY FieldNames
<1>2. Reads(Take("array", front), front) /\ Reads(Take("array", back), back)
  <2> HIDE DEF front, back
  <2> QED
    BY <1>1, ReadsArray
<1>3. /\ CachedMessageRead = (Take("array", front) \o MaskedResponseRead) \o Take("array", back)
      /\ CachedMessageWritten = (front \o MaskedResponseWritten) \o back
  BY DEF CachedMessageRead, CachedMessageWritten
<1> HIDE DEF front, back
<1>4. QED
  BY <1>2, <1>3, ReadsEnvelope, ReadsConcat

(* Ke2State, in each of the key exchanges.                                   *)
LEMMA ReadsKe2State ==
  ASSUME NEW s \in Suites
  PROVE  Reads(Ke2StateRead(s), Ke2StateWritten(s))
<1>1. s \in {"TripleDh", "TripleDhKem", "PureEddsa", "PreHash"}
  BY WireAssumption
<1>2. Reads(Take("key", <<"client_s_pk">>), <<"client_s_pk">>)
  BY PlainNames, ReadsOne DEF Hows
<1>3. CASE s \in {"TripleDh", "TripleDhKem"}
  <2>1. /\ <<"session_key", "expected_mac">> \in Seq(Fields)
        /\ <<"session_key", "expected_mac", "kem_ek", "kem_ct">> \in Seq(Fields)
    BY FieldNames
  <2>2. /\ Ke2StateWritten(s) \in Seq(Fields)
        /\ Ke2StateRead(s) = Take("array", Ke2StateWritten(s))
    BY <1>3, <2>1 DEF Ke2StateRead, Ke2StateWritten
  <2>3. QED
    BY <2>2, ReadsArray
<1>4. CASE s = "PureEddsa"
  <2>1. Reads(Take("key", <<"client_s_pk">>) \o Take("array", <<"session_key">>),
              <<"client_s_pk", "session_key">>)
    BY PlainNames, ReadsPair DEF Hows
  <2>2. Reads(Take("array", <<"expected_mac">>), <<"expected_mac">>)
    BY PlainNames, ReadsOne DEF Hows
  <2> DEFINE read1 == Take("key", <<"client_s_pk">>) \o Take("array", <<"session_key">>)
             read3 == Take("array", <<"expected_mac">>)
             first == <<"client_s_pk", "session_key">>
             last  == <<"expected_mac">>
  <2>3. /\ Ke2StateRead(s) = (read1 \o CachedMessageRead) \o read3
        /\ Ke2StateWritten(s) = (first \o CachedMessageWritten) \o last
    BY <1>4 DEF Ke2StateRead, Ke2StateWritten
  <2>4. Reads(read1, first) /\ Reads(read3, last)
    BY <2>1, <2>2
  <2> HIDE DEF read1, read3, first, last
  <2>5. QED
    BY <2>3, <2>4, ReadsCachedMessage, ReadsConcat
<1>5. CASE s = "PreHash"
  <2> DEFINE cpk == <<"client_s_pk">>
             sk == <<"session_key">>
             ph == <<"pre_hash">>
             em == <<"expected_mac">>
             last == <<"session_key", "pre_hash", "expected_mac">>
             four == <<"client_s_pk", "session_key", "pre_hash", "expected_mac">>
  <2>1. cpk \in Seq(Fields) /\ last \in Seq(Fields) /\ four \in Seq(Fields)
    BY FieldNames
  <2>2. /\ Len(cpk) = 1 /\ Len(last) = 3 /\ Len(four) = 4 /\ cpk[1] = four[1]
        /\ last[1] = four[2] /\ last[2] = four[3] /\ last[3] = four[4]
    OBVIOUS
  <2>3. /\ Ke2StateRead(s) = Take("key", cpk) \o Take("array", last)
        /\ Ke2StateWritten(s) = four
        /\ Reads(Take("key", cpk), cpk)
    BY <1>2, <1>5 DEF Ke2StateRead, Ke2StateWritten
  <2> HIDE DEF cpk, last, four
  <2>4. /\ cpk \o last \in Seq(Fields) /\ Len(cpk \o last) = Len(cpk) + Len(last)
        /\ \A i \in 1 .. Len(cpk) + Len(last) :
             (cpk \o last)[i] = IF i <= Len(cpk) THEN cpk[i] ELSE last[i - Len(cpk)]
    BY <2>1, ConcatProperties
  <2>5. \A i \in 1 .. 4 : (cpk \o last)[i] = four[i]
    BY <2>2, <2>4, SMTT(30)
  <2>6. cpk \o last = four
    BY <2>1, <2>2, <2>4, <2>5, SeqEqual
  <2>7. Reads(Take("array", last), last)
    BY <2>1, ReadsArray
  <2>8. QED
    BY <2>3, <2>6, <2>7, ReadsConcat
<1>6. QED
  BY <1>1, <1>3, <1>4, <1>5

(* The messages and stored states that have no part of their own.            *)
LEMMA ReadsRegistration ==
  /\ Reads(Take("tail", <<"blinded_element">>), <<"blinded_element">>)
  /\ Reads(Take("element", <<"evaluation_element">>) \o Take("key", <<"server_s_pk">>),
           <<"evaluation_element", "server_s_pk">>)
  /\ Reads(Take("key", <<"client_s_pk">>) \o Take("array", <<"masking_key">>),
           <<"client_s_pk", "masking_key">>)
  /\ Reads(Take("element", <<"evaluation_element">>) \o Take("array", <<"masking_nonce">>),
           <<"evaluation_element", "masking_nonce">>)
  /\ Reads(Take("element", <<"oprf_client">>) \o Take("rest", <<"blinded_element">>),
           <<"oprf_client", "blinded_element">>)
  /\ Reads(Take("element", <<"oprf_client">>), <<"oprf_client">>)
  /\ Reads(Take("array", <<"oprf_seed">>) \o Take("key", <<"server_s_sk">>)
             \o Take("key", <<"dummy_pk">>),
           <<"oprf_seed", "server_s_sk", "dummy_pk">>)
<1>1. {"array", "key", "element", "tail", "rest"} \subseteq Hows
  BY DEF Hows
<1>2. Reads(Take("tail", <<"blinded_element">>), <<"blinded_element">>)
  BY <1>1, PlainNames, ReadsOne
<1>3. Reads(Take("element", <<"evaluation_element">>) \o Take("key", <<"server_s_pk">>),
            <<"evaluation_element", "server_s_pk">>)
  BY <1>1, PlainNames, ReadsPair
<1>4. Reads(Take("key", <<"client_s_pk">>) \o Take("array", <<"masking_key">>),
            <<"client_s_pk", "masking_key">>)
  BY <1>1, PlainNames, ReadsPair
<1>5. Reads(Take("element", <<"evaluation_element">>) \o Take("array", <<"masking_nonce">>),
            <<"evaluation_element", "masking_nonce">>)
  BY <1>1, PlainNames, ReadsPair
<1>6. Reads(Take("element", <<"oprf_client">>) \o Take("rest", <<"blinded_element">>),
            <<"oprf_client", "blinded_element">>)
  BY <1>1, PlainNames, ReadsPair
<1>7. Reads(Take("element", <<"oprf_client">>), <<"oprf_client">>)
  BY <1>1, PlainNames, ReadsOne
<1>8. Reads(Take("array", <<"oprf_seed">>) \o Take("key", <<"server_s_sk">>)
              \o Take("key", <<"dummy_pk">>),
            <<"oprf_seed", "server_s_sk", "dummy_pk">>)
  <2>1. Reads(Take("array", <<"oprf_seed">>) \o Take("key", <<"server_s_sk">>),
              <<"oprf_seed", "server_s_sk">>)
    BY <1>1, PlainNames, ReadsPair
  <2>2. Reads(Take("key", <<"dummy_pk">>), <<"dummy_pk">>)
    BY <1>1, PlainNames, ReadsOne
  <2>3. <<"oprf_seed", "server_s_sk">> \o <<"dummy_pk">>
          = <<"oprf_seed", "server_s_sk", "dummy_pk">>
    BY TupleOfThree
  <2>4. Reads((Take("array", <<"oprf_seed">>) \o Take("key", <<"server_s_sk">>))
                \o Take("key", <<"dummy_pk">>),
              <<"oprf_seed", "server_s_sk">> \o <<"dummy_pk">>)
    BY <2>1, <2>2, ReadsConcat
  <2>5. QED
    BY <2>3, <2>4
<1>9. QED
  BY <1>2, <1>3, <1>4, <1>5, <1>6, <1>7, <1>8

(* deserialize() takes every format off in the order of serialize().         *)
LEMMA ReadsAll ==
  ASSUME NEW s \in Suites, NEW t \in Types
  PROVE  Reads(Read(s)[t], Written(s)[t])
<1>1. t \in { "RegistrationRequest", "RegistrationResponse", "RegistrationUpload",
              "CredentialRequest", "CredentialResponse", "CredentialFinalization",
              "ClientRegistration", "ClientLogin", "ServerLogin", "ServerSetup" }
  BY DEF Types, Written
<1>2. CASE t \in {"RegistrationRequest", "RegistrationResponse", "ClientRegistration",
                  "ServerSetup"}
  <2>1. CASE t = "RegistrationRequest"
    BY <2>1, ReadsRegistration DEF Read, Written
  <2>2. CASE t = "RegistrationResponse"
    BY <2>2, ReadsRegistration DEF Read, Written
  <2>3. CASE t = "ClientRegistration"
    BY <2>3, ReadsRegistration DEF Read, Written
  <2>4. CASE t = "ServerSetup"
    BY <2>4, ReadsRegistration DEF Read, Written
  <2>5. QED
    BY <1>2, <2>1, <2>2, <2>3, <2>4
<1>3. CASE t = "RegistrationUpload"
  <2> DEFINE read1 == Take("key", <<"client_s_pk">>) \o Take("array", <<"masking_key">>)
             first == <<"client_s_pk", "masking_key">>
  <2>1. Read(s)[t] = read1 \o EnvelopeRead /\ Written(s)[t] = first \o EnvelopeWritten
    BY <1>3 DEF Read, Written
  <2>2. Reads(read1, first)
    BY ReadsRegistration
  <2> HIDE DEF read1, first
  <2>3. QED
    BY <2>1, <2>2, ReadsEnvelope, ReadsConcat
<1>4. CASE t = "CredentialRequest"
  <2>1. Read(s)[t] = CredentialRequestRead(s) /\ Written(s)[t] = CredentialRequestWritten(s)
    BY <1>4 DEF Read, Written
  <2>2. QED
    BY <2>1, ReadsCredentialRequest
<1>5. CASE t = "CredentialResponse"
  <2> DEFINE read1 == Take("element", <<"evaluation_element">>)
                        \o Take("array", <<"masking_nonce">>)
             first == <<"evaluation_element", "masking_nonce">>
  <2>1. /\ Read(s)[t] = (read1 \o MaskedResponseRead) \o Ke2MessageRead(s)
        /\ Written(s)[t] = (first \o MaskedResponseWritten) \o Ke2MessageWritten(s)
    BY <1>5 DEF Read, Written
  <2>2. Reads(read1, first)
    BY ReadsRegistration
  <2> HIDE DEF read1, first
  <2>3. Reads(read1 \o MaskedResponseRead, first \o MaskedResponseWritten)
    BY <2>2, ReadsEnvelope, ReadsConcat
  <2>4. QED
    BY <2>1, <2>3, ReadsKe2Message, ReadsConcat
<1>6. CASE t = "CredentialFinalization"
  <2>1. Read(s)[t] = Ke3MessageRead(s) /\ Written(s)[t] = Ke3MessageWritten(s)
    BY <1>6 DEF Read, Written
  <2>2. QED
    BY <2>1, ReadsKe3Message
<1>7. CASE t = "ClientLogin"
  <2> DEFINE read1 == Take("element", <<"oprf_client">>)
             first == <<"oprf_client">>
  <2>1. /\ Read(s)[t] = (read1 \o CredentialRequestRead(s)) \o Ke1StateRead(s)
        /\ Written(s)[t] = (first \o CredentialRequestWritten(s)) \o Ke1StateWritten(s)
    BY <1>7 DEF Read, Written
  <2>2. Reads(read1, first)
    BY ReadsRegistration
  <2> HIDE DEF read1, first
  <2>3. Reads(read1 \o CredentialRequestRead(s), first \o CredentialRequestWritten(s))
    BY <2>2, ReadsCredentialRequest, ReadsConcat
  <2>4. QED
    BY <2>1, <2>3, ReadsKe1State, ReadsConcat
<1>8. CASE t = "ServerLogin"
  <2>1. Read(s)[t] = Ke2StateRead(s) /\ Written(s)[t] = Ke2StateWritten(s)
    BY <1>8 DEF Read, Written
  <2>2. QED
    BY <2>1, ReadsKe2State
<1>9. QED
  BY <1>1, <1>2, <1>3, <1>4, <1>5, <1>6, <1>7, <1>8

-------------------------------------------------------------------------------
(* The contents of the fields.                                               *)

(* The widths that the masked response is made of.                           *)
LEMMA MaskWidths ==
  /\ Width["nonce"] \in Nat \ {0} /\ Width["oprf_hash"] \in Nat \ {0}
  /\ Width["static_pk"] \in Nat \ {0}
<1>1. {"nonce", "oprf_hash", "static_pk"} \subseteq Kinds
  BY DEF Kinds
<1>2. Base * Base - 1 \in Int
  BY WireAssumption
<1>3. QED
  BY <1>1, <1>2, WireAssumption

(* What is masked can be unmasked with the same pad.                         *)
LEMMA XorBytes ==
  ASSUME NEW n \in Nat, NEW pad \in [1 .. n -> Byte], NEW other \in Seq(Byte), Len(other) = n
  PROVE  /\ Xor(pad, other) \in Seq(Byte) /\ Len(Xor(pad, other)) = n
         /\ Xor(pad, Xor(pad, other)) = other
<1>1. other \in [1 .. n -> Byte] /\ DOMAIN other = 1 .. n /\ DOMAIN pad = 1 .. n
  BY LenProperties
<1>2. Xor(pad, other) = [i \in 1 .. n |-> XorByte(pad[i], other[i])]
  BY <1>1 DEF Xor
<1>3. Xor(pad, other) \in [1 .. n -> Byte]
  BY <1>1, <1>2, XorAssumption
<1>4. Xor(pad, Xor(pad, other)) = [i \in 1 .. n |-> XorByte(pad[i], Xor(pad, other)[i])]
  BY <1>1, <1>3 DEF Xor
<1>5. \A i \in 1 .. n : XorByte(pad[i], Xor(pad, other)[i]) = other[i]
  BY <1>1, <1>2, XorAssumption
<1>6. Xor(pad, Xor(pad, other)) = other
  BY <1>1, <1>4, <1>5
<1>7. Xor(pad, other) \in Seq(Byte) /\ Len(Xor(pad, other)) = n
  BY <1>3
<1>8. QED
  BY <1>6, <1>7

(* The masked response is the masked bytes, cut into three.                  *)
LEMMA MaskedParts ==
  ASSUME NEW pad \in [1 .. Width["nonce"] + Width["oprf_hash"] + Width["static_pk"] -> Byte],
         NEW pk \in Seq(Byte), Len(pk) = Width["static_pk"],
         NEW envelope \in Seq(Byte), Len(envelope) = Width["nonce"] + Width["oprf_hash"],
         NEW m, m = MaskResponse(pad, pk, envelope)
  PROVE  /\ DOMAIN m = Masked
         /\ m["masked_nonce"] \in Seq(Byte) /\ Len(m["masked_nonce"]) = Width["nonce"]
         /\ m["masked_hash"] \in Seq(Byte) /\ Len(m["masked_hash"]) = Width["oprf_hash"]
         /\ m["masked_pk"] \in Seq(Byte) /\ Len(m["masked_pk"]) = Width["static_pk"]
         /\ m["masked_nonce"] \o m["masked_hash"] \o m["masked_pk"] = Xor(pad, pk \o envelope)
<1> DEFINE n == Width["nonce"]
           h == Width["oprf_hash"]
           p == Width["static_pk"]
           x == Xor(pad, pk \o envelope)
<1>1. /\ m = [ masked_nonce |-> SubSeq(x, 1, n), masked_hash |-> SubSeq(x, n + 1, n + h),
               masked_pk |-> SubSeq(x, n + h + 1, Len(x)) ]
  BY DEF MaskResponse
<1>cut. /\ m["masked_nonce"] = SubSeq(x, 1, n) /\ m["masked_hash"] = SubSeq(x, n + 1, n + h)
       /\ m["masked_pk"] = SubSeq(x, n + h + 1, Len(x))
  <2> DEFINE a == SubSeq(x, 1, n)
             b == SubSeq(x, n + 1, n + h)
             c == SubSeq(x, n + h + 1, Len(x))
  <2>1. m = [masked_nonce |-> a, masked_hash |-> b, masked_pk |-> c]
    BY <1>1
  <2> HIDE DEF a, b, c
  <2>2. m["masked_nonce"] = a /\ m["masked_hash"] = b /\ m["masked_pk"] = c
    BY <2>1
  <2>3. QED
    BY <2>2 DEF a, b, c
<1>2. n \in Nat \ {0} /\ h \in Nat \ {0} /\ p \in Nat \ {0}
  BY MaskWidths
<1>3. x \in Seq(Byte) /\ Len(x) = n + h + p
  <2>1. n + h + p \in Nat /\ pad \in [1 .. n + h + p -> Byte]
    BY <1>2
  <2>2. pk \o envelope \in Seq(Byte) /\ Len(pk \o envelope) = Len(pk) + Len(envelope)
    BY ConcatProperties
  <2>3. Len(pk \o envelope) = n + h + p
    BY <1>2, <2>2
  <2>4. QED
    <3> HIDE DEF n, h, p
    <3> QED
      BY <2>1, <2>2, <2>3, XorBytes
<1> HIDE DEF n, h, p, x
<1>4. \A i \in 1 .. n + h + p : x[i] \in Byte
  BY <1>3, ElementOfSeq
<1>5. SubSeq(x, 1, n) \in Seq(Byte) /\ Len(SubSeq(x, 1, n)) = n
  <2>1. 1 \in Int /\ n \in Int /\ 1 <= n /\ n - 1 + 1 = n /\ \A i \in 1 .. n : x[i] \in Byte
    BY <1>2, <1>4
  <2>2. QED
    BY <2>1, SubSeqProperties
<1>6. SubSeq(x, n + 1, n + h) \in Seq(Byte) /\ Len(SubSeq(x, n + 1, n + h)) = h
  <2>1. /\ n + 1 \in Int /\ n + h \in Int /\ n + 1 <= n + h /\ (n + h) - (n + 1) + 1 = h
        /\ \A i \in n + 1 .. n + h : x[i] \in Byte
    BY <1>2, <1>4
  <2>2. QED
    BY <2>1, SubSeqProperties
<1>7. SubSeq(x, n + h + 1, n + h + p) \in Seq(Byte) /\ Len(SubSeq(x, n + h + 1, n + h + p)) = p
  <2>1. /\ n + h + 1 \in Int /\ n + h + p \in Int /\ n + h + 1 <= n + h + p
        /\ (n + h + p) - (n + h + 1) + 1 = p
        /\ \A i \in n + h + 1 .. n + h + p : x[i] \in Byte
    BY <1>2, <1>4
  <2>2. QED
    BY <2>1, SubSeqProperties
<1>8. SubSeq(x, 1, n) \o SubSeq(x, n + 1, n + h) = SubSeq(x, 1, n + h)
  <2>1. /\ 1 \in 1 .. Len(x) + 1 /\ n \in 1 - 1 .. Len(x) /\ n + h \in n .. Len(x)
    BY <1>2, <1>3
  <2>2. QED
    BY <1>3, <2>1, ConcatAdjacentSubSeq
<1>9. SubSeq(x, 1, n + h) \o SubSeq(x, n + h + 1, n + h + p) = SubSeq(x, 1, n + h + p)
  <2>1. /\ 1 \in 1 .. Len(x) + 1 /\ n + h \in 1 - 1 .. Len(x) /\ n + h + p \in n + h .. Len(x)
    BY <1>2, <1>3
  <2>2. QED
    BY <1>3, <2>1, ConcatAdjacentSubSeq
<1>10. SubSeq(x, 1, Len(x)) = x
  BY <1>3, SubSeqFull
<1>11. DOMAIN m = Masked
  BY <1>1 DEF Masked
<1>12. /\ m["masked_nonce"] = SubSeq(x, 1, n) /\ m["masked_hash"] = SubSeq(x, n + 1, n + h)
       /\ m["masked_pk"] = SubSeq(x, n + h + 1, n + h + p)
  BY <1>1, <1>3, <1>cut
<1>13. m["masked_nonce"] \o m["masked_hash"] \o m["masked_pk"] = x
  BY <1>3, <1>8, <1>9, <1>10, <1>12
<1>14. QED
  BY <1>5, <1>6, <1>7, <1>11, <1>12, <1>13 DEF n, h, p, x

(* The contents are as wide as the formats say, and no curve refuses one.    *)
SentWell(s, snt) ==
  \A f \in Fields : /\ snt[f] \in Seq(Byte)
                    /\ Len(snt[f]) = FieldWidth(s, f)
                    /\ f \notin Masked => ToSet(snt[f]) # {0}

(* Masking changes no width, and zeros are only seen where no curve looks.   *)
LEMMA SentFields ==
  ASSUME NEW s \in Suites, NEW salt \in Salts
  PROVE  SentWell(s, Contents(s, salt))
<1> DEFINE plain  == [f \in Fields |-> Content(s, salt, f)]
           pad    == Pad(plain["evaluation_element"], plain["masking_nonce"])
           pk     == plain["server_s_pk"]
           env    == plain["envelope_nonce"] \o plain["envelope_hmac"]
           masked == MaskResponse(pad, pk, env)
<1>1. Contents(s, salt) = [f \in Fields |-> IF f \in DOMAIN masked THEN masked[f] ELSE plain[f]]
  BY DEF Contents
<1>2. ASSUME NEW f \in Fields
      PROVE  /\ plain[f] \in Seq(Byte) /\ Len(plain[f]) = FieldWidth(s, f)
             /\ ToSet(plain[f]) # {0}
  <2>1. /\ plain[f] = Content(s, salt, f)
        /\ plain[f] \in [1 .. FieldWidth(s, f) -> Byte] /\ ToSet(plain[f]) # {0}
    BY ContentAssumption
  <2>2. FieldWidth(s, f) \in Nat
    BY FieldWidths
  <2> HIDE DEF plain
  <2>3. QED
    BY <2>1, <2>2
<1>3. /\ {"evaluation_element", "masking_nonce"} \subseteq Fields
      /\ {"server_s_pk", "envelope_nonce", "envelope_hmac"} \subseteq Fields
  BY FieldNames
<1>4. pad \in [1 .. Width["nonce"] + Width["oprf_hash"] + Width["static_pk"] -> Byte]
  BY <1>3, ContentAssumption
<1>5. /\ FieldWidth(s, "masked_nonce") = Width["nonce"]
      /\ FieldWidth(s, "envelope_nonce") = Width["nonce"]
      /\ FieldWidth(s, "masked_hash") = Width["oprf_hash"]
      /\ FieldWidth(s, "envelope_hmac") = Width["oprf_hash"]
      /\ FieldWidth(s, "masked_pk") = Width["static_pk"]
      /\ FieldWidth(s, "server_s_pk") = Width["static_pk"]
  BY MaskedKinds DEF FieldWidth
<1> HIDE DEF plain, pad, masked
<1>6. pk \in Seq(Byte) /\ Len(pk) = Width["static_pk"]
  BY <1>2, <1>3, <1>5
<1>7. env \in Seq(Byte) /\ Len(env) = Width["nonce"] + Width["oprf_hash"]
  <2>1. /\ plain["envelope_nonce"] \in Seq(Byte) /\ Len(plain["envelope_nonce"]) = Width["nonce"]
        /\ plain["envelope_hmac"] \in Seq(Byte) /\ Len(plain["envelope_hmac"]) = Width["oprf_hash"]
    BY <1>2, <1>3, <1>5
  <2>2. /\ env \in Seq(Byte)
        /\ Len(env) = Len(plain["envelope_nonce"]) + Len(plain["envelope_hmac"])
    BY <2>1, ConcatProperties
  <2> HIDE DEF env
  <2>3. QED
    BY <2>1, <2>2
<1> HIDE DEF pk, env
<1>8. /\ DOMAIN masked = Masked
      /\ \A f \in Masked : /\ f \in Fields /\ masked[f] \in Seq(Byte)
                           /\ Len(masked[f]) = FieldWidth(s, f)
  <2>1. masked = MaskResponse(pad, pk, env)
    BY DEF masked
  <2>2. /\ DOMAIN masked = Masked
        /\ masked["masked_nonce"] \in Seq(Byte) /\ Len(masked["masked_nonce"]) = Width["nonce"]
        /\ masked["masked_hash"] \in Seq(Byte) /\ Len(masked["masked_hash"]) = Width["oprf_hash"]
        /\ masked["masked_pk"] \in Seq(Byte) /\ Len(masked["masked_pk"]) = Width["static_pk"]
    BY <1>4, <1>6, <1>7, <2>1, MaskedParts
  <2>3. QED
    BY <1>5, <2>2, FieldNames DEF Masked
<1>9. ASSUME NEW f \in Fields
      PROVE  Contents(s, salt)[f] = IF f \in Masked THEN masked[f] ELSE plain[f]
  BY <1>1, <1>8
<1>10. QED
  BY <1>2, <1>8, <1>9 DEF SentWell

-------------------------------------------------------------------------------
(* The two loops: over the fields that are written, and over those read.     *)

(* FlattenSeq, up to each of its parts.                                      *)
Flat(parts) ==
  CHOOSE flatten : flatten = [i \in 1 .. Len(parts) |->
                                IF i = 1 THEN parts[i] ELSE flatten[i - 1] \o parts[i]]

(* FlattenSeq is defined for every number of parts, part by part.            *)
LEMMA FlatParts ==
  ASSUME NEW parts, Len(parts) \in Nat
  PROVE  Flat(parts) = [i \in 1 .. Len(parts) |->
                          IF i = 1 THEN parts[i] ELSE Flat(parts)[i - 1] \o parts[i]]
<1> DEFINE N == Len(parts)
           Longer(front, i) == front \o parts[i]
           Loop(g, n) == g = [i \in 1 .. n |-> IF i = 1 THEN parts[i] ELSE Longer(g[i - 1], i)]
           T == {n \in 0 .. N : \E g : Loop(g, n)}
<1>1. 0 \in T
  <2> HIDE DEF Longer
  <2>1. Loop([i \in 1 .. 0 |-> 0], 0)
    OBVIOUS
  <2> HIDE DEF Loop
  <2>2. \E g : Loop(g, 0)
    BY <2>1
  <2>3. QED
    BY <2>2
<1>2. ASSUME NEW n \in 0 .. N, n # 0, n - 1 \in T
      PROVE  n \in T
  <2>1. PICK g : Loop(g, n - 1)
    BY <1>2
  <2> DEFINE h == [i \in 1 .. n |-> IF i = 1 THEN parts[i] ELSE Longer(g[i - 1], i)]
  <2> HIDE DEF Longer
  <2>2. \A i \in 1 .. n - 1 : h[i] = g[i]
    BY <2>1
  <2>3. \A i \in 1 .. n : i # 1 => h[i - 1] = g[i - 1]
    BY <2>2
  <2>4. Loop(h, n)
    BY <2>3
  <2>5. QED
    BY <2>4
<1>3. N \in T
  <2> HIDE DEF T, N
  <2>1. N \in Nat
    BY DEF N
  <2>2. 0 .. N \subseteq T
    BY <1>1, <1>2, <2>1, NumbersUpTo
  <2>3. QED
    BY <2>1, <2>2
<1>4. \E g : Loop(g, N)
  BY <1>3
<1>5. QED
  BY <1>4 DEF Flat

(* deserialize, after each of the fields.                                    *)
After(s, t, inp) ==
  CHOOSE after : after = [n \in 0 .. Len(Read(s)[t]) |->
                            IF n = 0 THEN [rest |-> inp, taken |-> <<>>, outcome |-> "read"]
                                     ELSE TakeField(s, after[n - 1], Read(s)[t][n])]

(* deserialize() is defined for every format, field by field.                *)
LEMMA AfterFields ==
  ASSUME NEW s, NEW t, NEW inp, Len(Read(s)[t]) \in Nat
  PROVE  After(s, t, inp) =
           [n \in 0 .. Len(Read(s)[t]) |->
              IF n = 0 THEN [rest |-> inp, taken |-> <<>>, outcome |-> "read"]
                       ELSE TakeField(s, After(s, t, inp)[n - 1], Read(s)[t][n])]
<1> DEFINE N == Len(Read(s)[t])
           start == [rest |-> inp, taken |-> <<>>, outcome |-> "read"]
           Loop(g, n) == g = [m \in 0 .. n |-> IF m = 0 THEN start
                                                ELSE TakeField(s, g[m - 1], Read(s)[t][m])]
           T == {n \in 0 .. N : \E g : Loop(g, n)}
<1>1. 0 \in T
  <2> HIDE DEF start
  <2>1. Loop([m \in 0 .. 0 |-> start], 0)
    OBVIOUS
  <2> HIDE DEF Loop
  <2>2. \E g : Loop(g, 0)
    BY <2>1
  <2>3. QED
    BY <2>2
<1>2. ASSUME NEW n \in 0 .. N, n # 0, n - 1 \in T
      PROVE  n \in T
  <2> HIDE DEF start
  <2>1. PICK g : Loop(g, n - 1)
    BY <1>2
  <2> DEFINE h == [m \in 0 .. n |-> IF m = 0 THEN start ELSE TakeField(s, g[m - 1], Read(s)[t][m])]
  <2>2. \A m \in 0 .. n - 1 : h[m] = g[m]
    BY <2>1
  <2>3. \A m \in 0 .. n : m # 0 => h[m - 1] = g[m - 1]
    BY <2>2
  <2>4. Loop(h, n)
    BY <2>3
  <2>5. QED
    BY <2>4
<1>3. N \in T
  <2> HIDE DEF T, N
  <2>1. N \in Nat
    BY DEF N
  <2>2. 0 .. N \subseteq T
    BY <1>1, <1>2, <2>1, NumbersUpTo
  <2>3. QED
    BY <2>1, <2>2
<1>4. \E g : Loop(g, N)
  BY <1>3
<1>5. QED
  BY <1>4 DEF After

-------------------------------------------------------------------------------
(* One field is taken.                                                       *)

IsReader(r) == r = [rest |-> r.rest, taken |-> r.taken, outcome |-> r.outcome]

(* The result of take_array and of the curve is kept when it is an error.    *)
LEMMA TakeFieldReads ==
  ASSUME NEW s, NEW r, IsReader(r), NEW e \in Entry
  PROVE  LET len == FieldWidth(s, e.field)
             new == TakeField(s, r, e)
         IN  /\ IsReader(new)
             /\ new.outcome = "read" =>
                  /\ r.outcome = "read" /\ ~(len > Len(r.rest))
                  /\ new.rest = SubSeq(r.rest, len + 1, Len(r.rest))
                  /\ new.taken = Append(r.taken, [field |-> e.field,
                                                  bytes |-> SubSeq(r.rest, 1, len)])
             /\ r.outcome = "read" /\ ~(len > Len(r.rest))
                  /\ ~Refused(s, e, SubSeq(r.rest, 1, len)) => new.outcome = "read"
<1> DEFINE len   == FieldWidth(s, e.field)
           new   == TakeField(s, r, e)
           front == SubSeq(r.rest, 1, len)
           back  == SubSeq(r.rest, len + 1, Len(r.rest))
           entry == [field |-> e.field, bytes |-> front]
           taken == Append(r.taken, entry)
<1>1. ShortError(e.how) # "read" /\ RefusalError(e.how) # "read"
  BY DEF Entry, Hows, ShortError, RefusalError
<1>2. new = IF r.outcome # "read" THEN r
            ELSE IF len > Len(r.rest) THEN [r EXCEPT !.outcome = ShortError(e.how)]
            ELSE IF Refused(s, e, front) THEN [r EXCEPT !.outcome = RefusalError(e.how)]
            ELSE [r EXCEPT !.rest = back, !.taken = taken]
  BY DEF TakeField, TakeArray
<1> HIDE DEF len, new, front, back, entry, taken
<1>3. CASE r.outcome # "read"
  BY <1>2, <1>3 DEF new
<1>4. CASE r.outcome = "read" /\ len > Len(r.rest)
  <2>1. new = [rest |-> r.rest, taken |-> r.taken, outcome |-> ShortError(e.how)]
    BY <1>2, <1>4 DEF IsReader
  <2>2. QED
    BY <1>1, <1>4, <2>1 DEF IsReader, new, len
<1>5. CASE r.outcome = "read" /\ ~(len > Len(r.rest)) /\ Refused(s, e, front)
  <2>1. new = [rest |-> r.rest, taken |-> r.taken, outcome |-> RefusalError(e.how)]
    BY <1>2, <1>5 DEF IsReader
  <2>2. QED
    BY <1>1, <1>5, <2>1 DEF IsReader, new, len, front
<1>6. CASE r.outcome = "read" /\ ~(len > Len(r.rest)) /\ ~Refused(s, e, front)
  <2>1. new = [rest |-> back, taken |-> taken, outcome |-> "read"]
    BY <1>2, <1>6 DEF IsReader
  <2>2. IsReader(new) /\ new.outcome = "read" /\ new.rest = back /\ new.taken = taken
    BY <2>1 DEF IsReader
  <2>3. QED
    BY <1>6, <2>2 DEF new, len, front, back, taken, entry
<1>7. QED
  BY <1>3, <1>4, <1>5, <1>6

-------------------------------------------------------------------------------
(* What is written, up to each of its fields.                                *)

Parts(s, t, snt) == [i \in DOMAIN Written(s)[t] |-> snt[Written(s)[t][i]]]

WrittenUpTo(s, t, snt, n) == IF n = 0 THEN <<>> ELSE Flat(Parts(s, t, snt))[n]

(* A format is a list of fields, each with its contents.                     *)
LEMMA FormatFields ==
  ASSUME NEW s \in Suites, NEW t \in Types
  PROVE  /\ Len(Written(s)[t]) \in Nat /\ Len(Read(s)[t]) = Len(Written(s)[t])
         /\ DOMAIN Written(s)[t] = 1 .. Len(Written(s)[t])
         /\ \A i \in 1 .. Len(Written(s)[t]) :
              /\ Written(s)[t][i] \in Fields /\ Read(s)[t][i] \in Entry
              /\ Read(s)[t][i].field = Written(s)[t][i]
              /\ Written(s)[t][i] \in Masked => Read(s)[t][i].how = "array"
<1> DEFINE written == Written(s)[t]
           read == Read(s)[t]
<1>1. Reads(read, written)
  BY ReadsAll
<1> HIDE DEF written, read
<1>2. /\ Len(written) \in Nat /\ DOMAIN written = 1 .. Len(written) /\ Len(read) = Len(written)
      /\ \A i \in 1 .. Len(written) : written[i] \in Fields
      /\ \A i \in 1 .. Len(read) : read[i] \in Entry
  BY <1>1, LenProperties DEF Reads
<1>3. QED
  BY <1>1, <1>2 DEF Reads, written, read

(* What is written first stands in front of what is written next.            *)
LEMMA Fronts ==
  ASSUME NEW s \in Suites, NEW t \in Types, NEW snt, SentWell(s, snt)
  PROVE  /\ Serialize(snt, Written(s)[t]) = WrittenUpTo(s, t, snt, Len(Written(s)[t]))
         /\ \A n \in 1 .. Len(Written(s)[t]) :
              WrittenUpTo(s, t, snt, n) = WrittenUpTo(s, t, snt, n - 1) \o snt[Written(s)[t][n]]
         /\ \A n \in 0 .. Len(Written(s)[t]) : WrittenUpTo(s, t, snt, n) \in Seq(Byte)
<1> DEFINE written == Written(s)[t]
           N == Len(written)
           parts == Parts(s, t, snt)
           front(n) == WrittenUpTo(s, t, snt, n)
<1>1. /\ N \in Nat /\ DOMAIN written = 1 .. N
      /\ \A i \in 1 .. N : written[i] \in Fields
  BY FormatFields
<1>2. parts = [i \in 1 .. N |-> snt[written[i]]] /\ Len(parts) = N
  <2>1. parts = [i \in 1 .. N |-> snt[written[i]]]
    BY <1>1 DEF Parts
  <2> HIDE DEF parts, written, N
  <2>2. QED
    BY <1>1, <2>1
<1>3. \A i \in 1 .. N : parts[i] = snt[written[i]] /\ parts[i] \in Seq(Byte)
  BY <1>1, <1>2 DEF SentWell
<1>4. Flat(parts) = [i \in 1 .. N |-> IF i = 1 THEN parts[i] ELSE Flat(parts)[i - 1] \o parts[i]]
  <2> HIDE DEF parts
  <2>1. Len(parts) \in Nat
    BY <1>1, <1>2
  <2>2. Flat(parts) =
          [i \in 1 .. Len(parts) |-> IF i = 1 THEN parts[i] ELSE Flat(parts)[i - 1] \o parts[i]]
    BY <2>1, FlatParts
  <2>3. Len(parts) = N
    BY <1>2
  <2>4. QED
    BY <2>2, <2>3
<1>5. Serialize(snt, written) = front(N)
  <2>1. Serialize(snt, written) = FlattenSeq(parts)
    BY DEF Serialize, Parts
  <2>2. FlattenSeq(parts) = IF Len(parts) = 0 THEN parts ELSE Flat(parts)[Len(parts)]
    BY DEF FlattenSeq, Flat
  <2>3. N = 0 => parts = <<>>
    <3> HIDE DEF parts, N
    <3> QED
      BY <1>2
  <2>4. QED
    BY <1>2, <2>1, <2>2, <2>3 DEF WrittenUpTo
<1>6. front(0) = <<>> /\ \A n \in 1 .. N : front(n) = Flat(parts)[n]
  BY <1>1 DEF WrittenUpTo
<1>7. \A n \in 1 .. N : n # 1 => front(n) = front(n - 1) \o parts[n]
  <2> HIDE DEF front, parts
  <2>1. TAKE n \in 1 .. N
  <2>2. HAVE n # 1
  <2>3. n - 1 \in 1 .. N
    BY <1>1, <2>2
  <2>4. Flat(parts)[n] = Flat(parts)[n - 1] \o parts[n]
    BY <1>4, <2>2
  <2>5. QED
    BY <1>6, <2>3, <2>4
<1>8. 1 \in 1 .. N => front(1) = parts[1] /\ front(1) = front(0) \o parts[1]
  <2> HIDE DEF front, parts
  <2>1. SUFFICES ASSUME 1 \in 1 .. N
                 PROVE  front(1) = parts[1] /\ front(1) = front(0) \o parts[1]
    OBVIOUS
  <2>2. front(1) = parts[1]
    BY <1>4, <1>6, <2>1
  <2>3. <<>> \o parts[1] = parts[1]
    BY <1>3, <2>1, ConcatEmptySeq
  <2>4. QED
    BY <1>6, <2>2, <2>3
<1> HIDE DEF parts, front, N, written
<1>9. \A n \in 1 .. N : front(n) = front(n - 1) \o parts[n]
  <2>1. TAKE n \in 1 .. N
  <2>2. CASE n = 1
    BY <1>8, <2>2
  <2>3. CASE n # 1
    BY <1>7, <2>3
  <2>4. QED
    BY <2>2, <2>3
<1>10. \A n \in 0 .. N : front(n) \in Seq(Byte)
  <2> DEFINE T == {n \in 0 .. N : front(n) \in Seq(Byte)}
  <2>1. 0 \in T
    <3>1. 0 \in 0 .. N
      BY <1>1
    <3>2. front(0) \in Seq(Byte)
      BY <1>6, EmptySeq
    <3>3. QED
      BY <3>1, <3>2
  <2>2. \A n \in 0 .. N : n # 0 /\ n - 1 \in T => n \in T
    <3>1. TAKE n \in 0 .. N
    <3>2. HAVE n # 0 /\ n - 1 \in T
    <3>3. n \in 1 .. N /\ front(n - 1) \in Seq(Byte) /\ parts[n] \in Seq(Byte)
      BY <1>1, <1>3, <3>2
    <3>4. front(n - 1) \o parts[n] \in Seq(Byte)
      BY <3>3, ConcatProperties
    <3>5. QED
      BY <1>9, <3>3, <3>4
  <2> HIDE DEF T
  <2>3. 0 .. N \subseteq T
    BY <1>1, <2>1, <2>2, NumbersUpTo
  <2>4. QED
    BY <2>3 DEF T
<1>11. \A n \in 1 .. N : front(n) = front(n - 1) \o snt[written[n]]
  BY <1>3, <1>9
<1>12. QED
  BY <1>5, <1>10, <1>11 DEF front, N, written

(* Every field keeps its place when the following ones are written.          *)
LEMMA WrittenStays ==
  ASSUME NEW s \in Suites, NEW t \in Types, NEW snt, SentWell(s, snt)
  PROVE  LET N == Len(Written(s)[t])
             front(n) == WrittenUpTo(s, t, snt, n)
         IN  /\ \A n \in 1 .. N :
                  Len(front(n)) = Len(front(n - 1)) + FieldWidth(s, Written(s)[t][n])
             /\ \A n \in 0 .. N :
                  /\ Len(front(n)) \in Nat /\ Len(front(n)) <= Len(front(N))
                  /\ \A i \in 1 .. Len(front(n)) : front(N)[i] = front(n)[i]
             /\ \A n \in 1 .. N : \A i \in 1 .. FieldWidth(s, Written(s)[t][n]) :
                  front(N)[Len(front(n - 1)) + i] = snt[Written(s)[t][n]][i]
<1> DEFINE written == Written(s)[t]
           N == Len(written)
           front(n) == WrittenUpTo(s, t, snt, n)
           part(n) == snt[written[n]]
           width(n) == FieldWidth(s, written[n])
<1>1. N \in Nat
  BY FormatFields
<1>2. \A n \in 1 .. N : /\ part(n) \in Seq(Byte) /\ Len(part(n)) = width(n)
                        /\ width(n) \in Nat \ {0}
  BY FormatFields, FieldWidths DEF SentWell
<1>3. \A n \in 1 .. N : front(n) = front(n - 1) \o part(n)
  BY Fronts
<1>4. \A n \in 0 .. N : front(n) \in Seq(Byte)
  BY Fronts
<1> HIDE DEF N, front, part, width
<1>5. \A n \in 0 .. N : Len(front(n)) \in Nat
  BY <1>4, LenProperties
<1>6. ASSUME NEW n \in 1 .. N
      PROVE  /\ Len(front(n)) = Len(front(n - 1)) + width(n)
             /\ \A i \in 1 .. Len(front(n - 1)) : front(n)[i] = front(n - 1)[i]
             /\ \A i \in 1 .. width(n) : front(n)[Len(front(n - 1)) + i] = part(n)[i]
  <2>1. n - 1 \in 0 .. N
    BY <1>1
  <2>2. /\ front(n - 1) \in Seq(Byte) /\ part(n) \in Seq(Byte)
        /\ Len(front(n - 1)) \in Nat /\ Len(part(n)) = width(n) /\ width(n) \in Nat \ {0}
    BY <1>2, <1>4, <1>5, <2>1
  <2> DEFINE both == front(n - 1) \o part(n)
  <2>3. /\ Len(both) = Len(front(n - 1)) + Len(part(n))
        /\ \A i \in 1 .. Len(front(n - 1)) + Len(part(n)) :
             both[i] = IF i <= Len(front(n - 1)) THEN front(n - 1)[i]
                       ELSE part(n)[i - Len(front(n - 1))]
    BY <2>2, ConcatProperties
  <2>4. front(n) = both
    BY <1>3
  <2> HIDE DEF both
  <2> DEFINE k == Len(front(n - 1))
             w == width(n)
  <2>5. /\ k \in Nat /\ w \in Nat /\ Len(both) = k + w
        /\ \A i \in 1 .. k + w : both[i] = IF i <= k THEN front(n - 1)[i] ELSE part(n)[i - k]
    BY <2>2, <2>3
  <2> HIDE DEF k, w
  <2>6. \A i \in 1 .. k : both[i] = front(n - 1)[i]
    BY <2>5
  <2>7. \A i \in 1 .. w : both[k + i] = part(n)[i]
    <3>1. TAKE i \in 1 .. w
    <3>2. k + i \in 1 .. k + w /\ ~(k + i <= k) /\ (k + i) - k = i
      BY <2>5
    <3>3. QED
      BY <2>5, <3>2
  <2>8. QED
    BY <2>4, <2>5, <2>6, <2>7 DEF k, w
<1> DEFINE Stays(n, m) == /\ Len(front(n)) <= Len(front(m))
                          /\ \A i \in 1 .. Len(front(n)) : front(m)[i] = front(n)[i]
           T == {m \in 0 .. N : \A n \in 0 .. m : Stays(n, m)}
<1>7. 0 \in T
  <2>1. 0 \in 0 .. N /\ Len(front(0)) \in Nat
    BY <1>1, <1>5
  <2>2. \A n \in 0 .. 0 : Stays(n, 0)
    BY <2>1
  <2>3. QED
    BY <2>1, <2>2
<1>8. ASSUME NEW m \in 0 .. N, m # 0, m - 1 \in T
      PROVE  m \in T
  <2>1. SUFFICES ASSUME NEW n \in 0 .. m PROVE Stays(n, m)
    OBVIOUS
  <2>2. m \in 1 .. N /\ n \in 0 .. N /\ m - 1 \in 0 .. N
    BY <1>1, <1>8
  <2>3. Len(front(m - 1)) \in Nat /\ Len(front(n)) \in Nat /\ Len(front(m)) \in Nat
    BY <1>5, <2>2
  <2>4. CASE n = m
    BY <2>3, <2>4
  <2>5. CASE n # m
    <3>1. n \in 0 .. m - 1
      BY <1>1, <2>2, <2>5
    <3>2. Stays(n, m - 1)
      BY <1>8, <3>1
    <3>3. /\ Len(front(m)) = Len(front(m - 1)) + width(m) /\ width(m) \in Nat
          /\ \A i \in 1 .. Len(front(m - 1)) : front(m)[i] = front(m - 1)[i]
      BY <1>2, <1>6, <2>2
    <3>4. QED
      BY <2>3, <3>2, <3>3
  <2>6. QED
    BY <2>4, <2>5
<1>9. \A n \in 0 .. N : Stays(n, N)
  <2>1. 0 .. N \subseteq T
    <3> HIDE DEF T
    <3> QED
      BY <1>1, <1>7, <1>8, NumbersUpTo
  <2>2. N \in T
    BY <1>1, <2>1
  <2>3. QED
    BY <2>2
<1>10. ASSUME NEW n \in 1 .. N, NEW i \in 1 .. width(n)
       PROVE  front(N)[Len(front(n - 1)) + i] = part(n)[i]
  <2>1. Len(front(n - 1)) \in Nat /\ width(n) \in Nat
    BY <1>1, <1>2, <1>5
  <2>2. Len(front(n - 1)) + i \in 1 .. Len(front(n))
    BY <1>6, <2>1
  <2>3. n \in 0 .. N
    BY <1>1
  <2>4. front(N)[Len(front(n - 1)) + i] = front(n)[Len(front(n - 1)) + i]
    BY <1>9, <2>2, <2>3
  <2>5. QED
    BY <1>6, <2>4
<1>11. QED
  BY <1>5, <1>6, <1>9, <1>10 DEF N, front, part, width

-------------------------------------------------------------------------------
(* What is read, field by field.                                             *)

(* The bytes behind a, up to b.                                              *)
LEMMA Slices ==
  ASSUME NEW x \in Seq(Byte), NEW a \in Nat, NEW b \in Nat, a <= b, b <= Len(x)
  PROVE  /\ SubSeq(x, a + 1, b) \in Seq(Byte)
         /\ Len(SubSeq(x, a + 1, b)) = b - a
         /\ \A i \in 1 .. b - a : SubSeq(x, a + 1, b)[i] = x[a + i]
<1>1. Len(x) \in Nat /\ \A i \in 1 .. Len(x) : x[i] \in Byte
  BY LenProperties, ElementOfSeq
<1>2. a + 1 \in Int /\ b \in Int /\ \A i \in a + 1 .. b : x[i] \in Byte
  BY <1>1
<1>3. /\ SubSeq(x, a + 1, b) \in Seq(Byte)
      /\ Len(SubSeq(x, a + 1, b)) = IF a + 1 <= b THEN b - (a + 1) + 1 ELSE 0
      /\ \A i \in 1 .. b - (a + 1) + 1 : SubSeq(x, a + 1, b)[i] = x[(a + 1) + i - 1]
  BY <1>2, SubSeqProperties
<1>4. (IF a + 1 <= b THEN b - (a + 1) + 1 ELSE 0) = b - a /\ b - (a + 1) + 1 = b - a
  OBVIOUS
<1>5. \A i \in 1 .. b - a : (a + 1) + i - 1 = a + i
  OBVIOUS
<1>6. QED
  BY <1>3, <1>4, <1>5

(* A part of the rest of the input is a part of the input.                   *)
LEMMA SliceOfSlice ==
  ASSUME NEW x \in Seq(Byte), NEW k \in Nat, NEW a \in Nat, NEW b \in Nat, a <= b, k + b <= Len(x)
  PROVE  /\ Len(SubSeq(x, k + 1, Len(x))) = Len(x) - k
         /\ SubSeq(SubSeq(x, k + 1, Len(x)), a + 1, b) = SubSeq(x, (k + a) + 1, k + b)
<1> DEFINE rest == SubSeq(x, k + 1, Len(x))
           inner == SubSeq(rest, a + 1, b)
           outer == SubSeq(x, (k + a) + 1, k + b)
<1>1. Len(x) \in Nat /\ k <= Len(x) /\ k + a \in Nat /\ k + b \in Nat /\ k + a <= k + b
  BY LenProperties
<1>2. /\ rest \in Seq(Byte) /\ Len(rest) = Len(x) - k
      /\ \A i \in 1 .. Len(x) - k : rest[i] = x[k + i]
  <2>1. Len(x) <= Len(x)
    BY <1>1
  <2>2. QED
    BY <1>1, <2>1, Slices
<1>3. /\ inner \in Seq(Byte) /\ Len(inner) = b - a
      /\ \A i \in 1 .. b - a : inner[i] = rest[a + i]
  <2> HIDE DEF rest
  <2>1. b <= Len(rest)
    BY <1>1, <1>2
  <2>2. QED
    BY <1>2, <2>1, Slices
<1>4. /\ outer \in Seq(Byte) /\ Len(outer) = (k + b) - (k + a)
      /\ \A i \in 1 .. (k + b) - (k + a) : outer[i] = x[(k + a) + i]
  BY <1>1, Slices
<1> HIDE DEF rest, inner, outer
<1>5. ASSUME NEW i \in 1 .. b - a PROVE inner[i] = outer[i]
  <2>1. a + i \in 1 .. Len(x) - k /\ k + (a + i) = (k + a) + i /\ i \in 1 .. (k + b) - (k + a)
    BY <1>1
  <2>2. inner[i] = rest[a + i] /\ rest[a + i] = x[k + (a + i)]
    BY <1>2, <1>3, <2>1
  <2>3. outer[i] = x[(k + a) + i]
    BY <1>4, <2>1
  <2>4. QED
    BY <2>1, <2>2, <2>3
<1>6. Len(inner) = Len(outer)
  BY <1>3, <1>4
<1>7. inner = outer
  BY <1>3, <1>4, <1>5, <1>6, SeqEqual
<1>8. QED
  BY <1>2, <1>7 DEF rest, inner, outer

(* After n fields: they are the next slices of the input, as wide as they    *)
(* were written, and the rest is what stands behind them.                    *)
Sliced(s, t, snt, inp, n, r) ==
  LET L(i) == Len(WrittenUpTo(s, t, snt, i))
  IN  /\ L(n) <= Len(inp)
      /\ r.rest = SubSeq(inp, L(n) + 1, Len(inp))
      /\ r.taken \in Seq([field : Fields, bytes : Seq(Byte)])
      /\ Len(r.taken) = n
      /\ \A i \in 1 .. n :
           r.taken[i] = [field |-> Written(s)[t][i], bytes |-> SubSeq(inp, L(i - 1) + 1, L(i))]

(* A length that is compared with what is left: no byte is read that is not  *)
(* there, and none is skipped or read twice.                                 *)
LEMMA ReadInSlices ==
  ASSUME NEW s \in Suites, NEW t \in Types, NEW snt, SentWell(s, snt), NEW inp \in Seq(Byte)
  PROVE  \A n \in 0 .. Len(Written(s)[t]) :
           LET r == After(s, t, inp)[n]
           IN  IsReader(r) /\ (r.outcome = "read" => Sliced(s, t, snt, inp, n, r))
<1> DEFINE written == Written(s)[t]
           N == Len(written)
           read == Read(s)[t]
           L(n) == Len(WrittenUpTo(s, t, snt, n))
           width(n) == FieldWidth(s, written[n])
           a(n) == After(s, t, inp)[n]
           Good(n) == IsReader(a(n)) /\ (a(n).outcome = "read" => Sliced(s, t, snt, inp, n, a(n)))
           T == {n \in 0 .. N : Good(n)}
<1>1. /\ N \in Nat /\ Len(read) = N
      /\ \A n \in 1 .. N : /\ written[n] \in Fields /\ read[n] \in Entry
                           /\ read[n].field = written[n]
  BY FormatFields
<1>2. \A n \in 1 .. N : width(n) \in Nat \ {0} /\ L(n) = L(n - 1) + width(n)
  BY <1>1, FieldWidths, WrittenStays
<1>3. L(0) = 0 /\ \A n \in 0 .. N : L(n) \in Nat
  BY WrittenStays, EmptySeq DEF WrittenUpTo
<1>4. /\ a(0) = [rest |-> inp, taken |-> <<>>, outcome |-> "read"]
      /\ \A n \in 1 .. N : a(n) = TakeField(s, a(n - 1), read[n])
  <2> DEFINE after == After(s, t, inp)
             start == [rest |-> inp, taken |-> <<>>, outcome |-> "read"]
  <2>1. after = [n \in 0 .. N |-> IF n = 0 THEN start ELSE TakeField(s, after[n - 1], read[n])]
    BY <1>1, AfterFields
  <2> HIDE DEF after, start, N, read
  <2>2. after[0] = start /\ \A n \in 1 .. N : after[n] = TakeField(s, after[n - 1], read[n])
    BY <1>1, <2>1
  <2>3. QED
    BY <2>2 DEF after, start
<1>5. \A n : Sliced(s, t, snt, inp, n, a(n)) <=>
          /\ L(n) <= Len(inp)
          /\ a(n).rest = SubSeq(inp, L(n) + 1, Len(inp))
          /\ a(n).taken \in Seq([field : Fields, bytes : Seq(Byte)])
          /\ Len(a(n).taken) = n
          /\ \A i \in 1 .. n :
               a(n).taken[i] = [field |-> written[i], bytes |-> SubSeq(inp, L(i - 1) + 1, L(i))]
  BY DEF Sliced
<1>6. Len(inp) \in Nat
  BY LenProperties
<1> HIDE DEF written, N, read, L, width, a
<1>7. 0 \in T
  <2>1. /\ a(0).rest = inp /\ a(0).taken = <<>> /\ IsReader(a(0))
    BY <1>4 DEF IsReader
  <2>2. SubSeq(inp, 1, Len(inp)) = inp
    BY SubSeqFull
  <2>3. L(0) <= Len(inp) /\ L(0) + 1 = 1 /\ 0 \in 0 .. N
    BY <1>1, <1>3, <1>6
  <2>4. a(0).taken \in Seq([field : Fields, bytes : Seq(Byte)]) /\ Len(a(0).taken) = 0
    BY <2>1, EmptySeq
  <2>5. Sliced(s, t, snt, inp, 0, a(0))
    BY <1>5, <2>1, <2>2, <2>3, <2>4
  <2>6. QED
    BY <2>1, <2>3, <2>5
<1>8. ASSUME NEW n \in 0 .. N, n # 0, n - 1 \in T
      PROVE  n \in T
  <2> DEFINE r == a(n - 1)
             e == read[n]
             bytes == SubSeq(inp, L(n - 1) + 1, L(n))
             entry == [field |-> written[n], bytes |-> bytes]
  <2>1. /\ n \in 1 .. N /\ n - 1 \in 0 .. N /\ IsReader(r) /\ e \in Entry
        /\ r.outcome = "read" => Sliced(s, t, snt, inp, n - 1, r)
    BY <1>1, <1>8
  <2>2. a(n) = TakeField(s, r, e) /\ FieldWidth(s, e.field) = width(n) /\ e.field = written[n]
    BY <1>1, <1>4, <2>1 DEF width
  <2> HIDE DEF r, e
  <2>3. IsReader(a(n))
    BY <2>1, <2>2, TakeFieldReads
  <2>4. ASSUME a(n).outcome = "read"
        PROVE  Sliced(s, t, snt, inp, n, a(n))
    <3>1. /\ r.outcome = "read" /\ ~(width(n) > Len(r.rest))
          /\ a(n).rest = SubSeq(r.rest, width(n) + 1, Len(r.rest))
          /\ a(n).taken = Append(r.taken, [field |-> written[n],
                                           bytes |-> SubSeq(r.rest, 1, width(n))])
      <4> DEFINE len == FieldWidth(s, e.field)
                 new == TakeField(s, r, e)
      <4>1. IsReader(r) /\ e \in Entry
        BY <2>1
      <4>2. new.outcome = "read" =>
              /\ r.outcome = "read" /\ ~(len > Len(r.rest))
              /\ new.rest = SubSeq(r.rest, len + 1, Len(r.rest))
              /\ new.taken = Append(r.taken, [field |-> e.field,
                                              bytes |-> SubSeq(r.rest, 1, len)])
        BY <4>1, TakeFieldReads
      <4> HIDE DEF len, new
      <4>3. a(n) = new /\ len = width(n) /\ e.field = written[n]
        BY <2>2 DEF len, new
      <4>4. QED
        BY <2>4, <4>2, <4>3
    <3>2. /\ L(n - 1) <= Len(inp)
          /\ r.rest = SubSeq(inp, L(n - 1) + 1, Len(inp))
          /\ r.taken \in Seq([field : Fields, bytes : Seq(Byte)])
          /\ Len(r.taken) = n - 1
          /\ \A i \in 1 .. n - 1 :
               r.taken[i] = [field |-> written[i], bytes |-> SubSeq(inp, L(i - 1) + 1, L(i))]
      BY <1>5, <2>1, <3>1 DEF r
    <3> DEFINE k == L(n - 1)
               w == width(n)
    <3>3. /\ k \in Nat /\ w \in Nat /\ L(n) = k + w /\ k <= Len(inp)
      BY <1>2, <1>3, <2>1, <3>2
    <3> HIDE DEF k, w
    <3>4. Len(r.rest) = Len(inp) - k
      <4>1. 0 \in Nat /\ 0 <= 0 /\ k + 0 <= Len(inp)
        BY <1>6, <3>3
      <4>2. Len(SubSeq(inp, k + 1, Len(inp))) = Len(inp) - k
        BY <3>3, <4>1, SliceOfSlice
      <4>3. QED
        BY <3>2, <4>2 DEF k
    <3>5. k + w <= Len(inp)
      BY <1>6, <3>1, <3>3, <3>4 DEF w
    <3>6. SubSeq(r.rest, 1, w) = bytes
      <4>1. 0 \in Nat /\ 0 <= w /\ 0 + 1 = 1 /\ (k + 0) + 1 = k + 1
        BY <3>3
      <4>2. SubSeq(SubSeq(inp, k + 1, Len(inp)), 0 + 1, w) = SubSeq(inp, (k + 0) + 1, k + w)
        BY <3>3, <3>5, <4>1, SliceOfSlice
      <4>3. r.rest = SubSeq(inp, k + 1, Len(inp)) /\ bytes = SubSeq(inp, k + 1, L(n))
        BY <3>2 DEF k
      <4>4. QED
        BY <3>3, <4>1, <4>2, <4>3
    <3>7. a(n).rest = SubSeq(inp, L(n) + 1, Len(inp))
      <4> DEFINE left == Len(inp) - k
      <4>1. left \in Nat /\ w <= left /\ k + left <= Len(inp) /\ k + left = Len(inp)
        BY <1>6, <3>3, <3>5
      <4> HIDE DEF left
      <4>2. SubSeq(SubSeq(inp, k + 1, Len(inp)), w + 1, left) = SubSeq(inp, (k + w) + 1, k + left)
        BY <3>3, <4>1, SliceOfSlice
      <4>3. r.rest = SubSeq(inp, k + 1, Len(inp)) /\ Len(r.rest) = left
        BY <3>2, <3>4 DEF k, left
      <4>4. a(n).rest = SubSeq(r.rest, w + 1, Len(r.rest))
        BY <3>1 DEF w
      <4>5. QED
        BY <3>3, <4>1, <4>2, <4>3, <4>4
    <3>8. entry \in [field : Fields, bytes : Seq(Byte)]
      <4>1. k + w \in Nat /\ k <= k + w
        BY <3>3
      <4>2. SubSeq(inp, k + 1, k + w) \in Seq(Byte)
        BY <3>3, <3>5, <4>1, Slices
      <4>3. bytes \in Seq(Byte)
        BY <3>3, <4>2 DEF k
      <4> HIDE DEF bytes
      <4>4. QED
        BY <1>1, <2>1, <4>3
    <3>9. a(n).taken = Append(r.taken, entry)
      BY <3>1, <3>6 DEF w
    <3> HIDE DEF entry
    <3>10. /\ a(n).taken \in Seq([field : Fields, bytes : Seq(Byte)])
           /\ Len(a(n).taken) = n
           /\ \A i \in 1 .. n - 1 : a(n).taken[i] = r.taken[i]
           /\ a(n).taken[n] = entry
      <4> DEFINE Takings == [field : Fields, bytes : Seq(Byte)]
                 old == r.taken
                 new == Append(old, entry)
      <4>1. old \in Seq(Takings) /\ entry \in Takings /\ Len(old) = n - 1 /\ n \in Nat
        BY <1>1, <2>1, <3>2, <3>8
      <4> HIDE DEF Takings, old
      <4>2. /\ new \in Seq(Takings) /\ Len(new) = Len(old) + 1
            /\ \A i \in 1 .. Len(old) : new[i] = old[i]
            /\ new[Len(old) + 1] = entry
        BY <4>1, AppendProperties
      <4>3. Len(old) + 1 = n
        BY <4>1
      <4>4. QED
        BY <3>9, <4>1, <4>2, <4>3 DEF Takings, old
    <3>11. \A i \in 1 .. n :
             a(n).taken[i] = [field |-> written[i], bytes |-> SubSeq(inp, L(i - 1) + 1, L(i))]
      <4>1. TAKE i \in 1 .. n
      <4>2. CASE i = n
        BY <3>10, <4>2 DEF entry
      <4>3. CASE i # n
        <5>1. i \in 1 .. n - 1
          BY <2>1, <4>3
        <5>2. QED
          BY <3>2, <3>10, <5>1
      <4>4. QED
        BY <4>2, <4>3
    <3>12. L(n) <= Len(inp)
      BY <3>3, <3>5
    <3>13. QED
      BY <1>5, <3>7, <3>10, <3>11, <3>12
  <2>5. QED
    BY <2>3, <2>4
<1>9. 0 .. N \subseteq T
  <2> HIDE DEF T
  <2> QED
    BY <1>1, <1>7, <1>8, NumbersUpTo
<1>10. QED
  BY <1>9 DEF N, written, a

(* Where all bytes arrived, a slice holds the contents of its field.         *)
LEMMA SlicesHoldContents ==
  ASSUME NEW s \in Suites, NEW t \in Types, NEW snt, SentWell(s, snt), NEW inp \in Seq(Byte),
         IsPrefix(Serialize(snt, Written(s)[t]), inp)
  PROVE  LET L(i) == Len(WrittenUpTo(s, t, snt, i))
             N == Len(Written(s)[t])
         IN  /\ L(N) <= Len(inp)
             /\ \A n \in 1 .. N :
                  /\ L(n) <= Len(inp)
                  /\ SubSeq(inp, L(n - 1) + 1, L(n)) = snt[Written(s)[t][n]]
<1> DEFINE N == Len(Written(s)[t])
           L(i) == Len(WrittenUpTo(s, t, snt, i))
           whole == WrittenUpTo(s, t, snt, N)
           part(n) == snt[Written(s)[t][n]]
           width(n) == FieldWidth(s, Written(s)[t][n])
<1>1. whole = Serialize(snt, Written(s)[t]) /\ N \in Nat
  BY Fronts, FormatFields
<1>2. whole \in Seq(Byte) /\ L(N) = Len(whole)
  <2>1. N \in 0 .. N
    BY <1>1
  <2>2. QED
    BY <2>1, Fronts
<1>3. \A n \in 1 .. N : /\ part(n) \in Seq(Byte) /\ Len(part(n)) = width(n)
                        /\ width(n) \in Nat \ {0}
  BY FormatFields, FieldWidths DEF SentWell
<1>4. /\ \A n \in 0 .. N : L(n) \in Nat /\ L(n) <= L(N)
      /\ \A n \in 1 .. N : L(n) = L(n - 1) + width(n)
      /\ \A n \in 1 .. N : \A i \in 1 .. width(n) : whole[L(n - 1) + i] = part(n)[i]
  BY WrittenStays
<1>5. Len(whole) <= Len(inp) /\ SubSeq(whole, 1, Len(whole)) = SubSeq(inp, 1, Len(whole))
  BY <1>1 DEF IsPrefix
<1> HIDE DEF N, L, whole, part, width
<1>6. \A i \in 1 .. L(N) : inp[i] = whole[i]
  <2> DEFINE m == L(N)
  <2>1. m \in Nat /\ 0 \in Nat /\ 0 <= m /\ m <= Len(inp) /\ m <= Len(whole) /\ 0 + 1 = 1
    BY <1>1, <1>2, <1>4, <1>5
  <2> HIDE DEF m
  <2>2. \A i \in 1 .. m - 0 : SubSeq(inp, 0 + 1, m)[i] = inp[0 + i]
    BY <2>1, Slices
  <2>3. \A i \in 1 .. m - 0 : SubSeq(whole, 0 + 1, m)[i] = whole[0 + i]
    BY <1>2, <2>1, Slices
  <2>4. SubSeq(inp, 0 + 1, m) = SubSeq(whole, 0 + 1, m)
    BY <1>2, <1>5, <2>1 DEF m
  <2>5. ASSUME NEW i \in 1 .. m PROVE inp[i] = whole[i]
    <3>1. i \in 1 .. m - 0 /\ 0 + i = i
      BY <2>1
    <3>2. QED
      BY <2>2, <2>3, <2>4, <3>1
  <2>6. QED
    BY <2>5 DEF m
<1>7. ASSUME NEW n \in 1 .. N
      PROVE  L(n) <= Len(inp) /\ SubSeq(inp, L(n - 1) + 1, L(n)) = part(n)
  <2> DEFINE k == L(n - 1)
             w == width(n)
             slice == SubSeq(inp, k + 1, k + w)
  <2>1. n \in 0 .. N /\ n - 1 \in 0 .. N
    BY <1>1
  <2>2. /\ k \in Nat /\ w \in Nat /\ L(n) = k + w /\ k + w \in Nat /\ k <= k + w
        /\ k + w <= L(N) /\ L(N) \in Nat
    BY <1>1, <1>3, <1>4, <2>1
  <2>3. Len(inp) \in Nat /\ k + w <= Len(inp)
    BY <1>2, <1>5, <2>2, LenProperties
  <2> HIDE DEF k, w
  <2>4. /\ slice \in Seq(Byte) /\ Len(slice) = (k + w) - k
        /\ \A i \in 1 .. (k + w) - k : slice[i] = inp[k + i]
    BY <2>2, <2>3, Slices
  <2> HIDE DEF slice
  <2>5. (k + w) - k = w
    BY <2>2
  <2>6. ASSUME NEW i \in 1 .. w PROVE slice[i] = part(n)[i]
    <3>1. k + i \in 1 .. L(N)
      BY <2>2
    <3>2. slice[i] = inp[k + i] /\ inp[k + i] = whole[k + i]
      BY <1>6, <2>4, <2>5, <3>1
    <3>3. whole[k + i] = part(n)[i]
      BY <1>4 DEF k, w
    <3>4. QED
      BY <3>2, <3>3
  <2>7. part(n) \in Seq(Byte) /\ Len(part(n)) = w
    BY <1>3 DEF w
  <2>8. slice = part(n)
    BY <2>4, <2>5, <2>6, <2>7, SeqEqual
  <2>9. QED
    BY <2>2, <2>3, <2>8 DEF k, slice
<1>8. QED
  BY <1>2, <1>5, <1>7 DEF N, L, part

(* Where all bytes arrived, no field is too short and no curve objects.      *)
LEMMA CompleteIsRead ==
  ASSUME NEW s \in Suites, NEW t \in Types, NEW snt, SentWell(s, snt), NEW inp \in Seq(Byte),
         IsPrefix(Serialize(snt, Written(s)[t]), inp)
  PROVE  \A n \in 0 .. Len(Written(s)[t]) : After(s, t, inp)[n].outcome = "read"
<1> DEFINE written == Written(s)[t]
           N == Len(written)
           read == Read(s)[t]
           L(n) == Len(WrittenUpTo(s, t, snt, n))
           width(n) == FieldWidth(s, written[n])
           a(n) == After(s, t, inp)[n]
           T == {n \in 0 .. N : a(n).outcome = "read"}
<1>1. /\ N \in Nat /\ Len(read) = N
      /\ \A n \in 1 .. N : /\ written[n] \in Fields /\ read[n] \in Entry
                           /\ read[n].field = written[n]
                           /\ written[n] \in Masked => read[n].how = "array"
  BY FormatFields
<1>2. \A n \in 1 .. N : width(n) \in Nat \ {0} /\ L(n) = L(n - 1) + width(n)
  BY <1>1, FieldWidths, WrittenStays
<1>3. \A n \in 0 .. N : L(n) \in Nat
  BY WrittenStays
<1>4. /\ a(0) = [rest |-> inp, taken |-> <<>>, outcome |-> "read"]
      /\ \A n \in 1 .. N : a(n) = TakeField(s, a(n - 1), read[n])
  <2> DEFINE after == After(s, t, inp)
             start == [rest |-> inp, taken |-> <<>>, outcome |-> "read"]
  <2>1. after = [n \in 0 .. N |-> IF n = 0 THEN start ELSE TakeField(s, after[n - 1], read[n])]
    BY <1>1, AfterFields
  <2> HIDE DEF after, start, N, read
  <2>2. after[0] = start /\ \A n \in 1 .. N : after[n] = TakeField(s, after[n - 1], read[n])
    BY <1>1, <2>1
  <2>3. QED
    BY <2>2 DEF after, start
<1>5. \A n \in 1 .. N : L(n) <= Len(inp) /\ SubSeq(inp, L(n - 1) + 1, L(n)) = snt[written[n]]
  BY SlicesHoldContents
<1>6. \A n \in 0 .. N : /\ IsReader(a(n))
                        /\ a(n).outcome = "read" => /\ L(n) <= Len(inp)
                                                    /\ a(n).rest = SubSeq(inp, L(n) + 1, Len(inp))
  BY ReadInSlices DEF Sliced
<1>7. \A n \in 1 .. N : written[n] \notin Masked => ToSet(snt[written[n]]) # {0}
  BY <1>1 DEF SentWell
<1>8. Len(inp) \in Nat
  BY LenProperties
<1> HIDE DEF written, N, read, L, width, a
<1>9. 0 \in T
  BY <1>1, <1>4
<1>10. ASSUME NEW n \in 0 .. N, n # 0, n - 1 \in T
       PROVE  n \in T
  <2> DEFINE r == a(n - 1)
             e == read[n]
             k == L(n - 1)
             w == width(n)
             front == SubSeq(r.rest, 1, w)
  <2>1. /\ n \in 1 .. N /\ n - 1 \in 0 .. N /\ e \in Entry /\ r.outcome = "read" /\ IsReader(r)
    BY <1>1, <1>6, <1>10
  <2>2. a(n) = TakeField(s, r, e) /\ FieldWidth(s, e.field) = w /\ e.field = written[n]
    BY <1>1, <1>4, <2>1 DEF width
  <2>3. r.rest = SubSeq(inp, k + 1, Len(inp))
    BY <1>6, <2>1
  <2>4. k \in Nat /\ w \in Nat /\ L(n) = k + w /\ k + w <= Len(inp)
    BY <1>2, <1>3, <1>5, <2>1
  <2>5. SubSeq(inp, k + 1, k + w) = snt[written[n]]
    BY <1>5, <2>1, <2>4
  <2> HIDE DEF r, e, k, w
  <2>6. Len(r.rest) = Len(inp) - k /\ front = SubSeq(inp, k + 1, k + w)
    <3>1. 0 \in Nat /\ 0 <= w /\ 0 + 1 = 1 /\ (k + 0) + 1 = k + 1
      BY <2>4
    <3>2. /\ Len(SubSeq(inp, k + 1, Len(inp))) = Len(inp) - k
          /\ SubSeq(SubSeq(inp, k + 1, Len(inp)), 0 + 1, w) = SubSeq(inp, (k + 0) + 1, k + w)
      BY <2>4, <3>1, SliceOfSlice
    <3>3. QED
      BY <2>3, <3>1, <3>2
  <2>7. ~(w > Len(r.rest))
    BY <1>8, <2>4, <2>6
  <2>8. ~Refused(s, e, front)
    BY <1>1, <1>7, <2>1, <2>2, <2>5, <2>6 DEF Refused, e
  <2>9. a(n).outcome = "read"
    <3>1. /\ ~(FieldWidth(s, e.field) > Len(r.rest))
          /\ ~Refused(s, e, SubSeq(r.rest, 1, FieldWidth(s, e.field)))
      BY <2>2, <2>7, <2>8
    <3> HIDE DEF front
    <3>2. TakeField(s, r, e).outcome = "read"
      BY <2>1, <3>1, TakeFieldReads
    <3>3. QED
      BY <2>2, <3>2
  <2>10. QED
    BY <2>9
<1>11. 0 .. N \subseteq T
  <2> HIDE DEF T
  <2> QED
    BY <1>1, <1>9, <1>10, NumbersUpTo
<1>12. QED
  BY <1>11 DEF N, written, a

-------------------------------------------------------------------------------
(* The states: what was sent, what arrived, and what came of reading it.     *)

WInv ==
  /\ suite \in Suites /\ type \in Types
  /\ \E salt \in Salts : sent = Contents(suite, salt)
  /\ input \in Seq(Byte)
  /\ LET r == Deserialize(suite, type, input)
     IN  \/ reader = NotRead
         \/ reader = r
         \/ /\ Last(Read(suite)[type]).how \in {"tail", "rest"}
            /\ r.outcome = "read" /\ r.rest # <<>>
            /\ reader = [r EXCEPT !.outcome = "LibraryError"]
  /\ \/ finish = NotFinished
     \/ /\ type = "CredentialResponse" /\ reader.outcome = "read"
        /\ \E context \in Contexts, client, server \in Ids :
             finish = FinishWith(context, [client |-> client, server |-> server])

(* However it is damaged, the input is a string of bytes.                    *)
LEMMA ArrivalsAreBytes ==
  ASSUME NEW bytes \in Seq(Byte), NEW inp \in Arrivals(bytes)
  PROVE  inp \in Seq(Byte)
<1>1. /\ Len(bytes) \in Nat /\ DOMAIN bytes = 1 .. Len(bytes)
      /\ \A i \in 1 .. Len(bytes) : bytes[i] \in Byte
  BY LenProperties
<1>2. 0 \in Byte
  BY WireAssumption DEF Byte
<1>3. CASE inp \in Prefixes(bytes)
  <2>1. PICK l \in 0 .. Len(bytes) : inp = SubSeq(bytes, 1, l)
    BY <1>3 DEF Prefixes
  <2>2. 1 \in Int /\ l \in Int /\ \A i \in 1 .. l : bytes[i] \in Byte
    BY <1>1
  <2>3. QED
    BY <2>1, <2>2, SubSeqProperties
<1>4. CASE \E extra \in Extras : inp = bytes \o extra
  BY <1>4, WireAssumption, ConcatProperties
<1>5. CASE \E n \in DOMAIN bytes :
             \/ inp = [i \in DOMAIN bytes |-> IF i < n THEN 0 ELSE bytes[i]]
             \/ inp = [i \in DOMAIN bytes |-> IF i > n THEN 0 ELSE bytes[i]]
  <2>1. inp \in [1 .. Len(bytes) -> Byte]
    BY <1>1, <1>2, <1>5
  <2>2. QED
    BY <1>1, <2>1
<1>6. QED
  BY <1>3, <1>4, <1>5 DEF Arrivals

(* Nothing is read yet.                                                      *)
LEMMA WInvInit == Init => WInv
<1>1. SUFFICES ASSUME Init PROVE WInv
  OBVIOUS
<1>2. /\ suite \in Suites /\ type \in Types /\ reader = NotRead /\ finish = NotFinished
      /\ \E salt \in Salts : sent = Contents(suite, salt)
      /\ input \in Arrivals(Serialize(sent, Written(suite)[type]))
  BY <1>1 DEF Init
<1>3. SentWell(suite, sent)
  BY <1>2, SentFields
<1>4. Serialize(sent, Written(suite)[type]) \in Seq(Byte)
  <2>1. Len(Written(suite)[type]) \in 0 .. Len(Written(suite)[type])
    BY <1>2, FormatFields
  <2>2. QED
    BY <1>2, <1>3, <2>1, Fronts
<1>5. input \in Seq(Byte)
  BY <1>2, <1>4, ArrivalsAreBytes
<1>6. QED
  BY <1>2, <1>5 DEF WInv

(* deserialize() and ClientLogin::finish leave what arrived as it is.        *)
LEMMA WInvNext == WInv /\ [Next]_vars => WInv'
<1>1. SUFFICES ASSUME WInv, [Next]_vars PROVE WInv'
  OBVIOUS
<1>2. CASE deserialize
  <2>1. /\ reader.outcome = "received" /\ reader' = Deserialize(suite, type, input)
        /\ UNCHANGED <<suite, type, sent, input, finish>>
    BY <1>2 DEF deserialize
  <2>2. finish = NotFinished
    BY <1>1, <2>1 DEF WInv
  <2>3. QED
    BY <1>1, <2>1, <2>2 DEF WInv
<1>3. CASE deserialize_refuses_rest
  <2> DEFINE r == Deserialize(suite, type, input)
  <2>1. /\ reader.outcome = "received" /\ reader' = [r EXCEPT !.outcome = "LibraryError"]
        /\ r.outcome = "read" /\ r.rest # <<>> /\ Last(Read(suite)[type]).how \in {"tail", "rest"}
        /\ UNCHANGED <<suite, type, sent, input, finish>>
    BY <1>3 DEF deserialize_refuses_rest
  <2>2. finish = NotFinished
    BY <1>1, <2>1 DEF WInv
  <2>3. QED
    BY <1>1, <2>1, <2>2 DEF WInv
<1>4. CASE client_login_finish
  <2>1. /\ type = "CredentialResponse" /\ reader.outcome = "read"
        /\ UNCHANGED <<suite, type, sent, input, reader>>
    BY <1>4 DEF client_login_finish
  <2>2. PICK context \in Contexts, client \in Ids, server \in Ids :
          finish' = FinishWith(context, [client |-> client, server |-> server])
    BY <1>4 DEF client_login_finish
  <2>3. FinishWith(context, [client |-> client, server |-> server])'
          = FinishWith(context, [client |-> client, server |-> server])
    BY <2>1 DEF FinishWith, ClientView, Hashed
  <2>4. finish' = FinishWith(context, [client |-> client, server |-> server])'
    BY <2>2, <2>3
  <2>5. QED
    BY <1>1, <2>1, <2>4 DEF WInv
<1>5. CASE UNCHANGED vars
  <2>1. UNCHANGED <<suite, type, sent, input, reader, finish>>
    BY <1>5 DEF vars
  <2>2. \A context, client, server :
          FinishWith(context, [client |-> client, server |-> server])'
            = FinishWith(context, [client |-> client, server |-> server])
    BY <2>1 DEF FinishWith, ClientView, Hashed
  <2>3. QED
    BY <1>1, <2>1, <2>2 DEF WInv
<1>6. QED
  BY <1>1, <1>2, <1>3, <1>4, <1>5 DEF Next

(* The states of every run.                                                  *)
LEMMA WInvAlways == Spec => []WInv
  BY WInvInit, WInvNext, PTL DEF Spec

(* What the last of the fields leaves behind.                                *)
LEMMA ReadWhole ==
  ASSUME WInv
  PROVE  LET N == Len(Written(suite)[type])
             r == Deserialize(suite, type, input)
         IN  /\ SentWell(suite, sent) /\ N \in Nat
             /\ IsReader(r) /\ Len(Whole) \in Nat /\ Whole \in Seq(Byte)
             /\ Whole = WrittenUpTo(suite, type, sent, N)
             /\ r.outcome = "read" => Sliced(suite, type, sent, input, N, r)
             /\ Complete => r.outcome = "read"
<1> DEFINE N == Len(Written(suite)[type])
           r == Deserialize(suite, type, input)
<1>1. suite \in Suites /\ type \in Types /\ input \in Seq(Byte) /\ SentWell(suite, sent)
  BY SentFields DEF WInv
<1>2. N \in Nat /\ N \in 0 .. N /\ Len(Read(suite)[type]) = N
  BY <1>1, FormatFields
<1>3. r = After(suite, type, input)[N]
  BY <1>2 DEF Deserialize, After
<1>4. Whole = WrittenUpTo(suite, type, sent, N) /\ Whole \in Seq(Byte)
  BY <1>1, <1>2, Fronts DEF Whole
<1>5. Len(Whole) \in Nat
  BY <1>4, LenProperties
<1> HIDE DEF r
<1>6. IsReader(r) /\ (r.outcome = "read" => Sliced(suite, type, sent, input, N, r))
  BY <1>1, <1>2, <1>3, ReadInSlices
<1>7. Complete => r.outcome = "read"
  BY <1>1, <1>2, <1>3, CompleteIsRead DEF Complete, Whole
<1>8. QED
  BY <1>1, <1>2, <1>4, <1>5, <1>6, <1>7 DEF r

(* What was read was taken by deserialize(), and voprf did not object.       *)
LEMMA ReaderDeserialized ==
  ASSUME WInv, reader.outcome = "read"
  PROVE  reader = Deserialize(suite, type, input)
<1> DEFINE r == Deserialize(suite, type, input)
<1>1. reader # NotRead
  BY DEF NotRead
<1>2. IsReader(r)
  BY ReadWhole
<1> HIDE DEF r
<1>3. reader # [r EXCEPT !.outcome = "LibraryError"]
  <2>1. [r EXCEPT !.outcome = "LibraryError"].outcome = "LibraryError"
    BY <1>2 DEF IsReader
  <2>2. QED
    BY <2>1
<1>4. QED
  BY <1>1, <1>3 DEF WInv, r

(* However an input was cut, it is not read when a byte of the format is     *)
(* missing: deserialize() makes up no field, whatever the widths are.        *)
THEOREM ShortInputsRefused == Spec => []ShortInputRefused
<1>1. WInv => ShortInputRefused
  <2>1. SUFFICES ASSUME WInv, reader.outcome = "read"
                 PROVE  ~(Len(input) < Len(Whole))
    BY DEF ShortInputRefused
  <2>2. reader = Deserialize(suite, type, input)
    BY <2>1, ReaderDeserialized
  <2>3. Len(Whole) <= Len(input)
    BY <2>1, <2>2, ReadWhole DEF Sliced
  <2>4. Len(input) \in Nat /\ Len(Whole) \in Nat
    BY <2>1, ReadWhole, LenProperties DEF WInv
  <2>5. QED
    BY <2>3, <2>4
<1>2. QED
  BY <1>1, WInvAlways, PTL

(* What was taken is what was sent, in every state that is reached.          *)
LEMMA ReadBackHolds == WInv => ReadBack
<1>1. SUFFICES ASSUME WInv, Complete, reader # NotRead
               PROVE  ReadBack
  BY DEF ReadBack
<1> DEFINE N == Len(Written(suite)[type])
           written == Written(suite)[type]
           L(i) == Len(WrittenUpTo(suite, type, sent, i))
           r == Deserialize(suite, type, input)
<1>2. /\ SentWell(suite, sent) /\ N \in Nat /\ IsReader(r) /\ Whole \in Seq(Byte)
      /\ Len(Whole) = L(N) /\ L(N) \in Nat
      /\ r.outcome = "read" /\ Sliced(suite, type, sent, input, N, r)
  BY <1>1, ReadWhole
<1>3. suite \in Suites /\ type \in Types /\ input \in Seq(Byte) /\ Len(input) \in Nat
  BY <1>1, LenProperties DEF WInv
<1>4. DOMAIN written = 1 .. N /\ \A i \in 1 .. N : written[i] \in Fields
  BY <1>3, FormatFields
<1>5. written \in Seq(Fields)
  BY <1>3, ReadsAll DEF Reads
<1>6. \A i \in 1 .. N : SubSeq(input, L(i - 1) + 1, L(i)) = sent[written[i]]
  BY <1>1, <1>2, <1>3, SlicesHoldContents DEF Complete, Whole
<1>7. /\ r.rest = SubSeq(input, L(N) + 1, Len(input)) /\ L(N) <= Len(input)
      /\ r.taken \in Seq([field : Fields, bytes : Seq(Byte)]) /\ Len(r.taken) = N
      /\ \A i \in 1 .. N :
           r.taken[i] = [field |-> written[i], bytes |-> SubSeq(input, L(i - 1) + 1, L(i))]
  BY <1>2 DEF Sliced
<1> HIDE DEF N, L, r, written
<1>8. DOMAIN r.taken = 1 .. N
  BY <1>7, LenProperties
<1>9. \A i \in 1 .. N : r.taken[i] = [field |-> written[i], bytes |-> sent[written[i]]]
  BY <1>6, <1>7
<1>parts. \A i \in 1 .. N : r.taken[i].field = written[i] /\ r.taken[i].bytes = sent[written[i]]
  <2> DEFINE taken == r.taken
  <2>1. TAKE i \in 1 .. N
  <2>2. taken[i] = [field |-> written[i], bytes |-> sent[written[i]]]
    BY <1>9
  <2> HIDE DEF taken
  <2>3. taken[i].field = written[i] /\ taken[i].bytes = sent[written[i]]
    BY <2>2
  <2>4. QED
    BY <2>3 DEF taken
<1>10. [i \in DOMAIN r.taken |-> r.taken[i].field] = written
  <2>1. written = [i \in 1 .. N |-> written[i]]
    BY <1>4, <1>5
  <2>2. QED
    BY <1>8, <1>parts, <2>1
<1>11. \A i \in DOMAIN r.taken : r.taken[i].bytes = sent[r.taken[i].field]
  BY <1>8, <1>parts
<1>12. Whole \o r.rest = input
  <2>1. SubSeq(input, 1, L(N)) = Whole
    <3>1. SubSeq(Whole, 1, Len(Whole)) = SubSeq(input, 1, Len(Whole))
      BY <1>1 DEF Complete, IsPrefix
    <3>2. SubSeq(Whole, 1, Len(Whole)) = Whole
      BY <1>2, SubSeqFull
    <3>3. QED
      BY <1>2, <3>1, <3>2
  <2>2. SubSeq(input, 1, L(N)) \o SubSeq(input, L(N) + 1, Len(input)) = SubSeq(input, 1, Len(input))
    <3>1. /\ 1 \in 1 .. Len(input) + 1 /\ L(N) \in 1 - 1 .. Len(input)
          /\ Len(input) \in L(N) .. Len(input)
      BY <1>2, <1>3, <1>7
    <3>2. QED
      BY <1>3, <3>1, ConcatAdjacentSubSeq
  <2>3. SubSeq(input, 1, Len(input)) = input
    BY <1>3, SubSeqFull
  <2>4. QED
    BY <1>7, <2>1, <2>2, <2>3
<1>13. CASE reader = r
  BY <1>2, <1>10, <1>11, <1>12, <1>13 DEF ReadBack, written
<1>14. CASE /\ Last(Read(suite)[type]).how \in {"tail", "rest"} /\ r.rest # <<>>
            /\ reader = [r EXCEPT !.outcome = "LibraryError"]
  <2>1. reader.outcome = "LibraryError"
    BY <1>2, <1>14 DEF IsReader
  <2>2. input # Whole
    <3>1. SUFFICES ASSUME input = Whole PROVE FALSE
      OBVIOUS
    <3>2. Len(input) < L(N) + 1
      BY <1>2, <1>3, <3>1
    <3>3. L(N) + 1 \in Int /\ Len(input) \in Int
      BY <1>2, <1>3
    <3>4. SubSeq(input, L(N) + 1, Len(input)) = <<>>
      BY <3>2, <3>3, SubSeqEmpty
    <3>5. QED
      BY <1>7, <1>14, <3>4
  <2>3. QED
    BY <1>14, <2>1, <2>2 DEF ReadBack
<1>15. QED
  BY <1>1, <1>13, <1>14 DEF WInv, r

(* What serialize() writes, deserialize() reads: for every type, suite and   *)
(* width, and whatever stands behind it.                                     *)
THEOREM WrittenIsReadBack == Spec => []ReadBack
  BY ReadBackHolds, WInvAlways, PTL

-------------------------------------------------------------------------------
(* What the client makes of a response that arrived whole.                   *)

(* A field that was taken is found by its name.                              *)
LEMMA BytesByName ==
  ASSUME NEW N \in Nat, NEW taken, DOMAIN taken = 1 .. N,
         NEW f, NEW m \in 1 .. N, taken[m].field = f
  PROVE  \E i \in 1 .. N : taken[i].field = f /\ Bytes(taken, f) = taken[i].bytes
<1> DEFINE places == {i \in 1 .. N : taken[i].field = f}
           behind == {N - i : i \in places}
<1>1. \E i \in places : \A j \in places : j <= i
  <2>1. behind \subseteq Nat /\ N - m \in behind
    OBVIOUS
  <2> HIDE DEF behind
  <2>2. PICK least \in behind : \A other \in behind : least <= other
    BY <2>1, LeastNumber
  <2>3. PICK i \in places : least = N - i
    BY DEF behind
  <2>4. ASSUME NEW j \in places PROVE j <= i
    <3>1. N - j \in behind
      BY DEF behind
    <3>2. N - i <= N - j
      BY <2>2, <2>3, <3>1
    <3>3. QED
      BY <3>2
  <2>5. QED
    BY <2>4
<1>2. \E i \in DOMAIN taken :
        taken[i].field = f /\ \A j \in DOMAIN taken : taken[j].field = f => j <= i
  BY <1>1
<1>3. PICK i \in DOMAIN taken : taken[i].field = f /\ Bytes(taken, f) = taken[i].bytes
  BY <1>2 DEF Bytes
<1>4. QED
  BY <1>3

(* What is written behind something else can be cut off again.               *)
LEMMA CutApart ==
  ASSUME NEW a \in Seq(Byte), NEW b \in Seq(Byte)
  PROVE  /\ SubSeq(a \o b, 1, Len(a)) = a
         /\ SubSeq(a \o b, Len(a) + 1, Len(a \o b)) = b
<1> DEFINE x == a \o b
           k == Len(a)
           w == Len(b)
           first == SubSeq(x, 0 + 1, k)
           second == SubSeq(x, k + 1, k + w)
<1>1. k \in Nat /\ w \in Nat
  BY LenProperties
<1>2. /\ x \in Seq(Byte) /\ Len(x) = k + w
      /\ \A i \in 1 .. k + w : x[i] = IF i <= k THEN a[i] ELSE b[i - k]
  BY ConcatProperties
<1> HIDE DEF x, k, w
<1>3. /\ first \in Seq(Byte) /\ Len(first) = k - 0
      /\ \A i \in 1 .. k - 0 : first[i] = x[0 + i]
  <2>1. 0 \in Nat /\ 0 <= k /\ k <= Len(x)
    BY <1>1, <1>2
  <2>2. QED
    BY <1>1, <1>2, <2>1, Slices
<1>4. /\ second \in Seq(Byte) /\ Len(second) = (k + w) - k
      /\ \A i \in 1 .. (k + w) - k : second[i] = x[k + i]
  <2>1. k + w \in Nat /\ k <= k + w /\ k + w <= Len(x)
    BY <1>1, <1>2
  <2>2. QED
    BY <1>1, <1>2, <2>1, Slices
<1> HIDE DEF first, second
<1>5. first = a
  <2>1. Len(first) = Len(a)
    BY <1>1, <1>3 DEF k
  <2>2. ASSUME NEW i \in 1 .. Len(first) PROVE first[i] = a[i]
    <3>1. i \in 1 .. k - 0 /\ 0 + i = i /\ i \in 1 .. k + w /\ i <= k
      BY <1>1, <1>3
    <3>2. QED
      BY <1>2, <1>3, <3>1
  <2>3. QED
    BY <1>3, <2>1, <2>2, SeqEqual
<1>6. second = b
  <2>1. Len(second) = Len(b)
    BY <1>1, <1>4 DEF w
  <2>2. ASSUME NEW i \in 1 .. Len(second) PROVE second[i] = b[i]
    <3>1. i \in 1 .. (k + w) - k /\ k + i \in 1 .. k + w /\ ~(k + i <= k) /\ (k + i) - k = i
      BY <1>1, <1>4
    <3>2. QED
      BY <1>2, <1>4, <3>1
  <2>3. QED
    BY <1>4, <2>1, <2>2, SeqEqual
<1>7. 0 + 1 = 1
  OBVIOUS
<1>8. QED
  BY <1>2, <1>5, <1>6, <1>7 DEF first, second, x, k

(* The masked response of the server, in what was sent.                      *)
LEMMA SentMasked ==
  ASSUME NEW s \in Suites, NEW salt \in Salts, NEW snt, snt = Contents(s, salt)
  PROVE  LET pad == Pad(snt["evaluation_element"], snt["masking_nonce"])
         IN  /\ snt = [f \in Fields |-> snt[f]]
             /\ snt["evaluation_element"] # snt["blinded_element"]
             /\ pad \in [1 .. Width["nonce"] + Width["oprf_hash"] + Width["static_pk"] -> Byte]
             /\ snt["masked_nonce"] \o snt["masked_hash"] \o snt["masked_pk"]
                  = Xor(pad, snt["server_s_pk"] \o (snt["envelope_nonce"] \o snt["envelope_hmac"]))
<1> DEFINE plain  == [f \in Fields |-> Content(s, salt, f)]
           pad    == Pad(plain["evaluation_element"], plain["masking_nonce"])
           pk     == plain["server_s_pk"]
           env    == plain["envelope_nonce"] \o plain["envelope_hmac"]
           masked == MaskResponse(pad, pk, env)
           names  == {"evaluation_element", "masking_nonce", "server_s_pk", "envelope_nonce",
                      "envelope_hmac", "blinded_element"}
<1>1. snt = [f \in Fields |-> IF f \in DOMAIN masked THEN masked[f] ELSE plain[f]]
  BY DEF Contents
<1>2. names \subseteq Fields \ Masked /\ Masked \subseteq Fields
  BY PlainNames, FieldNames DEF Masked
<1>3. \A f \in names : plain[f] = Content(s, salt, f)
  BY <1>2
<1>4. /\ plain["evaluation_element"] # plain["blinded_element"]
      /\ pad \in [1 .. Width["nonce"] + Width["oprf_hash"] + Width["static_pk"] -> Byte]
  BY <1>3, ContentAssumption
<1>5. \A f \in names : plain[f] \in Seq(Byte) /\ Len(plain[f]) = FieldWidth(s, f)
  <2>1. TAKE f \in names
  <2>2. /\ f \in Fields /\ FieldWidth(s, f) \in Nat
        /\ Content(s, salt, f) \in [1 .. FieldWidth(s, f) -> Byte]
    BY <1>2, FieldWidths, ContentAssumption
  <2>3. QED
    BY <1>3, <2>2
<1>6. /\ FieldWidth(s, "envelope_nonce") = Width["nonce"]
      /\ FieldWidth(s, "envelope_hmac") = Width["oprf_hash"]
      /\ FieldWidth(s, "server_s_pk") = Width["static_pk"]
  BY MaskedKinds DEF FieldWidth
<1> HIDE DEF plain, pad, masked
<1>7. pk \in Seq(Byte) /\ Len(pk) = Width["static_pk"]
  BY <1>5, <1>6
<1>8. env \in Seq(Byte) /\ Len(env) = Width["nonce"] + Width["oprf_hash"]
  <2>1. /\ plain["envelope_nonce"] \in Seq(Byte) /\ Len(plain["envelope_nonce"]) = Width["nonce"]
        /\ plain["envelope_hmac"] \in Seq(Byte) /\ Len(plain["envelope_hmac"]) = Width["oprf_hash"]
    BY <1>5, <1>6
  <2>2. /\ env \in Seq(Byte)
        /\ Len(env) = Len(plain["envelope_nonce"]) + Len(plain["envelope_hmac"])
    BY <2>1, ConcatProperties
  <2> HIDE DEF env
  <2>3. QED
    BY <2>1, <2>2
<1>9. /\ DOMAIN masked = Masked
      /\ masked["masked_nonce"] \o masked["masked_hash"] \o masked["masked_pk"]
           = Xor(pad, pk \o env)
  <2> HIDE DEF pk, env
  <2>1. masked = MaskResponse(pad, pk, env)
    BY DEF masked
  <2>2. QED
    BY <1>4, <1>7, <1>8, <2>1, MaskedParts
<1>10. /\ snt["masked_nonce"] = masked["masked_nonce"]
       /\ snt["masked_hash"] = masked["masked_hash"] /\ snt["masked_pk"] = masked["masked_pk"]
  BY <1>1, <1>2, <1>9 DEF Masked
<1>11. \A f \in names : snt[f] = plain[f]
  BY <1>1, <1>2, <1>9
<1>12. snt = [f \in Fields |-> snt[f]]
  BY <1>1
<1> DEFINE x == masked["masked_nonce"] \o masked["masked_hash"] \o masked["masked_pk"]
<1>13. snt["masked_nonce"] \o snt["masked_hash"] \o snt["masked_pk"] = x
  BY <1>10
<1>14. /\ Pad(snt["evaluation_element"], snt["masking_nonce"]) = pad
       /\ snt["server_s_pk"] \o (snt["envelope_nonce"] \o snt["envelope_hmac"]) = pk \o env
       /\ snt["evaluation_element"] # snt["blinded_element"]
  BY <1>4, <1>11 DEF pad
<1>15. QED
  BY <1>4, <1>9, <1>12, <1>13, <1>14

(* The client sees what the server sent.                                     *)
LEMMA ClientSees ==
  ASSUME WInv, Complete, reader.outcome = "read"
  PROVE  ClientView = sent
<1> DEFINE N == Len(Written(suite)[type])
           written == Written(suite)[type]
           taken == reader.taken
           known == {taken[i].field : i \in DOMAIN taken}
<1>1. suite \in Suites /\ type \in Types
  BY DEF WInv
<1>2. reader # NotRead
  BY DEF NotRead
<1>3. /\ [i \in DOMAIN taken |-> taken[i].field] = written
      /\ \A i \in DOMAIN taken : taken[i].bytes = sent[taken[i].field]
  BY <1>2, ReadBackHolds DEF ReadBack
<1>4. N \in Nat /\ DOMAIN written = 1 .. N
  BY <1>1, FormatFields
<1> HIDE DEF N, written, taken
<1>5. DOMAIN taken = 1 .. N
  BY <1>3, <1>4
<1>6. ASSUME NEW f \in known PROVE Bytes(taken, f) = sent[f]
  <2>1. PICK m \in 1 .. N : taken[m].field = f
    BY <1>5
  <2>2. PICK i \in 1 .. N : taken[i].field = f /\ Bytes(taken, f) = taken[i].bytes
    BY <1>4, <1>5, <2>1, BytesByName
  <2>3. QED
    BY <1>3, <1>5, <2>2
<1>7. ClientView = [f \in Fields |-> IF f \in known THEN Bytes(taken, f) ELSE sent[f]]
  BY DEF ClientView, taken
<1>8. ClientView = [f \in Fields |-> sent[f]]
  <2> HIDE DEF known
  <2> QED
    BY <1>6, <1>7
<1>9. sent = [f \in Fields |-> sent[f]]
  BY SentMasked DEF WInv
<1>10. QED
  BY <1>8, <1>9

(* It finds the server's key and the envelope under the mask.                *)
LEMMA ClientUnmasks ==
  ASSUME NEW s \in Suites, NEW salt \in Salts, NEW snt, snt = Contents(s, salt)
  PROVE  LET opened == UnmaskResponse(s, Pad(snt["evaluation_element"], snt["masking_nonce"]),
                         snt["masked_nonce"] \o snt["masked_hash"] \o snt["masked_pk"])
         IN  /\ DOMAIN opened = {"server_s_pk", "envelope_nonce", "envelope_hmac"}
             /\ opened.server_s_pk = snt["server_s_pk"]
             /\ \A g \in DOMAIN opened : opened[g] = snt[g]
<1> DEFINE pad == Pad(snt["evaluation_element"], snt["masking_nonce"])
           cover == snt["masked_nonce"] \o snt["masked_hash"] \o snt["masked_pk"]
           pk == snt["server_s_pk"]
           nonce == snt["envelope_nonce"]
           hmac == snt["envelope_hmac"]
           env == nonce \o hmac
           all == pk \o env
           opened == UnmaskResponse(s, pad, cover)
           W == Width["nonce"] + Width["oprf_hash"] + Width["static_pk"]
<1>1. pad \in [1 .. W -> Byte] /\ cover = Xor(pad, all)
  BY SentMasked
<1>2. /\ pk \in Seq(Byte) /\ Len(pk) = Width["static_pk"]
      /\ nonce \in Seq(Byte) /\ Len(nonce) = Width["nonce"]
      /\ hmac \in Seq(Byte) /\ Len(hmac) = Width["oprf_hash"]
      /\ FieldWidth(s, "server_s_pk") = Width["static_pk"]
  <2>1. SentWell(s, snt)
    BY SentFields
  <2>2. {"server_s_pk", "envelope_nonce", "envelope_hmac"} \subseteq Fields
    BY FieldNames
  <2>3. /\ FieldWidth(s, "envelope_nonce") = Width["nonce"]
        /\ FieldWidth(s, "envelope_hmac") = Width["oprf_hash"]
        /\ FieldWidth(s, "server_s_pk") = Width["static_pk"]
    BY MaskedKinds DEF FieldWidth
  <2>4. QED
    BY <2>1, <2>2, <2>3 DEF SentWell
<1>3. opened = LET x  == Xor(pad, cover)
                   p  == TakeArray(x, FieldWidth(s, "server_s_pk"))
                   n  == TakeArray(p.back, Width["nonce"])
               IN  [server_s_pk |-> p.front, envelope_nonce |-> n.front, envelope_hmac |-> n.back]
  BY DEF UnmaskResponse
<1> HIDE DEF pk, nonce, hmac, pad, cover, opened
<1>4. env \in Seq(Byte) /\ Len(env) = Len(nonce) + Len(hmac)
  BY <1>2, ConcatProperties
<1> HIDE DEF env
<1>5. all \in Seq(Byte) /\ Len(all) = Len(pk) + Len(env)
  BY <1>2, <1>4, ConcatProperties
<1>6. W \in Nat /\ Len(all) = W
  BY <1>2, <1>4, <1>5, MaskWidths
<1> HIDE DEF all, W
<1>7. Xor(pad, cover) = all
  BY <1>1, <1>5, <1>6, XorBytes
<1>8. /\ SubSeq(all, 1, Width["static_pk"]) = pk
      /\ SubSeq(all, Width["static_pk"] + 1, Len(all)) = env
  <2>1. pk \in Seq(Byte) /\ env \in Seq(Byte)
    BY <1>2, <1>4
  <2>2. /\ SubSeq(pk \o env, 1, Len(pk)) = pk
        /\ SubSeq(pk \o env, Len(pk) + 1, Len(pk \o env)) = env
    BY <2>1, CutApart
  <2>3. QED
    BY <1>2, <2>2 DEF all
<1>9. /\ SubSeq(env, 1, Width["nonce"]) = nonce
      /\ SubSeq(env, Width["nonce"] + 1, Len(env)) = hmac
  BY <1>2, CutApart DEF env
<1>10. opened = [server_s_pk |-> pk, envelope_nonce |-> nonce, envelope_hmac |-> hmac]
  BY <1>2, <1>3, <1>7, <1>8, <1>9 DEF TakeArray
<1>11. /\ opened.server_s_pk = pk /\ opened["server_s_pk"] = pk
       /\ opened["envelope_nonce"] = nonce /\ opened["envelope_hmac"] = hmac
       /\ DOMAIN opened = {"server_s_pk", "envelope_nonce", "envelope_hmac"}
  BY <1>10
<1>12. \A g \in DOMAIN opened : opened[g] = snt[g]
  BY <1>11 DEF pk, nonce, hmac
<1>13. QED
  BY <1>11, <1>12 DEF opened, pad, cover, pk

(* A prefix holds the length of what is not longer than two bytes can say.   *)
LEMMA PrefixedOk ==
  ASSUME NEW bytes
  PROVE  /\ Prefixed(bytes).ok <=> ~(Len(bytes) >= Base * Base)
         /\ Prefixed(bytes).ok \in BOOLEAN
<1> DEFINE n == Len(bytes)
           length == I2osp2(n)
<1>1. CASE n >= Base * Base
  <2>1. length = [ok |-> FALSE]
    BY <1>1 DEF I2osp2, SerializationError
  <2>2. Prefixed(bytes) = length
    BY <2>1 DEF Prefixed
  <2>3. QED
    BY <1>1, <2>1, <2>2
<1>2. CASE ~(n >= Base * Base)
  <2> DEFINE val == <<n \div Base, n % Base>>
             both == val \o bytes
  <2>1. length = [ok |-> TRUE, val |-> val]
    BY <1>2 DEF I2osp2, Ok
  <2> HIDE DEF val
  <2>2. length.ok = TRUE /\ length.val = val
    BY <2>1
  <2>3. Prefixed(bytes) = [ok |-> TRUE, val |-> both]
    BY <2>2 DEF Prefixed, Ok
  <2> HIDE DEF both
  <2>4. Prefixed(bytes).ok = TRUE
    BY <2>3
  <2>5. QED
    BY <1>2, <2>4
<1>3. QED
  BY <1>1, <1>2

(* From a response that arrived whole the client takes the server's key and  *)
(* the envelope, and it hashes what the server hashed; only a parameter that *)
(* is too long for its prefix stops it.                                      *)
THEOREM ResponsesUnderstood == Spec => []ResponseUnderstood
<1>1. WInv => ResponseUnderstood
  <2>1. SUFFICES ASSUME WInv, Complete, finish # NotFinished
                 PROVE  ResponseUnderstood
    BY DEF ResponseUnderstood
  <2>2. reader.outcome = "read" /\ suite \in Suites
    BY <2>1 DEF WInv
  <2>3. PICK salt \in Salts : sent = Contents(suite, salt)
    BY <2>1 DEF WInv
  <2>4. PICK context \in Contexts, client_id \in Ids, server_id \in Ids :
          finish = FinishWith(context, [client |-> client_id, server |-> server_id])
    BY <2>1 DEF WInv
  <2> DEFINE ids == [client |-> client_id, server |-> server_id]
             opened == UnmaskResponse(suite, Pad(sent["evaluation_element"], sent["masking_nonce"]),
                         sent["masked_nonce"] \o sent["masked_hash"] \o sent["masked_pk"])
             client  == SerializedIdentifier(client_id, sent["client_s_pk"])
             server  == SerializedIdentifier(server_id, sent["server_s_pk"])
             message == SerializedContext(context)
             hashed  == Hashed(sent, sent["server_s_pk"], message.val, client.val, server.val)
             Ends(outcome, h) ==
               [outcome |-> outcome, context |-> context, ids |-> ids, hashed |-> h]
             Long(p) == Len(p) >= Base * Base
  <2>5. ClientView = sent
    BY <2>1, <2>2, ClientSees
  <2>6. /\ DOMAIN opened = {"server_s_pk", "envelope_nonce", "envelope_hmac"}
        /\ opened.server_s_pk = sent["server_s_pk"]
        /\ \A g \in DOMAIN opened : opened[g] = sent[g]
    BY <2>2, <2>3, ClientUnmasks
  <2>7. ids.client = client_id /\ ids.server = server_id
    OBVIOUS
  <2>8. sent["evaluation_element"] # sent["blinded_element"]
    BY <2>2, <2>3, SentMasked
  <2>9. ToSet(sent["server_s_pk"]) # {0}
    <3>1. "server_s_pk" \in Fields \ Masked /\ SentWell(suite, sent)
      BY <2>2, <2>3, PlainNames, SentFields
    <3>2. QED
      BY <3>1 DEF SentWell
  <2>10. finish = IF ~client.ok \/ ~server.ok THEN Ends("SerializationError", None)
                  ELSE IF ~message.ok         THEN Ends("SerializationError", None)
                  ELSE Ends("hashed", hashed)
    <3>1. finish =
            IF sent["evaluation_element"] = sent["blinded_element"]
              THEN Ends("ReflectedValueError", None)
            ELSE IF ToSet(opened.server_s_pk) = {0} THEN Ends("InvalidLoginError", None)
            ELSE IF ~SerializedIdentifier(ids.client, sent["client_s_pk"]).ok
                      \/ ~SerializedIdentifier(ids.server, opened.server_s_pk).ok
              THEN Ends("SerializationError", None)
            ELSE IF ~(/\ sent["evaluation_element"] = sent["evaluation_element"]
                      /\ \A g \in DOMAIN opened : opened[g] = sent[g])
              THEN Ends("InvalidLoginError", None)
            ELSE IF ~message.ok THEN Ends("SerializationError", None)
            ELSE Ends("hashed",
                      Hashed(sent, opened.server_s_pk, message.val,
                             SerializedIdentifier(ids.client, sent["client_s_pk"]).val,
                             SerializedIdentifier(ids.server, opened.server_s_pk).val))
      BY <2>4, <2>5 DEF FinishWith
    <3> HIDE DEF opened, Ends, ids, message
    <3>2. QED
      BY <2>6, <2>7, <2>8, <2>9, <3>1
  <2>11. Len(sent["client_s_pk"]) < Base * Base /\ Len(sent["server_s_pk"]) < Base * Base
    <3>1. \A f \in {"client_s_pk", "server_s_pk"} :
            f \in Fields /\ FieldWidth(suite, f) = Width["static_pk"]
      <4>1. {"client_s_pk", "server_s_pk"} \subseteq Fields
        BY FieldNames
      <4>2. Kind("client_s_pk") = "static_pk" /\ Kind("server_s_pk") = "static_pk"
        <5>1. \A k \in Kinds : "client_s_pk" \in FieldsOf[k] <=> k = "static_pk"
          BY DEF FieldsOf, Kinds
        <5>2. "static_pk" \in Kinds
          BY DEF Kinds
        <5>3. QED
          BY <5>1, <5>2, MaskedKinds DEF Kind
      <4>3. QED
        BY <4>1, <4>2 DEF FieldWidth
    <3>2. Width["static_pk"] \in 1 .. Base * Base - 1 /\ Base * Base \in Int
      BY WireAssumption DEF Kinds
    <3>3. SentWell(suite, sent)
      BY <2>2, <2>3, SentFields
    <3>4. QED
      BY <3>1, <3>2, <3>3 DEF SentWell
  <2>12. Base * Base \in Nat \ {0}
    BY WireAssumption
  <2>13. client.ok <=> ~(client_id # None /\ Long(client_id))
    <3>1. client = Prefixed(IF client_id = None THEN sent["client_s_pk"] ELSE client_id)
      BY DEF SerializedIdentifier
    <3>2. ~Long(sent["client_s_pk"])
      <4>1. Len(sent["client_s_pk"]) \in Nat
        BY <2>2, <2>3, FieldNames, SentFields, LenProperties DEF SentWell
      <4>2. QED
        BY <2>11, <2>12, <4>1
    <3> HIDE DEF client
    <3>3. QED
      BY <3>1, <3>2, PrefixedOk
  <2>14. server.ok <=> ~(server_id # None /\ Long(server_id))
    <3>1. server = Prefixed(IF server_id = None THEN sent["server_s_pk"] ELSE server_id)
      BY DEF SerializedIdentifier
    <3>2. ~Long(sent["server_s_pk"])
      <4>1. Len(sent["server_s_pk"]) \in Nat
        BY <2>2, <2>3, FieldNames, SentFields, LenProperties DEF SentWell
      <4>2. QED
        BY <2>11, <2>12, <4>1
    <3> HIDE DEF server
    <3>3. QED
      BY <3>1, <3>2, PrefixedOk
  <2>15. message.ok <=> ~(context # None /\ Long(context))
    <3>1. message = Prefixed(IF context = None THEN <<>> ELSE context)
      BY DEF SerializedContext
    <3>2. ~Long(<<>>)
      BY <2>12
    <3> HIDE DEF message
    <3>3. QED
      BY <3>1, <3>2, PrefixedOk
  <2> HIDE DEF client, server, message, hashed, Long
  <2>16. /\ finish.context = context /\ finish.ids = ids
         /\ finish.outcome = IF ~client.ok \/ ~server.ok \/ ~message.ok THEN "SerializationError"
                             ELSE "hashed"
         /\ finish.outcome = "hashed" => finish.hashed = hashed
    <3> HIDE DEF ids
    <3>1. CASE ~client.ok \/ ~server.ok \/ ~message.ok
      <4>1. finish = Ends("SerializationError", None)
        BY <2>10, <3>1
      <4>2. QED
        BY <3>1, <4>1
    <3>2. CASE client.ok /\ server.ok /\ message.ok
      <4>1. finish = Ends("hashed", hashed)
        BY <2>10, <3>2
      <4>2. QED
        BY <3>2, <4>1
    <3>3. QED
      BY <3>1, <3>2
  <2>17. finish.ids.client = client_id /\ finish.ids.server = server_id
    BY <2>7, <2>16
  <2> DEFINE given    == {finish.context, finish.ids.client, finish.ids.server} \ {None}
             too_long == {p \in given : Len(p) >= Base * Base}
  <2>18. too_long # {} <=> ~client.ok \/ ~server.ok \/ ~message.ok
    BY <2>13, <2>14, <2>15, <2>16, <2>17 DEF Long
  <2>19. hashed = Hashed(sent, sent["server_s_pk"], SerializedContext(finish.context).val,
                         SerializedIdentifier(finish.ids.client, sent["client_s_pk"]).val,
                         SerializedIdentifier(finish.ids.server, sent["server_s_pk"]).val)
    BY <2>16, <2>17 DEF hashed, message, client, server
  <2> HIDE DEF too_long
  <2>20. QED
    BY <2>16, <2>18, <2>19 DEF ResponseUnderstood, too_long
<1>2. QED
  BY <1>1, WInvAlways, PTL

-------------------------------------------------------------------------------
(* What is hashed can be taken apart.                                        *)

(* A part as it is hashed: behind its length, or bare.                       *)
Piece(n, part) == IF n = 0 THEN <<Len(part) \div Base, Len(part) % Base>> \o part ELSE part

(* bytes is made of parts, one piece of the shape after another; at holds    *)
(* where they end.                                                           *)
PackedAt(shape, parts, bytes, at) ==
  /\ shape \in Seq(Nat) /\ parts \in Seq(Seq(Byte)) /\ bytes \in Seq(Byte)
  /\ Len(parts) = Len(shape)
  /\ at \in [0 .. Len(shape) -> 0 .. Len(bytes)]
  /\ at[0] = 0 /\ at[Len(shape)] = Len(bytes)
  /\ \A i \in 1 .. Len(shape) :
       /\ IF shape[i] = 0 THEN Len(parts[i]) < Base * Base ELSE shape[i] = Len(parts[i])
       /\ at[i - 1] <= at[i]
       /\ SubSeq(bytes, at[i - 1] + 1, at[i]) = Piece(shape[i], parts[i])

Packed(shape, parts, bytes) == \E at : PackedAt(shape, parts, bytes, at)

(* A slice stays where it is when something is put behind it.                *)
LEMMA SliceOfFirst ==
  ASSUME NEW x \in Seq(Byte), NEW y \in Seq(Byte), NEW a \in Nat, NEW b \in Nat,
         a <= b, b <= Len(x)
  PROVE  SubSeq(x \o y, a + 1, b) = SubSeq(x, a + 1, b)
<1> DEFINE both == x \o y
           new == SubSeq(both, a + 1, b)
           old == SubSeq(x, a + 1, b)
<1>1. Len(x) \in Nat /\ Len(y) \in Nat
  BY LenProperties
<1>2. /\ both \in Seq(Byte) /\ Len(both) = Len(x) + Len(y)
      /\ \A i \in 1 .. Len(x) + Len(y) : both[i] = IF i <= Len(x) THEN x[i] ELSE y[i - Len(x)]
  BY ConcatProperties
<1> HIDE DEF both
<1>3. /\ new \in Seq(Byte) /\ Len(new) = b - a /\ \A i \in 1 .. b - a : new[i] = both[a + i]
  <2>1. b <= Len(both)
    BY <1>1, <1>2
  <2>2. QED
    BY <1>2, <2>1, Slices
<1>4. /\ old \in Seq(Byte) /\ Len(old) = b - a /\ \A i \in 1 .. b - a : old[i] = x[a + i]
  BY Slices
<1> HIDE DEF new, old
<1>5. ASSUME NEW i \in 1 .. b - a PROVE new[i] = old[i]
  <2>1. a + i \in 1 .. Len(x) + Len(y) /\ a + i <= Len(x)
    BY <1>1
  <2>2. QED
    BY <1>2, <1>3, <1>4, <2>1
<1>6. new = old
  BY <1>3, <1>4, <1>5, SeqEqual
<1>7. QED
  BY <1>6 DEF new, old, both

(* It moves when something is put in front of it.                            *)
LEMMA SliceOfSecond ==
  ASSUME NEW x \in Seq(Byte), NEW y \in Seq(Byte), NEW a \in Nat, NEW b \in Nat,
         a <= b, b <= Len(y)
  PROVE  SubSeq(x \o y, (Len(x) + a) + 1, Len(x) + b) = SubSeq(y, a + 1, b)
<1> DEFINE both == x \o y
           k == Len(x)
           new == SubSeq(both, (k + a) + 1, k + b)
           old == SubSeq(y, a + 1, b)
<1>1. k \in Nat /\ Len(y) \in Nat
  BY LenProperties
<1>2. /\ both \in Seq(Byte) /\ Len(both) = k + Len(y)
      /\ \A i \in 1 .. k + Len(y) : both[i] = IF i <= k THEN x[i] ELSE y[i - k]
  BY ConcatProperties
<1> HIDE DEF both, k
<1>3. /\ new \in Seq(Byte) /\ Len(new) = (k + b) - (k + a)
      /\ \A i \in 1 .. (k + b) - (k + a) : new[i] = both[(k + a) + i]
  <2>1. k + a \in Nat /\ k + b \in Nat /\ k + a <= k + b /\ k + b <= Len(both)
    BY <1>1, <1>2
  <2>2. QED
    BY <1>2, <2>1, Slices
<1>4. /\ old \in Seq(Byte) /\ Len(old) = b - a /\ \A i \in 1 .. b - a : old[i] = y[a + i]
  BY Slices
<1> HIDE DEF new, old
<1>5. (k + b) - (k + a) = b - a
  BY <1>1
<1>6. ASSUME NEW i \in 1 .. b - a PROVE new[i] = old[i]
  <2> DEFINE j == (k + a) + i
  <2>1. j \in 1 .. k + Len(y) /\ ~(j <= k) /\ j - k = a + i
    BY <1>1
  <2>2. new[i] = both[j] /\ old[i] = y[a + i]
    BY <1>3, <1>4, <1>5
  <2> HIDE DEF j
  <2>3. both[j] = y[j - k]
    BY <1>2, <2>1
  <2>4. QED
    BY <2>1, <2>2, <2>3
<1>7. new = old
  BY <1>3, <1>4, <1>5, <1>6, SeqEqual
<1>8. QED
  BY <1>7 DEF new, old, both, k

(* Two strings of pieces, one behind the other.                              *)
LEMMA PackedConcat ==
  ASSUME NEW s1, NEW p1, NEW b1, NEW s2, NEW p2, NEW b2, Packed(s1, p1, b1), Packed(s2, p2, b2)
  PROVE  Packed(s1 \o s2, p1 \o p2, b1 \o b2)
<1>1. PICK at1 : PackedAt(s1, p1, b1, at1)
  BY DEF Packed
<1>2. PICK at2 : PackedAt(s2, p2, b2, at2)
  BY DEF Packed
<1> DEFINE S == s1 \o s2
           P == p1 \o p2
           B == b1 \o b2
           N1 == Len(s1)
           N2 == Len(s2)
           L1 == Len(b1)
           L2 == Len(b2)
           at == [i \in 0 .. N1 + N2 |-> IF i <= N1 THEN at1[i] ELSE L1 + at2[i - N1]]
<1>3. /\ s1 \in Seq(Nat) /\ p1 \in Seq(Seq(Byte)) /\ b1 \in Seq(Byte) /\ Len(p1) = N1
      /\ s2 \in Seq(Nat) /\ p2 \in Seq(Seq(Byte)) /\ b2 \in Seq(Byte) /\ Len(p2) = N2
  BY <1>1, <1>2 DEF PackedAt
<1>4. N1 \in Nat /\ N2 \in Nat /\ L1 \in Nat /\ L2 \in Nat
  BY <1>3, LenProperties
<1>5. /\ at1 \in [0 .. N1 -> 0 .. L1] /\ at1[0] = 0 /\ at1[N1] = L1
      /\ \A i \in 1 .. N1 :
           /\ IF s1[i] = 0 THEN Len(p1[i]) < Base * Base ELSE s1[i] = Len(p1[i])
           /\ at1[i - 1] <= at1[i]
           /\ SubSeq(b1, at1[i - 1] + 1, at1[i]) = Piece(s1[i], p1[i])
  BY <1>1 DEF PackedAt
<1>6. /\ at2 \in [0 .. N2 -> 0 .. L2] /\ at2[0] = 0 /\ at2[N2] = L2
      /\ \A i \in 1 .. N2 :
           /\ IF s2[i] = 0 THEN Len(p2[i]) < Base * Base ELSE s2[i] = Len(p2[i])
           /\ at2[i - 1] <= at2[i]
           /\ SubSeq(b2, at2[i - 1] + 1, at2[i]) = Piece(s2[i], p2[i])
  BY <1>2 DEF PackedAt
<1>7. /\ S \in Seq(Nat) /\ Len(S) = N1 + N2
      /\ \A i \in 1 .. N1 + N2 : S[i] = IF i <= N1 THEN s1[i] ELSE s2[i - N1]
  BY <1>3, ConcatProperties
<1>8. /\ P \in Seq(Seq(Byte)) /\ Len(P) = N1 + N2
      /\ \A i \in 1 .. N1 + N2 : P[i] = IF i <= N1 THEN p1[i] ELSE p2[i - N1]
  <2>1. /\ P \in Seq(Seq(Byte)) /\ Len(P) = Len(p1) + Len(p2)
        /\ \A i \in 1 .. Len(p1) + Len(p2) : P[i] = IF i <= Len(p1) THEN p1[i] ELSE p2[i - Len(p1)]
    BY <1>3, ConcatProperties
  <2> HIDE DEF P, N1, N2
  <2>2. QED
    BY <1>3, <2>1
<1>9. B \in Seq(Byte) /\ Len(B) = L1 + L2
  BY <1>3, ConcatProperties
<1> HIDE DEF S, P, B, N1, N2, L1, L2
<1>10. at \in [0 .. N1 + N2 -> 0 .. L1 + L2]
  <2>1. ASSUME NEW i \in 0 .. N1 + N2 PROVE at[i] \in 0 .. L1 + L2
    <3>1. CASE i <= N1
      <4>1. at1[i] \in 0 .. L1
        BY <1>4, <1>5, <3>1
      <4>2. QED
        BY <1>4, <3>1, <4>1
    <3>2. CASE ~(i <= N1)
      <4>1. i - N1 \in 0 .. N2
        BY <1>4, <3>2
      <4>2. at2[i - N1] \in 0 .. L2
        BY <1>6, <4>1
      <4>3. QED
        BY <1>4, <3>2, <4>2
    <3>3. QED
      BY <3>1, <3>2
  <2>2. QED
    BY <2>1
<1>11. at[0] = 0 /\ at[N1 + N2] = L1 + L2
  <2>1. at[0] = 0
    BY <1>4, <1>5
  <2>2. CASE N2 = 0
    <3>1. N1 + N2 = N1 /\ L2 = 0
      BY <1>4, <1>6, <2>2
    <3>2. at[N1 + N2] = at1[N1]
      BY <1>4, <3>1
    <3>3. QED
      BY <1>4, <1>5, <2>1, <3>1, <3>2
  <2>3. CASE N2 # 0
    <3>1. ~(N1 + N2 <= N1) /\ (N1 + N2) - N1 = N2 /\ N1 + N2 \in 0 .. N1 + N2
      BY <1>4, <2>3
    <3>2. QED
      BY <1>6, <2>1, <3>1
  <2>4. QED
    BY <2>2, <2>3
<1>12. ASSUME NEW i \in 1 .. N1 + N2
       PROVE  /\ IF S[i] = 0 THEN Len(P[i]) < Base * Base ELSE S[i] = Len(P[i])
              /\ at[i - 1] <= at[i]
              /\ SubSeq(B, at[i - 1] + 1, at[i]) = Piece(S[i], P[i])
  <2>1. CASE i <= N1
    <3>1. /\ i \in 1 .. N1 /\ i - 1 \in 0 .. N1 /\ i \in 0 .. N1
          /\ i - 1 \in 0 .. N1 + N2 /\ i \in 0 .. N1 + N2 /\ i - 1 <= N1
      BY <1>4, <2>1
    <3>2. /\ at[i - 1] = at1[i - 1] /\ at[i] = at1[i] /\ S[i] = s1[i] /\ P[i] = p1[i]
      BY <1>7, <1>8, <2>1, <3>1
    <3>3. at1[i - 1] \in Nat /\ at1[i] \in Nat /\ at1[i] <= L1
      BY <1>4, <1>5, <3>1
    <3> HIDE DEF at
    <3>4. SubSeq(B, at1[i - 1] + 1, at1[i]) = SubSeq(b1, at1[i - 1] + 1, at1[i])
      BY <1>3, <1>5, <3>1, <3>3, SliceOfFirst DEF B, L1
    <3>5. QED
      BY <1>5, <3>1, <3>2, <3>4
  <2>2. CASE ~(i <= N1)
    <3> DEFINE j == i - N1
    <3>1. /\ j \in 1 .. N2 /\ j - 1 \in 0 .. N2 /\ j \in 0 .. N2
          /\ i - 1 \in 0 .. N1 + N2 /\ i \in 0 .. N1 + N2 /\ (i - 1) - N1 = j - 1
      BY <1>4, <2>2
    <3>2. at2[j - 1] \in Nat /\ at2[j] \in Nat /\ at2[j] <= L2
      BY <1>4, <1>6, <3>1
    <3>3. at[i] = L1 + at2[j] /\ S[i] = s2[j] /\ P[i] = p2[j]
      BY <1>7, <1>8, <2>2, <3>1
    <3>4. at[i - 1] = L1 + at2[j - 1]
      <4>1. CASE i - 1 = N1
        <5>1. at[i - 1] = L1 /\ j - 1 = 0
          BY <1>4, <1>5, <3>1, <4>1
        <5> HIDE DEF at, j
        <5>2. at2[j - 1] = 0
          BY <1>6, <5>1
        <5>3. L1 + 0 = L1
          BY <1>4
        <5>4. QED
          BY <5>1, <5>2, <5>3
      <4>2. CASE i - 1 # N1
        <5>1. ~(i - 1 <= N1)
          BY <1>4, <2>2, <4>2
        <5>2. at[i - 1] = L1 + at2[(i - 1) - N1]
          BY <3>1, <5>1
        <5>3. QED
          BY <3>1, <5>2
      <4>3. QED
        BY <4>1, <4>2
    <3> HIDE DEF at, j
    <3>5. SubSeq(B, (L1 + at2[j - 1]) + 1, L1 + at2[j]) = SubSeq(b2, at2[j - 1] + 1, at2[j])
      BY <1>3, <1>6, <3>1, <3>2, SliceOfSecond DEF B, L1, L2
    <3>6. at[i - 1] <= at[i]
      BY <1>4, <1>6, <3>1, <3>2, <3>3, <3>4
    <3>7. QED
      BY <1>6, <3>1, <3>3, <3>4, <3>5, <3>6
  <2>3. QED
    BY <2>1, <2>2
<1> HIDE DEF at
<1>13. PackedAt(S, P, B, at)
  BY <1>7, <1>8, <1>9, <1>10, <1>11, <1>12 DEF PackedAt
<1>14. QED
  BY <1>13 DEF Packed, S, P, B

(* A single piece.                                                           *)
LEMMA PackedOne ==
  ASSUME NEW n \in Nat, NEW part \in Seq(Byte),
         IF n = 0 THEN Len(part) < Base * Base ELSE n = Len(part),
         Piece(n, part) \in Seq(Byte)
  PROVE  Packed(<<n>>, <<part>>, Piece(n, part))
<1> DEFINE shape == <<n>>
           parts == <<part>>
           bytes == Piece(n, part)
           at == [i \in 0 .. 1 |-> IF i = 0 THEN 0 ELSE Len(bytes)]
<1>1. /\ shape \in Seq(Nat) /\ parts \in Seq(Seq(Byte)) /\ Len(shape) = 1 /\ Len(parts) = 1
      /\ shape[1] = n /\ parts[1] = part
  OBVIOUS
<1> HIDE DEF shape, parts
<1>2. bytes \in Seq(Byte) /\ Len(bytes) \in Nat
  BY LenProperties
<1> HIDE DEF bytes
<1>3. at \in [0 .. 1 -> 0 .. Len(bytes)] /\ at[0] = 0 /\ at[1] = Len(bytes)
  BY <1>2
<1> HIDE DEF at
<1>4. ASSUME NEW i \in 1 .. 1
      PROVE  /\ IF shape[i] = 0 THEN Len(parts[i]) < Base * Base ELSE shape[i] = Len(parts[i])
             /\ at[i - 1] <= at[i]
             /\ SubSeq(bytes, at[i - 1] + 1, at[i]) = Piece(shape[i], parts[i])
  <2>1. i = 1 /\ i - 1 = 0
    OBVIOUS
  <2>2. SubSeq(bytes, 0 + 1, Len(bytes)) = bytes
    BY <1>2, SubSeqFull
  <2>3. SubSeq(bytes, at[0] + 1, at[1]) = Piece(shape[1], parts[1])
    BY <1>1, <1>3, <2>2 DEF bytes
  <2>4. at[0] <= at[1]
    BY <1>2, <1>3
  <2>5. IF shape[1] = 0 THEN Len(parts[1]) < Base * Base ELSE shape[1] = Len(parts[1])
    BY <1>1
  <2>6. QED
    BY <2>1, <2>3, <2>4, <2>5
<1>5. PackedAt(shape, parts, bytes, at)
  BY <1>1, <1>2, <1>3, <1>4 DEF PackedAt
<1>6. QED
  BY <1>5 DEF Packed, shape, parts, bytes

(* Two bytes hold a length.                                                  *)
LEMMA LengthDigits ==
  ASSUME NEW k \in Nat, k < Base * Base
  PROVE  /\ k \div Base \in Byte /\ k % Base \in Byte
         /\ (k \div Base) * Base + (k % Base) = k
<1>1. Base \in Nat \ {0}
  BY WireAssumption
<1>2. /\ k \div Base \in Int /\ k % Base \in 0 .. Base - 1
      /\ k = Base * (k \div Base) + (k % Base)
  BY <1>1
<1> DEFINE d == k \div Base
           m == k % Base
<1> HIDE DEF d, m
<1>3. d \in Int /\ m \in 0 .. Base - 1 /\ k = Base * d + m
  BY <1>2 DEF d, m
<1>4. d < Base
  <2>1. SUFFICES ASSUME d >= Base PROVE FALSE
    BY <1>1, <1>3
  <2>2. Base * d >= Base * Base
    BY <1>1, <1>3, <2>1
  <2>3. QED
    BY <1>1, <1>3, <2>2
<1>5. d >= 0
  <2>1. SUFFICES ASSUME d <= -1 PROVE FALSE
    BY <1>3
  <2>2. Base * d <= Base * (-1)
    BY <1>1, <1>3, <2>1
  <2>3. Base * (-1) = -Base
    BY <1>1
  <2>4. QED
    BY <1>1, <1>3, <2>2, <2>3
<1>6. d * Base = Base * d
  BY <1>1, <1>3
<1>7. QED
  BY <1>1, <1>3, <1>4, <1>5, <1>6 DEF Byte, d, m

(* A piece is a string of bytes.                                             *)
LEMMA PieceIsBytes ==
  ASSUME NEW n \in Nat, NEW part \in Seq(Byte),
         IF n = 0 THEN Len(part) < Base * Base ELSE n = Len(part)
  PROVE  Piece(n, part) \in Seq(Byte)
<1>1. CASE n = 0
  <2> DEFINE prefix == <<Len(part) \div Base, Len(part) % Base>>
  <2>1. Len(part) \in Nat /\ Len(part) < Base * Base
    BY <1>1, LenProperties
  <2>2. Len(part) \div Base \in Byte /\ Len(part) % Base \in Byte
    BY <2>1, LengthDigits
  <2>3. prefix \in Seq(Byte)
    BY <2>2
  <2>4. Piece(n, part) = prefix \o part
    BY <1>1 DEF Piece
  <2> HIDE DEF prefix
  <2>5. QED
    BY <2>3, <2>4, ConcatProperties
<1>2. CASE n # 0
  BY <1>2 DEF Piece
<1>3. QED
  BY <1>1, <1>2

(* A piece is taken off what stands in front of it: its length is known, or  *)
(* it is read from the prefix.                                               *)
LEMMA UnpackPiece ==
  ASSUME NEW n \in Nat, NEW part \in Seq(Byte), NEW tail \in Seq(Byte),
         IF n = 0 THEN Len(part) < Base * Base ELSE n = Len(part),
         NEW acc, acc.rest = Piece(n, part) \o tail
  PROVE  UnpackPart(acc, n) = [parts |-> Append(acc.parts, part), rest |-> tail]
<1> DEFINE k    == Len(part)
           from == part \o tail
           rest == acc.rest
<1>1. k \in Nat /\ Len(tail) \in Nat
  BY LenProperties
<1>2. from \in Seq(Byte) /\ Len(from) = k + Len(tail)
  BY ConcatProperties
<1>3. SubSeq(from, 1, k) = part /\ SubSeq(from, k + 1, Len(from)) = tail
  BY CutApart
<1> HIDE DEF from
<1>4. ~(k > Len(from))
  BY <1>1, <1>2
<1>5. /\ TakeArray(from, k).front = part
      /\ TakeArray(from, k).back = tail
  <2>1. TakeArray(from, k) = [front |-> part, back |-> tail]
    BY <1>3 DEF TakeArray
  <2>2. QED
    BY <2>1
<1>6. CASE n = 0
  <2> DEFINE hi == k \div Base
             lo == k % Base
             prefix == <<hi, lo>>
  <2>1. hi \in Byte /\ lo \in Byte /\ hi * Base + lo = k
    BY <1>1, <1>6, LengthDigits
  <2> HIDE DEF hi, lo
  <2>2. /\ prefix \in Seq(Byte) /\ Len(prefix) = 2 /\ prefix[1] = hi /\ prefix[2] = lo
    BY <2>1
  <2>3. rest = (prefix \o part) \o tail
    BY <1>6 DEF Piece, hi, lo
  <2> HIDE DEF prefix, rest, k
  <2>4. rest = prefix \o from
    <3>1. prefix \in Seq(Byte)
      BY <2>2
    <3>2. (prefix \o part) \o tail = prefix \o (part \o tail)
      BY <3>1, ConcatAssociative
    <3>3. QED
      BY <2>3, <3>2 DEF from
  <2>5. /\ Len(rest) = 2 + Len(from)
        /\ \A i \in 1 .. 2 + Len(from) : rest[i] = IF i <= 2 THEN prefix[i] ELSE from[i - 2]
    <3>1. prefix \in Seq(Byte) /\ from \in Seq(Byte)
      BY <1>2, <2>2
    <3>2. /\ Len(prefix \o from) = Len(prefix) + Len(from)
          /\ \A i \in 1 .. Len(prefix) + Len(from) :
               (prefix \o from)[i] = IF i <= Len(prefix) THEN prefix[i] ELSE from[i - Len(prefix)]
      BY <3>1, ConcatProperties
    <3>3. QED
      BY <2>2, <2>4, <3>2
  <2>6. Len(from) \in Nat
    BY <1>1, <1>2
  <2>7. rest[1] = hi /\ rest[2] = lo /\ ~(Len(rest) < 2)
    BY <2>2, <2>5, <2>6
  <2>8. SubSeq(rest, 3, Len(rest)) = from
    <3>1. SubSeq(prefix \o from, Len(prefix) + 1, Len(prefix \o from)) = from
      BY <1>2, <2>2, CutApart
    <3>2. Len(prefix) + 1 = 3
      BY <2>2
    <3>3. QED
      BY <2>4, <3>1, <3>2
  <2>9. rest[1] * Base + rest[2] = k
    BY <2>1, <2>7
  <2>10. UnpackPart(acc, n) =
           IF Len(rest) < 2 \/ rest[1] * Base + rest[2] > Len(SubSeq(rest, 3, Len(rest))) THEN acc
           ELSE [ parts |-> Append(acc.parts, TakeArray(SubSeq(rest, 3, Len(rest)),
                                                        rest[1] * Base + rest[2]).front),
                  rest  |-> TakeArray(SubSeq(rest, 3, Len(rest)), rest[1] * Base + rest[2]).back ]
    BY <1>6 DEF UnpackPart, rest
  <2>11. UnpackPart(acc, n) =
           IF FALSE \/ k > Len(from) THEN acc
           ELSE [ parts |-> Append(acc.parts, TakeArray(from, k).front),
                  rest  |-> TakeArray(from, k).back ]
    BY <2>7, <2>8, <2>9, <2>10
  <2>12. QED
    BY <1>4, <1>5, <2>11
<1>7. CASE n # 0
  <2>1. n = k /\ rest = from
    BY <1>7 DEF Piece, from
  <2>2. UnpackPart(acc, n) =
           IF n > Len(rest) THEN acc
           ELSE [ parts |-> Append(acc.parts, TakeArray(rest, n).front),
                  rest  |-> TakeArray(rest, n).back ]
    BY <1>7 DEF UnpackPart
  <2> HIDE DEF rest, k
  <2>3. QED
    BY <1>4, <1>5, <2>1, <2>2
<1>8. QED
  BY <1>6, <1>7

(* The reference reader, after each of the parts.                            *)
Unpacking(shape, bytes) ==
  CHOOSE after : after = [i \in 0 .. Len(shape) |->
                            IF i = 0 THEN [parts |-> <<>>, rest |-> bytes]
                                     ELSE UnpackPart(after[i - 1], shape[i])]

(* It is defined for every shape.                                            *)
LEMMA UnpackingParts ==
  ASSUME NEW shape, NEW bytes, Len(shape) \in Nat
  PROVE  Unpacking(shape, bytes) =
           [i \in 0 .. Len(shape) |-> IF i = 0 THEN [parts |-> <<>>, rest |-> bytes]
                                      ELSE UnpackPart(Unpacking(shape, bytes)[i - 1], shape[i])]
<1> DEFINE N == Len(shape)
           start == [parts |-> <<>>, rest |-> bytes]
           Loop(g, n) == g = [i \in 0 .. n |-> IF i = 0 THEN start
                                                ELSE UnpackPart(g[i - 1], shape[i])]
           T == {n \in 0 .. N : \E g : Loop(g, n)}
<1>1. 0 \in T
  <2> HIDE DEF start
  <2>1. Loop([i \in 0 .. 0 |-> start], 0)
    OBVIOUS
  <2> HIDE DEF Loop
  <2>2. \E g : Loop(g, 0)
    BY <2>1
  <2>3. QED
    BY <2>2
<1>2. ASSUME NEW n \in 0 .. N, n # 0, n - 1 \in T
      PROVE  n \in T
  <2> HIDE DEF start
  <2>1. PICK g : Loop(g, n - 1)
    BY <1>2
  <2> DEFINE h == [i \in 0 .. n |-> IF i = 0 THEN start ELSE UnpackPart(g[i - 1], shape[i])]
  <2>2. \A i \in 0 .. n - 1 : h[i] = g[i]
    BY <2>1
  <2>3. \A i \in 0 .. n : i # 0 => h[i - 1] = g[i - 1]
    BY <2>2
  <2>4. Loop(h, n)
    BY <2>3
  <2>5. QED
    BY <2>4
<1>3. N \in T
  <2> HIDE DEF T, N
  <2>1. N \in Nat
    BY DEF N
  <2>2. 0 .. N \subseteq T
    BY <1>1, <1>2, <2>1, NumbersUpTo
  <2>3. QED
    BY <2>1, <2>2
<1>4. \E g : Loop(g, N)
  BY <1>3
<1>5. QED
  BY <1>4 DEF Unpacking

(* What was put together is taken apart again.                               *)
LEMMA UnpackPacked ==
  ASSUME NEW shape, NEW parts, NEW bytes, Packed(shape, parts, bytes)
  PROVE  Unpack(shape, bytes) = [parts |-> parts, rest |-> <<>>]
<1>1. PICK at : PackedAt(shape, parts, bytes, at)
  BY DEF Packed
<1> DEFINE N == Len(shape)
           a(i) == Unpacking(shape, bytes)[i]
           T == {i \in 0 .. N : a(i) = [parts |-> SubSeq(parts, 1, i),
                                        rest  |-> SubSeq(bytes, at[i] + 1, Len(bytes))]}
<1>2. /\ shape \in Seq(Nat) /\ parts \in Seq(Seq(Byte)) /\ bytes \in Seq(Byte)
      /\ Len(parts) = N /\ at \in [0 .. N -> 0 .. Len(bytes)] /\ at[0] = 0 /\ at[N] = Len(bytes)
      /\ \A i \in 1 .. N :
           /\ IF shape[i] = 0 THEN Len(parts[i]) < Base * Base ELSE shape[i] = Len(parts[i])
           /\ at[i - 1] <= at[i]
           /\ SubSeq(bytes, at[i - 1] + 1, at[i]) = Piece(shape[i], parts[i])
  BY <1>1 DEF PackedAt
<1>3. N \in Nat /\ Len(bytes) \in Nat
  BY <1>2, LenProperties
<1>4. /\ a(0) = [parts |-> <<>>, rest |-> bytes]
      /\ \A i \in 1 .. N : a(i) = UnpackPart(a(i - 1), shape[i])
  <2> DEFINE after == Unpacking(shape, bytes)
             start == [parts |-> <<>>, rest |-> bytes]
  <2>1. after = [i \in 0 .. N |-> IF i = 0 THEN start ELSE UnpackPart(after[i - 1], shape[i])]
    BY <1>3, UnpackingParts
  <2> HIDE DEF after, start, N
  <2>2. after[0] = start /\ \A i \in 1 .. N : after[i] = UnpackPart(after[i - 1], shape[i])
    BY <1>3, <2>1
  <2>3. QED
    BY <2>2 DEF after, start
<1>5. \A i \in 1 .. N : shape[i] \in Nat /\ parts[i] \in Seq(Byte)
  BY <1>2, ElementOfSeq
<1>6. Unpack(shape, bytes) = a(N)
  BY DEF Unpack, Unpacking
<1> HIDE DEF N, a
<1>7. 0 \in T
  <2>1. SubSeq(parts, 1, 0) = <<>>
    BY SubSeqEmpty
  <2>2. SubSeq(bytes, 0 + 1, Len(bytes)) = bytes
    BY <1>2, SubSeqFull
  <2>3. 0 \in 0 .. N
    BY <1>3
  <2>4. QED
    BY <1>2, <1>4, <2>1, <2>2, <2>3
<1>8. ASSUME NEW i \in 0 .. N, i # 0, i - 1 \in T
      PROVE  i \in T
  <2> DEFINE acc == a(i - 1)
             front == SubSeq(parts, 1, i - 1)
             part == parts[i]
             n == shape[i]
             tail == SubSeq(bytes, at[i] + 1, Len(bytes))
             piece == SubSeq(bytes, at[i - 1] + 1, at[i])
  <2>1. i \in 1 .. N /\ i - 1 \in 0 .. N
    BY <1>3, <1>8
  <2>2. acc = [parts |-> front, rest |-> SubSeq(bytes, at[i - 1] + 1, Len(bytes))]
    BY <1>8
  <2>3. /\ at[i - 1] \in 0 .. Len(bytes) /\ at[i] \in 0 .. Len(bytes) /\ at[i - 1] <= at[i]
        /\ piece = Piece(n, part)
        /\ IF n = 0 THEN Len(part) < Base * Base ELSE n = Len(part)
        /\ n \in Nat /\ part \in Seq(Byte)
    BY <1>2, <1>5, <2>1
  <2>4. tail \in Seq(Byte)
    <3>1. at[i] \in Nat /\ Len(bytes) \in Nat /\ at[i] <= Len(bytes) /\ Len(bytes) <= Len(bytes)
      BY <1>3, <2>3
    <3>2. QED
      BY <1>2, <3>1, Slices
  <2>5. SubSeq(bytes, at[i - 1] + 1, Len(bytes)) = piece \o tail
    <3>1. /\ at[i - 1] + 1 \in 1 .. Len(bytes) + 1
          /\ at[i] \in (at[i - 1] + 1) - 1 .. Len(bytes)
          /\ Len(bytes) \in at[i] .. Len(bytes)
      BY <1>3, <2>3
    <3>2. QED
      BY <1>2, <3>1, ConcatAdjacentSubSeq
  <2> HIDE DEF acc, front, part, n, tail, piece
  <2>6. acc.rest = Piece(n, part) \o tail /\ acc.parts = front
    BY <2>2, <2>3, <2>5
  <2>7. UnpackPart(acc, n) = [parts |-> Append(acc.parts, part), rest |-> tail]
    BY <2>3, <2>4, <2>6, UnpackPiece
  <2>8. Append(front, part) = SubSeq(parts, 1, i)
    <3> DEFINE X == Seq(Byte)
    <3>1. parts \in Seq(X) /\ part \in X
      BY <1>2, <2>3
    <3> HIDE DEF X
    <3>2. 1 \in 1 .. Len(parts) /\ i \in 1 .. Len(parts)
      BY <1>2, <1>3, <2>1
    <3>3. SubSeq(parts, 1, i) = SubSeq(parts, 1, i - 1) \o <<parts[i]>>
      BY <3>1, <3>2, SubSeqRecursiveSecond
    <3>4. front \in Seq(X)
      <4>1. 1 \in Int /\ i - 1 \in Int /\ \A j \in 1 .. i - 1 : parts[j] \in X
        BY <3>1, <3>2, ElementOfSeq
      <4>2. QED
        BY <4>1, SubSeqProperties DEF front
    <3>5. Append(front, part) = front \o <<part>>
      BY <3>1, <3>4, AppendIsConcat
    <3>6. QED
      BY <3>3, <3>5 DEF front, part
  <2>9. a(i) = UnpackPart(acc, n)
    BY <1>4, <2>1 DEF acc, n
  <2>10. a(i) = [parts |-> SubSeq(parts, 1, i), rest |-> tail]
    BY <2>6, <2>7, <2>8, <2>9
  <2>11. QED
    BY <2>10 DEF tail
<1>9. 0 .. N \subseteq T
  <2> HIDE DEF T
  <2> QED
    BY <1>3, <1>7, <1>8, NumbersUpTo
<1>10. a(N) = [parts |-> SubSeq(parts, 1, N), rest |-> SubSeq(bytes, Len(bytes) + 1, Len(bytes))]
  <2>1. N \in T
    BY <1>3, <1>9
  <2>2. QED
    BY <1>2, <2>1
<1>11. SubSeq(parts, 1, N) = parts
  <2>1. SubSeq(parts, 1, Len(parts)) = parts
    BY <1>2, SubSeqFull
  <2>2. QED
    BY <1>2, <2>1
<1>12. SubSeq(bytes, Len(bytes) + 1, Len(bytes)) = <<>>
  <2>1. Len(bytes) + 1 \in Int /\ Len(bytes) \in Int /\ Len(bytes) < Len(bytes) + 1
    BY <1>3
  <2>2. QED
    BY <2>1, SubSeqEmpty
<1>13. QED
  BY <1>6, <1>10, <1>11, <1>12

(* Parts of known lengths only.                                              *)
FixedShape(parts) == [i \in DOMAIN parts |-> Len(parts[i])]

AllFixed(parts, bytes) == parts \in Seq(Seq(Byte)) /\ Packed(FixedShape(parts), parts, bytes)

(* The shape of two lists is the one of the list of both.                    *)
LEMMA FixedShapeConcat ==
  ASSUME NEW p1 \in Seq(Seq(Byte)), NEW p2 \in Seq(Seq(Byte))
  PROVE  FixedShape(p1 \o p2) = FixedShape(p1) \o FixedShape(p2)
<1> DEFINE X  == Seq(Byte)
           N1 == Len(p1)
           N2 == Len(p2)
           both == p1 \o p2
           s1 == FixedShape(p1)
           s2 == FixedShape(p2)
           s  == FixedShape(both)
<1>1. \A part \in X : Len(part) \in Nat
  BY LenProperties
<1>2. /\ N1 \in Nat /\ DOMAIN p1 = 1 .. N1 /\ \A i \in 1 .. N1 : p1[i] \in X
      /\ N2 \in Nat /\ DOMAIN p2 = 1 .. N2 /\ \A i \in 1 .. N2 : p2[i] \in X
  BY LenProperties, ElementOfSeq
<1>3. /\ both \in Seq(X) /\ Len(both) = N1 + N2
      /\ \A i \in 1 .. N1 + N2 : both[i] = IF i <= N1 THEN p1[i] ELSE p2[i - N1]
  BY ConcatProperties
<1> HIDE DEF X, N1, N2, both
<1>4. DOMAIN both = 1 .. N1 + N2 /\ \A i \in 1 .. N1 + N2 : both[i] \in X
  BY <1>3, LenProperties, ElementOfSeq
<1>5. /\ s1 = [i \in 1 .. N1 |-> Len(p1[i])] /\ s2 = [i \in 1 .. N2 |-> Len(p2[i])]
      /\ s = [i \in 1 .. N1 + N2 |-> Len(both[i])]
  BY <1>2, <1>4 DEF FixedShape
<1> HIDE DEF s1, s2, s
<1>6. s1 \in Seq(Nat) /\ Len(s1) = N1
  <2>1. \A i \in 1 .. N1 : Len(p1[i]) \in Nat
    BY <1>1, <1>2
  <2>2. s1 = [i \in 1 .. N1 |-> Len(p1[i])] /\ N1 \in Nat
    BY <1>2, <1>5
  <2>3. QED
    BY <2>1, <2>2
<1>7. s2 \in Seq(Nat) /\ Len(s2) = N2
  <2>1. \A i \in 1 .. N2 : Len(p2[i]) \in Nat
    BY <1>1, <1>2
  <2>2. s2 = [i \in 1 .. N2 |-> Len(p2[i])] /\ N2 \in Nat
    BY <1>2, <1>5
  <2>3. QED
    BY <2>1, <2>2
<1>8. s \in Seq(Nat) /\ Len(s) = N1 + N2
  <2>1. N1 + N2 \in Nat
    BY <1>2
  <2>2. QED
    BY <1>1, <1>4, <1>5, <2>1
<1> DEFINE t == s1 \o s2
<1>9. /\ t \in Seq(Nat) /\ Len(t) = N1 + N2
      /\ \A i \in 1 .. N1 + N2 : t[i] = IF i <= N1 THEN s1[i] ELSE s2[i - N1]
  BY <1>6, <1>7, ConcatProperties
<1> HIDE DEF t
<1>10. ASSUME NEW i \in 1 .. N1 + N2 PROVE s[i] = t[i]
  <2>1. CASE i <= N1
    <3>1. i \in 1 .. N1
      BY <1>2, <2>1
    <3>2. s[i] = Len(p1[i]) /\ t[i] = s1[i] /\ s1[i] = Len(p1[i])
      BY <1>3, <1>5, <1>9, <2>1, <3>1
    <3>3. QED
      BY <3>2
  <2>2. CASE ~(i <= N1)
    <3> DEFINE j == i - N1
    <3>1. j \in 1 .. N2
      BY <1>2, <2>2
    <3>2. s[i] = Len(p2[j]) /\ t[i] = s2[j]
      BY <1>3, <1>5, <1>9, <2>2
    <3>3. s2[j] = Len(p2[j])
      BY <1>5, <3>1
    <3>4. QED
      BY <3>2, <3>3
  <2>3. QED
    BY <2>1, <2>2
<1>11. s = t
  BY <1>8, <1>9, <1>10, SeqEqual
<1>12. QED
  BY <1>11 DEF s, t, s1, s2, both

(* Lists of such parts, one behind the other.                                *)
LEMMA FixedConcat ==
  ASSUME NEW p1, NEW b1, NEW p2, NEW b2, AllFixed(p1, b1), AllFixed(p2, b2)
  PROVE  AllFixed(p1 \o p2, b1 \o b2)
<1>1. /\ p1 \in Seq(Seq(Byte)) /\ Packed(FixedShape(p1), p1, b1)
      /\ p2 \in Seq(Seq(Byte)) /\ Packed(FixedShape(p2), p2, b2)
  BY DEF AllFixed
<1>2. FixedShape(p1 \o p2) = FixedShape(p1) \o FixedShape(p2)
  BY <1>1, FixedShapeConcat
<1>3. Packed(FixedShape(p1) \o FixedShape(p2), p1 \o p2, b1 \o b2)
  BY <1>1, PackedConcat
<1>4. p1 \o p2 \in Seq(Seq(Byte))
  BY <1>1, ConcatProperties
<1>5. QED
  BY <1>2, <1>3, <1>4 DEF AllFixed

(* A field is such a part.                                                   *)
LEMMA FixedOne ==
  ASSUME NEW part \in Seq(Byte), Len(part) # 0
  PROVE  AllFixed(<<part>>, part) /\ FixedShape(<<part>>) = <<Len(part)>>
<1> DEFINE n == Len(part)
           parts == <<part>>
<1>1. n \in Nat /\ n # 0
  BY LenProperties
<1>2. FixedShape(parts) = <<n>>
  <2>1. DOMAIN parts = 1 .. 1 /\ parts[1] = part
    OBVIOUS
  <2> HIDE DEF parts
  <2>2. FixedShape(parts) = [i \in 1 .. 1 |-> n]
    BY <2>1 DEF FixedShape
  <2> HIDE DEF n
  <2>3. [i \in 1 .. 1 |-> n] = <<n>>
    OBVIOUS
  <2>4. QED
    BY <2>2, <2>3
<1>3. Piece(n, part) = part
  BY <1>1 DEF Piece
<1>4. parts \in Seq(Seq(Byte))
  OBVIOUS
<1> HIDE DEF n, parts
<1>5. IF n = 0 THEN Len(part) < Base * Base ELSE n = Len(part)
  BY <1>1 DEF n
<1>6. Packed(<<n>>, <<part>>, Piece(n, part))
  BY <1>1, <1>3, <1>5, PackedOne
<1>7. QED
  BY <1>2, <1>3, <1>4, <1>6 DEF AllFixed, parts, n

(* Where there is no such part.                                              *)
LEMMA FixedNone == AllFixed(<<>>, <<>>)
<1> DEFINE none == <<>>
           shape == FixedShape(none)
           at == [i \in 0 .. 0 |-> 0]
<1>1. none \in Seq(Seq(Byte)) /\ none \in Seq(Nat) /\ none \in Seq(Byte) /\ Len(none) = 0
  BY EmptySeq
<1>2. shape = none
  BY DEF FixedShape
<1>3. at \in [0 .. 0 -> 0 .. 0] /\ at[0] = 0
  OBVIOUS
<1> HIDE DEF none, shape, at
<1>4. \A i \in 1 .. 0 : FALSE
  OBVIOUS
<1>5. PackedAt(none, none, none, at)
  BY <1>1, <1>3, <1>4 DEF PackedAt
<1>6. QED
  BY <1>1, <1>2, <1>5 DEF AllFixed, Packed, none, shape

(* One more field.                                                           *)
LEMMA FixedMore ==
  ASSUME NEW parts, NEW bytes, AllFixed(parts, bytes), NEW part \in Seq(Byte), Len(part) # 0
  PROVE  AllFixed(Append(parts, part), bytes \o part)
<1>1. AllFixed(<<part>>, part)
  BY FixedOne
<1>2. AllFixed(parts \o <<part>>, bytes \o part)
  BY <1>1, FixedConcat
<1> DEFINE X == Seq(Byte)
<1>3. parts \in Seq(X) /\ part \in X
  BY DEF AllFixed
<1> HIDE DEF X
<1>4. Append(parts, part) = parts \o <<part>>
  BY <1>3, AppendIsConcat
<1>5. QED
  BY <1>2, <1>4

(* A parameter behind its length.                                            *)
LEMMA PackedPrefix ==
  ASSUME NEW part \in Seq(Byte), Prefixed(part).ok
  PROVE  Packed(<<0>>, <<part>>, Prefixed(part).val)
<1> DEFINE n == Len(part)
           digits == <<n \div Base, n % Base>>
           both == digits \o part
<1>1. n \in Nat /\ Base * Base \in Nat
  BY LenProperties, WireAssumption
<1>2. ~(n >= Base * Base)
  BY PrefixedOk
<1>3. n < Base * Base
  BY <1>1, <1>2
<1>4. Prefixed(part).val = both
  <2>1. I2osp2(n) = [ok |-> TRUE, val |-> digits]
    BY <1>2 DEF I2osp2, Ok
  <2> HIDE DEF digits
  <2>2. I2osp2(n).ok = TRUE /\ I2osp2(n).val = digits
    BY <2>1
  <2>3. Prefixed(part) = [ok |-> TRUE, val |-> both]
    BY <2>2 DEF Prefixed, Ok
  <2> HIDE DEF both
  <2>4. QED
    BY <2>3
<1>5. Piece(0, part) = both
  BY DEF Piece
<1>6. 0 \in Nat /\ Piece(0, part) \in Seq(Byte)
  BY <1>3, PieceIsBytes
<1>7. Packed(<<0>>, <<part>>, Piece(0, part))
  BY <1>3, <1>6, PackedOne
<1>8. QED
  BY <1>4, <1>5, <1>7

(* One or two parameters behind something of a known length.                 *)
LEMMA PackedHead ==
  ASSUME NEW head \in Seq(Byte), Len(head) # 0, NEW a \in Seq(Byte), Prefixed(a).ok,
         NEW b \in Seq(Byte), Prefixed(b).ok
  PROVE  /\ Packed(<<Len(head), 0>>, <<head, a>>, head \o Prefixed(a).val)
         /\ Packed(<<Len(head), 0, 0>>, <<head, a, b>>, head \o Prefixed(a).val \o Prefixed(b).val)
<1> DEFINE n == Len(head)
           pa == Prefixed(a).val
           pb == Prefixed(b).val
<1>1. FixedShape(<<head>>) = <<n>> /\ AllFixed(<<head>>, head)
  BY FixedOne
<1>2. Packed(<<n>>, <<head>>, head)
  BY <1>1 DEF AllFixed
<1>3. Packed(<<0>>, <<a>>, pa) /\ Packed(<<0>>, <<b>>, pb)
  BY PackedPrefix
<1> HIDE DEF n, pa, pb
<1>4. Packed(<<n>> \o <<0>>, <<head>> \o <<a>>, head \o pa)
  BY <1>2, <1>3, PackedConcat
<1>5. <<n>> \o <<0>> = <<n, 0>> /\ <<head>> \o <<a>> = <<head, a>>
  BY TupleOfTwo
<1>6. Packed(<<n, 0>>, <<head, a>>, head \o pa)
  BY <1>4, <1>5
<1>7. Packed(<<n, 0>> \o <<0>>, <<head, a>> \o <<b>>, head \o pa \o pb)
  BY <1>3, <1>6, PackedConcat
<1>8. <<n, 0>> \o <<0>> = <<n, 0, 0>> /\ <<head, a>> \o <<b>> = <<head, a, b>>
  BY TupleOfThree
<1>9. QED
  BY <1>6, <1>7, <1>8 DEF n, pa, pb

(* The fields a party looks at, none of them empty.                          *)
Filled(f) == \A g \in Fields : f[g] \in Seq(Byte) /\ Len(f[g]) # 0

Request(f) == <<f["blinded_element"], f["client_nonce"], f["client_e_pk"]>>

Answer(f) == << f["evaluation_element"], f["masking_nonce"], f["masked_nonce"],
                f["masked_hash"], f["masked_pk"], f["server_nonce"], f["server_e_pk"] >>

(* A part that is written behind a list makes it longer by one.              *)
LEMMA TupleGrows ==
  ASSUME NEW X, NEW s \in Seq(X), NEW e \in X, NEW new \in Seq(X), Len(new) = Len(s) + 1,
         \A i \in 1 .. Len(s) : new[i] = s[i], new[Len(s) + 1] = e
  PROVE  Append(s, e) = new
<1> DEFINE more == Append(s, e)
<1>1. /\ more \in Seq(X) /\ Len(more) = Len(s) + 1 /\ Len(s) \in Nat
      /\ \A i \in 1 .. Len(s) : more[i] = s[i]
      /\ more[Len(s) + 1] = e
  BY AppendProperties, LenProperties
<1> HIDE DEF more
<1>2. \A i \in 1 .. Len(more) : more[i] = new[i]
  BY <1>1
<1>3. more = new
  BY <1>1, <1>2, SeqEqual
<1>4. QED
  BY <1>3 DEF more

(* A tuple with one entry more.                                              *)
LEMMA TuplesGrow ==
  ASSUME NEW a, NEW b, NEW c, NEW d, NEW e, NEW g, NEW h
  PROVE  /\ Append(<<a>>, b) = <<a, b>>
         /\ Append(<<a, b>>, c) = <<a, b, c>>
         /\ Append(<<a, b, c>>, d) = <<a, b, c, d>>
         /\ Append(<<a, b, c, d>>, e) = <<a, b, c, d, e>>
         /\ Append(<<a, b, c, d, e>>, g) = <<a, b, c, d, e, g>>
         /\ Append(<<a, b, c, d, e, g>>, h) = <<a, b, c, d, e, g, h>>
<1> DEFINE X == {a, b, c, d, e, g, h}
<1>1. Append(<<a>>, b) = <<a, b>>
  <2> DEFINE s == <<a>>
             new == <<a, b>>
  <2>1. /\ s \in Seq(X) /\ new \in Seq(X) /\ b \in X /\ Len(s) = 1 /\ Len(new) = 2
        /\ new[1] = s[1] /\ new[2] = b
    OBVIOUS
  <2> HIDE DEF s, new, X
  <2>2. Len(new) = Len(s) + 1 /\ new[Len(s) + 1] = b /\ \A i \in 1 .. Len(s) : new[i] = s[i]
    BY <2>1
  <2>3. Append(s, b) = new
    BY <2>1, <2>2, TupleGrows
  <2>4. QED
    BY <2>3 DEF s, new
<1>2. Append(<<a, b>>, c) = <<a, b, c>>
  <2> DEFINE s == <<a, b>>
             new == <<a, b, c>>
  <2>1. /\ s \in Seq(X) /\ new \in Seq(X) /\ c \in X /\ Len(s) = 2 /\ Len(new) = 3
        /\ new[1] = s[1] /\ new[2] = s[2] /\ new[3] = c
    OBVIOUS
  <2> HIDE DEF s, new, X
  <2>2. Len(new) = Len(s) + 1 /\ new[Len(s) + 1] = c /\ \A i \in 1 .. Len(s) : new[i] = s[i]
    BY <2>1
  <2>3. Append(s, c) = new
    BY <2>1, <2>2, TupleGrows
  <2>4. QED
    BY <2>3 DEF s, new
<1>3. Append(<<a, b, c>>, d) = <<a, b, c, d>>
  <2> DEFINE s == <<a, b, c>>
             new == <<a, b, c, d>>
  <2>1. /\ s \in Seq(X) /\ new \in Seq(X) /\ d \in X /\ Len(s) = 3 /\ Len(new) = 4
        /\ new[1] = s[1] /\ new[2] = s[2] /\ new[3] = s[3] /\ new[4] = d
    OBVIOUS
  <2> HIDE DEF s, new, X
  <2>2. Len(new) = Len(s) + 1 /\ new[Len(s) + 1] = d /\ \A i \in 1 .. Len(s) : new[i] = s[i]
    BY <2>1
  <2>3. Append(s, d) = new
    BY <2>1, <2>2, TupleGrows
  <2>4. QED
    BY <2>3 DEF s, new
<1>4. Append(<<a, b, c, d>>, e) = <<a, b, c, d, e>>
  <2> DEFINE s == <<a, b, c, d>>
             new == <<a, b, c, d, e>>
  <2>1. /\ s \in Seq(X) /\ new \in Seq(X) /\ e \in X /\ Len(s) = 4 /\ Len(new) = 5
        /\ new[1] = s[1] /\ new[2] = s[2] /\ new[3] = s[3] /\ new[4] = s[4] /\ new[5] = e
    OBVIOUS
  <2> HIDE DEF s, new, X
  <2>2. Len(new) = Len(s) + 1 /\ new[Len(s) + 1] = e /\ \A i \in 1 .. Len(s) : new[i] = s[i]
    BY <2>1
  <2>3. Append(s, e) = new
    BY <2>1, <2>2, TupleGrows
  <2>4. QED
    BY <2>3 DEF s, new
<1>5. Append(<<a, b, c, d, e>>, g) = <<a, b, c, d, e, g>>
  <2> DEFINE s == <<a, b, c, d, e>>
             new == <<a, b, c, d, e, g>>
  <2>1. /\ s \in Seq(X) /\ new \in Seq(X) /\ g \in X /\ Len(s) = 5 /\ Len(new) = 6
        /\ new[1] = s[1] /\ new[2] = s[2] /\ new[3] = s[3] /\ new[4] = s[4]
        /\ new[5] = s[5] /\ new[6] = g
    OBVIOUS
  <2> HIDE DEF s, new, X
  <2>2. Len(new) = Len(s) + 1 /\ new[Len(s) + 1] = g /\ \A i \in 1 .. Len(s) : new[i] = s[i]
    BY <2>1
  <2>3. Append(s, g) = new
    BY <2>1, <2>2, TupleGrows
  <2>4. QED
    BY <2>3 DEF s, new
<1>6. Append(<<a, b, c, d, e, g>>, h) = <<a, b, c, d, e, g, h>>
  <2> DEFINE s == <<a, b, c, d, e, g>>
             new == <<a, b, c, d, e, g, h>>
  <2>1. /\ s \in Seq(X) /\ new \in Seq(X) /\ h \in X /\ Len(s) = 6 /\ Len(new) = 7
        /\ new[1] = s[1] /\ new[2] = s[2] /\ new[3] = s[3] /\ new[4] = s[4]
        /\ new[5] = s[5] /\ new[6] = s[6] /\ new[7] = h
    OBVIOUS
  <2> HIDE DEF s, new, X
  <2>2. Len(new) = Len(s) + 1 /\ new[Len(s) + 1] = h /\ \A i \in 1 .. Len(s) : new[i] = s[i]
    BY <2>1
  <2>3. Append(s, h) = new
    BY <2>1, <2>2, TupleGrows
  <2>4. QED
    BY <2>3 DEF s, new
<1>7. QED
  BY <1>1, <1>2, <1>3, <1>4, <1>5, <1>6

(* A request as it is hashed.                                                *)
LEMMA RequestPacked ==
  ASSUME NEW f, Filled(f)
  PROVE  AllFixed(Request(f), f["blinded_element"] \o Ke1Bytes(f))
<1> DEFINE a == f["blinded_element"]
           b == f["client_nonce"]
           c == f["client_e_pk"]
<1>1. /\ a \in Seq(Byte) /\ Len(a) # 0 /\ b \in Seq(Byte) /\ Len(b) # 0
      /\ c \in Seq(Byte) /\ Len(c) # 0
  BY FieldNames DEF Filled
<1>2. Request(f) = <<a, b, c>> /\ Ke1Bytes(f) = b \o c
  BY DEF Request, Ke1Bytes
<1> HIDE DEF a, b, c
<1>3. AllFixed(<<a>>, a)
  BY <1>1, FixedOne
<1>4. AllFixed(Append(<<a>>, b), a \o b)
  BY <1>1, <1>3, FixedMore
<1>5. Append(<<a>>, b) = <<a, b>> /\ Append(<<a, b>>, c) = <<a, b, c>>
  BY TuplesGrow, ZenonT(30)
<1>6. AllFixed(<<a, b>>, a \o b)
  BY <1>4, <1>5
<1>7. AllFixed(<<a, b, c>>, a \o b \o c)
  <2>1. AllFixed(Append(<<a, b>>, c), a \o b \o c)
    BY <1>1, <1>6, FixedMore
  <2>2. QED
    BY <1>5, <2>1
<1>8. a \o b \o c = a \o (b \o c)
  BY <1>1, ConcatAssociative
<1>9. QED
  BY <1>2, <1>7, <1>8 DEF a

(* A response.                                                               *)
LEMMA AnswerPacked ==
  ASSUME NEW f, Filled(f)
  PROVE  AllFixed(Answer(f), CredentialResponseBytes(f) \o f["server_nonce"] \o f["server_e_pk"])
<1> DEFINE a == f["evaluation_element"]
           b == f["masking_nonce"]
           c == f["masked_nonce"]
           d == f["masked_hash"]
           e == f["masked_pk"]
           g == f["server_nonce"]
           h == f["server_e_pk"]
<1>1. /\ a \in Seq(Byte) /\ Len(a) # 0 /\ b \in Seq(Byte) /\ Len(b) # 0
      /\ c \in Seq(Byte) /\ Len(c) # 0 /\ d \in Seq(Byte) /\ Len(d) # 0
      /\ e \in Seq(Byte) /\ Len(e) # 0 /\ g \in Seq(Byte) /\ Len(g) # 0
      /\ h \in Seq(Byte) /\ Len(h) # 0
  BY FieldNames DEF Filled
<1>2. /\ Answer(f) = <<a, b, c, d, e, g, h>>
      /\ CredentialResponseBytes(f) = a \o b \o c \o d \o e
  BY DEF Answer, CredentialResponseBytes
<1> HIDE DEF a, b, c, d, e, g, h
<1>3. /\ Append(<<a>>, b) = <<a, b>> /\ Append(<<a, b>>, c) = <<a, b, c>>
      /\ Append(<<a, b, c>>, d) = <<a, b, c, d>> /\ Append(<<a, b, c, d>>, e) = <<a, b, c, d, e>>
      /\ Append(<<a, b, c, d, e>>, g) = <<a, b, c, d, e, g>>
      /\ Append(<<a, b, c, d, e, g>>, h) = <<a, b, c, d, e, g, h>>
  BY TuplesGrow
<1>4. AllFixed(<<a>>, a)
  BY <1>1, FixedOne
<1>5. AllFixed(<<a, b>>, a \o b)
  BY <1>1, <1>3, <1>4, FixedMore
<1>6. AllFixed(<<a, b, c>>, a \o b \o c)
  BY <1>1, <1>3, <1>5, FixedMore
<1>7. AllFixed(<<a, b, c, d>>, a \o b \o c \o d)
  BY <1>1, <1>3, <1>6, FixedMore
<1>8. AllFixed(<<a, b, c, d, e>>, a \o b \o c \o d \o e)
  BY <1>1, <1>3, <1>7, FixedMore
<1>9. AllFixed(<<a, b, c, d, e, g>>, a \o b \o c \o d \o e \o g)
  BY <1>1, <1>3, <1>8, FixedMore
<1>10. AllFixed(<<a, b, c, d, e, g, h>>, a \o b \o c \o d \o e \o g \o h)
  BY <1>1, <1>3, <1>9, FixedMore
<1>11. QED
  BY <1>2, <1>10 DEF g, h

KemParts(s, f) == IF Kem(s) THEN <<f["kem_ek"], f["kem_ct"]>> ELSE <<>>
KemBytes(s, f) == IF Kem(s) THEN f["kem_ek"] \o f["kem_ct"] ELSE <<>>

(* The key encapsulation, where there is one.                                *)
LEMMA KemPacked ==
  ASSUME NEW s, NEW f, Filled(f)
  PROVE  AllFixed(KemParts(s, f), KemBytes(s, f))
<1> DEFINE a == f["kem_ek"]
           b == f["kem_ct"]
<1>1. a \in Seq(Byte) /\ Len(a) # 0 /\ b \in Seq(Byte) /\ Len(b) # 0
  BY FieldNames DEF Filled
<1>2. /\ KemParts(s, f) = IF Kem(s) THEN <<a, b>> ELSE <<>>
      /\ KemBytes(s, f) = IF Kem(s) THEN a \o b ELSE <<>>
  BY DEF KemParts, KemBytes
<1> HIDE DEF a, b
<1>3. AllFixed(<<a>>, a) /\ AllFixed(<<b>>, b)
  BY <1>1, FixedOne
<1>4. AllFixed(<<a>> \o <<b>>, a \o b) /\ <<a>> \o <<b>> = <<a, b>>
  BY <1>3, FixedConcat, TupleOfTwo
<1>5. QED
  BY <1>2, <1>4, FixedNone

(* The bytes of the messages are strings of bytes.                           *)
LEMMA MessageBytes ==
  ASSUME NEW s, NEW f, Filled(f)
  PROVE  /\ f["blinded_element"] \in Seq(Byte) /\ Ke1Bytes(f) \in Seq(Byte)
         /\ CredentialResponseBytes(f) \in Seq(Byte)
         /\ f["server_nonce"] \in Seq(Byte) /\ f["server_e_pk"] \in Seq(Byte)
         /\ f["mac"] \in Seq(Byte) /\ Len(f["mac"]) # 0
         /\ KemBytes(s, f) \in Seq(Byte)
<1> DEFINE a == f["evaluation_element"]
           b == f["masking_nonce"]
           c == f["masked_nonce"]
           d == f["masked_hash"]
           e == f["masked_pk"]
           g == f["client_nonce"]
           h == f["client_e_pk"]
<1>1. /\ a \in Seq(Byte) /\ b \in Seq(Byte) /\ c \in Seq(Byte) /\ d \in Seq(Byte)
      /\ e \in Seq(Byte) /\ g \in Seq(Byte) /\ h \in Seq(Byte)
      /\ f["blinded_element"] \in Seq(Byte) /\ f["mac"] \in Seq(Byte) /\ Len(f["mac"]) # 0
      /\ f["server_nonce"] \in Seq(Byte) /\ f["server_e_pk"] \in Seq(Byte)
  BY FieldNames DEF Filled
<1>2. KemBytes(s, f) \in Seq(Byte)
  BY KemPacked DEF AllFixed, Packed, PackedAt
<1>3. Ke1Bytes(f) = g \o h /\ CredentialResponseBytes(f) = a \o b \o c \o d \o e
  BY DEF Ke1Bytes, CredentialResponseBytes
<1> HIDE DEF a, b, c, d, e, g, h
<1>4. g \o h \in Seq(Byte) /\ a \o b \in Seq(Byte)
  BY <1>1, ConcatProperties
<1>5. a \o b \o c \in Seq(Byte)
  BY <1>1, <1>4, ConcatProperties
<1>6. a \o b \o c \o d \in Seq(Byte)
  BY <1>1, <1>5, ConcatProperties
<1>7. a \o b \o c \o d \o e \in Seq(Byte)
  BY <1>1, <1>6, ConcatProperties
<1>8. QED
  BY <1>1, <1>2, <1>3, <1>4, <1>7

(* A request behind what is already there.                                   *)
LEMMA ThenRequest ==
  ASSUME NEW f, Filled(f), NEW shape, NEW parts, NEW bytes, Packed(shape, parts, bytes)
  PROVE  Packed(shape \o FixedShape(Request(f)), parts \o Request(f),
                bytes \o f["blinded_element"] \o Ke1Bytes(f))
<1> DEFINE a == f["blinded_element"]
           b == Ke1Bytes(f)
<1>1. bytes \in Seq(Byte) /\ a \in Seq(Byte) /\ b \in Seq(Byte)
  <2>1. a \in Seq(Byte) /\ b \in Seq(Byte)
    BY MessageBytes
  <2>2. bytes \in Seq(Byte)
    BY DEF Packed, PackedAt
  <2>3. QED
    BY <2>1, <2>2
<1>2. Packed(FixedShape(Request(f)), Request(f), a \o b)
  BY RequestPacked DEF AllFixed
<1> HIDE DEF a, b
<1>3. bytes \o a \o b = bytes \o (a \o b)
  BY <1>1, ConcatAssociative
<1>4. Packed(shape \o FixedShape(Request(f)), parts \o Request(f), bytes \o (a \o b))
  BY <1>2, PackedConcat
<1>5. QED
  BY <1>3, <1>4 DEF a, b

(* Concatenation is associative.                                             *)
LEMMA Rebracketed ==
  /\ \A a, b, c \in Seq(Byte) : (a \o b) \o c = a \o (b \o c)
  /\ \A a, b, c \in Seq(Nat) : (a \o b) \o c = a \o (b \o c)
<1>1. ASSUME NEW a \in Seq(Byte), NEW b \in Seq(Byte), NEW c \in Seq(Byte)
      PROVE  (a \o b) \o c = a \o (b \o c)
  BY ConcatAssociative
<1>2. ASSUME NEW a \in Seq(Nat), NEW b \in Seq(Nat), NEW c \in Seq(Nat)
      PROVE  (a \o b) \o c = a \o (b \o c)
  BY ConcatAssociative
<1>3. QED
  BY <1>1, <1>2

(* A response behind what is already there.                                  *)
LEMMA ThenAnswer ==
  ASSUME NEW f, Filled(f), NEW shape, NEW parts, NEW bytes, Packed(shape, parts, bytes)
  PROVE  Packed(shape \o FixedShape(Answer(f)), parts \o Answer(f),
                bytes \o CredentialResponseBytes(f) \o f["server_nonce"] \o f["server_e_pk"])
<1> DEFINE a == CredentialResponseBytes(f)
           b == f["server_nonce"]
           c == f["server_e_pk"]
<1>1. bytes \in Seq(Byte) /\ a \in Seq(Byte) /\ b \in Seq(Byte) /\ c \in Seq(Byte)
  <2>1. a \in Seq(Byte) /\ b \in Seq(Byte) /\ c \in Seq(Byte)
    BY MessageBytes
  <2>2. bytes \in Seq(Byte)
    BY DEF Packed, PackedAt
  <2>3. QED
    BY <2>1, <2>2
<1>2. Packed(FixedShape(Answer(f)), Answer(f), a \o b \o c)
  BY AnswerPacked DEF AllFixed
<1> HIDE DEF a, b, c
<1>3. bytes \o a \o b \o c = bytes \o (a \o b \o c)
  <2> DEFINE ab == a \o b
  <2>1. bytes \o a \o b = bytes \o ab
    BY <1>1, ConcatAssociative
  <2>2. ab \in Seq(Byte)
    BY <1>1, ConcatProperties
  <2> HIDE DEF ab
  <2>3. bytes \o ab \o c = bytes \o (ab \o c)
    <3>1. bytes \in Seq(Byte) /\ ab \in Seq(Byte) /\ c \in Seq(Byte)
      BY <1>1, <2>2
    <3>2. QED
      BY <3>1, Rebracketed
  <2>4. QED
    BY <2>1, <2>3 DEF ab
<1>4. Packed(shape \o FixedShape(Answer(f)), parts \o Answer(f), bytes \o (a \o b \o c))
  BY <1>2, PackedConcat
<1>5. QED
  BY <1>3, <1>4 DEF a, b, c

(* The four strings that are hashed, signed or authenticated.                *)
LEMMA HashedPacked ==
  ASSUME NEW s, NEW f, Filled(f), NEW pk \in Seq(Byte), Len(pk) # 0,
         NEW context \in Seq(Byte), Prefixed(context).ok,
         NEW client \in Seq(Byte), Prefixed(client).ok,
         NEW server \in Seq(Byte), Prefixed(server).ok
  PROVE  LET pm == Prefixed(context).val
             pc == Prefixed(client).val
             ps == Prefixed(server).val
             known == <<Len(StrContext), 0>>
             named == <<Len(StrContext), 0, 0>>
             request == FixedShape(Request(f))
             answer == FixedShape(Answer(f))
         IN  /\ Packed(<<Len(pk), 0, 0>>, <<pk, server, client>>, AadBytes(pk, pc, ps))
             /\ Packed(named \o request \o <<0>> \o FixedShape(Answer(f) \o KemParts(s, f)),
                       <<StrContext, context, client>> \o Request(f) \o <<server>> \o Answer(f)
                         \o KemParts(s, f),
                       TranscriptBytes(s, f, pm, pc, ps))
             /\ Packed(known \o request \o <<0>> \o answer,
                       <<StrContext, context>> \o Request(f) \o <<server>> \o Answer(f),
                       SignedBytes("Server", f, pm, ps))
             /\ Packed(named \o request \o answer \o <<Len(f["mac"])>>,
                       <<StrContext, context, client>> \o Request(f) \o Answer(f) \o <<f["mac"]>>,
                       SignedBytes("Client", f, pm, pc))
<1> DEFINE pm == Prefixed(context).val
           pc == Prefixed(client).val
           ps == Prefixed(server).val
           known == <<Len(StrContext), 0>>
           named == <<Len(StrContext), 0, 0>>
           knownParts == <<StrContext, context>>
           namedParts == <<StrContext, context, client>>
           knownBytes == StrContext \o pm
           namedBytes == StrContext \o pm \o pc
           request == FixedShape(Request(f))
           answer == FixedShape(Answer(f))
           be == f["blinded_element"]
           ke1 == Ke1Bytes(f)
           cr == CredentialResponseBytes(f)
           sn == f["server_nonce"]
           se == f["server_e_pk"]
           mac == f["mac"]
<1>1. StrContext \in Seq(Byte) /\ Len(StrContext) # 0
  <2>1. 1 \in Byte
    BY WireAssumption DEF Byte
  <2>2. QED
    BY <2>1 DEF StrContext
<1>2. /\ Packed(known, knownParts, knownBytes)
      /\ Packed(named, namedParts, namedBytes)
  BY <1>1, PackedHead
<1>3. Packed(<<0>>, <<server>>, ps)
  BY PackedPrefix
<1>4. /\ Packed(<<Len(mac)>>, <<mac>>, mac)
      /\ mac \in Seq(Byte) /\ Len(mac) # 0
  <2>1. mac \in Seq(Byte) /\ Len(mac) # 0
    BY MessageBytes
  <2> HIDE DEF mac
  <2>2. FixedShape(<<mac>>) = <<Len(mac)>> /\ AllFixed(<<mac>>, mac)
    BY <2>1, FixedOne
  <2>3. QED
    BY <2>1, <2>2 DEF AllFixed
<1>5. Packed(<<Len(pk), 0, 0>>, <<pk, server, client>>, AadBytes(pk, pc, ps))
  BY PackedHead DEF AadBytes
<1>6. AllFixed(KemParts(s, f), KemBytes(s, f)) /\ AllFixed(Answer(f), cr \o sn \o se)
  BY KemPacked, AnswerPacked
<1> HIDE DEF known, named, knownParts, namedParts, knownBytes, namedBytes, pm, pc, ps
<1>7. /\ Packed(known \o request, knownParts \o Request(f), knownBytes \o be \o ke1)
      /\ Packed(named \o request, namedParts \o Request(f), namedBytes \o be \o ke1)
  BY <1>2, ThenRequest
<1> HIDE DEF request, be, ke1
<1>8. /\ Packed(known \o request \o <<0>>, knownParts \o Request(f) \o <<server>>,
                knownBytes \o be \o ke1 \o ps)
      /\ Packed(named \o request \o <<0>>, namedParts \o Request(f) \o <<server>>,
                namedBytes \o be \o ke1 \o ps)
  BY <1>3, <1>7, PackedConcat
<1>9. /\ Packed(known \o request \o <<0>> \o answer,
                knownParts \o Request(f) \o <<server>> \o Answer(f),
                knownBytes \o be \o ke1 \o ps \o cr \o sn \o se)
      /\ Packed(named \o request \o <<0>> \o answer,
                namedParts \o Request(f) \o <<server>> \o Answer(f),
                namedBytes \o be \o ke1 \o ps \o cr \o sn \o se)
      /\ Packed(named \o request \o answer, namedParts \o Request(f) \o Answer(f),
                namedBytes \o be \o ke1 \o cr \o sn \o se)
  BY <1>7, <1>8, ThenAnswer
<1> HIDE DEF answer, cr, sn, se
<1> DEFINE serverFront == knownBytes \o be \o ke1 \o ps \o cr \o sn \o se
           clientFront == namedBytes \o be \o ke1
           whole == namedBytes \o be \o ke1 \o ps \o cr \o sn \o se
           front == named \o request \o <<0>>
           kem == KemParts(s, f)
           kemBytes == KemBytes(s, f)
           kemShape == FixedShape(kem)
<1>10. FixedShape(Answer(f) \o kem) = answer \o kemShape
  BY <1>6, FixedShapeConcat DEF AllFixed, answer
<1>11. front \o answer \o kemShape = front \o (answer \o kemShape)
  <2>1. \A shape, parts, bytes : Packed(shape, parts, bytes) => shape \in Seq(Nat)
    BY DEF Packed, PackedAt
  <2>2. front \in Seq(Nat) /\ answer \in Seq(Nat) /\ kemShape \in Seq(Nat)
    BY <1>6, <1>8, <2>1 DEF AllFixed, answer
  <2> HIDE DEF front, kemShape
  <2>3. QED
    BY <2>2, Rebracketed
<1>12. Packed(front \o FixedShape(Answer(f) \o kem),
              namedParts \o Request(f) \o <<server>> \o Answer(f) \o kem, whole \o kemBytes)
  <2>1. Packed(kemShape, kem, kemBytes)
    BY <1>6 DEF AllFixed
  <2> HIDE DEF kemShape, kem, kemBytes
  <2>2. Packed(front \o answer \o kemShape,
               namedParts \o Request(f) \o <<server>> \o Answer(f) \o kem, whole \o kemBytes)
    BY <1>9, <2>1, PackedConcat
  <2>3. QED
    BY <1>10, <1>11, <2>2
<1>13. TranscriptBytes(s, f, pm, pc, ps) = whole \o kemBytes
  BY DEF TranscriptBytes, KemBytes, namedBytes, be, ke1, cr, sn, se
<1>14. SignedBytes("Server", f, pm, ps) = serverFront
  <2>1. SignedBytes("Server", f, pm, ps)
          = knownBytes \o <<>> \o be \o ke1 \o ps \o cr \o sn \o se \o <<>>
    BY DEF SignedBytes, knownBytes, be, ke1, cr, sn, se
  <2>2. knownBytes \in Seq(Byte) /\ serverFront \in Seq(Byte)
    <3> HIDE DEF serverFront
    <3>1. Packed(known \o request \o <<0>> \o answer,
                 knownParts \o Request(f) \o <<server>> \o Answer(f), serverFront)
      BY <1>9 DEF serverFront
    <3>2. QED
      BY <1>2, <3>1 DEF Packed, PackedAt
  <2>3. knownBytes \o <<>> = knownBytes
    BY <2>2, ConcatEmptySeq
  <2>4. serverFront \o <<>> = serverFront
    <3> HIDE DEF serverFront
    <3>1. QED
      BY <2>2, ConcatEmptySeq
  <2>5. QED
    BY <2>1, <2>3, <2>4
<1>15. SignedBytes("Client", f, pm, pc) = clientFront \o cr \o sn \o se \o mac
  <2>1. SignedBytes("Client", f, pm, pc) = clientFront \o <<>> \o cr \o sn \o se \o mac
    BY DEF SignedBytes, namedBytes, be, ke1, cr, sn, se
  <2>2. clientFront \in Seq(Byte)
    <3> HIDE DEF clientFront
    <3>1. Packed(named \o request, namedParts \o Request(f), clientFront)
      BY <1>7 DEF clientFront
    <3>2. QED
      BY <3>1 DEF Packed, PackedAt
  <2>3. clientFront \o <<>> = clientFront
    <3> HIDE DEF clientFront
    <3>1. QED
      BY <2>2, ConcatEmptySeq
  <2>4. QED
    BY <2>1, <2>3
<1>16. Packed(named \o request \o answer \o <<Len(mac)>>,
              namedParts \o Request(f) \o Answer(f) \o <<mac>>,
              clientFront \o cr \o sn \o se \o mac)
  BY <1>4, <1>9, PackedConcat
<1>17. QED
  BY <1>5, <1>9, <1>12, <1>13, <1>14, <1>15, <1>16
     DEF known, named, knownParts, namedParts, request, answer, pm, pc, ps

(* Whatever arrived, the client sees a string of bytes in every field.       *)
LEMMA ViewFilled ==
  ASSUME WInv, reader.outcome = "read"
  PROVE  Filled(ClientView)
<1> DEFINE written == Written(suite)[type]
           N == Len(written)
           L(i) == Len(WrittenUpTo(suite, type, sent, i))
           taken == reader.taken
           known == {taken[i].field : i \in DOMAIN taken}
           Good(bytes) == bytes \in Seq(Byte) /\ Len(bytes) # 0
<1>1. suite \in Suites /\ type \in Types /\ input \in Seq(Byte) /\ Len(input) \in Nat
  BY LenProperties DEF WInv
<1>2. /\ SentWell(suite, sent) /\ N \in Nat
      /\ Sliced(suite, type, sent, input, N, reader)
  BY ReaderDeserialized, ReadWhole
<1>3. \A f \in Fields : Good(sent[f])
  <2>1. TAKE f \in Fields
  <2>2. sent[f] \in Seq(Byte) /\ Len(sent[f]) = FieldWidth(suite, f)
    BY <1>2 DEF SentWell
  <2>3. QED
    BY <2>2, FieldWidths
<1>4. \A i \in 1 .. N : written[i] \in Fields /\ FieldWidth(suite, written[i]) \in Nat \ {0}
  BY <1>1, FormatFields, FieldWidths
<1>5. /\ \A i \in 1 .. N : L(i) = L(i - 1) + FieldWidth(suite, written[i])
      /\ \A i \in 0 .. N : L(i) \in Nat /\ L(i) <= L(N)
  BY <1>1, <1>2, WrittenStays
<1>6. /\ taken \in Seq([field : Fields, bytes : Seq(Byte)]) /\ Len(taken) = N
      /\ L(N) <= Len(input)
      /\ \A i \in 1 .. N :
           taken[i] = [field |-> written[i], bytes |-> SubSeq(input, L(i - 1) + 1, L(i))]
  BY <1>2 DEF Sliced
<1> HIDE DEF written, N, L, taken
<1>7. ASSUME NEW i \in 1 .. N PROVE Good(taken[i].bytes)
  <2> DEFINE a == L(i - 1)
             b == L(i)
             slice == SubSeq(input, a + 1, b)
  <2>1. i - 1 \in 0 .. N /\ i \in 0 .. N
    BY <1>2
  <2>2. a \in Nat /\ b \in Nat /\ b <= L(N) /\ L(N) \in Nat /\ a < b
    BY <1>2, <1>4, <1>5, <2>1
  <2>3. a <= b /\ b <= Len(input)
    BY <1>1, <1>6, <2>2
  <2>4. taken[i].bytes = slice
    BY <1>6
  <2> HIDE DEF a, b
  <2>5. slice \in Seq(Byte) /\ Len(slice) = b - a
    BY <1>1, <2>2, <2>3, Slices
  <2> HIDE DEF slice
  <2>6. QED
    BY <2>2, <2>4, <2>5
<1>8. DOMAIN taken = 1 .. N
  BY <1>2, <1>6, LenProperties
<1>9. \A f \in known : Good(Bytes(taken, f))
  <2>1. TAKE f \in known
  <2>2. PICK m \in 1 .. N : taken[m].field = f
    BY <1>8
  <2>3. PICK i \in 1 .. N : taken[i].field = f /\ Bytes(taken, f) = taken[i].bytes
    BY <1>2, <1>8, <2>2, BytesByName
  <2>4. QED
    BY <1>7, <2>3
<1>10. ClientView = [f \in Fields |-> IF f \in known THEN Bytes(taken, f) ELSE sent[f]]
  BY DEF ClientView, taken
<1> HIDE DEF known
<1>11. \A f \in Fields : \/ ClientView[f] = Bytes(taken, f) /\ f \in known
                         \/ ClientView[f] = sent[f]
  BY <1>10
<1>12. QED
  BY <1>3, <1>9, <1>11 DEF Filled

(* Whatever the parameters, the strings that are hashed are taken apart into *)
(* the parts they were made of, and by the lengths of the fields alone: they *)
(* have one reading.                                                         *)
THEOREM HashedOneWay == Spec => []HashedUnambiguous
<1>1. WInv => HashedUnambiguous
  <2>1. SUFFICES ASSUME WInv, finish.outcome = "hashed"
                 PROVE  HashedUnambiguous
    BY DEF HashedUnambiguous
  <2>2. finish # NotFinished
    BY <2>1 DEF NotFinished
  <2>3. reader.outcome = "read" /\ suite \in Suites /\ SentWell(suite, sent)
    BY <2>1, <2>2, SentFields DEF WInv
  <2>4. PICK given \in Contexts, client_id \in Ids, server_id \in Ids :
          finish = FinishWith(given, [client |-> client_id, server |-> server_id])
    BY <2>1, <2>2 DEF WInv
  <2> DEFINE f == ClientView
             ids == [client |-> client_id, server |-> server_id]
             opened == UnmaskResponse(suite, Pad(f["evaluation_element"], f["masking_nonce"]),
                         f["masked_nonce"] \o f["masked_hash"] \o f["masked_pk"])
             pk == sent["server_s_pk"]
             context == IF given = None THEN <<>> ELSE given
             client == IF client_id = None THEN sent["client_s_pk"] ELSE client_id
             server == IF server_id = None THEN pk ELSE server_id
             Ends(outcome, h) == [outcome |-> outcome, context |-> given, ids |-> ids, hashed |-> h]
             opens == /\ f["evaluation_element"] = sent["evaluation_element"]
                      /\ \A g \in DOMAIN opened : opened[g] = sent[g]
             theirs == IF server_id = None THEN opened.server_s_pk ELSE server_id
             hashed == Hashed(f, opened.server_s_pk, Prefixed(context).val, Prefixed(client).val,
                              Prefixed(theirs).val)
  <2>5. finish = IF f["evaluation_element"] = sent["blinded_element"]
                   THEN Ends("ReflectedValueError", None)
                 ELSE IF ToSet(opened.server_s_pk) = {0} THEN Ends("InvalidLoginError", None)
                 ELSE IF ~Prefixed(client).ok \/ ~Prefixed(theirs).ok
                   THEN Ends("SerializationError", None)
                 ELSE IF ~opens THEN Ends("InvalidLoginError", None)
                 ELSE IF ~Prefixed(context).ok THEN Ends("SerializationError", None)
                 ELSE Ends("hashed", hashed)
    <3>1. ids.client = client_id /\ ids.server = server_id
      OBVIOUS
    <3> HIDE DEF f, ids, opened
    <3>2. /\ SerializedIdentifier(ids.client, sent["client_s_pk"]) = Prefixed(client)
          /\ SerializedIdentifier(ids.server, opened.server_s_pk) = Prefixed(theirs)
          /\ SerializedContext(given) = Prefixed(context)
      BY <3>1 DEF SerializedIdentifier, SerializedContext
    <3>3. finish =
            IF f["evaluation_element"] = sent["blinded_element"]
              THEN Ends("ReflectedValueError", None)
            ELSE IF ToSet(opened.server_s_pk) = {0} THEN Ends("InvalidLoginError", None)
            ELSE IF ~SerializedIdentifier(ids.client, sent["client_s_pk"]).ok
                      \/ ~SerializedIdentifier(ids.server, opened.server_s_pk).ok
              THEN Ends("SerializationError", None)
            ELSE IF ~opens THEN Ends("InvalidLoginError", None)
            ELSE IF ~SerializedContext(given).ok THEN Ends("SerializationError", None)
            ELSE Ends("hashed",
                      Hashed(f, opened.server_s_pk, SerializedContext(given).val,
                             SerializedIdentifier(ids.client, sent["client_s_pk"]).val,
                             SerializedIdentifier(ids.server, opened.server_s_pk).val))
      BY <2>4 DEF FinishWith, f, ids, opened
    <3> HIDE DEF Ends, opens, client, theirs, context
    <3>4. QED
      BY <3>2, <3>3
  <2>6. DOMAIN opened = {"server_s_pk", "envelope_nonce", "envelope_hmac"}
        /\ opened.server_s_pk = opened["server_s_pk"]
    BY DEF UnmaskResponse
  <2> HIDE DEF f, opened, hashed, ids, context, client, theirs
  <2>7. /\ Prefixed(client).ok /\ Prefixed(theirs).ok /\ Prefixed(context).ok
        /\ opens /\ finish = Ends("hashed", hashed)
    <3>1. \A outcome, h : Ends(outcome, h).outcome = outcome
      OBVIOUS
    <3> HIDE DEF Ends, opens
    <3>2. QED
      BY <2>1, <2>5, <3>1
  <2>8. opened.server_s_pk = pk
    BY <2>6, <2>7
  <2>9. theirs = server
    BY <2>8 DEF theirs
  <2>10. /\ finish.context = given /\ finish.ids.client = client_id /\ finish.ids.server = server_id
         /\ finish.hashed = hashed
    <3>1. ids.client = client_id /\ ids.server = server_id
      BY DEF ids
    <3>2. \A outcome, h : /\ Ends(outcome, h).context = given /\ Ends(outcome, h).ids = ids
                          /\ Ends(outcome, h).hashed = h
      OBVIOUS
    <3> HIDE DEF Ends
    <3>3. finish.context = given /\ finish.ids = ids /\ finish.hashed = hashed
      BY <2>7, <3>2
    <3>4. QED
      BY <3>1, <3>3
  <2>11. Filled(f)
    BY <2>1, <2>3, ViewFilled DEF f
  <2>12. pk \in Seq(Byte) /\ Len(pk) # 0 /\ sent["client_s_pk"] \in Seq(Byte)
    <3>1. {"server_s_pk", "client_s_pk"} \subseteq Fields
      BY FieldNames
    <3>2. pk \in Seq(Byte) /\ Len(pk) = FieldWidth(suite, "server_s_pk")
          /\ sent["client_s_pk"] \in Seq(Byte)
      BY <2>3, <3>1 DEF SentWell
    <3>3. FieldWidth(suite, "server_s_pk") \in Nat \ {0}
      BY <3>1, FieldWidths
    <3>4. QED
      BY <3>2, <3>3
  <2>13. context \in Seq(Byte) /\ client \in Seq(Byte) /\ server \in Seq(Byte)
    <3>1. \A given_param \in Ids \cup Contexts : given_param = None \/ given_param \in Seq(Byte)
      BY WireAssumption
    <3>2. <<>> \in Seq(Byte)
      BY EmptySeq
    <3>3. QED
      BY <2>12, <3>1, <3>2 DEF context, client
  <2> DEFINE pm == Prefixed(context).val
             pc == Prefixed(client).val
             ps == Prefixed(server).val
             request == FixedShape(Request(f))
             answer == FixedShape(Answer(f))
             kem == KemParts(suite, f)
  <2>14. /\ finish.hashed.aad = AadBytes(pk, pc, ps)
         /\ finish.hashed.transcript = TranscriptBytes(suite, f, pm, pc, ps)
         /\ finish.hashed.server_signed = SignedBytes("Server", f, pm, ps)
         /\ finish.hashed.client_signed = SignedBytes("Client", f, pm, pc)
    <3>1. finish.hashed = Hashed(f, pk, pm, pc, ps)
      BY <2>8, <2>9, <2>10 DEF hashed
    <3> HIDE DEF pk, pm, pc, ps
    <3>2. QED
      BY <3>1 DEF Hashed
  <2> HIDE DEF pk, server
  <2>15. /\ Packed(<<Len(pk), 0, 0>>, <<pk, server, client>>, finish.hashed.aad)
         /\ Packed(<<Len(StrContext), 0, 0>> \o request \o <<0>> \o FixedShape(Answer(f) \o kem),
                   <<StrContext, context, client>> \o Request(f) \o <<server>> \o Answer(f) \o kem,
                   finish.hashed.transcript)
         /\ Packed(<<Len(StrContext), 0>> \o request \o <<0>> \o answer,
                   <<StrContext, context>> \o Request(f) \o <<server>> \o Answer(f),
                   finish.hashed.server_signed)
         /\ Packed(<<Len(StrContext), 0, 0>> \o request \o answer \o <<Len(f["mac"])>>,
                   <<StrContext, context, client>> \o Request(f) \o Answer(f) \o <<f["mac"]>>,
                   finish.hashed.client_signed)
    <3>1. /\ Prefixed(context).ok /\ Prefixed(client).ok /\ Prefixed(server).ok
          /\ pk \in Seq(Byte) /\ Len(pk) # 0
      BY <2>7, <2>9, <2>12
    <3>2. /\ Packed(<<Len(pk), 0, 0>>, <<pk, server, client>>, AadBytes(pk, pc, ps))
          /\ Packed(<<Len(StrContext), 0, 0>> \o request \o <<0>> \o FixedShape(Answer(f) \o kem),
                    <<StrContext, context, client>> \o Request(f) \o <<server>> \o Answer(f) \o kem,
                    TranscriptBytes(suite, f, pm, pc, ps))
          /\ Packed(<<Len(StrContext), 0>> \o request \o <<0>> \o answer,
                    <<StrContext, context>> \o Request(f) \o <<server>> \o Answer(f),
                    SignedBytes("Server", f, pm, ps))
          /\ Packed(<<Len(StrContext), 0, 0>> \o request \o answer \o <<Len(f["mac"])>>,
                    <<StrContext, context, client>> \o Request(f) \o Answer(f) \o <<f["mac"]>>,
                    SignedBytes("Client", f, pm, pc))
      BY <2>11, <2>13, <3>1, HashedPacked
    <3> HIDE DEF pm, pc, ps, request, answer, kem
    <3>3. QED
      BY <2>14, <3>2
  <2> DEFINE Is(shape, bytes, parts) == Unpack(shape, bytes) = [parts |-> parts, rest |-> <<>>]
  <2>16. \A shape, parts, bytes : Packed(shape, parts, bytes) => Is(shape, bytes, parts)
    BY UnpackPacked
  <2> HIDE DEF Is, request, answer, kem
  <2>17. /\ Is(<<Len(pk), 0, 0>>, finish.hashed.aad, <<pk, server, client>>)
         /\ Is(<<Len(StrContext), 0, 0>> \o request \o <<0>> \o FixedShape(Answer(f) \o kem),
               finish.hashed.transcript,
               <<StrContext, context, client>> \o Request(f) \o <<server>> \o Answer(f) \o kem)
         /\ Is(<<Len(StrContext), 0>> \o request \o <<0>> \o answer, finish.hashed.server_signed,
               <<StrContext, context>> \o Request(f) \o <<server>> \o Answer(f))
         /\ Is(<<Len(StrContext), 0, 0>> \o request \o answer \o <<Len(f["mac"])>>,
               finish.hashed.client_signed,
               <<StrContext, context, client>> \o Request(f) \o Answer(f) \o <<f["mac"]>>)
    BY <2>15, <2>16
  <2>18. /\ context = IF finish.context = None THEN <<>> ELSE finish.context
         /\ client = IF finish.ids.client = None THEN sent["client_s_pk"] ELSE finish.ids.client
         /\ server = IF finish.ids.server = None THEN sent["server_s_pk"] ELSE finish.ids.server
    BY <2>10 DEF context, client, server, pk
  <2> HIDE DEF context, client
  <2>19. QED
    BY <2>17, <2>18
       DEF HashedUnambiguous, Is, request, answer, kem, f, pk, FixedShape, Request, Answer, KemParts
<1>2. QED
  BY <1>1, WInvAlways, PTL
===============================================================================
