--------------------------- MODULE SignatureProofs ---------------------------
(***************************************************************************)
(* Proofs about the signatures (Signature), for all keys, namespaces and   *)
(* messages, and for every number of signatures and alterations: only what *)
(* was signed verifies (Sound), and what sign writes is accepted           *)
(* (Complete).                                                             *)
(*                                                                         *)
(* The invariant is where a signature term can be: wherever one stands in  *)
(* a text, the holder of its key made it, for an alteration moves, drops   *)
(* or relabels what is there and makes none.                               *)
(***************************************************************************)
EXTENDS Signature, SequenceTheorems, TLAPS

\* The items that can be in a text once the triples of `made' were signed.
Word == {"", "SSHSIG", "SSHKEY", "1", "2", "x", "sha256", "sha512", "md5", "raw", "ykdf-sig:v1:"}
Bare ==
  [is : {"BEGIN", "magic", "version", "namespace", "reserved", "label", "END", "prefix", "part", "junk"},
   val : Word \cup MLDSA \cup Namespace]
KeyBlob == [is : {"keyblob"}, val : {"ssh-ed25519", "ssh-rsa"} \X Key]
SigBlob(made) ==
  [is : {"sigblob"},
   val : {"ssh-ed25519", "ssh-rsa"}
         \X {<<t[1], SshsigSignedData(t[2], hash, t[3])>> : t \in made, hash \in HashAlg}]
Body(made) ==
  [is : {"body"}, val : MLDSA \X {<<t[1], YkdfSigSignedData(t[2], t[3])>> : t \in made}]
Genuine(made) == Bare \cup KeyBlob \cup SigBlob(made) \cup Body(made)

SignerShape ==
  signer \in {Idle}
    \cup [pc : {"derive"}, key : Key, ns : Namespace, hash : HashAlg, message : Message]
    \cup [pc : {"open", "write"}, text : Seq(Genuine(signed))]

VerifierShape ==
  verifier \in {Idle}
    \cup [pc : {"signature"}, public : Public, ns : Namespace]
    \cup [pc : {"message"}, public : Public, ns : Namespace, text : Seq(Genuine(signed))]
    \cup [pc : {"verify"}, public : Public, ns : Namespace, text : Seq(Genuine(signed)),
          message : Message]
    \cup [pc : {"told"}, public : Public, ns : Namespace, text : Seq(Genuine(signed)),
          message : Message,
          verdict : {VerifyMessage(verifier.text, verifier.public, verifier.ns, verifier.message)}]

SignIInv ==
  /\ message \in Message
  /\ altered \in 0 .. MaxAlterations
  /\ signed \subseteq Key \X Namespace \X Message
  /\ file \in Seq(Genuine(signed))
  /\ SignerShape
  /\ VerifierShape
-----------------------------------------------------------------------------
(* Texts *)

\* What was genuine stays so when more is signed.
LEMMA GenuineGrows ==
  ASSUME NEW S, NEW T, S \subseteq T
  PROVE  Genuine(S) \subseteq Genuine(T) /\ Seq(Genuine(S)) \subseteq Seq(Genuine(T))
<1>1. Genuine(S) \subseteq Genuine(T)
  BY DEF Genuine, SigBlob, Body
<1>2. Seq(Genuine(S)) \subseteq Seq(Genuine(T))
  BY <1>1, SeqMonotonic
<1> QED
  BY <1>1, <1>2

\* What is cut off a text leaves a text.
LEMMA PartsOfSeq ==
  ASSUME NEW S, NEW s \in Seq(S), NEW lo \in Int, NEW hi \in Int, lo >= 1, hi <= Len(s)
  PROVE  SubSeq(s, lo, hi) \in Seq(S)
<1>1. \A k \in lo .. hi : s[k] \in S
  <2> SUFFICES ASSUME NEW k \in lo .. hi PROVE s[k] \in S
    OBVIOUS
  <2>1. k \in 1 .. Len(s)
    BY LenProperties
  <2> QED
    BY <2>1, ElementOfSeq
<1> QED
  BY <1>1, SubSeqProperties

\* The last place of what is not empty.
LEMMA LastIsPlace == ASSUME NEW n \in Nat \ {0} PROVE n \in 1 .. n
<1>1. n >= 1 /\ n \in Int
  OBVIOUS
<1> QED
  BY <1>1

\* Dropping an item, and putting one in, give texts of the same items.
LEMMA ItemsMove ==
  ASSUME NEW S, NEW s \in Seq(S), NEW k \in 1 .. Len(s)
  PROVE  /\ RemoveAt(s, k) \in Seq(S)
         /\ \A e \in S : InsertAt(s, k, e) \in Seq(S)
<1>1. Len(s) \in Nat /\ k \in Int
  BY LenProperties
<1>2. SubSeq(s, 1, k - 1) \in Seq(S) /\ SubSeq(s, k + 1, Len(s)) \in Seq(S)
      /\ SubSeq(s, k, Len(s)) \in Seq(S)
  BY <1>1, PartsOfSeq
<1>3. RemoveAt(s, k) \in Seq(S)
  BY <1>2, ConcatProperties DEF RemoveAt
<1>4. ASSUME NEW e \in S PROVE InsertAt(s, k, e) \in Seq(S)
  <2>1. <<e>> \in Seq(S)
    OBVIOUS
  <2>2. SubSeq(s, 1, k - 1) \o <<e>> \in Seq(S)
    BY <1>2, <2>1, ConcatProperties
  <2> QED
    BY <1>2, <2>2, ConcatProperties DEF InsertAt
<1> QED
  BY <1>3, <1>4

\* Another value for an item says of no more signatures that they were made.
LEMMA OtherIsGenuine ==
  ASSUME NEW made, NEW item \in Genuine(made), NEW val \in Other(item)
  PROVE  [item EXCEPT !.val = val] \in Genuine(made)
<1>1. CASE item \in Bare
  <2>1. val \in Word \cup MLDSA \cup Namespace
    <3>1. item.is \notin {"keyblob", "sigblob", "body"}
      BY <1>1 DEF Bare
    <3>2. CASE item.is = "namespace"
      BY <3>2 DEF Other
    <3>3. CASE item.is # "namespace"
      <4>1. Other(item) \subseteq {"SSHKEY", "2", "x", "sha256", "sha512", "md5", "raw"} \cup MLDSA
        BY <3>1, <3>3 DEF Other
      <4> QED
        BY <4>1 DEF Word
    <3> QED
      BY <3>2, <3>3
  <2> QED
    BY <1>1, <2>1 DEF Bare, Genuine
<1>2. CASE item \in KeyBlob
  <2>1. val \in {"ssh-ed25519", "ssh-rsa"} \X Key
    BY <1>2 DEF KeyBlob, Other
  <2> QED
    BY <1>2, <2>1 DEF KeyBlob, Genuine
<1>3. CASE item \in SigBlob(made)
  <2>1. val = <<"ssh-rsa", item.val[2]>>
    BY <1>3 DEF SigBlob, Other
  <2> QED
    BY <1>3, <2>1 DEF SigBlob, Genuine
<1>4. CASE item \in Body(made)
  <2>1. PICK p \in MLDSA : val = <<p, item.val[2]>>
    BY <1>4 DEF Body, Other
  <2> QED
    BY <1>4, <2>1 DEF Body, Genuine
<1> QED
  BY <1>1, <1>2, <1>3, <1>4 DEF Genuine
-----------------------------------------------------------------------------
(* verify_message *)

\* The fields of an SSHSIG that is read to its end.
LEMMA FieldsAre ==
  ASSUME NEW S, NEW body \in Seq(S), Fields(body).ok
  PROVE  /\ Len(body) >= 7
         /\ Fields(body).val =
              [keyblob |-> IF body[3].is = "keyblob" THEN body[3].val ELSE <<"none">>,
               namespace |-> IF body[4].is = "namespace" THEN body[4].val ELSE "",
               label |-> IF body[6].is = "label" THEN body[6].val ELSE "",
               sigblob |-> IF body[7].is = "sigblob" THEN body[7].val ELSE <<"none">>]
<1>1. Len(body) \in Nat
  BY LenProperties
<1>2. ~ (Len(body) < 7 \/ \E k \in 1 .. 7 : body[k].is = "part")
  BY DEF Fields, Err
<1> DEFINE fields == [keyblob |-> IF body[3].is = "keyblob" THEN body[3].val ELSE <<"none">>,
                      namespace |-> IF body[4].is = "namespace" THEN body[4].val ELSE "",
                      label |-> IF body[6].is = "label" THEN body[6].val ELSE "",
                      sigblob |-> IF body[7].is = "sigblob" THEN body[7].val ELSE <<"none">>]
<1>3. Fields(body) = Ok(fields)
  BY <1>2 DEF Fields, Err
<1>4. Len(body) >= 7
  BY <1>1, <1>2
<1>5. Fields(body).val = fields
  <2> HIDE DEF fields
  <2> QED
    BY <1>3 DEF Ok
<1> QED
  BY <1>4, <1>5

\* What is read is a part of what the file holds.
LEMMA DearmouredIsPart ==
  ASSUME NEW S, NEW text \in Seq(S), text # <<>>, Dearmour(text).ok
  PROVE  Dearmour(text).val \in Seq(S)
<1> DEFINE ends == {k \in DOMAIN text : text[k].is = "END"}
           body == IF ends = {} THEN Tail(text) ELSE SubSeq(text, 2, (CHOOSE k \in ends : TRUE) - 1)
<1>1. Dearmour(text).val = body
  BY DEF Dearmour, Ok, Err
<1>2. CASE ends = {}
  BY <1>1, <1>2, HeadTailProperties
<1>3. CASE ends # {}
  <2> DEFINE k == CHOOSE k \in ends : TRUE
  <2>1. k \in 1 .. Len(text)
    BY <1>3, LenProperties
  <2> HIDE DEF k
  <2>2. Len(text) \in Nat
    BY LenProperties
  <2>3. SubSeq(text, 2, k - 1) \in Seq(S)
    BY <2>1, <2>2, PartsOfSeq
  <2> QED
    BY <1>1, <1>3, <2>3 DEF k
<1> QED
  BY <1>2, <1>3

\* What verifies as an SSHSIG was signed; a field read as one of another kind verifies nothing.
LEMMA SshsigIsGenuine ==
  ASSUME NEW made \in SUBSET (Key \X Namespace \X Message), NEW text \in Seq(Genuine(made)),
         text # <<>>, NEW public, NEW ns, NEW m, VerifySshsig(text, public, ns, m).ok
  PROVE  public.line = "ssh" /\ <<public.key, ns, m>> \in made
<1>1. public.line = "ssh" /\ ParseSshKey(public) = Ok(public.key)
  BY DEF VerifySshsig, Then, ParseSshKey, Ok, Err
<1>2. PICK f :
               /\ Then(Dearmour(text), Fields) = Ok(f)
               /\ f.keyblob[1] = "ssh-ed25519" /\ SameKey(f.keyblob[2], public.key)
               /\ FromLabel(f.label) # <<>> /\ f.sigblob[1] = "ssh-ed25519"
               /\ f.sigblob[2] = <<f.keyblob[2], SshsigSignedData(ns, FromLabel(f.label)[1], m)>>
  <2> DEFINE parsed == Then(Dearmour(text), Fields)
             f == parsed.val
  <2>1. VerifySshsig(text, public, ns, m) =
          IF ~ parsed.ok THEN parsed
          ELSE IF f.namespace # ns THEN Err("NamespaceMismatch")
          ELSE IF f.keyblob[1] # "ssh-ed25519" THEN Err("MalformedPublicKey")
          ELSE IF ~ SameKey(f.keyblob[2], public.key) \/ FromLabel(f.label) = <<>>
                  \/ f.sigblob[1] # "ssh-ed25519" THEN Err("MalformedSignature")
          ELSE IF f.sigblob[2] = <<f.keyblob[2], SshsigSignedData(ns, FromLabel(f.label)[1], m)>>
          THEN Ok(TRUE) ELSE Err("SignatureVerificationFailed")
    BY <1>1 DEF VerifySshsig, Then, Ok
  <2>2. parsed.ok => parsed = Ok(f)
    BY DEF Then, Dearmour, Fields, Ok, Err
  <2> HIDE DEF parsed
  <2>3. ~ Err("NamespaceMismatch").ok /\ ~ Err("MalformedPublicKey").ok
        /\ ~ Err("MalformedSignature").ok /\ ~ Err("SignatureVerificationFailed").ok
    BY DEF Err
  <2>4. /\ parsed.ok /\ f.keyblob[1] = "ssh-ed25519" /\ SameKey(f.keyblob[2], public.key)
        /\ FromLabel(f.label) # <<>> /\ f.sigblob[1] = "ssh-ed25519"
        /\ f.sigblob[2] = <<f.keyblob[2], SshsigSignedData(ns, FromLabel(f.label)[1], m)>>
    BY <2>1, <2>3
  <2> QED
    BY <2>2, <2>4 DEF parsed
<1>3. Dearmour(text).ok /\ Fields(Dearmour(text).val) = Ok(f)
  BY <1>2 DEF Then, Ok
<1>4. PICK body \in Seq(Genuine(made)) : Fields(body) = Ok(f)
  BY <1>3, DearmouredIsPart
<1>5. Len(body) >= 7 /\ f.sigblob = IF body[7].is = "sigblob" THEN body[7].val ELSE <<"none">>
  <2>1. Fields(body).ok /\ Fields(body).val = f
    BY <1>4 DEF Ok
  <2>2. Len(body) >= 7
    BY <2>1, FieldsAre
  <2>3. f = [keyblob |-> IF body[3].is = "keyblob" THEN body[3].val ELSE <<"none">>,
             namespace |-> IF body[4].is = "namespace" THEN body[4].val ELSE "",
             label |-> IF body[6].is = "label" THEN body[6].val ELSE "",
             sigblob |-> IF body[7].is = "sigblob" THEN body[7].val ELSE <<"none">>]
    BY <2>1, FieldsAre
  <2> QED
    BY <2>2, <2>3
<1>6. body[7].is = "sigblob" /\ f.sigblob = body[7].val
  BY <1>2, <1>5
<1>7. body[7] \in SigBlob(made)
  <2>1. body[7] \in Genuine(made)
    BY <1>5, ElementOfSeq, LenProperties
  <2> QED
    BY <2>1, <1>6 DEF Genuine, Bare, KeyBlob, Body
<1>8. PICK t \in made, hash \in HashAlg :
        f.sigblob[2] = <<t[1], SshsigSignedData(t[2], hash, t[3])>>
  <2>1. body[7].val \in {"ssh-ed25519", "ssh-rsa"}
           \X {<<t[1], SshsigSignedData(t[2], hash, t[3])>> : t \in made, hash \in HashAlg}
    BY <1>7 DEF SigBlob
  <2>2. PICK x \in {<<t[1], SshsigSignedData(t[2], hash, t[3])>> : t \in made, hash \in HashAlg} :
          body[7].val[2] = x
    BY <2>1
  <2> QED
    BY <1>6, <2>2
<1>9. SshsigSignedData(ns, FromLabel(f.label)[1], m) = SshsigSignedData(t[2], hash, t[3])
      /\ f.keyblob[2] = t[1]
  BY <1>2, <1>8
<1>10. ns = t[2] /\ m = t[3]
  <2>1. \A a, b, c, d, e, g, h, i : <<"SSHSIG", a, "", b, <<c, d>> >> = <<"SSHSIG", e, "", g, <<h, i>> >>
          => a = e /\ d = i
    OBVIOUS
  <2> QED
    BY <1>9, <2>1 DEF SshsigSignedData, Digest
<1> QED
  BY <1>1, <1>2, <1>9, <1>10 DEF SameKey

\* And what verifies as a ykdf-sig.
LEMMA YkdfSigIsGenuine ==
  ASSUME NEW made \in SUBSET (Key \X Namespace \X Message), NEW text \in Seq(Genuine(made)),
         NEW public, NEW ns, NEW m, VerifyYkdfSig(text, public, ns, m).ok
  PROVE  public.line = "base64" /\ <<public.key, ns, m>> \in made
<1>1. Len(text) \in Nat
  BY LenProperties
<1>2. /\ Len(text) >= 3 /\ text[3].is = "body" /\ public.line = "base64"
      /\ text[3].val[2] = <<public.key, YkdfSigSignedData(ns, m)>>
  <2>1. ~ Len(text) < 3 /\ text[3].is = "body" /\ public.line = "base64"
    BY DEF VerifyYkdfSig, Err
  <2>2. text[3].val[2] = <<public.key, YkdfSigSignedData(ns, m)>>
    BY DEF VerifyYkdfSig, Err
  <2> QED
    BY <1>1, <2>1, <2>2
<1>3. text[3] \in Body(made)
  <2>1. text[3] \in Genuine(made)
    BY <1>1, <1>2, ElementOfSeq
  <2> QED
    BY <2>1, <1>2 DEF Genuine, Bare, KeyBlob, SigBlob
<1>4. PICK t \in made : text[3].val[2] = <<t[1], YkdfSigSignedData(t[2], t[3])>>
  BY <1>3 DEF Body
<1>5. ns = t[2] /\ m = t[3] /\ public.key = t[1]
  BY <1>2, <1>4 DEF YkdfSigSignedData, Digest
<1> QED
  BY <1>2, <1>5

\* A text that verifies carries a signature that its key made over the message.
LEMMA VerifiedWasSigned ==
  ASSUME NEW made \in SUBSET (Key \X Namespace \X Message), NEW text \in Seq(Genuine(made)),
         NEW public, NEW ns, NEW m, VerifyMessage(text, public, ns, m).ok
  PROVE  <<public.key, ns, m>> \in made
BY SshsigIsGenuine, YkdfSigIsGenuine DEF VerifyMessage, Err

\* An error is one of those that verify_message documents.
LEMMA DocumentedErrors ==
  ASSUME NEW text, NEW public, NEW ns, NEW m, ~ VerifyMessage(text, public, ns, m).ok
  PROVE  VerifyMessage(text, public, ns, m).err \in
           {"MalformedSignature", "MalformedPublicKey", "NamespaceMismatch", "SignatureVerificationFailed"}
<1> DEFINE four == {"MalformedSignature", "MalformedPublicKey", "NamespaceMismatch",
                    "SignatureVerificationFailed"}
           known(r) == (r.ok \/ r.err \in four)
<1>1. known(Ok(TRUE)) /\ \A e \in four : known(Err(e))
  BY DEF Ok, Err
<1>2. known(VerifyYkdfSig(text, public, ns, m))
  BY DEF VerifyYkdfSig, Ok, Err
<1>3. known(VerifySshsig(text, public, ns, m))
  <2>1. \/ Dearmour(text).ok
        \/ Dearmour(text) = Err("MalformedSignature")
    BY DEF Dearmour, Ok
  <2>2. \A body : Fields(body).ok \/ Fields(body) = Err("MalformedSignature")
    BY DEF Fields, Ok
  <2> DEFINE parsed == Then(Dearmour(text), Fields)
  <2>3. parsed.ok \/ parsed = Err("MalformedSignature")
    BY <2>1, <2>2 DEF Then
  <2>4. public.line # "ssh" => VerifySshsig(text, public, ns, m) = Err("MalformedPublicKey")
    BY DEF VerifySshsig, ParseSshKey, Then, Err
  <2>5. public.line = "ssh" /\ ~ parsed.ok => VerifySshsig(text, public, ns, m) = parsed
    BY DEF VerifySshsig, ParseSshKey, Then, Ok
  <2>6. public.line = "ssh" /\ parsed.ok =>
          VerifySshsig(text, public, ns, m) \in {Ok(TRUE)} \cup {Err(e) : e \in four}
    BY DEF VerifySshsig, ParseSshKey, Then, Ok
  <2> QED
    BY <1>1, <2>3, <2>4, <2>5, <2>6
<1> QED
  BY <1>2, <1>3 DEF VerifyMessage, Err
-----------------------------------------------------------------------------
(* What sign writes *)

\* A supplied key that can be read is an ssh-ed25519 line for an ed25519 key and base64 for
\* the others.
LEMMA LineOfKey ==
  ASSUME NEW public \in Public, public.line # "neither"
  PROVE  /\ public.key \in Key
         /\ public.line = IF KeyProfile[public.key] = "ed25519" THEN "ssh" ELSE "base64"
BY DEF Public

\* The nine items of an SSHSIG.
SshsigPlaces(made, key, ns, hash, m) ==
  /\ made[1].is = "BEGIN" /\ made[9].is = "END"
  /\ made[2].is = "magic" /\ made[2].val = "SSHSIG"
  /\ made[3].is = "version" /\ made[3].val = "1"
  /\ made[4].is = "keyblob" /\ made[4].val = <<"ssh-ed25519", key>>
  /\ made[5].is = "namespace" /\ made[5].val = ns
  /\ made[6].is = "reserved"
  /\ made[7].is = "label" /\ made[7].val = hash
  /\ made[8].is = "sigblob"
  /\ made[8].val = <<"ssh-ed25519", <<key, SshsigSignedData(ns, hash, m)>> >>

LEMMA SshsigItems ==
  ASSUME NEW key, NEW ns, NEW hash, NEW m
  PROVE  SshsigPlaces(SignSshsig(key, ns, hash, m), key, ns, hash, m)
<1> DEFINE items ==
  << Item("BEGIN", ""), Item("magic", "SSHSIG"), Item("version", "1"),
     Item("keyblob", <<"ssh-ed25519", key>>), Item("namespace", ns), Item("reserved", ""),
     Item("label", hash),
     Item("sigblob", <<"ssh-ed25519", <<key, SshsigSignedData(ns, hash, m)>> >>),
     Item("END", "") >>
<1>1. SignSshsig(key, ns, hash, m) = items
  BY DEF SignSshsig
<1>2. items[1].is = "BEGIN" /\ items[9].is = "END" /\ items[6].is = "reserved"
  BY DEF Item
<1>3. items[2].is = "magic" /\ items[2].val = "SSHSIG"
  BY DEF Item
<1>4. items[3].is = "version" /\ items[3].val = "1"
  BY DEF Item
<1>5. items[4].is = "keyblob" /\ items[4].val = <<"ssh-ed25519", key>>
  BY DEF Item
<1>6. items[5].is = "namespace" /\ items[5].val = ns /\ items[7].is = "label" /\ items[7].val = hash
  BY DEF Item
<1>7. /\ items[8].is = "sigblob"
      /\ items[8].val = <<"ssh-ed25519", <<key, SshsigSignedData(ns, hash, m)>> >>
  BY DEF Item
<1> HIDE DEF items
<1> QED
  BY <1>1, <1>2, <1>3, <1>4, <1>5, <1>6, <1>7 DEF SshsigPlaces

\* The armour comes off a signature of ed25519 and leaves its seven fields.
LEMMA SignedDearmours ==
  ASSUME NEW S, NEW text \in Seq(S), NEW key, NEW ns, NEW hash, NEW m,
         SameText(text, SignSshsig(key, ns, hash, m))
  PROVE  /\ Dearmour(text) = Ok(SubSeq(text, 2, 8)) /\ Len(SubSeq(text, 2, 8)) = 7
         /\ text[1].is = "BEGIN"
         /\ \A k \in 1 .. 7 : SubSeq(text, 2, 8)[k] = text[k + 1]
<1> DEFINE made == SignSshsig(key, ns, hash, m)
           ends == {k \in DOMAIN text : text[k].is = "END"}
           body == SubSeq(text, 2, 8)
<1>1. Len(text) = 9 /\ DOMAIN text = 1 .. 9
  <2>1. Len(made) = 9
    BY DEF SignSshsig
  <2> QED
    BY <2>1, LenProperties DEF SameText
<1>2. \A k \in 1 .. 9 : text[k].is = made[k].is
  BY <1>1 DEF SameText
<1>3. /\ text[1].is = "BEGIN" /\ text[2].is = "magic" /\ text[3].is = "version"
      /\ text[4].is = "keyblob" /\ text[5].is = "namespace" /\ text[6].is = "reserved"
      /\ text[7].is = "label" /\ text[8].is = "sigblob" /\ text[9].is = "END"
  <2>1. SshsigPlaces(made, key, ns, hash, m)
    BY SshsigItems
  <2>2. /\ text[1].is = made[1].is /\ text[2].is = made[2].is /\ text[3].is = made[3].is
        /\ text[4].is = made[4].is /\ text[5].is = made[5].is /\ text[6].is = made[6].is
        /\ text[7].is = made[7].is /\ text[8].is = made[8].is /\ text[9].is = made[9].is
    BY <1>2
  <2> HIDE DEF made
  <2> QED
    BY <2>1, <2>2 DEF SshsigPlaces
<1>4. ends = {9}
  <2>1. \A k \in 1 .. 9 : k \in {1, 2, 3, 4, 5, 6, 7, 8, 9}
    OBVIOUS
  <2> QED
    BY <1>1, <1>3, <2>1
<1>5. (CHOOSE k \in ends : TRUE) - 1 = 8
  BY <1>4
<1>6. Len(body) = 7 /\ \A k \in 1 .. 7 : body[k] = text[k + 1]
  BY <1>1
<1>7. ~ (body = <<>> \/ \E k \in DOMAIN body : body[k].is = "junk")
  <2>1. DOMAIN body = 1 .. 7 /\ body # <<>>
    BY <1>1, <1>6
  <2>2. \A k \in 1 .. 7 : k + 1 \in {2, 3, 4, 5, 6, 7, 8}
    OBVIOUS
  <2>3. \A k \in 1 .. 7 : body[k].is # "junk"
    BY <1>3, <1>6, <2>2
  <2> QED
    BY <2>1, <2>3
<1>8. Dearmour(text) = Ok(body)
  BY <1>4, <1>5, <1>7 DEF Dearmour
<1> QED
  BY <1>3, <1>6, <1>8

\* What sign writes for an ed25519 key verifies, whichever hash it was asked for.
LEMMA SshsigVerifies ==
  ASSUME NEW S, NEW text \in Seq(S), NEW public, NEW ns, NEW hash \in HashAlg, NEW m,
         public.line = "ssh", SameText(text, SignSshsig(public.key, ns, hash, m))
  PROVE  text # <<>> /\ text[1].is = "BEGIN" /\ VerifySshsig(text, public, ns, m).ok
<1> DEFINE made == SignSshsig(public.key, ns, hash, m)
           body == SubSeq(text, 2, 8)
           f == [keyblob |-> <<"ssh-ed25519", public.key>>, namespace |-> ns, label |-> hash,
                 sigblob |-> <<"ssh-ed25519", <<public.key, SshsigSignedData(ns, hash, m)>> >>]
<1>1. Len(text) = 9 /\ DOMAIN text = 1 .. 9
  <2>1. Len(made) = 9
    BY DEF SignSshsig
  <2> QED
    BY <2>1, LenProperties DEF SameText
<1>2. \A k \in 1 .. 9 : text[k].is = made[k].is /\ text[k].val = made[k].val
  BY <1>1 DEF SameText
<1>3. Dearmour(text) = Ok(body) /\ Len(body) = 7 /\ text[1].is = "BEGIN"
      /\ \A k \in 1 .. 7 : body[k] = text[k + 1]
  BY SignedDearmours
<1>4. /\ body[1].is = "magic" /\ body[2].is = "version" /\ body[3].is = "keyblob"
      /\ body[4].is = "namespace" /\ body[5].is = "reserved" /\ body[6].is = "label"
      /\ body[7].is = "sigblob"
      /\ body[1].val = "SSHSIG" /\ body[2].val = "1" /\ body[3].val = <<"ssh-ed25519", public.key>>
      /\ body[4].val = ns /\ body[6].val = hash
      /\ body[7].val = <<"ssh-ed25519", <<public.key, SshsigSignedData(ns, hash, m)>> >>
  <2> HIDE DEF body
  <2>1. \A k \in 1 .. 7 : body[k].is = made[k + 1].is /\ body[k].val = made[k + 1].val
    <3> SUFFICES ASSUME NEW k \in 1 .. 7
                 PROVE  body[k].is = made[k + 1].is /\ body[k].val = made[k + 1].val
      OBVIOUS
    <3>1. k + 1 \in 1 .. 9
      OBVIOUS
    <3> QED
      BY <1>2, <1>3, <3>1
  <2>2. /\ body[1].is = made[2].is /\ body[1].val = made[2].val
        /\ body[2].is = made[3].is /\ body[2].val = made[3].val
        /\ body[3].is = made[4].is /\ body[3].val = made[4].val
        /\ body[4].is = made[5].is /\ body[4].val = made[5].val
        /\ body[5].is = made[6].is /\ body[5].val = made[6].val
        /\ body[6].is = made[7].is /\ body[6].val = made[7].val
        /\ body[7].is = made[8].is /\ body[7].val = made[8].val
    BY <2>1
  <2>3. SshsigPlaces(made, public.key, ns, hash, m)
    BY SshsigItems
  <2> HIDE DEF made
  <2> QED
    BY <2>2, <2>3 DEF SshsigPlaces
<1>6. Fields(body) = Ok(f)
  <2>1. \A k \in 1 .. 7 : body[k].is # "part"
    <3>1. \A k \in 1 .. 7 : k \in {1, 2, 3, 4, 5, 6, 7}
      OBVIOUS
    <3> QED
      BY <1>4, <3>1
  <2> HIDE DEF body
  <2>2. ~ (Len(body) < 7 \/ \E k \in 1 .. 7 : body[k].is = "part")
    BY <1>3, <2>1
  <2> QED
    BY <1>4, <2>2 DEF Fields
<1>7. FromLabel(hash) = <<hash>>
  BY DEF FromLabel
<1>8. Then(Dearmour(text), Fields) = Ok(f)
  BY <1>3, <1>6 DEF Then, Ok
<1>9. VerifySshsig(text, public, ns, m) = Ok(TRUE)
  <2>1. ParseSshKey(public).ok /\ ParseSshKey(public).val = public.key
    BY DEF ParseSshKey, Ok
  <2>2. Then(Dearmour(text), Fields).ok /\ Then(Dearmour(text), Fields).val = f
    <3> HIDE DEF f
    <3> QED
      BY <1>8 DEF Ok
  <2>3. /\ f.namespace = ns /\ f.keyblob[1] = "ssh-ed25519" /\ f.keyblob[2] = public.key
        /\ f.label = hash /\ f.sigblob[1] = "ssh-ed25519"
        /\ f.sigblob[2] = <<public.key, SshsigSignedData(ns, hash, m)>>
    OBVIOUS
  <2> HIDE DEF f
  <2>4. FromLabel(f.label) # <<>> /\ FromLabel(f.label)[1] = hash
    BY <1>7, <2>3
  <2>5. VerifySshsig(text, public, ns, m) =
          IF f.namespace # ns THEN Err("NamespaceMismatch")
          ELSE IF f.keyblob[1] # "ssh-ed25519" THEN Err("MalformedPublicKey")
          ELSE IF ~ SameKey(f.keyblob[2], public.key) \/ FromLabel(f.label) = <<>>
                  \/ f.sigblob[1] # "ssh-ed25519" THEN Err("MalformedSignature")
          ELSE IF f.sigblob[2] = <<f.keyblob[2], SshsigSignedData(ns, FromLabel(f.label)[1], m)>>
          THEN Ok(TRUE) ELSE Err("SignatureVerificationFailed")
    BY <2>1, <2>2 DEF VerifySshsig, Then
  <2> QED
    BY <2>3, <2>4, <2>5 DEF SameKey
<1> QED
  BY <1>1, <1>3, <1>9 DEF Ok

\* And what it writes for an ML-DSA key.
LEMMA YkdfSigVerifies ==
  ASSUME NEW S, NEW text \in Seq(S), NEW public, NEW ns, NEW m, public.line = "base64",
         KeyProfile[public.key] \in MLDSA, SameText(text, SignYkdfSig(public.key, ns, m))
  PROVE  text # <<>> /\ text[1].is = "prefix" /\ VerifyYkdfSig(text, public, ns, m).ok
<1> DEFINE made == SignYkdfSig(public.key, ns, m)
           label == KeyProfile[public.key]
<1>1. Len(text) = 3 /\ DOMAIN text = 1 .. 3
  <2>1. Len(made) = 3
    BY DEF SignYkdfSig
  <2> QED
    BY <2>1, LenProperties DEF SameText
<1>2. \A k \in 1 .. 3 : text[k].is = made[k].is /\ text[k].val = made[k].val
  BY <1>1 DEF SameText
<1>3. /\ text[1].is = "prefix" /\ text[2].is = "label" /\ text[3].is = "body"
      /\ text[2].val = label /\ text[3].val = <<label, <<public.key, YkdfSigSignedData(ns, m)>> >>
  BY <1>2 DEF SignYkdfSig, Item
<1>4. label \in Profile /\ label \in MLDSA
  BY DEF Profile
<1>5. VerifyYkdfSig(text, public, ns, m) = Ok(TRUE)
  <2>1. text[3].val[1] = label /\ text[3].val[2] = <<public.key, YkdfSigSignedData(ns, m)>>
    BY <1>3
  <2> HIDE DEF label
  <2>2. ~ Len(text) < 3
    BY <1>1
  <2> QED
    BY <1>3, <1>4, <2>1, <2>2 DEF VerifyYkdfSig, label
<1>6. Ok(TRUE).ok
  BY DEF Ok
<1>7. text # <<>>
  <2>1. 1 \in DOMAIN text
    BY <1>1
  <2> QED
    BY <2>1
<1> QED
  BY <1>3, <1>5, <1>6, <1>7

\* What sign writes verifies, with the public key of the key that signed.
LEMMA SignedVerifies ==
  ASSUME NEW S, NEW text \in Seq(S), NEW public \in Public, public.line # "neither",
         NEW ns, NEW hash \in HashAlg, NEW m,
         SignMessage(public.key, ns, hash, m).ok,
         SameText(text, SignMessage(public.key, ns, hash, m).val)
  PROVE  VerifyMessage(text, public, ns, m).ok
<1>1. CASE KeyProfile[public.key] = "ed25519"
  <2>1. SameText(text, SignSshsig(public.key, ns, hash, m))
    <3>1. SignMessage(public.key, ns, hash, m) = Ok(SignSshsig(public.key, ns, hash, m))
      BY <1>1 DEF SignMessage, MLDSA
    <3> QED
      BY <3>1 DEF Ok
  <2> QED
    BY <1>1, <2>1, LineOfKey, SshsigVerifies DEF VerifyMessage
<1>2. CASE KeyProfile[public.key] \in MLDSA
  <2>1. KeyProfile[public.key] # "ed25519"
    BY <1>2 DEF MLDSA
  <2>2. SameText(text, SignYkdfSig(public.key, ns, m))
    BY <1>2, <2>1 DEF SignMessage, Ok
  <2>3. text # <<>> /\ text[1].is = "prefix" /\ VerifyYkdfSig(text, public, ns, m).ok
    BY <1>2, <2>1, <2>2, LineOfKey, YkdfSigVerifies
  <2> QED
    BY <2>3 DEF VerifyMessage
<1> QED
  BY <1>1, <1>2 DEF SignMessage, Err
-----------------------------------------------------------------------------
(* The invariant *)

\* A signature that is made is genuine from then on.
LEMMA SignedIsGenuine ==
  ASSUME NEW made, NEW key \in Key, NEW ns \in Namespace, NEW hash \in HashAlg, NEW m,
         <<key, ns, m>> \in made, SignMessage(key, ns, hash, m).ok
  PROVE  SignMessage(key, ns, hash, m).val \in Seq(Genuine(made))
<1>1. CASE KeyProfile[key] = "ed25519"
  <2>1. SignMessage(key, ns, hash, m).val = SignSshsig(key, ns, hash, m)
    <3>1. SignMessage(key, ns, hash, m) = Ok(SignSshsig(key, ns, hash, m))
      BY <1>1 DEF SignMessage, MLDSA
    <3> QED
      BY <3>1 DEF Ok
  <2>2. /\ Item("BEGIN", "") \in Bare /\ Item("magic", "SSHSIG") \in Bare
        /\ Item("version", "1") \in Bare /\ Item("namespace", ns) \in Bare
        /\ Item("reserved", "") \in Bare /\ Item("label", hash) \in Bare
        /\ Item("END", "") \in Bare
    BY DEF Bare, Item, Word, HashAlg
  <2>3. Item("keyblob", <<"ssh-ed25519", key>>) \in KeyBlob
    BY DEF KeyBlob, Item
  <2>4. Item("sigblob", <<"ssh-ed25519", <<key, SshsigSignedData(ns, hash, m)>> >>) \in SigBlob(made)
    <3> DEFINE data == {<<t[1], SshsigSignedData(t[2], h, t[3])>> : t \in made, h \in HashAlg}
               triple == <<key, ns, m>>
    <3>1. <<key, SshsigSignedData(ns, hash, m)>> = <<triple[1], SshsigSignedData(triple[2], hash, triple[3])>>
      OBVIOUS
    <3>2. <<key, SshsigSignedData(ns, hash, m)>> \in data
      BY <3>1
    <3> HIDE DEF data
    <3>3. <<"ssh-ed25519", <<key, SshsigSignedData(ns, hash, m)>> >> \in {"ssh-ed25519", "ssh-rsa"} \X data
      BY <3>2
    <3> QED
      BY <3>3 DEF SigBlob, Item, data
  <2>5. Bare \subseteq Genuine(made) /\ KeyBlob \subseteq Genuine(made)
        /\ SigBlob(made) \subseteq Genuine(made)
    BY DEF Genuine
  <2>6. ASSUME NEW S, NEW a \in S, NEW b \in S, NEW c \in S, NEW d \in S, NEW e \in S,
               NEW f \in S, NEW g \in S, NEW h \in S, NEW i \in S
        PROVE  <<a, b, c, d, e, f, g, h, i>> \in Seq(S)
    OBVIOUS
  <2> DEFINE S == Genuine(made)
  <2>7. /\ Item("BEGIN", "") \in S /\ Item("magic", "SSHSIG") \in S
        /\ Item("version", "1") \in S /\ Item("namespace", ns) \in S
        /\ Item("reserved", "") \in S /\ Item("label", hash) \in S
        /\ Item("END", "") \in S /\ Item("keyblob", <<"ssh-ed25519", key>>) \in S
        /\ Item("sigblob", <<"ssh-ed25519", <<key, SshsigSignedData(ns, hash, m)>> >>) \in S
    BY <2>2, <2>3, <2>4, <2>5
  <2> HIDE DEF S
  <2>8. SignSshsig(key, ns, hash, m) \in Seq(S)
    BY <2>6, <2>7, Zenon DEF SignSshsig
  <2> QED
    BY <2>1, <2>8 DEF S
<1>2. CASE KeyProfile[key] \in MLDSA
  <2>1. SignMessage(key, ns, hash, m).val = SignYkdfSig(key, ns, m)
    <3>1. SignMessage(key, ns, hash, m) = Ok(SignYkdfSig(key, ns, m))
      BY <1>2 DEF SignMessage, MLDSA
    <3> QED
      BY <3>1 DEF Ok
  <2>2. Item("prefix", "ykdf-sig:v1:") \in Bare /\ Item("label", KeyProfile[key]) \in Bare
    BY <1>2 DEF Bare, Item, Word
  <2>3. Item("body", <<KeyProfile[key], <<key, YkdfSigSignedData(ns, m)>> >>) \in Body(made)
    <3> DEFINE data == {<<t[1], YkdfSigSignedData(t[2], t[3])>> : t \in made}
               triple == <<key, ns, m>>
    <3>1. <<key, YkdfSigSignedData(ns, m)>> = <<triple[1], YkdfSigSignedData(triple[2], triple[3])>>
      OBVIOUS
    <3>2. <<key, YkdfSigSignedData(ns, m)>> \in data
      BY <3>1
    <3> HIDE DEF data
    <3>3. <<KeyProfile[key], <<key, YkdfSigSignedData(ns, m)>> >> \in MLDSA \X data
      BY <1>2, <3>2
    <3> QED
      BY <3>3 DEF Body, Item, data
  <2> QED
    BY <2>1, <2>2, <2>3 DEF SignYkdfSig, Genuine
<1> QED
  BY <1>1, <1>2 DEF SignMessage, Err

\* The invariant holds when the two commands start.
LEMMA InitSignIInv == SignInit => SignIInv
<1>1. 0 \in 0 .. MaxAlterations
  BY SignatureAssumption DEF SignatureAssumption
<1> QED
  BY <1>1, EmptySeq DEF SignInit, SignIInv, SignerShape, VerifierShape

\* The verifier's part of the invariant speaks of the verifier and of what is genuine.
LEMMA VerifierStays ==
  ASSUME VerifierShape, verifier' = verifier, signed \subseteq signed'
  PROVE  VerifierShape'
<1>1. Seq(Genuine(signed)) \subseteq Seq(Genuine(signed'))
  BY GenuineGrows
<1>2. VerifyMessage(verifier.text, verifier.public, verifier.ns, verifier.message)' =
      VerifyMessage(verifier.text, verifier.public, verifier.ns, verifier.message)
  OBVIOUS
<1>3. Public' = Public
  BY DEF Public
<1> QED
  BY <1>1, <1>2, <1>3 DEF VerifierShape, Idle

\* And the signer's.
LEMMA SignerStays ==
  ASSUME SignerShape, signer' = signer, signed \subseteq signed'
  PROVE  SignerShape'
<1>1. Seq(Genuine(signed)) \subseteq Seq(Genuine(signed'))
  BY GenuineGrows
<1> QED
  BY <1>1 DEF SignerShape, Idle

\* The steps of `ykdf sign' keep the invariant.
LEMMA SignerKeepsSignIInv ==
  ASSUME SignIInv, SignRead \/ SignDerive \/ SignOpen \/ SignWrite
  PROVE  SignIInv'
<1>1. CASE SignRead
  <2>1. signer' \in [pc : {"derive"}, key : Key, ns : Namespace, hash : HashAlg, message : Message]
    BY <1>1 DEF SignRead, SignIInv
  <2>2. SignerShape'
    BY <2>1 DEF SignerShape
  <2>3. verifier' = verifier /\ signed' = signed /\ VerifierShape'
    BY <1>1, VerifierStays DEF SignRead, SignIInv
  <2> QED
    BY <1>1, <2>2, <2>3 DEF SignRead, SignIInv
<1>2. CASE SignDerive
  <2> DEFINE r == SignMessage(signer.key, signer.ns, signer.hash, signer.message)
             triple == <<signer.key, signer.ns, signer.message>>
  <2>1. signer.key \in Key /\ signer.ns \in Namespace /\ signer.hash \in HashAlg
        /\ signer.message \in Message
    BY <1>2 DEF SignDerive, SignIInv, SignerShape, Idle
  <2>2. CASE r.ok
    <3>1. signed' = signed \cup {triple} /\ signer' = [pc |-> "open", text |-> r.val]
      BY <1>2, <2>2 DEF SignDerive
    <3>2. r.val \in Seq(Genuine(signed'))
      BY <2>1, <2>2, <3>1, SignedIsGenuine
    <3>3. SignerShape'
      BY <3>1, <3>2 DEF SignerShape
    <3>4. VerifierShape' /\ file' \in Seq(Genuine(signed'))
      BY <1>2, <3>1, VerifierStays, GenuineGrows DEF SignDerive, SignIInv
    <3>5. signed' \subseteq Key \X Namespace \X Message
      BY <2>1, <3>1 DEF SignIInv
    <3> QED
      BY <1>2, <3>3, <3>4, <3>5 DEF SignDerive, SignIInv
  <2>3. CASE ~ r.ok
    <3>1. signed' = signed /\ signer' = Idle
      BY <1>2, <2>3 DEF SignDerive
    <3>2. VerifierShape'
      BY <1>2, <3>1, VerifierStays DEF SignDerive, SignIInv
    <3>3. SignerShape'
      BY <3>1 DEF SignerShape, Idle
    <3> QED
      BY <1>2, <3>1, <3>2, <3>3 DEF SignDerive, SignIInv
  <2> QED
    BY <2>2, <2>3
<1>3. CASE SignOpen
  <2>1. signer \in [pc : {"open", "write"}, text : Seq(Genuine(signed))]
    BY <1>3 DEF SignOpen, SignIInv, SignerShape, Idle
  <2>2. signed' = signed /\ verifier' = verifier /\ file' = <<>> /\ signer' = [signer EXCEPT !.pc = "write"]
    BY <1>3 DEF SignOpen
  <2>3. SignerShape'
    BY <2>1, <2>2 DEF SignerShape
  <2>4. VerifierShape'
    BY <2>2, VerifierStays DEF SignIInv
  <2> QED
    BY <1>3, <2>2, <2>3, <2>4, EmptySeq DEF SignOpen, SignIInv
<1>4. CASE SignWrite
  <2>1. signer.text \in Seq(Genuine(signed))
    <3>1. signer \in [pc : {"open", "write"}, text : Seq(Genuine(signed))]
      <4>1. signer.pc = "write"
        BY <1>4 DEF SignWrite
      <4> QED
        BY <4>1 DEF SignIInv, SignerShape, Idle
    <3> QED
      BY <3>1
  <2>2. signed' = signed /\ verifier' = verifier /\ signer' = Idle
    BY <1>4 DEF SignWrite
  <2>3. file' \in Seq(Genuine(signed))
    <3>1. CASE file' = signer.text
      BY <2>1, <3>1
    <3>2. ASSUME NEW n \in 0 .. Len(signer.text) - 1,
                 file' \in {SubSeq(signer.text, 1, n), Append(SubSeq(signer.text, 1, n), Item("part", ""))}
          PROVE  file' \in Seq(Genuine(signed))
      <4>1. Len(signer.text) \in Nat
        BY <2>1, LenProperties
      <4>2. SubSeq(signer.text, 1, n) \in Seq(Genuine(signed))
        BY <2>1, <4>1, PartsOfSeq
      <4>3. Item("part", "") \in Genuine(signed)
        BY DEF Item, Genuine, Bare, Word
      <4>4. Append(SubSeq(signer.text, 1, n), Item("part", "")) \in Seq(Genuine(signed))
        BY <4>2, <4>3, AppendProperties
      <4> QED
        BY <3>2, <4>2, <4>4
    <3> QED
      BY <1>4, <3>1, <3>2 DEF SignWrite
  <2>4. VerifierShape' /\ SignerShape'
    BY <2>2, VerifierStays DEF SignIInv, SignerShape, Idle
  <2> QED
    BY <1>4, <2>2, <2>3, <2>4 DEF SignWrite, SignIInv
<1> QED
  BY <1>1, <1>2, <1>3, <1>4

\* So do the steps of `ykdf verify'.
LEMMA VerifierKeepsSignIInv ==
  ASSUME SignIInv,
         VerifyReadKey \/ VerifyReadSignature \/ VerifyReadMessage \/ Verify \/ VerifyEnd
  PROVE  SignIInv'
<1>1. signer' = signer /\ signed' = signed /\ file' = file /\ message' = message /\ altered' = altered
  BY DEF VerifyReadKey, VerifyReadSignature, VerifyReadMessage, Verify, VerifyEnd
<1>2. SignerShape'
  BY <1>1, SignerStays DEF SignIInv
<1>3. Public' = Public /\ Genuine(signed') = Genuine(signed)
  BY <1>1 DEF Public
<1>4. VerifierShape'
  <2>1. CASE VerifyReadKey
    BY <2>1, <1>3 DEF VerifyReadKey, VerifierShape
  <2>2. CASE VerifyReadSignature
    <3>1. verifier \in [pc : {"signature"}, public : Public, ns : Namespace]
      BY <2>2 DEF VerifyReadSignature, SignIInv, VerifierShape, Idle
    <3>2. verifier' = With([verifier EXCEPT !.pc = "message"], "text", file)
      BY <2>2 DEF VerifyReadSignature
    <3>3. verifier' = [pc |-> "message", public |-> verifier.public, ns |-> verifier.ns, text |-> file]
      BY <3>1, <3>2 DEF With
    <3>4. verifier' \in [pc : {"message"}, public : Public, ns : Namespace, text : Seq(Genuine(signed))]
      BY <3>1, <3>3 DEF SignIInv
    <3> QED
      BY <1>1, <1>3, <3>4 DEF VerifierShape
  <2>3. CASE VerifyReadMessage
    <3>1. verifier \in [pc : {"message"}, public : Public, ns : Namespace, text : Seq(Genuine(signed))]
      BY <2>3 DEF VerifyReadMessage, SignIInv, VerifierShape, Idle
    <3>2. verifier' = With([verifier EXCEPT !.pc = "verify"], "message", message)
      BY <2>3 DEF VerifyReadMessage
    <3>3. verifier' = [pc |-> "verify", public |-> verifier.public, ns |-> verifier.ns,
                       text |-> verifier.text, message |-> message]
      BY <3>1, <3>2 DEF With
    <3>4. verifier' \in [pc : {"verify"}, public : Public, ns : Namespace,
                         text : Seq(Genuine(signed)), message : Message]
      BY <3>1, <3>3 DEF SignIInv
    <3> QED
      BY <1>1, <1>3, <3>4 DEF VerifierShape
  <2>4. CASE Verify
    <3> DEFINE verdict == VerifyMessage(verifier.text, verifier.public, verifier.ns, verifier.message)
    <3>1. verifier \in [pc : {"verify"}, public : Public, ns : Namespace,
                        text : Seq(Genuine(signed)), message : Message]
      BY <2>4 DEF Verify, SignIInv, VerifierShape, Idle
    <3>2. verifier' = With([verifier EXCEPT !.pc = "told"], "verdict", verdict)
      BY <2>4 DEF Verify
    <3> HIDE DEF verdict
    <3>3. verifier' = [pc |-> "told", public |-> verifier.public, ns |-> verifier.ns,
                       text |-> verifier.text, message |-> verifier.message, verdict |-> verdict]
      BY <3>1, <3>2 DEF With
    <3>4. verdict = VerifyMessage(verifier'.text, verifier'.public, verifier'.ns, verifier'.message)
      BY <3>3 DEF verdict
    <3>5. verifier' \in [pc : {"told"}, public : Public, ns : Namespace,
                         text : Seq(Genuine(signed)), message : Message, verdict : {verdict}]
      BY <3>1, <3>3
    <3> QED
      BY <1>1, <1>3, <3>4, <3>5 DEF VerifierShape
  <2>5. CASE VerifyEnd
    BY <2>5 DEF VerifyEnd, VerifierShape, Idle
  <2> QED
    BY <2>1, <2>2, <2>3, <2>4, <2>5
<1> QED
  BY <1>1, <1>2, <1>4 DEF SignIInv

\* And what happens to the two files on the way.
LEMMA WayKeepsSignIInv ==
  ASSUME SignIInv, EditMessage \/ Alter
  PROVE  SignIInv'
<1>1. signer' = signer /\ verifier' = verifier /\ signed' = signed
  BY DEF EditMessage, Alter
<1>2. SignerShape' /\ VerifierShape'
  BY <1>1, SignerStays, VerifierStays DEF SignIInv
<1>3. altered' \in 0 .. MaxAlterations
  <2>1. altered' = altered + 1 /\ altered < MaxAlterations
    BY DEF EditMessage, Alter
  <2>2. altered \in 0 .. MaxAlterations /\ MaxAlterations \in Nat
    BY SignatureAssumption DEF SignIInv, SignatureAssumption
  <2> QED
    BY <2>1, <2>2
<1>4. CASE EditMessage
  BY <1>1, <1>2, <1>3, <1>4 DEF EditMessage, SignIInv
<1>5. CASE Alter
  <2> DEFINE S == Genuine(signed)
  <2>1. file \in Seq(S) /\ DOMAIN file = 1 .. Len(file) /\ Len(file) \in Nat /\ file # <<>>
    BY <1>5, LenProperties DEF Alter, SignIInv
  <2>2. Item("junk", "") \in S /\ Item("reserved", "") \in S
    BY DEF Genuine, Bare, Item, Word
  <2>3. ASSUME NEW k \in DOMAIN file, NEW val \in Other(file[k]), file' = [file EXCEPT ![k].val = val]
        PROVE  file' \in Seq(S)
    <3>1. file[k] \in S
      BY <2>1, ElementOfSeq
    <3>2. [file[k] EXCEPT !.val = val] \in S
      BY <3>1, OtherIsGenuine
    <3>3. file' = [file EXCEPT ![k] = [file[k] EXCEPT !.val = val]]
      BY <2>3
    <3> QED
      BY <2>1, <3>2, <3>3, ExceptSeq
  <2>4. ASSUME NEW k \in DOMAIN file, file' = [file EXCEPT ![k] = Item("junk", "")]
        PROVE  file' \in Seq(S)
    BY <2>1, <2>2, <2>4, ExceptSeq
  <2>5. ASSUME NEW k \in DOMAIN file, file' = RemoveAt(file, k)
        PROVE  file' \in Seq(S)
    BY <2>1, <2>5, ItemsMove
  <2>6. ASSUME NEW item \in {Item("reserved", ""), Item("junk", "")}, file' = InsertAt(file, Len(file), item)
        PROVE  file' \in Seq(S)
    <3>1. Len(file) \in 1 .. Len(file)
      <4>1. Len(file) \in Nat \ {0}
        BY <2>1, EmptySeq
      <4> QED
        BY <4>1, LastIsPlace
    <3> QED
      BY <2>1, <2>2, <2>6, <3>1, ItemsMove
  <2>7. file' \in Seq(S)
    BY <1>5, <2>3, <2>4, <2>5, <2>6 DEF Alter
  <2> QED
    BY <1>1, <1>2, <1>3, <1>5, <2>7 DEF Alter, SignIInv
<1> QED
  BY <1>4, <1>5

\* Every step keeps the invariant.
LEMMA StepSignIInv == SignIInv /\ [SignNext]_signVars => SignIInv'
<1> SUFFICES ASSUME SignIInv, [SignNext]_signVars PROVE SignIInv'
  OBVIOUS
<1>1. CASE UNCHANGED signVars
  BY <1>1, SignerStays, VerifierStays DEF signVars, SignIInv
<1> QED
  BY <1>1, SignerKeepsSignIInv, VerifierKeepsSignIInv, WayKeepsSignIInv DEF SignNext

\* Of every run of the two commands: where a signature stands in a text, it was made.
THEOREM SignInvariance == SignSpec => []SignIInv
BY InitSignIInv, StepSignIInv, PTL DEF SignSpec
-----------------------------------------------------------------------------
(* What a verdict means *)

\* A verdict is about what the verifier read.
LEMMA VerdictIsOfTexts ==
  ASSUME SignIInv, Told
  PROVE  /\ verifier.public \in Public /\ verifier.text \in Seq(Genuine(signed))
         /\ verifier.verdict =
              VerifyMessage(verifier.text, verifier.public, verifier.ns, verifier.message)
BY DEF SignIInv, VerifierShape, Told, Idle

\* The types: what each command holds, and the errors that verify_message documents.
THEOREM SignTypeCorrect == SignSpec => []SignTypeOK
<1>1. SignIInv => SignTypeOK
  <2> SUFFICES ASSUME SignIInv PROVE SignTypeOK
    OBVIOUS
  <2>1. signer.pc \in {"idle", "derive", "open", "write"}
    BY DEF SignIInv, SignerShape, Idle
  <2>2. verifier.pc \in {"idle", "signature", "message", "verify", "told"}
    BY DEF SignIInv, VerifierShape, Idle
  <2>3. Told /\ ~ Good => verifier.verdict.err \in
          {"MalformedSignature", "MalformedPublicKey", "NamespaceMismatch", "SignatureVerificationFailed"}
    BY VerdictIsOfTexts, DocumentedErrors DEF Good
  <2> QED
    BY <2>1, <2>2, <2>3 DEF SignIInv, SignTypeOK
<1> QED
  BY <1>1, SignInvariance, PTL

\* No text, however it was put together from parts of others, passes for the signature of a
\* message that the holder of the key did not sign in that namespace.
THEOREM OnlySignedVerifies == SignSpec => []Sound
<1>1. SignIInv => Sound
  <2> SUFFICES ASSUME SignIInv, Good PROVE <<verifier.public.key, verifier.ns, verifier.message>> \in signed
    BY DEF Sound
  <2>1. /\ verifier.text \in Seq(Genuine(signed))
        /\ VerifyMessage(verifier.text, verifier.public, verifier.ns, verifier.message).ok
    BY VerdictIsOfTexts DEF Good
  <2>2. signed \in SUBSET (Key \X Namespace \X Message)
    BY DEF SignIInv
  <2> QED
    BY <2>1, <2>2, VerifiedWasSigned
<1> QED
  BY <1>1, SignInvariance, PTL

\* And the text that sign writes is refused for no key that can be read, with either hash.
THEOREM EverySignatureVerifies == SignSpec => []Complete
<1>1. SignIInv => Complete
  <2> SUFFICES ASSUME SignIInv, Told, ~ Good, NEW hash \in HashAlg,
                      SignMessage(verifier.public.key, verifier.ns, hash, verifier.message).ok,
                      verifier.public.line # "neither",
                      SameText(verifier.text,
                               SignMessage(verifier.public.key, verifier.ns, hash, verifier.message).val)
               PROVE  FALSE
    BY DEF Complete
  <2>1. VerifyMessage(verifier.text, verifier.public, verifier.ns, verifier.message).ok
    BY VerdictIsOfTexts, SignedVerifies
  <2> QED
    BY <2>1, VerdictIsOfTexts DEF Good
<1> QED
  BY <1>1, SignInvariance, PTL
=============================================================================
