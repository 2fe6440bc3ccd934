------------------------------ MODULE Signature ------------------------------
(***************************************************************************)
(* Detached signatures: sign.rs of ykdf-core, and the reading and writing  *)
(* of `ykdf sign' and `ykdf verify'.  One signer writes the signature file *)
(* while one verifier reads it; the message is edited and the file is      *)
(* altered between any two of their steps, as on its way from one to the   *)
(* other.                                                                  *)
(*                                                                         *)
(* A text is a sequence of items [is, val].  An SSHSIG is                  *)
(*   BEGIN magic version keyblob namespace reserved label sigblob END      *)
(* with the armour's line breaks left out, a ykdf-sig                      *)
(*   prefix label body.                                                    *)
(* An item cut off by a write that failed is "part": what reads it ends    *)
(* early, or is not base64.  Keys are names; a signature is the term of    *)
(* what made it, and verifies for nothing else.                            *)
(***************************************************************************)
EXTENDS Core, FiniteSets

CONSTANTS
  Key,           \* key names; KeyProfile gives the profile of each
  KeyProfile,
  Namespace,
  Message,
  MaxSigned,     \* a bound on what is signed
  MaxAlterations \* a bound on edits of the message and alterations of the signature

ASSUME SignatureAssumption == KeyProfile \in [Key -> Profile] /\ MaxAlterations \in Nat

VARIABLES
  message,   \* the message file
  file,      \* the signature file
  signer,    \* `ykdf sign'
  verifier,  \* `ykdf verify'
  altered,   \* how often something was altered
  signed     \* history: what was signed

signVars == <<message, file, signer, verifier, altered, signed>>

HashAlg == {"sha256", "sha512"}
Item(is, val) == [is |-> is, val |-> val]

Digest(hash, m) == <<hash, m>>

\* What is signed, the version of the container being bound outside it for ML-DSA.
SshsigSignedData(ns, hash, m) == <<"SSHSIG", ns, "", hash, Digest(hash, m)>>
YkdfSigSignedData(ns, m) == <<"ykdf-sig:v1", ns, "sha512", Digest("sha512", m)>>
-----------------------------------------------------------------------------
(* sign_message *)

SignSshsig(key, ns, hash, m) ==
  << Item("BEGIN", ""), Item("magic", "SSHSIG"), Item("version", "1"),
     Item("keyblob", <<"ssh-ed25519", key>>), Item("namespace", ns), Item("reserved", ""),
     Item("label", hash),
     Item("sigblob", <<"ssh-ed25519", <<key, SshsigSignedData(ns, hash, m)>> >>),
     Item("END", "") >>

SignYkdfSig(key, ns, m) ==
  << Item("prefix", "ykdf-sig:v1:"), Item("label", KeyProfile[key]),
     Item("body", <<KeyProfile[key], <<key, YkdfSigSignedData(ns, m)>> >>) >>

SignMessage(key, ns, hash, m) ==
  CASE KeyProfile[key] = "ed25519" -> Ok(SignSshsig(key, ns, hash, m))
    [] KeyProfile[key] \in MLDSA -> Ok(SignYkdfSig(key, ns, m))
    [] OTHER -> Err("SigningUnsupported")
-----------------------------------------------------------------------------
(* verify_message: Ok(TRUE), or the error of the first check that fails *)

\* Mutant: every label names the hash that ssh-keygen uses by default.
FromLabelDefault(label) == <<"sha512">>

FromLabel(label) == IF label \in HashAlg THEN <<label>> ELSE <<>>

\* Mutant: the key inside the signature is taken at its word.
SameKeyAny(embedded, supplied) == TRUE

SameKey(embedded, supplied) == embedded = supplied

\* A supplied key is [line, key]: an ssh-ed25519 line, base64 data, or neither.
ParseSshKey(public) ==
  IF public.line = "ssh" THEN Ok(public.key) ELSE Err("MalformedPublicKey")

\* From BEGIN to END, or to the end of the file where END is missing.
Dearmour(text) ==
  LET ends == {k \in DOMAIN text : text[k].is = "END"}
      body == IF ends = {} THEN Tail(text) ELSE SubSeq(text, 2, (CHOOSE k \in ends : TRUE) - 1)
  IN IF body = <<>> \/ \E k \in DOMAIN body : body[k].is = "junk"
     THEN Err("MalformedSignature") ELSE Ok(body)

\* Reading seven fields; a field is whole or it ends the reading.  What follows is not read,
\* and a field that stands at another's place is read as none that is known.
Fields(body) ==
  IF Len(body) < 7 \/ \E k \in 1 .. 7 : body[k].is = "part" THEN Err("MalformedSignature")
  ELSE LET field(k, is, none) == IF body[k].is = is THEN body[k].val ELSE none IN
       IF field(1, "magic", "") # "SSHSIG" \/ field(2, "version", "") # "1"
       THEN Err("MalformedSignature")
       ELSE Ok([keyblob |-> field(3, "keyblob", <<"none">>), namespace |-> field(4, "namespace", ""),
                label |-> field(6, "label", ""), sigblob |-> field(7, "sigblob", <<"none">>)])

VerifySshsig(text, public, ns, m) ==
  Then(ParseSshKey(public), LAMBDA expected :
  Then(Then(Dearmour(text), Fields), LAMBDA f :
    IF f.namespace # ns THEN Err("NamespaceMismatch")
    ELSE IF f.keyblob[1] # "ssh-ed25519" THEN Err("MalformedPublicKey")
    ELSE IF ~ SameKey(f.keyblob[2], expected) \/ FromLabel(f.label) = <<>>
            \/ f.sigblob[1] # "ssh-ed25519" THEN Err("MalformedSignature")
    ELSE IF f.sigblob[2] = <<f.keyblob[2], SshsigSignedData(ns, FromLabel(f.label)[1], m)>>
    THEN Ok(TRUE) ELSE Err("SignatureVerificationFailed")))

\* The lengths of keys and signatures differ between the parameter sets.
VerifyYkdfSig(text, public, ns, m) ==
  IF Len(text) < 3 THEN Err("MalformedSignature")
  ELSE LET label == IF text[2].is = "label" THEN text[2].val ELSE ""
           body == text[3]
       IN IF label \notin Profile \/ body.is # "body" THEN Err("MalformedSignature")
          ELSE IF public.line # "base64" THEN Err("MalformedPublicKey")
          ELSE IF label \notin MLDSA THEN Err("MalformedSignature")
          ELSE IF KeyProfile[public.key] # label THEN Err("MalformedPublicKey")
          ELSE IF body.val[1] # label THEN Err("MalformedSignature")
          ELSE IF body.val[2] = <<public.key, YkdfSigSignedData(ns, m)>> THEN Ok(TRUE)
          ELSE Err("SignatureVerificationFailed")

VerifyMessage(text, public, ns, m) ==
  CASE text # <<>> /\ text[1].is = "BEGIN" -> VerifySshsig(text, public, ns, m)
    [] text # <<>> /\ text[1].is = "prefix" -> VerifyYkdfSig(text, public, ns, m)
    [] OTHER -> Err("MalformedSignature")
-----------------------------------------------------------------------------
(* ykdf sign: the message is read first, the file is opened when there is  *)
(* something to write, and what a failed write leaves stays there.         *)

Idle == [pc |-> "idle"]

SignInit ==
  /\ message \in Message
  /\ file = <<>>
  /\ signer = Idle /\ verifier = Idle
  /\ altered = 0 /\ signed = {}

SignRead ==
  /\ signer.pc = "idle" /\ Cardinality(signed) < MaxSigned
  /\ \E key \in Key, ns \in Namespace, hash \in HashAlg :
       /\ KeyProfile[key] \in MLDSA => hash = "sha512"
       /\ signer' = [pc |-> "derive", key |-> key, ns |-> ns, hash |-> hash, message |-> message]
  /\ UNCHANGED <<message, file, verifier, altered, signed>>

SignDerive ==
  /\ signer.pc = "derive"
  /\ LET r == SignMessage(signer.key, signer.ns, signer.hash, signer.message) IN
     IF r.ok
     THEN /\ signer' = [pc |-> "open", text |-> r.val]
          /\ signed' = signed \cup {<<signer.key, signer.ns, signer.message>>}
     ELSE signer' = Idle /\ UNCHANGED signed
  /\ UNCHANGED <<message, file, verifier, altered>>

SignOpen ==
  /\ signer.pc = "open"
  /\ signer' = [signer EXCEPT !.pc = "write"] /\ file' = <<>>
  /\ UNCHANGED <<message, verifier, altered, signed>>

SignWrite ==
  /\ signer.pc = "write"
  /\ \/ file' = signer.text
     \/ \E n \in 0 .. Len(signer.text) - 1 :
          file' \in {SubSeq(signer.text, 1, n), Append(SubSeq(signer.text, 1, n), Item("part", ""))}
  /\ signer' = Idle
  /\ UNCHANGED <<message, verifier, altered, signed>>
-----------------------------------------------------------------------------
(* ykdf verify: the key, the signature and the message are read in turn.   *)

Public ==
  {[line |-> IF KeyProfile[k] = "ed25519" THEN "ssh" ELSE "base64", key |-> k] : k \in Key}
  \cup {[line |-> "neither", key |-> CHOOSE k \in Key : TRUE]}

VerifyReadKey ==
  /\ verifier.pc = "idle"
  /\ \E public \in Public, ns \in Namespace :
       verifier' = [pc |-> "signature", public |-> public, ns |-> ns]
  /\ UNCHANGED <<message, file, signer, altered, signed>>

VerifyReadSignature ==
  /\ verifier.pc = "signature"
  /\ verifier' = With([verifier EXCEPT !.pc = "message"], "text", file)
  /\ UNCHANGED <<message, file, signer, altered, signed>>

VerifyReadMessage ==
  /\ verifier.pc = "message"
  /\ verifier' = With([verifier EXCEPT !.pc = "verify"], "message", message)
  /\ UNCHANGED <<message, file, signer, altered, signed>>

Verify ==
  /\ verifier.pc = "verify"
  /\ verifier' = With([verifier EXCEPT !.pc = "told"], "verdict",
       VerifyMessage(verifier.text, verifier.public, verifier.ns, verifier.message))
  /\ UNCHANGED <<message, file, signer, altered, signed>>

VerifyEnd ==
  /\ verifier.pc = "told"
  /\ verifier' = Idle
  /\ UNCHANGED <<message, file, signer, altered, signed>>
-----------------------------------------------------------------------------
(* What happens on the way. *)

EditMessage ==
  /\ altered < MaxAlterations /\ altered' = altered + 1
  /\ \E m \in Message \ {message} : message' = m
  /\ UNCHANGED <<file, signer, verifier, signed>>

\* Another value for one item, of the kind that stands there.
Other(item) ==
  CASE item.is = "magic" -> {"SSHKEY"}
    [] item.is = "version" -> {"2"}
    [] item.is = "keyblob" -> {<<kind, key>> : kind \in {"ssh-ed25519", "ssh-rsa"}, key \in Key}
    [] item.is = "namespace" -> Namespace
    [] item.is = "reserved" -> {"x"}
    [] item.is = "label" -> {"sha256", "sha512", "md5", "raw"} \cup MLDSA
    [] item.is = "sigblob" -> {<<"ssh-rsa", item.val[2]>>}
    [] item.is = "body" -> {<<p, item.val[2]>> : p \in MLDSA}
    [] OTHER -> {}

Alter ==
  /\ altered < MaxAlterations /\ altered' = altered + 1
  /\ file # <<>> /\ signer.pc # "write"
  /\ \/ \E k \in DOMAIN file : \E val \in Other(file[k]) : file' = [file EXCEPT ![k].val = val]
     \/ \E k \in DOMAIN file : file' = [file EXCEPT ![k] = Item("junk", "")]
     \/ \E k \in DOMAIN file : file' = RemoveAt(file, k)
     \/ \E item \in {Item("reserved", ""), Item("junk", "")} : file' = InsertAt(file, Len(file), item)
  /\ UNCHANGED <<message, signer, verifier, signed>>

SignNext ==
  \/ SignRead
  \/ SignDerive
  \/ SignOpen
  \/ SignWrite
  \/ VerifyReadKey
  \/ VerifyReadSignature
  \/ VerifyReadMessage
  \/ Verify
  \/ VerifyEnd
  \/ EditMessage
  \/ Alter

SignSpec == SignInit /\ [][SignNext]_signVars
-----------------------------------------------------------------------------
Told == verifier.pc = "told"
Good == Told /\ verifier.verdict.ok

\* The two commands hold what their stage needs, and a verdict is a success or an error of
\* the four that verify_message documents.
SignTypeOK ==
  /\ message \in Message /\ altered \in 0 .. MaxAlterations
  /\ signed \subseteq Key \X Namespace \X Message
  /\ signer.pc \in {"idle", "derive", "open", "write"}
  /\ verifier.pc \in {"idle", "signature", "message", "verify", "told"}
  /\ Told /\ ~ Good => verifier.verdict.err \in
       {"MalformedSignature", "MalformedPublicKey", "NamespaceMismatch", "SignatureVerificationFailed"}

\* A good signature is one that the holder of the supplied key made, in that namespace, over
\* the bytes that the verifier read -- whatever became of the file in between, and whatever
\* part of it a failed write left.
Sound == Good => <<verifier.public.key, verifier.ns, verifier.message>> \in signed

\* Item by item, for a value is only like another of its kind.
SameText(t, u) == Len(t) = Len(u) /\ \A k \in DOMAIN t : t[k].is = u[k].is /\ t[k].val = u[k].val

\* What sign writes, verify accepts: the same key, namespace and message, either hash.
Complete ==
  Told /\ ~ Good =>
    \A hash \in HashAlg :
      LET r == SignMessage(verifier.public.key, verifier.ns, hash, verifier.message) IN
      r.ok /\ verifier.public.line # "neither" => ~ SameText(verifier.text, r.val)
=============================================================================
