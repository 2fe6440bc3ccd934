-------------------------------- MODULE Core --------------------------------
(***************************************************************************)
(* ykdf-core: profiles, pipelines, contexts, and the two phases of a       *)
(* derivation as terms.                                                    *)
(*                                                                         *)
(* A text is a sequence of tokens: ":" and "-" stand for themselves, every *)
(* other token for a run of characters without them.  A hash or a MAC is   *)
(* the term of what was fed to it, and bytes of variable length are the    *)
(* first `len' bytes of the stream that a term names: what collides here   *)
(* collides in the program, and nothing else does.  A value that can fail  *)
(* is [ok |-> TRUE, val |-> v] or [ok |-> FALSE, err |-> name].            *)
(***************************************************************************)
EXTENDS Integers, Sequences, SequencesExt

Ok(v) == [ok |-> TRUE, val |-> v]
Err(e) == [ok |-> FALSE, err |-> e]

\* A record with one field more.
With(r, field, v) == [f \in DOMAIN r \cup {field} |-> IF f = field THEN v ELSE r[f]]
-----------------------------------------------------------------------------
(* pipeline.rs, profile/mod.rs *)

MLKEM == {"mlkem512", "mlkem768", "mlkem1024"}
MLDSA == {"mldsa44", "mldsa65", "mldsa87"}
Classical == {"x25519", "ed25519", "age-x25519", "symmetric"}
Profile == Classical \cup MLKEM \cup MLDSA \cup {"raw"}
HKDF == {"hkdf-sha512", "hkdf-sha3-512"}
Pipeline == HKDF \cup {"shake256"}

DefaultPipeline(profile) ==
  IF profile \in MLKEM \cup MLDSA THEN "shake256" ELSE "hkdf-sha512"

Accepts(profile, pipeline) ==
  \/ profile \in MLKEM \cup MLDSA /\ pipeline = "shake256"
  \/ profile \in Classical /\ pipeline \in HKDF
  \/ profile = "raw" /\ pipeline \in Pipeline

\* Mutant: the length of a key is the same for all
ExpandLen32(profile) == 32

ExpandLen(profile) == IF profile \in MLKEM THEN 64 ELSE 32
-----------------------------------------------------------------------------
(* context.rs *)

\* One token stands for at most 64 characters; "long" for more.
IsPurpose(purpose) ==
  /\ purpose # <<>>
  /\ \A k \in DOMAIN purpose : purpose[k] \notin {":", "Upper", "long", " "}
  /\ Head(purpose) # "-" /\ Last(purpose) # "-"

Context(pipeline, profile, purpose, index) ==
  [pipeline |-> pipeline, profile |-> profile, purpose |-> purpose, index |-> index]

WithPipeline(profile, pipeline, purpose, index) ==
  IF ~ Accepts(profile, pipeline) THEN Err("PipelineMismatch")
  ELSE IF ~ IsPurpose(purpose) THEN Err("InvalidPurpose")
  ELSE Ok(Context(pipeline, profile, purpose, index))

NewContext(profile, purpose, index) ==
  WithPipeline(profile, DefaultPipeline(profile), purpose, index)

\* Mutant: the profile is written before the pipeline
DisplaySwapped(ctx) ==
  <<"ykdf", ":", "v1", ":", ctx.profile, ":", ctx.pipeline, ":">> \o ctx.purpose
  \o <<":", ToString(ctx.index)>>

\* Numbers are printed in decimal, which has neither a sign nor leading zeros.
Display(ctx) ==
  <<"ykdf", ":", "v1", ":", ctx.pipeline, ":", ctx.profile, ":">> \o ctx.purpose
  \o <<":", ToString(ctx.index)>>

\* Mutant: the length is not bound
KdfInfoNoLen(ctx, len) == Display(ctx)

KdfInfo(ctx, len) == Display(ctx) \o <<":", ToString(len)>>
-----------------------------------------------------------------------------
(* extract/, stretch.rs, expand/: the terms *)

\* A source of key material: a name and its length in bytes.
MinIkmLen == 16
NewIkm(ikm) == IF ikm.len < MinIkmLen THEN Err("InsufficientIkm") ELSE Ok(ikm)

\* HMAC separates key and message; SHAKE absorbs one concatenation.
Hmac(hash, key, message) == <<"hmac", hash, key, message>>
Shake(input) == <<"shake256", input>>
Bytes(term) == << <<"bytes", term>> >>

ExtractHkdf(ikm, hash) == Hmac(hash, <<"salt", "ykdf-v1">>, Bytes(ikm.name))
ExtractSponge(ikm) == Shake(<< <<"tag", 1>>, <<"salt", "ykdf-v1">> >> \o Bytes(ikm.name))
Extract(ikm, pipeline) ==
  IF pipeline = "shake256" THEN ExtractSponge(ikm) ELSE ExtractHkdf(ikm, pipeline)

CascadeHkdf(early, more, hash) == Hmac(hash, Bytes(early), more)
CascadeSponge(early, more) == Shake(<< <<"tag", 2>> >> \o Bytes(early) \o more)
Cascade(early, more, pipeline) ==
  IF pipeline = "shake256" THEN CascadeSponge(early, more) ELSE CascadeHkdf(early, more, pipeline)

Descriptor == "argon2id:m=131072,t=3,p=1"
Stretch(passphrase) == <<"argon2id", passphrase>>
CascadePassphrase(early, stretched, pipeline) ==
  Cascade(early, << <<"descriptor", Descriptor>> >> \o Bytes(stretched), pipeline)

MaxHkdf == 255 * 64
ExpandHkdf(master, ctx, len) ==
  IF len > MaxHkdf THEN Err("ExpandOutputTooLong")
  ELSE Ok([of |-> Hmac(ctx.pipeline, Bytes(master), << <<"info", KdfInfo(ctx, len)>> >>), len |-> len])

ExpandSponge(master, ctx, len) ==
  Ok([of |-> Shake(Bytes(master) \o << <<"info", KdfInfo(ctx, len)>> >>), len |-> len])

Expand(master, ctx, len) ==
  IF ctx.pipeline = "shake256" THEN ExpandSponge(master, ctx, len) ELSE ExpandHkdf(master, ctx, len)
-----------------------------------------------------------------------------
(* derive.rs, profile/: what becomes of the expanded bytes.  A key pair, an *)
(* identity and a seed are named by the bytes they are made from.          *)

\* The `?' operator.
Then(r, Op(_)) == IF r.ok THEN Op(r.val) ELSE r

TakeFixed(expanded, n) == IF expanded.len = n THEN Ok(expanded) ELSE Err("ExpandLength")

Output(kind, secret, clamped) == [kind |-> kind, secret |-> secret, clamped |-> clamped]

X25519Key(e) == Then(TakeFixed(e, 32), LAMBDA s : Ok(Output("SecretKey", s, TRUE)))
Ed25519Seed(e) == Then(TakeFixed(e, 32), LAMBDA s : Ok(Output("Ed25519Seed", s, FALSE)))
AgeIdentity(e) == Then(TakeFixed(e, 32), LAMBDA s : Ok(Output("AgeIdentity", s, TRUE)))
SymmetricKey(e) == Then(TakeFixed(e, 32), LAMBDA s : Ok(Output("SecretKey", s, FALSE)))
MlKemKeypair(e) == Then(TakeFixed(e, 64), LAMBDA s : Ok(Output("MlKemKeypair", s, FALSE)))
MlDsaKeypair(e) == Then(TakeFixed(e, 32), LAMBDA s : Ok(Output("MlDsaKeypair", s, FALSE)))
RawBytes(e) == Ok(Output("Raw", e, FALSE))

PostProcess(profile, e) ==
  CASE profile = "x25519" -> X25519Key(e)
    [] profile = "ed25519" -> Ed25519Seed(e)
    [] profile = "age-x25519" -> AgeIdentity(e)
    [] profile = "symmetric" -> SymmetricKey(e)
    [] profile \in MLKEM -> MlKemKeypair(e)
    [] profile \in MLDSA -> MlDsaKeypair(e)
    [] profile = "raw" -> RawBytes(e)

Derive(master, ctx) ==
  Then(Expand(master, ctx, ExpandLen(ctx.profile)), LAMBDA e : PostProcess(ctx.profile, e))

\* Mutant: nothing refuses a length of zero
DeriveRawAnyLength(master, ctx, len) ==
  IF ctx.profile # "raw" THEN Err("ProfileMismatch")
  ELSE Then(Expand(master, ctx, len), LAMBDA e : PostProcess("raw", e))

\* Mutant: whole blocks are expanded and the rest is cut off
DeriveRawBlocks(master, ctx, len) ==
  IF ctx.profile # "raw" THEN Err("ProfileMismatch")
  ELSE IF len = 0 THEN Err("ZeroLengthOutput")
  ELSE Then(Expand(master, ctx, ((len + 63) \div 64) * 64),
            LAMBDA e : PostProcess("raw", [e EXCEPT !.len = len]))

DeriveRaw(master, ctx, len) ==
  IF ctx.profile # "raw" THEN Err("ProfileMismatch")
  ELSE IF len = 0 THEN Err("ZeroLengthOutput")
  ELSE Then(Expand(master, ctx, len), LAMBDA e : PostProcess("raw", e))

\* format.rs of the core: a public key names the secret and its encoding.
PublicKey(output, profile) ==
  CASE output.kind = "SecretKey" /\ profile = "x25519" -> <<"base64", output.secret>>
    [] output.kind = "Ed25519Seed" -> <<"ssh-ed25519", output.secret>>
    [] output.kind = "AgeIdentity" -> <<"age1", output.secret>>
    [] output.kind \in {"MlKemKeypair", "MlDsaKeypair"} -> <<"base64", output.secret>>
    [] OTHER -> <<>>
-----------------------------------------------------------------------------
(* apps/cli format.rs: only `binary' writes the bytes themselves, the others *)
(* an encoding of them and a newline.                                        *)

OutputFormat == {"base64", "hex", "openssh", "age", "binary"}

DefaultFormat(profile) ==
  CASE profile = "ed25519" -> "openssh"
    [] profile = "age-x25519" -> "age"
    [] profile \in {"symmetric", "raw"} -> "hex"
    [] OTHER -> "base64"

ValidFormat(profile, format) ==
  CASE format = "openssh" -> profile = "ed25519"
    [] format = "age" -> profile = "age-x25519"
    [] OTHER -> profile # "age-x25519"

Encoded(format, output) == <<format, output.secret, "newline">>

\* `format' is a sequence of at most one format.
FormatOutput(output, profile, format) ==
  LET f == IF format = <<>> THEN DefaultFormat(profile) ELSE format[1] IN
  IF ~ ValidFormat(profile, f) THEN Err("InvalidFormat")
  ELSE Ok(IF f = "binary" THEN <<output.secret>> ELSE Encoded(f, output))

\* What the JNI bridge hands to the app.
SecretBytes(output) == <<output.secret>>
=============================================================================
