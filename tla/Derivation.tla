----------------------------- MODULE Derivation -----------------------------
(***************************************************************************)
(* One derivation after another, through either door of the core: the      *)
(* command line (derive.rs) and the JNI bridge of the Android app, which   *)
(* gets its labels as text and its numbers as jint.  Also the parser of    *)
(* context strings.  What a call printed is kept, to be compared with what *)
(* the next one prints.                                                    *)
(***************************************************************************)
EXTENDS Core

CONSTANTS
  Ikm,         \* key material: [name, len]
  Passphrase,  \* a passphrase, or <<>> for none
  Label,       \* profile labels a caller may name
  Purpose,     \* purposes a caller may name
  Index,       \* rotation indices, as numbers (a jint may be negative)
  Length,      \* values of --length, as sequences of at most one
  IndexText,   \* spellings of an index that a context string may carry
  MaxCalls     \* a bound on the calls

VARIABLES
  call,   \* the call in progress
  made,   \* history: what the successful calls derived and for which request
  parsed  \* the last context string that was parsed

vars == <<call, made, parsed>>

\* Key material is known by its name; a purpose is a text; numbers are what clap and Java
\* let through.
ASSUME DerivationAssumption ==
  /\ \A i, j \in Ikm : i.name = j.name => i = j
  /\ Purpose \subseteq Seq(STRING)
  /\ Index \subseteq Int
  /\ \A length \in Length : length = <<>> \/ (length = <<length[1]>> /\ length[1] \in Nat)

Nothing == [pc |-> "idle"]

Init ==
  /\ call = Nothing
  /\ made = {}
  /\ parsed = Err("none")
-----------------------------------------------------------------------------
(* The command line refuses a length that does not go with the profile; the *)
(* bridge refuses a negative index and labels nobody knows.  A refusal, then *)
(* or of the context, returns at once and leaves nothing behind.            *)

Refused(req) ==
  IF req.door = "cli"
  THEN \/ req.lengthGiven /\ req.profile # "raw"
       \/ ~ req.lengthGiven /\ req.profile = "raw"
  ELSE \/ req.index < 0
       \/ req.profile \notin Profile
       \/ req.pipeline \notin Pipeline \cup {""}

ContextOf(req) ==
  IF req.pipeline = "" THEN NewContext(req.profile, req.purpose, req.index)
  ELSE WithPipeline(req.profile, req.pipeline, req.purpose, req.index)

\* The pipeline "" is one that is not given.
Start(req) ==
  LET ctx == ContextOf(req) IN
  /\ ~ Refused(req)
  /\ ctx.ok
  /\ call' = [pc |-> "extract", req |-> req, ctx |-> ctx.val]
  /\ parsed' = Err("none")
  /\ UNCHANGED made

Ask(door, passphrase, pipeline, profile, index, length) ==
  \E ikm \in Ikm, purpose \in Purpose :
    Start([door |-> door, ikm |-> ikm, passphrase |-> passphrase, pipeline |-> pipeline,
           profile |-> profile, purpose |-> purpose, index |-> index,
           lengthGiven |-> length # <<>>, length |-> IF length = <<>> THEN 0 ELSE length[1]])

Begin ==
  /\ call = Nothing
  /\ Cardinality(made) < MaxCalls
  /\ \/ \E passphrase \in Passphrase, pipeline \in Pipeline \cup {""},
          profile \in Label \cap Profile, index \in Index \cap Nat, length \in Length :
          Ask("cli", passphrase, pipeline, profile, index, length)
     \/ \E pipeline \in Pipeline \cup {"", "md5"}, profile \in Label, index \in Index :
          Ask("jni", <<>>, pipeline, profile, index, <<>>)

Return(r) ==
  call' = IF r.ok THEN With([call EXCEPT !.pc = "print"], "out", r.val) ELSE Nothing

ExtractKey ==
  /\ call.pc = "extract"
  /\ LET ikm == NewIkm(call.req.ikm) IN
     IF ~ ikm.ok THEN call' = Nothing
     ELSE call' = With([call EXCEPT !.pc = "stretch"],
                       "master", Extract(ikm.val, call.ctx.pipeline))
  /\ UNCHANGED <<made, parsed>>

AddPassphrase ==
  /\ call.pc = "stretch"
  /\ call' = [call EXCEPT !.pc = "derive", !.master =
                IF call.req.passphrase = <<>> THEN @
                ELSE CascadePassphrase(@, Stretch(call.req.passphrase), call.ctx.pipeline)]
  /\ UNCHANGED <<made, parsed>>

DeriveKey ==
  /\ call.pc = "derive"
  /\ Return(IF call.req.lengthGiven THEN DeriveRaw(call.master, call.ctx, call.req.length)
            ELSE Derive(call.master, call.ctx))
  /\ UNCHANGED <<made, parsed>>

\* What the derivation was for, however it was asked: an omitted pipeline is the
\* profile's own, and the bridge derives 32 raw bytes.
Identity(req, ctx) ==
  [ikm |-> req.ikm, passphrase |-> req.passphrase, ctx |-> ctx,
   len |-> IF req.lengthGiven THEN req.length ELSE ExpandLen(ctx.profile)]

Emit ==
  /\ call.pc = "print"
  /\ made' = made \cup {[id |-> Identity(call.req, call.ctx), door |-> call.req.door,
                         out |-> call.out, public |-> PublicKey(call.out, call.ctx.profile)]}
  /\ call' = Nothing
  /\ UNCHANGED parsed
-----------------------------------------------------------------------------
(* Context::from_str.  str::parse::<u32> takes a sign and leading zeros.   *)

ParseU32(text) ==
  CASE text \in {"0", "00", "+0"} -> Ok(0)
    [] text \in {"7", "007", "+7"} -> Ok(7)
    [] OTHER -> Err("InvalidIndex")

Parse(fields) ==
  IF Len(fields) # 6 \/ fields[1] # <<"ykdf">> \/ fields[2] # <<"v1">> THEN Err("InvalidContext")
  ELSE IF fields[3][1] \notin Pipeline THEN Err("InvalidPipeline")
  ELSE IF fields[4][1] \notin Profile THEN Err("InvalidProfile")
  ELSE IF ~ IsPurpose(fields[5]) THEN Err("InvalidPurpose")
  ELSE Then(ParseU32(fields[6][1]),
            LAMBDA index : WithPipeline(fields[4][1], fields[3][1], fields[5], index))

\* str::split: what stands between two cuts, each colon and both ends of the text being one.
Cuts(text) == {0, Len(text) + 1} \cup {k \in DOMAIN text : text[k] = ":"}
Cut(text, n) == CHOOSE k \in Cuts(text) : Cardinality({c \in Cuts(text) : c < k}) = n

Split(text) ==
  [n \in 1 .. Cardinality(Cuts(text)) - 1 |->
     SubSeq(text, Cut(text, n - 1) + 1, Cut(text, n) - 1)]

ParseText ==
  /\ call = Nothing /\ made = {}
  /\ \E version \in {"v1", "v2"}, pipeline \in {"shake256", "hkdf-sha512", "md5"},
        profile \in {"x25519", "raw", "mlkem768", "aes"}, purpose \in Purpose,
        index \in IndexText :
       parsed' = Parse(Split(<<"ykdf", ":", version, ":", pipeline, ":", profile, ":">>
                             \o purpose \o <<":", index>>))
  /\ UNCHANGED <<call, made>>

Next ==
  \/ Begin
  \/ ExtractKey
  \/ AddPassphrase
  \/ DeriveKey
  \/ Emit
  \/ ParseText

Spec == Init /\ [][Next]_vars
-----------------------------------------------------------------------------
\* A context is only ever one the core would build, and a secret has the
\* length its profile needs (take_fixed, seed_from_expanded).
TypeOK ==
  /\ call.pc \in {"idle", "extract", "stretch", "derive", "print"}
  /\ \A m \in made :
       /\ Accepts(m.id.ctx.profile, m.id.ctx.pipeline) /\ IsPurpose(m.id.ctx.purpose)
       /\ m.out.secret.len = m.id.len /\ m.id.len > 0
       /\ m.id.ctx.profile # "raw" => m.id.len = ExpandLen(m.id.ctx.profile)

\* Two derivations that differ in anything -- key material, passphrase,
\* pipeline, profile, purpose, index or length -- draw on different streams, so
\* that neither key is even a prefix of the other (kdf_info binds the length
\* because both expansions have the prefix property; extract, cascade and expand
\* feed one hash and must not feed it the same).
StreamsApart ==
  \A m, n \in made : m.id # n.id => m.out.secret.of # n.out.secret.of

\* The same derivation gives the same secret, clamping and kind included, and the
\* same public key through either door (the app's keys are the keys of the CLI).
DoorsAgree ==
  \A m, n \in made : m.id = n.id => m.out = n.out /\ m.public = n.public

\* Every context the core builds can be derived from: the lengths that the expand
\* phase produces (profile/mod.rs) are those the post-processing takes
\* (profile/mlkem.rs, mldsa.rs, x25519.rs).  Only raw bytes may be too many.
ContextDerives ==
  call.pc = "derive" /\ call.ctx.profile # "raw" => Derive(call.master, call.ctx).ok

\* A context string that parses is rendered as one that parses to the same
\* context, odd spellings of the index included (the fuzz target context_parse).
RoundTrip == parsed.ok => Parse(Split(Display(parsed.val))) = parsed
=============================================================================
