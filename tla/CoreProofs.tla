----------------------------- MODULE CoreProofs -----------------------------
(***************************************************************************)
(* Proofs about the derivation pipeline: Derivation, for any key material, *)
(* passphrases, purposes, indices and lengths, and any number of calls     *)
(* through either door; and HkdfExpand, for every length: the loop         *)
(* computes the output of RFC 5869, its counter never wraps, and no length *)
(* is served beyond 255 blocks.                                            *)
(*                                                                         *)
(* Hashes and MACs are terms, so that they do not collide by themselves;   *)
(* what is proved is that the code never feeds them the same for two       *)
(* derivations that differ.                                                *)
(***************************************************************************)
EXTENDS Derivation, HkdfExpand, FiniteSetTheorems, SequenceTheorems, TLAPS

\* Two numbers are never printed alike.
DecimalIsUnique == \A m, o \in Nat : ToString(m) = ToString(o) => m = o

\* A context that the core builds, and what a derivation is of.
IsContext(ctx) ==
  /\ ctx = Context(ctx.pipeline, ctx.profile, ctx.purpose, ctx.index)
  /\ Accepts(ctx.profile, ctx.pipeline)
  /\ ctx.purpose \in Seq(STRING) /\ IsPurpose(ctx.purpose)
  /\ ctx.index \in Nat

IsIdentity(id) ==
  /\ id = [ikm |-> id.ikm, passphrase |-> id.passphrase, ctx |-> id.ctx, len |-> id.len]
  /\ id.ikm \in Ikm /\ IsContext(id.ctx)
  /\ id.len \in Nat \ {0}
  /\ id.ctx.profile # "raw" => id.len = ExpandLen(id.ctx.profile)

\* What is fed to the hash in each phase, and what comes out.
Master(ikm, passphrase, pipeline) ==
  IF passphrase = <<>> THEN Extract(ikm, pipeline)
  ELSE CascadePassphrase(Extract(ikm, pipeline), Stretch(passphrase), pipeline)

Info(id) == << <<"info", KdfInfo(id.ctx, id.len)>> >>
Stream(id) ==
  LET master == Master(id.ikm, id.passphrase, id.ctx.pipeline) IN
  IF id.ctx.pipeline = "shake256" THEN Shake(Bytes(master) \o Info(id))
  ELSE Hmac(id.ctx.pipeline, Bytes(master), Info(id))

Expanded(id) == [of |-> Stream(id), len |-> id.len]
Secret(id) == PostProcess(id.ctx.profile, Expanded(id))
-----------------------------------------------------------------------------
(* Contexts and lengths *)

\* with_pipeline builds contexts and no others.
LEMMA BuiltContext ==
  ASSUME NEW profile, NEW pipeline, NEW purpose \in Seq(STRING), NEW index \in Nat,
         WithPipeline(profile, pipeline, purpose, index).ok
  PROVE  LET ctx == WithPipeline(profile, pipeline, purpose, index).val IN
         /\ IsContext(ctx)
         /\ ctx.profile = profile
BY DEF WithPipeline, IsContext, Context, Ok, Err

\* Every profile takes what is expanded for it, and keeps it whole.
LEMMA PostProcessed ==
  ASSUME NEW profile \in Profile, NEW e, profile # "raw" => e.len = ExpandLen(profile)
  PROVE  PostProcess(profile, e).ok /\ PostProcess(profile, e).val.secret = e
<1>1. \/ profile \in {"x25519", "ed25519", "age-x25519", "symmetric", "raw"}
      \/ profile \in MLKEM \/ profile \in MLDSA
  BY DEF Profile, Classical
<1> QED BY <1>1 DEF PostProcess, X25519Key, Ed25519Seed, AgeIdentity, SymmetricKey, MlKemKeypair,
      MlDsaKeypair, RawBytes, Then, TakeFixed, Ok, Err, Output, ExpandLen, MLKEM, MLDSA

\* The profiles and pipelines of a context are those of the core.
LEMMA ContextLabels ==
  ASSUME NEW ctx, IsContext(ctx)
  PROVE  ctx.profile \in Profile /\ ctx.pipeline \in Pipeline
BY DEF IsContext, Accepts, Profile, Pipeline

\* Both expansions draw on the stream of the derivation.
LEMMA ExpandIsStream ==
  ASSUME NEW id, IsIdentity(id)
  PROVE  LET r == Expand(Master(id.ikm, id.passphrase, id.ctx.pipeline), id.ctx, id.len) IN
         /\ r.ok => r.val = Expanded(id)
         /\ id.len <= MaxHkdf => r.ok
<1>1. CASE id.ctx.pipeline = "shake256"
  BY <1>1 DEF Expand, ExpandSponge, Expanded, Stream, Info, Ok
<1>2. CASE id.ctx.pipeline # "shake256"
  <2>1. ~ id.len > MaxHkdf <=> id.len <= MaxHkdf
    BY DEF IsIdentity, MaxHkdf
  <2> QED BY <1>2, <2>1 DEF Expand, ExpandHkdf, Expanded, Stream, Info, Ok, Err
<1> QED BY <1>1, <1>2

\* So do both derivations: with no length given, or with one for raw bytes.
LEMMA DeriveIsSecret ==
  ASSUME NEW id, IsIdentity(id)
  PROVE  LET master == Master(id.ikm, id.passphrase, id.ctx.pipeline) IN
         /\ id.len = ExpandLen(id.ctx.profile) =>
              Derive(master, id.ctx).ok /\ Derive(master, id.ctx).val = Secret(id).val
         /\ id.ctx.profile = "raw" /\ DeriveRaw(master, id.ctx, id.len).ok =>
              DeriveRaw(master, id.ctx, id.len).val = Secret(id).val
<1> DEFINE master == Master(id.ikm, id.passphrase, id.ctx.pipeline)
           r == Expand(master, id.ctx, id.len)
<1>1. /\ r.ok => r.val = Expanded(id)
      /\ id.len <= MaxHkdf => r.ok
  BY ExpandIsStream
<1>2. Secret(id).ok
  BY PostProcessed, ContextLabels DEF IsIdentity, Secret, Expanded
<1>3. ASSUME id.len = ExpandLen(id.ctx.profile)
      PROVE  Derive(master, id.ctx).ok /\ Derive(master, id.ctx).val = Secret(id).val
  <2>1. r.ok
    BY <1>1, <1>3 DEF ExpandLen, MaxHkdf
  <2>2. Derive(master, id.ctx) = Then(r, LAMBDA e : PostProcess(id.ctx.profile, e))
    BY <1>3 DEF Derive
  <2> HIDE DEF r
  <2> QED BY <1>1, <1>2, <2>1, <2>2 DEF Then, Secret
<1>4. ASSUME id.ctx.profile = "raw", DeriveRaw(master, id.ctx, id.len).ok
      PROVE  DeriveRaw(master, id.ctx, id.len).val = Secret(id).val
  <2>1. DeriveRaw(master, id.ctx, id.len) = Then(r, LAMBDA e : PostProcess("raw", e))
    BY <1>4 DEF DeriveRaw, IsIdentity
  <2> HIDE DEF r
  <2>2. r.ok
    BY <1>4, <2>1 DEF Then
  <2> QED BY <1>1, <1>4, <2>1, <2>2 DEF Then, Secret
<1> QED BY <1>3, <1>4
-----------------------------------------------------------------------------
(* What is fed to the hashes differs whenever the derivations do. *)

\* A concatenation is taken apart where either its first parts or its last are as long.
LEMMA Parts ==
  ASSUME NEW S, NEW a \in Seq(S), NEW b \in Seq(S), NEW c \in Seq(S), NEW d \in Seq(S),
         a \o b = c \o d, Len(a) = Len(c) \/ Len(b) = Len(d)
  PROVE  a = c /\ b = d
<1>1. /\ Len(a \o b) = Len(a) + Len(b) /\ Len(c \o d) = Len(c) + Len(d)
      /\ \A at \in 1 .. Len(a) + Len(b) : (a \o b)[at] = IF at <= Len(a) THEN a[at] ELSE b[at - Len(a)]
      /\ \A at \in 1 .. Len(c) + Len(d) : (c \o d)[at] = IF at <= Len(c) THEN c[at] ELSE d[at - Len(c)]
  BY ConcatProperties
<1>2. Len(a) \in Nat /\ Len(b) \in Nat /\ Len(c) \in Nat /\ Len(d) \in Nat
  BY LenProperties
<1>3. Len(a) = Len(c) /\ Len(b) = Len(d)
  BY <1>1, <1>2
<1>4. \A at \in 1 .. Len(a) : a[at] = c[at]
  BY <1>1, <1>2, <1>3
<1>5. ASSUME NEW at \in 1 .. Len(b) PROVE b[at] = d[at]
  <2>1. /\ Len(a) + at \in 1 .. Len(a) + Len(b) /\ ~ (Len(a) + at <= Len(a))
        /\ (Len(a) + at) - Len(a) = at
    BY <1>2
  <2>2. (a \o b)[Len(a) + at] = b[at] /\ (c \o d)[Len(a) + at] = d[at]
    BY <1>1, <1>3, <2>1
  <2> QED BY <2>2
<1> QED BY <1>3, <1>4, <1>5, SeqEqual

\* The fields of kdf_info around the purpose, which alone is of variable length.
Labels(ctx) == <<"ykdf", ":", "v1", ":", ctx.pipeline, ":", ctx.profile, ":">>
Number(o) == <<":", ToString(o)>>

\* kdf_info determines the context and the length ("the encoding stays unambiguous",
\* context.rs:156).
LEMMA InfoIsUnique ==
  ASSUME DecimalIsUnique, NEW c, NEW d, IsContext(c), IsContext(d), NEW m \in Nat, NEW o \in Nat,
         KdfInfo(c, m) = KdfInfo(d, o)
  PROVE  c = d /\ m = o
<1> DEFINE S == {"ykdf", ":", "v1"} \cup Pipeline \cup Profile \cup STRING
                \cup {ToString(k) : k \in Nat}
<1>1. /\ {"ykdf", ":", "v1"} \subseteq S /\ Pipeline \subseteq S /\ Profile \subseteq S
      /\ STRING \subseteq S /\ \A k \in Nat : ToString(k) \in S
  OBVIOUS
<1> HIDE DEF S
<1>0. \A x, u, y, v \in Seq(S) :
        x \o u = y \o v /\ (Len(x) = Len(y) \/ Len(u) = Len(v)) => x = y /\ u = v
  BY Parts
<1>2. ASSUME NEW x, IsContext(x)
      PROVE  /\ Labels(x) \in Seq(S) /\ Len(Labels(x)) = 8 /\ x.purpose \in Seq(S)
             /\ Labels(x) \o x.purpose \in Seq(S)
             /\ Number(x.index) \in Seq(S) /\ Labels(x) \o x.purpose \o Number(x.index) \in Seq(S)
  <2>1. x.pipeline \in S /\ x.profile \in S
    BY <1>1, <1>2, ContextLabels
  <2>2. Labels(x) \in Seq(S) /\ Len(Labels(x)) = 8
    BY <1>1, <2>1 DEF Labels
  <2>3. x.purpose \in Seq(S)
    BY <1>1, <1>2, SeqMonotonic DEF IsContext
  <2>4. Number(x.index) \in Seq(S)
    BY <1>1, <1>2 DEF Number, IsContext
  <2> QED BY <2>2, <2>3, <2>4, ConcatProperties
<1>3. \A k \in Nat : Number(k) \in Seq(S) /\ Len(Number(k)) = 2
  BY <1>1 DEF Number
<1>4. /\ KdfInfo(c, m) = (Labels(c) \o c.purpose \o Number(c.index)) \o Number(m)
      /\ KdfInfo(d, o) = (Labels(d) \o d.purpose \o Number(d.index)) \o Number(o)
  BY DEF KdfInfo, Display, Labels, Number
<1>5. /\ Labels(c) \o c.purpose \o Number(c.index) = Labels(d) \o d.purpose \o Number(d.index)
      /\ Number(m) = Number(o)
  <2>1. PICK a, b : /\ a = Labels(c) \o c.purpose \o Number(c.index)
                    /\ b = Labels(d) \o d.purpose \o Number(d.index)
                    /\ a \in Seq(S) /\ b \in Seq(S) /\ a \o Number(m) = b \o Number(o)
    BY <1>2, <1>4
  <2>2. Number(m) \in Seq(S) /\ Number(o) \in Seq(S) /\ Len(Number(m)) = Len(Number(o))
    BY <1>3
  <2>3. a = b /\ Number(m) = Number(o)
    <3>1. a \in Seq(S) /\ b \in Seq(S) /\ a \o Number(m) = b \o Number(o)
      BY <2>1
    <3> QED BY <2>2, <3>1, Parts
  <2> QED BY <2>1, <2>3
<1>6. Labels(c) \o c.purpose = Labels(d) \o d.purpose /\ Number(c.index) = Number(d.index)
  <2>1. PICK a, b : /\ a = Labels(c) \o c.purpose /\ b = Labels(d) \o d.purpose
                    /\ a \in Seq(S) /\ b \in Seq(S) /\ a \o Number(c.index) = b \o Number(d.index)
    BY <1>2, <1>5
  <2>2. /\ Number(c.index) \in Seq(S) /\ Number(d.index) \in Seq(S)
        /\ Len(Number(c.index)) = Len(Number(d.index))
    BY <1>3 DEF IsContext
  <2>3. a = b /\ Number(c.index) = Number(d.index)
    <3>1. a \in Seq(S) /\ b \in Seq(S) /\ a \o Number(c.index) = b \o Number(d.index)
      BY <2>1
    <3> QED BY <2>2, <3>1, Parts
  <2> QED BY <2>1, <2>3
<1>7. Labels(c) = Labels(d) /\ c.purpose = d.purpose
  <2>1. /\ Labels(c) \in Seq(S) /\ Labels(d) \in Seq(S) /\ Len(Labels(c)) = Len(Labels(d))
        /\ c.purpose \in Seq(S) /\ d.purpose \in Seq(S)
    BY <1>2
  <2> QED BY <1>6, <2>1, Parts
<1>8. c.pipeline = d.pipeline /\ c.profile = d.profile
  BY <1>7 DEF Labels
<1>9. \A at, j \in Nat : Number(at) = Number(j) => at = j
  <2>1. \A at, j \in Nat : Number(at) = Number(j) => ToString(at) = ToString(j)
    BY DEF Number
  <2> QED BY <2>1 DEF DecimalIsUnique
<1>10. m = o /\ c.index = d.index
  BY <1>5, <1>6, <1>9 DEF IsContext
<1> QED BY <1>7, <1>8, <1>10 DEF IsContext, Context

\* What a concatenation is.
LEMMA Concatenated ==
  ASSUME NEW S, NEW a \in Seq(S), NEW b \in Seq(S), NEW t \in Seq(S),
         Len(t) = Len(a) + Len(b),
         \A at \in 1 .. Len(a) : t[at] = a[at],
         \A at \in 1 .. Len(b) : t[Len(a) + at] = b[at]
  PROVE  a \o b = t
<1>1. /\ a \o b \in Seq(S) /\ Len(a \o b) = Len(a) + Len(b)
      /\ \A at \in 1 .. Len(a) + Len(b) : (a \o b)[at] = IF at <= Len(a) THEN a[at] ELSE b[at - Len(a)]
  BY ConcatProperties
<1>2. Len(a) \in Nat /\ Len(b) \in Nat
  BY LenProperties
<1>3. ASSUME NEW at \in 1 .. Len(a) + Len(b) PROVE (a \o b)[at] = t[at]
  <2>1. CASE at <= Len(a)
    <3>1. at \in 1 .. Len(a)
      BY <1>2, <2>1
    <3> QED BY <1>1, <2>1, <3>1
  <2>2. CASE ~ (at <= Len(a))
    <3>1. at - Len(a) \in 1 .. Len(b) /\ Len(a) + (at - Len(a)) = at
      BY <1>2, <2>2
    <3>2. t[at] = b[at - Len(a)]
      BY <3>1
    <3> QED BY <1>1, <2>2, <3>2
  <2> QED BY <2>1, <2>2
<1>4. \A at \in 1 .. Len(a \o b) : (a \o b)[at] = t[at]
  BY <1>1, <1>3
<1>5. PICK s : s = a \o b /\ s \in Seq(S) /\ Len(s) = Len(t) /\ \A at \in 1 .. Len(s) : s[at] = t[at]
  BY <1>1, <1>4
<1>6. s = t
  BY <1>5, SeqEqual
<1> QED BY <1>5, <1>6

\* The concatenations that are fed to a sponge: one element and one,
LEMMA OneAndOne ==
  ASSUME NEW x, NEW y
  PROVE  <<x>> \o <<y>> = <<x, y>>
<1> DEFINE S == {x, y}
<1>1. PICK a : /\ a = <<x>> /\ a \in Seq(S) /\ Len(a) = 1
               /\ a[1] = x
  <2>1. /\ <<x>> \in Seq(S) /\ Len(<<x>>) = 1
        /\ <<x>>[1] = x
    OBVIOUS
  <2> QED BY <2>1
<1>2. PICK b : /\ b = <<y>> /\ b \in Seq(S) /\ Len(b) = 1
               /\ b[1] = y
  <2>1. /\ <<y>> \in Seq(S) /\ Len(<<y>>) = 1
        /\ <<y>>[1] = y
    OBVIOUS
  <2> QED BY <2>1
<1>3. PICK t : /\ t = <<x, y>> /\ t \in Seq(S) /\ Len(t) = 2
               /\ t[1] = x /\ t[2] = y
  <2>1. /\ <<x, y>> \in Seq(S) /\ Len(<<x, y>>) = 2
        /\ <<x, y>>[1] = x /\ <<x, y>>[2] = y
    OBVIOUS
  <2> QED BY <2>1
<1> HIDE DEF S
<1>4. ASSUME NEW at \in 1 .. Len(a) PROVE t[at] = a[at]
  <2>1. at = 1
    BY <1>1
  <2> QED BY <2>1, <1>1, <1>3
<1>5. ASSUME NEW at \in 1 .. Len(b) PROVE t[Len(a) + at] = b[at]
  <2>1. at = 1 /\ Len(a) + at = 2
    BY <1>1, <1>2
  <2> QED BY <2>1, <1>2, <1>3
<1>6. Len(t) = Len(a) + Len(b)
  BY <1>1, <1>2, <1>3
<1>7. a \in Seq(S) /\ b \in Seq(S) /\ t \in Seq(S)
  BY <1>1, <1>2, <1>3
<1>8. a \o b = t
  BY <1>4, <1>5, <1>6, <1>7, Concatenated
<1> QED BY <1>1, <1>2, <1>3, <1>8

\* two and one,
LEMMA TwoAndOne ==
  ASSUME NEW x, NEW y, NEW z
  PROVE  <<x, y>> \o <<z>> = <<x, y, z>>
<1> DEFINE S == {x, y, z}
<1>1. PICK a : /\ a = <<x, y>> /\ a \in Seq(S) /\ Len(a) = 2
               /\ a[1] = x /\ a[2] = y
  <2>1. /\ <<x, y>> \in Seq(S) /\ Len(<<x, y>>) = 2
        /\ <<x, y>>[1] = x /\ <<x, y>>[2] = y
    OBVIOUS
  <2> QED BY <2>1
<1>2. PICK b : /\ b = <<z>> /\ b \in Seq(S) /\ Len(b) = 1
               /\ b[1] = z
  <2>1. /\ <<z>> \in Seq(S) /\ Len(<<z>>) = 1
        /\ <<z>>[1] = z
    OBVIOUS
  <2> QED BY <2>1
<1>3. PICK t : /\ t = <<x, y, z>> /\ t \in Seq(S) /\ Len(t) = 3
               /\ t[1] = x /\ t[2] = y /\ t[3] = z
  <2>1. /\ <<x, y, z>> \in Seq(S) /\ Len(<<x, y, z>>) = 3
        /\ <<x, y, z>>[1] = x /\ <<x, y, z>>[2] = y /\ <<x, y, z>>[3] = z
    OBVIOUS
  <2> QED BY <2>1
<1> HIDE DEF S
<1>4. ASSUME NEW at \in 1 .. Len(a) PROVE t[at] = a[at]
  <2>1. at = 1 \/ at = 2
    BY <1>1
  <2> QED BY <2>1, <1>1, <1>3
<1>5. ASSUME NEW at \in 1 .. Len(b) PROVE t[Len(a) + at] = b[at]
  <2>1. at = 1 /\ Len(a) + at = 3
    BY <1>1, <1>2
  <2> QED BY <2>1, <1>2, <1>3
<1>6. Len(t) = Len(a) + Len(b)
  BY <1>1, <1>2, <1>3
<1>7. a \in Seq(S) /\ b \in Seq(S) /\ t \in Seq(S)
  BY <1>1, <1>2, <1>3
<1>8. a \o b = t
  BY <1>4, <1>5, <1>6, <1>7, Concatenated
<1> QED BY <1>1, <1>2, <1>3, <1>8

\* and two and two.
LEMMA TwoAndTwo ==
  ASSUME NEW x, NEW y, NEW v, NEW w
  PROVE  <<x, y>> \o <<v, w>> = <<x, y, v, w>>
<1> DEFINE S == {x, y, v, w}
<1>1. PICK a : /\ a = <<x, y>> /\ a \in Seq(S) /\ Len(a) = 2
               /\ a[1] = x /\ a[2] = y
  <2>1. /\ <<x, y>> \in Seq(S) /\ Len(<<x, y>>) = 2
        /\ <<x, y>>[1] = x /\ <<x, y>>[2] = y
    OBVIOUS
  <2> QED BY <2>1
<1>2. PICK b : /\ b = <<v, w>> /\ b \in Seq(S) /\ Len(b) = 2
               /\ b[1] = v /\ b[2] = w
  <2>1. /\ <<v, w>> \in Seq(S) /\ Len(<<v, w>>) = 2
        /\ <<v, w>>[1] = v /\ <<v, w>>[2] = w
    OBVIOUS
  <2> QED BY <2>1
<1>3. PICK t : /\ t = <<x, y, v, w>> /\ t \in Seq(S) /\ Len(t) = 4
               /\ t[1] = x /\ t[2] = y /\ t[3] = v /\ t[4] = w
  <2>1. /\ <<x, y, v, w>> \in Seq(S) /\ Len(<<x, y, v, w>>) = 4
        /\ <<x, y, v, w>>[1] = x /\ <<x, y, v, w>>[2] = y /\ <<x, y, v, w>>[3] = v /\ <<x, y, v, w>>[4] = w
    OBVIOUS
  <2> QED BY <2>1
<1> HIDE DEF S
<1>4. ASSUME NEW at \in 1 .. Len(a) PROVE t[at] = a[at]
  <2>1. at = 1 \/ at = 2
    BY <1>1
  <2> QED BY <2>1, <1>1, <1>3
<1>5. ASSUME NEW at \in 1 .. Len(b) PROVE t[Len(a) + at] = b[at]
  <2>1. (at = 1 /\ Len(a) + at = 3) \/ (at = 2 /\ Len(a) + at = 4)
    BY <1>1, <1>2
  <2> QED BY <2>1, <1>2, <1>3
<1>6. Len(t) = Len(a) + Len(b)
  BY <1>1, <1>2, <1>3
<1>7. a \in Seq(S) /\ b \in Seq(S) /\ t \in Seq(S)
  BY <1>1, <1>2, <1>3
<1>8. a \o b = t
  BY <1>4, <1>5, <1>6, <1>7, Concatenated
<1> QED BY <1>1, <1>2, <1>3, <1>8

\* What HMAC and SHAKE take determines what they give, and neither gives what the other does.
LEMMA Terms ==
  /\ \A h, k, m, g, l, o : Hmac(h, k, m) = Hmac(g, l, o) => h = g /\ k = l /\ m = o
  /\ \A a, b : Shake(a) = Shake(b) => a = b
  /\ \A h, k, m, a : Hmac(h, k, m) # Shake(a)
  /\ \A a, b : Bytes(a) = Bytes(b) => a = b
<1>1. \A h, k, m, g, l, o : Hmac(h, k, m) = Hmac(g, l, o) => h = g /\ k = l /\ m = o
  BY DEF Hmac
<1>2. \A a, b : Shake(a) = Shake(b) => a = b
  BY DEF Shake
<1>3. \A h, k, m, a : Hmac(h, k, m) # Shake(a)
  <2>1. \A h, k, m, a : Len(Hmac(h, k, m)) = 4 /\ Len(Shake(a)) = 2
    BY DEF Hmac, Shake
  <2>2. 4 # 2
    OBVIOUS
  <2> QED BY <2>1, <2>2
<1>4. \A a, b : Bytes(a) = Bytes(b) => a = b
  <2>1. \A a : Bytes(a)[1] = <<"bytes", a>> /\ <<"bytes", a>>[2] = a
    BY DEF Bytes
  <2> QED BY <2>1
<1> QED BY <1>1, <1>2, <1>3, <1>4

\* The inputs of the sponge, as what they are made of.
LEMMA SpongeInputs ==
  /\ \A ikm : ExtractSponge(ikm)
                = Shake(<< <<"tag", 1>>, <<"salt", "ykdf-v1">>, <<"bytes", ikm.name>> >>)
  /\ \A early, s : CascadePassphrase(early, s, "shake256")
       = Shake(<< <<"tag", 2>>, <<"bytes", early>>, <<"descriptor", Descriptor>>, <<"bytes", s>> >>)
<1>1. \A ikm : ExtractSponge(ikm)
                = Shake(<< <<"tag", 1>>, <<"salt", "ykdf-v1">>, <<"bytes", ikm.name>> >>)
  BY TwoAndOne DEF ExtractSponge, Bytes
<1>2. ASSUME NEW early, NEW s
      PROVE  CascadePassphrase(early, s, "shake256")
       = Shake(<< <<"tag", 2>>, <<"bytes", early>>, <<"descriptor", Descriptor>>, <<"bytes", s>> >>)
  <2>1. /\ << <<"descriptor", Descriptor>> >> \o Bytes(s)
             = << <<"descriptor", Descriptor>>, <<"bytes", s>> >>
        /\ << <<"tag", 2>> >> \o Bytes(early) = << <<"tag", 2>>, <<"bytes", early>> >>
    BY OneAndOne DEF Bytes
  <2> QED BY <2>1, TwoAndTwo DEF CascadePassphrase, Cascade, CascadeSponge
<1> QED BY <1>1, <1>2

\* Key material, and whether a passphrase is added and which, make a master key of their own.
LEMMA MasterIsUnique ==
  ASSUME NEW h \in Ikm, NEW j \in Ikm, NEW q, NEW r, NEW pipeline \in Pipeline,
         Master(h, q, pipeline) = Master(j, r, pipeline)
  PROVE  h = j /\ q = r
<1> USE Terms
<1>1. \A s, t : Stretch(s) = Stretch(t) => s = t
  BY DEF Stretch
<1>2. Extract(h, pipeline) = Extract(j, pipeline) => h = j
  <2>1. CASE pipeline = "shake256"
    <3>1. ASSUME ExtractSponge(h) = ExtractSponge(j) PROVE <<"bytes", h.name>> = <<"bytes", j.name>>
      <4>1. << <<"tag", 1>>, <<"salt", "ykdf-v1">>, <<"bytes", h.name>> >>
              = << <<"tag", 1>>, <<"salt", "ykdf-v1">>, <<"bytes", j.name>> >>
        BY <3>1, SpongeInputs
      <4> QED BY <4>1
    <3> QED BY <2>1, <3>1, DerivationAssumption DEF Extract, DerivationAssumption
  <2>2. CASE pipeline # "shake256"
    BY <2>2, DerivationAssumption DEF Extract, ExtractHkdf, DerivationAssumption
  <2> QED BY <2>1, <2>2
<1>3. ASSUME NEW e, NEW f, NEW s, NEW t,
             CascadePassphrase(e, s, pipeline) = CascadePassphrase(f, t, pipeline)
      PROVE  e = f /\ s = t
  <2>1. CASE pipeline = "shake256"
    <3>1. << <<"tag", 2>>, <<"bytes", e>>, <<"descriptor", Descriptor>>, <<"bytes", s>> >>
            = << <<"tag", 2>>, <<"bytes", f>>, <<"descriptor", Descriptor>>, <<"bytes", t>> >>
      <4>1. Shake(<< <<"tag", 2>>, <<"bytes", e>>, <<"descriptor", Descriptor>>, <<"bytes", s>> >>)
              = Shake(<< <<"tag", 2>>, <<"bytes", f>>, <<"descriptor", Descriptor>>,
                         <<"bytes", t>> >>)
        BY <1>3, <2>1, SpongeInputs
      <4> QED BY <4>1
    <3>2. <<"bytes", e>> = <<"bytes", f>> /\ <<"bytes", s>> = <<"bytes", t>>
      BY <3>1
    <3> QED BY <3>2
  <2>2. CASE pipeline # "shake256"
    <3>1. ASSUME NEW u PROVE << <<"descriptor", Descriptor>> >> \o Bytes(u)
                               = << <<"descriptor", Descriptor>>, <<"bytes", u>> >>
      BY OneAndOne DEF Bytes
    <3>2. /\ Bytes(e) = Bytes(f)
          /\ << <<"descriptor", Descriptor>> >> \o Bytes(s) = << <<"descriptor", Descriptor>> >> \o Bytes(t)
      <4>1. PICK u, v : /\ u = << <<"descriptor", Descriptor>> >> \o Bytes(s)
                        /\ v = << <<"descriptor", Descriptor>> >> \o Bytes(t)
                        /\ Hmac(pipeline, Bytes(e), u) = Hmac(pipeline, Bytes(f), v)
        BY <1>3, <2>2 DEF CascadePassphrase, Cascade, CascadeHkdf
      <4>2. Bytes(e) = Bytes(f) /\ u = v
        <5>1. Hmac(pipeline, Bytes(e), u) = Hmac(pipeline, Bytes(f), v)
          BY <4>1
        <5> QED BY <5>1
      <4> QED BY <4>1, <4>2
    <3>3. << <<"descriptor", Descriptor>>, <<"bytes", s>> >>
            = << <<"descriptor", Descriptor>>, <<"bytes", t>> >>
      BY <3>1, <3>2
    <3>4. <<"bytes", s>> = <<"bytes", t>>
      BY <3>3
    <3> QED BY <3>2, <3>4
  <2> QED BY <2>1, <2>2
<1>4. ASSUME NEW k \in Ikm, NEW e, NEW s PROVE Extract(k, pipeline) # CascadePassphrase(e, s, pipeline)
  <2>1. CASE pipeline = "shake256"
    <3>1. << <<"tag", 1>>, <<"salt", "ykdf-v1">>, <<"bytes", k.name>> >>
            # << <<"tag", 2>>, <<"bytes", e>>, <<"descriptor", Descriptor>>, <<"bytes", s>> >>
      <4>1. 3 # 4
        OBVIOUS
      <4> QED BY <4>1
    <3>2. /\ Extract(k, pipeline)
               = Shake(<< <<"tag", 1>>, <<"salt", "ykdf-v1">>, <<"bytes", k.name>> >>)
          /\ CascadePassphrase(e, s, pipeline)
               = Shake(<< <<"tag", 2>>, <<"bytes", e>>, <<"descriptor", Descriptor>>,
                          <<"bytes", s>> >>)
      BY <2>1, SpongeInputs DEF Extract
    <3> QED BY <3>1, <3>2
  <2>2. CASE pipeline # "shake256"
    <3>1. Bytes(e) # <<"salt", "ykdf-v1">>
      <4>1. Len(Bytes(e)) = 1 /\ Len(<<"salt", "ykdf-v1">>) = 2 /\ 1 # 2
        BY DEF Bytes
      <4> QED BY <4>1
    <3> QED BY <2>2, <3>1 DEF Extract, ExtractHkdf, CascadePassphrase, Cascade, CascadeHkdf
  <2> QED BY <2>1, <2>2
<1>5. CASE q = <<>> /\ r = <<>>
  BY <1>2, <1>5 DEF Master
<1>6. CASE q # <<>> /\ r # <<>>
  BY <1>1, <1>2, <1>3, <1>6 DEF Master
<1>7. CASE (q = <<>>) # (r = <<>>)
  BY <1>4, <1>7 DEF Master
<1> QED BY <1>5, <1>6, <1>7

\* A stream belongs to one derivation.
LEMMA StreamIsUnique ==
  ASSUME DecimalIsUnique, NEW a, NEW b, IsIdentity(a), IsIdentity(b),
         Stream(a) = Stream(b)
  PROVE  a = b
<1> DEFINE m == Master(a.ikm, a.passphrase, a.ctx.pipeline)
           o == Master(b.ikm, b.passphrase, b.ctx.pipeline)
<1>1. Bytes(m) = Bytes(o) /\ Info(a) = Info(b)
  <2>1. CASE a.ctx.pipeline = "shake256" /\ b.ctx.pipeline = "shake256"
    <3>1. Bytes(m) \o Info(a) = Bytes(o) \o Info(b)
      BY <2>1, Terms DEF Stream
    <3>2. \A t, id : Bytes(t) \o Info(id) = << <<"bytes", t>>, <<"info", KdfInfo(id.ctx, id.len)>> >>
      BY OneAndOne DEF Bytes, Info
    <3> HIDE DEF m, o
    <3>3. << <<"bytes", m>>, <<"info", KdfInfo(a.ctx, a.len)>> >>
            = << <<"bytes", o>>, <<"info", KdfInfo(b.ctx, b.len)>> >>
      BY <3>1, <3>2
    <3>4. /\ <<"bytes", m>> = <<"bytes", o>>
          /\ <<"info", KdfInfo(a.ctx, a.len)>> = <<"info", KdfInfo(b.ctx, b.len)>>
      BY <3>3
    <3> QED BY <3>4 DEF Bytes, Info
  <2>2. CASE a.ctx.pipeline # "shake256" /\ b.ctx.pipeline # "shake256"
    BY <2>2, Terms DEF Stream
  <2>3. CASE (a.ctx.pipeline = "shake256") # (b.ctx.pipeline = "shake256")
    BY <2>3, Terms DEF Stream
  <2> QED BY <2>1, <2>2, <2>3
<1>2. KdfInfo(a.ctx, a.len) = KdfInfo(b.ctx, b.len)
  <2>1. \A id : Info(id)[1] = <<"info", KdfInfo(id.ctx, id.len)>>
    BY DEF Info
  <2>2. <<"info", KdfInfo(a.ctx, a.len)>> = <<"info", KdfInfo(b.ctx, b.len)>>
    BY <1>1, <2>1
  <2> QED BY <2>2
<1>3. a.ctx = b.ctx /\ a.len = b.len
  BY <1>2, InfoIsUnique DEF IsIdentity
<1>4. m = o
  BY <1>1, Terms
<1>5. a.ikm = b.ikm /\ a.passphrase = b.passphrase
  <2>1. a.ctx.pipeline \in Pipeline
    BY ContextLabels DEF IsIdentity
  <2> QED BY <1>3, <1>4, <2>1, MasterIsUnique DEF IsIdentity
<1> QED BY <1>3, <1>5 DEF IsIdentity
-----------------------------------------------------------------------------
(* Context strings: what Split makes of one. *)

\* How many cuts stand before a position.
Before(C, k) == Cardinality({c \in C : c < k})

\* The cuts of a string with five colons, and how many stand before each.
LEMMA SevenCuts ==
  ASSUME NEW a \in Nat, NEW b \in Nat, 8 < a, a < b, NEW C, C = {0, 2, 4, 6, 8, a, b}
  PROVE  /\ IsFiniteSet(C) /\ Cardinality(C) = 7
         /\ Before(C, 0) = 0 /\ Before(C, 2) = 1
         /\ Before(C, 4) = 2 /\ Before(C, 6) = 3
         /\ Before(C, 8) = 4 /\ Before(C, a) = 5
         /\ Before(C, b) = 6
<1>0. Cardinality({}) = 0
  BY FS_EmptySet
<1>1. IsFiniteSet({0}) /\ Cardinality({0}) = 1
  BY FS_Singleton
<1>2. IsFiniteSet({0, 2}) /\ Cardinality({0, 2}) = 2
  <2>1. {0, 2} = {0} \cup {2} /\ 2 \notin {0}
    OBVIOUS
  <2> QED BY <1>1, <2>1, FS_AddElement
<1>3. IsFiniteSet({0, 2, 4}) /\ Cardinality({0, 2, 4}) = 3
  <2>1. {0, 2, 4} = {0, 2} \cup {4} /\ 4 \notin {0, 2}
    OBVIOUS
  <2> QED BY <1>2, <2>1, FS_AddElement
<1>4. IsFiniteSet({0, 2, 4, 6}) /\ Cardinality({0, 2, 4, 6}) = 4
  <2>1. {0, 2, 4, 6} = {0, 2, 4} \cup {6} /\ 6 \notin {0, 2, 4}
    OBVIOUS
  <2> QED BY <1>3, <2>1, FS_AddElement
<1>5. IsFiniteSet({0, 2, 4, 6, 8}) /\ Cardinality({0, 2, 4, 6, 8}) = 5
  <2>1. {0, 2, 4, 6, 8} = {0, 2, 4, 6} \cup {8} /\ 8 \notin {0, 2, 4, 6}
    OBVIOUS
  <2> QED BY <1>4, <2>1, FS_AddElement
<1>6. IsFiniteSet({0, 2, 4, 6, 8, a}) /\ Cardinality({0, 2, 4, 6, 8, a}) = 6
  <2>1. {0, 2, 4, 6, 8, a} = {0, 2, 4, 6, 8} \cup {a} /\ a \notin {0, 2, 4, 6, 8}
    OBVIOUS
  <2> QED BY <1>5, <2>1, FS_AddElement
<1>7. IsFiniteSet(C) /\ Cardinality(C) = 7
  <2>1. C = {0, 2, 4, 6, 8, a} \cup {b} /\ b \notin {0, 2, 4, 6, 8, a}
    OBVIOUS
  <2> QED BY <1>6, <2>1, FS_AddElement
<1>8. /\ {c \in C : c < 0} = {} /\ {c \in C : c < 2} = {0} /\ {c \in C : c < 4} = {0, 2}
      /\ {c \in C : c < 6} = {0, 2, 4} /\ {c \in C : c < 8} = {0, 2, 4, 6}
      /\ {c \in C : c < a} = {0, 2, 4, 6, 8} /\ {c \in C : c < b} = {0, 2, 4, 6, 8, a}
  OBVIOUS
<1> QED BY <1>0, <1>1, <1>2, <1>3, <1>4, <1>5, <1>6, <1>7, <1>8 DEF Before

LEMMA CutsInOrder ==
  ASSUME NEW text, NEW a \in Nat, NEW b \in Nat, 8 < a, a < b, Cuts(text) = {0, 2, 4, 6, 8, a, b}
  PROVE  /\ Cardinality(Cuts(text)) = 7
         /\ Cut(text, 0) = 0 /\ Cut(text, 1) = 2 /\ Cut(text, 2) = 4 /\ Cut(text, 3) = 6
         /\ Cut(text, 4) = 8 /\ Cut(text, 5) = a /\ Cut(text, 6) = b
<1>1. PICK C : C = Cuts(text) /\ C = {0, 2, 4, 6, 8, a, b}
  OBVIOUS
<1>2. /\ Cardinality(C) = 7
      /\ Before(C, 0) = 0 /\ Before(C, 2) = 1 /\ Before(C, 4) = 2 /\ Before(C, 6) = 3
      /\ Before(C, 8) = 4 /\ Before(C, a) = 5 /\ Before(C, b) = 6
  BY <1>1, SevenCuts
<1>3. \A o : Cut(text, o) = CHOOSE k \in C : Before(C, k) = o
  BY <1>1 DEF Cut, Before
<1>4. \A o, k : k \in C /\ Before(C, k) = o /\ (\A c \in C : Before(C, c) = o => c = k) => Cut(text, o) = k
  BY <1>3
<1> QED BY <1>1, <1>2, <1>4

\* A context string, token by token.
Spelled(S, text, v, pipeline, profile, purpose, x) ==
  /\ Len(purpose) \in Nat /\ text \in Seq(S)
  /\ Len(text) = 10 + Len(purpose) /\ DOMAIN text = 1 .. 10 + Len(purpose)
  /\ text[1] = "ykdf" /\ text[2] = ":" /\ text[3] = v /\ text[4] = ":"
  /\ text[5] = pipeline /\ text[6] = ":" /\ text[7] = profile /\ text[8] = ":"
  /\ \A at \in 1 .. Len(purpose) : text[8 + at] = purpose[at]
  /\ text[9 + Len(purpose)] = ":" /\ text[10 + Len(purpose)] = x

LEMMA ContextString ==
  ASSUME NEW S, {"ykdf", ":"} \subseteq S, NEW v \in S, NEW pipeline \in S, NEW profile \in S,
         NEW purpose \in Seq(S), NEW x \in S, NEW text,
         text = <<"ykdf", ":", v, ":", pipeline, ":", profile, ":">> \o purpose \o <<":", x>>
  PROVE  Spelled(S, text, v, pipeline, profile, purpose, x)
<1>1. PICK labels, end, start :
        /\ labels = <<"ykdf", ":", v, ":", pipeline, ":", profile, ":">>
        /\ end = <<":", x>> /\ start = labels \o purpose
  OBVIOUS
<1>2. labels \in Seq(S) /\ Len(labels) = 8 /\ end \in Seq(S) /\ Len(end) = 2
  BY <1>1
<1>3. /\ start \in Seq(S) /\ Len(start) = 8 + Len(purpose) /\ Len(purpose) \in Nat
      /\ \A at \in 1 .. 8 + Len(purpose) : start[at] = IF at <= 8 THEN labels[at] ELSE purpose[at - 8]
  <2>1. /\ start \in Seq(S) /\ Len(start) = Len(labels) + Len(purpose)
        /\ \A at \in 1 .. Len(labels) + Len(purpose) :
             start[at] = IF at <= Len(labels) THEN labels[at] ELSE purpose[at - Len(labels)]
    BY <1>1, <1>2, ConcatProperties
  <2> QED BY <1>2, <2>1, LenProperties
<1>4. /\ text \in Seq(S) /\ Len(text) = 10 + Len(purpose)
      /\ \A at \in 1 .. 10 + Len(purpose) :
           text[at] = IF at <= 8 + Len(purpose) THEN start[at] ELSE end[at - (8 + Len(purpose))]
  <2>1. text = start \o end
    BY <1>1
  <2>2. /\ text \in Seq(S) /\ Len(text) = Len(start) + Len(end)
        /\ \A at \in 1 .. Len(start) + Len(end) :
             text[at] = IF at <= Len(start) THEN start[at] ELSE end[at - Len(start)]
    BY <1>2, <1>3, <2>1, ConcatProperties
  <2> QED BY <1>2, <1>3, <2>2
<1>5. \A at \in 1 .. 8 : text[at] = labels[at]
  BY <1>3, <1>4
<1>6. /\ labels[1] = "ykdf" /\ labels[2] = ":" /\ labels[3] = v /\ labels[4] = ":"
      /\ labels[5] = pipeline /\ labels[6] = ":" /\ labels[7] = profile /\ labels[8] = ":"
      /\ end[1] = ":" /\ end[2] = x
  BY <1>1
<1>7. \A at \in 1 .. Len(purpose) : text[8 + at] = purpose[at]
  <2> TAKE at \in 1 .. Len(purpose)
  <2>1. 8 + at \in 1 .. 8 + Len(purpose) /\ 8 + at \in 1 .. 10 + Len(purpose) /\ ~ (8 + at <= 8)
        /\ (8 + at) - 8 = at /\ 8 + at <= 8 + Len(purpose)
    BY <1>3
  <2>2. text[8 + at] = start[8 + at] /\ start[8 + at] = purpose[at]
    BY <1>3, <1>4, <2>1
  <2> QED BY <2>2
<1>8. text[9 + Len(purpose)] = ":" /\ text[10 + Len(purpose)] = x
  BY <1>3, <1>4, <1>6
<1>9. DOMAIN text = 1 .. 10 + Len(purpose)
  BY <1>4, LenProperties
<1> QED BY <1>3, <1>4, <1>5, <1>6, <1>7, <1>8, <1>9 DEF Spelled

ContextCuts(m) == {0, 2, 4, 6, 8, 9 + m, 11 + m}

\* Its five colons are cuts; there are others exactly if the purpose or the index has colons.
LEMMA CutsOfContext ==
  ASSUME NEW S, NEW text, NEW v, NEW pipeline, NEW profile, NEW purpose \in Seq(S), NEW x,
         Spelled(S, text, v, pipeline, profile, purpose, x), ":" \notin {v, pipeline, profile}
  PROVE  /\ ContextCuts(Len(purpose)) \subseteq Cuts(text)
         /\ Cuts(text) \subseteq 0 .. 11 + Len(purpose)
         /\ Cuts(text) = ContextCuts(Len(purpose))
              <=> x # ":" /\ \A at \in 1 .. Len(purpose) : purpose[at] # ":"
<1>1. PICK m \in Nat : m = Len(purpose)
  BY DEF Spelled
<1>2. /\ DOMAIN text = 1 .. 10 + m /\ Len(text) = 10 + m
      /\ text[1] = "ykdf" /\ text[2] = ":" /\ text[3] = v /\ text[4] = ":"
      /\ text[5] = pipeline /\ text[6] = ":" /\ text[7] = profile /\ text[8] = ":"
      /\ \A at \in 1 .. m : text[8 + at] = purpose[at]
      /\ text[9 + m] = ":" /\ text[10 + m] = x
  BY <1>1 DEF Spelled
<1>3. \A k : k \in Cuts(text) <=> k \in {0, 11 + m} \/ (k \in 1 .. 10 + m /\ text[k] = ":")
  <2>1. Cuts(text) = {0, 11 + m} \cup {k \in 1 .. 10 + m : text[k] = ":"}
    <3>1. Len(text) + 1 = 11 + m
      BY <1>2
    <3> QED BY <1>2, <3>1 DEF Cuts
  <2> QED BY <2>1
<1>4. ContextCuts(m) \subseteq Cuts(text) /\ Cuts(text) \subseteq 0 .. 11 + m
  <2>0. \A k \in 1 .. 10 + m : text[k] = ":" => k \in Cuts(text)
    BY <1>3
  <2>1. 2 \in Cuts(text) /\ 4 \in Cuts(text) /\ 6 \in Cuts(text) /\ 8 \in Cuts(text)
    <3>1. 2 \in 1 .. 10 + m /\ 4 \in 1 .. 10 + m /\ 6 \in 1 .. 10 + m /\ 8 \in 1 .. 10 + m
      OBVIOUS
    <3> QED BY <1>2, <2>0, <3>1
  <2>2. 0 \in Cuts(text) /\ 9 + m \in Cuts(text) /\ 11 + m \in Cuts(text)
    <3>1. 9 + m \in 1 .. 10 + m
      OBVIOUS
    <3>2. 0 \in Cuts(text) /\ 11 + m \in Cuts(text)
      BY <1>3
    <3> QED BY <1>2, <2>0, <3>1, <3>2
  <2>3. Cuts(text) \subseteq 0 .. 11 + m
    BY <1>3
  <2> QED BY <2>1, <2>2, <2>3 DEF ContextCuts
<1>5. ASSUME x # ":", \A at \in 1 .. m : purpose[at] # ":"
      PROVE  Cuts(text) \subseteq ContextCuts(m)
  <2> SUFFICES ASSUME NEW k \in 1 .. 10 + m, text[k] = ":" PROVE k \in {2, 4, 6, 8, 9 + m}
    BY <1>3 DEF ContextCuts
  <2>1. k # 1 /\ k # 3 /\ k # 5 /\ k # 7 /\ k # 10 + m
    BY <1>2, <1>5
  <2>2. ASSUME k > 8, k < 9 + m PROVE FALSE
    <3>1. k - 8 \in 1 .. m /\ 8 + (k - 8) = k
      BY <1>1, <2>2
    <3> QED BY <1>2, <1>5, <3>1
  <2> QED BY <1>1, <2>1, <2>2
<1>6. ASSUME Cuts(text) = ContextCuts(m)
      PROVE  x # ":" /\ \A at \in 1 .. m : purpose[at] # ":"
  <2>1. x # ":"
    <3>1. 10 + m \notin Cuts(text) /\ 10 + m \in 1 .. 10 + m
      BY <1>1, <1>6 DEF ContextCuts
    <3> QED BY <1>2, <1>3, <3>1
  <2>2. ASSUME NEW at \in 1 .. m PROVE purpose[at] # ":"
    <3>1. 8 + at \notin Cuts(text) /\ 8 + at \in 1 .. 10 + m
      BY <1>1, <1>6 DEF ContextCuts
    <3> QED BY <1>2, <1>3, <3>1
  <2> QED BY <2>1, <2>2
<1> QED BY <1>1, <1>4, <1>5, <1>6

Colonless(purpose, x) == x # ":" /\ \A at \in 1 .. Len(purpose) : purpose[at] # ":"

Fields(fields, v, pipeline, profile, purpose, x) ==
  /\ Len(fields) = 6
  /\ fields[1] = <<"ykdf">> /\ fields[2] = <<v>> /\ fields[3] = <<pipeline>>
  /\ fields[4] = <<profile>> /\ fields[5] = purpose /\ fields[6] = <<x>>

\* A context string has six fields if no token of it is a colon, and only then; they are
\* what the string was put together from.
LEMMA SplitContext ==
  ASSUME NEW S, NEW text, NEW v, NEW pipeline, NEW profile, NEW purpose \in Seq(S), NEW x,
         Spelled(S, text, v, pipeline, profile, purpose, x), ":" \notin {v, pipeline, profile},
         Colonless(purpose, x) \/ Len(Split(text)) = 6
  PROVE  Colonless(purpose, x) /\ Fields(Split(text), v, pipeline, profile, purpose, x)
<1>1. PICK C : C = ContextCuts(Len(purpose))
  OBVIOUS
<1>2. /\ C \subseteq Cuts(text) /\ Cuts(text) \subseteq 0 .. 11 + Len(purpose)
      /\ Cuts(text) = C <=> Colonless(purpose, x)
  BY <1>1, CutsOfContext DEF Colonless
<1>3. Len(purpose) \in Nat
  BY LenProperties
<1>4. Cardinality(C) = 7
  BY <1>1, <1>3, SevenCuts DEF ContextCuts
<1>5. Cardinality(Cuts(text)) \in Nat \ {0} /\ IsFiniteSet(Cuts(text))
  <2>1. IsFiniteSet(Cuts(text))
    <3>1. IsFiniteSet(0 .. 11 + Len(purpose))
      BY <1>3, FS_Interval
    <3> QED BY <1>2, <3>1, FS_Subset
  <2>2. Cuts(text) # {}
    BY DEF Cuts
  <2> QED BY <2>1, <2>2, FS_CardinalityType, FS_EmptySet
<1>6. Len(Split(text)) = Cardinality(Cuts(text)) - 1
  BY <1>5 DEF Split
<1>7. Len(Split(text)) = 6 => Cuts(text) = C
  <2>1. Cardinality(C) = Cardinality(Cuts(text)) => Cuts(text) = C
    BY <1>2, <1>5, FS_Subset
  <2>2. Len(Split(text)) = 6 => Cardinality(Cuts(text)) = 7
    <3>1. PICK k, l : k = Cardinality(Cuts(text)) /\ l = Len(Split(text)) /\ k \in Nat /\ l = k - 1
      BY <1>5, <1>6
    <3>2. l = 6 => k = 7
      BY <3>1
    <3> QED BY <3>1, <3>2, Zenon
  <2> QED BY <1>4, <2>1, <2>2
<1>8. ASSUME Cuts(text) = C
      PROVE  /\ Len(Split(text)) = 6
             /\ Split(text)[1] = <<"ykdf">> /\ Split(text)[2] = <<v>> /\ Split(text)[3] = <<pipeline>>
             /\ Split(text)[4] = <<profile>> /\ Split(text)[5] = purpose /\ Split(text)[6] = <<x>>
  <2>1. /\ Cardinality(Cuts(text)) = 7 /\ Cut(text, 0) = 0 /\ Cut(text, 1) = 2 /\ Cut(text, 2) = 4
        /\ Cut(text, 3) = 6 /\ Cut(text, 4) = 8
        /\ Cut(text, 5) = 9 + Len(purpose) /\ Cut(text, 6) = 11 + Len(purpose)
    <3>1. PICK a \in Nat, b \in Nat : a = 9 + Len(purpose) /\ b = 11 + Len(purpose)
      BY <1>3
    <3>2. 8 < a /\ a < b /\ Cuts(text) = {0, 2, 4, 6, 8, a, b}
      BY <1>1, <1>3, <1>8, <3>1 DEF ContextCuts
    <3>3. 8 \in Nat /\ a \in Nat /\ b \in Nat
      OBVIOUS
    <3>4. \A o, q \in Nat : 8 < o /\ o < q /\ Cuts(text) = {0, 2, 4, 6, 8, o, q} =>
            /\ Cardinality(Cuts(text)) = 7
            /\ Cut(text, 0) = 0 /\ Cut(text, 1) = 2 /\ Cut(text, 2) = 4 /\ Cut(text, 3) = 6
            /\ Cut(text, 4) = 8 /\ Cut(text, 5) = o /\ Cut(text, 6) = q
      BY CutsInOrder, Zenon
    <3> QED BY <3>1, <3>2, <3>3, <3>4, Zenon
  <2>2. /\ Split(text)[1] = SubSeq(text, 1, 1) /\ Split(text)[2] = SubSeq(text, 3, 3)
        /\ Split(text)[3] = SubSeq(text, 5, 5) /\ Split(text)[4] = SubSeq(text, 7, 7)
        /\ Split(text)[5] = SubSeq(text, 9, 8 + Len(purpose))
        /\ Split(text)[6] = SubSeq(text, 10 + Len(purpose), 10 + Len(purpose))
    <3>1. \A k \in 1 .. 6 : Split(text)[k] = SubSeq(text, Cut(text, k - 1) + 1, Cut(text, k) - 1)
      <4>1. Cardinality(Cuts(text)) - 1 = 6
        BY <2>1
      <4>2. Split(text) = [k \in 1 .. 6 |-> SubSeq(text, Cut(text, k - 1) + 1, Cut(text, k) - 1)]
        BY <4>1 DEF Split
      <4> QED BY <4>2
    <3>2. /\ Split(text)[1] = SubSeq(text, Cut(text, 0) + 1, Cut(text, 1) - 1)
          /\ Split(text)[2] = SubSeq(text, Cut(text, 1) + 1, Cut(text, 2) - 1)
          /\ Split(text)[3] = SubSeq(text, Cut(text, 2) + 1, Cut(text, 3) - 1)
          /\ Split(text)[4] = SubSeq(text, Cut(text, 3) + 1, Cut(text, 4) - 1)
          /\ Split(text)[5] = SubSeq(text, Cut(text, 4) + 1, Cut(text, 5) - 1)
          /\ Split(text)[6] = SubSeq(text, Cut(text, 5) + 1, Cut(text, 6) - 1)
      BY <3>1
    <3>3. /\ Cut(text, 0) + 1 = 1 /\ Cut(text, 1) - 1 = 1 /\ Cut(text, 1) + 1 = 3
          /\ Cut(text, 2) - 1 = 3 /\ Cut(text, 2) + 1 = 5 /\ Cut(text, 3) - 1 = 5
          /\ Cut(text, 3) + 1 = 7 /\ Cut(text, 4) - 1 = 7 /\ Cut(text, 4) + 1 = 9
          /\ Cut(text, 5) - 1 = 8 + Len(purpose) /\ Cut(text, 5) + 1 = 10 + Len(purpose)
          /\ Cut(text, 6) - 1 = 10 + Len(purpose)
      BY <1>3, <2>1
    <3> QED BY <3>2, <3>3
  <2>3. /\ Len(text) = 10 + Len(purpose) /\ text \in Seq(S)
        /\ text[1] = "ykdf" /\ text[3] = v /\ text[5] = pipeline /\ text[7] = profile
        /\ text[10 + Len(purpose)] = x
        /\ \A at \in 1 .. Len(purpose) : text[8 + at] = purpose[at]
    BY DEF Spelled
  <2>4. \A k \in 1 .. Len(text) : SubSeq(text, k, k) = <<text[k]>>
    <3> TAKE k \in 1 .. Len(text)
    <3>1. k \in Int /\ text[k] \in S
      BY <2>3, ElementOfSeq
    <3>2. PICK part : part = SubSeq(text, k, k)
      OBVIOUS
    <3>3. part \in Seq(S) /\ Len(part) = 1 /\ part[1] = text[k]
      <4>1. \A o \in k .. k : text[o] \in S
        BY <3>1
      <4>2. part \in Seq(S) /\ Len(part) = (IF k <= k THEN k - k + 1 ELSE 0)
            /\ \A o \in 1 .. k - k + 1 : part[o] = text[k + o - 1]
        BY <3>1, <3>2, <4>1, SubSeqProperties
      <4> QED BY <3>1, <4>2
    <3>4. part = <<text[k]>>
      <4>1. <<text[k]>> \in Seq(S) /\ Len(<<text[k]>>) = 1 /\ <<text[k]>>[1] = text[k]
        BY <3>1
      <4>2. \A o \in 1 .. Len(part) : part[o] = <<text[k]>>[o]
        BY <3>3, <4>1
      <4> QED BY <3>3, <4>1, <4>2, SeqEqual
    <3> QED BY <3>2, <3>4
  <2>5. SubSeq(text, 9, 8 + Len(purpose)) = purpose
    <3>1. \A k \in 9 .. 8 + Len(purpose) : text[k] \in S
      BY <1>3, <2>3, ElementOfSeq
    <3>2. PICK part : part = SubSeq(text, 9, 8 + Len(purpose))
      OBVIOUS
    <3>3. /\ part \in Seq(S)
          /\ Len(part) = IF 9 <= 8 + Len(purpose) THEN (8 + Len(purpose)) - 9 + 1 ELSE 0
          /\ \A k \in 1 .. (8 + Len(purpose)) - 9 + 1 : part[k] = text[9 + k - 1]
      BY <1>3, <3>1, <3>2, SubSeqProperties
    <3>4. Len(part) = Len(purpose) /\ \A k \in 1 .. Len(purpose) : part[k] = purpose[k]
      <4>1. Len(part) = Len(purpose)
        BY <1>3, <3>3
      <4>2. ASSUME NEW k \in 1 .. Len(purpose) PROVE part[k] = purpose[k]
        <5>1. k \in 1 .. (8 + Len(purpose)) - 9 + 1 /\ 9 + k - 1 = 8 + k
          BY <1>3
        <5> QED BY <2>3, <3>3, <5>1
      <4> QED BY <4>1, <4>2
    <3> QED BY <3>2, <3>3, <3>4, SeqEqual
  <2>6. 1 \in 1 .. Len(text) /\ 3 \in 1 .. Len(text) /\ 5 \in 1 .. Len(text) /\ 7 \in 1 .. Len(text)
        /\ 10 + Len(purpose) \in 1 .. Len(text)
    BY <1>3, <2>3
  <2>7. Len(Split(text)) = 6
    BY <1>6, <2>1
  <2> QED BY <2>2, <2>3, <2>4, <2>5, <2>6, <2>7
<1> QED BY <1>2, <1>7, <1>8 DEF Fields

\* The decimals of the two numbers that the model's parser knows read as these numbers.
DecimalIsRead == \A o \in {0, 7} : ToString(o) # ":" /\ ParseU32(ToString(o)) = Ok(o)

\* What the parser has looked at when it accepts.
LEMMA ParseAccepts ==
  ASSUME NEW fields, Parse(fields).ok
  PROVE  /\ Len(fields) = 6 /\ Accepts(fields[4][1], fields[3][1]) /\ IsPurpose(fields[5])
         /\ \E o \in {0, 7} : Parse(fields) = Ok(Context(fields[3][1], fields[4][1], fields[5], o))
<1>1. /\ Len(fields) = 6 /\ IsPurpose(fields[5])
      /\ Parse(fields) = Then(ParseU32(fields[6][1]),
            LAMBDA index : WithPipeline(fields[4][1], fields[3][1], fields[5], index))
  BY DEF Parse, Err
<1>2. PICK o \in {0, 7} : ParseU32(fields[6][1]) = Ok(o)
  BY <1>1 DEF Then, ParseU32, Ok, Err
<1>3. Parse(fields) = WithPipeline(fields[4][1], fields[3][1], fields[5], o)
  BY <1>1, <1>2 DEF Then, Ok
<1>4. Accepts(fields[4][1], fields[3][1])
  BY <1>3 DEF WithPipeline, Err
<1>5. Parse(fields) = Ok(Context(fields[3][1], fields[4][1], fields[5], o))
  BY <1>1, <1>3, <1>4 DEF WithPipeline
<1> QED BY <1>1, <1>4, <1>5

\* A context that is rendered and read again.
LEMMA RenderedIsRead ==
  ASSUME DecimalIsRead, NEW ctx, IsContext(ctx), ctx.index \in {0, 7}
  PROVE  Parse(Split(Display(ctx))) = Ok(ctx)
<1> DEFINE S == {"ykdf", ":", "v1", ctx.pipeline, ctx.profile, ToString(ctx.index)} \cup STRING
<1>1. PICK text : text = Display(ctx)
  OBVIOUS
<1>2. /\ ctx.purpose \in Seq(STRING) /\ Len(ctx.purpose) \in Nat
      /\ \A at \in 1 .. Len(ctx.purpose) : ctx.purpose[at] # ":"
      /\ IsPurpose(ctx.purpose)
  BY LenProperties DEF IsContext, IsPurpose
<1>3. ctx.purpose \in Seq(S)
  BY <1>2, SeqMonotonic
<1>4. /\ {"ykdf", ":"} \subseteq S /\ "v1" \in S /\ ctx.pipeline \in S /\ ctx.profile \in S
      /\ ToString(ctx.index) \in S
  OBVIOUS
<1>5. ctx.pipeline \in Pipeline /\ ctx.profile \in Profile /\ ":" \notin {"v1", ctx.pipeline, ctx.profile}
  BY ContextLabels DEF Pipeline, HKDF, Profile, Classical, MLKEM, MLDSA
<1>6. Spelled(S, text, "v1", ctx.pipeline, ctx.profile, ctx.purpose, ToString(ctx.index))
  <2> HIDE DEF S
  <2> QED BY <1>1, <1>3, <1>4, ContextString DEF Display
<1>7. Fields(Split(text), "v1", ctx.pipeline, ctx.profile, ctx.purpose, ToString(ctx.index))
  <2> HIDE DEF S
  <2>1. Colonless(ctx.purpose, ToString(ctx.index))
    BY <1>2 DEF DecimalIsRead, Colonless
  <2> QED BY <1>3, <1>5, <1>6, <2>1, SplitContext, Zenon
<1>8. Parse(Split(text)) = Then(ParseU32(ToString(ctx.index)),
        LAMBDA index : WithPipeline(ctx.profile, ctx.pipeline, ctx.purpose, index))
  BY <1>2, <1>5, <1>7 DEF Parse, Fields
<1>9. Parse(Split(text)) = WithPipeline(ctx.profile, ctx.pipeline, ctx.purpose, ctx.index)
  BY <1>8 DEF DecimalIsRead, Then, Ok
<1> QED BY <1>1, <1>2, <1>9 DEF WithPipeline, IsContext

-----------------------------------------------------------------------------
(* The inductive invariant: the call in progress holds the terms of its    *)
(* request, and what was made is the secret of what it was made for.       *)

CallInv ==
  /\ call.pc \in {"idle", "extract", "stretch", "derive", "print"}
  /\ call.pc = "idle" => call = Nothing
  /\ call.pc # "idle" =>
       /\ {"pc", "req", "ctx"} \subseteq DOMAIN call
       /\ call.req.ikm \in Ikm /\ IsContext(call.ctx)
       /\ call.req.lengthGiven => call.ctx.profile = "raw" /\ call.req.length \in Nat
  /\ call.pc = "stretch" => /\ "master" \in DOMAIN call
                            /\ call.master = Extract(call.req.ikm, call.ctx.pipeline)
  /\ call.pc = "derive" =>
       call.master = Master(call.req.ikm, call.req.passphrase, call.ctx.pipeline)
  /\ call.pc = "print" => /\ IsIdentity(Identity(call.req, call.ctx))
                          /\ call.out = Secret(Identity(call.req, call.ctx)).val

MadeInv ==
  \A m \in made : /\ IsIdentity(m.id)
                  /\ m.out = Secret(m.id).val
                  /\ m.public = PublicKey(m.out, m.id.ctx.profile)

IInv == CallInv /\ MadeInv

\* What is not refused as negative is a natural number.
LEMMA NotNegative == \A o \in Int : ~ (o < 0) => o \in Nat
OBVIOUS

\* What either door lets through is well-formed.
LEMMA Begun ==
  ASSUME Begin
  PROVE  \E req : /\ Start(req)
                  /\ req.ikm \in Ikm /\ req.purpose \in Seq(STRING) /\ req.index \in Nat
                  /\ req.lengthGiven => req.profile = "raw" /\ req.length \in Nat
<1>1. CASE \E passphrase \in Passphrase, pipeline \in Pipeline \cup {""},
             profile \in Label \cap Profile, index \in Index \cap Nat, length \in Length :
             Ask("cli", passphrase, pipeline, profile, index, length)
  <2>1. PICK passphrase \in Passphrase, pipeline \in Pipeline \cup {""},
             profile \in Label \cap Profile, index \in Index \cap Nat, length \in Length :
             Ask("cli", passphrase, pipeline, profile, index, length)
    BY <1>1
  <2>2. PICK ikm, purpose, req :
             /\ ikm \in Ikm /\ purpose \in Purpose
             /\ req = [door |-> "cli", ikm |-> ikm, passphrase |-> passphrase, pipeline |-> pipeline,
                       profile |-> profile, purpose |-> purpose, index |-> index,
                       lengthGiven |-> length # <<>>,
                       length |-> IF length = <<>> THEN 0 ELSE length[1]]
             /\ Start(req)
    BY <2>1 DEF Ask
  <2>3. req.purpose \in Seq(STRING) /\ req.ikm \in Ikm /\ req.index \in Nat
    BY <2>2, DerivationAssumption DEF DerivationAssumption
  <2>4. req.length \in Nat
    BY <2>2, DerivationAssumption DEF DerivationAssumption
  <2>5. req.door = "cli" /\ ~ Refused(req)
    BY <2>2 DEF Start
  <2>6. req.lengthGiven => req.profile = "raw"
    BY <2>5 DEF Refused
  <2> QED BY <2>2, <2>3, <2>4, <2>6
<1>2. CASE \E pipeline \in Pipeline \cup {"", "md5"}, profile \in Label, index \in Index :
             Ask("jni", <<>>, pipeline, profile, index, <<>>)
  <2>1. PICK pipeline \in Pipeline \cup {"", "md5"}, profile \in Label, index \in Index :
             Ask("jni", <<>>, pipeline, profile, index, <<>>)
    BY <1>2
  <2>2. PICK ikm, purpose, req :
             /\ ikm \in Ikm /\ purpose \in Purpose
             /\ req = [door |-> "jni", ikm |-> ikm, passphrase |-> <<>>, pipeline |-> pipeline,
                       profile |-> profile, purpose |-> purpose, index |-> index,
                       lengthGiven |-> <<>> # <<>>,
                       length |-> IF <<>> = <<>> THEN 0 ELSE <<>>[1]]
             /\ Start(req)
    BY <2>1 DEF Ask
  <2>3. req.purpose \in Seq(STRING) /\ req.ikm \in Ikm /\ req.index \in Int /\ ~ req.lengthGiven
    BY <2>2, DerivationAssumption DEF DerivationAssumption
  <2>4. req.door = "jni" /\ ~ Refused(req)
    BY <2>2 DEF Start
  <2>5. req.index \in Nat
    <3>1. ~ (req.index < 0)
      BY <2>4, Zenon DEF Refused
    <3>2. req.index \in Int
      BY <2>3
    <3> QED BY <3>1, <3>2, NotNegative, Zenon
  <2> QED BY <2>2, <2>3, <2>5
<1> QED BY <1>1, <1>2 DEF Begin

\* With no length given, what is derived is as long as the profile needs it.
LEMMA AskedIdentity ==
  ASSUME NEW req, NEW ctx, req.ikm \in Ikm, IsContext(ctx),
         req.lengthGiven => ctx.profile = "raw" /\ req.length \in Nat \ {0}
  PROVE  IsIdentity(Identity(req, ctx))
<1>1. ExpandLen(ctx.profile) \in Nat \ {0}
  BY DEF ExpandLen
<1> QED BY <1>1 DEF IsIdentity, Identity

\* Nothing is in progress at first.
LEMMA InitIInv == Init => IInv
BY DEF Init, IInv, CallInv, MadeInv, Nothing

\* Every step of a call keeps the terms of its request.
LEMMA StepIInv == ASSUME IInv, [Next]_vars PROVE IInv'
<1>1. ASSUME call' = Nothing, UNCHANGED made PROVE IInv'
  BY <1>1 DEF IInv, CallInv, MadeInv, Nothing
<1>2. CASE Begin
  <2>1. PICK req : /\ Start(req)
                   /\ req.ikm \in Ikm /\ req.purpose \in Seq(STRING) /\ req.index \in Nat
                   /\ req.lengthGiven => req.profile = "raw" /\ req.length \in Nat
    BY <1>2, Begun
  <2>2. PICK ctx : /\ ContextOf(req).ok /\ ctx = ContextOf(req).val
                   /\ call' = [pc |-> "extract", req |-> req, ctx |-> ctx] /\ UNCHANGED made
    BY <2>1 DEF Start
  <2>3. IsContext(ctx) /\ ctx.profile = req.profile
    BY <2>1, <2>2, BuiltContext DEF ContextOf, NewContext
  <2>4. /\ DOMAIN call' = {"pc", "req", "ctx"} /\ call'.pc = "extract"
        /\ call'.req = req /\ call'.ctx = ctx
    BY <2>2
  <2>5. CallInv'
    BY <2>1, <2>3, <2>4 DEF CallInv
  <2> QED BY <2>2, <2>5 DEF IInv, MadeInv
<1>3. CASE ExtractKey
  <2>1. CASE NewIkm(call.req.ikm).ok
    <3>1. /\ call.pc = "extract" /\ UNCHANGED made
          /\ call' = With([call EXCEPT !.pc = "stretch"], "master",
                          Extract(call.req.ikm, call.ctx.pipeline))
      BY <1>3, <2>1 DEF ExtractKey, NewIkm, Ok, Err
    <3>2. /\ call'.pc = "stretch" /\ {"pc", "req", "ctx", "master"} \subseteq DOMAIN call'
          /\ call'.req = call.req /\ call'.ctx = call.ctx
          /\ call'.master = Extract(call.req.ikm, call.ctx.pipeline)
      BY <3>1 DEF With, IInv, CallInv
    <3>3. CallInv'
      BY <3>1, <3>2 DEF IInv, CallInv
    <3> QED BY <3>1, <3>3 DEF IInv, MadeInv
  <2>2. CASE ~ NewIkm(call.req.ikm).ok
    BY <1>1, <1>3, <2>2 DEF ExtractKey
  <2> QED BY <2>1, <2>2
<1>4. CASE AddPassphrase
  <2>1. /\ call.pc = "stretch" /\ UNCHANGED made
        /\ {"pc", "req", "ctx", "master"} \subseteq DOMAIN call
        /\ call.master = Extract(call.req.ikm, call.ctx.pipeline)
    BY <1>4 DEF AddPassphrase, IInv, CallInv
  <2>2. call' = [call EXCEPT !.pc = "derive", !.master = Master(call.req.ikm, call.req.passphrase,
                                                               call.ctx.pipeline)]
    BY <1>4, <2>1 DEF AddPassphrase, Master
  <2>3. /\ call'.pc = "derive" /\ {"pc", "req", "ctx"} \subseteq DOMAIN call'
        /\ call'.req = call.req /\ call'.ctx = call.ctx
        /\ call'.master = Master(call.req.ikm, call.req.passphrase, call.ctx.pipeline)
    BY <2>1, <2>2
  <2>4. CallInv'
    BY <2>1, <2>3 DEF IInv, CallInv
  <2> QED BY <2>1, <2>4 DEF IInv, MadeInv
<1>5. CASE DeriveKey
  <2> DEFINE r == IF call.req.lengthGiven THEN DeriveRaw(call.master, call.ctx, call.req.length)
                  ELSE Derive(call.master, call.ctx)
             id == Identity(call.req, call.ctx)
  <2>1. /\ call.pc = "derive" /\ UNCHANGED made /\ {"pc", "req", "ctx"} \subseteq DOMAIN call
        /\ call.req.ikm \in Ikm /\ IsContext(call.ctx)
        /\ call.req.lengthGiven => call.ctx.profile = "raw" /\ call.req.length \in Nat
        /\ call.master = Master(call.req.ikm, call.req.passphrase, call.ctx.pipeline)
    BY <1>5 DEF DeriveKey, IInv, CallInv
  <2>2. CASE ~ r.ok
    BY <1>1, <1>5, <2>2 DEF DeriveKey, Return
  <2>3. CASE r.ok
    <3>1. call' = With([call EXCEPT !.pc = "print"], "out", r.val)
      BY <1>5, <2>3 DEF DeriveKey, Return
    <3>2. call.req.lengthGiven => call.req.length # 0
      BY <2>3 DEF DeriveRaw, Err
    <3>3. IsIdentity(id)
      BY <2>1, <3>2, AskedIdentity
    <3>4. /\ id.ikm = call.req.ikm /\ id.passphrase = call.req.passphrase /\ id.ctx = call.ctx
          /\ id.len = IF call.req.lengthGiven THEN call.req.length ELSE ExpandLen(call.ctx.profile)
      BY DEF Identity
    <3>5. r.val = Secret(id).val
      <4> HIDE DEF id
      <4>1. CASE call.req.lengthGiven
        BY <2>1, <2>3, <3>3, <3>4, <4>1, DeriveIsSecret
      <4>2. CASE ~ call.req.lengthGiven
        BY <2>1, <2>3, <3>3, <3>4, <4>2, DeriveIsSecret
      <4> QED BY <4>1, <4>2
    <3> HIDE DEF r
    <3>6. /\ call'.pc = "print" /\ {"pc", "req", "ctx"} \subseteq DOMAIN call'
          /\ call'.req = call.req /\ call'.ctx = call.ctx /\ call'.out = r.val
      BY <2>1, <3>1 DEF With
    <3>7. CallInv'
      BY <2>1, <3>3, <3>5, <3>6 DEF CallInv
    <3> QED BY <2>1, <3>7 DEF IInv, MadeInv
  <2> QED BY <2>2, <2>3
<1>6. CASE Emit
  <2>1. CallInv'
    BY <1>6 DEF Emit, CallInv, Nothing
  <2>2. PICK m : /\ m = [id |-> Identity(call.req, call.ctx), door |-> call.req.door,
                         out |-> call.out, public |-> PublicKey(call.out, call.ctx.profile)]
                 /\ made' = made \cup {m}
    BY <1>6 DEF Emit
  <2>3. /\ m.id = Identity(call.req, call.ctx) /\ m.out = call.out
        /\ m.public = PublicKey(call.out, m.id.ctx.profile)
    BY <2>2 DEF Identity
  <2>4. IsIdentity(m.id) /\ m.out = Secret(m.id).val
    BY <1>6, <2>3 DEF Emit, IInv, CallInv
  <2> QED BY <2>1, <2>2, <2>3, <2>4 DEF IInv, MadeInv
<1>7. CASE ParseText \/ UNCHANGED vars
  <2>1. UNCHANGED <<call, made>>
    BY <1>7 DEF ParseText, vars
  <2> QED BY <2>1 DEF IInv, CallInv, MadeInv
<1> QED BY <1>2, <1>3, <1>4, <1>5, <1>6, <1>7 DEF Next
-----------------------------------------------------------------------------
(* What follows from it, for every value of the constants. *)

\* The invariant that the theorems below rest on.
THEOREM Invariance == Spec => []IInv
<1> QED BY InitIInv, StepIInv, PTL DEF Spec

\* What is made has a context that the core accepts, and is as long as was asked.
THEOREM TypeCorrect == Spec => []TypeOK
<1>1. ASSUME IInv PROVE TypeOK
  <2>1. ASSUME NEW m \in made
        PROVE  /\ Accepts(m.id.ctx.profile, m.id.ctx.pipeline) /\ IsPurpose(m.id.ctx.purpose)
               /\ m.out.secret.len = m.id.len /\ m.id.len > 0
               /\ m.id.ctx.profile # "raw" => m.id.len = ExpandLen(m.id.ctx.profile)
    <3>1. IsIdentity(m.id) /\ m.out = Secret(m.id).val
      BY <1>1 DEF IInv, MadeInv
    <3>2. m.out.secret = Expanded(m.id)
      BY <3>1, PostProcessed, ContextLabels DEF IsIdentity, Secret, Expanded
    <3> QED BY <3>1, <3>2 DEF IsIdentity, IsContext, Expanded
  <2> QED BY <1>1, <2>1 DEF IInv, CallInv, TypeOK
<1> QED BY <1>1, Invariance, PTL

\* No two different derivations draw on one stream, whatever the key material, the
\* passphrases, the purposes, the indices and the lengths: the key of one says nothing of the
\* key of the other, and is not a prefix of it.
THEOREM DomainsApart == ASSUME DecimalIsUnique PROVE Spec => []StreamsApart
<1>1. ASSUME IInv PROVE StreamsApart
  <2> SUFFICES ASSUME NEW m \in made, NEW o \in made, m.out.secret.of = o.out.secret.of
               PROVE  m.id = o.id
    BY DEF StreamsApart
  <2>1. ASSUME NEW a \in made PROVE IsIdentity(a.id) /\ a.out.secret.of = Stream(a.id)
    <3>1. IsIdentity(a.id) /\ a.out = Secret(a.id).val
      BY <1>1 DEF IInv, MadeInv
    <3>2. a.out.secret = Expanded(a.id)
      BY <3>1, PostProcessed, ContextLabels DEF IsIdentity, Secret, Expanded
    <3> QED BY <3>1, <3>2 DEF Expanded
  <2>2. IsIdentity(m.id) /\ IsIdentity(o.id) /\ Stream(m.id) = Stream(o.id)
    BY <2>1
  <2> QED BY <2>2, StreamIsUnique
<1> QED BY <1>1, Invariance, PTL

\* One derivation gives one key, through the command line or through the bridge, whatever was
\* derived in between.
THEOREM OneKeyThroughBothDoors == Spec => []DoorsAgree
<1>1. IInv => DoorsAgree
  BY DEF IInv, MadeInv, DoorsAgree
<1> QED BY <1>1, Invariance, PTL

\* What was parsed last is a context.
ParsedInv ==
  parsed.ok => /\ parsed = Ok(parsed.val) /\ IsContext(parsed.val) /\ parsed.val.index \in {0, 7}

LEMMA ParseTextReads == ASSUME ParseText PROVE ParsedInv'
<1>1. PICK version \in {"v1", "v2"}, pipeline \in {"shake256", "hkdf-sha512", "md5"},
        profile \in {"x25519", "raw", "mlkem768", "aes"}, purpose \in Purpose, index \in IndexText :
        parsed' = Parse(Split(<<"ykdf", ":", version, ":", pipeline, ":", profile, ":">>
                              \o purpose \o <<":", index>>))
  BY DEF ParseText
<1>2. PICK text : text = <<"ykdf", ":", version, ":", pipeline, ":", profile, ":">> \o purpose \o <<":", index>>
  OBVIOUS
<1>3. SUFFICES ASSUME Parse(Split(text)).ok PROVE ParsedInv'
  BY <1>1, <1>2 DEF ParsedInv
<1> DEFINE S == {"ykdf", ":", version, pipeline, profile, index} \cup STRING
<1>4. purpose \in Seq(STRING)
  BY DerivationAssumption DEF DerivationAssumption
<1>5. purpose \in Seq(S)
  BY <1>4, SeqMonotonic
<1>6. {"ykdf", ":"} \subseteq S /\ version \in S /\ pipeline \in S /\ profile \in S /\ index \in S
  OBVIOUS
<1>7. ":" \notin {version, pipeline, profile}
  OBVIOUS
<1>8. PICK fields : fields = Split(text)
  OBVIOUS
<1>9. Fields(fields, version, pipeline, profile, purpose, index)
  <2> HIDE DEF S
  <2>1. Spelled(S, text, version, pipeline, profile, purpose, index)
    BY <1>2, <1>5, <1>6, ContextString
  <2>2. Len(Split(text)) = 6
    BY <1>3, ParseAccepts
  <2> QED BY <1>5, <1>7, <1>8, <2>1, <2>2, SplitContext, Zenon
<1>10. /\ Accepts(profile, pipeline) /\ IsPurpose(purpose)
       /\ \E o \in {0, 7} : Parse(fields) = Ok(Context(pipeline, profile, purpose, o))
  <2>1. fields[3][1] = pipeline /\ fields[4][1] = profile /\ fields[5] = purpose
    BY <1>9 DEF Fields
  <2> QED BY <1>3, <1>8, <2>1, ParseAccepts
<1>11. PICK o \in {0, 7} : parsed' = Ok(Context(pipeline, profile, purpose, o))
  BY <1>1, <1>2, <1>8, <1>10
<1> QED BY <1>4, <1>10, <1>11 DEF ParsedInv, IsContext, Context, Ok

\* A context string that is accepted, odd spellings of its index included, is rendered as one
\* that reads as the same context, whatever its purpose (context.rs:162-225, the fuzz target
\* context_parse), if the two numbers that the parser of the model knows are printed in a way
\* that it reads back.
THEOREM ContextsRoundTrip == ASSUME DecimalIsRead PROVE Spec => []RoundTrip
<1>1. Init => ParsedInv
  BY DEF Init, ParsedInv, Err
<1>2. ParsedInv /\ [Next]_vars => ParsedInv'
  <2> SUFFICES ASSUME ParsedInv, [Next]_vars PROVE ParsedInv'
    OBVIOUS
  <2>1. CASE Begin
    <3>1. parsed' = Err("none")
      BY <2>1, Begun DEF Start
    <3> QED BY <3>1 DEF ParsedInv, Err
  <2>2. CASE ParseText
    BY <2>2, ParseTextReads
  <2>3. CASE UNCHANGED parsed
    BY <2>3 DEF ParsedInv
  <2> QED BY <2>1, <2>2, <2>3 DEF Next, vars, ExtractKey, AddPassphrase, DeriveKey, Emit
<1>3. ParsedInv => RoundTrip
  BY RenderedIsRead DEF ParsedInv, RoundTrip
<1> QED BY <1>1, <1>2, <1>3, PTL DEF Spec

\* A context that was built can be derived from, but for raw bytes.
THEOREM EveryContextDerives == Spec => []ContextDerives
<1>1. ASSUME IInv PROVE ContextDerives
  <2> SUFFICES ASSUME call.pc = "derive", call.ctx.profile # "raw"
               PROVE  Derive(call.master, call.ctx).ok
    BY DEF ContextDerives
  <2>1. /\ call.req.ikm \in Ikm /\ IsContext(call.ctx) /\ ~ call.req.lengthGiven
        /\ call.master = Master(call.req.ikm, call.req.passphrase, call.ctx.pipeline)
    BY <1>1 DEF IInv, CallInv
  <2>2. PICK id : id = Identity(call.req, call.ctx) /\ IsIdentity(id)
    BY <2>1, AskedIdentity
  <2>3. /\ id.ikm = call.req.ikm /\ id.passphrase = call.req.passphrase /\ id.ctx = call.ctx
        /\ id.len = ExpandLen(call.ctx.profile)
    BY <2>1, <2>2 DEF Identity
  <2> QED BY <2>1, <2>2, <2>3, DeriveIsSecret
<1> QED BY <1>1, Invariance, PTL
-----------------------------------------------------------------------------
(* HkdfExpand *)

USE DEF HashLen, Byte, MaxOutput, DivCeil

\* The blocks for a length: as many as are needed, at most 255.
LEMMA Blocks ==
  ASSUME NEW l \in Nat, l <= MaxOutput
  PROVE  /\ DivCeil(l, HashLen) \in 0 .. 255
         /\ HashLen * (DivCeil(l, HashLen) - 1) < l
         /\ l <= HashLen * DivCeil(l, HashLen)
  OBVIOUS

\* T(k) is T(k-1) with the counter k, as long as the counter is one byte.
LEMMA NextT ==
  ASSUME NEW k \in 1 .. 255
  PROVE  /\ Append(T(k - 1), k % Byte) = T(k)
         /\ T(k) \in Seq(0 .. Byte - 1)
<1>1. k % Byte = k
  OBVIOUS
<1>2. T(k - 1) \in Seq(Int) /\ Len(T(k - 1)) = k - 1
  BY DEF T
<1>3. Append(T(k - 1), k) = T(k)
  <2>1. Append(T(k - 1), k) \in Seq(Int) /\ Len(Append(T(k - 1), k)) = k
    BY <1>2
  <2>2. \A c \in 1 .. k : Append(T(k - 1), k)[c] = c
    BY <1>2 DEF T
  <2> QED
    BY <2>1, <2>2 DEF T
<1>4. T(k) \in Seq(0 .. Byte - 1)
  BY DEF T
<1> QED
  BY <1>1, <1>3, <1>4

\* An appended element is the last one; those before it stay.
LEMMA Appended ==
  ASSUME NEW S, NEW s \in Seq(S), NEW e \in S
  PROVE  /\ Append(s, e)[Len(s) + 1] = e
         /\ \A k \in 1 .. Len(s) : Append(s, e)[k] = s[k]
  OBVIOUS

\* Before the call nothing is computed.
LEMMA InitLoopInv == ExpandInit => LoopInv
  BY LengthAssumption DEF ExpandInit, LoopInv, ExpandTypeOK, Pieces

\* Every step keeps the loop invariant.
LEMMA NextLoopInv == LoopInv /\ [ExpandNext]_expandVars => LoopInv'
<1> SUFFICES ASSUME LoopInv, [ExpandNext]_expandVars PROVE LoopInv'
  OBVIOUS
<1>0. len \in Nat
  BY LengthAssumption DEF LoopInv, ExpandTypeOK
<1>1. CASE TooLong
  BY <1>0, <1>1 DEF LoopInv, ExpandTypeOK, TooLong, Pieces
<1>2. CASE Enter
  <2>1. n' \in 0 .. 255 /\ HashLen * (n' - 1) < len /\ len <= HashLen * n'
    BY <1>0, <1>2, Blocks DEF Enter
  <2>2. T(0) = <<>>
    BY DEF T
  <2> QED
    BY <1>0, <1>2, <2>1, <2>2 DEF LoopInv, ExpandTypeOK, Enter, Pieces
<1>3. CASE Block
  <2>1. i \in 1 .. 255 /\ tPrev = T(i - 1)
    BY <1>3 DEF LoopInv, ExpandTypeOK, Block
  <2>2. tPrev' = T(i) /\ tPrev' \in Seq(0 .. Byte - 1)
    BY <1>3, <2>1, NextT DEF Block
  <2>3. /\ ToCopy = IF i < n THEN HashLen ELSE len - HashLen * (n - 1)
        /\ ToCopy \in 0 .. HashLen
    BY <1>0, <1>3, <2>1 DEF LoopInv, ExpandTypeOK, Block, ToCopy
  <2>4. filled' = IF i + 1 <= n THEN HashLen * i ELSE len
    BY <1>0, <1>3, <2>1, <2>3 DEF LoopInv, ExpandTypeOK, Block
  <2>5. okm' \in Pieces /\ Len(okm') = i
    BY <1>3, <2>2, <2>3 DEF LoopInv, ExpandTypeOK, Block, Pieces
  <2>6. ASSUME NEW k \in 1 .. i
        PROVE  okm'[k] = [block |-> T(k),
                          count |-> IF k < n THEN HashLen ELSE len - HashLen * (n - 1)]
    <3>1. CASE k = i
      <4>1. okm \in Seq([block : Seq(0 .. Byte - 1), count : 0 .. HashLen]) /\ Len(okm) = i - 1
        BY <1>3 DEF LoopInv, ExpandTypeOK, Block, Pieces
      <4> DEFINE piece == [block |-> tPrev', count |-> ToCopy]
                 Piece == [block : Seq(0 .. Byte - 1), count : 0 .. HashLen]
      <4>2. piece \in Piece
        BY <2>2, <2>3
      <4>3. okm \in Seq(Piece) /\ Len(okm) + 1 = i
        BY <2>1, <4>1
      <4>4. okm' = Append(okm, piece)
        BY <1>3 DEF Block
      <4>5. okm'[i] = piece
        <5> HIDE DEF piece, Piece
        <5> QED
          BY <4>2, <4>3, <4>4, Appended
      <4> QED
        BY <2>2, <2>3, <3>1, <4>5
    <3>2. CASE k < i
      <4>1. okm'[k] = okm[k]
        BY <1>3, <2>1, <3>2 DEF LoopInv, ExpandTypeOK, Block, Pieces
      <4> QED
        BY <1>3, <2>1, <3>2, <4>1 DEF LoopInv, Block
    <3> QED
      BY <2>1, <3>1, <3>2
  <2>7. ExpandTypeOK'
    BY <1>0, <1>3, <2>1, <2>2, <2>4, <2>5 DEF LoopInv, ExpandTypeOK, Block
  <2>8. /\ pc' = "loop" /\ len' = len /\ n' = n /\ i' = i + 1
        /\ len <= 255 * 64 /\ HashLen * (n - 1) < len /\ len <= HashLen * n
        /\ i <= n /\ n \in 0 .. 255
    BY <1>3 DEF LoopInv, ExpandTypeOK, Block
  <2>9. i' - 1 = i
    BY <2>1, <2>8
  <2> QED
    BY <2>1, <2>2, <2>4, <2>5, <2>6, <2>7, <2>8, <2>9 DEF LoopInv
<1>4. CASE ExpandReturn
  BY <1>0, <1>4 DEF LoopInv, ExpandTypeOK, ExpandReturn, Pieces
<1>5. CASE UNCHANGED expandVars
  BY <1>5 DEF LoopInv, ExpandTypeOK, expandVars, Pieces
<1> QED
  BY <1>1, <1>2, <1>3, <1>4, <1>5 DEF ExpandNext

\* The loop invariant holds of every call.
THEOREM LoopInvariant == ExpandSpec => []LoopInv
  BY InitLoopInv, NextLoopInv, PTL DEF ExpandSpec

\* The counter stays a byte, the output within the length (`i as u8' is safe).
THEOREM ExpandTypeCorrect == ExpandSpec => []ExpandTypeOK
<1>1. LoopInv => ExpandTypeOK
  BY DEF LoopInv
<1> QED
  BY <1>1, LoopInvariant, PTL

\* What the loop returns is the output RFC 5869 defines, for every length.
THEOREM RfcCorrect == ExpandSpec => []OkmIsRfc5869
<1>1. LoopInv => OkmIsRfc5869
  BY DEF LoopInv, ExpandTypeOK, OkmIsRfc5869
<1> QED
  BY <1>1, LoopInvariant, PTL
=============================================================================
