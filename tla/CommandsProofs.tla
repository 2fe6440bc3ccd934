--------------------------- MODULE CommandsProofs ---------------------------
(***************************************************************************)
(* Proofs about Commands, for every set of command lines, environments and *)
(* catalogues and any number of edits.                                     *)
(***************************************************************************)
EXTENDS Commands, SequenceTheorems, TLAPS

Places == {"prepare", "read", "context", "ikm", "passphrase", "derive", "format", "stdout",
           "open", "write"}

\* What a command knows by the time it gets somewhere.
Fields(place) ==
  {"pc", "inv"}
  \cup (IF place # "prepare"
        THEN {"params", "wg", "catalogue", "edits", "message"} ELSE {})
  \cup (IF place \notin {"prepare", "read", "context"} THEN {"ctx"} ELSE {})
  \cup (IF place \notin {"prepare", "read", "context", "ikm"} THEN {"master"} ELSE {})
  \cup (IF place \in {"format", "stdout", "open", "write"} THEN {"output"} ELSE {})
  \cup (IF place \in {"stdout", "open", "write"} THEN {"text"} ELSE {})

\* A command that ended keeps what it knew.
Shape ==
  /\ cmd.pc \in Places \cup {"ended"}
  /\ cmd.pc # "ended" => DOMAIN cmd = Fields(cmd.pc)
  /\ cmd.pc = "ended" => DOMAIN cmd \in { {"pc"} } \cup {Fields(place) : place \in Places}
  /\ "inv" \in DOMAIN cmd => cmd.inv \in Invocation

\* What a step of the command that runs leaves alone.
Continued ==
  /\ DOMAIN cmd \subseteq DOMAIN cmd'
  /\ \A f \in DOMAIN cmd : f \notin {"pc", "message", "master"} => cmd'[f] = cmd[f]
  /\ cmd.pc # "read" /\ "message" \in DOMAIN cmd => cmd'.message = cmd.message

\* Fail and Succeed.
Ends == cmd' = [cmd EXCEPT !.pc = "ended"]

\* A command that ends keeps the fields it had, and its invocation.
LEMMA EndsShape ==
  ASSUME Shape, cmd.pc # "ended", Ends
  PROVE  Shape' /\ Continued /\ DOMAIN cmd' = DOMAIN cmd /\ cmd'.pc = "ended"
<1>1. "pc" \in DOMAIN cmd
  BY DEF Shape, Fields
<1>2. /\ DOMAIN cmd' = DOMAIN cmd
      /\ \A f \in DOMAIN cmd : f # "pc" => cmd'[f] = cmd[f]
      /\ cmd'.pc = "ended"
  BY <1>1 DEF Ends
<1> QED BY <1>2 DEF Shape, Continued

\* The command goes on and knows one thing more.
Advances(place, added, v) ==
  /\ cmd.pc \in Places
  /\ Fields(place) = Fields(cmd.pc) \cup {added}
  /\ added \notin Fields(cmd.pc)
  /\ cmd' = With([cmd EXCEPT !.pc = place], added, v)

\* A command that goes on has the fields of the place it gets to.
LEMMA AdvanceShape ==
  ASSUME Shape, NEW place \in Places, NEW added, NEW v, Advances(place, added, v)
  PROVE  Shape' /\ Continued
<1>1. DOMAIN cmd = Fields(cmd.pc) /\ {"pc", "inv"} \subseteq DOMAIN cmd
  BY DEF Advances, Shape, Places, Fields
<1>2. DOMAIN cmd' = Fields(place)
  BY <1>1 DEF Advances, With
<1>3. cmd'.pc = place /\ \A f \in DOMAIN cmd : f # "pc" => cmd'[f] = cmd[f]
  BY <1>1 DEF Advances, With
<1>4. cmd'.inv \in Invocation /\ cmd'.pc # "ended" /\ cmd'.pc \in Places
  BY <1>1, <1>3 DEF Shape, Places
<1> QED BY <1>1, <1>2, <1>3, <1>4 DEF Shape, Continued, Advances

\* Each place adds one thing to what was known.
LEMMA NextFields ==
  /\ Fields("ikm") = Fields("context") \cup {"ctx"} /\ "ctx" \notin Fields("context")
  /\ \A place \in {"passphrase", "derive"} : Fields(place) = Fields("ikm") \cup {"master"}
  /\ "master" \notin Fields("ikm")
  /\ Fields("format") = Fields("derive") \cup {"output"} /\ "output" \notin Fields("derive")
  /\ \A place \in {"stdout", "open"} : Fields(place) = Fields("format") \cup {"text"}
  /\ "text" \notin Fields("format")
BY DEF Fields

\* Every step keeps the shape; only the next command line throws away what is known.
LEMMA ShapeStep ==
  ASSUME Shape, Next
  PROVE  /\ Shape'
         /\ cmd.pc # "ended" => Continued
         /\ cmd.pc = "ended" => cmd' = cmd \/ Invoke
<1>0. ASSUME NEW err, Fail(err), cmd.pc # "ended" PROVE Shape' /\ Continued
  BY <1>0, EndsShape DEF Fail, Ends
<1>1. ASSUME Succeed, cmd.pc # "ended" PROVE Shape' /\ Continued
  BY <1>1, EndsShape DEF Succeed, Ends
<1>2. CASE Invoke
  <2>1. PICK inv \in Invocation : cmd' = [pc |-> "prepare", inv |-> inv]
    BY <1>2 DEF Invoke
  <2>2. DOMAIN cmd' = {"pc", "inv"} /\ cmd'.pc = "prepare" /\ cmd'.inv = inv
    BY <2>1
  <2> QED BY <1>2, <2>2 DEF Shape, Places, Fields, Invoke
<1>3. ASSUME Prepare PROVE Shape' /\ Continued
  <2>1. CASE \E err : Fail(err)
    BY <1>3, <2>1, <1>0 DEF Prepare
  <2>2. CASE ~ \E err : Fail(err)
    <3>1. PICK p, w, c, e, m : cmd' = [pc |-> AfterPrepare, inv |-> Inv, params |-> p,
                        wg |-> w, catalogue |-> c, edits |-> e, message |-> m]
      BY <1>3, <2>2 DEF Prepare
    <3>2. /\ DOMAIN cmd' = Fields("read")
          /\ cmd'.pc = AfterPrepare /\ cmd'.inv = cmd.inv
      BY <3>1 DEF Fields, Inv
    <3>3. cmd.pc = "prepare" /\ DOMAIN cmd = {"pc", "inv"}
      BY <1>3 DEF Prepare, Shape, Fields
    <3>4. AfterPrepare \in {"read", "context"}
      BY DEF AfterPrepare
    <3>5. Fields("read") = Fields("context")
      BY DEF Fields
    <3> QED BY <3>2, <3>3, <3>4, <3>5 DEF Shape, Continued, Places, Fields
  <2> QED BY <2>1, <2>2
<1>4. ASSUME Show \/ List PROVE Shape' /\ Continued
  BY <1>4, <1>0, <1>1 DEF Show, List
<1>5. ASSUME NEW place \in Places, NEW added, NEW v,
             Advances(place, added, v)
      PROVE  Shape' /\ Continued
  BY <1>5, AdvanceShape
<1>6. CASE ReadMessage
  <2>1. CASE cmd' = [cmd EXCEPT !.pc = "context", !.message = TRUE]
    <3>1. cmd.pc = "read" /\ DOMAIN cmd = Fields("read")
      BY <1>6 DEF ReadMessage, Shape
    <3>2. /\ DOMAIN cmd' = DOMAIN cmd /\ cmd'.pc = "context"
          /\ \A f \in DOMAIN cmd : f \notin {"pc", "message"} => cmd'[f] = cmd[f]
      BY <2>1, <3>1 DEF Fields
    <3>3. Fields("read") = Fields("context") /\ "inv" \in Fields("read")
      BY DEF Fields
    <3> QED BY <3>1, <3>2, <3>3 DEF Shape, Continued, Places
  <2> QED BY <1>6, <2>1, <1>0 DEF ReadMessage
<1>7. CASE BuildContext
  <2>1. ASSUME NEW v, cmd' = With([cmd EXCEPT !.pc = "ikm"], "ctx", v)
        PROVE  Advances("ikm", "ctx", v)
    BY <1>7, <2>1, NextFields DEF BuildContext, Advances, Places
  <2> QED BY <1>7, <2>1, <1>0, <1>5 DEF BuildContext, Places
<1>8. CASE ExtractIkm
  <2>1. ASSUME NEW v, NEW place \in {"passphrase", "derive"},
               cmd' = With([cmd EXCEPT !.pc = place], "master", v)
        PROVE  Advances(place, "master", v)
    BY <1>8, <2>1, NextFields DEF ExtractIkm, Advances, Places
  <2>2. \/ \E err : Fail(err)
        \/ \E place \in {"passphrase", "derive"} : \E v :
             cmd' = With([cmd EXCEPT !.pc = place], "master", v)
    BY <1>8 DEF ExtractIkm
  <2> QED BY <1>8, <2>1, <2>2, <1>0, <1>5 DEF ExtractIkm, Places
<1>9. CASE ApplyPassphrase
  <2>1. CASE \E v : cmd' = [cmd EXCEPT !.pc = "derive", !.master = v]
    <3>1. cmd.pc = "passphrase" /\ DOMAIN cmd = Fields("passphrase")
      BY <1>9 DEF ApplyPassphrase, Shape
    <3>2. /\ DOMAIN cmd' = DOMAIN cmd /\ cmd'.pc = "derive"
          /\ \A f \in DOMAIN cmd : f \notin {"pc", "master"} => cmd'[f] = cmd[f]
      BY <2>1, <3>1 DEF Fields
    <3>3. Fields("passphrase") = Fields("derive") /\ "inv" \in Fields("passphrase")
      BY DEF Fields
    <3> QED BY <3>1, <3>2, <3>3 DEF Shape, Continued, Places
  <2>2. \/ \E err : Fail(err)
        \/ \E v : cmd' = [cmd EXCEPT !.pc = "derive", !.master = v]
    BY <1>9 DEF ApplyPassphrase
  <2> QED BY <1>9, <2>1, <2>2, <1>0 DEF ApplyPassphrase
<1>10. CASE DeriveKey
  <2>1. ASSUME NEW v, cmd' = With([cmd EXCEPT !.pc = "format"], "output", v)
        PROVE  Advances("format", "output", v)
    BY <1>10, <2>1, NextFields DEF DeriveKey, Advances, Places
  <2> QED BY <1>10, <2>1, <1>0, <1>5 DEF DeriveKey, Places
<1>11. CASE Format
  <2>1. ASSUME NEW v, NEW place \in {"stdout", "open"},
               cmd' = With([cmd EXCEPT !.pc = place], "text", v)
        PROVE  Advances(place, "text", v)
    BY <1>11, <2>1, NextFields DEF Format, Advances, Places
  <2>2. \/ \E err : Fail(err)
        \/ \E place \in {"stdout", "open"} : \E v :
             cmd' = With([cmd EXCEPT !.pc = place], "text", v)
    BY <1>11 DEF Format
  <2> QED BY <1>11, <2>1, <2>2, <1>0, <1>5 DEF Format, Places
<1>12. CASE Stdout \/ Write
  <2>1. Ends \/ UNCHANGED cmd
    BY <1>12 DEF Stdout, Write, WriteTo, Ends, Fail, Succeed
  <2>2. cmd.pc # "ended"
    BY <1>12 DEF Stdout, Write
  <2>3. CASE UNCHANGED cmd
    BY <2>3 DEF Shape, Continued
  <2> QED BY <1>12, <2>1, <2>2, <2>3, EndsShape
<1>13. CASE Open
  <2>1. CASE cmd' = [cmd EXCEPT !.pc = "write"]
    <3>1. cmd.pc = "open" /\ DOMAIN cmd = Fields("open")
      BY <1>13 DEF Open, Shape
    <3>2. /\ DOMAIN cmd' = DOMAIN cmd /\ cmd'.pc = "write"
          /\ \A f \in DOMAIN cmd : f # "pc" => cmd'[f] = cmd[f]
      BY <2>1, <3>1 DEF Fields
    <3>3. Fields("open") = Fields("write") /\ "inv" \in Fields("open")
      BY DEF Fields
    <3> QED BY <3>1, <3>2, <3>3 DEF Shape, Continued, Places
  <2> QED BY <1>13, <2>1, <1>0 DEF Open
<1>14. CASE Interrupt
  BY <1>14, EndsShape DEF Interrupt, Ends
<1>15. CASE Edit
  BY <1>15 DEF Edit, Shape, Continued
<1>16. cmd.pc = "ended" => Invoke \/ Edit
  BY DEF Next, Prepare, Show, List, ReadMessage, BuildContext, ExtractIkm, ApplyPassphrase,
    DeriveKey, Format, Stdout, Open, Write, Interrupt
<1> QED
  BY <1>2, <1>3, <1>4, <1>6, <1>7, <1>8, <1>9, <1>10, <1>11, <1>12, <1>13, <1>14, <1>15,
    <1>16 DEF Next, Edit
-----------------------------------------------------------------------------
(* Parameters *)

\* An option is a sequence over whatever it may hold.
LEMMA OptionIsSeq ==
  ASSUME NEW S, NEW a, IsOption(a), a # <<>> => a[1] \in S
  PROVE  a \in Seq(S)
<1>1. CASE a # <<>>
  <2>1. PICK x \in S : x = a[1]
    BY <1>1
  <2>2. a = <<x>>
    BY <1>1, <2>1 DEF IsOption
  <2> QED BY <2>1, <2>2
<1> QED BY <1>1, EmptySeq

\* The first of a concatenation.
LEMMA FirstOf ==
  ASSUME NEW S, NEW a \in Seq(S), NEW b \in Seq(S), a \o b # <<>>
  PROVE  Head(a \o b) = IF a # <<>> THEN a[1] ELSE Head(b)
<1>1. CASE a = <<>>
  BY <1>1, ConcatEmptySeq
<1>2. CASE a # <<>>
  <2>1. Len(a) \in Nat \ {0} /\ Len(b) \in Nat
    BY <1>2, EmptySeq, LenProperties
  <2>2. (a \o b)[1] = a[1]
    BY <2>1, ConcatProperties
  <2>3. Head(a \o b) = (a \o b)[1]
    OBVIOUS
  <2> QED BY <1>2, <2>2, <2>3
<1> QED BY <1>1, <1>2

\* The first that is given, as the documentation lists them, is what Or and unwrap_or take.
First4(a, b, c, d) == Head(a \o b \o c \o <<d>>)
First3(a, b, d) == Head(a \o b \o <<d>>)

\* The first of three options and a default.
LEMMA FirstOfFour ==
  ASSUME NEW a, NEW b, NEW c, NEW d, IsOption(a), IsOption(b), IsOption(c)
  PROVE  First4(a, b, c, d) = UnwrapOr(Or(a, Or(b, c)), d)
<1> DEFINE S == {a[1], b[1], c[1], d}
<1>1. a \in Seq(S) /\ b \in Seq(S) /\ c \in Seq(S) /\ <<d>> \in Seq(S)
  BY OptionIsSeq
<1> HIDE DEF S
<1>2. a \o b \in Seq(S) /\ a \o b \o c \in Seq(S)
  BY <1>1, ConcatProperties
<1>3. ASSUME NEW s \in Seq(S)
      PROVE  Head(s \o <<d>>) = IF s # <<>> THEN Head(s) ELSE d
  <2>1. s \o <<d>> # <<>> /\ Head(<<d>>) = d /\ (s # <<>> => Head(s) = s[1])
    BY <1>1, ConcatEqualIffEmpty
  <2> QED BY <2>1, <1>1, FirstOf
<1>4. /\ a \o b = <<>> <=> a = <<>> /\ b = <<>>
      /\ a \o b \o c = <<>> <=> a = <<>> /\ b = <<>> /\ c = <<>>
  BY <1>1, <1>2, ConcatEqualIffEmpty
<1>5. \A s \in {a, b, c} : s # <<>> => Head(s) = s[1]
  BY <1>1
<1>6. a \o b # <<>> => Head(a \o b) = Or(a, b)[1]
  BY <1>1, <1>4, <1>5, FirstOf DEF Or
<1>7. a \o b \o c # <<>> => Head(a \o b \o c) = Or(a, Or(b, c))[1]
  <2>1. CASE a \o b = <<>>
    BY <2>1, <1>1, <1>4, <1>5, ConcatEmptySeq DEF Or
  <2>2. CASE a \o b # <<>>
    <3>1. (a \o b)[1] = Head(a \o b)
      BY <2>2, <1>2
    <3> QED BY <3>1, <2>2, <1>1, <1>2, <1>4, <1>6, FirstOf DEF Or
  <2> QED BY <2>1, <2>2
<1> QED BY <1>1, <1>2, <1>3, <1>4, <1>5, <1>6, <1>7 DEF First4, UnwrapOr, Or

\* The first of two options and a default.
LEMMA FirstOfThree ==
  ASSUME NEW a, NEW b, NEW d, IsOption(a), IsOption(b)
  PROVE  First3(a, b, d) = UnwrapOr(Or(a, b), d)
<1>1. IsOption(<<>>) /\ Or(b, <<>>) = b /\ a \o b \o <<>> = a \o b
  <2> DEFINE S == {a[1], b[1]}
  <2>1. a \in Seq(S) /\ b \in Seq(S)
    BY OptionIsSeq
  <2> HIDE DEF S
  <2> QED BY <2>1, ConcatProperties, ConcatEmptySeq DEF IsOption, Or
<1>2. First4(a, b, <<>>, d) = UnwrapOr(Or(a, Or(b, <<>>)), d)
  BY <1>1, FirstOfFour
<1> QED BY <1>1, <1>2 DEF First3, First4

\* An option or a default.
LEMMA FirstOfTwo ==
  ASSUME NEW a, NEW d, IsOption(a)
  PROVE  Head(a \o <<d>>) = UnwrapOr(a, d)
<1>1. IsOption(<<>>) /\ Or(a, <<>>) = a /\ a \o <<>> = a
  <2>1. a \in Seq({a[1]})
    BY OptionIsSeq
  <2> QED BY <2>1, ConcatEmptySeq DEF IsOption, Or
<1>2. First3(a, <<>>, d) = UnwrapOr(Or(a, <<>>), d)
  BY <1>1, FirstOfThree
<1> QED BY <1>1, <1>2 DEF First3

\* A recipe that resolves is what its catalogue says, with the defaults filled in.
LEMMA Resolved ==
  ASSUME NEW catalogue, NEW name, Resolve(catalogue, name).ok
  PROVE  LET raw == catalogue.recipe[name]
             d == catalogue.defaults
             r == Resolve(catalogue, name).val
         IN /\ name \in DOMAIN catalogue.recipe
            /\ r.profile = raw.profile /\ raw.profile \in Profile
            /\ r.purpose = UnwrapOr(raw.purpose, name)
            /\ r.pipeline = Or(raw.pipeline, d.pipeline)
            /\ r.index = UnwrapOr(Or(raw.index, d.index), 0)
            /\ r.layered = UnwrapOr(Or(raw.layered, d.layered), FALSE)
BY DEF Resolve, PipelineLabel, Then, Ok, Err

\* Named finds the recipe in the catalogue that was loaded.
LEMMA NamedRecipe ==
  ASSUME NEW inv, NEW loaded, Named(inv, loaded).ok
  PROVE  LET r == Resolve(loaded.val, inv.recipe[1]) IN
         IF inv.recipe = <<>> THEN Named(inv, loaded).val = <<>>
         ELSE loaded.ok /\ r.ok /\ Named(inv, loaded).val = <<r.val>>
BY DEF Named, Then, Ok, Err

\* The parameters that a command derives with.
Params(inv, loaded) ==
  IF inv.verb \in Wg THEN ResolveWgParams(inv, loaded) ELSE ResolveParams(inv, loaded)

\* They are those of the flags merged with the recipe, for a profile and a purpose that one
\* of them gives.
LEMMA MergedParams ==
  ASSUME NEW inv, NEW loaded, Params(inv, loaded).ok
  PROVE  LET recipe == Named(inv, loaded).val
             profile == Or(inv.profile, Of(recipe, "profile"))
         IN /\ Named(inv, loaded).ok
            /\ Or(inv.purpose, Of(recipe, "purpose")) # <<>>
            /\ inv.verb \in Wg => /\ recipe # <<>> => recipe[1].profile = "x25519"
                                  /\ Params(inv, loaded).val = Merge(inv, recipe, "x25519")
            /\ inv.verb \notin Wg => /\ profile # <<>>
                                     /\ Params(inv, loaded).val = Merge(inv, recipe, profile[1])
BY DEF Params, ResolveWgParams, ResolveParams, Then, Ok, Err

\* Whatever mixture they come from, they are the documented ones.
LEMMA DocumentedParams ==
  ASSUME NEW inv, IsInvocation(inv), NEW loaded, loaded.ok => IsCatalogue(loaded.val),
         Params(inv, loaded).ok
  PROVE  Params(inv, loaded).val
           = Documented(inv, IF inv.recipe = <<>> THEN Empty ELSE loaded.val)
<1> DEFINE recipe == Named(inv, loaded).val
           catalogue == loaded.val
           name == inv.recipe[1]
           raw == catalogue.recipe[name]
           d == catalogue.defaults
<1>1. /\ IsOption(inv.profile) /\ IsOption(inv.purpose) /\ IsOption(inv.pipeline)
      /\ IsOption(inv.index) /\ IsOption(inv.recipe)
  BY DEF IsInvocation
<1>2. CASE inv.recipe = <<>>
  <2>1. recipe = <<>>
    BY <1>2, MergedParams, NamedRecipe
  <2>2. /\ Or(inv.purpose, <<>>) # <<>>
        /\ inv.verb \in Wg => Params(inv, loaded).val = Merge(inv, <<>>, "x25519")
        /\ inv.verb \notin Wg => /\ Or(inv.profile, <<>>) # <<>>
                                /\ Params(inv, loaded).val
                                     = Merge(inv, <<>>, Or(inv.profile, <<>>)[1])
    BY <2>1, MergedParams, Zenon DEF Of
  <2>3. \A a, v : IsOption(a) => /\ Head(a \o <<>> \o <<>> \o <<v>>) = UnwrapOr(a, v)
                                 /\ Or(a, <<>>) = a
    BY FirstOfFour DEF First4, Or, IsOption
  <2>4. \A a : IsOption(a) /\ a # <<>> => Head(a \o <<>> \o <<>>) = a[1] /\ Head(a \o <<>>) = a[1]
    BY <1>1, OptionIsSeq, ConcatEmptySeq
  <2>5. Head(<<>> \o <<>> \o <<FALSE>>) = FALSE
    BY FirstOfThree DEF First3, IsOption, UnwrapOr, Or
  <2>6. PICK profile : /\ Params(inv, loaded).val = Merge(inv, <<>>, profile)
                       /\ profile = IF inv.verb \in Wg THEN "x25519" ELSE Head(inv.profile \o <<>>)
    BY <1>1, <2>2, <2>3, <2>4
  <2>7. inv.purpose # <<>> /\ Or(inv.purpose, <<>>) = inv.purpose
    BY <1>1, <2>2, <2>3
  <2>8. Head(inv.purpose \o <<>> \o inv.recipe) = inv.purpose[1]
    BY <1>1, <1>2, <2>4, <2>7
  <2>9. Merge(inv, <<>>, profile)
          = [profile |-> profile, purpose |-> inv.purpose[1],
             pipeline |-> UnwrapOr(inv.pipeline, DefaultPipeline(profile)),
             index |-> UnwrapOr(inv.index, 0),
             layered |-> inv.layered \/ FALSE]
    BY <1>1, <2>2, <2>3, <2>7, Zenon DEF Merge, Of
  <2>10. Documented(inv, Empty)
          = [profile |-> profile, purpose |-> inv.purpose[1],
             pipeline |-> UnwrapOr(inv.pipeline, DefaultPipeline(profile)),
             index |-> UnwrapOr(inv.index, 0),
             layered |-> inv.layered \/ FALSE]
    <3>1. profile = IF inv.verb \in Wg THEN "x25519" ELSE Head(inv.profile \o <<>>)
      BY <2>6
    <3>2. /\ UnwrapOr(inv.pipeline, DefaultPipeline(profile))
               = Head(inv.pipeline \o <<>> \o <<>> \o <<DefaultPipeline(profile)>>)
          /\ UnwrapOr(inv.index, 0) = Head(inv.index \o <<>> \o <<>> \o <<0>>)
      BY <1>1, <2>3
    <3> QED BY <1>2, <2>5, <2>8, <3>1, <3>2, Zenon DEF Documented
  <2> QED BY <1>2, <2>6, <2>9, <2>10
<1>3. CASE inv.recipe # <<>>
  <2>1. /\ loaded.ok /\ Resolve(catalogue, name).ok
        /\ recipe = <<Resolve(catalogue, name).val>>
        /\ inv.recipe = <<name>>
    BY <1>1, <1>3, MergedParams, NamedRecipe DEF IsOption
  <2> DEFINE r == Resolve(catalogue, name).val
  <2>2. /\ name \in DOMAIN catalogue.recipe
        /\ r.profile = raw.profile
        /\ r.purpose = UnwrapOr(raw.purpose, name)
        /\ r.pipeline = Or(raw.pipeline, d.pipeline)
        /\ r.index = UnwrapOr(Or(raw.index, d.index), 0)
        /\ r.layered = UnwrapOr(Or(raw.layered, d.layered), FALSE)
    <3>1. Resolve(catalogue, name).ok
      BY <2>1
    <3> HIDE DEF catalogue, name
    <3>2. /\ name \in DOMAIN catalogue.recipe
          /\ r.profile = raw.profile
      BY <3>1, Resolved
    <3>3. r.purpose = UnwrapOr(raw.purpose, name)
      BY <3>1, Resolved
    <3>4. r.pipeline = Or(raw.pipeline, d.pipeline)
      BY <3>1, Resolved
    <3>5. r.index = UnwrapOr(Or(raw.index, d.index), 0)
      BY <3>1, Resolved
    <3>6. r.layered = UnwrapOr(Or(raw.layered, d.layered), FALSE)
      BY <3>1, Resolved
    <3> QED BY <3>2, <3>3, <3>4, <3>5, <3>6
  <2>3. /\ IsOption(raw.purpose) /\ IsOption(raw.pipeline) /\ IsOption(raw.index)
        /\ IsOption(raw.layered) /\ IsOption(d.pipeline) /\ IsOption(d.index)
        /\ IsOption(d.layered)
    BY <2>1, <2>2 DEF IsCatalogue, IsLayered
  <2> HIDE DEF r, recipe, catalogue, name, raw, d
  <2>4. PICK profile :
          /\ Params(inv, loaded).val = Merge(inv, <<r>>, profile)
          /\ profile = IF inv.verb \in Wg THEN "x25519" ELSE Head(inv.profile \o <<raw.profile>>)
    <3>0. recipe = <<r>> /\ Of(<<r>>, "profile") = <<r.profile>>
      BY <2>1 DEF r, Of
    <3>1. /\ inv.verb \in Wg => Params(inv, loaded).val = Merge(inv, <<r>>, "x25519")
          /\ inv.verb \notin Wg => Params(inv, loaded).val
                                     = Merge(inv, <<r>>, Or(inv.profile, <<r.profile>>)[1])
      BY <3>0, MergedParams, Zenon DEF recipe
    <3>2. Or(inv.profile, <<r.profile>>)[1] = Head(inv.profile \o <<raw.profile>>)
      BY <1>1, <2>2, FirstOfTwo DEF UnwrapOr, Or
    <3> QED BY <3>1, <3>2
  <2>5. (<<r>>)[1] = r /\ <<r>> # <<>>
    OBVIOUS
  <2>6. PICK purpose, pipeline, index :
          /\ purpose = Head(inv.purpose \o raw.purpose \o inv.recipe)
          /\ pipeline = First4(inv.pipeline, raw.pipeline, d.pipeline, DefaultPipeline(profile))
          /\ index = First4(inv.index, raw.index, d.index, 0)
    OBVIOUS
  <2>7. /\ purpose = Or(inv.purpose, Of(<<r>>, "purpose"))[1]
        /\ pipeline = UnwrapOr(Or(inv.pipeline, r.pipeline), DefaultPipeline(profile))
        /\ index = UnwrapOr(Or(inv.index, Of(<<r>>, "index")), 0)
    <3>1. First3(inv.purpose, raw.purpose, name) = UnwrapOr(Or(inv.purpose, raw.purpose), name)
      BY <1>1, <2>3, FirstOfThree
    <3>2. First4(inv.pipeline, raw.pipeline, d.pipeline, DefaultPipeline(profile))
            = UnwrapOr(Or(inv.pipeline, Or(raw.pipeline, d.pipeline)), DefaultPipeline(profile))
      BY <1>1, <2>3, FirstOfFour
    <3>3. First4(inv.index, raw.index, d.index, 0)
            = UnwrapOr(Or(inv.index, Or(raw.index, d.index)), 0)
      BY <1>1, <2>3, FirstOfFour
    <3> QED BY <2>1, <2>2, <2>5, <2>6, <3>1, <3>2, <3>3 DEF First3, Of, Or, UnwrapOr
  <2>8. PICK layered : layered = r.layered /\ layered = First3(raw.layered, d.layered, FALSE)
    <3>1. First3(raw.layered, d.layered, FALSE) = UnwrapOr(Or(raw.layered, d.layered), FALSE)
      BY <2>3, FirstOfThree
    <3> QED BY <2>2, <3>1
  <2>9. Merge(inv, <<r>>, profile)
          = [profile |-> profile, purpose |-> purpose, pipeline |-> pipeline, index |-> index,
             layered |-> inv.layered \/ layered]
    BY <2>5, <2>7, <2>8, Zenon DEF Merge
  <2>10. Documented(inv, catalogue)
          = [profile |-> profile, purpose |-> purpose, pipeline |-> pipeline, index |-> index,
             layered |-> inv.layered \/ layered]
    BY <1>3, <2>4, <2>6, <2>8, Zenon DEF Documented, First3, First4, raw, d, name
  <2> QED BY <1>3, <2>4, <2>9, <2>10, Zenon DEF catalogue
<1> QED BY <1>2, <1>3

\* With a recipe and nothing else they are what `recipe show' prints.
Bare(inv) ==
  /\ inv.recipe # <<>>
  /\ inv.profile \o inv.purpose \o inv.pipeline \o inv.index = <<>>
  /\ ~ inv.layered

\* For a bare recipe the merge is the identity, so both read the same resolved recipe.
LEMMA ShownParams ==
  ASSUME NEW inv, IsInvocation(inv), Bare(inv), NEW loaded, loaded.ok => IsCatalogue(loaded.val),
         Params(inv, loaded).ok
  PROVE  LET r == Resolve(loaded.val, inv.recipe[1]) IN
         /\ loaded.ok /\ r.ok
         /\ Params(inv, loaded).val = Shown(r.val)
         /\ WgSection(inv, loaded) = r.val.wg
<1> DEFINE name == inv.recipe[1]
           r == Resolve(loaded.val, name)
<1>1. loaded.ok /\ r.ok /\ Named(inv, loaded).ok /\ Named(inv, loaded).val = <<r.val>>
  BY MergedParams, NamedRecipe DEF Bare
<1>2. inv.profile = <<>> /\ inv.purpose = <<>> /\ inv.pipeline = <<>> /\ inv.index = <<>>
  <2> DEFINE S == {inv.profile[1], inv.purpose[1], inv.pipeline[1], inv.index[1]}
  <2>1. /\ inv.profile \in Seq(S) /\ inv.purpose \in Seq(S)
        /\ inv.pipeline \in Seq(S) /\ inv.index \in Seq(S)
    BY OptionIsSeq DEF IsInvocation
  <2> HIDE DEF S
  <2>2. /\ inv.profile \o inv.purpose \in Seq(S)
        /\ inv.profile \o inv.purpose \o inv.pipeline \in Seq(S)
    BY <2>1, ConcatProperties
  <2>3. /\ inv.profile \o inv.purpose \o inv.pipeline = <<>> /\ inv.index = <<>>
        /\ inv.profile \o inv.purpose = <<>> /\ inv.pipeline = <<>>
    BY <2>1, <2>2, ConcatEqualIffEmpty DEF Bare
  <2> QED BY <2>1, <2>3, ConcatEqualIffEmpty
<1>3. r.val.layered \in BOOLEAN
  <2> DEFINE raw == loaded.val.recipe[name]
             d == loaded.val.defaults
  <2>1. name \in DOMAIN loaded.val.recipe
        /\ r.val.layered = UnwrapOr(Or(raw.layered, d.layered), FALSE)
    <3> HIDE DEF name
    <3> QED BY <1>1, Resolved
  <2> QED BY <1>1, <2>1 DEF IsCatalogue, IsLayered, UnwrapOr, Or
<1> HIDE DEF r, name
<1>4. PICK profile : /\ profile = r.val.profile
                     /\ Params(inv, loaded).val = Merge(inv, <<r.val>>, profile)
  <2>1. Of(<<r.val>>, "profile") = <<r.val.profile>> /\ (<<r.val>>)[1] = r.val /\ <<r.val>> # <<>>
    BY DEF Of
  <2>2. Or(<<>>, <<r.val.profile>>)[1] = r.val.profile
    BY DEF Or
  <2> QED BY <1>1, <1>2, <2>1, <2>2, MergedParams
<1>5. Merge(inv, <<r.val>>, profile) = Shown(r.val)
  <2>1. <<r.val>> # <<>> /\ (<<r.val>>)[1] = r.val
    OBVIOUS
  <2>2. /\ Or(inv.purpose, Of(<<r.val>>, "purpose"))[1] = r.val.purpose
        /\ UnwrapOr(Or(inv.index, Of(<<r.val>>, "index")), 0) = r.val.index
        /\ Or(inv.pipeline, r.val.pipeline) = r.val.pipeline
    BY <1>2, <2>1 DEF Of, Or, UnwrapOr
  <2>3. (inv.layered \/ (<<r.val>> # <<>> /\ (<<r.val>>)[1].layered)) = r.val.layered
    BY <1>3, <2>1, Zenon DEF Bare
  <2> QED BY <1>4, <2>1, <2>2, <2>3, Zenon DEF Merge, Shown
<1>6. WgSection(inv, loaded) = r.val.wg
  BY <1>1 DEF WgSection
<1> QED BY <1>1, <1>4, <1>5, <1>6 DEF r, name
-----------------------------------------------------------------------------
(* The inductive invariant *)

\* What serde lets through is all there is on the disk.
FilesInv == \A path \in DOMAIN files : IsFile(files[path])

\* A length is given for raw bytes only.
OnlyRawHasLength(profile) == Inv.verb = "derive" /\ Inv.length # <<>> => profile = "raw"

\* A prepared command derives, with a message read, for a profile of the core, and from a
\* catalogue of some time ago.
KnownInv ==
  Prepared =>
    /\ Inv.verb \notin {"recipe list", "recipe show"}
    /\ cmd.edits \in 0 .. edits
    /\ OnlyRawHasLength(cmd.params.profile)
    /\ "ctx" \in DOMAIN cmd => cmd.ctx.profile \in Profile /\ OnlyRawHasLength(cmd.ctx.profile)
    /\ cmd.message \/ (cmd.pc \in {"read", "ended"} /\ ~ Touched)

\* As long as no catalogue is edited, what was shown is what the catalogue says.
Resolves(config, recipe) == Resolve(Load(config, env, files).val, recipe[1])
ShownInv ==
  /\ edits \in 0 .. MaxEdits
  /\ \A s \in {shown[k] : k \in DOMAIN shown} :
       /\ s.edits \in 0 .. edits /\ s.recipe # <<>>
       /\ s.edits = edits => /\ s.params = Shown(Resolves(s.config, s.recipe).val)
                             /\ s.wg = Resolves(s.config, s.recipe).val.wg

\* A command that runs has no exit code yet, and one that ended has one.
RunInv == IF cmd.pc = "ended" THEN exit.code # -1 ELSE exit = Running

\* A part of the text in the file, from its beginning, but not all of it.
Begun(file) ==
  \/ file = <<>>
  \/ file = <<cmd.text[1]>> /\ cmd.text = <<cmd.text[1], cmd.text[2]>>

\* Nothing is written before there is a text, of one or two chunks, and then to one place.
OutInv ==
  /\ cmd.pc # "ended" => tty = <<>>
  /\ cmd.pc \notin {"ended", "write"} => out = <<Old>>
  /\ cmd.pc \in {"stdout", "open", "write"} =>
       /\ Text.ok /\ cmd.text = Text.val
       /\ cmd.text = <<cmd.text[1]>> \/ cmd.text = <<cmd.text[1], cmd.text[2]>>
       /\ (cmd.pc = "stdout") <=> (Inv.out = <<>>)
  /\ cmd.pc = "write" => Begun(out)

IInv ==
  /\ Shape /\ FilesInv /\ KnownInv /\ ShownInv /\ RunInv /\ OutInv
  /\ ByPrecedence /\ ShownIsUsed /\ OnlyOutputFailsLate /\ ZeroIsComplete
-----------------------------------------------------------------------------
(* It holds at first, and every step preserves it. *)

\* At first nothing has run and nothing was shown.
LEMMA InitIInv == Init => IInv
<1> SUFFICES ASSUME Init PROVE IInv
  OBVIOUS
<1>1. DOMAIN cmd = {"pc"} /\ cmd.pc = "ended"
  BY DEF Init
<1>2. Shape /\ KnownInv
  BY <1>1 DEF Shape, KnownInv, Prepared
<1>3. OutInv /\ RunInv
  <2>1. OutInv
    BY <1>1, Zenon DEF OutInv
  <2>2. exit.code = 0
    BY DEF Init
  <2> QED BY <1>1, <2>1, <2>2 DEF RunInv
<1>4. FilesInv
  BY CommandsAssumption DEF CommandsAssumption, Init, FilesInv
<1>5. ShownInv
  <2>0. MaxEdits \in Nat
    BY CommandsAssumption, Zenon DEF CommandsAssumption
  <2>1. shown = <<>> /\ edits = 0
    BY DEF Init
  <2>2. 0 \in 0 .. MaxEdits
    BY <2>0
  <2> QED BY <2>1, <2>2 DEF ShownInv
<1>6. ByPrecedence /\ ShownIsUsed /\ OnlyOutputFailsLate /\ ZeroIsComplete
  BY <1>1 DEF Init, ByPrecedence, ShownIsUsed, OnlyOutputFailsLate, ZeroIsComplete, Prepared,
    Touched, Derived
<1> QED BY <1>2, <1>3, <1>4, <1>5, <1>6 DEF IInv

\* Files change by being edited.
LEMMA FilesStep == ASSUME FilesInv, Next PROVE FilesInv'
<1>1. CASE UNCHANGED files
  BY <1>1 DEF FilesInv
<1>2. CASE Edit
  BY <1>2, CommandsAssumption DEF CommandsAssumption, Edit, FilesInv
<1> QED
  BY <1>1, <1>2 DEF Next, Invoke, Prepare, Show, List, ReadMessage, BuildContext, ExtractIkm,
    ApplyPassphrase, DeriveKey, Format, Stdout, Open, Write, Interrupt

\* What is loaded from them is a catalogue, the empty one where there is no file.
LEMMA LoadedIsCatalogue ==
  ASSUME FilesInv, NEW config
  PROVE  LET loaded == Load(config, env, files) IN loaded.ok => IsCatalogue(loaded.val)
<1>1. IsCatalogue(Empty)
  BY DEF IsCatalogue, Empty, IsOption, IsLayered
<1>2. \A path : FileAt(files, path).is = "catalogue" => IsCatalogue(FileAt(files, path).catalogue)
  BY DEF FilesInv, IsFile, FileAt
<1>3. \/ Load(config, env, files) = Ok(Empty)
      \/ \E path : /\ FileAt(files, path).is = "catalogue"
                   /\ Load(config, env, files) = Ok(FileAt(files, path).catalogue)
      \/ Load(config, env, files) \in {Err("Parse"), Err("Io")}
  BY DEF Load
<1> QED BY <1>1, <1>2, <1>3 DEF Ok, Err

\* The invocation that runs is one of those there are.
LEMMA InvIsInvocation == ASSUME Shape, "inv" \in DOMAIN cmd PROVE IsInvocation(Inv)
BY CommandsAssumption DEF CommandsAssumption, Shape, Inv

\* What Prepare finds out.
Prepares ==
  /\ cmd.pc = "prepare" /\ Inv.verb \notin {"recipe list", "recipe show"}
  /\ Params(Inv, Loaded).ok /\ VerbRefuses(Params(Inv, Loaded).val) = ""
  /\ Inv' = Inv
  /\ DOMAIN cmd' = Fields("read") /\ cmd'.pc = AfterPrepare
  /\ cmd'.params = Params(Inv, Loaded).val /\ cmd'.wg = WgSection(Inv, Loaded)
  /\ cmd'.catalogue = Loaded /\ cmd'.edits = edits /\ cmd'.message = (Inv.verb # "sign")
  /\ UNCHANGED <<files, env, edits, shown>>

\* Nothing that follows changes it.
Kept ==
  /\ Prepared
  /\ \A f \in {"inv", "params", "wg", "catalogue", "edits"} : cmd'[f] = cmd[f]

\* A command that has parameters had them already, or is being prepared.
LEMMA PreparedStep == ASSUME Shape, Next, Prepared' PROVE Kept \/ Prepares
<1>1. CASE cmd.pc = "ended"
  <2>1. ~ Invoke
    BY DEF Invoke, Prepared
  <2>2. cmd' = cmd
    BY <1>1, <2>1, ShapeStep
  <2> QED BY <2>2 DEF Prepared, Kept
<1>2. CASE cmd.pc \notin {"ended", "prepare"}
  <2>1. Continued
    BY <1>2, ShapeStep
  <2>2. {"inv", "params", "wg", "catalogue", "edits"} \subseteq DOMAIN cmd
    BY <1>2 DEF Shape, Fields
  <2> QED BY <2>1, <2>2 DEF Continued, Kept, Prepared
<1>3. CASE cmd.pc = "prepare"
  <2>1. cmd.pc # "ended" /\ "params" \notin DOMAIN cmd
    BY <1>3 DEF Shape, Fields
  <2>2. ~ Ends /\ ~ UNCHANGED cmd
    BY <2>1, EndsShape DEF Prepared
  <2>3. Prepare
    BY <1>3, <2>2 DEF Next, Invoke, Show, List, ReadMessage, BuildContext, ExtractIkm,
      ApplyPassphrase, DeriveKey, Format, Stdout, Open, Write, Interrupt, Edit, Fail, Succeed,
      Ends
  <2>4. /\ Params(Inv, Loaded).ok /\ VerbRefuses(Params(Inv, Loaded).val) = ""
        /\ cmd' = [pc |-> AfterPrepare, inv |-> Inv, params |-> Params(Inv, Loaded).val,
                   wg |-> WgSection(Inv, Loaded), catalogue |-> Loaded, edits |-> edits,
                   message |-> Inv.verb # "sign"]
    BY <2>2, <2>3 DEF Prepare, Params, Fail, Ends
  <2> QED BY <2>3, <2>4 DEF Prepare, Prepares, Fields, Inv
<1> QED BY <1>1, <1>2, <1>3

\* Parameters are computed once, from the catalogue that is remembered.
LEMMA ByPrecedenceStep ==
  ASSUME Shape, FilesInv, ByPrecedence, Next
  PROVE  ByPrecedence'
<1> SUFFICES ASSUME Prepared'
             PROVE  cmd'.params = Documented(cmd'.inv, IF cmd'.inv.recipe = <<>> THEN Empty
                                                       ELSE cmd'.catalogue.val)
  BY DEF ByPrecedence, Inv
<1>1. CASE Kept
  BY <1>1 DEF Kept, ByPrecedence, Inv
<1>2. CASE Prepares
  <2>1. IsInvocation(Inv)
    BY <1>2, InvIsInvocation DEF Prepares, Shape, Fields
  <2>2. Loaded.ok => IsCatalogue(Loaded.val)
    BY LoadedIsCatalogue DEF Loaded
  <2>3. Params(Inv, Loaded).val = Documented(Inv, IF Inv.recipe = <<>> THEN Empty ELSE Loaded.val)
    <3>1. Params(Inv, Loaded).ok
      BY <1>2 DEF Prepares
    <3> QED BY <2>1, <2>2, <3>1, DocumentedParams
  <2>4. cmd'.inv = Inv /\ cmd'.catalogue = Loaded /\ cmd'.params = Params(Inv, Loaded).val
    BY <1>2 DEF Prepares, Inv
  <2> QED BY <2>3, <2>4
<1> QED BY <1>1, <1>2, PreparedStep

\* What is shown is of the catalogue as it is; an edit makes it a thing of the past.
LEMMA ShownStep == ASSUME Shape, ShownInv, Next PROVE ShownInv'
<1>1. CASE UNCHANGED <<shown, edits, files, env>>
  BY <1>1 DEF ShownInv, Resolves
<1>2. CASE Edit
  <2>1. edits \in Nat /\ edits' = edits + 1 /\ edits < MaxEdits /\ UNCHANGED shown
    BY <1>2 DEF Edit, ShownInv
  <2>2. edits' \in 0 .. MaxEdits
    BY <2>1, CommandsAssumption DEF CommandsAssumption
  <2>3. \A s \in {shown[k] : k \in DOMAIN shown} : s.edits \in 0 .. edits' /\ s.edits # edits'
    BY <2>1 DEF ShownInv
  <2> QED BY <2>1, <2>2, <2>3 DEF ShownInv
<1>3. CASE Show
  <2>1. UNCHANGED <<files, env, edits>>
    BY <1>3 DEF Show
  <2>2. CASE UNCHANGED shown
    BY <2>1, <2>2, <1>1
  <2>3. CASE ~ UNCHANGED shown
    <3>1. PICK config, recipe : config = Inv.config /\ recipe = Inv.recipe
      OBVIOUS
    <3> DEFINE r == Resolves(config, recipe)
               s == [config |-> config, recipe |-> recipe, params |-> Shown(r.val),
                     wg |-> r.val.wg, edits |-> edits]
    <3>2. shown' = <<s>>
      BY <1>3, <2>3, <3>1 DEF Show, Then, Resolves, Loaded
    <3>3. r = Resolves(config, recipe)'
      BY <2>1 DEF Resolves
    <3>4. \A t \in {shown'[k] : k \in DOMAIN shown'} : t = s
      BY <3>2
    <3>5. recipe # <<>>
      BY <1>3, <3>1, InvIsInvocation DEF Show, Shape, Fields, IsInvocation
    <3> QED BY <2>1, <3>3, <3>4, <3>5 DEF ShownInv
  <2> QED BY <2>2, <2>3
<1> QED
  BY <1>1, <1>2, <1>3 DEF Next, Invoke, Prepare, List, ReadMessage, BuildContext, ExtractIkm,
    ApplyPassphrase, DeriveKey, Format, Stdout, Open, Write, Interrupt

\* A command is compared with what was shown when it is prepared, and only if no edit came
\* between the two.
LEMMA ShownIsUsedStep ==
  ASSUME Shape, FilesInv, ShownInv, ShownIsUsed, Next
  PROVE  ShownIsUsed'
<1>1. CASE ~ Prepared'
  BY <1>1 DEF ShownIsUsed
<1>2. CASE Prepared' /\ Kept
  <2>1. UNCHANGED shown
    <3>1. cmd.pc # "prepare"
      BY <1>2 DEF Kept, Prepared, Shape, Fields
    <3> QED
      BY <3>1 DEF Next, Invoke, Prepare, Show, List, ReadMessage, BuildContext, ExtractIkm,
        ApplyPassphrase, DeriveKey, Format, Stdout, Open, Write, Interrupt, Edit
  <2>2. /\ Prepared /\ Inv' = Inv /\ cmd'.params = cmd.params /\ cmd'.wg = cmd.wg
        /\ cmd'.edits = cmd.edits
    BY <1>2 DEF Kept, Inv
  <2> QED BY <2>1, <2>2 DEF ShownIsUsed
<1>3. CASE Prepared' /\ Prepares
  <2>1. /\ UNCHANGED <<shown, edits, files, env>> /\ Inv' = Inv /\ Params(Inv, Loaded).ok
        /\ cmd'.edits = edits /\ cmd'.params = Params(Inv, Loaded).val
        /\ cmd'.wg = WgSection(Inv, Loaded)
    BY <1>3 DEF Prepares
  <2>2. IsInvocation(Inv)
    BY <1>3, InvIsInvocation DEF Prepares, Shape, Fields
  <2> SUFFICES ASSUME NEW s \in {shown[k] : k \in DOMAIN shown},
                      Inv.recipe = s.recipe, Inv.config = s.config, edits = s.edits,
                      Inv.profile \o Inv.purpose \o Inv.pipeline \o Inv.index = <<>>,
                      ~ Inv.layered
               PROVE  cmd'.params = s.params /\ cmd'.wg = s.wg
    BY <2>1, Zenon DEF ShownIsUsed
  <2>3. Bare(Inv)
    BY DEF Bare, ShownInv
  <2>4. /\ s.params = Shown(Resolve(Loaded.val, Inv.recipe[1]).val)
        /\ s.wg = Resolve(Loaded.val, Inv.recipe[1]).val.wg
    BY DEF ShownInv, Resolves, Loaded
  <2>5. Loaded.ok => IsCatalogue(Loaded.val)
    BY LoadedIsCatalogue DEF Loaded
  <2>6. /\ Params(Inv, Loaded).val = Shown(Resolve(Loaded.val, Inv.recipe[1]).val)
        /\ WgSection(Inv, Loaded) = Resolve(Loaded.val, Inv.recipe[1]).val.wg
    <3> HIDE DEF Inv, Loaded
    <3> QED BY <2>1, <2>2, <2>3, <2>5, ShownParams
  <2> QED BY <2>1, <2>4, <2>6
<1> QED BY <1>1, <1>2, <1>3, PreparedStep

\* The exit code comes with the end.
LEMMA RunStep == ASSUME Shape, RunInv, Next PROVE RunInv'
<1>1. "pc" \in DOMAIN cmd
  BY DEF Shape, Fields
<1>2. ASSUME NEW err, Fail(err) PROVE RunInv'
  BY <1>1, <1>2 DEF Fail, RunInv
<1>3. ASSUME Succeed PROVE RunInv'
  <2>1. cmd'.pc = "ended" /\ exit'.code = 0
    BY <1>1, <1>3 DEF Succeed
  <2> QED BY <2>1 DEF RunInv
<1>4. ASSUME cmd'.pc # "ended", exit' = Running PROVE RunInv'
  BY <1>4 DEF RunInv
<1>5. ASSUME cmd'.pc = cmd.pc, exit' = exit PROVE RunInv'
  BY <1>5 DEF RunInv
<1>6. ASSUME cmd.pc # "ended", exit' = exit PROVE exit' = Running
  BY <1>6 DEF RunInv
<1>7. CASE Invoke
  BY <1>7, <1>4 DEF Invoke
<1>8. CASE Prepare
  <2>1. CASE \E err : Fail(err)
    BY <2>1, <1>2
  <2>2. CASE ~ \E err : Fail(err)
    <3>0. PICK p, w, c, e, m :
               /\ cmd' = [pc |-> AfterPrepare, inv |-> Inv, params |-> p, wg |-> w,
                          catalogue |-> c, edits |-> e, message |-> m]
               /\ exit' = exit
      BY <1>8, <2>2 DEF Prepare
    <3>1. cmd'.pc = AfterPrepare /\ exit' = exit /\ cmd.pc = "prepare"
      BY <1>8, <3>0 DEF Prepare
    <3> QED BY <3>1, <1>4, <1>6 DEF AfterPrepare
  <2> QED BY <2>1, <2>2
<1>9. CASE Show \/ List
  BY <1>9, <1>2, <1>3 DEF Show, List
<1>10. CASE ReadMessage \/ ApplyPassphrase \/ Open
  BY <1>1, <1>10, <1>2, <1>4, <1>6 DEF ReadMessage, ApplyPassphrase, Open
<1>11. CASE BuildContext \/ ExtractIkm \/ DeriveKey \/ Format
  <2>1. ASSUME NEW place, NEW added, NEW v, added # "pc", cmd.pc # "ended", place # "ended",
               cmd' = With([cmd EXCEPT !.pc = place], added, v), exit' = exit
        PROVE  RunInv'
    BY <1>1, <2>1, <1>4, <1>6 DEF With
  <2> QED BY <1>11, <1>2, <2>1 DEF BuildContext, ExtractIkm, DeriveKey, Format
<1>12. CASE Stdout \/ Write
  BY <1>12, <1>2, <1>3, <1>5 DEF Stdout, Write, WriteTo
<1>13. CASE Interrupt
  BY <1>1, <1>13 DEF Interrupt, RunInv
<1>14. CASE Edit
  BY <1>14, <1>5 DEF Edit
<1> QED
  BY <1>7, <1>8, <1>9, <1>10, <1>11, <1>12, <1>13, <1>14 DEF Next

\* A context that is built is of a profile of the core.
LEMMA BuiltContext ==
  ASSUME NEW profile, NEW pipeline, NEW purpose, NEW index,
         WithPipeline(profile, pipeline, purpose, index).ok
  PROVE  LET ctx == WithPipeline(profile, pipeline, purpose, index).val IN
         ctx.profile \in Profile /\ ctx.profile = profile
BY DEF WithPipeline, Accepts, Context, Ok, Err, Profile

\* Edits are counted.
LEMMA EditsGrow ==
  ASSUME ShownInv, Next
  PROVE  edits \in Nat /\ edits' \in Nat /\ edits <= edits'
<1>1. MaxEdits \in Nat
  BY CommandsAssumption, Zenon DEF CommandsAssumption
<1>2. edits \in Nat
  BY <1>1 DEF ShownInv
<1>3. UNCHANGED edits \/ edits' = edits + 1
  BY DEF Next, Invoke, Prepare, Show, List, ReadMessage, BuildContext, ExtractIkm,
    ApplyPassphrase, DeriveKey, Format, Stdout, Open, Write, Interrupt, Edit
<1> QED BY <1>2, <1>3

\* The verb, the profile and the message stay as they were found; edits only grow.
LEMMA KnownStep == ASSUME Shape, ShownInv, KnownInv, Next PROVE KnownInv'
<1> SUFFICES ASSUME Prepared' PROVE KnownInv'
  BY DEF KnownInv
<1>1. CASE Prepares
  <2>1. /\ Inv' = Inv /\ Inv.verb \notin {"recipe list", "recipe show"} /\ cmd'.edits = edits
        /\ "ctx" \notin DOMAIN cmd' /\ ~ Touched' /\ UNCHANGED edits /\ edits \in 0 .. MaxEdits
    BY <1>1 DEF Prepares, Fields, Touched, ShownInv
  <2>2. cmd'.message \/ cmd'.pc = "read"
    BY <1>1 DEF Prepares, AfterPrepare
  <2>3. cmd'.edits \in 0 .. edits'
    <3>1. cmd'.edits = edits /\ edits' = edits
      BY <2>1
    <3> QED BY <3>1, EditsGrow
  <2>4. OnlyRawHasLength(cmd.params.profile)'
    BY <1>1 DEF Prepares, VerbRefuses, OnlyRawHasLength
  <2> QED BY <2>1, <2>2, <2>3, <2>4 DEF KnownInv
<1>2. CASE Kept
  <2>1. Prepared /\ Inv' = Inv /\ cmd'.edits = cmd.edits /\ cmd'.params = cmd.params
    BY <1>2 DEF Kept, Inv
  <2>0. \A profile : OnlyRawHasLength(profile)' <=> OnlyRawHasLength(profile)
    BY <2>1 DEF OnlyRawHasLength
  <2>2. cmd.edits \in 0 .. edits
    BY <2>1 DEF KnownInv
  <2>3. cmd'.edits \in 0 .. edits'
    BY <2>1, <2>2, EditsGrow
  <2>4. CASE cmd' = cmd
    BY <2>0, <2>1, <2>3, <2>4 DEF KnownInv, Touched
  <2>5. CASE cmd' # cmd
    <3>1. Continued /\ cmd.pc # "ended"
      BY <2>1, <2>5, ShapeStep DEF Invoke, Prepared
    <3>2. DOMAIN cmd = Fields(cmd.pc) /\ cmd.pc \in Places /\ cmd.pc # "prepare"
      BY <2>1, <3>1 DEF Prepared, Shape, Fields
    <3>3. "ctx" \in DOMAIN cmd' => /\ cmd'.ctx.profile \in Profile
                                   /\ OnlyRawHasLength(cmd'.ctx.profile)
      <4>1. CASE "ctx" \in DOMAIN cmd
        BY <2>1, <3>1, <4>1 DEF Continued, KnownInv
      <4>2. CASE BuildContext
        <5>1. CASE \E err : Fail(err)
          BY <4>2, <5>1, <3>1, EndsShape DEF Fail, Ends, BuildContext, Fields, Shape
        <5>2. CASE ~ \E err : Fail(err)
          <6> DEFINE p == cmd.params
                     ctx == WithPipeline(p.profile, p.pipeline, p.purpose, p.index)
          <6>1. ctx.ok /\ cmd' = With([cmd EXCEPT !.pc = "ikm"], "ctx", ctx.val)
            BY <4>2, <5>2 DEF BuildContext
          <6>2. cmd'.ctx = ctx.val
            BY <6>1 DEF With
          <6>3. ctx.val.profile \in Profile /\ ctx.val.profile = p.profile
            BY <6>1, BuiltContext
          <6> QED BY <2>1, <6>2, <6>3 DEF KnownInv
        <5> QED BY <5>1, <5>2
      <4>3. CASE "ctx" \notin DOMAIN cmd /\ ~ BuildContext
        <5>1. cmd.pc \in {"read", "context"}
          BY <3>2, <4>3 DEF Places, Fields
        <5>2. cmd' = [cmd EXCEPT !.pc = "context", !.message = TRUE] \/ Ends \/ UNCHANGED cmd
          BY <5>1, <4>3
            DEF Next, Invoke, Prepare, Show, List, ReadMessage, ExtractIkm, ApplyPassphrase,
              DeriveKey, Format, Stdout, Open, Write, Interrupt, Edit, Fail, Ends
        <5>3. DOMAIN cmd' = DOMAIN cmd
          BY <5>2 DEF Ends
        <5> QED BY <4>3, <5>3
      <4> QED BY <4>1, <4>2, <4>3
    <3>4. cmd'.message \/ (cmd'.pc \in {"read", "ended"} /\ ~ Touched')
      <4>1. CASE cmd.pc # "read"
        <5>1. cmd.message /\ "message" \in DOMAIN cmd
          BY <2>1, <3>1, <3>2, <4>1 DEF KnownInv, Fields
        <5> QED BY <3>1, <4>1, <5>1 DEF Continued
      <4>2. CASE cmd.pc = "read"
        <5>1. DOMAIN cmd = Fields("read")
          BY <3>2, <4>2
        <5>2. ReadMessage \/ Interrupt
          BY <2>5, <4>2
            DEF Next, Invoke, Prepare, Show, List, BuildContext, ExtractIkm, ApplyPassphrase,
              DeriveKey, Format, Stdout, Open, Write, Edit
        <5>3. CASE cmd' = [cmd EXCEPT !.pc = "context", !.message = TRUE]
          BY <5>1, <5>3 DEF Fields
        <5>4. CASE Ends
          BY <5>1, <5>4 DEF Ends, Touched, Fields
        <5> QED BY <5>2, <5>3, <5>4 DEF ReadMessage, Interrupt, Fail, Ends
      <4> QED BY <4>1, <4>2
    <3> QED BY <2>0, <2>1, <2>3, <3>3, <3>4 DEF KnownInv
  <2> QED BY <2>4, <2>5
<1> QED BY <1>1, <1>2, PreparedStep

\* The bytes that are asked for are as many as come.
LEMMA ExpandedLength ==
  ASSUME NEW master, NEW ctx, NEW len
  PROVE  LET r == Expand(master, ctx, len) IN
         /\ r.ok => r.val.len = len
         /\ ~ r.ok => r.err = "ExpandOutputTooLong"
         /\ len \in {32, 64} => r.ok
BY DEF Expand, ExpandHkdf, ExpandSponge, MaxHkdf, Ok, Err

\* No post-processing fails on the length that the profile expands to.
LEMMA PostProcessed ==
  ASSUME NEW profile \in Profile, NEW e, e.len = ExpandLen(profile)
  PROVE  PostProcess(profile, e).ok
<1>1. CASE profile \in {"x25519", "ed25519", "age-x25519", "symmetric", "raw"}
  BY <1>1 DEF PostProcess, X25519Key, Ed25519Seed, AgeIdentity, SymmetricKey, RawBytes, Then,
    TakeFixed, Ok, ExpandLen, MLKEM, MLDSA
<1>2. CASE profile \in MLKEM
  BY <1>2 DEF PostProcess, MlKemKeypair, MLDSA, MLKEM, Then, TakeFixed, Ok, ExpandLen
<1>3. CASE profile \in MLDSA
  BY <1>3 DEF PostProcess, MlDsaKeypair, MLDSA, MLKEM, Then, TakeFixed, Ok, ExpandLen
<1> QED BY <1>1, <1>2, <1>3 DEF Profile, Classical

\* A key of the profile's own length is always derived.
LEMMA FixedDerives ==
  ASSUME NEW master, NEW ctx, ctx.profile \in Profile
  PROVE  Derive(master, ctx).ok
<1>1. PICK r : r = Expand(master, ctx, ExpandLen(ctx.profile))
  OBVIOUS
<1>2. r.ok /\ r.val.len = ExpandLen(ctx.profile)
  BY <1>1, ExpandedLength DEF ExpandLen
<1>3. PostProcess(ctx.profile, r.val).ok
  BY <1>2, PostProcessed
<1> QED BY <1>1, <1>2, <1>3 DEF Derive, Then

\* Raw bytes may be none, or more than there are.
LEMMA RawDerives ==
  ASSUME NEW master, NEW ctx, ctx.profile = "raw", NEW len
  PROVE  LET r == DeriveRaw(master, ctx, len) IN r.ok \/ r.err \in FormErrors
<1>1. PICK r : r = Expand(master, ctx, len)
  OBVIOUS
<1>2. r.ok \/ r.err = "ExpandOutputTooLong"
  BY <1>1, ExpandedLength
<1>3. "raw" \notin MLKEM /\ "raw" \notin MLDSA
  BY DEF MLKEM, MLDSA
<1>4. \A e : PostProcess("raw", e).ok
  BY <1>3 DEF PostProcess, RawBytes, Ok
<1> QED BY <1>1, <1>2, <1>4 DEF DeriveRaw, Then, Err, FormErrors

\* A tuple is the tuple of its elements.
LEMMA Chunks ==
  ASSUME NEW v
  PROVE  /\ \A a : v = <<a>> => v = <<v[1]>>
         /\ \A a, b : v = <<a, b>> => v = <<v[1], v[2]>>
<1>1. ASSUME NEW a, v = <<a>> PROVE v = <<v[1]>>
  <2>1. (<<a>>)[1] = a
    OBVIOUS
  <2> QED BY <1>1, <2>1, Zenon
<1>2. ASSUME NEW a, NEW b, v = <<a, b>> PROVE v = <<v[1], v[2]>>
  <2>1. (<<a, b>>)[1] = a /\ (<<a, b>>)[2] = b
    OBVIOUS
  <2> QED BY <1>2, <2>1, Zenon
<1> QED BY <1>1, <1>2

\* A text is of one chunk, or of two, which `wg config' has; what may be wrong with it is a
\* matter of its form.
LEMMA TextIsShort ==
  ASSUME Inv.verb \in Verb \ {"recipe list", "recipe show"}
  PROVE  IF Text.ok THEN \/ Text.val = <<Text.val[1]>>
                         \/ Text.val = <<Text.val[1], Text.val[2]>>
         ELSE Text.err \in FormErrors
<1> DEFINE public == PublicText(cmd.output, cmd.params.profile)
           formatted == FormatOutput(cmd.output, cmd.params.profile, Inv.format)
<1>1. public.ok \/ public.err \in FormErrors
  BY DEF PublicText, Ok, Err, FormErrors
<1>2. formatted.ok \/ formatted.err \in FormErrors
  BY DEF FormatOutput, Ok, Err, FormErrors
<1>3. \/ \E a : Text = Ok(<<a>>)
      \/ \E a, b : Text = Ok(<<a, b>>)
      \/ ~ Text.ok /\ Text.err \in FormErrors
  <2>1. CASE Inv.verb = "derive"
    <3>1. Text = Then(formatted, LAMBDA t :
              Ok(<< <<IF Inv.format = <<"binary">> THEN "bytes" ELSE "secret", t>> >>))
      BY <2>1 DEF Text, TextOf
    <3> HIDE DEF formatted
    <3> QED BY <3>1, <1>2 DEF Then
  <2>2. CASE Inv.verb = "sign"
    BY <2>2 DEF Text, TextOf
  <2>3. CASE Inv.verb = "wg key"
    BY <2>3 DEF Text, TextOf
  <2>4. CASE Inv.verb \in {"pubkey", "wg pubkey"}
    <3>1. Text = Then(public, LAMBDA p : Ok(<< <<"public", p>> >>))
      BY <2>4 DEF Text, TextOf
    <3> HIDE DEF public
    <3> QED BY <3>1, <1>1 DEF Then
  <2>5. CASE Inv.verb = "wg peer"
    <3> DEFINE allowed == Or(Inv.allowed_ips, UnwrapOr(cmd.wg, NoSection).address)
    <3>1. Text = Then(public, LAMBDA p :
              IF allowed = <<>> THEN Err("WgMissingAllowedIps")
              ELSE Ok(<< <<"peer", SelfPeerBlock(p, allowed, Inv.endpoint)>> >>))
      BY <2>5 DEF Text, TextOf
    <3> HIDE DEF public, allowed
    <3> QED BY <3>1, <1>1 DEF Then, Err, FormErrors
  <2>6. CASE Inv.verb = "wg config"
    BY <2>6 DEF Text, TextOf, Err, FormErrors
  <2> QED BY <2>1, <2>2, <2>3, <2>4, <2>5, <2>6 DEF Verb, Wg
<1>4. \A v : Ok(v).ok /\ Ok(v).val = v
  BY DEF Ok
<1>5. CASE \E a : Text = Ok(<<a>>)
  <2>1. PICK a : Text = Ok(<<a>>)
    BY <1>5
  <2>2. Text.ok /\ Text.val = <<a>>
    BY <2>1, <1>4
  <2> QED BY <2>2, Chunks
<1>6. CASE \E a, b : Text = Ok(<<a, b>>)
  <2>1. PICK a, b : Text = Ok(<<a, b>>)
    BY <1>6
  <2>2. Text.ok /\ Text.val = <<a, b>>
    BY <2>1, <1>4
  <2> QED BY <2>2, Chunks
<1> QED BY <1>3, <1>5, <1>6

\* What a command may end with once the user has touched the YubiKey.
Late == {"", "SIGINT"} \cup LateErrors

\* No step after the touch brings back an error of the parameters.
LEMMA FailsLateStep ==
  ASSUME Shape, Shape', KnownInv, KnownInv', RunInv, OnlyOutputFailsLate, Next
  PROVE  OnlyOutputFailsLate'
<1> SUFFICES ASSUME Touched' PROVE OnlyOutputFailsLate'
  BY DEF OnlyOutputFailsLate
<1>1. Prepared' /\ cmd'.message
  <2>1. PICK place : DOMAIN cmd' = Fields(place)
    BY DEF Shape, Touched
  <2>2. Prepared'
    BY <2>1 DEF Fields, Touched, Prepared
  <2> QED BY <2>2 DEF KnownInv
<1>2. ASSUME exit'.err \in Late PROVE OnlyOutputFailsLate'
  BY <1>1, <1>2 DEF OnlyOutputFailsLate, Late
<1>3. ASSUME cmd.pc # "ended", exit' = exit PROVE exit'.err \in Late
  <2>1. exit' = Running /\ Running.err = ""
    BY <1>3 DEF RunInv, Running
  <2> QED BY <2>1 DEF Late
<1>4. ASSUME NEW err, Fail(err) PROVE exit'.err = err
  BY <1>4 DEF Fail
<1>5. ASSUME Succeed PROVE exit'.err \in Late
  BY <1>5 DEF Succeed, Late
<1>6. CASE cmd.pc \in {"ended", "prepare"} /\ ~ Edit /\ ~ Interrupt
  <2>1. CASE Invoke
    BY <2>1 DEF Invoke, Touched
  <2>2. CASE cmd.pc = "prepare"
    <3>1. ~ Kept
      BY <2>2 DEF Kept, Prepared, Shape, Fields
    <3>2. "master" \notin Fields("read")
      BY DEF Fields
    <3> QED BY <1>1, <3>1, <3>2, PreparedStep DEF Prepares, Touched
  <2> QED
    BY <1>6, <2>1, <2>2 DEF Next, Prepare, Show, List, ReadMessage, BuildContext, ExtractIkm,
      ApplyPassphrase, DeriveKey, Format, Stdout, Open, Write
<1>7. CASE ReadMessage \/ BuildContext
  <2>1. "master" \notin DOMAIN cmd
    BY <1>7 DEF ReadMessage, BuildContext, Shape, Fields
  <2>2. \/ DOMAIN cmd' = DOMAIN cmd
        \/ DOMAIN cmd' = DOMAIN cmd \cup {"ctx"}
    BY <1>7 DEF ReadMessage, BuildContext, Fail, With
  <2> QED BY <2>1, <2>2 DEF Touched
<1>8. CASE ExtractIkm
  <2>1. ASSUME NEW err, Fail(err) PROVE FALSE
    BY <1>8, <2>1 DEF ExtractIkm, Fail, Touched, Shape, Fields
  <2> QED BY <1>8, <2>1, <1>2, <1>3 DEF ExtractIkm
<1>9. CASE ApplyPassphrase
  BY <1>9, <1>2, <1>3, <1>4 DEF ApplyPassphrase, Late, LateErrors
<1>10. CASE DeriveKey
  <2>1. cmd.ctx.profile \in Profile /\ OnlyRawHasLength(cmd.ctx.profile)
    BY <1>10 DEF DeriveKey, KnownInv, Prepared, Shape, Fields
  <2>2. PICK r : /\ r = IF Inv.verb = "derive" /\ Inv.length # <<>>
                        THEN DeriveRaw(cmd.master, cmd.ctx, Inv.length[1])
                        ELSE Derive(cmd.master, cmd.ctx)
                 /\ IF ~ r.ok THEN Fail(r.err) ELSE UNCHANGED exit
    BY <1>10 DEF DeriveKey
  <2>3. r.ok \/ r.err \in FormErrors
    BY <2>1, <2>2, FixedDerives, RawDerives DEF OnlyRawHasLength
  <2>4. cmd.pc # "ended"
    BY <1>10 DEF DeriveKey
  <2> QED BY <2>2, <2>3, <2>4, <1>2, <1>3, <1>4 DEF Late, LateErrors
<1>11. CASE Format
  <2>1. "inv" \in DOMAIN cmd /\ Prepared
    BY <1>11 DEF Format, Shape, Fields, Prepared
  <2>2. Inv.verb \in Verb \ {"recipe list", "recipe show"}
    BY <2>1, InvIsInvocation DEF KnownInv, IsInvocation
  <2>3. Text.ok \/ Text.err \in Late
    BY <2>2, TextIsShort DEF Late, LateErrors
  <2> QED BY <1>11, <2>3, <1>2, <1>3, <1>4 DEF Format
<1>12. CASE Stdout \/ Write \/ Open
  BY <1>12, <1>2, <1>3, <1>4, <1>5 DEF Stdout, Write, Open, WriteTo, Late, LateErrors
<1>13. CASE Interrupt
  BY <1>13, <1>2 DEF Interrupt, Late
<1>14. CASE Edit
  BY <1>14 DEF Edit, OnlyOutputFailsLate, Touched
<1> QED
  BY <1>6, <1>7, <1>8, <1>9, <1>10, <1>11, <1>12, <1>13, <1>14 DEF Next, Invoke, Prepare, Show,
    List

\* The text is a matter of what the command knows.
LEMMA TextKept ==
  ASSUME Inv' = Inv, cmd'.wg = cmd.wg, cmd'.params = cmd.params, cmd'.output = cmd.output
  PROVE  Text' = Text
BY DEF Text

\* Two sequences of two are equal when their elements are.
LEMMA SameTwo ==
  ASSUME NEW S, NEW s \in Seq(S), NEW t \in Seq(S), Len(s) = 2, Len(t) = 2,
         s[1] = t[1], s[2] = t[2]
  PROVE  s = t
<1>1. \A i \in 1 .. Len(s) : s[i] = t[i]
  OBVIOUS
<1> QED BY <1>1, SeqEqual

\* A second chunk after the first makes two.
LEMMA AppendSecond ==
  ASSUME NEW S, NEW a \in S, NEW b \in S
  PROVE  Append(<<a>>, b) = <<a, b>>
<1>1. /\ <<a, b>> \in Seq(S) /\ Len(<<a, b>>) = 2
      /\ <<a, b>>[1] = a /\ <<a, b>>[2] = b
  OBVIOUS
<1>2. <<a>> \in Seq(S) /\ Len(<<a>>) = 1 /\ <<a>>[1] = a
  OBVIOUS
<1>3. /\ Append(<<a>>, b) \in Seq(S) /\ Len(Append(<<a>>, b)) = 2
      /\ Append(<<a>>, b)[1] = a /\ Append(<<a>>, b)[2] = b
  BY <1>2, AppendProperties
<1> QED BY <1>1, <1>3, SameTwo

\* One more chunk is the whole text, or all of it but one.
LEMMA ChunkStep ==
  ASSUME NEW text, text = <<text[1]>> \/ text = <<text[1], text[2]>>,
         NEW file, file = <<>> \/ (file = <<text[1]>> /\ text = <<text[1], text[2]>>),
         NEW next, next = Append(file, text[Len(file) + 1])
  PROVE  IF Len(next) = Len(text) THEN next = text
         ELSE next = <<text[1]>> /\ text = <<text[1], text[2]>>
<1>1. PICK a, b : /\ a = text[1] /\ b = text[2]
                  /\ text = <<a>> \/ text = <<a, b>>
                  /\ file = <<>> \/ (file = <<a>> /\ text = <<a, b>>)
  OBVIOUS
<1>2. CASE file = <<>>
  <2>1. next = <<a>>
    BY <1>1, <1>2
  <2> QED BY <1>1, <2>1
<1>3. CASE file = <<a>> /\ text = <<a, b>>
  <2>1. Len(<<a>>) = 1
    OBVIOUS
  <2>2. text[Len(file) + 1] = b
    BY <1>1, <1>3, <2>1
  <2>3. a \in {a, b} /\ b \in {a, b}
    OBVIOUS
  <2>4. Append(<<a>>, b) = <<a, b>>
    BY <2>3, AppendSecond
  <2>5. next = text
    BY <1>3, <2>2, <2>4
  <2> QED BY <2>5
<1> QED BY <1>1, <1>2, <1>3

\* What the command has written so far is where it belongs.
LEMMA OutStep == ASSUME Shape, KnownInv, OutInv, Next PROVE OutInv'
<1>0. "pc" \in DOMAIN cmd
  BY DEF Shape, Fields
<1>1. ASSUME cmd'.pc = "ended" PROVE OutInv'
  BY <1>1, Zenon DEF OutInv
<1>2. ASSUME cmd.pc \notin {"ended", "stdout", "write"}, cmd'.pc \notin {"stdout", "open", "write"},
             UNCHANGED <<tty, out>>
      PROVE  OutInv'
  BY <1>2 DEF OutInv
<1>3. ASSUME NEW err, Fail(err) PROVE OutInv'
  BY <1>0, <1>1, <1>3 DEF Fail
<1>4. ASSUME Succeed PROVE OutInv'
  BY <1>0, <1>1, <1>4 DEF Succeed
<1>5. CASE Invoke
  BY <1>5 DEF Invoke, OutInv
<1>6. CASE Prepare
  <2>1. CASE \E err : Fail(err)
    BY <2>1, <1>3
  <2>2. CASE ~ \E err : Fail(err)
    <3>1. PICK p, w, c, e, m :
               cmd' = [pc |-> AfterPrepare, inv |-> Inv, params |-> p, wg |-> w,
                       catalogue |-> c, edits |-> e, message |-> m]
      BY <1>6, <2>2 DEF Prepare
    <3>2. cmd'.pc \in {"read", "context"} /\ cmd.pc = "prepare" /\ UNCHANGED <<tty, out>>
      BY <1>6, <3>1 DEF Prepare, AfterPrepare
    <3> QED BY <3>2, <1>2
  <2> QED BY <2>1, <2>2
<1>7. CASE Show \/ List
  BY <1>7, <1>3, <1>4 DEF Show, List
<1>8. CASE ReadMessage \/ ApplyPassphrase
  BY <1>0, <1>8, <1>2, <1>3 DEF ReadMessage, ApplyPassphrase
<1>9. CASE BuildContext \/ ExtractIkm \/ DeriveKey
  <2>1. ASSUME NEW place \in {"ikm", "passphrase", "derive", "format"}, NEW added, NEW v, added # "pc",
               cmd' = With([cmd EXCEPT !.pc = place], added, v)
        PROVE  cmd'.pc \notin {"stdout", "open", "write"}
    BY <1>0, <2>1 DEF With
  <2>2. cmd.pc \in {"context", "ikm", "derive"} /\ UNCHANGED <<tty, out>>
    BY <1>9 DEF BuildContext, ExtractIkm, DeriveKey
  <2>3. (\E err : Fail(err)) \/ cmd'.pc \notin {"stdout", "open", "write"}
    BY <1>9, <2>1 DEF BuildContext, ExtractIkm, DeriveKey
  <2> QED BY <2>2, <2>3, <1>2, <1>3
<1>10. CASE Format
  <2>1. /\ cmd.pc = "format" /\ DOMAIN cmd = Fields("format") /\ UNCHANGED <<tty, out>>
        /\ tty = <<>> /\ out = <<Old>>
    BY <1>10 DEF Format, Shape, OutInv
  <2>2. Inv.verb \in Verb \ {"recipe list", "recipe show"}
    BY <2>1, InvIsInvocation DEF KnownInv, IsInvocation, Fields, Prepared
  <2>3. CASE ~ Text.ok
    BY <1>10, <2>3, <1>3 DEF Format
  <2>4. CASE Text.ok
    <3>1. PICK place, v : /\ place = IF Inv.out = <<>> THEN "stdout" ELSE "open"
                          /\ v = Text.val /\ cmd' = With([cmd EXCEPT !.pc = place], "text", v)
      BY <1>10, <2>4 DEF Format
    <3>2. /\ cmd'.pc = place /\ cmd'.text = v /\ Inv' = Inv /\ cmd'.wg = cmd.wg
          /\ cmd'.params = cmd.params /\ cmd'.output = cmd.output
      BY <2>1, <3>1 DEF With, Fields, Inv
    <3>3. Text' = Text
      BY <3>2, TextKept
    <3>4. Text'.ok /\ cmd'.text = Text'.val
          /\ (cmd'.text = <<cmd'.text[1]>> \/ cmd'.text = <<cmd'.text[1], cmd'.text[2]>>)
      BY <2>2, <2>4, <3>1, <3>2, <3>3, TextIsShort
    <3>5. cmd'.pc \in {"stdout", "open"} /\ (cmd'.pc = "stdout" <=> Inv'.out = <<>>)
      BY <3>1, <3>2
    <3> QED BY <2>1, <3>4, <3>5 DEF OutInv, Begun
  <2> QED BY <2>3, <2>4
<1>11. ASSUME cmd.pc = "write", UNCHANGED <<cmd, tty>>, Begun(out)'
       PROVE  OutInv'
  <2>1. Text' = Text /\ Inv' = Inv
    BY <1>11 DEF Text, Inv
  <2> QED BY <1>11, <2>1 DEF OutInv
<1>12. CASE Stdout
  BY <1>12, <1>3, <1>4 DEF Stdout
<1>13. CASE Write
  <2>1. cmd.pc = "write" /\ UNCHANGED tty
    BY <1>13 DEF Write
  <2>2. (\E err : Fail(err)) \/ Succeed \/ (UNCHANGED cmd /\ Begun(out)')
    <3>1. \/ \E err : Fail(err)
          \/ Succeed
          \/ /\ UNCHANGED cmd /\ out' = Append(out, cmd.text[Len(out) + 1])
             /\ Len(out') # Len(cmd.text)
      <4>1. WriteTo(out, "OutputFile")
        BY <1>13 DEF Write
      <4>2. CASE \E err : Fail(err)
        BY <4>2
      <4>3. CASE /\ out' = Append(out, cmd.text[Len(out) + 1])
                 /\ IF Len(out') = Len(cmd.text) THEN Succeed ELSE UNCHANGED <<cmd, exit>>
        BY <4>3
      <4> QED BY <4>1, <4>2, <4>3, Zenon DEF WriteTo
    <3>2. CASE UNCHANGED cmd /\ out' = Append(out, cmd.text[Len(out) + 1])
               /\ Len(out') # Len(cmd.text)
      <4>1. cmd.text = <<cmd.text[1]>> \/ cmd.text = <<cmd.text[1], cmd.text[2]>>
        BY <2>1 DEF OutInv
      <4>2. Begun(out)
        BY <2>1 DEF OutInv
      <4>3. out' = <<cmd.text[1]>> /\ cmd.text = <<cmd.text[1], cmd.text[2]>>
        BY <3>2, <4>1, <4>2, ChunkStep DEF Begun
      <4>4. UNCHANGED cmd
        BY <3>2
      <4> QED BY <4>3, <4>4 DEF Begun
    <3> QED BY <3>1, <3>2, Zenon
  <2> QED BY <2>1, <2>2, <1>3, <1>4, <1>11
<1>14. CASE Open
  <2>1. CASE \E err : Fail(err)
    BY <2>1, <1>3
  <2>2. CASE cmd' = [cmd EXCEPT !.pc = "write"] /\ out' = <<>> /\ UNCHANGED tty
    <3>1. cmd.pc = "open" /\ DOMAIN cmd = Fields("open") /\ tty = <<>>
      BY <1>14 DEF Open, Shape, OutInv
    <3>2. /\ cmd'.pc = "write" /\ cmd'.text = cmd.text /\ Inv' = Inv /\ cmd'.wg = cmd.wg
          /\ cmd'.params = cmd.params /\ cmd'.output = cmd.output
      BY <2>2, <3>1 DEF Fields, Inv
    <3>3. Text' = Text
      BY <3>2, TextKept
    <3> QED BY <2>2, <3>1, <3>2, <3>3 DEF OutInv, Begun
  <2> QED BY <1>14, <2>1, <2>2 DEF Open
<1>15. CASE Interrupt
  BY <1>0, <1>1, <1>15 DEF Interrupt
<1>16. CASE Edit
  <2>1. UNCHANGED <<cmd, tty, out>>
    BY <1>16 DEF Edit
  <2>2. Text' = Text /\ Inv' = Inv /\ Begun(out)' = Begun(out)
    BY <2>1 DEF Text, Inv, Begun
  <2> QED BY <2>1, <2>2 DEF OutInv
<1> QED
  BY <1>5, <1>6, <1>7, <1>8, <1>9, <1>10, <1>12, <1>13, <1>14, <1>15, <1>16 DEF Next

\* Success comes with the last chunk.
LEMMA ZeroStep == ASSUME Shape, RunInv, OutInv, ZeroIsComplete, Next PROVE ZeroIsComplete'
<1>0. "pc" \in DOMAIN cmd
  BY DEF Shape, Fields
<1>1. ASSUME exit'.code # 0 \/ ~ Derived' \/ cmd'.pc # "ended" PROVE ZeroIsComplete'
  BY <1>1 DEF ZeroIsComplete
<1>2. ASSUME NEW err, Fail(err) PROVE ZeroIsComplete'
  BY <1>1, <1>2 DEF Fail
<1>3. CASE Invoke \/ Prepare \/ Show \/ List
  <2>1. CASE Invoke
    BY <2>1, <1>1 DEF Invoke, Derived
  <2>2. CASE Prepare \/ Show \/ List
    <3>1. cmd.pc = "prepare" /\ DOMAIN cmd = Fields("prepare")
      BY <2>2 DEF Prepare, Show, List, Shape
    <3>2. ~ Kept
      BY <3>1 DEF Kept, Prepared, Fields
    <3>3. CASE Prepared'
      <4>1. DOMAIN cmd' = Fields("read")
        BY <3>2, <3>3, PreparedStep DEF Prepares
      <4> QED BY <4>1, <1>1 DEF Derived, Fields
    <3>4. CASE ~ Prepared'
      <4>1. Shape'
        BY ShapeStep
      <4>2. ~ Derived'
        <5>1. "params" \notin DOMAIN cmd' /\ \A place : "output" \in Fields(place)
                                                      => "params" \in Fields(place)
          BY <3>4 DEF Prepared, Fields
        <5>2. DOMAIN cmd' = {"pc"} \/ \E place \in Places : DOMAIN cmd' = Fields(place)
          BY <4>1 DEF Shape, Places
        <5> QED BY <5>1, <5>2 DEF Derived
      <4> QED BY <4>2, <1>1
    <3> QED BY <3>3, <3>4
  <2> QED BY <1>3, <2>1, <2>2
<1>4. CASE ReadMessage \/ BuildContext \/ ExtractIkm \/ ApplyPassphrase \/ DeriveKey \/ Format \/ Open
  <2>1. (\E err : Fail(err)) \/ (exit' = exit /\ cmd.pc # "ended")
    BY <1>4 DEF ReadMessage, BuildContext, ExtractIkm, ApplyPassphrase, DeriveKey, Format, Open
  <2>2. CASE exit' = exit /\ cmd.pc # "ended"
    <3>1. exit' = Running /\ Running.code = -1
      BY <2>2 DEF RunInv, Running
    <3>2. exit'.code # 0
      BY <3>1
    <3> QED BY <3>2, <1>1
  <2> QED BY <2>1, <2>2, <1>2
<1>5. CASE Stdout
  <2>1. cmd.pc = "stdout" /\ Inv.out = <<>> /\ UNCHANGED out /\ out = <<Old>>
    BY <1>5 DEF Stdout, OutInv
  <2>2. CASE \E err : Fail(err)
    BY <2>2, <1>2
  <2>3. CASE Succeed /\ tty' \in (IF EndsLine(cmd.text) THEN {cmd.text} ELSE Cuts(cmd.text))
    <3>1. EndsLine(cmd.text) => tty' = cmd.text
      BY <2>3
    <3>2. cmd'.text = cmd.text /\ Inv' = Inv
      BY <2>1, <2>3 DEF Succeed, Shape, Fields, Inv
    <3>3. EndsLine(cmd'.text) => tty' = cmd'.text
      BY <3>1, <3>2
    <3> QED BY <2>1, <3>2, <3>3, Zenon DEF ZeroIsComplete
  <2> QED BY <1>5, <2>2, <2>3 DEF Stdout
<1>6. CASE Write
  <2>1. cmd.pc = "write" /\ Inv.out # <<>> /\ UNCHANGED tty /\ tty = <<>>
    BY <1>6 DEF Write, OutInv
  <2>2. \/ \E err : Fail(err)
        \/ UNCHANGED cmd
        \/ /\ Succeed /\ out' = Append(out, cmd.text[Len(out) + 1])
           /\ Len(out') = Len(cmd.text)
    BY <1>6 DEF Write, WriteTo
  <2>3. CASE Succeed /\ out' = Append(out, cmd.text[Len(out) + 1]) /\ Len(out') = Len(cmd.text)
    <3>1. out' = cmd.text
      BY <2>1, <2>3, ChunkStep DEF OutInv, Begun
    <3>2. cmd'.text = cmd.text /\ Inv' = Inv
      BY <2>1, <2>3 DEF Succeed, Shape, Fields, Inv
    <3> QED BY <2>1, <3>1, <3>2 DEF ZeroIsComplete
  <2> QED BY <2>1, <2>2, <2>3, <1>1, <1>2
<1>7. CASE Interrupt
  BY <1>7, <1>1 DEF Interrupt
<1>8. CASE Edit
  BY <1>8 DEF Edit, ZeroIsComplete, Derived, Inv
<1> QED
  BY <1>3, <1>4, <1>5, <1>6, <1>7, <1>8 DEF Next

\* Together they are inductive.
LEMMA StepIInv == ASSUME IInv, [Next]_vars PROVE IInv'
<1>1. CASE Next
  <2>1. Shape' /\ FilesInv' /\ ShownInv' /\ RunInv' /\ OutInv'
    BY <1>1, ShapeStep, FilesStep, ShownStep, RunStep, OutStep DEF IInv
  <2>2. KnownInv'
    BY <1>1, KnownStep DEF IInv
  <2>3. ByPrecedence' /\ ShownIsUsed' /\ ZeroIsComplete'
    BY <1>1, ByPrecedenceStep, ShownIsUsedStep, ZeroStep DEF IInv
  <2>4. OnlyOutputFailsLate'
    BY <1>1, <2>1, <2>2, FailsLateStep DEF IInv
  <2> QED BY <2>1, <2>2, <2>3, <2>4 DEF IInv
<1>2. CASE UNCHANGED vars
  <2>1. UNCHANGED <<files, env, cmd, tty, out, exit, edits, shown>>
    BY <1>2 DEF vars
  <2>2. Shape' /\ FilesInv' /\ RunInv'
    BY <2>1 DEF IInv, Shape, FilesInv, RunInv
  <2>3. KnownInv' /\ ShownInv'
    BY <2>1 DEF IInv, KnownInv, ShownInv, Resolves, Prepared, Touched,
      Inv, OnlyRawHasLength
  <2>4. OutInv'
    <3>1. Text' = Text /\ Inv' = Inv /\ Begun(out)' = Begun(out)
      BY <2>1 DEF Text, Inv, Begun
    <3> QED BY <2>1, <3>1 DEF IInv, OutInv
  <2>5. ByPrecedence' /\ ShownIsUsed' /\ OnlyOutputFailsLate' /\ ZeroIsComplete'
    BY <2>1 DEF IInv, ByPrecedence, ShownIsUsed, OnlyOutputFailsLate, ZeroIsComplete, Prepared,
      Touched, Derived, Inv
  <2> QED BY <2>2, <2>3, <2>4, <2>5 DEF IInv
<1> QED BY <1>1, <1>2

\* The invariant that the theorems below rest on.
THEOREM Invariance == Spec => []IInv
<1> QED BY InitIInv, StepIInv, PTL DEF Spec

\* Every command that gets past its checks derives with the first that is given of flag,
\* recipe field, [defaults] and profile default, for each parameter.
THEOREM DocumentedPrecedence == Spec => []ByPrecedence
<1>1. IInv => ByPrecedence
  BY DEF IInv
<1> QED BY <1>1, Invariance, PTL

\* What `recipe show' printed is what a bare command of that recipe derives with, whatever
\* ran in between, as long as no catalogue was edited.
THEOREM AuditIsTrue == Spec => []ShownIsUsed
<1>1. IInv => ShownIsUsed
  BY DEF IInv
<1> QED BY <1>1, Invariance, PTL

\* A command that reached the YubiKey fails over its output, the length, the format and the
\* place of it, or over a passphrase that cannot be read, and over nothing else that its
\* flags, its recipe or its message say.
THEOREM TouchedFailsOnlyOverOutput == Spec => []OnlyOutputFailsLate
<1>1. IInv => OnlyOutputFailsLate
  BY DEF IInv
<1> QED BY <1>1, Invariance, PTL

\* An exit code of 0 means that the whole text is where it was asked for, and nowhere else,
\* unless it is one without a final newline on the standard output.
THEOREM ZeroIsAll == Spec => []ZeroIsComplete
<1>1. IInv => ZeroIsComplete
  BY DEF IInv
<1> QED BY <1>1, Invariance, PTL

\* The file of -o or --out changes only once there is a text to write to it.
THEOREM OldFileSurvives == Spec => OldFileKept
<1>1. ASSUME IInv, [Next]_vars PROVE [cmd.pc # "ended" /\ out' # out => Derived /\ Text.ok]_vars
  <2> SUFFICES ASSUME Next, cmd.pc # "ended", out' # out PROVE Derived /\ Text.ok
    BY <1>1, Zenon
  <2>1. Open \/ Write \/ (Interrupt /\ cmd.pc = "write")
    BY DEF Next, Invoke, Prepare, Show, List, ReadMessage, BuildContext, ExtractIkm,
      ApplyPassphrase, DeriveKey, Format, Stdout, Interrupt, Edit
  <2>2. cmd.pc \in {"open", "write"}
    BY <2>1 DEF Open, Write
  <2>3. DOMAIN cmd = Fields(cmd.pc) /\ "output" \in Fields(cmd.pc)
    BY <1>1, <2>2 DEF IInv, Shape, Fields
  <2>4. Text.ok
    BY <1>1, <2>2, Zenon DEF IInv, OutInv
  <2> QED BY <2>3, <2>4 DEF Derived
<1> QED BY <1>1, Invariance, PTL DEF Spec, OldFileKept
=============================================================================
