------------------------------ MODULE Commands ------------------------------
(***************************************************************************)
(* The command line, one command after another: derive, pubkey, sign,      *)
(* recipe list and show, and the four wg commands, from the parsing of     *)
(* their flags to their exit code.  The catalogue is edited between them   *)
(* and while they run; the YubiKey, the prompts, the terminal and the disk *)
(* fail whenever they like; ^C ends a command anywhere.                    *)
(*                                                                         *)
(* What goes on between the host and the YubiKey is the module DeriveIkm;  *)
(* here the device answers with its key material or does not.              *)
(***************************************************************************)
EXTENDS Recipe

CONSTANTS
  Invocation,  \* command lines: the record of every flag, see MCCommands
  Environment, \* values of the environment variables
  Disk,        \* contents that the catalogue files may have at first
  Edited,      \* what the user may put into a catalogue file later
  MaxEdits     \* a bound on the edits

Wg == {"wg key", "wg pubkey", "wg peer", "wg config"}
Verb == Wg \cup {"derive", "pubkey", "sign", "recipe list", "recipe show"}

\* An Option<T>: nothing, or one value.
IsOption(v) == v = <<>> \/ v = <<v[1]>>

\* What clap hands over: --layered is a switch, and `recipe show' names its recipe.
IsInvocation(inv) ==
  /\ inv.verb \in Verb
  /\ \A f \in {"config", "recipe", "profile", "purpose", "pipeline", "index"} : IsOption(inv[f])
  /\ inv.layered \in BOOLEAN
  /\ inv.verb = "recipe show" => inv.recipe # <<>>

\* What serde hands over: every key of a recipe but its profile may be absent.
IsLayered(v) == IsOption(v) /\ (v # <<>> => v[1] \in BOOLEAN)
IsCatalogue(catalogue) ==
  /\ IsOption(catalogue.defaults.pipeline) /\ IsOption(catalogue.defaults.index)
  /\ IsLayered(catalogue.defaults.layered)
  /\ \A name \in DOMAIN catalogue.recipe :
       LET raw == catalogue.recipe[name] IN
       /\ \A f \in {"purpose", "pipeline", "index"} : IsOption(raw[f])
       /\ IsLayered(raw.layered)

IsFile(file) == file.is = "catalogue" => IsCatalogue(file.catalogue)

ASSUME CommandsAssumption ==
  /\ \A inv \in Invocation : IsInvocation(inv)
  /\ \A disk \in Disk : \A path \in DOMAIN disk : IsFile(disk[path])
  /\ \A content \in Edited : IsFile(content)
  /\ MaxEdits \in Nat

VARIABLES
  files,  \* the catalogue files
  env,
  cmd,    \* the command that runs, or that ran last
  tty,    \* what it wrote to the standard output
  out,    \* the file that -o or --out names, which exists before
  exit,   \* how the last command ended
  edits,
  shown   \* history: what `recipe show' printed last

vars == <<files, env, cmd, tty, out, exit, edits, shown>>

Running == [code |-> -1, err |-> ""]
Old == <<"old", <<>> >>

Init ==
  /\ files \in Disk /\ env \in Environment
  /\ cmd = [pc |-> "ended"]
  /\ tty = <<>> /\ out = <<Old>>
  /\ exit = [code |-> 0, err |-> ""]
  /\ edits = 0 /\ shown = <<>>

\* CliError::exit_code
Usage == {"InvalidFormat", "NoPubkey", "LengthRequiresRaw", "RawRequiresLength", "MissingProfile",
          "MissingPurpose", "WgProfileMismatch", "WgMissingAddress", "WgMissingAllowedIps",
          "SignProfileMismatch", "MlDsaHashFixed"}

Fail(err) ==
  /\ exit' = [code |-> CASE err \in Usage -> 2 [] err = "panic" -> 101 [] OTHER -> 1, err |-> err]
  /\ cmd' = [cmd EXCEPT !.pc = "ended"]

Succeed ==
  /\ exit' = [code |-> 0, err |-> ""]
  /\ cmd' = [cmd EXCEPT !.pc = "ended"]

Invoke ==
  /\ cmd.pc = "ended"
  /\ \E inv \in Invocation : cmd' = [pc |-> "prepare", inv |-> inv]
  /\ tty' = <<>> /\ out' = <<Old>> /\ exit' = Running
  /\ UNCHANGED <<files, env, edits, shown>>
-----------------------------------------------------------------------------
(* Parameters, and what is refused before anything is read. *)

Inv == cmd.inv
Loaded == Load(Inv.config, env, files)

\* Mutant: a length is taken with any profile.
VerbRefusesLess(params) ==
  CASE Inv.verb = "derive" /\ Inv.length = <<>> /\ params.profile = "raw" -> "RawRequiresLength"
    [] Inv.verb = "sign" /\ params.profile \notin {"ed25519"} \cup MLDSA -> "SignProfileMismatch"
    [] Inv.verb = "sign" /\ params.profile \in MLDSA /\ Inv.hash = "sha256" -> "MlDsaHashFixed"
    [] OTHER -> ""

\* The checks of the verb on the parameters, "" when they pass.
VerbRefuses(params) ==
  CASE Inv.verb = "derive" /\ Inv.length # <<>> /\ params.profile # "raw" -> "LengthRequiresRaw"
    [] Inv.verb = "derive" /\ Inv.length = <<>> /\ params.profile = "raw" -> "RawRequiresLength"
    [] Inv.verb = "sign" /\ params.profile \notin {"ed25519"} \cup MLDSA -> "SignProfileMismatch"
    [] Inv.verb = "sign" /\ params.profile \in MLDSA /\ Inv.hash = "sha256" -> "MlDsaHashFixed"
    [] OTHER -> ""

\* Mutant: the file of -o is opened, and emptied, at once.
AfterPrepareOpens == IF Inv.out = <<>> THEN "context" ELSE "open"

AfterPrepare == IF Inv.verb = "sign" THEN "read" ELSE "context"

Prepare ==
  /\ cmd.pc = "prepare" /\ Inv.verb \notin {"recipe list", "recipe show"}
  /\ LET params == IF Inv.verb \in Wg THEN ResolveWgParams(Inv, Loaded)
                   ELSE ResolveParams(Inv, Loaded)
     IN IF ~ params.ok THEN Fail(params.err)
        ELSE IF VerbRefuses(params.val) # "" THEN Fail(VerbRefuses(params.val))
        ELSE /\ cmd' = [pc |-> AfterPrepare, inv |-> Inv, params |-> params.val,
                        wg |-> WgSection(Inv, Loaded), catalogue |-> Loaded, edits |-> edits,
                        message |-> Inv.verb # "sign"]
             /\ UNCHANGED exit
  /\ UNCHANGED <<files, env, tty, out, edits, shown>>

\* Mutant: a pipeline that is not written is printed as the most common one.
ShownHkdf(r) ==
  [profile |-> r.profile, purpose |-> r.purpose, index |-> r.index, layered |-> r.layered,
   pipeline |-> UnwrapOr(r.pipeline, "hkdf-sha512")]

\* recipe show prints the pipeline that would be used, not the one that is written.
Shown(r) ==
  [profile |-> r.profile, purpose |-> r.purpose, index |-> r.index, layered |-> r.layered,
   pipeline |-> UnwrapOr(r.pipeline, DefaultPipeline(r.profile))]

Show ==
  /\ cmd.pc = "prepare" /\ Inv.verb = "recipe show"
  /\ LET r == Then(Loaded, LAMBDA catalogue : Resolve(catalogue, Inv.recipe[1])) IN
     IF ~ r.ok THEN Fail(r.err) /\ UNCHANGED <<tty, shown>>
     ELSE \/ /\ tty' = << <<"shown", Shown(r.val)>> >>
             /\ shown' = <<[config |-> Inv.config, recipe |-> Inv.recipe, params |-> Shown(r.val),
                            wg |-> r.val.wg, edits |-> edits]>>
             /\ Succeed
          \/ Fail("panic") /\ UNCHANGED <<tty, shown>>
  /\ UNCHANGED <<files, env, out, edits>>

List ==
  /\ cmd.pc = "prepare" /\ Inv.verb = "recipe list"
  /\ IF ~ Loaded.ok THEN Fail(Loaded.err) /\ UNCHANGED tty
     ELSE \/ Succeed /\ tty' = << <<"names", DOMAIN Loaded.val.recipe>> >>
          \/ Fail("panic") /\ UNCHANGED tty
  /\ UNCHANGED <<files, env, out, edits, shown>>

\* "Read the message before touching the YubiKey, so a bad path fails fast."
ReadMessage ==
  /\ cmd.pc = "read"
  /\ \/ cmd' = [cmd EXCEPT !.pc = "context", !.message = TRUE] /\ UNCHANGED exit
     \/ Fail("InputRead")
  /\ UNCHANGED <<files, env, tty, out, edits, shown>>
-----------------------------------------------------------------------------
(* The key: context, key material, passphrase, derivation. *)

BuildContext ==
  /\ cmd.pc = "context"
  /\ LET p == cmd.params
         ctx == WithPipeline(p.profile, p.pipeline, p.purpose, p.index)
     IN IF ~ ctx.ok THEN Fail(ctx.err)
        ELSE cmd' = With([cmd EXCEPT !.pc = "ikm"], "ctx", ctx.val) /\ UNCHANGED exit
  /\ UNCHANGED <<files, env, tty, out, edits, shown>>

Material ==
  IF Inv.ikm_file # <<>> THEN Inv.ikm_file[1]
  ELSE [name |-> IF cmd.params.layered THEN "ecdh, hmac" ELSE "ecdh",
        len |-> IF cmd.params.layered THEN 52 ELSE 32]

ExtractIkm ==
  /\ cmd.pc = "ikm"
  /\ \/ /\ NewIkm(Material).ok
        /\ cmd' = With([cmd EXCEPT !.pc = IF Inv.passphrase THEN "passphrase" ELSE "derive"],
                       "master", Extract(Material, cmd.ctx.pipeline))
        /\ UNCHANGED exit
     \/ ~ NewIkm(Material).ok /\ Fail("InsufficientIkm")
     \/ Fail(IF Inv.ikm_file # <<>> THEN "IkmRead" ELSE "YubiKey")
  /\ UNCHANGED <<files, env, tty, out, edits, shown>>

ApplyPassphrase ==
  /\ cmd.pc = "passphrase"
  /\ \/ /\ cmd' = [cmd EXCEPT !.pc = "derive",
                     !.master = CascadePassphrase(@, Stretch("pw"), cmd.ctx.pipeline)]
        /\ UNCHANGED exit
     \/ Fail("PassphraseRead")
  /\ UNCHANGED <<files, env, tty, out, edits, shown>>

DeriveKey ==
  /\ cmd.pc = "derive"
  /\ LET r == IF Inv.verb = "derive" /\ Inv.length # <<>>
              THEN DeriveRaw(cmd.master, cmd.ctx, Inv.length[1])
              ELSE Derive(cmd.master, cmd.ctx)
     IN IF ~ r.ok THEN Fail(r.err)
        ELSE /\ cmd' = With([cmd EXCEPT !.pc = "format"], "output", r.val)
             /\ UNCHANGED exit
  /\ UNCHANGED <<files, env, tty, out, edits, shown>>
-----------------------------------------------------------------------------
(* What is printed, and where.  A text is a sequence of chunks, each of    *)
(* which one write_all carries.  The standard output is a LineWriter: what *)
(* stands after the last newline of a text stays in the buffer, where the  *)
(* write_all succeeds; the flush at the exit drops its error.              *)
(* println!, of recipe, wg pubkey and wg peer, panics when it fails.        *)

PublicText(output, profile) ==
  LET public == PublicKey(output, profile) IN
  IF public = <<>> THEN Err("NoPubkey") ELSE Ok(public)

TextOf(inv, section, profile, output) ==
  LET wg == Interface(inv, section)
      allowed == Or(inv.allowed_ips, UnwrapOr(section, NoSection).address)
      private == <<"base64", output.secret>>
      public == PublicText(output, profile)
  IN CASE inv.verb = "derive" ->
            Then(FormatOutput(output, profile, inv.format),
                 LAMBDA t : Ok(<< <<IF inv.format = <<"binary">> THEN "bytes" ELSE "secret", t>> >>))
       [] inv.verb = "sign" -> Ok(<< <<"signature", output.secret>> >>)
       [] inv.verb = "wg key" -> Ok(<< <<"secret", private>> >>)
       [] inv.verb \in {"pubkey", "wg pubkey"} -> Then(public, LAMBDA p : Ok(<< <<"public", p>> >>))
       [] inv.verb = "wg peer" ->
            Then(public, LAMBDA p :
              IF allowed = <<>> THEN Err("WgMissingAllowedIps")
              ELSE Ok(<< <<"peer", SelfPeerBlock(p, allowed, inv.endpoint)>> >>))
       [] inv.verb = "wg config" ->
            IF wg.address = <<>> THEN Err("WgMissingAddress")
            ELSE Ok(<< <<"config", Render(wg, private)>>, <<"newline", <<>> >> >>)

Text == TextOf(Inv, cmd.wg, cmd.params.profile, cmd.output)

Format ==
  /\ cmd.pc = "format"
  /\ IF ~ Text.ok THEN Fail(Text.err)
     ELSE /\ cmd' = With([cmd EXCEPT !.pc = IF Inv.out = <<>> THEN "stdout" ELSE "open"],
                         "text", Text.val)
          /\ UNCHANGED exit
  /\ UNCHANGED <<files, env, tty, out, edits, shown>>

\* Mutant: the first write ends it, and the newline is forgotten.
WriteToOnce(file, err) ==
  \/ file' = Append(file, cmd.text[Len(file) + 1]) /\ Succeed
  \/ Fail(err) /\ UNCHANGED file

\* The file takes nothing more, or part of the chunk that is next.
Torn(file) == {file, Append(file, <<"part", cmd.text[Len(file) + 1]>>)}

\* One write_all to a file: the next chunk arrives whole, or the command fails with part of it.
WriteTo(file, err) ==
  \/ /\ file' = Append(file, cmd.text[Len(file) + 1])
     /\ IF Len(file') = Len(cmd.text) THEN Succeed ELSE UNCHANGED <<cmd, exit>>
  \/ Fail(err) /\ file' \in Torn(file)

\* Bytes as they are have no newline to end with; every other text has one.
EndsLine(text) == text[Len(text)][1] # "bytes"

\* How much of a text may have got out.
Cuts(text) ==
  {SubSeq(text, 1, k) : k \in 0 .. Len(text)}
  \cup {Append(SubSeq(text, 1, k - 1), <<"part", text[k]>>) : k \in 1 .. Len(text)}

\* All of the text and the exit: a line that is complete is there or has failed, what is
\* left in the buffer may be lost for good.
Stdout ==
  /\ cmd.pc = "stdout"
  /\ \/ Succeed /\ tty' \in (IF EndsLine(cmd.text) THEN {cmd.text} ELSE Cuts(cmd.text))
     \/ /\ Fail(IF Inv.verb \in {"wg pubkey", "wg peer"} THEN "panic" ELSE "OutputWrite")
        /\ tty' \in Cuts(cmd.text)
  /\ UNCHANGED <<files, env, out, edits, shown>>

\* write, create, truncate: what was there is gone.
Open ==
  /\ cmd.pc = "open"
  /\ \/ cmd' = [cmd EXCEPT !.pc = "write"] /\ out' = <<>> /\ UNCHANGED exit
     \/ Fail("OutputFile") /\ UNCHANGED out
  /\ UNCHANGED <<files, env, tty, edits, shown>>

Write ==
  /\ cmd.pc = "write"
  /\ WriteTo(out, "OutputFile")
  /\ UNCHANGED <<files, env, tty, edits, shown>>
-----------------------------------------------------------------------------
\* In the middle of a write it leaves part of the text, or all of it.
Interrupt ==
  /\ cmd.pc # "ended"
  /\ cmd' = [cmd EXCEPT !.pc = "ended"]
  /\ exit' = [code |-> 130, err |-> "SIGINT"]
  /\ tty' \in IF cmd.pc = "stdout" THEN Cuts(cmd.text) ELSE {tty}
  /\ out' \in IF cmd.pc = "write" THEN Torn(out) \cup {Append(out, cmd.text[Len(out) + 1])}
             ELSE {out}
  /\ UNCHANGED <<files, env, edits, shown>>

Edit ==
  /\ edits < MaxEdits
  /\ edits' = edits + 1
  /\ \E path \in DOMAIN files, content \in Edited : files' = [files EXCEPT ![path] = content]
  /\ UNCHANGED <<env, cmd, tty, out, exit, shown>>

Next ==
  \/ Invoke
  \/ Prepare
  \/ Show
  \/ List
  \/ ReadMessage
  \/ BuildContext
  \/ ExtractIkm
  \/ ApplyPassphrase
  \/ DeriveKey
  \/ Format
  \/ Stdout
  \/ Open
  \/ Write
  \/ Interrupt
  \/ Edit

Spec == Init /\ [][Next]_vars
-----------------------------------------------------------------------------
Prepared == "params" \in DOMAIN cmd
Touched == "master" \in DOMAIN cmd
Derived == "output" \in DOMAIN cmd

\* What the documentation says of parameters (derive.rs, usage.md): the first that is
\* given of flag, recipe field, [defaults], profile default.  --layered adds.
Documented(inv, catalogue) ==
  LET named == inv.recipe # <<>>
      raw == catalogue.recipe[inv.recipe[1]]
      field(f) == IF named THEN raw[f] ELSE <<>>
      default(f) == IF named THEN catalogue.defaults[f] ELSE <<>>
      profile == IF inv.verb \in Wg THEN "x25519"
                 ELSE Head(inv.profile \o IF named THEN <<raw.profile>> ELSE <<>>)
  IN [profile |-> profile,
      purpose |-> Head(inv.purpose \o field("purpose") \o inv.recipe),
      pipeline |-> Head(inv.pipeline \o field("pipeline") \o default("pipeline")
                        \o <<DefaultPipeline(profile)>>),
      index |-> Head(inv.index \o field("index") \o default("index") \o <<0>>),
      layered |-> inv.layered \/ Head(field("layered") \o default("layered") \o <<FALSE>>)]

\* A command derives with the parameters the documentation promises, whatever mixture of
\* flags, recipe and defaults they come from.
ByPrecedence ==
  Prepared => cmd.params = Documented(Inv, IF Inv.recipe = <<>> THEN Empty ELSE cmd.catalogue.val)

\* What `recipe show' printed is what a command with that recipe and no other flags then
\* derives with, "so a user can audit exactly what a derivation would run before touching
\* a YubiKey" -- unless the catalogue was edited in between.
ShownIsUsed ==
  \A s \in {shown[k] : k \in DOMAIN shown} :
    /\ Prepared /\ Inv.recipe = s.recipe /\ Inv.config = s.config /\ cmd.edits = s.edits
    /\ Inv.profile \o Inv.purpose \o Inv.pipeline \o Inv.index = <<>> /\ ~ Inv.layered
    => cmd.params = s.params /\ cmd.wg = s.wg

\* What the code looks at only when there is a key to print: the length and the format of
\* the output, and what it needs besides the key.
FormErrors == {"ZeroLengthOutput", "ExpandOutputTooLong", "InvalidFormat", "NoPubkey",
               "WgMissingAddress", "WgMissingAllowedIps"}
LateErrors == FormErrors \cup {"PassphraseRead", "OutputWrite", "OutputFile", "panic"}

\* After the user has entered a PIN and touched the YubiKey a command fails over its output
\* alone, or over a passphrase that cannot be read.  Whatever else may be wrong with flags,
\* recipe, catalogue or context is found before (build_context before extract_ikm), and the
\* message of a signature has been read.
OnlyOutputFailsLate ==
  Touched => exit.err \in {"", "SIGINT"} \cup LateErrors /\ cmd.message

\* The file of -o or --out keeps its old content through every failure before there is
\* something to write: it is opened, which empties it, last.
OldFileKept == [][cmd.pc # "ended" /\ out' # out => Derived /\ Text.ok]_vars

\* A command that ends with 0 has written all of what it derived, the newline included,
\* to where it was asked to, and nothing to the other place.  A text on the standard output
\* that does not end with a newline, of derive --format binary, is left out: it may be lost.
ZeroIsComplete ==
  cmd.pc = "ended" /\ exit.code = 0 /\ Derived =>
    IF Inv.out = <<>> THEN out = <<Old>> /\ (EndsLine(cmd.text) => tty = cmd.text)
    ELSE out = cmd.text /\ tty = <<>>
=============================================================================
