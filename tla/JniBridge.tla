------------------------------ MODULE JniBridge ------------------------------
(***************************************************************************)
(* ykdf-jni: the native methods of the Android app, one call after         *)
(* another.  Java gives it byte arrays, strings, arrays of strings and     *)
(* jints; it converts them one by one, derives, and returns a value or     *)
(* leaves an exception pending.  Allocation in the JVM may fail.           *)
(*                                                                         *)
(* A Java string is a token or "null"; an array of strings a sequence of   *)
(* them; the peer's key is [text, padded] as in Recipe.                    *)
(***************************************************************************)
EXTENDS Recipe

CONSTANTS
  Ikm,        \* key material: [name, len]
  DeriveArgs, \* arguments of derive and derivePublic: [pipeline, profile, purpose, index]
  WgArgs,     \* arguments of wgConfig, see MCPhone
  MaxCalls    \* a bound on the calls

\* A number of Java has 32 bits.
MaxJint == 2147483647
Jint == (-MaxJint - 1) .. MaxJint

ASSUME JniAssumption ==
  /\ \A a \in DeriveArgs : a.index \in Jint
  /\ \A a \in WgArgs : {a.index, a.listen_port, a.mtu, a.keepalive} \subseteq Jint
  /\ MaxCalls \in Nat

VARIABLES
  call,  \* the call in progress
  java,  \* what the last call left: [value, exception]
  last,  \* history: the call before it and what that left
  calls

jniVars == <<call, java, last, calls>>

Nothing == [value |-> <<>>, exception |-> ""]

JniInit ==
  /\ call = [pc |-> "returned", entry |-> "none"]
  /\ java = Nothing /\ last = [entry |-> "none", java |-> Nothing]
  /\ calls = 0
-----------------------------------------------------------------------------
(* The functions behind the methods *)

DeriveOutput(ikm, pipeline, profile, purpose, index) ==
  LET ctx == IF pipeline = "" THEN NewContext(profile, purpose, index)
             ELSE WithPipeline(profile, pipeline, purpose, index)
  IN IF profile \notin Profile THEN Err("unknown profile")
     ELSE IF pipeline \notin Pipeline \cup {""} THEN Err("unknown pipeline")
     ELSE Then(ctx, LAMBDA c :
          Then(NewIkm(ikm), LAMBDA i : Derive(Extract(i, c.pipeline), c)))

\* Mutant: the profile is looked at, not its output.
PublicKeyStringX(output, profile) ==
  IF profile \in {"x25519", "ed25519"} THEN Ok(PublicKey(output, profile)) ELSE Err("no public key")

PublicKeyString(output, profile) ==
  IF PublicKey(output, profile) = <<>> THEN Err("no public key") ELSE Ok(PublicKey(output, profile))

\* Mutant: a cast, which keeps the low sixteen bits.
OptionalU16Wraps(value) == IF value < 0 THEN <<>> ELSE <<value % 65536>>

\* What is out of range is left out like what is negative.
MaxU16 == 65535
OptionalU16(value) == IF value \in 0 .. MaxU16 THEN <<value>> ELSE <<>>
OptionalU32(value) == IF value >= 0 THEN <<value>> ELSE <<>>
OptionalString(value) == IF value \in {"", " "} THEN <<>> ELSE <<value>>

PeerGiven(key) == key.text # ""

WgFields(a) ==
  [address |-> a.address, listen_port |-> OptionalU16(a.listen_port), dns |-> a.dns,
   mtu |-> OptionalU32(a.mtu),
   peers |-> IF ~ PeerGiven(a.peer_public_key) THEN <<>>
             ELSE << [public_key |-> a.peer_public_key, endpoint |-> OptionalString(a.endpoint),
                      allowed_ips |-> a.allowed_ips, keepalive |-> OptionalU16(a.keepalive)] >>]
-----------------------------------------------------------------------------
(* The calls *)

Enter ==
  /\ call.pc = "returned" /\ calls < MaxCalls
  /\ calls' = calls + 1
  /\ last' = IF call.entry = "none" THEN [entry |-> "none", java |-> java]
             ELSE [entry |-> call.entry, java |-> java, args |-> call.args, ikm |-> call.ikm]
  /\ \E ikm \in Ikm :
       \/ \E entry \in {"derive", "derivePublic"}, a \in DeriveArgs :
            call' = [pc |-> "convert", entry |-> entry, ikm |-> ikm, args |-> a]
       \/ \E a \in WgArgs :
            call' = [pc |-> "convert", entry |-> "wgConfig", ikm |-> ikm, args |-> a]
  /\ java' = Nothing

ThrowNew(exception) ==
  /\ java' = [Nothing EXCEPT !.exception = exception]
  /\ call' = [call EXCEPT !.pc = "returned"]

\* convert_byte_array, jstring, u32::try_from, jstring_array: the first that fails is thrown.
Convertible(a) ==
  /\ a.index >= 0
  /\ call.entry = "wgConfig" => "null" \notin Range(a.address) \cup Range(a.dns) \cup Range(a.allowed_ips)

Convert ==
  /\ call.pc = "convert"
  /\ IF Convertible(call.args) THEN call' = [call EXCEPT !.pc = "derive"] /\ UNCHANGED java
     ELSE ThrowNew("IllegalArgument")
  /\ UNCHANGED <<last, calls>>

Result ==
  LET a == call.args IN
  CASE call.entry = "derive" ->
         Then(DeriveOutput(call.ikm, a.pipeline, a.profile, a.purpose, a.index),
              LAMBDA o : Ok(SecretBytes(o)))
    [] call.entry = "derivePublic" ->
         Then(DeriveOutput(call.ikm, a.pipeline, a.profile, a.purpose, a.index),
              LAMBDA o : PublicKeyString(o, a.profile))
    [] call.entry = "wgConfig" ->
         Then(DeriveOutput(call.ikm, "", "x25519", a.purpose, a.index),
              LAMBDA o : Ok(Render(WgFields(a), <<"base64", o.secret>>)))

DeriveIt ==
  /\ call.pc = "derive"
  /\ IF Result.ok THEN call' = With([call EXCEPT !.pc = "return"], "result", Result.val) /\ UNCHANGED java
     ELSE ThrowNew("IllegalArgument")
  /\ UNCHANGED <<last, calls>>

Return ==
  /\ call.pc = "return"
  /\ \/ java' = [Nothing EXCEPT !.value = <<call.result>>] /\ call' = [call EXCEPT !.pc = "returned"]
     \/ ThrowNew("Runtime")
  /\ UNCHANGED <<last, calls>>

JniNext == Enter \/ Convert \/ DeriveIt \/ Return

JniSpec == JniInit /\ [][JniNext]_jniVars
-----------------------------------------------------------------------------
Returned(entry) == call.pc = "returned" /\ call.entry = entry /\ java.value # <<>>

\* A method that returned left a value or an exception and never both, and while it runs
\* neither; a value that left a method came out of a derivation that the core accepts.
JniTypeOK ==
  /\ call.pc \in {"convert", "derive", "return", "returned"}
  /\ calls \in 0 .. MaxCalls
  /\ java.exception \in {"", "IllegalArgument", "Runtime"}
  /\ calls > 0 => (call.pc = "returned" <=> (java.value = <<>>) # (java.exception = ""))
  /\ Returned("wgConfig") => \A line \in Range(java.value[1]) :
       line[1] \in {"ListenPort", "PersistentKeepalive"} => line[2][1] \in 0 .. MaxU16

\* The command line that says the same, where there is one: an address, and nothing for a
\* peer that has no key.  A number that clap refuses is one that is not given.
Given(value, max) == IF value \in 0 .. max THEN <<value>> ELSE <<>>
Flags(a) ==
  [address |-> a.address, dns |-> a.dns,
   listen_port |-> Given(a.listen_port, MaxU16),
   mtu |-> Given(a.mtu, MaxJint),
   peer_pubkey |-> IF a.peer_public_key.text = "" THEN <<>> ELSE <<a.peer_public_key>>,
   endpoint |-> IF a.endpoint \in {"", " "} THEN <<>> ELSE <<a.endpoint>>,
   allowed_ips |-> a.allowed_ips,
   keepalive |-> Given(a.keepalive, MaxU16)]
HasFlags(a) ==
  /\ a.address # <<>>
  /\ a.peer_public_key.text = "" =>
       a.endpoint \in {"", " "} /\ a.allowed_ips = <<>> /\ Given(a.keepalive, MaxU16) = <<>>

\* "The config is byte-identical to `ykdf wg config`", up to the newline that the command
\* line adds: same key, same lines, for everything the command line can be told, and no number
\* becomes another on its way through the types of Java.  A number that is out of range is
\* left out of the config, as if it had not been given; the comment at ykdf-jni/src/lib.rs:
\* 412-413 says that it is clamped into range, the code at 418 drops it.
SameAsCli ==
  Returned("wgConfig") /\ HasFlags(call.args) =>
    LET r == DeriveOutput(call.ikm, "", "x25519", call.args.purpose, call.args.index)
    IN java.value[1] = Render(Interface(Flags(call.args), <<>>), <<"base64", r.val.secret>>)

\* The app takes any exception of derivePublic after a derive that worked to mean that the
\* profile has no public key; short of a failure of the JVM, it means nothing else.
AbsentMeansNone ==
  /\ call.pc = "returned" /\ call.entry = "derivePublic" /\ java.exception = "IllegalArgument"
  /\ last.entry = "derive" /\ last.java.value # <<>>
  /\ last.args = call.args /\ last.ikm = call.ikm
  => call.args.profile \in {"symmetric", "raw"}
=============================================================================
