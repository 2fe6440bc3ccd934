------------------------------- MODULE MCCore -------------------------------
(***************************************************************************)
(* ykdf-core, in three lanes that do not meet: the loop of HKDF-Expand     *)
(* (HkdfExpand), derivations with requests that differ in one field or in  *)
(* several (Derivation), and signatures on their way (Signature).          *)
(***************************************************************************)
EXTENDS HkdfExpand, Derivation, Signature

VARIABLE lane

all == <<lane, expandVars, vars, signVars>>

\* Lengths on both sides of every boundary: none, one block, a few, 255.
OkmLens == (0 .. 130) \cup {254 * 64, 254 * 64 + 1, 255 * 64 - 1, 255 * 64, 255 * 64 + 1, 256 * 64, 65536}

\* Requests that differ in one field or in several, and some that are refused.
Ikms == {[name |-> "p256", len |-> 32], [name |-> "layered", len |-> 52], [name |-> "stub", len |-> 8]}
Passphrases == {<<>>, <<"pw">>}
Purposes == {<<"a">>, <<"a", "-", "b">>, <<"a", ":", "b">>, <<"-", "a">>}
Indices == {-1, 0, 7}
Lengths == {<<>>, <<0>>, <<32>>, <<33>>, <<255 * 64 + 1>>}

\* Two ed25519 keys, two levels of ML-DSA and a key that cannot sign.
Keys == {"e1", "e2", "d44", "d65", "x"}
Profiles == [k \in Keys |-> CASE k \in {"e1", "e2"} -> "ed25519"
                             [] k = "d44" -> "mldsa44"
                             [] k = "d65" -> "mldsa65"
                             [] OTHER -> "x25519"]

MCInit ==
  /\ lane \in {"expand", "derive", "sign"}
  /\ ExpandInit /\ Init /\ SignInit
  /\ lane # "expand" => len = 0
  /\ lane # "sign" => message = "m1"

ExpandStep(A) == lane = "expand" /\ A /\ UNCHANGED <<lane, vars, signVars>>
DeriveStep(A) == lane = "derive" /\ A /\ UNCHANGED <<lane, expandVars, signVars>>
SignStep(A) == lane = "sign" /\ A /\ UNCHANGED <<lane, expandVars, vars>>

\* Next of one of the three, action by action.
MCNext ==
  \/ ExpandStep(TooLong) \/ ExpandStep(Enter) \/ ExpandStep(Block) \/ ExpandStep(ExpandReturn)
  \/ DeriveStep(Begin) \/ DeriveStep(ExtractKey) \/ DeriveStep(AddPassphrase)
  \/ DeriveStep(DeriveKey) \/ DeriveStep(Emit) \/ DeriveStep(ParseText)
  \/ SignStep(SignRead) \/ SignStep(SignDerive) \/ SignStep(SignOpen)
  \/ SignStep(SignWrite) \/ SignStep(VerifyReadKey)
  \/ SignStep(VerifyReadSignature) \/ SignStep(VerifyReadMessage)
  \/ SignStep(Verify) \/ SignStep(VerifyEnd) \/ SignStep(EditMessage)
  \/ SignStep(Alter)

MCSpec == MCInit /\ [][MCNext]_all

\* Types of the three; the rest of the properties are stated with each.
Types == ExpandTypeOK /\ TypeOK /\ SignTypeOK
=============================================================================
