----------------------------- MODULE NfcSession -----------------------------
(***************************************************************************)
(* YubiKeyNfc.deriveIkm: both factors of a YubiKey held against the phone, *)
(* read over one ISO-DEP connection (apps/android, nfc/YubiKeyNfc.kt).     *)
(* One action is one command; the key may leave the field between any two, *)
(* and while one runs, so that the card carries it out and the answer is   *)
(* lost.  Another key may then be tapped, but never under the connection   *)
(* of the first.  Of YubiKeyHost, `plugged' is here the key in the field.  *)
(***************************************************************************)
EXTENDS YubiKeyHost

CONSTANT BadPin   \* a PIN that is empty or longer than 8 bytes

VARIABLES
  pc,       \* the next command
  req,      \* what deriveIkm was called with
  tag,      \* the key the connection is to; None once it was lost
  ecdh,     \* the PIV factor, once read
  outcome,  \* how the tap ended
  ikm,      \* what it returned
  before,   \* history: the PIN counters when it began,
  tapped    \* and the key that was tapped

session == <<pc, req, tag, ecdh, outcome, ikm>>
vars == <<hostVars, session, before, tapped>>

Init ==
  /\ HostInit
  /\ plugged = {}
  /\ pc = "idle"
  /\ req = [layered |-> FALSE, pin |-> None]
  /\ tag = None
  /\ ecdh = {}
  /\ outcome = "none"
  /\ ikm = None
  /\ before = tries
  /\ tapped = None
-----------------------------------------------------------------------------
End(result) ==
  /\ pc' = "idle"
  /\ outcome' = result
  /\ ecdh' = {}
  /\ UNCHANGED <<req, tag>>

Throw(result) == End(result) /\ ikm' = None

Present(d) ==
  /\ plugged = {}
  /\ pc = "idle"
  /\ Insert(d)
  /\ UNCHANGED <<session, before, tapped>>

\* onTag: the connection is made, and deriveIkm called on it.
Connect ==
  /\ pc = "idle"
  /\ \E d \in plugged : tag' = d /\ tapped' = d
  /\ \E l \in BOOLEAN, p \in Pin \cup {BadPin} : req' = [layered |-> l, pin |-> p]
  /\ pc' = "selectPiv"
  /\ ecdh' = {}
  /\ outcome' = "none"
  /\ ikm' = None
  /\ before' = tries
  /\ UNCHANGED hostVars

\* The key leaves the field: it loses its power, and every later command fails.
Leave(d) ==
  /\ Withdraw(d)
  /\ tag' = None
  /\ UNCHANGED <<pc, req, ecdh, outcome, ikm, before, tapped>>

TagLost ==
  /\ pc # "idle"
  /\ tag = None
  /\ Throw("TagLost")
  /\ UNCHANGED <<hostVars, before, tapped>>

\* selectApplet: the applet is selected and the session goes on to `next', or the card
\* has none of that name enabled over NFC and answers with an error.
Select(applet, next) ==
  /\ tag # None
  /\ \/ /\ card' = [card EXCEPT ![tag] = applet]
        /\ pc' = next
        /\ UNCHANGED <<req, tag, ecdh, outcome, ikm>>
     \/ Throw("SelectFailed") /\ card' = card
  /\ UNCHANGED <<plugged, slot, tries, holder, cool, before, tapped>>

SelectPiv == pc = "selectPiv" /\ Select("piv", "cert")

ReadSlot9dPublicPoint ==
  /\ pc = "cert"
  /\ tag # None
  /\ IF slot[tag].cert \in Key
     THEN pc' = "verify" /\ UNCHANGED <<req, tag, ecdh, outcome, ikm>>
     ELSE Throw(IF slot[tag].cert = None THEN "NoCertificate" ELSE "NoEcKey")
  /\ UNCHANGED <<hostVars, before, tapped>>

\* Mutant: a refused PIN is tried once more.
AnsweredTwice ==
  IF PinAccepted(tag, req.pin)
  THEN /\ card' = [card EXCEPT ![tag] = "verified"]
       /\ pc' = "ecdh"
       /\ UNCHANGED <<req, tag, ecdh, outcome, ikm>>
  ELSE UNCHANGED <<pc, req, tag, ecdh, outcome, ikm, card>>

\* The card counts the attempt and its answer arrives.
Answered ==
  IF PinAccepted(tag, req.pin)
  THEN /\ card' = [card EXCEPT ![tag] = "verified"]
       /\ pc' = "ecdh"
       /\ UNCHANGED <<req, tag, ecdh, outcome, ikm>>
  ELSE Throw(IF tries[tag] = 0 THEN "PinLocked" ELSE "WrongPin") /\ card' = card

VerifyPin ==
  /\ pc = "verify"
  /\ tag # None
  /\ IF req.pin = BadPin
     THEN Throw("IllegalArgument") /\ UNCHANGED <<tries, card>>
     ELSE Answered /\ tries' = [tries EXCEPT ![tag] = TriesAfter(tag, req.pin)]
  /\ UNCHANGED <<plugged, slot, holder, cool, before, tapped>>

\* The key leaves after it counted the attempt and before its answer arrives.
VerifyLost ==
  /\ pc = "verify"
  /\ tag # None
  /\ req.pin # BadPin
  /\ tries' = [tries EXCEPT ![tag] = TriesAfter(tag, req.pin)]
  /\ plugged' = plugged \ {tag}
  /\ card' = [card EXCEPT ![tag] = "none"]
  /\ tag' = None
  /\ UNCHANGED <<slot, holder, cool, pc, req, ecdh, outcome, ikm, before, tapped>>

GeneralAuthenticate ==
  /\ pc = "ecdh"
  /\ tag # None
  /\ card[tag] = "verified"
  /\ IF slot[tag].key = None
     THEN Throw("EcdhFailed")
     ELSE LET secret == Ecdh(slot[tag].key, slot[tag].cert) IN
          IF req.layered
          THEN /\ pc' = "selectOtp"
               /\ ecdh' = secret
               /\ UNCHANGED <<req, tag, outcome, ikm>>
          ELSE End("ok") /\ ikm' = [ecdh |-> secret, hmac |-> None]
  /\ UNCHANGED <<hostVars, before, tapped>>

\* Selecting the OTP applet forgets the PIN.
SelectOtp == pc = "selectOtp" /\ Select("none", "hmac")

\* Mutant: a tap that cannot read the second factor is content with the first.
HmacOptional ==
  /\ pc = "hmac"
  /\ tag # None
  /\ End("ok") /\ ikm' = [ecdh |-> ecdh, hmac |-> slot[tag].slot2]
  /\ UNCHANGED <<hostVars, before, tapped>>

HmacSlot2 ==
  /\ pc = "hmac"
  /\ tag # None
  /\ IF slot[tag].slot2 = None
     THEN Throw("HmacFailed")
     ELSE End("ok") /\ ikm' = [ecdh |-> ecdh, hmac |-> slot[tag].slot2]
  /\ UNCHANGED <<hostVars, before, tapped>>

Command ==
  \/ TagLost \/ SelectPiv \/ ReadSlot9dPublicPoint \/ VerifyPin
  \/ GeneralAuthenticate \/ SelectOtp \/ HmacSlot2

Next ==
  \/ Connect \/ Command \/ VerifyLost
  \/ \E d \in Device : Present(d) \/ Leave(d)

Spec == Init /\ [][Next]_vars
-----------------------------------------------------------------------------
TypeOK ==
  /\ HostTypeOK
  /\ pc \in {"idle", "selectPiv", "cert", "verify", "ecdh", "selectOtp", "hmac"}
  /\ req \in [layered : BOOLEAN, pin : Pin \cup {BadPin, None}]
  /\ tag \in Device \cup {None} /\ tapped \in Device \cup {None}
  /\ ecdh \in SUBSET Key
  /\ ikm \in [ecdh : SUBSET Key, hmac : Secret \cup {None}] \cup {None}

\* Whatever keys pass through the field, a tap returns the factors of the key that was
\* tapped and of no other, both of them exactly when it was asked for both: the key
\* material the desktop derives from it (YubiKeyNfc.kt:54-67; docs/android-spike.md:4).
NfcKeyMaterial ==
  outcome = "ok" =>
    ikm = [ecdh |-> Ecdh(slot[tapped].key, slot[tapped].cert),
           hmac |-> IF req.layered THEN slot[tapped].slot2 ELSE None]
    /\ slot[tapped].key # None /\ (req.layered => slot[tapped].slot2 # None)

\* A tap offers the PIN once, to the key that was tapped, and only after it found a
\* certificate of an EC key there: a key that is not set up for ykdf, or one that follows
\* it in the field, loses no attempt (YubiKeyNfc.kt:58-60; docs/provisioning.md).
PinOfferedOnce ==
  \A d \in Device :
    tries[d] < before[d] => /\ d = tapped
                            /\ tries[d] = before[d] - 1
                            /\ slot[d].cert \in Key
=============================================================================
