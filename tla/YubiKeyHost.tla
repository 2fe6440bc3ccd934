---------------------------- MODULE YubiKeyHost ----------------------------
(***************************************************************************)
(* The YubiKeys of one user and the desktop host they are plugged into, as *)
(* crates/ykdf-yubikey meets them.  None of this is code of the            *)
(* repository: it is the firmware, pcscd, gpg-agent's scdaemon and the     *)
(* user, modelled from how the crate uses them and from what               *)
(* docs/transport-notes.md records of the hardware.                        *)
(*                                                                         *)
(* Data are symbols.  A key stands for its private scalar and for its      *)
(* public point; a secret of OTP slot 2 stands for its answer to the one   *)
(* challenge the crate ever sends (hmac.rs, CHALLENGE).                    *)
(***************************************************************************)
EXTENDS Integers, FiniteSets

CONSTANTS
  Device,    \* the YubiKeys the user owns
  Key,       \* P-256 key pairs
  Secret,    \* HMAC-SHA1 secrets
  Pin,       \* well-formed PINs
  PinOf,     \* the PIN each device was given
  None,      \* the absence of any of the above
  OtherKey,  \* what a certificate that is not of an EC key (an RSA one) has for a key
  Contents,  \* what the slots of a device may hold
  MaxTries,  \* PIN attempts a card grants
  Cooldown   \* how long the OTP HID stays silent after a touch on the smartcard,
             \* in rounds of the retry loop that reads it

Content == [key : Key \cup {None}, cert : Key \cup {None, OtherKey},
            slot2 : Secret \cup {None}]

ASSUME HostAssumption ==
  /\ None \notin Device \cup Key \cup Secret \cup Pin
  /\ OtherKey \notin Key \cup {None}
  /\ Contents \subseteq Content
  /\ PinOf \in [Device -> Pin]
  /\ MaxTries \in Nat \ {0}
  /\ Cooldown \in Nat

VARIABLES
  plugged,   \* the devices now in a port
  slot,      \* the contents of each device's slots
  tries,     \* PIN attempts left on each device
  holder,    \* who has exclusive use of each smartcard over PC/SC
  card,      \* security state of each smartcard: PIV selected? PIN verified?
  cool       \* rounds for which the OTP HID of each device stays silent

hostVars == <<plugged, slot, tries, holder, card, cool>>

HostTypeOK ==
  /\ plugged \subseteq Device
  /\ slot \in [Device -> Content]
  /\ tries \in [Device -> 0 .. MaxTries]
  /\ holder \in [Device -> {"free", "scdaemon", "other"}]
  /\ card \in [Device -> {"none", "piv", "verified"}]
  /\ cool \in [Device -> 0 .. Cooldown]

HostInit ==
  /\ plugged \in SUBSET Device
  /\ slot \in [Device -> Contents]
  /\ tries = [d \in Device |-> MaxTries]
  /\ holder = [d \in Device |-> "free"]
  /\ card = [d \in Device |-> "none"]
  /\ cool = [d \in Device |-> 0]
-----------------------------------------------------------------------------
(* The smartcard as PC/SC and scdaemon show it. *)

\* The cards a shared PC/SC connection can be made to.
Openable == {d \in plugged : holder[d] = "free"}

\* YubiKey::open() has no card to connect to, or several, between which it may
\* refuse to choose.
OpenMayFail == Cardinality(Openable) # 1

\* A reader answers a connection attempt with a sharing violation.
SharingViolation == \E d \in plugged : holder[d] # "free"

\* The cards scdaemon can serve, given those other PC/SC clients have open.
ScdaemonReaches(shared) ==
  {d \in plugged : holder[d] = "scdaemon" \/ (holder[d] = "free" /\ d \notin shared)}

\* VERIFY on a card with the PIV applet selected: what is left of the attempts.
TriesAfter(d, p) ==
  IF tries[d] = 0 THEN 0 ELSE IF p = PinOf[d] THEN MaxTries ELSE tries[d] - 1

PinAccepted(d, p) == tries[d] > 0 /\ p = PinOf[d]

\* The shared secret of a private key and a public point; ECDH is commutative.
Ecdh(key, point) == {key, point}
-----------------------------------------------------------------------------
(* What the user and other programs do to the devices. *)

Insert(d) ==
  /\ d \notin plugged
  /\ plugged' = plugged \cup {d}
  /\ UNCHANGED <<slot, tries, holder, card, cool>>

\* Pulling a device out powers it down: only the slots and the counter persist.
Withdraw(d) ==
  /\ d \in plugged
  /\ plugged' = plugged \ {d}
  /\ holder' = [holder EXCEPT ![d] = "free"]
  /\ card' = [card EXCEPT ![d] = "none"]
  /\ cool' = [cool EXCEPT ![d] = 0]
  /\ UNCHANGED <<slot, tries>>

\* scdaemon, or another application, takes a card nobody has open.
Grab(d, who, shared) ==
  /\ d \in Openable \ shared
  /\ holder' = [holder EXCEPT ![d] = who]
  /\ card' = [card EXCEPT ![d] = "none"]
  /\ UNCHANGED <<plugged, slot, tries, cool>>

\* `gpgconf --kill scdaemon`, or the other application exits.
LetGo(d) ==
  /\ d \in plugged
  /\ holder[d] # "free"
  /\ holder' = [holder EXCEPT ![d] = "free"]
  /\ card' = [card EXCEPT ![d] = "none"]
  /\ UNCHANGED <<plugged, slot, tries, cool>>

\* Another client that shares the card (over PC/SC, or a gpg command multiplexed
\* by scdaemon) selects an applet, PIV or another; either way the PIN is forgotten.
SelectOther(d) ==
  /\ d \in plugged
  /\ \E s \in {"none", "piv"} : card' = [card EXCEPT ![d] = s]
  /\ UNCHANGED <<plugged, slot, tries, holder, cool>>
=============================================================================
