----------------------------- MODULE Provision -----------------------------
(***************************************************************************)
(* `ykdf init` and `ykdf clone`: apps/cli/src/init.rs and clone.rs over    *)
(* crates/ykdf-yubikey/src/provision.rs and the slot-2 write of hmac.rs.   *)
(* One process runs one command.  `init` is one attempt at one device;     *)
(* `clone` repeats the attempt for each device its user inserts, with one  *)
(* root key and one HMAC secret kept in memory.                            *)
(*                                                                         *)
(* An attempt is a dozen exchanges with a device, half of them writes,     *)
(* with two prompts in between.  Each is an action, after which the user   *)
(* may swap devices or press Ctrl-C and other programs may use the card.   *)
(***************************************************************************)
EXTENDS YubiKeyHost

CONSTANTS
  BadPin,    \* a PIN of no length a card accepts
  Root,      \* the key the command generates or imports
  Shared2,   \* the slot-2 secret it generates or reads
  MgmOf,     \* how each device's management key is kept
  Metadata,  \* the devices whose firmware tells what key a slot holds (5.2.3 and later)
  Options    \* the command lines considered

Option == [cmd : {"init", "clone"}, exportable : BOOLEAN, layered : BOOLEAN,
           generated : BOOLEAN, force : BOOLEAN, show : BOOLEAN, touch : BOOLEAN,
           mgm : {"auto", "protected", "derived", "explicit"}]

ASSUME ProvisionAssumption ==
  /\ BadPin \notin Pin \cup {None}
  /\ Root \in Key
  /\ Shared2 \in Secret
  /\ MgmOf \in [Device -> {"default", "protected", "derived", "custom"}]
  /\ Metadata \subseteq Device
  /\ Options \subseteq Option

VARIABLES
  opt,      \* the command line
  pc,       \* where the command is
  conn,     \* the device connected to; None when there is none, or no longer
  pin,      \* the PIN typed in this attempt
  auth,     \* the connection is authenticated with the management key
  consent,  \* the user asked for this attempt to overwrite slot 9d
  target,   \* the device whose slot 9d this attempt wrote
  before,   \* the devices' slots when this attempt began
  spoiled,  \* devices whose slot 9d an attempt wrote before it failed
  counted,  \* devices reported as cloned; was slot 2 written, with no other around?
  told,     \* secrets shown to the user
  outcome,  \* how the last attempt ended
  noise     \* what others did to the host since the attempt began

attempt == <<conn, pin, auth, consent, target, before>>
report == <<spoiled, counted, told, outcome>>
vars == <<hostVars, opt, pc, attempt, report, noise>>

Kind == {"none", "ok", "finished", "interrupted", "DeviceNotFound", "SmartcardBusy",
         "SlotOccupied", "SecretFileRead", "WrongPin", "PinLocked", "Piv",
         "MgmtAuthFailed", "MgmtKeyUnavailable", "ProvisionFailed", "NoCertificate",
         "HmacProgramFailed"}
Place == {"insert", "open", "probe", "check", "overwrite", "pin", "verify", "mgm", "key",
          "sign", "cert", "readBack", "slot2", "hid", "done"}

TypeOK ==
  /\ HostTypeOK
  /\ opt \in Options
  /\ pc \in Place
  /\ conn \in Device \cup {None}
  /\ pin \in Pin \cup {BadPin, None}
  /\ auth \in BOOLEAN
  /\ consent \in BOOLEAN
  /\ target \in Device \cup {None}
  /\ before \in [Device -> Content]
  /\ spoiled \subseteq Device
  /\ counted \subseteq [dev : Device, slot2 : BOOLEAN]
  /\ told \subseteq {"key", "slot2"}
  /\ outcome \in Kind
  /\ noise \in {"quiet", "disturbed", "swapped"}

Init ==
  /\ HostInit
  /\ opt \in Options
  /\ pc = IF opt.cmd = "init" THEN "open" ELSE "insert"
  /\ conn = None
  /\ pin = None
  /\ auth = FALSE
  /\ consent = opt.force
  /\ target = None
  /\ before = slot
  /\ spoiled = {}
  /\ counted = {}
  /\ told = {}
  /\ outcome = "none"
  /\ noise = "quiet"
-----------------------------------------------------------------------------
Goto(place) == pc' = place

Quieter == UNCHANGED <<opt, before, noise>>

\* Dropping the connection resets the card.
CardAfterDrop == IF conn \in Device THEN [card EXCEPT ![conn] = "none"] ELSE card

\* The attempt returns: `init` with it, `clone` to its prompt for the next device.
Return(kind) ==
  /\ Goto(IF opt.cmd = "clone" /\ kind # "interrupted" THEN "insert" ELSE "done")
  /\ outcome' = kind
  /\ conn' = None
  /\ auth' = FALSE
  /\ pin' = None
  /\ consent' = opt.force
  /\ UNCHANGED <<opt, target, before>>

\* Mutant: the device is reported as half-provisioned whatever the error.
FailSpoils(kind) ==
  /\ Return(kind)
  /\ card' = CardAfterDrop
  /\ spoiled' = spoiled \cup {target}
  /\ UNCHANGED <<plugged, slot, tries, holder, cool, counted, told, noise>>

\* It returns an error; a device is spoiled if the new key is in and the rest is not.
Fail(kind) ==
  /\ Return(kind)
  /\ card' = CardAfterDrop
  /\ spoiled' = IF target = None THEN spoiled ELSE spoiled \cup {target}
  /\ UNCHANGED <<plugged, slot, tries, holder, cool, counted, told, noise>>

\* The connection still leads to a card with PIV selected.
Reaches == conn \in Device /\ card[conn] # "none"
-----------------------------------------------------------------------------
(* The clone loop around the attempts. *)

\* Enter: the next device.
NextDevice ==
  /\ pc = "insert"
  /\ Goto("open")
  /\ outcome' = "none"
  /\ pin' = None
  /\ consent' = opt.force
  /\ target' = None
  /\ before' = slot
  /\ noise' = "quiet"
  /\ UNCHANGED <<hostVars, opt, conn, auth, spoiled, counted, told>>

\* `q`, or the end of stdin.
Quit ==
  /\ pc = "insert"
  /\ Goto("done")
  /\ outcome' = "finished"
  /\ told' = IF opt.show /\ counted # {}
             THEN {"key"} \cup (IF opt.layered THEN {"slot2"} ELSE {})
             ELSE told
  /\ UNCHANGED <<hostVars, opt, attempt, spoiled, counted, noise>>
-----------------------------------------------------------------------------
(* Opening a device, and the guard before its slot 9d is overwritten. *)

Open ==
  /\ pc = "open"
  /\ \E d \in Openable :
       /\ conn' = d
       /\ card' = [card EXCEPT ![d] = "piv"]
  /\ Goto("check")
  /\ UNCHANGED <<plugged, slot, tries, holder, cool, pin, auth, consent, target, report>>
  /\ Quieter

OpenFails ==
  /\ pc = "open"
  /\ OpenMayFail
  /\ Goto("probe")
  /\ UNCHANGED <<hostVars, opt, attempt, report, noise>>

\* The second look resets the cards it can open; this command has none of them open.
OpenProbe ==
  /\ pc = "probe"
  /\ Fail(IF SharingViolation THEN "SmartcardBusy" ELSE "DeviceNotFound")

\* Mutant: only the certificate is looked for.
OccupiedByCert == Reaches /\ slot[conn].cert # None

\* Key metadata or a certificate can be read.  Any error counts as "not occupied", so
\* does a firmware without metadata: of a device outside Metadata only the certificate
\* is seen.
Slot9dOccupied ==
  /\ Reaches
  /\ (conn \in Metadata /\ slot[conn].key # None) \/ slot[conn].cert # None

\* `init` refuses without --force, `clone` asks.
CheckSlot ==
  /\ pc = "check"
  /\ \/ /\ ~Slot9dOccupied \/ opt.force
        /\ Goto("pin")
        /\ UNCHANGED <<hostVars, opt, attempt, report, noise>>
     \/ /\ Slot9dOccupied /\ ~opt.force /\ opt.cmd = "clone"
        /\ Goto("overwrite")
        /\ UNCHANGED <<hostVars, opt, attempt, report, noise>>
     \/ Slot9dOccupied /\ ~opt.force /\ opt.cmd = "init" /\ Fail("SlotOccupied")

ConfirmOverwrite ==
  /\ pc = "overwrite"
  /\ \/ /\ Goto("pin")
        /\ consent' = TRUE
        /\ UNCHANGED <<hostVars, conn, pin, auth, target, report>>
        /\ Quieter
     \/ Fail("SlotOccupied")

\* `clone` reads its management key file anew for each device.
EnterPin ==
  /\ pc = "pin"
  /\ \/ /\ \E x \in Pin \cup {BadPin} : pin' = x
        /\ Goto("verify")
        /\ UNCHANGED <<hostVars, conn, auth, consent, target, report>>
        /\ Quieter
     \/ opt.cmd = "clone" /\ opt.mgm = "explicit" /\ Fail("SecretFileRead")
-----------------------------------------------------------------------------
(* Provisioning slot 9d: PIN, management key, key, certificate, read-back. *)

VerifyAccepted ==
  /\ pc = "verify"
  /\ Reaches
  /\ PinAccepted(conn, pin)
  /\ tries' = [tries EXCEPT ![conn] = TriesAfter(conn, pin)]
  /\ card' = [card EXCEPT ![conn] = "verified"]
  /\ Goto("mgm")
  /\ UNCHANGED <<plugged, slot, holder, cool, attempt, report>>
  /\ Quieter

VerifyRefused ==
  /\ pc = "verify"
  /\ Reaches
  /\ pin # BadPin
  /\ ~PinAccepted(conn, pin)
  /\ tries' = [tries EXCEPT ![conn] = TriesAfter(conn, pin)]
  /\ card' = CardAfterDrop
  /\ Return(IF tries[conn] = 0 THEN "PinLocked" ELSE "WrongPin")
  /\ UNCHANGED <<plugged, slot, holder, cool, spoiled, counted, told, noise>>

VerifyFails ==
  /\ pc = "verify"
  /\ ~Reaches \/ pin = BadPin
  /\ Fail("Piv")

\* Auto tries the factory default, then the protected key, then the derived one; the
\* last two take a verified PIN, and a wrong explicit key is refused.
MgmError ==
  LET kept == IF Reaches THEN MgmOf[conn] ELSE "custom"
      gated == Reaches /\ card[conn] = "verified"
  IN  CASE opt.mgm = "auto" ->
             IF kept = "default" \/ (gated /\ kept # "custom") THEN "none" ELSE "MgmtAuthFailed"
        [] opt.mgm \in {"protected", "derived"} ->
             IF gated /\ kept = opt.mgm THEN "none" ELSE "MgmtKeyUnavailable"
        [] OTHER -> IF Reaches /\ kept = "custom" THEN "none" ELSE "MgmtAuthFailed"

AuthenticateMgm ==
  /\ pc = "mgm"
  /\ \/ /\ MgmError = "none"
        /\ auth' = TRUE
        /\ Goto("key")
        /\ UNCHANGED <<hostVars, conn, pin, consent, target, report>>
        /\ Quieter
     \/ MgmError # "none" /\ Fail(MgmError)

\* Generated on the device or imported, the new key replaces the old one; the
\* certificate that is there stays.
WriteKey ==
  /\ pc = "key"
  /\ \/ /\ Reaches /\ auth
        /\ slot' = [slot EXCEPT ![conn].key = Root]
        /\ target' = conn
        /\ Goto("sign")
        /\ UNCHANGED <<plugged, tries, holder, card, cool, conn, pin, auth, consent, report>>
        /\ Quieter
     \/ ~(Reaches /\ auth) /\ Fail("ProvisionFailed")

\* The new key signs its own certificate, which takes the PIN and, by its policy, a
\* touch; the touch silences the OTP HID.
SignCert ==
  /\ pc = "sign"
  /\ \/ /\ Reaches /\ card[conn] = "verified"
        /\ cool' = [cool EXCEPT ![conn] = IF opt.touch THEN Cooldown ELSE @]
        /\ Goto("cert")
        /\ UNCHANGED <<plugged, slot, tries, holder, card, attempt, report>>
        /\ Quieter
     \/ ~Reaches /\ Fail("ProvisionFailed")
     \/ Reaches /\ card[conn] # "verified" /\ Fail("ProvisionFailed")

\* Nobody touches the device.
SignTimesOut ==
  /\ pc = "sign"
  /\ opt.touch
  /\ noise' = IF noise = "swapped" THEN noise ELSE "disturbed"
  /\ Return("ProvisionFailed")
  /\ card' = CardAfterDrop
  /\ spoiled' = spoiled \cup {target}
  /\ UNCHANGED <<plugged, slot, tries, holder, cool, counted, told>>

\* Mutant: a certificate that is there already is kept.
WriteCertOnce ==
  /\ pc = "cert"
  /\ Reaches
  /\ slot' = [slot EXCEPT ![conn].cert = IF @ = None THEN slot[conn].key ELSE @]
  /\ Goto("readBack")
  /\ UNCHANGED <<plugged, tries, holder, card, cool, attempt, report>>
  /\ Quieter

WriteCert ==
  /\ pc = "cert"
  /\ \/ /\ Reaches /\ auth
        /\ slot' = [slot EXCEPT ![conn].cert = Root]
        /\ Goto("readBack")
        /\ UNCHANGED <<plugged, tries, holder, card, cool, attempt, report>>
        /\ Quieter
     \/ ~(Reaches /\ auth) /\ Fail("ProvisionFailed")
-----------------------------------------------------------------------------
(* After slot 9d: the connection is dropped, and slot 2 is written over HID to   *)
(* the first YubiKey found.                                                      *)

\* The attempt succeeds: `init` says so and shows the secret it generated, `clone`
\* counts the device.
Succeed(written) ==
  /\ Goto(IF opt.cmd = "clone" THEN "insert" ELSE "done")
  /\ outcome' = "ok"
  /\ pin' = None
  /\ consent' = opt.force
  /\ spoiled' = spoiled \ {target}
  /\ counted' =
       IF opt.cmd = "clone"
       THEN counted \cup {[dev |-> target,
                           slot2 |-> written /\ plugged = {target} /\ noise # "swapped"]}
       ELSE counted
  /\ Quieter

\* `init --exportable` shows the scalar as soon as slot 9d is done.
ToldKey == IF opt.cmd = "init" /\ opt.exportable THEN told \cup {"key"} ELSE told

ReadBack ==
  /\ pc = "readBack"
  /\ \/ /\ Reaches
        /\ conn' = None
        /\ auth' = FALSE
        /\ card' = CardAfterDrop
        /\ told' = ToldKey
        /\ \/ ~opt.layered /\ Succeed(FALSE)
           \/ /\ opt.layered
              /\ Goto(IF opt.force THEN "hid" ELSE "slot2")
              /\ UNCHANGED <<pin, consent, spoiled, counted, outcome>>
              /\ Quieter
        /\ UNCHANGED <<plugged, slot, tries, holder, cool, target>>
     \/ ~Reaches /\ Fail("Piv")

\* Mutant: the generated secret is shown before it is written.
ConfirmSlot2Early ==
  /\ pc = "slot2"
  /\ Goto("hid")
  /\ told' = told \cup {"slot2"}
  /\ UNCHANGED <<hostVars, conn, pin, auth, consent, target, spoiled, counted, outcome>>
  /\ Quieter

\* Slot 2 cannot be read, so its overwriting always takes a YES.
ConfirmSlot2 ==
  /\ pc = "slot2"
  /\ \/ /\ Goto("hid")
        /\ UNCHANGED <<pin, consent, report>>
        /\ Quieter
     \/ Succeed(FALSE) /\ told' = told
  /\ UNCHANGED <<hostVars, conn, auth, target>>

ProgramSlot2 ==
  /\ pc = "hid"
  /\ \E d \in plugged :
       /\ cool[d] = 0
       /\ slot' = [slot EXCEPT ![d].slot2 = Shared2]
  /\ Succeed(TRUE)
  /\ told' = IF opt.cmd = "init" /\ opt.generated THEN told \cup {"slot2"} ELSE told
  /\ UNCHANGED <<plugged, tries, holder, card, cool, conn, auth, target>>

\* Mutant: a YubiKey that is not found is reported as it is when slot 9d is opened.
ProgramFailsUnmapped ==
  /\ pc = "hid"
  /\ plugged = {} \/ \E d \in plugged : cool[d] > 0
  /\ Fail(IF plugged = {} THEN "DeviceNotFound" ELSE "HmacProgramFailed")

\* No YubiKey, or one that stays silent for the 2 s the write waits; it is not retried.
ProgramFails ==
  /\ pc = "hid"
  /\ plugged = {} \/ \E d \in plugged : cool[d] > 0
  /\ Fail("HmacProgramFailed")

\* Mutant: the wait after the last report of the frame is not checked.
ProgramBreaksUnseen ==
  /\ pc = "hid"
  /\ plugged # {}
  /\ Succeed(TRUE)
  /\ told' = told
  /\ UNCHANGED <<hostVars, conn, auth, target>>

\* An I/O error, before or after the device has taken the frame.
ProgramBreaks ==
  /\ pc = "hid"
  /\ \E d \in plugged, s \in BOOLEAN :
       slot' = IF s THEN [slot EXCEPT ![d].slot2 = Shared2] ELSE slot
  /\ noise' = IF noise = "swapped" THEN noise ELSE "disturbed"
  /\ Return("HmacProgramFailed")
  /\ spoiled' = spoiled \cup {target}
  /\ UNCHANGED <<plugged, tries, holder, card, cool, counted, told>>

\* Ctrl-C.
Interrupt ==
  /\ pc # "done"
  /\ Fail("interrupted")
-----------------------------------------------------------------------------
(* The rest of the host. *)

\* Time passes: at a prompt, or while the card works.
Tick ==
  /\ pc \notin {"hid", "done"}
  /\ \E d \in Device : cool[d] > 0
  /\ cool' = [d \in Device |-> IF cool[d] > 0 THEN cool[d] - 1 ELSE 0]
  /\ UNCHANGED <<plugged, slot, tries, holder, card, opt, pc, attempt, report, noise>>

Disturb(what) ==
  /\ noise' = IF noise = "swapped" \/ pc = "insert" THEN noise ELSE what
  /\ UNCHANGED <<opt, pc, pin, consent, target, before, report>>

Plug(d) == Insert(d) /\ Disturb("swapped") /\ UNCHANGED <<conn, auth>>

Unplug(d) ==
  /\ Withdraw(d)
  /\ conn' = IF conn = d THEN None ELSE conn
  /\ auth' = (auth /\ conn # d)
  /\ Disturb("swapped")

\* scdaemon or another application: to this command they are the same.
TakeCard(d) ==
  /\ Grab(d, "scdaemon", {conn})
  /\ Disturb("disturbed") /\ UNCHANGED <<conn, auth>>

ReleaseCard(d) == LetGo(d) /\ Disturb("disturbed") /\ UNCHANGED <<conn, auth>>

\* Another client selects an applet on the card of this attempt.
Meddle(d) ==
  /\ conn = d
  /\ SelectOther(d)
  /\ auth' = FALSE
  /\ Disturb("disturbed") /\ conn' = conn

\* Once the command is over nobody watches.
World(d) ==
  /\ pc # "done"
  /\ Plug(d) \/ Unplug(d) \/ TakeCard(d) \/ ReleaseCard(d) \/ Meddle(d)

Next ==
  \/ NextDevice \/ Quit
  \/ Open \/ OpenFails \/ OpenProbe \/ CheckSlot \/ ConfirmOverwrite \/ EnterPin
  \/ VerifyAccepted \/ VerifyRefused \/ VerifyFails \/ AuthenticateMgm
  \/ WriteKey \/ SignCert \/ SignTimesOut \/ WriteCert \/ ReadBack
  \/ ConfirmSlot2 \/ ProgramSlot2 \/ ProgramFails \/ ProgramBreaks
  \/ Interrupt \/ Tick
  \/ \E d \in Device : World(d)

Spec == Init /\ [][Next]_vars
-----------------------------------------------------------------------------
(* Properties. *)

\* Every device that `clone` counted holds the root, its certificate holds the root's
\* point, and its slot 2 the shared secret if the user let it be written while no other
\* device was, or had been, in a port; later attempts, whatever becomes of them, do not
\* undo it (clone.rs:75-93, 122-133).
CountedAreClones ==
  \A c \in counted :
    /\ slot[c.dev].key = Root /\ slot[c.dev].cert = Root
    /\ c.slot2 => slot[c.dev].slot2 = Shared2

\* A certificate that is not of its own slot's key makes every later derivation wrong
\* without an error.  No attempt leaves one behind and reports success: it is there
\* only inside an attempt, or on a device whose last attempt failed, until an attempt
\* on that device succeeds (provision.rs:156-168, 222-235).
MismatchIsReported ==
  \A d \in Device :
    slot[d].key # slot[d].cert /\ slot[d].cert # None =>
      d \in spoiled \/ (d = target /\ pc \in {"sign", "cert"})

\* An attempt refused for its PIN, its management key or an occupied slot has written
\* nothing to any device (provision.rs:153-156, 219-222; init.rs:45-50).
RefusalWritesNothing ==
  outcome \in {"DeviceNotFound", "SmartcardBusy", "SlotOccupied", "SecretFileRead",
               "WrongPin", "PinLocked", "MgmtAuthFailed", "MgmtKeyUnavailable"}
    => slot = before

\* What `init` shows as the only copy of a secret is in a device (init.rs:103-129).
ToldIsWritten ==
  opt.cmd = "init" =>
    /\ "key" \in told => slot[target].key = Root /\ slot[target].cert = Root
    /\ "slot2" \in told => \E d \in Device : slot[d].slot2 = Shared2

\* As long as nobody else uses the card, a key in slot 9d that can be seen, by the
\* metadata of the slot or by its certificate, is only replaced when the user asked for
\* it (init.rs:45-50, clone.rs:108-110).  On firmware before 5.2.3 a key without a
\* certificate cannot be seen and is replaced unasked (provision.rs:130-133).
NoClobber ==
  [][\A d \in Device :
       /\ slot[d].key \notin {None, slot'[d].key}
       /\ d \in Metadata \/ slot[d].cert # None
       /\ noise = "quiet"
       => consent]_vars

\* docs/provisioning.md:60 says it without that condition.
OccupiedSlotKept ==
  opt.cmd = "init" /\ ~opt.force /\ target # None =>
    before[target].key \in {None, slot[target].key}

\* clone.rs:150-152: all the devices counted derive byte-identical keys;
\* docs/provisioning.md:131-132: the same slot-2 secret is programmed on each.
ClonesAreIdentical ==
  outcome = "finished" /\ opt.layered =>
    \A c1, c2 \in counted : slot[c1.dev].slot2 = slot[c2.dev].slot2
=============================================================================
