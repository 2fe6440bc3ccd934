----------------------------- MODULE DeriveIkm -----------------------------
(***************************************************************************)
(* `ykdf derive`, `pubkey`, `wg` and `sign` on the desktop, up to the      *)
(* point where the input key material is in memory: apps/cli/src/ikm.rs    *)
(* over crates/ykdf-yubikey (lib.rs, piv.rs, scd.rs and the retry loop of  *)
(* hmac.rs).  Each process of Proc runs one command after another.         *)
(*                                                                         *)
(* One action is one exchange with a device or with the user, so that      *)
(* another process, gpg, another application or the user's hands can act   *)
(* between any two of them.  An HMAC exchange is one action here; its      *)
(* frames are left out.                                                    *)
(***************************************************************************)
EXTENDS YubiKeyHost

CONSTANTS
  Proc,         \* ykdf processes
  Flag,         \* values given to --transport (None when absent or `auto`)
  Env,          \* values of YKDF_TRANSPORT (None when unset)
  BadPin,       \* a PIN of no length a card accepts
  RetryBudget   \* rounds for which a failed HMAC exchange is tried again

ASSUME DeriveAssumption ==
  /\ None \notin Proc \cup {"pcsc", "scdaemon"}
  /\ Flag \subseteq {None, "pcsc", "scdaemon"}
  /\ BadPin \notin Pin \cup {None}
  /\ RetryBudget \in Nat

VARIABLES
  pc,        \* where each process is
  req,       \* its request: layered or not, and the transport asked for
  pin,       \* the PIN typed
  chosen,    \* the transport chosen before the PIN prompt
  clock,     \* rounds left to the deadline of the HMAC retry loop
  hmac,      \* the HMAC factor read
  conn,      \* the device connected to; None when there is none, or no longer
  point,     \* the point read from its slot 9d certificate
  accepted,  \* the device that accepted this session's PIN
  outcome,   \* how the session ended
  ikm,       \* the input key material it returned
  noise      \* what others did to the host since the session began

link == <<chosen, clock, hmac, conn, point>>
answer == <<accepted, outcome, ikm>>
vars == <<hostVars, pc, req, pin, link, answer, noise>>

Kind == {"none", "ok", "interrupted", "DeviceNotFound", "SmartcardBusy", "WrongPin",
         "PinLocked", "NoCertificate", "InvalidPublicKey", "EcdhFailed", "HmacFailed",
         "Piv", "Scd"}
Place == {"idle", "selOpen", "selProbe", "selScd", "prompt", "hid", "pause", "open",
          "openProbe", "serialno", "verify", "cert", "ecdh", "touch", "done"}
Noise == {"quiet", "disturbed", "swapped"}
Ikm == [ecdh : SUBSET Key, hmac : Secret \cup {None}]

TypeOK ==
  /\ HostTypeOK
  /\ pc \in [Proc -> Place]
  /\ req \in [Proc -> [layered : BOOLEAN,
                       transport : {"auto", "pcsc", "scdaemon", "invalid"}]]
  /\ pin \in [Proc -> Pin \cup {BadPin, None}]
  /\ chosen \in [Proc -> {"pcsc", "scdaemon", None}]
  /\ clock \in [Proc -> 0 .. RetryBudget]
  /\ hmac \in [Proc -> Secret \cup {None}]
  /\ conn \in [Proc -> Device \cup {None}]
  /\ point \in [Proc -> Key \cup {None}]
  /\ accepted \in [Proc -> Device \cup {None}]
  /\ outcome \in [Proc -> Kind]
  /\ ikm \in [Proc -> Ikm \cup {None}]
  /\ noise \in [Proc -> Noise]

Init ==
  /\ HostInit
  /\ pc = [p \in Proc |-> "idle"]
  /\ req = [p \in Proc |-> [layered |-> FALSE, transport |-> "auto"]]
  /\ pin = [p \in Proc |-> None]
  /\ chosen = [p \in Proc |-> None]
  /\ clock = [p \in Proc |-> 0]
  /\ hmac = [p \in Proc |-> None]
  /\ conn = [p \in Proc |-> None]
  /\ point = [p \in Proc |-> None]
  /\ accepted = [p \in Proc |-> None]
  /\ outcome = [p \in Proc |-> "none"]
  /\ ikm = [p \in Proc |-> None]
  /\ noise = [p \in Proc |-> "quiet"]
-----------------------------------------------------------------------------
Active(p) == pc[p] \notin {"idle", "done"}

\* Whether others did anything to the host in this session, and whether they plugged
\* or unplugged a device.  Nothing is asked of a session once it is over.
Noisier(p, what) == IF ~Active(p) \/ noise[p] = "swapped" THEN "swapped" ELSE what

Goto(p, place) == pc' = [pc EXCEPT ![p] = place]

\* A blinking card serves nobody else: PC/SC clients wait for the transaction,
\* scdaemon for the APDU, and the OTP HID is silent.
CardIdle(d) == \A q \in Proc : ~(pc[q] = "touch" /\ conn[q] = d)

\* The cards ykdf processes hold over shared PC/SC connections.
Shared == {conn[q] : q \in {r \in Proc : chosen[r] = "pcsc"}} \ {None}

\* Closing a PC/SC connection resets its card; closing the gpg-agent socket does not.
CardAfterDrop(p) ==
  IF chosen[p] = "pcsc" /\ conn[p] \in Device
  THEN [card EXCEPT ![conn[p]] = "none"]
  ELSE card

\* The session returns: its connection is gone and its buffers are zeroized.
End(p, kind) ==
  /\ Goto(p, "done")
  /\ outcome' = [outcome EXCEPT ![p] = kind]
  /\ chosen' = [chosen EXCEPT ![p] = None]
  /\ clock' = [clock EXCEPT ![p] = 0]
  /\ hmac' = [hmac EXCEPT ![p] = None]
  /\ conn' = [conn EXCEPT ![p] = None]
  /\ point' = [point EXCEPT ![p] = None]
  /\ UNCHANGED <<plugged, slot, holder, req, pin>>

\* It returns an error that cost nothing on the device.
Quit(p, kind) == End(p, kind) /\ UNCHANGED <<tries, cool, accepted, ikm, noise>>

Fail(p, kind) == Quit(p, kind) /\ card' = CardAfterDrop(p)

\* The error of a PIV exchange that failed, by transport.
PivError(p) == IF chosen[p] = "pcsc" THEN "Piv" ELSE "Scd"
-----------------------------------------------------------------------------
(* Choosing the transport, before the PIN prompt. *)

\* An explicit flag wins over the environment, and both over auto-detection.
RequestedTransport(flag, env) ==
  CASE flag # None -> flag
    [] flag = None /\ env \in {None, "", "auto"} -> "auto"
    [] flag = None /\ env \in {"pcsc", "scdaemon"} -> env
    [] OTHER -> "invalid"

Start(p) ==
  /\ ~Active(p)
  /\ \E layered \in BOOLEAN, flag \in Flag, env \in Env :
       LET t == RequestedTransport(flag, env) IN
       /\ req' = [req EXCEPT ![p] = [layered |-> layered, transport |-> t]]
       /\ Goto(p, CASE t = "invalid" -> "done"
                    [] t = "scdaemon" -> "selScd"
                    [] OTHER -> "selOpen")
       /\ outcome' = [outcome EXCEPT ![p] = IF t = "invalid" THEN "Scd" ELSE "none"]
  /\ pin' = [pin EXCEPT ![p] = None]
  /\ accepted' = [accepted EXCEPT ![p] = None]
  /\ ikm' = [ikm EXCEPT ![p] = None]
  /\ noise' = [q \in Proc |->
                 IF q # p THEN Noisier(q, "disturbed")
                 ELSE IF \E r \in Proc \ {p} : Active(r) THEN "disturbed" ELSE "quiet"]
  /\ UNCHANGED <<hostVars, link>>

\* open_yubikey succeeds; the connection is dropped at once, which resets the card.
SelectOpen(p) ==
  /\ pc[p] = "selOpen"
  /\ \E d \in Openable :
       /\ CardIdle(d)
       /\ card' = [card EXCEPT ![d] = "none"]
  /\ chosen' = [chosen EXCEPT ![p] = "pcsc"]
  /\ Goto(p, "prompt")
  /\ UNCHANGED <<plugged, slot, tries, holder, cool, req, pin, clock, hmac, conn, point,
                 answer, noise>>

SelectOpenFails(p) ==
  /\ pc[p] = "selOpen"
  /\ OpenMayFail
  /\ Goto(p, "selProbe")
  /\ UNCHANGED <<hostVars, req, pin, link, answer, noise>>

\* A second look at the readers tells a busy card from an absent one.  It opens them in
\* turn, up to one that is held, and drops the connections, which resets their cards.
SmartcardBusy ==
  \E seen \in IF SharingViolation THEN SUBSET Openable ELSE {Openable} :
    /\ \A d \in seen : CardIdle(d)
    /\ card' = [d \in Device |-> IF d \in seen THEN "none" ELSE card[d]]

ProbeFails(p) == Quit(p, IF SharingViolation THEN "SmartcardBusy" ELSE "DeviceNotFound")

\* Only auto-detection then asks scdaemon.
SelectProbe(p) ==
  /\ pc[p] = "selProbe"
  /\ SmartcardBusy
  /\ \/ /\ SharingViolation
        /\ req[p].transport = "auto"
        /\ Goto(p, "selScd")
        /\ UNCHANGED <<plugged, slot, tries, holder, cool, req, pin, link, answer, noise>>
     \/ (SharingViolation => req[p].transport = "pcsc") /\ ProbeFails(p)

\* SCD SERIALNO answers OK: scdaemon holds the card, from now on if not before.
SelectScdaemon(p) ==
  /\ pc[p] = "selScd"
  /\ \E d \in ScdaemonReaches(Shared) :
       /\ CardIdle(d)
       /\ holder' = [holder EXCEPT ![d] = "scdaemon"]
       /\ card' = IF holder[d] = "free" THEN [card EXCEPT ![d] = "none"] ELSE card
  /\ chosen' = [chosen EXCEPT ![p] = "scdaemon"]
  /\ Goto(p, "prompt")
  /\ UNCHANGED <<plugged, slot, tries, cool, req, pin, clock, hmac, conn, point, answer,
                 noise>>

SelectScdaemonFails(p) ==
  /\ pc[p] = "selScd"
  /\ ScdaemonReaches(Shared) = {}
  /\ Fail(p, IF req[p].transport = "auto" THEN "SmartcardBusy" ELSE "Scd")

\* Where a session goes once it holds what precedes the PIV exchange.
PivEntry(p) == IF chosen[p] = "pcsc" THEN "open" ELSE "serialno"

EnterPin(p) ==
  /\ pc[p] = "prompt"
  /\ \E x \in Pin \cup {BadPin} : pin' = [pin EXCEPT ![p] = x]
  /\ clock' = [clock EXCEPT ![p] = IF req[p].layered THEN RetryBudget ELSE 0]
  /\ Goto(p, IF req[p].layered THEN "hid" ELSE PivEntry(p))
  /\ UNCHANGED <<hostVars, req, chosen, hmac, conn, point, answer, noise>>
-----------------------------------------------------------------------------
(* The HMAC factor over HID, first of the two. *)

\* The devices whose slot 2 would answer now.
Answering == {d \in plugged : slot[d].slot2 # None /\ cool[d] = 0 /\ CardIdle(d)}

HmacAnswered(p) ==
  /\ pc[p] = "hid"
  /\ \E d \in Answering : hmac' = [hmac EXCEPT ![p] = slot[d].slot2]
  /\ clock' = [clock EXCEPT ![p] = 0]
  /\ Goto(p, PivEntry(p))
  /\ UNCHANGED <<hostVars, req, pin, chosen, conn, point, answer, noise>>

\* Mutants: the deadline is never looked at; it is computed anew in each round; the
\* first error is returned; past the deadline the session goes on without the factor.
HmacFailsNeverEnds(p) ==
  /\ pc[p] = "hid"
  /\ Goto(p, "pause")
  /\ UNCHANGED <<hostVars, req, pin, link, answer, noise>>
HmacFailsRestartsClock(p) ==
  /\ pc[p] = "hid"
  /\ Goto(p, "pause")
  /\ clock' = [clock EXCEPT ![p] = RetryBudget]
  /\ UNCHANGED <<hostVars, req, pin, chosen, hmac, conn, point, answer, noise>>
HmacFailsAtOnce(p) ==
  /\ pc[p] = "hid"
  /\ Answering # plugged
  /\ Fail(p, "HmacFailed")
HmacFailsIsIgnored(p) ==
  /\ pc[p] = "hid"
  /\ clock' = [clock EXCEPT ![p] = 0]
  /\ Goto(p, PivEntry(p))
  /\ UNCHANGED <<hostVars, req, pin, chosen, hmac, conn, point, answer, noise>>

\* The exchange fails: the first node found belongs to a device that does not answer,
\* or nobody touches it.  Past the deadline the error is returned.
HmacFails(p) ==
  /\ pc[p] = "hid"
  /\ noise' = IF plugged # {} /\ Answering = plugged
              THEN [noise EXCEPT ![p] = Noisier(p, "disturbed")]
              ELSE noise
  /\ \/ /\ clock[p] > 0
        /\ Goto(p, "pause")
        /\ UNCHANGED <<hostVars, req, pin, link, answer>>
     \/ /\ clock[p] = 0
        /\ End(p, "HmacFailed")
        /\ UNCHANGED <<card, tries, cool, accepted, ikm>>

\* One round of the retry loop passes.  A process does not sleep through its turn.
Tick ==
  /\ \A p \in Proc : pc[p] # "hid"
  /\ (\E d \in Device : cool[d] > 0) \/ (\E p \in Proc : pc[p] = "pause")
  /\ cool' = [d \in Device |-> IF cool[d] > 0 THEN cool[d] - 1 ELSE 0]
  /\ clock' = [p \in Proc |-> IF pc[p] = "pause" THEN clock[p] - 1 ELSE clock[p]]
  /\ pc' = [p \in Proc |-> IF pc[p] = "pause" THEN "hid" ELSE pc[p]]
  /\ UNCHANGED <<plugged, slot, tries, holder, card, req, pin, chosen, hmac, conn, point,
                 answer, noise>>
-----------------------------------------------------------------------------
(* The PIV factor. *)

\* PC/SC: open_yubikey connects and selects the PIV applet.
Open(p) ==
  /\ pc[p] = "open"
  /\ \E d \in Openable :
       /\ CardIdle(d)
       /\ conn' = [conn EXCEPT ![p] = d]
       /\ card' = [card EXCEPT ![d] = "piv"]
  /\ Goto(p, "verify")
  /\ UNCHANGED <<plugged, slot, tries, holder, cool, req, pin, chosen, clock, hmac, point,
                 answer, noise>>

OpenFails(p) ==
  /\ pc[p] = "open"
  /\ OpenMayFail
  /\ Goto(p, "openProbe")
  /\ UNCHANGED <<hostVars, req, pin, link, answer, noise>>

OpenProbe(p) ==
  /\ pc[p] = "openProbe"
  /\ SmartcardBusy
  /\ ProbeFails(p)

\* Mutant: the PIN is verified first, as over PC/SC, and the certificate never read.
SerialnoSkipsCert(p) ==
  /\ pc[p] = "serialno"
  /\ \E d \in ScdaemonReaches(Shared) :
       /\ holder' = [holder EXCEPT ![d] = "scdaemon"]
       /\ conn' = [conn EXCEPT ![p] = d]
       /\ card' = [card EXCEPT ![d] = "piv"]
  /\ Goto(p, "verify")
  /\ UNCHANGED <<plugged, slot, tries, cool, req, pin, chosen, clock, hmac, point, answer,
                 noise>>

\* scdaemon: connect, SCD SERIALNO, SELECT the PIV applet.
Serialno(p) ==
  /\ pc[p] = "serialno"
  /\ \E d \in ScdaemonReaches(Shared) :
       /\ CardIdle(d)
       /\ holder' = [holder EXCEPT ![d] = "scdaemon"]
       /\ conn' = [conn EXCEPT ![p] = d]
       /\ card' = [card EXCEPT ![d] = "piv"]
  /\ Goto(p, "cert")
  /\ UNCHANGED <<plugged, slot, tries, cool, req, pin, chosen, clock, hmac, point, answer,
                 noise>>

SerialnoFails(p) ==
  /\ pc[p] = "serialno"
  /\ ScdaemonReaches(Shared) = {}
  /\ Fail(p, "Scd")

\* The connection still leads to a card with PIV selected, and nobody blocks it.
Reaches(p) == conn[p] \in Device /\ card[conn[p]] # "none" /\ CardIdle(conn[p])
Unreachable(p) == conn[p] \in Device => card[conn[p]] = "none"

\* A PIN of the wrong length is refused on the host, at no cost.
VerifyFails(p) ==
  /\ pc[p] = "verify"
  /\ Unreachable(p) \/ pin[p] = BadPin
  /\ Fail(p, PivError(p))

VerifyAccepted(p) ==
  /\ pc[p] = "verify"
  /\ Reaches(p)
  /\ PinAccepted(conn[p], pin[p])
  /\ tries' = [tries EXCEPT ![conn[p]] = TriesAfter(conn[p], pin[p])]
  /\ card' = [card EXCEPT ![conn[p]] = "verified"]
  /\ accepted' = [accepted EXCEPT ![p] = conn[p]]
  /\ Goto(p, IF chosen[p] = "pcsc" THEN "cert" ELSE "ecdh")
  /\ UNCHANGED <<plugged, slot, holder, cool, req, pin, link, outcome, ikm, noise>>

\* Mutant: the session tries the PIN again, on another card.
VerifyRefusedNextCard(p) ==
  /\ pc[p] = "verify"
  /\ Reaches(p)
  /\ pin[p] # BadPin
  /\ ~PinAccepted(conn[p], pin[p])
  /\ tries' = [tries EXCEPT ![conn[p]] = TriesAfter(conn[p], pin[p])]
  /\ conn' = [conn EXCEPT ![p] = None]
  /\ point' = [point EXCEPT ![p] = None]
  /\ Goto(p, PivEntry(p))
  /\ UNCHANGED <<plugged, slot, holder, card, cool, req, pin, chosen, clock, hmac, answer,
                 noise>>

\* 63Cx or 6983: the session ends, and over PC/SC the connection with it.
VerifyRefused(p) ==
  /\ pc[p] = "verify"
  /\ Reaches(p)
  /\ pin[p] # BadPin
  /\ ~PinAccepted(conn[p], pin[p])
  /\ tries' = [tries EXCEPT ![conn[p]] = TriesAfter(conn[p], pin[p])]
  /\ End(p, IF tries[conn[p]] = 0 THEN "PinLocked" ELSE "WrongPin")
  /\ card' = [card EXCEPT ![conn[p]] = IF chosen[p] = "pcsc" THEN "none" ELSE "piv"]
  /\ UNCHANGED <<cool, accepted, ikm, noise>>

\* There is no certificate in slot 9d, or not of a P-256 key.
CertError(d) == IF slot[d].cert = None THEN "NoCertificate" ELSE "InvalidPublicKey"

ReadCert(p) ==
  /\ pc[p] = "cert"
  /\ Reaches(p)
  /\ slot[conn[p]].cert \in Key
  /\ point' = [point EXCEPT ![p] = slot[conn[p]].cert]
  /\ Goto(p, IF chosen[p] = "pcsc" THEN "ecdh" ELSE "verify")
  /\ UNCHANGED <<hostVars, req, pin, chosen, clock, hmac, conn, answer, noise>>

ReadCertFails(p) ==
  /\ pc[p] = "cert"
  /\ \/ Unreachable(p) /\ Fail(p, PivError(p))
     \/ /\ Reaches(p)
        /\ slot[conn[p]].cert \notin Key
        /\ Fail(p, IF chosen[p] = "pcsc" THEN CertError(conn[p]) ELSE "Scd")

EcdhError(p) == IF chosen[p] = "pcsc" THEN "EcdhFailed" ELSE "Scd"

\* GENERAL AUTHENTICATE is accepted and the device starts to blink.
Blink(p) ==
  /\ pc[p] = "ecdh"
  /\ Reaches(p)
  /\ card[conn[p]] = "verified"
  /\ slot[conn[p]].key # None
  /\ Goto(p, "touch")
  /\ UNCHANGED <<hostVars, req, pin, link, answer, noise>>

EcdhFails(p) ==
  /\ pc[p] = "ecdh"
  /\ \/ Unreachable(p)
     \/ Reaches(p) /\ (card[conn[p]] # "verified" \/ slot[conn[p]].key = None)
  /\ Fail(p, EcdhError(p))

\* The touch: IKM = ECDH || HMAC, and the OTP HID falls silent.  With a touch
\* policy that asked for no touch it does not.
Touched(p) ==
  /\ pc[p] = "touch"
  /\ conn[p] # None
  /\ End(p, "ok")
  /\ card' = CardAfterDrop(p)
  /\ ikm' = [ikm EXCEPT ![p] = [ecdh |-> Ecdh(slot[conn[p]].key, point[p]),
                                hmac |-> hmac[p]]]
  /\ \E c \in {cool[conn[p]], Cooldown} : cool' = [cool EXCEPT ![conn[p]] = c]
  /\ UNCHANGED <<tries, accepted, noise>>

NotTouched(p) ==
  /\ pc[p] = "touch"
  /\ End(p, EcdhError(p))
  /\ card' = CardAfterDrop(p)
  /\ noise' = [noise EXCEPT ![p] = Noisier(p, "disturbed")]
  /\ UNCHANGED <<tries, cool, accepted, ikm>>

\* Ctrl-C, at the prompt or between any two exchanges.
Interrupt(p) ==
  /\ Active(p)
  /\ Fail(p, "interrupted")
-----------------------------------------------------------------------------
(* The rest of the host, and what it does to the sessions. *)

Disturb(what) == noise' = [p \in Proc |-> Noisier(p, what)]

Disconnect(procs) == conn' = [p \in Proc |-> IF p \in procs THEN None ELSE conn[p]]

On(d) == {p \in Proc : conn[p] = d}

Unmoved == UNCHANGED <<pc, req, pin, chosen, clock, hmac, point, answer>>

Plug(d) == Insert(d) /\ Disturb("swapped") /\ conn' = conn /\ Unmoved

Unplug(d) == Withdraw(d) /\ Disturb("swapped") /\ Disconnect(On(d)) /\ Unmoved

TakeCard(d) ==
  /\ \E who \in {"scdaemon", "other"} : Grab(d, who, Shared)
  /\ Disturb("disturbed") /\ conn' = conn /\ Unmoved

\* Sessions that scdaemon served lose their card with it.
ReleaseCard(d) == LetGo(d) /\ Disturb("disturbed") /\ Disconnect(On(d)) /\ Unmoved

\* It matters to the sessions connected to that card.
Meddle(d) ==
  /\ On(d) # {}
  /\ CardIdle(d)
  /\ SelectOther(d)
  /\ Disturb("disturbed") /\ conn' = conn /\ Unmoved

World(d) == Plug(d) \/ Unplug(d) \/ TakeCard(d) \/ ReleaseCard(d) \/ Meddle(d)

\* The steps a process takes without waiting for its user.
Step(p) ==
  \/ SelectOpen(p) \/ SelectOpenFails(p) \/ SelectProbe(p)
  \/ SelectScdaemon(p) \/ SelectScdaemonFails(p)
  \/ HmacAnswered(p) \/ HmacFails(p)
  \/ Open(p) \/ OpenFails(p) \/ OpenProbe(p) \/ Serialno(p) \/ SerialnoFails(p)
  \/ VerifyFails(p) \/ VerifyAccepted(p) \/ VerifyRefused(p)
  \/ ReadCert(p) \/ ReadCertFails(p)
  \/ Blink(p) \/ EcdhFails(p) \/ Touched(p) \/ NotTouched(p)

Next ==
  \/ \E p \in Proc : Start(p) \/ EnterPin(p) \/ Interrupt(p) \/ Step(p)
  \/ Tick
  \/ \E d \in Device : World(d)

Spec == Init /\ [][Next]_vars

\* A process that can run does, and time passes.  Nothing is assumed of the user: not
\* that a PIN is ever typed, nor that a blinking device is ever touched.
FairSpec == Spec /\ WF_vars(Tick) /\ \A p \in Proc : WF_vars(Step(p))
-----------------------------------------------------------------------------
(* Properties. *)

\* The places of a session that has a card, that has its certificate, and whose PIN
\* that card accepted; the two transports read the certificate and verify the PIN in
\* opposite orders.
HasCard(p) == pc[p] \in {"verify", "cert", "ecdh", "touch"}
HasPoint(p) ==
  pc[p] \in {"ecdh", "touch"} \/ (pc[p] = "verify" /\ chosen[p] = "scdaemon")
HasPin(p) ==
  pc[p] \in {"ecdh", "touch"} \/ (pc[p] = "cert" /\ chosen[p] = "pcsc")

\* What a session holds belongs to the one device it is connected to: the point it
\* will agree with is that card's certificate, the PIN it counts on was its own and
\* was accepted by that card, and a blinking card has a key (lib.rs:248-263,
\* scd.rs:73-79).  This is the inductive invariant behind the refinement below.
SessionOK(p) ==
  /\ pc[p] = "pause" => clock[p] > 0
  /\ conn[p] # None => HasCard(p)
  /\ Active(p) /\ pc[p] \notin {"selOpen", "selProbe", "selScd"} => chosen[p] # None
  /\ pc[p] \in {"open", "serialno"} => pc[p] = PivEntry(p)
  /\ HasPoint(p) /\ conn[p] # None => point[p] = slot[conn[p]].cert /\ point[p] # None
  /\ HasPin(p) /\ conn[p] # None => accepted[p] = conn[p]
  /\ accepted[p] # None => HasPin(p) \/ pc[p] = "done"
  /\ pc[p] = "touch" /\ conn[p] # None => slot[conn[p]].key # None
  /\ hmac[p] # None => \E d \in Device : hmac[p] = slot[d].slot2

SessionInv == \A p \in Proc : SessionOK(p)

\* Every session behaves as one request of IkmService, whatever the transport, the
\* other sessions, gpg, other applications and the user's hands do meanwhile.
Service == INSTANCE IkmService WITH busy <- [p \in Proc |-> Active(p)]
ServiceSpec == Service!Spec

\* As long as the one device in the port stays there, key material that a session
\* returns is the key material of that device: contention, peers and resets may cost
\* an error, never a wrong derivation (docs/hardware-acceptance.md:8-10).
RightIkm(p) ==
  \A d \in Device :
    plugged = {d} /\ noise[p] # "swapped" /\ outcome[p] = "ok" =>
      ikm[p] = [ecdh |-> {slot[d].key, slot[d].cert},
                hmac |-> IF req[p].layered THEN slot[d].slot2 ELSE None]

NoWrongIkm == \A p \in Proc : RightIkm(p)

\* The reference for a session nothing disturbs: which transport carries it, and the
\* first of its exchanges to fail.
Route(p, d) ==
  CASE holder[d] = "other" -> None
    [] holder[d] # "other" /\ req[p].transport = "scdaemon" -> "scdaemon"
    [] holder[d] = "free" /\ req[p].transport \in {"auto", "pcsc"} -> "pcsc"
    [] OTHER -> IF req[p].transport = "auto" THEN "scdaemon" ELSE None

PinVerdict(p, d) ==
  CASE tries[d] = 0 -> {"PinLocked"} \cup (IF pin[p] = PinOf[d] THEN {} ELSE {"WrongPin"})
    [] OTHER -> {"WrongPin"}

QuietOutcomeOn(p, d) ==
  CASE Route(p, d) = None ->
         {IF req[p].transport = "scdaemon" THEN "Scd" ELSE "SmartcardBusy"}
    [] Route(p, d) # None /\ req[p].layered /\ slot[d].slot2 = None -> {"HmacFailed"}
    [] OTHER ->
         IF Route(p, d) = "pcsc"
         THEN CASE pin[p] = BadPin -> {"Piv"}
                [] pin[p] # BadPin /\ (tries[d] = 0 \/ pin[p] # PinOf[d]) -> PinVerdict(p, d)
                [] OTHER -> {CASE slot[d].cert \notin Key -> CertError(d)
                               [] slot[d].cert \in Key /\ slot[d].key = None -> "EcdhFailed"
                               [] OTHER -> "ok"}
         ELSE CASE slot[d].cert \notin Key \/ pin[p] = BadPin -> {"Scd"}
                [] slot[d].cert \in Key /\ pin[p] # BadPin
                     /\ (tries[d] = 0 \/ pin[p] # PinOf[d]) -> PinVerdict(p, d)
                [] OTHER -> {IF slot[d].key = None THEN "Scd" ELSE "ok"}

\* A session that nothing disturbs ends in exactly the reference's way.  In particular
\* it never fails because an earlier session's touch silenced the OTP HID: the retry
\* loop outlasts the silence (hmac.rs:128-131, docs/transport-notes.md:70-80).
QuietOutcome ==
  \A p \in Proc :
    /\ pc[p] = "done" /\ noise[p] = "quiet" /\ outcome[p] # "interrupted"
    /\ req[p].transport # "invalid" /\ Cardinality(plugged) <= 1
    => outcome[p] \in
         IF plugged = {}
         THEN {IF req[p].transport = "scdaemon" THEN "Scd" ELSE "DeviceNotFound"}
         ELSE QuietOutcomeOn(p, CHOOSE d \in plugged : TRUE)

\* A session never hangs: it ends, unless it is waiting for its PIN
\* (hmac.rs:135-152, docs/transport-notes.md:56-57).
SessionEnds ==
  \A p \in Proc : (Active(p) /\ pc[p] # "prompt") ~> (pc[p] \in {"prompt", "done"})
=============================================================================
