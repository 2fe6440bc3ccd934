----------------------------- MODULE AndroidApp -----------------------------
(***************************************************************************)
(* apps/android, MainActivity.kt: the UI thread with its queue of posted   *)
(* runnables, the thread on which the NFC service calls onTag (one tag at  *)
(* a time), the document picker, and an Android that may recreate the      *)
(* activity whenever it likes: nothing in the manifest or the code keeps   *)
(* its state.  The old activity's thread then runs on, reads the old form  *)
(* and posts to a screen nobody sees; a picker that is open answers the    *)
(* new one.                                                                *)
(*                                                                         *)
(* A derivation is what it was computed from: the tap, and the fields of   *)
(* the form.  What happens on the radio is the module NfcSession.          *)
(***************************************************************************)
EXTENDS Integers, Sequences, TLC

CONSTANTS
  Purpose,  \* purposes the user may type
  Null,     \* nothing on the screen, in the file or in a field
  MaxTaps   \* a bound on the taps

VARIABLES
  form,      \* mode and fields, as the user left them
  screen,    \* what is shown
  picker,    \* the document picker is open
  file,      \* what was last saved
  queue,     \* runnables posted to the UI thread
  nfc,       \* the NFC thread
  taps,      \* taps so far
  revealed   \* history: the secret and the config that the user asked to see

appVars == <<form, screen, picker, file, queue, nfc, taps, revealed>>

Form == [mode : {"Derive", "WireGuard"}, purpose : Purpose, profile : {"x25519", "symmetric"},
         peerKey : BOOLEAN, peerFields : BOOLEAN]
DefaultForm == [mode : {"Derive"}, purpose : Purpose, profile : {"x25519"},
                peerKey : {FALSE}, peerFields : {TRUE}]
Material == [tap : 1 .. MaxTaps, purpose : Purpose, profile : {"x25519", "symmetric"}]
Config == [tap : 1 .. MaxTaps, purpose : Purpose, peer : BOOLEAN]

\* What the constants are: a bound, and an absence that is neither a form nor a result.
ASSUME AppAssumption ==
  /\ MaxTaps \in Nat
  /\ Null \notin Form \cup Material \cup Config

Blank == [status |-> "hint", output |-> Null, publicKey |-> Null, showSecret |-> FALSE,
          wgConfig |-> Null, wgQr |-> Null, showConfig |-> FALSE]
Asleep == [pc |-> "idle", live |-> TRUE, old |-> Null, secret |-> Null, hasKey |-> FALSE,
           hasFields |-> FALSE]

AppInit ==
  /\ form \in DefaultForm
  /\ screen = Blank
  /\ picker = FALSE
  /\ file = Null
  /\ queue = <<>>
  /\ nfc = Asleep
  /\ taps = 0
  /\ revealed = [secret |-> Null, config |-> Null]
-----------------------------------------------------------------------------
(* The UI thread. *)

\* A post of an activity that is gone changes a screen nobody sees.
Post(runnable) == queue' = IF nfc.live THEN Append(queue, runnable) ELSE queue

\* Mutant: a new config is shown as the old one was.
PostWireGuardKeepsMask(message, config, qr) ==
  [status |-> message, wgConfig |-> config, wgQr |-> qr]

\* Mutant: the message and the secret change places.
PostDeriveSwapped(message, hex, pub) ==
  [status |-> hex, output |-> message, publicKey |-> pub, showSecret |-> FALSE]

PostDerive(message, hex, pub) ==
  [status |-> message, output |-> hex, publicKey |-> pub, showSecret |-> FALSE]
PostWireGuard(message, config, qr) ==
  [status |-> message, wgConfig |-> config, wgQr |-> qr, showConfig |-> FALSE]

\* The next runnable assigns its part of the screen.
RunPosted ==
  /\ queue # <<>>
  /\ LET r == Head(queue) IN
       /\ screen' = [x \in DOMAIN screen |-> IF x \in DOMAIN r THEN r[x] ELSE screen[x]]
       /\ queue' = Tail(queue)
  /\ UNCHANGED <<form, picker, file, nfc, taps, revealed>>

Edit ==
  /\ ~picker
  /\ \/ \E m \in {"Derive", "WireGuard"} : form' = [form EXCEPT !.mode = m]
     \/ \E p \in Purpose : form' = [form EXCEPT !.purpose = p]
     \/ \E p \in {"x25519", "symmetric"} : form' = [form EXCEPT !.profile = p]
     \/ \E k \in BOOLEAN : form' = [form EXCEPT !.peerKey = k]
     \/ \E k \in BOOLEAN : form' = [form EXCEPT !.peerFields = k]
  /\ UNCHANGED <<screen, picker, file, queue, nfc, taps, revealed>>

ToggleSecret ==
  /\ ~picker /\ form.mode = "Derive" /\ screen.output # Null
  /\ screen' = [screen EXCEPT !.showSecret = ~@]
  /\ revealed' = [revealed EXCEPT !.secret = IF screen.showSecret THEN Null ELSE screen.output]
  /\ UNCHANGED <<form, picker, file, queue, nfc, taps>>

ToggleConfig ==
  /\ ~picker /\ form.mode = "WireGuard" /\ screen.wgConfig # Null
  /\ screen' = [screen EXCEPT !.showConfig = ~@]
  /\ revealed' = [revealed EXCEPT !.config = IF screen.showConfig THEN Null ELSE screen.wgConfig]
  /\ UNCHANGED <<form, picker, file, queue, nfc, taps>>

SaveConfig ==
  /\ ~picker /\ form.mode = "WireGuard" /\ screen.wgConfig # Null
  /\ picker' = TRUE
  /\ UNCHANGED <<form, screen, file, queue, nfc, taps, revealed>>

\* writeConfigTo writes whatever the field holds by then.
WriteConfigTo ==
  /\ picker
  /\ picker' = FALSE
  /\ \/ file' = screen.wgConfig /\ screen' = [screen EXCEPT !.status = "saved"]
     \/ file' = file /\ screen' = [screen EXCEPT !.status = "saveFailed"]
     \/ UNCHANGED <<file, screen>>
  /\ UNCHANGED <<form, queue, nfc, taps, revealed>>

\* A rotation, or the return from a picker under which the activity was destroyed.
Recreate ==
  /\ form' \in DefaultForm
  /\ screen' = Blank
  /\ queue' = <<>>
  /\ nfc' = IF nfc.pc # "idle" /\ nfc.live THEN [nfc EXCEPT !.live = FALSE, !.old = form]
            ELSE nfc
  /\ UNCHANGED <<picker, file, taps, revealed>>
-----------------------------------------------------------------------------
(* The NFC thread. *)

\* The form of the activity whose callback runs, read as it is at that moment.
Field == IF nfc.live THEN form ELSE nfc.old

OnTag ==
  /\ nfc.pc = "idle"
  /\ ~picker /\ taps < MaxTaps
  /\ taps' = taps + 1
  /\ \/ queue' = Append(queue, [status |-> "notIsoDep"]) /\ nfc' = nfc
     \/ queue' = Append(queue, [status |-> "reading"]) /\ nfc' = [Asleep EXCEPT !.pc = "read"]
  /\ UNCHANGED <<form, screen, picker, file, revealed>>

Quiet == UNCHANGED <<form, screen, picker, file, taps, revealed>>

\* deriveIkm returns after as long as it takes, or throws; only then is the mode read.
DeriveIkm ==
  /\ nfc.pc = "read"
  /\ nfc' = [nfc EXCEPT !.pc = IF Field.mode = "Derive" THEN "secret" ELSE "hasPeer"]
  /\ UNCHANGED queue /\ Quiet

Throws ==
  /\ nfc.pc \in {"read", "secret", "config"}
  /\ nfc' = [nfc EXCEPT !.pc = "caught"]
  /\ UNCHANGED queue /\ Quiet

\* runDerive reads profile and purpose once, for both calls.
DeriveSecret ==
  /\ nfc.pc = "secret"
  /\ nfc' = [nfc EXCEPT !.pc = "public",
               !.secret = [tap |-> taps, purpose |-> Field.purpose, profile |-> Field.profile]]
  /\ UNCHANGED queue /\ Quiet

\* Mutant: the profile is read again for the public key.
DerivePublicReadsAgain ==
  /\ nfc.pc = "public"
  /\ Post(PostDerive("derived", nfc.secret,
            IF Field.profile = "symmetric" THEN Null
            ELSE [nfc.secret EXCEPT !.profile = Field.profile]))
  /\ nfc' = Asleep
  /\ Quiet

\* derivePublic throws for a profile without a public key, and may throw for another
\* (the JVM's own exceptions); either way no public key is shown and the secret is.
DerivePublic ==
  /\ nfc.pc = "public"
  /\ \E pub \in IF nfc.secret.profile = "symmetric" THEN {Null} ELSE {Null, nfc.secret} :
       Post(PostDerive("derived", nfc.secret, pub))
  /\ nfc' = Asleep
  /\ Quiet

\* runWireGuard asks whether there is a peer key before it reads the fields it passes on.
HasPeer ==
  /\ nfc.pc = "hasPeer"
  /\ nfc' = [nfc EXCEPT !.pc = "config", !.hasKey = Field.peerKey,
                        !.hasFields = Field.peerFields]
  /\ UNCHANGED queue /\ Quiet

WgConfig ==
  /\ nfc.pc = "config"
  /\ LET c == [tap |-> taps, purpose |-> Field.purpose, peer |-> Field.peerKey] IN
     \E qr \in {c, Null} :
       Post(PostWireGuard(IF nfc.hasFields /\ ~nfc.hasKey THEN "noPeer" ELSE "ready", c, qr))
  /\ nfc' = Asleep
  /\ Quiet

\* Mutant: an error in WireGuard mode is only logged.
CaughtSilently ==
  /\ nfc.pc = "caught"
  /\ IF Field.mode = "Derive" THEN Post(PostDerive("error", Null, Null)) ELSE queue' = queue
  /\ nfc' = Asleep
  /\ Quiet

\* The mode is read again for the error.
Caught ==
  /\ nfc.pc = "caught"
  /\ Post(IF Field.mode = "Derive" THEN PostDerive("error", Null, Null)
          ELSE PostWireGuard("error", Null, Null))
  /\ nfc' = Asleep
  /\ Quiet
-----------------------------------------------------------------------------
NfcThread ==
  \/ DeriveIkm \/ Throws \/ DeriveSecret \/ DerivePublic \/ HasPeer \/ WgConfig \/ Caught

User == Edit \/ ToggleSecret \/ ToggleConfig \/ SaveConfig \/ WriteConfigTo \/ OnTag

AppNext == RunPosted \/ NfcThread \/ User \/ Recreate

AppSpec == AppInit /\ [][AppNext]_appVars

\* The UI thread runs what is posted; a tap ends, for its commands are
\* answered or throw TagLostException (NfcSession).
FairAppSpec == AppSpec /\ WF_appVars(RunPosted) /\ WF_appVars(NfcThread)
-----------------------------------------------------------------------------
Places == {"idle", "read", "secret", "public", "hasPeer", "config", "caught"}
Statuses == {"hint", "notIsoDep", "reading", "derived", "ready", "noPeer", "error", "saved",
             "saveFailed"}

AppTypeOK ==
  /\ form \in Form
  /\ screen \in [status : Statuses, output : Material \cup {Null},
                 publicKey : Material \cup {Null}, showSecret : BOOLEAN,
                 wgConfig : Config \cup {Null}, wgQr : Config \cup {Null},
                 showConfig : BOOLEAN]
  /\ file \in Config \cup {Null}
  /\ nfc.pc \in Places /\ nfc.old \in Form \cup {Null}
  /\ nfc.live \/ nfc.old # Null

\* What stands together on the screen is of one derivation, after any sequence of taps, edits
\* and errors: the public key is that of the secret above it, though the user may edit the
\* form while the key is read, and the QR code is that of the config, for an old one would
\* import another key (MainActivity.kt:169-183, 223-228).
SameDerivation ==
  /\ screen.output # Null /\ screen.publicKey # Null => screen.publicKey = screen.output
  /\ screen.wgQr # Null => screen.wgQr = screen.wgConfig

\* "It stays masked until the user reveals it": a secret or config is only readable if the
\* user asked for that very one to be shown, not for the one it replaced
\* (MainActivity.kt:101-102, 216-228).
MaskedUntilRevealed ==
  /\ screen.showSecret /\ screen.output # Null => revealed.secret = screen.output
  /\ screen.showConfig /\ screen.wgConfig # Null => revealed.config = screen.wgConfig

\* A tap is always answered: "Reading YubiKey..." does not stay (MainActivity.kt:147-159).
ReadingEnds == (screen.status = "reading") ~> (screen.status # "reading")

\* MainActivity.kt:72-74: what is saved as client.conf is a rendered config.
SavedIsConfig == screen.status = "saved" => file # Null
=============================================================================
