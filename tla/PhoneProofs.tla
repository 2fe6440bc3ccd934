----------------------------- MODULE PhoneProofs -----------------------------
(***************************************************************************)
(* Proofs about the three layers of the Android app: a tap (NfcSession),   *)
(* for every set of YubiKeys, every contents of their slots, every PIN and *)
(* every number of attempts a card grants; the activity and its threads    *)
(* (AndroidApp), for every set of purposes and any number of taps, however *)
(* the user's edits, the thread that reads the key, the runnables it posts *)
(* and the loss of the activity interleave; and the native methods         *)
(* (JniBridge), for all their arguments and any number of calls.           *)
(***************************************************************************)
EXTENDS NfcSession, AndroidApp, JniBridge, TLAPS

(* NfcSession *)

\* From the connection to the end of the tap: the tag is that of the key tapped, or lost;
\* the PIN is reached only past a certificate of an EC key; what was read is that key's; and before
\* the PIN goes out no counter has moved.
TapInv ==
  /\ before \in [Device -> 0 .. MaxTries]
  /\ pc # "idle" => tapped \in Device /\ tag \in {tapped, None}
  /\ pc \in {"verify", "ecdh", "selectOtp", "hmac"} => slot[tapped].cert \in Key
  /\ pc \in {"selectOtp", "hmac"} =>
       /\ req.layered
       /\ slot[tapped].key # None
       /\ ecdh = Ecdh(slot[tapped].key, slot[tapped].cert)
  /\ pc \in {"selectPiv", "cert"} \/ (pc = "verify" /\ tag # None) => tries = before

NfcIInv == TypeOK /\ TapInv /\ NfcKeyMaterial /\ PinOfferedOnce

\* No key has been tapped yet.
LEMMA InitNfcIInv == Init => NfcIInv
<1> SUFFICES ASSUME Init PROVE NfcIInv
  OBVIOUS
<1> USE HostAssumption DEF HostAssumption, Init, HostInit
<1>1. TypeOK
  BY DEF TypeOK, HostTypeOK
<1>2. TapInv /\ NfcKeyMaterial /\ PinOfferedOnce
  BY DEF TapInv, NfcKeyMaterial, PinOfferedOnce
<1> QED
  BY <1>1, <1>2 DEF NfcIInv

\* A verification leaves a number of attempts a card can have: one less, if it refuses the
\* PIN and had any left.
LEMMA TriesCounted ==
  ASSUME TypeOK, NEW d \in Device, NEW p
  PROVE  /\ TriesAfter(d, p) \in 0 .. MaxTries
         /\ TriesAfter(d, p) < tries[d] => TriesAfter(d, p) = tries[d] - 1
BY HostAssumption DEF HostAssumption, TypeOK, HostTypeOK, TriesAfter

\* The two factors of a key with a certificate are of the types the tap returns.
LEMMA FactorTypes ==
  ASSUME TypeOK, NEW d \in Device, slot[d].key # None, slot[d].cert \in Key
  PROVE  Ecdh(slot[d].key, slot[d].cert) \in SUBSET Key
BY DEF TypeOK, HostTypeOK, Content, Ecdh

\* No step writes a slot.
LEMMA SlotsStay == Next => slot' = slot
BY DEF Next, Command, Connect, TagLost, SelectPiv, ReadSlot9dPublicPoint, VerifyPin, VerifyLost,
  GeneralAuthenticate, SelectOtp, HmacSlot2, Present, Leave, Insert, Withdraw, Select, hostVars
-----------------------------------------------------------------------------
\* One step per action.
LEMMA TypeStep ==
  ASSUME NfcIInv, Next
  PROVE  TypeOK'
<1> USE DEF NfcIInv, TypeOK, HostTypeOK, hostVars, session, Throw, End
<1>1. CASE Connect
  <2>1. PICK l \in BOOLEAN, p \in Pin \cup {BadPin} : req' = [layered |-> l, pin |-> p]
    BY <1>1 DEF Connect
  <2>2. req' \in [layered : BOOLEAN, pin : Pin \cup {BadPin, None}]
    BY <2>1
  <2> QED
    BY <1>1, <2>2 DEF Connect
<1>2. CASE TagLost
  BY <1>2 DEF TagLost
<1>3. CASE SelectPiv
  BY <1>3 DEF SelectPiv, Select
<1>4. CASE ReadSlot9dPublicPoint
  BY <1>4 DEF ReadSlot9dPublicPoint
<1>5. CASE VerifyPin
  <2>1. tries' \in [Device -> 0 .. MaxTries]
    BY <1>5, TriesCounted DEF VerifyPin
  <2> QED
    BY <1>5, <2>1 DEF VerifyPin, Answered
<1>6. CASE VerifyLost
  <2>1. tries' \in [Device -> 0 .. MaxTries]
    BY <1>6, TriesCounted DEF VerifyLost
  <2> QED
    BY <1>6, <2>1 DEF VerifyLost
<1>7. CASE GeneralAuthenticate
  <2>1. tag \in Device /\ slot[tag].cert \in Key
    BY <1>7 DEF GeneralAuthenticate, TapInv
  <2>2. slot[tag].key # None => Ecdh(slot[tag].key, slot[tag].cert) \in SUBSET Key
    BY <2>1, FactorTypes
  <2> QED
    BY <1>7, <2>2 DEF GeneralAuthenticate
<1>8. CASE SelectOtp
  BY <1>8 DEF SelectOtp, Select
<1>9. CASE HmacSlot2
  <2>1. tag \in Device
    BY <1>9 DEF HmacSlot2
  <2> QED
    BY <1>9, <2>1 DEF HmacSlot2, Content
<1>10. ASSUME NEW d \in Device, Present(d) PROVE TypeOK'
  BY <1>10 DEF Present, Insert
<1>11. ASSUME NEW d \in Device, Leave(d) PROVE TypeOK'
  BY <1>11, HostAssumption DEF HostAssumption, Leave, Withdraw
<1> QED
  BY <1>1, <1>2, <1>3, <1>4, <1>5, <1>6, <1>7, <1>8, <1>9, <1>10, <1>11 DEF Next, Command

\* The end of a tap that fails changes nothing the invariant is about.
LEMMA ThrowKeeps ==
  ASSUME NfcIInv, NEW result, result # "ok", Throw(result), slot' = slot,
         UNCHANGED <<before, tapped>>
  PROVE  TapInv' /\ NfcKeyMaterial'
BY DEF NfcIInv, Throw, End, TapInv, NfcKeyMaterial

\* One step per action; PinOfferedOnce is a lemma of its own.
LEMMA TapStep ==
  ASSUME NfcIInv, Next
  PROVE  TapInv' /\ NfcKeyMaterial'
<1>0. slot' = slot
  BY SlotsStay
<1> USE <1>0 DEF NfcIInv, TapInv, NfcKeyMaterial
<1>1. CASE Connect
  BY <1>1 DEF Connect, TypeOK, HostTypeOK, hostVars
<1>2. CASE TagLost
  BY <1>2, ThrowKeeps DEF TagLost
<1>3. CASE SelectPiv
  <2>1. CASE Throw("SelectFailed")
    BY <1>3, <2>1, ThrowKeeps DEF SelectPiv, Select
  <2>2. CASE pc' = "cert" /\ UNCHANGED <<req, tag, ecdh, outcome, ikm>>
    BY <1>3, <2>2 DEF SelectPiv, Select
  <2> QED
    BY <1>3, <2>1, <2>2 DEF SelectPiv, Select
<1>4. CASE ReadSlot9dPublicPoint
  BY <1>4, ThrowKeeps DEF ReadSlot9dPublicPoint, hostVars
<1>5. CASE VerifyPin
  <2>1. CASE Throw("IllegalArgument") \/ Throw("PinLocked") \/ Throw("WrongPin")
    BY <1>5, <2>1, ThrowKeeps DEF VerifyPin
  <2>2. CASE pc' = "ecdh" /\ UNCHANGED <<req, tag, ecdh, outcome, ikm>>
    BY <1>5, <2>2 DEF VerifyPin
  <2> QED
    BY <1>5, <2>1, <2>2 DEF VerifyPin, Answered
<1>6. CASE VerifyLost
  BY <1>6 DEF VerifyLost
<1>7. CASE GeneralAuthenticate
  <2>1. CASE Throw("EcdhFailed")
    BY <1>7, <2>1, ThrowKeeps DEF GeneralAuthenticate
  <2>2. CASE slot[tag].key # None
    BY <1>7, <2>2 DEF GeneralAuthenticate, End
  <2> QED
    BY <1>7, <2>1, <2>2 DEF GeneralAuthenticate
<1>8. CASE SelectOtp
  <2>1. CASE Throw("SelectFailed")
    BY <1>8, <2>1, ThrowKeeps DEF SelectOtp, Select
  <2>2. CASE pc' = "hmac" /\ UNCHANGED <<req, tag, ecdh, outcome, ikm>>
    BY <1>8, <2>2 DEF SelectOtp, Select
  <2> QED
    BY <1>8, <2>1, <2>2 DEF SelectOtp, Select
<1>9. CASE HmacSlot2
  <2>1. CASE Throw("HmacFailed")
    BY <1>9, <2>1, ThrowKeeps DEF HmacSlot2
  <2>2. CASE slot[tag].slot2 # None
    BY <1>9, <2>2 DEF HmacSlot2, End
  <2> QED
    BY <1>9, <2>1, <2>2 DEF HmacSlot2
<1>10. ASSUME NEW d \in Device, Present(d) PROVE TapInv' /\ NfcKeyMaterial'
  BY <1>10 DEF Present, Insert, session
<1>11. ASSUME NEW d \in Device, Leave(d) PROVE TapInv' /\ NfcKeyMaterial'
  BY <1>11 DEF Leave, Withdraw
<1> QED
  BY <1>1, <1>2, <1>3, <1>4, <1>5, <1>6, <1>7, <1>8, <1>9, <1>10, <1>11 DEF Next, Command

\* Only the command that offers the PIN moves a counter, that of the key tapped, and by
\* one at most when it moves down; a new tap starts from the counters as they are.
LEMMA PinStep ==
  ASSUME NfcIInv, Next
  PROVE  PinOfferedOnce'
<1>0. slot' = slot
  BY SlotsStay
<1> USE <1>0 DEF NfcIInv, PinOfferedOnce
<1>1. CASE Connect
  BY <1>1 DEF Connect, TypeOK, HostTypeOK, hostVars
<1>2. ASSUME pc = "verify", tag # None, UNCHANGED <<before, tapped>>,
             tries' = [tries EXCEPT ![tag] = TriesAfter(tag, req.pin)]
      PROVE  PinOfferedOnce'
  <2>1. tag = tapped /\ tag \in Device /\ tries = before /\ slot[tag].cert \in Key
    BY <1>2 DEF TapInv
  <2>2. /\ TriesAfter(tag, req.pin) \in 0 .. MaxTries
        /\ TriesAfter(tag, req.pin) < tries[tag] => TriesAfter(tag, req.pin) = tries[tag] - 1
    BY <2>1, TriesCounted
  <2> HIDE DEF TriesAfter
  <2> QED
    BY <1>2, <2>1, <2>2 DEF TypeOK, HostTypeOK
<1>3. CASE UNCHANGED <<tries, before, tapped>>
  BY <1>3
<1>4. CASE VerifyPin \/ VerifyLost
  BY <1>2, <1>3, <1>4 DEF VerifyPin, VerifyLost
<1>5. CASE Command /\ ~VerifyPin
  BY <1>3, <1>5 DEF Command, TagLost, SelectPiv, ReadSlot9dPublicPoint, GeneralAuthenticate,
    SelectOtp, HmacSlot2, Select, hostVars
<1>6. ASSUME NEW d \in Device, Present(d) \/ Leave(d) PROVE PinOfferedOnce'
  BY <1>3, <1>6 DEF Present, Leave, Insert, Withdraw
<1> QED
  BY <1>1, <1>4, <1>5, <1>6 DEF Next
-----------------------------------------------------------------------------
\* The invariant is inductive.
LEMMA StepNfcIInv == NfcIInv /\ [Next]_vars => NfcIInv'
<1>1. CASE Next
  BY <1>1, TypeStep, TapStep, PinStep DEF NfcIInv
<1>2. CASE UNCHANGED vars
  BY <1>2 DEF vars, hostVars, session, NfcIInv, TypeOK, HostTypeOK, TapInv, NfcKeyMaterial,
    PinOfferedOnce
<1> QED
  BY <1>1, <1>2

\* It holds whatever keys are tapped and taken away, and when.
THEOREM NfcInvariance == Spec => []NfcIInv
  BY InitNfcIInv, StepNfcIInv, PTL DEF Spec

\* A tap that returns key material returns the factors of the key that was tapped, both
\* of them exactly when both were asked for.
THEOREM TapReturnsItsOwnKey == Spec => []NfcKeyMaterial
  BY NfcInvariance, PTL DEF NfcIInv

\* A tap costs at most one PIN attempt, of the key tapped, and only if it has a certificate.
THEOREM TapCostsOneAttempt == Spec => []PinOfferedOnce
  BY NfcInvariance, PTL DEF NfcIInv
-----------------------------------------------------------------------------
(* AndroidApp *)

\* What may be posted: a message, or a part of the screen that is masked and whose public
\* key, or QR code, is of the derivation beside it.
Messages == [status : Statuses]
DerivePosts ==
  {r \in [status : Statuses, output : Material \cup {Null}, publicKey : Material \cup {Null},
          showSecret : {FALSE}] : r.publicKey \in {Null, r.output}}
WireGuardPosts ==
  {r \in [status : Statuses, wgConfig : Config \cup {Null}, wgQr : Config \cup {Null},
          showConfig : {FALSE}] : r.wgQr \in {Null, r.wgConfig}}
Runnable == Messages \cup DerivePosts \cup WireGuardPosts

\* The queue holds nothing else, and the thread has a form to read and, where it is about
\* to derive the public key, the secret.
ThreadInv ==
  /\ queue \in Seq(Runnable)
  /\ nfc \in [pc : Places, live : BOOLEAN, old : Form \cup {Null}, secret : Material \cup {Null},
              hasKey : BOOLEAN, hasFields : BOOLEAN]
  /\ taps \in 0 .. MaxTaps
  /\ nfc.pc # "idle" => taps > 0
  /\ nfc.pc = "public" => nfc.secret \in Material
  /\ revealed \in [secret : Material \cup {Null}, config : Config \cup {Null}]

AppIInv == AppTypeOK /\ ThreadInv /\ SameDerivation /\ MaskedUntilRevealed

\* The screen is blank at first.
LEMMA InitAppIInv == AppInit => AppIInv
<1> SUFFICES ASSUME AppInit PROVE AppIInv
  OBVIOUS
<1> USE AppAssumption DEF AppAssumption, AppInit, Blank, Asleep
<1>1. form \in Form
  BY DEF DefaultForm, Form
<1>2. AppTypeOK
  BY <1>1 DEF AppTypeOK, Statuses, Places
<1>3. ThreadInv
  BY DEF ThreadInv, Places
<1>4. SameDerivation /\ MaskedUntilRevealed
  BY DEF SameDerivation, MaskedUntilRevealed
<1> QED
  BY <1>2, <1>3, <1>4 DEF AppIInv
-----------------------------------------------------------------------------
\* The fields of the form of the activity that the thread belongs to.
LEMMA FieldIsForm == AppIInv => Field \in Form
BY DEF AppIInv, AppTypeOK, ThreadInv, Field

\* Posting a runnable keeps the queue what it is.
LEMMA PostKeeps ==
  ASSUME AppIInv, NEW r \in Runnable, Post(r)
  PROVE  queue' \in Seq(Runnable)
BY DEF AppIInv, ThreadInv, Post

\* The runnables that the thread posts.
LEMMA DerivePosted ==
  ASSUME NEW m \in Statuses, NEW hex \in Material \cup {Null}, NEW pub \in {Null, hex}
  PROVE  PostDerive(m, hex, pub) \in Runnable
BY DEF PostDerive, Runnable, DerivePosts

\* What the thread posts after a WireGuard config is one of the runnables of the model.
LEMMA WireGuardPosted ==
  ASSUME NEW m \in Statuses, NEW c \in Config \cup {Null}, NEW qr \in {Null, c}
  PROVE  PostWireGuard(m, c, qr) \in Runnable
BY DEF PostWireGuard, Runnable, WireGuardPosts

\* A runnable replaces a secret and its public key together, and a config and its code, and
\* masks what it replaces.
LEMMA RunPostedStep ==
  ASSUME AppIInv, RunPosted
  PROVE  AppIInv'
<1> DEFINE r == Head(queue)
<1>1. /\ queue \in Seq(Runnable) /\ queue # <<>>
      /\ screen' = [x \in DOMAIN screen |-> IF x \in DOMAIN r THEN r[x] ELSE screen[x]]
      /\ queue' = Tail(queue)
      /\ UNCHANGED <<form, picker, file, nfc, taps, revealed>>
  BY DEF RunPosted, AppIInv, ThreadInv
<1>2. r \in Runnable /\ queue' \in Seq(Runnable)
  BY <1>1
<1> HIDE DEF r
<1>3. ThreadInv'
  BY <1>1, <1>2 DEF AppIInv, ThreadInv
<1>4. DOMAIN screen = {"status", "output", "publicKey", "showSecret", "wgConfig", "wgQr", "showConfig"}
  BY DEF AppIInv, AppTypeOK
<1>5. CASE r \in Messages
  <2>1. screen' = [screen EXCEPT !.status = r.status] /\ r.status \in Statuses
    BY <1>1, <1>4, <1>5 DEF Messages, AppIInv, AppTypeOK
  <2> QED
    BY <1>1, <1>3, <2>1 DEF AppIInv, AppTypeOK, SameDerivation, MaskedUntilRevealed
<1>6. CASE r \in DerivePosts
  <2>1. screen' = [screen EXCEPT !.status = r.status, !.output = r.output,
                                 !.publicKey = r.publicKey, !.showSecret = FALSE]
    BY <1>1, <1>4, <1>6 DEF DerivePosts, AppIInv, AppTypeOK
  <2>2. r.status \in Statuses /\ r.output \in Material \cup {Null} /\ r.publicKey \in {Null, r.output}
    BY <1>6 DEF DerivePosts
  <2> QED
    BY <1>1, <1>3, <2>1, <2>2 DEF AppIInv, AppTypeOK, SameDerivation, MaskedUntilRevealed
<1>7. CASE r \in WireGuardPosts
  <2>1. screen' = [screen EXCEPT !.status = r.status, !.wgConfig = r.wgConfig,
                                 !.wgQr = r.wgQr, !.showConfig = FALSE]
    BY <1>1, <1>4, <1>7 DEF WireGuardPosts, AppIInv, AppTypeOK
  <2>2. r.status \in Statuses /\ r.wgConfig \in Config \cup {Null} /\ r.wgQr \in {Null, r.wgConfig}
    BY <1>7 DEF WireGuardPosts
  <2> QED
    BY <1>1, <1>3, <2>1, <2>2 DEF AppIInv, AppTypeOK, SameDerivation, MaskedUntilRevealed
<1> QED
  BY <1>2, <1>5, <1>6, <1>7 DEF Runnable

\* Only the user reveals what is masked, and then what is on the screen.
LEMMA UserStep ==
  ASSUME AppIInv, User \/ Recreate
  PROVE  AppIInv'
<1> USE DEF AppIInv
<1>1. CASE Edit
  <2>1. form' \in Form
    BY <1>1 DEF Edit, AppTypeOK, Form
  <2> QED
    BY <1>1, <2>1 DEF Edit, AppTypeOK, ThreadInv, SameDerivation, MaskedUntilRevealed
<1>2. CASE ToggleSecret
  <2>1. PICK b \in BOOLEAN : b = ~screen.showSecret
    BY Zenon
  <2>2. /\ screen' = [screen EXCEPT !.showSecret = b]
        /\ revealed' = [revealed EXCEPT !.secret = IF screen.showSecret THEN Null ELSE screen.output]
        /\ UNCHANGED <<form, picker, file, queue, nfc, taps>>
    BY <1>2, <2>1 DEF ToggleSecret
  <2>3. AppTypeOK' /\ SameDerivation'
    BY <2>2 DEF AppTypeOK, SameDerivation
  <2>5. ThreadInv'
    BY <2>2 DEF ThreadInv, AppTypeOK
  <2>4. MaskedUntilRevealed'
    BY <2>1, <2>2 DEF MaskedUntilRevealed, AppTypeOK, ThreadInv
  <2> QED
    BY <2>3, <2>4, <2>5
<1>3. CASE ToggleConfig
  <2>1. PICK b \in BOOLEAN : b = ~screen.showConfig
    BY Zenon
  <2>2. /\ screen' = [screen EXCEPT !.showConfig = b]
        /\ revealed' = [revealed EXCEPT !.config = IF screen.showConfig THEN Null ELSE screen.wgConfig]
        /\ UNCHANGED <<form, picker, file, queue, nfc, taps>>
    BY <1>3, <2>1 DEF ToggleConfig
  <2>3. AppTypeOK' /\ SameDerivation'
    BY <2>2 DEF AppTypeOK, SameDerivation
  <2>5. ThreadInv'
    BY <2>2 DEF ThreadInv, AppTypeOK
  <2>4. MaskedUntilRevealed'
    BY <2>1, <2>2 DEF MaskedUntilRevealed, AppTypeOK, ThreadInv
  <2> QED
    BY <2>3, <2>4, <2>5
<1>4. CASE SaveConfig
  BY <1>4 DEF SaveConfig, AppTypeOK, ThreadInv, SameDerivation, MaskedUntilRevealed
<1>5. CASE WriteConfigTo
  BY <1>5 DEF WriteConfigTo, AppTypeOK, ThreadInv, SameDerivation, MaskedUntilRevealed, Statuses
<1>6. CASE OnTag
  <2>1. [status |-> "notIsoDep"] \in Runnable /\ [status |-> "reading"] \in Runnable
    BY DEF Runnable, Messages, Statuses
  <2>2. queue' \in Seq(Runnable)
    <3>1. \E r \in Runnable : queue' = Append(queue, r)
      BY <1>6, <2>1 DEF OnTag
    <3> QED
      BY <3>1 DEF ThreadInv
  <2>3. nfc' \in {nfc, [Asleep EXCEPT !.pc = "read"]} /\ taps' \in 1 .. MaxTaps
        /\ UNCHANGED <<form, screen, file, revealed>>
    BY <1>6, AppAssumption DEF OnTag, ThreadInv, AppAssumption
  <2>4. AppTypeOK'
    BY <2>3 DEF Asleep, AppTypeOK, Places
  <2>6. ThreadInv'
    <3>1. taps' \in 0 .. MaxTaps /\ taps' > 0
      BY <2>3, AppAssumption DEF AppAssumption
    <3>2. CASE nfc' = nfc
      BY <2>2, <2>3, <3>1, <3>2 DEF ThreadInv
    <3>3. CASE nfc' = [Asleep EXCEPT !.pc = "read"]
      BY <2>2, <2>3, <3>1, <3>3 DEF Asleep, ThreadInv, Places
    <3> QED
      BY <2>3, <3>2, <3>3
  <2> QED
    BY <2>3, <2>4, <2>6 DEF SameDerivation, MaskedUntilRevealed
<1>7. CASE Recreate
  <2>1. form' \in Form /\ form \in Form
    BY <1>7 DEF Recreate, DefaultForm, Form, AppTypeOK
  <2>2. AppTypeOK'
    BY <1>7, <2>1, AppAssumption
    DEF Recreate, AppTypeOK, ThreadInv, Blank, Statuses, AppAssumption
  <2>3. ThreadInv'
    <3>1. queue' \in Seq(Runnable) /\ taps' = taps /\ revealed' = revealed
      BY <1>7 DEF Recreate
    <3>2. nfc' \in {nfc, [nfc EXCEPT !.live = FALSE, !.old = form]}
      BY <1>7 DEF Recreate
    <3> QED
      BY <2>1, <3>1, <3>2 DEF ThreadInv
  <2> QED
    BY <1>7, <2>2, <2>3 DEF Recreate, Blank, SameDerivation, MaskedUntilRevealed
<1> QED
  BY <1>1, <1>2, <1>3, <1>4, <1>5, <1>6, <1>7 DEF User

\* The thread changes nothing on the screen but by what it posts.
LEMMA ThreadStep ==
  ASSUME AppIInv, NfcThread
  PROVE  AppIInv'
<1>0. UNCHANGED <<form, screen, file, taps, revealed>>
  BY DEF NfcThread, DeriveIkm, Throws, DeriveSecret, DerivePublic, HasPeer, WgConfig, Caught, Quiet
<1>1. ASSUME ThreadInv', (nfc'.live = nfc.live /\ nfc'.old = nfc.old) \/ nfc' = Asleep PROVE AppIInv'
  BY <1>0, <1>1 DEF AppIInv, AppTypeOK, ThreadInv, SameDerivation, MaskedUntilRevealed, Asleep
<1>2. Asleep \in [pc : Places, live : BOOLEAN, old : Form \cup {Null}, secret : Material \cup {Null},
                  hasKey : BOOLEAN, hasFields : BOOLEAN]
      /\ Asleep.pc = "idle"
  BY DEF Asleep, Places
<1>3. Field \in Form
  BY FieldIsForm
<1>4. nfc.pc # "idle" => taps \in 1 .. MaxTaps
  BY AppAssumption DEF AppIInv, ThreadInv, AppAssumption
<1>5. CASE DeriveIkm
  BY <1>0, <1>1, <1>5 DEF DeriveIkm, AppIInv, ThreadInv, Places
<1>6. CASE Throws
  BY <1>0, <1>1, <1>6 DEF Throws, AppIInv, ThreadInv, Places
<1>7. CASE DeriveSecret
  <2>1. [tap |-> taps, purpose |-> Field.purpose, profile |-> Field.profile] \in Material
    BY <1>3, <1>4, <1>7 DEF DeriveSecret, Material, Form
  <2> QED
    BY <1>0, <1>1, <1>7, <2>1 DEF DeriveSecret, AppIInv, ThreadInv, Places
<1>8. CASE DerivePublic
  <2>1. nfc.secret \in Material /\ "derived" \in Statuses
    BY <1>8 DEF DerivePublic, AppIInv, ThreadInv, Statuses
  <2>2. PICK pub \in {Null, nfc.secret} : Post(PostDerive("derived", nfc.secret, pub))
    BY <1>8 DEF DerivePublic
  <2>3. PostDerive("derived", nfc.secret, pub) \in Runnable
    BY <2>1, DerivePosted
  <2>4. queue' \in Seq(Runnable)
    BY <2>2, <2>3, PostKeeps
  <2> QED
    BY <1>0, <1>1, <1>2, <1>8, <2>4 DEF DerivePublic, AppIInv, ThreadInv
<1>9. CASE HasPeer
  BY <1>0, <1>1, <1>3, <1>9 DEF HasPeer, AppIInv, ThreadInv, Places, Form
<1>10. CASE WgConfig
  <2> DEFINE c == [tap |-> taps, purpose |-> Field.purpose, peer |-> Field.peerKey]
             m == IF nfc.hasFields /\ ~nfc.hasKey THEN "noPeer" ELSE "ready"
  <2>1. c \in Config
    BY <1>3, <1>4, <1>10 DEF WgConfig, Config, Form
  <2>2. m \in Statuses
    BY DEF Statuses
  <2>3. PICK qr \in {c, Null} : Post(PostWireGuard(m, c, qr))
    BY <1>10 DEF WgConfig
  <2> HIDE DEF c, m
  <2>4. PostWireGuard(m, c, qr) \in Runnable
    BY <2>1, <2>2, WireGuardPosted
  <2>5. queue' \in Seq(Runnable)
    BY <2>3, <2>4, PostKeeps
  <2> QED
    BY <1>0, <1>1, <1>2, <1>10, <2>5 DEF WgConfig, AppIInv, ThreadInv
<1>11. CASE Caught
  <2>1. PostDerive("error", Null, Null) \in Runnable /\ PostWireGuard("error", Null, Null) \in Runnable
    BY DerivePosted, WireGuardPosted DEF Statuses
  <2>2. queue' \in Seq(Runnable)
    BY <1>11, <2>1, PostKeeps DEF Caught
  <2> QED
    BY <1>0, <1>1, <1>2, <1>11, <2>2 DEF Caught, AppIInv, ThreadInv
<1> QED
  BY <1>5, <1>6, <1>7, <1>8, <1>9, <1>10, <1>11 DEF NfcThread

\* The invariant is inductive.
LEMMA StepAppIInv == AppIInv /\ [AppNext]_appVars => AppIInv'
<1> SUFFICES ASSUME AppIInv, [AppNext]_appVars PROVE AppIInv'
  OBVIOUS
<1>1. CASE UNCHANGED appVars
  BY <1>1 DEF appVars, AppIInv, AppTypeOK, ThreadInv, SameDerivation, MaskedUntilRevealed
<1> QED
  BY <1>1, RunPostedStep, UserStep, ThreadStep DEF AppNext

\* It holds whatever the user does while a key is read.
THEOREM AppInvariance == AppSpec => []AppIInv
  BY InitAppIInv, StepAppIInv, PTL DEF AppSpec

\* The public key on the screen is that of the secret beside it, the QR code that of the config.
THEOREM ScreenIsOfOneDerivation == AppSpec => []SameDerivation
  BY AppInvariance, PTL DEF AppIInv

\* A secret or a config is readable only if the user asked to see that very one.
THEOREM NothingShowsUnasked == AppSpec => []MaskedUntilRevealed
  BY AppInvariance, PTL DEF AppIInv
-----------------------------------------------------------------------------
(* JniBridge *)

\* What Java is left with is what the core makes of the arguments, and an exception for an
\* argument means that one of them is at fault.
OutcomeInv ==
  /\ call.pc \in {"derive", "return"} => Convertible(call.args)
  /\ call.pc = "return" => Result.ok /\ call.result = Result.val
  /\ call.pc = "returned" /\ java.value # <<>> =>
       Convertible(call.args) /\ Result.ok /\ java.value = <<Result.val>>
  /\ call.pc = "returned" /\ java.exception = "IllegalArgument" =>
       ~ (Convertible(call.args) /\ Result.ok)

\* A call names its method and arguments; while it runs Java has neither value nor exception.
CallShape ==
  /\ call.pc \in {"convert", "derive", "return", "returned"}
  /\ java = [value |-> java.value, exception |-> java.exception]
  /\ java.exception \in {"", "IllegalArgument", "Runtime"}
  /\ call.pc # "returned" \/ call.entry = "none" => java = Nothing
  /\ call.pc = "returned" /\ call.entry # "none" =>
       \/ java.value # <<>> /\ java.exception = ""
       \/ java.value = <<>> /\ java.exception # ""
  /\ \/ call = [pc |-> "returned", entry |-> "none"] /\ calls = 0
     \/ /\ {"pc", "entry", "ikm", "args"} \subseteq DOMAIN call /\ calls > 0
        /\ \/ call.entry \in {"derive", "derivePublic"} /\ call.args \in DeriveArgs
           \/ call.entry = "wgConfig" /\ call.args \in WgArgs
  /\ calls \in 0 .. MaxCalls

\* A derive that left a value was of arguments the core accepts.
LastInv ==
  last.entry = "derive" /\ last.java.value # <<>> =>
    /\ last.args.index >= 0
    /\ DeriveOutput(last.ikm, last.args.pipeline, last.args.profile, last.args.purpose,
                    last.args.index).ok

JniIInv == CallShape /\ OutcomeInv /\ LastInv

\* Nothing has been called.
LEMMA InitJniIInv == JniInit => JniIInv
<1> SUFFICES ASSUME JniInit PROVE JniIInv
  OBVIOUS
<1>1. CallShape
  <2>1. MaxCalls \in Nat /\ calls = 0
    BY JniAssumption DEF JniAssumption, JniInit
  <2>2. calls \in 0 .. MaxCalls
    BY <2>1
  <2>3. java = [value |-> java.value, exception |-> java.exception] /\ java.exception = ""
    BY DEF JniInit, Nothing
  <2> QED
    BY <2>2, <2>3 DEF CallShape, JniInit
<1>2. OutcomeInv
  BY DEF OutcomeInv, JniInit, Nothing
<1>3. LastInv
  BY DEF LastInv, JniInit, Nothing
<1> QED
  BY <1>1, <1>2, <1>3 DEF JniIInv

\* The outcome of a call depends on the method and its arguments.
LEMMA SameResult ==
  ASSUME call'.entry = call.entry, call'.ikm = call.ikm, call'.args = call.args
  PROVE  /\ Result' = Result
         /\ Convertible(call.args)' <=> Convertible(call.args)
<1>1. Result' = Result
  BY DEF Result, Then
<1>2. Convertible(call.args)' <=> Convertible(call.args)
  BY DEF Convertible
<1> QED
  BY <1>1, <1>2

\* A derive that succeeds has derived something.
LEMMA DeriveResult ==
  ASSUME call.entry = "derive", Result.ok
  PROVE  DeriveOutput(call.ikm, call.args.pipeline, call.args.profile, call.args.purpose,
                      call.args.index).ok
BY DEF Result, Then

\* A new call: what the last one left becomes history.
LEMMA EnterStep ==
  ASSUME JniIInv, Enter
  PROVE  JniIInv'
<1> USE DEF JniIInv
<1>1. /\ call'.pc = "convert" /\ java' = Nothing
      /\ {"pc", "entry", "ikm", "args"} \subseteq DOMAIN call'
      /\ \/ call'.entry \in {"derive", "derivePublic"} /\ call'.args \in DeriveArgs
         \/ call'.entry = "wgConfig" /\ call'.args \in WgArgs
  BY DEF Enter
<1>2. calls' \in 0 .. MaxCalls /\ calls' > 0
  <2>1. calls \in 0 .. MaxCalls /\ calls < MaxCalls /\ calls' = calls + 1
    BY DEF Enter, CallShape
  <2>2. MaxCalls \in Nat
    BY JniAssumption DEF JniAssumption
  <2> QED
    BY <2>1, <2>2
<1>3. CallShape'
  <2>1. java' = [value |-> java'.value, exception |-> java'.exception] /\ java'.exception = ""
    BY <1>1 DEF Nothing
  <2> QED
    BY <1>1, <1>2, <2>1 DEF CallShape, Nothing
<1>4. OutcomeInv'
  BY <1>1 DEF OutcomeInv
<1>5. LastInv'
  <2> SUFFICES ASSUME last'.entry = "derive", last'.java.value # <<>>
               PROVE  /\ last'.args.index >= 0
                      /\ DeriveOutput(last'.ikm, last'.args.pipeline, last'.args.profile,
                                      last'.args.purpose, last'.args.index).ok
    BY DEF LastInv
  <2>1. /\ call.entry = "derive" /\ java.value # <<>>
        /\ last'.args = call.args /\ last'.ikm = call.ikm
    BY DEF Enter
  <2>2. Convertible(call.args) /\ Result.ok
    BY <2>1 DEF OutcomeInv, Enter
  <2> QED
    BY <2>1, <2>2, DeriveResult DEF Convertible
<1> QED
  BY <1>3, <1>4, <1>5

\* The rest of a call leaves its arguments alone and ends with a value or an exception.
LEMMA CallStep ==
  ASSUME JniIInv, Convert \/ DeriveIt \/ Return
  PROVE  JniIInv'
<1> USE DEF JniIInv
<1>1. call.pc \in {"convert", "derive", "return"}
  BY DEF Convert, DeriveIt, Return
<1>2. /\ {"pc", "entry", "ikm", "args"} \subseteq DOMAIN call /\ calls > 0
      /\ call.entry \in {"derive", "derivePublic", "wgConfig"}
  <2>1. call # [pc |-> "returned", entry |-> "none"]
    BY <1>1
  <2> QED
    BY <2>1 DEF CallShape
<1>3. java = Nothing /\ UNCHANGED <<last, calls>>
  BY <1>1 DEF CallShape, Convert, DeriveIt, Return
<1>4. LastInv'
  BY <1>3 DEF LastInv
<1>5. /\ call'.entry = call.entry /\ call'.ikm = call.ikm /\ call'.args = call.args
      /\ DOMAIN call \subseteq DOMAIN call'
  BY <1>2 DEF Convert, DeriveIt, Return, ThrowNew, With
<1>6. Result' = Result /\ (Convertible(call.args)' <=> Convertible(call.args))
  BY <1>5, SameResult
<1>7. \/ /\ java' = Nothing /\ call'.pc \in {"derive", "return"}
         /\ Convertible(call.args)
         /\ call'.pc = "return" => Result.ok /\ call'.result = Result.val
      \/ /\ call'.pc = "returned" /\ java'.value # <<>> /\ java'.exception = ""
         /\ Convertible(call.args) /\ Result.ok /\ java'.value = <<Result.val>>
      \/ /\ call'.pc = "returned" /\ java'.value = <<>>
         /\ java'.exception \in {"IllegalArgument", "Runtime"}
         /\ java'.exception = "IllegalArgument" => ~ (Convertible(call.args) /\ Result.ok)
  <2>1. CASE Convert
    BY <1>2, <1>3, <2>1 DEF Convert, ThrowNew, Nothing
  <2>2. CASE DeriveIt
    BY <1>2, <1>3, <2>2 DEF DeriveIt, ThrowNew, Nothing, With, OutcomeInv
  <2>3. CASE Return
    <3>1. Convertible(call.args) /\ Result.ok /\ call.result = Result.val
      BY <2>3 DEF Return, OutcomeInv
    <3>2. call'.pc = "returned"
      BY <1>2, <2>3 DEF Return, ThrowNew
    <3>3. CASE java' = [Nothing EXCEPT !.value = <<call.result>>]
      BY <3>1, <3>2, <3>3 DEF Nothing
    <3>4. CASE java' = [Nothing EXCEPT !.exception = "Runtime"]
      BY <3>2, <3>4 DEF Nothing
    <3> QED
      BY <2>3, <3>3, <3>4 DEF Return, ThrowNew
  <2> QED
    BY <2>1, <2>2, <2>3
<1>8. java' = [value |-> java'.value, exception |-> java'.exception]
  <2>1. \/ java' = Nothing
        \/ \E v : java' = [Nothing EXCEPT !.value = v]
        \/ \E v : java' = [Nothing EXCEPT !.exception = v]
    BY <1>3 DEF Convert, DeriveIt, Return, ThrowNew
  <2> QED
    BY <2>1 DEF Nothing
<1>9. CallShape'
  BY <1>2, <1>3, <1>5, <1>7, <1>8 DEF CallShape, Nothing
<1>10. OutcomeInv'
  BY <1>5, <1>6, <1>7 DEF OutcomeInv, Nothing
<1> QED
  BY <1>4, <1>9, <1>10

\* Every step keeps the invariant.
LEMMA StepJniIInv == JniIInv /\ [JniNext]_jniVars => JniIInv'
<1> SUFFICES ASSUME JniIInv, [JniNext]_jniVars PROVE JniIInv'
  OBVIOUS
<1>1. CASE UNCHANGED jniVars
  <2>1. call' = call /\ java' = java /\ last' = last /\ calls' = calls
    BY <1>1 DEF jniVars
  <2>2. Result' = Result /\ (Convertible(call.args)' <=> Convertible(call.args))
    BY <2>1, SameResult
  <2> QED
    BY <2>1, <2>2 DEF JniIInv, CallShape, OutcomeInv, LastInv
<1> QED
  BY <1>1, EnterStep, CallStep DEF JniNext

\* Of every call: Java holds what the core makes of the arguments it was given, and an
\* exception for an argument has a cause in them.
THEOREM JniInvariance == JniSpec => []JniIInv
BY InitJniIInv, StepJniIInv, PTL DEF JniSpec

\* The fields that wgConfig builds from what Java gives it are those that `wg config' builds
\* from the flags that say the same.
LEMMA WgFieldsAreFlags ==
  ASSUME NEW a \in WgArgs
  PROVE  WgFields(a) = Interface(Flags(a), <<>>)
<1>1. a.mtu \in Jint
  BY JniAssumption DEF JniAssumption
<1>2. a.mtu >= 0 <=> a.mtu \in 0 .. MaxJint
  BY <1>1 DEF Jint
<1>3. OptionalU32(a.mtu) = Given(a.mtu, MaxJint)
  BY <1>2 DEF OptionalU32, Given
<1>4. \A x : Or(x, <<>>) = x
  BY DEF Or
<1>5. UnwrapOr(<<>>, NoSection) = NoSection
  BY DEF UnwrapOr
<1>6. \A x : OptionalU16(x) = Given(x, MaxU16)
  BY DEF OptionalU16, Given
<1> DEFINE key == a.peer_public_key
           peer == [public_key |-> key, endpoint |-> OptionalString(a.endpoint),
                    allowed_ips |-> a.allowed_ips, keepalive |-> Given(a.keepalive, MaxU16)]
           built(peers) == [address |-> a.address, listen_port |-> Given(a.listen_port, MaxU16),
                            dns |-> a.dns, mtu |-> Given(a.mtu, MaxJint), peers |-> peers]
<1>7. WgFields(a) = built(IF key.text = "" THEN <<>> ELSE <<peer>>)
  BY <1>3, <1>6 DEF WgFields, PeerGiven
<1>8. Flags(a).peer_pubkey = IF key.text = "" THEN <<>> ELSE <<key>>
  BY DEF Flags
<1>9. Interface(Flags(a), <<>>) =
        built(IF Flags(a).peer_pubkey = <<>> THEN <<>>
              ELSE << [public_key |-> Flags(a).peer_pubkey[1], endpoint |-> Flags(a).endpoint,
                       allowed_ips |-> Flags(a).allowed_ips, keepalive |-> Flags(a).keepalive] >>)
  <2> DEFINE f == Flags(a)
  <2>1. /\ f.address = a.address /\ f.listen_port = Given(a.listen_port, MaxU16)
        /\ f.dns = a.dns /\ f.mtu = Given(a.mtu, MaxJint)
    BY DEF Flags
  <2>2. /\ NoSection.address = <<>> /\ NoSection.listen_port = <<>> /\ NoSection.dns = <<>>
        /\ NoSection.mtu = <<>> /\ NoSection.peers = <<>>
    BY DEF NoSection
  <2> HIDE DEF f
  <2>3. Interface(f, <<>>) =
          [address |-> f.address, listen_port |-> f.listen_port, dns |-> f.dns, mtu |-> f.mtu,
           peers |-> IF f.peer_pubkey = <<>> THEN <<>>
                     ELSE << [public_key |-> f.peer_pubkey[1], endpoint |-> f.endpoint,
                              allowed_ips |-> f.allowed_ips, keepalive |-> f.keepalive] >>]
    BY <1>4, <1>5, <2>2 DEF Interface
  <2> QED
    BY <2>1, <2>3 DEF f
<1>10. CASE key.text = ""
  BY <1>7, <1>8, <1>9, <1>10
<1>11. CASE key.text # ""
  <2>1. Flags(a).endpoint = OptionalString(a.endpoint) /\ Flags(a).allowed_ips = a.allowed_ips
        /\ Flags(a).keepalive = Given(a.keepalive, MaxU16)
    BY DEF Flags, OptionalString
  <2>2. Flags(a).peer_pubkey = <<key>> /\ Flags(a).peer_pubkey # <<>> /\ Flags(a).peer_pubkey[1] = key
    <3>1. Flags(a).peer_pubkey = <<key>>
      BY <1>8, <1>11
    <3>2. \A x, y : x = <<y>> => x # <<>> /\ x[1] = y
      OBVIOUS
    <3> HIDE DEF key
    <3> QED
      BY <3>1, <3>2
  <2> QED
    BY <1>7, <1>9, <1>11, <2>1, <2>2
<1> QED
  BY <1>10, <1>11

\* The config of the app is that of the command line: same key, same lines.
THEOREM PhoneIsDesk == JniSpec => []SameAsCli
<1>1. JniIInv => SameAsCli
  <2> SUFFICES ASSUME JniIInv, Returned("wgConfig")
               PROVE  LET r == DeriveOutput(call.ikm, "", "x25519", call.args.purpose, call.args.index)
                      IN java.value[1] = Render(Interface(Flags(call.args), <<>>),
                                                <<"base64", r.val.secret>>)
    BY DEF SameAsCli
  <2>1. Result.ok /\ java.value = <<Result.val>>
    BY DEF JniIInv, OutcomeInv, Returned
  <2>2. call.args \in WgArgs
    <3>1. call # [pc |-> "returned", entry |-> "none"]
      BY DEF Returned
    <3> QED
      BY <3>1 DEF JniIInv, CallShape, Returned
  <2> DEFINE r == DeriveOutput(call.ikm, "", "x25519", call.args.purpose, call.args.index)
  <2>3. Result = IF r.ok THEN Ok(Render(WgFields(call.args), <<"base64", r.val.secret>>)) ELSE r
    BY DEF Result, Then, Returned
  <2> HIDE DEF r
  <2>4. Result.val = Render(WgFields(call.args), <<"base64", r.val.secret>>)
    BY <2>1, <2>3 DEF Ok
  <2> QED
    <3>1. java.value[1] = Result.val
      BY <2>1
    <3>2. WgFields(call.args) = Interface(Flags(call.args), <<>>)
      BY <2>2, WgFieldsAreFlags
    <3> QED
      BY <2>4, <3>1, <3>2 DEF r
<1> QED
  BY <1>1, JniInvariance, PTL
-----------------------------------------------------------------------------
(* Which derivations have a public key *)

\* Every profile but two has one.
LEMMA HasPublicKey ==
  ASSUME NEW profile \in Profile, NEW e, PostProcess(profile, e).ok,
         PublicKey(PostProcess(profile, e).val, profile) = <<>>
  PROVE  profile \in {"symmetric", "raw"}
<1>1. \/ profile \in {"x25519", "ed25519", "age-x25519", "symmetric", "raw"}
      \/ profile \in MLKEM \/ profile \in MLDSA
  BY DEF Profile, Classical
<1> QED
  BY <1>1 DEF PostProcess, PublicKey, X25519Key, Ed25519Seed, AgeIdentity, MlKemKeypair, MlDsaKeypair,
    Then, TakeFixed, Ok, Err, Output, MLKEM, MLDSA

\* A derivation that succeeds ends in post-processing for its profile.
LEMMA DerivedByProfile ==
  ASSUME NEW profile, NEW pipeline, NEW purpose, NEW index, NEW material,
         DeriveOutput(material, pipeline, profile, purpose, index).ok
  PROVE  /\ profile \in Profile
         /\ \E e : DeriveOutput(material, pipeline, profile, purpose, index) = PostProcess(profile, e)
<1> DEFINE ctx == IF pipeline = "" THEN NewContext(profile, purpose, index)
                  ELSE WithPipeline(profile, pipeline, purpose, index)
           output == DeriveOutput(material, pipeline, profile, purpose, index)
<1>1. /\ profile \in Profile /\ ctx.ok
      /\ \E i : output = Derive(Extract(i, ctx.val.pipeline), ctx.val)
  BY DEF DeriveOutput, Then, Err, Ok, NewIkm
<1>2. ctx.val.profile = profile
  BY <1>1 DEF NewContext, WithPipeline, Context, Ok, Err
<1> HIDE DEF ctx
<1>3. PICK i : output = Derive(Extract(i, ctx.val.pipeline), ctx.val)
  BY <1>1
<1>4. output.ok
  OBVIOUS
<1>5. \E e : output = PostProcess(ctx.val.profile, e)
  BY <1>3, <1>4 DEF Derive, Then
<1> QED
  BY <1>1, <1>2, <1>5

\* "No public key" is what it means when derivePublic refuses what derive has accepted.
THEOREM AbsentIsNone == JniSpec => []AbsentMeansNone
<1>1. JniIInv => AbsentMeansNone
  <2> SUFFICES ASSUME JniIInv, call.pc = "returned", call.entry = "derivePublic",
                      java.exception = "IllegalArgument",
                      last.entry = "derive", last.java.value # <<>>,
                      last.args = call.args, last.ikm = call.ikm
               PROVE  call.args.profile \in {"symmetric", "raw"}
    BY DEF AbsentMeansNone
  <2> DEFINE r == DeriveOutput(call.ikm, call.args.pipeline, call.args.profile, call.args.purpose,
                               call.args.index)
  <2>1. r.ok /\ call.args.index >= 0
    BY DEF JniIInv, LastInv
  <2>2. ~ Result.ok
    BY <2>1 DEF JniIInv, OutcomeInv, Convertible
  <2>3. Result = IF r.ok THEN PublicKeyString(r.val, call.args.profile) ELSE r
    BY DEF Result, Then
  <2> HIDE DEF r
  <2>4. PublicKey(r.val, call.args.profile) = <<>>
    BY <2>1, <2>2, <2>3 DEF PublicKeyString, Ok
  <2>5. call.args.profile \in Profile /\ \E e : r = PostProcess(call.args.profile, e)
    BY <2>1, DerivedByProfile DEF r
  <2> QED
    BY <2>1, <2>4, <2>5, HasPublicKey
<1> QED
  BY <1>1, JniInvariance, PTL
-----------------------------------------------------------------------------
(* What a returned call has left in Java *)

\* A line that is there is one of the text's.
LEMMA LineIn ==
  ASSUME NEW T, NEW key, NEW values, values = <<>> \/ <<key, values>> \in T
  PROVE  Line(key, values) \in Seq(T)
<1>1. CASE values = <<>>
  BY <1>1 DEF Line
<1>2. CASE values # <<>>
  BY <1>2 DEF Line
<1> QED BY <1>1, <1>2

\* Two texts of lines make one.
LEMMA TextIn ==
  ASSUME NEW T, NEW s \in Seq(T), NEW t \in Seq(T)
  PROVE  s \o t \in Seq(T)
OBVIOUS

\* The blocks of one peer are that peer's.
LEMMA FlattenOne ==
  ASSUME NEW ss, Len(ss) = 1
  PROVE  FlattenSeq(ss) = ss[1]
<1> DEFINE IsJoin(f) == f = [i \in 1 .. Len(ss) |-> IF i = 1 THEN ss[i] ELSE f[i - 1] \o ss[i]]
           flatten ==
      CHOOSE flatten : flatten = [i \in 1 .. Len(ss) |-> IF i = 1 THEN ss[i] ELSE flatten[i - 1] \o ss[i]]
<1>1. \E f : IsJoin(f)
  <2>1. IsJoin([i \in 1 .. Len(ss) |-> ss[1]])
    OBVIOUS
  <2> QED BY <2>1
<1>2. flatten = [i \in 1 .. Len(ss) |-> IF i = 1 THEN ss[i] ELSE flatten[i - 1] \o ss[i]]
  BY <1>1
<1>3. FlattenSeq(ss) = flatten[Len(ss)]
  BY DEF FlattenSeq
<1> HIDE DEF flatten
<1> QED
  BY <1>2, <1>3

\* A number that is optional in Java is absent or fits sixteen bits.
LEMMA U16Fits ==
  ASSUME NEW value
  PROVE  OptionalU16(value) = <<>> \/ OptionalU16(value)[1] \in 0 .. MaxU16
BY DEF OptionalU16

\* Every line of a rendered config is one of these, and its numbers fit.
LEMMA ConfigNumbersFit ==
  ASSUME NEW a, NEW key
  PROVE  \A line \in Range(Render(WgFields(a), key)) :
           line[1] \in {"ListenPort", "PersistentKeepalive"} => line[2][1] \in 0 .. MaxU16
<1> DEFINE wg == WgFields(a)
           peer == [public_key |-> a.peer_public_key, endpoint |-> OptionalString(a.endpoint),
                    allowed_ips |-> a.allowed_ips, keepalive |-> OptionalU16(a.keepalive)]
           Fixed == {<<"[Interface]", <<>> >>, <<"PrivateKey", <<key>> >>, <<"[Peer]", <<>> >>,
                     <<"PublicKey", <<peer.public_key>> >>, <<"Address", wg.address>>,
                     <<"DNS", wg.dns>>, <<"MTU", wg.mtu>>, <<"Endpoint", peer.endpoint>>,
                     <<"AllowedIPs", peer.allowed_ips>>}
           Ports == {p \in {<<"ListenPort", wg.listen_port>>, <<"PersistentKeepalive", peer.keepalive>>} :
                       p[2] # <<>>}
           T == Fixed \cup Ports
           head == << <<"[Interface]", <<>> >>, <<"PrivateKey", <<key>> >> >>
           opening == << <<"[Peer]", <<>> >>, <<"PublicKey", <<peer.public_key>> >> >>
           blocks == [k \in DOMAIN wg.peers |-> AppendBlock(wg.peers[k])]
<1>1. /\ wg.listen_port = OptionalU16(a.listen_port)
      /\ wg.peers = IF ~ PeerGiven(a.peer_public_key) THEN <<>> ELSE <<peer>>
  BY DEF WgFields
<1>2. \A line \in T :
        line[1] \in {"ListenPort", "PersistentKeepalive"} => line[2][1] \in 0 .. MaxU16
  <2>1. \A line \in Fixed : line[1] \notin {"ListenPort", "PersistentKeepalive"}
    <3> HIDE DEF wg, peer
    <3> QED OBVIOUS
  <2>2. \A line \in Ports : line[2][1] \in 0 .. MaxU16
    <3>1. wg.listen_port = <<>> \/ wg.listen_port[1] \in 0 .. MaxU16
      BY <1>1, U16Fits
    <3>2. peer.keepalive = <<>> \/ peer.keepalive[1] \in 0 .. MaxU16
      BY U16Fits
    <3> HIDE DEF wg, peer
    <3> QED BY <3>1, <3>2
  <2> QED BY <2>1, <2>2
<1>3. /\ Line("Address", wg.address) \in Seq(T) /\ Line("ListenPort", wg.listen_port) \in Seq(T)
      /\ Line("DNS", wg.dns) \in Seq(T) /\ Line("MTU", wg.mtu) \in Seq(T)
      /\ Line("Endpoint", peer.endpoint) \in Seq(T)
      /\ Line("AllowedIPs", peer.allowed_ips) \in Seq(T)
      /\ Line("PersistentKeepalive", peer.keepalive) \in Seq(T)
      /\ head \in Seq(T) /\ opening \in Seq(T)
  <2>1. /\ <<"Address", wg.address>> \in T /\ <<"DNS", wg.dns>> \in T /\ <<"MTU", wg.mtu>> \in T
        /\ <<"Endpoint", peer.endpoint>> \in T /\ <<"AllowedIPs", peer.allowed_ips>> \in T
        /\ <<"[Interface]", <<>> >> \in T /\ <<"PrivateKey", <<key>> >> \in T
        /\ <<"[Peer]", <<>> >> \in T /\ <<"PublicKey", <<peer.public_key>> >> \in T
    <3> HIDE DEF wg, peer
    <3> QED OBVIOUS
  <2>2. /\ wg.listen_port = <<>> \/ <<"ListenPort", wg.listen_port>> \in T
        /\ peer.keepalive = <<>> \/ <<"PersistentKeepalive", peer.keepalive>> \in T
    <3> HIDE DEF wg, peer
    <3> QED OBVIOUS
  <2> HIDE DEF T, wg, peer
  <2>3. head \in Seq(T) /\ opening \in Seq(T)
    BY <2>1
  <2> HIDE DEF head, opening
  <2> QED BY <2>1, <2>2, <2>3, LineIn
<1>4. AppendBlock(peer) \in Seq(T)
  <2>1. AppendBlock(peer) = opening \o Line("Endpoint", peer.endpoint)
          \o Line("AllowedIPs", peer.allowed_ips) \o Line("PersistentKeepalive", peer.keepalive)
    BY DEF AppendBlock
  <2> HIDE DEF T, wg, peer, opening
  <2> QED BY <1>3, <2>1, TextIn
<1>5. FlattenSeq(blocks) \in Seq(T)
  <2>1. CASE wg.peers = <<>>
    <3>1. blocks = <<>>
      <4> HIDE DEF wg
      <4> QED BY <2>1
    <3>2. FlattenSeq(<<>>) = <<>>
      BY DEF FlattenSeq
    <3>3. <<>> \in Seq(T)
      OBVIOUS
    <3> HIDE DEF blocks, T
    <3>4. FlattenSeq(blocks) = <<>>
      BY <3>1, <3>2
    <3> QED BY <3>3, <3>4
  <2>2. CASE wg.peers = <<peer>>
    <3>1. Len(blocks) = 1 /\ blocks[1] = AppendBlock(peer)
      <4> HIDE DEF wg, peer
      <4> QED BY <2>2
    <3> HIDE DEF blocks, T, wg, peer
    <3> QED BY <1>4, <3>1, FlattenOne
  <2> HIDE DEF wg, peer, T, blocks
  <2> QED BY <1>1, <2>1, <2>2
<1>6. Render(wg, key) \in Seq(T)
  <2>1. Render(wg, key) = head \o Line("Address", wg.address) \o Line("ListenPort", wg.listen_port)
          \o Line("DNS", wg.dns) \o Line("MTU", wg.mtu) \o FlattenSeq(blocks)
    BY DEF Render
  <2> HIDE DEF T, wg, peer, head, blocks
  <2> QED BY <1>3, <1>5, <2>1, TextIn
<1> HIDE DEF T, wg
<1>7. Range(Render(wg, key)) \subseteq T
  BY <1>6 DEF Range
<1> QED BY <1>2, <1>7 DEF wg

\* A method that returned left a value or an exception, one that runs neither, and the
\* numbers of a config fit (ykdf-jni/src/lib.rs:414-420).
THEOREM JniTypeCorrect == JniSpec => []JniTypeOK
<1>1. ASSUME JniIInv PROVE JniTypeOK
  <2>1. /\ call.pc \in {"convert", "derive", "return", "returned"}
        /\ calls \in 0 .. MaxCalls
        /\ java.exception \in {"", "IllegalArgument", "Runtime"}
    BY <1>1 DEF JniIInv, CallShape
  <2>2. calls > 0 => (call.pc = "returned" <=> (java.value = <<>>) # (java.exception = ""))
    <3> SUFFICES ASSUME calls > 0 PROVE call.pc = "returned" <=> (java.value = <<>>) # (java.exception = "")
      OBVIOUS
    <3>1. call.entry # "none"
      <4>1. \/ calls = 0
            \/ call.entry \in {"derive", "derivePublic"} \/ call.entry = "wgConfig"
        BY <1>1 DEF JniIInv, CallShape
      <4>2. calls # 0
        OBVIOUS
      <4> QED BY <4>1, <4>2
    <3>2. CASE call.pc = "returned"
      <4>1. \/ java.value # <<>> /\ java.exception = ""
            \/ java.value = <<>> /\ java.exception # ""
        BY <1>1, <3>1, <3>2 DEF JniIInv, CallShape
      <4> QED BY <3>2, <4>1
    <3>3. CASE call.pc # "returned"
      <4>1. java = Nothing
        BY <1>1, <3>3 DEF JniIInv, CallShape
      <4> QED BY <3>3, <4>1 DEF Nothing
    <3> QED BY <3>2, <3>3
  <2>3. ASSUME Returned("wgConfig")
        PROVE  \A line \in Range(java.value[1]) :
                 line[1] \in {"ListenPort", "PersistentKeepalive"} => line[2][1] \in 0 .. MaxU16
    <3>1. Result.ok /\ java.value = <<Result.val>>
      BY <1>1, <2>3 DEF JniIInv, OutcomeInv, Returned
    <3> DEFINE r == DeriveOutput(call.ikm, "", "x25519", call.args.purpose, call.args.index)
    <3>2. Result = IF r.ok THEN Ok(Render(WgFields(call.args), <<"base64", r.val.secret>>)) ELSE r
      BY <2>3 DEF Result, Then, Returned
    <3> HIDE DEF r
    <3>3. java.value[1] = Render(WgFields(call.args), <<"base64", r.val.secret>>)
      BY <3>1, <3>2 DEF Ok
    <3> QED BY <3>3, ConfigNumbersFit
  <2> QED BY <2>1, <2>2, <2>3 DEF JniTypeOK
<1> QED BY <1>1, JniInvariance, PTL
=============================================================================
