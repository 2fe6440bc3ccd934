--------------------------- MODULE ProvisionProofs ---------------------------
(***************************************************************************)
(* Proofs about Provision, for every set of devices, keys, secrets and     *)
(* PINs, every contents of the slots, every set of command lines and every *)
(* value of the bounds.                                                    *)
(***************************************************************************)
EXTENDS Provision, TLAPS

\* The places of an attempt before it writes anything, and after its first write.
Early == {"open", "probe", "check", "overwrite", "pin", "verify", "mgm", "key"}
Late == {"sign", "cert", "readBack", "slot2", "hid"}

\* Before the first write there is no target and nothing has changed; from it on the
\* target holds the root key and, from the read-back on, its certificate.
WriteInv ==
  /\ pc \in Early => target = None /\ slot = before /\ outcome = "none"
  /\ pc \in Late => target \in Device /\ slot[target].key = Root /\ outcome = "none"
  /\ pc \in {"readBack", "slot2", "hid"} => slot[target].cert = Root

\* A connection opened before the first write leads to the target, or was lost.
ConnInv ==
  /\ pc \in {"sign", "cert", "readBack"} => conn \in {target, None}
  /\ pc \notin {"check", "overwrite", "pin", "verify", "mgm", "key", "sign", "cert", "readBack"}
       => conn = None

\* `init` makes one attempt, counts nothing, and tells a secret only when it is written.
InitCmdInv ==
  opt.cmd = "init" =>
    /\ pc # "insert" /\ counted = {}
    /\ "key" \in told => pc \in {"slot2", "hid", "done"} /\ target \in Device
    /\ "slot2" \in told => pc = "done"

\* The guard can see the key of a device that has one.
Visible(d) == slot[d].key # None /\ (d \in Metadata \/ slot[d].cert # None)

\* An attempt nobody has disturbed still reaches the card it looked at, and goes on with
\* a key it can see only with the user's consent.
ConsentInv ==
  /\ opt.force => consent
  /\ pc = "check" /\ noise = "quiet" => Reaches
  /\ pc \in {"pin", "verify", "mgm", "key"} /\ noise = "quiet" /\ conn \in Device
       => consent \/ ~Visible(conn)

IInv ==
  /\ TypeOK /\ WriteInv /\ ConnInv /\ InitCmdInv /\ ConsentInv
  /\ ToldIsWritten /\ CountedAreClones /\ RefusalWritesNothing

\* Nothing is told, counted or written before the first step.
LEMMA InitIInv == Init => IInv
<1> SUFFICES ASSUME Init PROVE IInv
  OBVIOUS
<1> USE DEF Init
<1>1. TypeOK
  <2>1. HostTypeOK /\ before \in [Device -> Content]
    BY HostAssumption DEF HostAssumption, HostInit, HostTypeOK
  <2>2. opt \in Options /\ consent \in BOOLEAN /\ pc \in Place
    BY ProvisionAssumption DEF ProvisionAssumption, Option, Place
  <2> QED
    BY <2>1, <2>2 DEF TypeOK, Kind
<1>2. opt \in Option
  BY ProvisionAssumption DEF ProvisionAssumption
<1>3. WriteInv /\ ConnInv /\ InitCmdInv /\ ConsentInv
  BY <1>2 DEF WriteInv, ConnInv, InitCmdInv, ConsentInv, Visible, Late, Option
<1>4. ToldIsWritten /\ CountedAreClones /\ RefusalWritesNothing
  BY DEF ToldIsWritten, CountedAreClones, RefusalWritesNothing
<1> QED
  BY <1>1, <1>3, <1>4 DEF IInv
-----------------------------------------------------------------------------
(* The error returns, and the writes *)

\* The errors of an attempt refused before its first write.
Refusal == {"DeviceNotFound", "SmartcardBusy", "SlotOccupied", "SecretFileRead",
            "WrongPin", "PinLocked", "MgmtAuthFailed", "MgmtKeyUnavailable"}

\* The step is an error return, and refuses the attempt only where nothing is written.
Failing == \E kind \in Kind : Fail(kind) /\ (kind \in Refusal => pc \in Early)

\* Some actions do nothing else.
LEMMA OnlyFail == OpenProbe \/ VerifyFails \/ ProgramFails \/ Interrupt => Failing
  BY DEF OpenProbe, VerifyFails, ProgramFails, Interrupt, Failing, Kind, Refusal, Early

\* The kinds the others return.
LEMMA Kinds ==
  /\ pc \in Early =>
       /\ Fail("SlotOccupied") => Failing
       /\ Fail("SecretFileRead") => Failing
       /\ Fail(MgmError) /\ MgmError # "none" => Failing
  /\ Fail("ProvisionFailed") => Failing
  /\ Fail("Piv") => Failing
<1>1. MgmError \in Kind \cup {"none"}
  BY DEF MgmError, Kind
<1> QED
  BY <1>1 DEF Failing, Kind, Refusal

\* A write changes one field of one device.
LEMMA KeyWritten ==
  ASSUME slot \in [Device -> Content], NEW d \in Device, slot' = [slot EXCEPT ![d].key = Root]
  PROVE  /\ slot' \in [Device -> Content]
         /\ \A e \in Device :
              /\ slot'[e].key = IF e = d THEN Root ELSE slot[e].key
              /\ slot'[e].cert = slot[e].cert /\ slot'[e].slot2 = slot[e].slot2
BY ProvisionAssumption DEF ProvisionAssumption, Content

\* The certificate, likewise.
LEMMA CertWritten ==
  ASSUME slot \in [Device -> Content], NEW d \in Device, slot' = [slot EXCEPT ![d].cert = Root]
  PROVE  /\ slot' \in [Device -> Content]
         /\ \A e \in Device :
              /\ slot'[e].cert = IF e = d THEN Root ELSE slot[e].cert
              /\ slot'[e].key = slot[e].key /\ slot'[e].slot2 = slot[e].slot2
BY ProvisionAssumption DEF ProvisionAssumption, Content

\* Slot 2, likewise.
LEMMA Slot2Written ==
  ASSUME slot \in [Device -> Content], NEW d \in Device, slot' = [slot EXCEPT ![d].slot2 = Shared2]
  PROVE  /\ slot' \in [Device -> Content]
         /\ \A e \in Device :
              /\ slot'[e].slot2 = IF e = d THEN Shared2 ELSE slot[e].slot2
              /\ slot'[e].key = slot[e].key /\ slot'[e].cert = slot[e].cert
BY ProvisionAssumption DEF ProvisionAssumption, Content
-----------------------------------------------------------------------------
(* Types *)

\* A verification leaves a number of attempts a card can have.
LEMMA TriesType ==
  ASSUME TypeOK, NEW d \in Device, NEW p
  PROVE  TriesAfter(d, p) \in 0 .. MaxTries
BY HostAssumption DEF HostAssumption, TypeOK, HostTypeOK, TriesAfter

\* An error return keeps every type.
LEMMA FailType ==
  ASSUME TypeOK, NEW kind \in Kind, Fail(kind)
  PROVE  TypeOK'
BY HostAssumption, ProvisionAssumption
  DEF HostAssumption, ProvisionAssumption, TypeOK, HostTypeOK, Fail, Return, Goto, CardAfterDrop,
    Place, Option

\* So does a successful end, of an attempt that has a target.
LEMMA SucceedType ==
  ASSUME TypeOK, NEW w \in BOOLEAN, Succeed(w), target \in Device, target' = target,
         plugged' = plugged, conn' \in Device \cup {None}, auth' \in BOOLEAN,
         slot' \in [Device -> Content], told' \subseteq {"key", "slot2"},
         card' \in [Device -> {"none", "piv", "verified"}], UNCHANGED <<tries, holder, cool>>
  PROVE  TypeOK'
<1>1. opt \in Option
  BY ProvisionAssumption DEF ProvisionAssumption, TypeOK
<1>2. consent' \in BOOLEAN /\ pc' \in Place
  BY <1>1 DEF Succeed, Goto, Place, Option
<1>3. counted' \subseteq [dev : Device, slot2 : BOOLEAN]
  <2> DEFINE alone == w /\ plugged = {target} /\ noise # "swapped"
  <2>1. alone \in BOOLEAN
    OBVIOUS
  <2>2. counted' \in {counted, counted \cup {[dev |-> target, slot2 |-> alone]}}
    BY Zenon DEF Succeed
  <2> HIDE DEF alone
  <2> QED
    BY <2>1, <2>2 DEF TypeOK
<1> QED
  BY <1>2, <1>3 DEF TypeOK, HostTypeOK, Succeed, Quieter, Kind

\* What others do keeps every type.
LEMMA WorldType ==
  ASSUME TypeOK, NEW d \in Device, World(d)
  PROVE  TypeOK'
<1> USE DEF TypeOK, HostTypeOK, Disturb, report
<1>1. CASE Plug(d)
  BY <1>1 DEF Plug, Insert
<1>2. CASE Unplug(d)
  <2>1. auth' \in BOOLEAN
    BY <1>2 DEF Unplug
  <2>2. cool' \in [Device -> 0 .. Cooldown]
    BY <1>2, HostAssumption DEF HostAssumption, Unplug, Withdraw
  <2> QED
    BY <1>2, <2>1, <2>2 DEF Unplug, Withdraw
<1>3. CASE TakeCard(d)
  BY <1>3 DEF TakeCard, Grab
<1>4. CASE ReleaseCard(d)
  BY <1>4 DEF ReleaseCard, LetGo
<1>5. CASE Meddle(d)
  <2>1. PICK s \in {"none", "piv"} : card' = [card EXCEPT ![d] = s]
    BY <1>5 DEF Meddle, SelectOther
  <2> QED
    BY <1>5, <2>1 DEF Meddle, SelectOther
<1> QED
  BY <1>1, <1>2, <1>3, <1>4, <1>5 DEF World

\* One step per action.
LEMMA TypeStep ==
  ASSUME IInv, Next
  PROVE  TypeOK'
<1>1. CASE Failing
  BY <1>1, FailType DEF IInv, Failing
<1>2. CASE ~Failing
  <2> USE <1>2, Kinds
      DEF Early, IInv, TypeOK, HostTypeOK, Place, Kind, Goto, Quieter, attempt, report, hostVars
  <2>1. opt \in Option /\ Root \in Key
    BY ProvisionAssumption DEF ProvisionAssumption
  <2>2. opt.force \in BOOLEAN
    BY <2>1 DEF Option
  <2>3. CASE NextDevice
    BY <2>2, <2>3 DEF NextDevice
  <2>4. CASE Quit
    BY <2>4 DEF Quit
  <2>5. CASE Open
    BY <2>5 DEF Open, Openable
  <2>6. CASE OpenFails
    BY <2>6 DEF OpenFails
  <2>7. CASE CheckSlot
    <3>1. /\ Goto("pin") \/ Goto("overwrite")
          /\ UNCHANGED <<hostVars, opt, attempt, report, noise>>
      BY <2>7, Zenon DEF CheckSlot
    <3> QED
      BY <3>1
  <2>8. CASE ConfirmOverwrite
    BY <2>8 DEF ConfirmOverwrite
  <2>9. CASE EnterPin
    BY <2>9 DEF EnterPin
  <2>10. CASE VerifyAccepted
    <3>1. tries' \in [Device -> 0 .. MaxTries]
      BY <2>10, TriesType DEF VerifyAccepted, Reaches
    <3> QED
      BY <2>10, <3>1 DEF VerifyAccepted
  <2>11. CASE VerifyRefused
    <3>1. tries' \in [Device -> 0 .. MaxTries]
      BY <2>11, TriesType DEF VerifyRefused, Reaches
    <3> QED
      BY <2>2, <2>11, <3>1 DEF VerifyRefused, Return, CardAfterDrop
  <2>12. CASE AuthenticateMgm
    BY <2>12 DEF AuthenticateMgm
  <2>13. CASE WriteKey
    <3>1. conn \in Device /\ slot' \in [Device -> Content]
      BY <2>13, KeyWritten DEF WriteKey, Reaches
    <3> QED
      BY <2>13, <3>1 DEF WriteKey
  <2>14. CASE SignCert
    <3>1. cool' \in [Device -> 0 .. Cooldown]
      BY <2>14, HostAssumption DEF HostAssumption, SignCert
    <3> QED
      BY <2>14, <3>1 DEF SignCert
  <2>15. CASE SignTimesOut
    BY <2>2, <2>15 DEF SignTimesOut, Return, CardAfterDrop, WriteInv, Late
  <2>16. CASE WriteCert
    <3>1. slot' \in [Device -> Content]
      BY <2>16, CertWritten DEF WriteCert, Reaches
    <3> QED
      BY <2>16, <3>1 DEF WriteCert
  <2>17. CASE ReadBack
    <3>1. target \in Device
      BY <2>17 DEF ReadBack, WriteInv, Late
    <3>2. told' \subseteq {"key", "slot2"} /\ card' \in [Device -> {"none", "piv", "verified"}]
      BY <2>17 DEF ReadBack, ToldKey, CardAfterDrop
    <3>3. CASE Succeed(FALSE)
      BY <2>17, <3>1, <3>2, <3>3, SucceedType DEF ReadBack
    <3> QED
      BY <2>17, <3>2, <3>3 DEF ReadBack
  <2>18. CASE ConfirmSlot2
    <3>1. target \in Device
      BY <2>18 DEF ConfirmSlot2, WriteInv, Late
    <3>2. CASE Succeed(FALSE)
      BY <2>18, <3>1, <3>2, SucceedType DEF ConfirmSlot2
    <3>3. CASE /\ pc' = "hid" /\ UNCHANGED <<hostVars, conn, auth, target, pin, consent, report>>
               /\ Quieter
      BY <3>3
    <3> QED
      BY <2>18, <3>2, <3>3 DEF ConfirmSlot2
  <2>19. CASE ProgramSlot2
    <3>1. target \in Device
      BY <2>19 DEF ProgramSlot2, WriteInv, Late
    <3>2. slot' \in [Device -> Content]
      BY <2>19, Slot2Written DEF ProgramSlot2
    <3> QED
      BY <2>19, <3>1, <3>2, SucceedType DEF ProgramSlot2
  <2>20. CASE ProgramBreaks
    <3>1. target \in Device
      BY <2>20 DEF ProgramBreaks, WriteInv, Late
    <3>2. slot' \in [Device -> Content]
      BY <2>20, Slot2Written DEF ProgramBreaks
    <3> QED
      BY <2>2, <2>20, <3>1, <3>2 DEF ProgramBreaks, Return
  <2>21. CASE Tick
    <3>1. cool' \in [Device -> 0 .. Cooldown]
      BY <2>21, HostAssumption DEF HostAssumption, Tick
    <3> QED
      BY <2>21, <3>1 DEF Tick
  <2>22. CASE \E d \in Device : World(d)
    BY <2>22, WorldType
  <2> QED
    BY <2>3, <2>4, <2>5, <2>6, <2>7, <2>8, <2>9, <2>10, <2>11, <2>12, <2>13, <2>14, <2>15, <2>16,
      <2>17, <2>18, <2>19, <2>20, <2>21, <2>22, OnlyFail DEF Next
<1> QED
  BY <1>1, <1>2
-----------------------------------------------------------------------------
(* The rest of the invariant *)

Rest ==
  /\ WriteInv /\ ConnInv /\ InitCmdInv /\ ConsentInv
  /\ ToldIsWritten /\ CountedAreClones /\ RefusalWritesNothing

\* No key or certificate changes; a slot 2 may have been given the shared secret.
Slot2Only ==
  \A d \in Device :
    /\ slot'[d].key = slot[d].key /\ slot'[d].cert = slot[d].cert
    /\ slot'[d].slot2 \in {slot[d].slot2, Shared2}

\* The end of an attempt that an error stops.
LEMMA ReturnRest ==
  ASSUME IInv, NEW kind \in Kind, Return(kind), Slot2Only, UNCHANGED <<counted, told>>,
         kind \in Refusal => pc \in Early /\ slot' = slot
  PROVE  Rest'
<1> USE DEF IInv, Return, Goto
<1>1. opt \in Option /\ opt' = opt
  BY ProvisionAssumption DEF ProvisionAssumption, TypeOK
<1>2. pc' \in {"insert", "done"} /\ (opt.cmd = "init" => pc' = "done")
  BY <1>1 DEF Option
<1>3. WriteInv' /\ ConnInv' /\ InitCmdInv' /\ ConsentInv'
  BY <1>1, <1>2 DEF WriteInv, ConnInv, InitCmdInv, ConsentInv, Visible, Early, Late
<1>4. ToldIsWritten' /\ CountedAreClones'
  BY <1>1 DEF ToldIsWritten, CountedAreClones, InitCmdInv, Slot2Only, TypeOK
<1>5. RefusalWritesNothing'
  BY DEF RefusalWritesNothing, WriteInv, Refusal
<1> QED
  BY <1>3, <1>4, <1>5 DEF Rest

\* The end of an attempt that succeeds.
LEMMA SucceedRest ==
  ASSUME IInv, NEW w \in BOOLEAN, Succeed(w), Slot2Only, pc \in {"readBack", "slot2", "hid"},
         conn' = None, target' = target, told' \subseteq told \cup {"key", "slot2"},
         "slot2" \in told' \ told => \E d \in Device : slot'[d].slot2 = Shared2,
         w /\ plugged = {target} => slot'[target].slot2 = Shared2
  PROVE  Rest'
<1> USE DEF IInv, Succeed, Goto, Quieter
<1>1. opt \in Option /\ opt' = opt
  BY ProvisionAssumption DEF ProvisionAssumption, TypeOK
<1>2. pc' \in {"insert", "done"} /\ (opt.cmd = "init" => pc' = "done" /\ counted' = counted)
  BY <1>1 DEF Option
<1>3. target \in Device /\ slot[target].key = Root /\ slot[target].cert = Root
  BY DEF WriteInv, Late
<1>4. WriteInv' /\ ConnInv' /\ InitCmdInv' /\ ConsentInv'
  BY <1>1, <1>2, <1>3 DEF WriteInv, ConnInv, InitCmdInv, ConsentInv, Visible, Early, Late
<1>5. ToldIsWritten'
  BY <1>1, <1>3 DEF ToldIsWritten, InitCmdInv, Slot2Only
<1>6. CountedAreClones'
  <2> SUFFICES ASSUME NEW c \in counted'
               PROVE  /\ slot'[c.dev].key = Root /\ slot'[c.dev].cert = Root
                      /\ c.slot2 => slot'[c.dev].slot2 = Shared2
    BY DEF CountedAreClones
  <2>1. CASE c \in counted
    BY <2>1 DEF CountedAreClones, Slot2Only, TypeOK
  <2>2. CASE c = [dev |-> target, slot2 |-> w /\ plugged = {target} /\ noise # "swapped"]
    BY <1>3, <2>2 DEF Slot2Only
  <2> QED
    BY <2>1, <2>2
<1>7. RefusalWritesNothing'
  BY DEF RefusalWritesNothing
<1> QED
  BY <1>4, <1>5, <1>6, <1>7 DEF Rest

\* What others do changes no slot, and an attempt they disturb is not quiet.
LEMMA WorldRest ==
  ASSUME IInv, NEW d \in Device, World(d)
  PROVE  Rest'
<1> USE DEF IInv
<1>1. UNCHANGED <<slot, opt, pc, pin, consent, target, before, report>>
  BY DEF World, Plug, Unplug, TakeCard, ReleaseCard, Meddle, Disturb, Insert, Withdraw, Grab, LetGo,
    SelectOther
<1>2. conn' \in {conn, None} /\ (pc # "insert" => noise' # "quiet")
  BY DEF World, Plug, Unplug, TakeCard, ReleaseCard, Meddle, Disturb
<1>3. WriteInv' /\ ConnInv' /\ InitCmdInv' /\ ConsentInv'
  BY <1>1, <1>2 DEF WriteInv, ConnInv, InitCmdInv, ConsentInv, Visible, report
<1>4. ToldIsWritten' /\ CountedAreClones' /\ RefusalWritesNothing'
  BY <1>1 DEF ToldIsWritten, CountedAreClones, RefusalWritesNothing, report
<1> QED
  BY <1>3, <1>4 DEF Rest

\* One step per action.
LEMMA RestStep ==
  ASSUME IInv, Next
  PROVE  Rest'
<1>1. CASE Failing
  BY <1>1, ReturnRest DEF Failing, Fail, Slot2Only
<1>2. CASE ~Failing
  <2> USE <1>2, Kinds DEF Early, IInv, Goto, Quieter, attempt, report, hostVars
  <2>0. /\ opt \in Option
        /\ slot \in [Device -> Content]
    BY ProvisionAssumption DEF ProvisionAssumption, TypeOK, HostTypeOK
  <2> DEFINE Parts == /\ WriteInv' /\ ConnInv' /\ InitCmdInv' /\ ConsentInv'
                      /\ ToldIsWritten' /\ CountedAreClones' /\ RefusalWritesNothing'
  <2> SUFFICES Parts
    BY DEF Rest
  <2> USE DEF WriteInv, ConnInv, InitCmdInv, ConsentInv, Visible, ToldIsWritten, CountedAreClones,
              RefusalWritesNothing
  <2>1. CASE NextDevice
    BY <2>0, <2>1 DEF NextDevice, Late
  <2>2. CASE Quit
    BY <2>0, <2>2 DEF Quit, Late
  <2>3. CASE Open
    BY <2>0, <2>3, HostAssumption DEF Open, Late, Reaches, TypeOK, HostTypeOK, Openable, HostAssumption
  <2>4. CASE OpenFails
    BY <2>0, <2>4 DEF OpenFails, Late
  <2>5. CASE CheckSlot
    <3>1. /\ ~Slot9dOccupied \/ opt.force
          /\ Goto("pin")
          /\ UNCHANGED <<hostVars, opt, attempt, report, noise>>
       \/ /\ Goto("overwrite")
          /\ UNCHANGED <<hostVars, opt, attempt, report, noise>>
      BY <2>5, Zenon DEF CheckSlot
    <3> QED
      BY <2>0, <2>5, <3>1 DEF CheckSlot, Late, Slot9dOccupied, Reaches
  <2>6. CASE ConfirmOverwrite
    BY <2>0, <2>6 DEF ConfirmOverwrite, Late
  <2>7. CASE EnterPin
    BY <2>0, <2>7 DEF EnterPin, Late
  <2>8. CASE VerifyAccepted
    BY <2>0, <2>8 DEF VerifyAccepted, Late
  <2>9. CASE AuthenticateMgm
    BY <2>0, <2>9 DEF AuthenticateMgm, Late
  <2>10. CASE VerifyRefused
    <3>1. PICK kind \in Kind : Return(kind)
      BY <2>10 DEF VerifyRefused, Kind
    <3> QED
      BY <2>10, <3>1, ReturnRest DEF VerifyRefused, Slot2Only, Rest
  <2>11. CASE WriteKey
    <3>1. conn \in Device /\ slot' = [slot EXCEPT ![conn].key = Root] /\ target' = conn
      BY <2>11 DEF WriteKey, Reaches
    <3>2. counted = {} \/ opt.cmd # "init"
      BY <2>0
    <3>3. \A d \in Device : slot'[d].key = (IF d = conn THEN Root ELSE slot[d].key)
                            /\ slot'[d].cert = slot[d].cert /\ slot'[d].slot2 = slot[d].slot2
      BY <2>0, <3>1, KeyWritten
    <3>4. pc = "key" /\ pc' = "sign" /\ UNCHANGED <<opt, conn, consent, counted, told, outcome, before>>
      BY <2>11 DEF WriteKey
    <3>5. WriteInv' /\ ConnInv' /\ InitCmdInv' /\ ConsentInv'
      BY <3>1, <3>3, <3>4 DEF Late
    <3>6. ToldIsWritten' /\ CountedAreClones' /\ RefusalWritesNothing'
      BY <2>0, <3>1, <3>3, <3>4 DEF TypeOK
    <3> QED
      BY <3>5, <3>6
  <2>12. CASE SignCert
    BY <2>0, <2>12 DEF SignCert, Late
  <2>13. CASE SignTimesOut
    BY <2>13, ReturnRest DEF SignTimesOut, Slot2Only, Rest, Kind, Refusal
  <2>14. CASE WriteCert
    <3>1. conn = target /\ target \in Device /\ slot' = [slot EXCEPT ![conn].cert = Root]
      BY <2>14, HostAssumption DEF HostAssumption, WriteCert, Reaches, Late
    <3>2. \A d \in Device : slot'[d].cert = (IF d = conn THEN Root ELSE slot[d].cert)
                            /\ slot'[d].key = slot[d].key /\ slot'[d].slot2 = slot[d].slot2
      BY <2>0, <3>1, CertWritten
    <3>3. pc = "cert" /\ pc' = "readBack" /\ UNCHANGED <<opt, attempt, report>>
      BY <2>14 DEF WriteCert
    <3>4. WriteInv' /\ ConnInv' /\ InitCmdInv' /\ ConsentInv'
      BY <3>1, <3>2, <3>3 DEF Late
    <3>5. ToldIsWritten' /\ CountedAreClones' /\ RefusalWritesNothing'
      BY <2>0, <3>1, <3>2, <3>3 DEF TypeOK, Late
    <3> QED
      BY <3>4, <3>5
  <2>15. CASE ReadBack
    <3>1. /\ pc = "readBack" /\ conn' = None
          /\ told' = ToldKey
          /\ UNCHANGED <<slot, target>>
      BY <2>15 DEF ReadBack
    <3>2. CASE Succeed(FALSE)
      BY <3>1, <3>2, SucceedRest DEF Slot2Only, ToldKey, Rest
    <3>3. CASE /\ pc' \in {"hid", "slot2"}
               /\ UNCHANGED <<opt, before, pin, consent, spoiled, counted, outcome>>
      BY <2>0, <3>1, <3>3 DEF ToldKey, Late
    <3> QED
      BY <2>15, <3>2, <3>3 DEF ReadBack
  <2>16. CASE ConfirmSlot2
    <3>1. CASE Succeed(FALSE) /\ told' = told
      BY <2>16, <3>1, SucceedRest DEF ConfirmSlot2, Slot2Only, Rest
    <3>2. CASE pc' = "hid" /\ UNCHANGED <<opt, before, pin, consent, report>>
      BY <2>0, <2>16, <3>2 DEF ConfirmSlot2, Late
    <3> QED
      BY <2>16, <3>1, <3>2 DEF ConfirmSlot2
  <2>17. CASE ProgramSlot2
    <3>1. PICK d \in plugged : slot' = [slot EXCEPT ![d].slot2 = Shared2]
      BY <2>17 DEF ProgramSlot2
    <3>2. d \in Device
      BY DEF TypeOK, HostTypeOK
    <3>3. Slot2Only /\ slot'[d].slot2 = Shared2
      BY <2>0, <3>1, <3>2, Slot2Written DEF Slot2Only
    <3> QED
      BY <2>17, <3>2, <3>3, SucceedRest DEF ProgramSlot2, Rest
  <2>18. CASE ProgramBreaks
    <3>1. PICK d \in plugged, s \in BOOLEAN :
            slot' = IF s THEN [slot EXCEPT ![d].slot2 = Shared2] ELSE slot
      BY <2>18 DEF ProgramBreaks
    <3>2. d \in Device
      BY DEF TypeOK, HostTypeOK
    <3>3. Slot2Only
      BY <2>0, <3>1, <3>2, Slot2Written DEF Slot2Only
    <3> QED
      BY <2>18, <3>3, ReturnRest DEF ProgramBreaks, Rest, Kind, Refusal
  <2>19. CASE Tick
    BY <2>0, <2>19 DEF Tick, Late, Reaches
  <2>20. CASE \E d \in Device : World(d)
    BY <2>20, WorldRest DEF Rest
  <2> QED
    BY <2>1, <2>2, <2>3, <2>4, <2>5, <2>6, <2>7, <2>8, <2>9, <2>10, <2>11, <2>12, <2>13, <2>14,
      <2>15, <2>16, <2>17, <2>18, <2>19, <2>20, OnlyFail DEF Next
<1> QED
  BY <1>1, <1>2
-----------------------------------------------------------------------------
(* The theorems *)

\* The invariant is inductive.
LEMMA StepIInv == IInv /\ [Next]_vars => IInv'
<1>1. CASE Next
  BY <1>1, TypeStep, RestStep DEF IInv, Rest
<1>2. CASE UNCHANGED vars
  BY <1>2 DEF vars, hostVars, attempt, report, IInv, TypeOK, HostTypeOK, WriteInv, ConnInv,
    InitCmdInv, ConsentInv, Visible, Reaches, ToldIsWritten, CountedAreClones, RefusalWritesNothing
<1> QED
  BY <1>1, <1>2

\* It holds of every state of `ykdf init` and `ykdf clone`.
THEOREM Invariance == Spec => []IInv
  BY InitIInv, StepIInv, PTL DEF Spec

\* The types of the model's state.
THEOREM TypeCorrect == Spec => []TypeOK
  BY Invariance, PTL DEF IInv

\* What `init` shows as the only copy of a secret is in a device.
THEOREM ShownOnlyOnceWritten == Spec => []ToldIsWritten
  BY Invariance, PTL DEF IInv

\* The devices `clone` has counted hold the root key, its certificate and, as far as the
\* user let it be written to the right device, the shared secret; no later attempt undoes it.
THEOREM ClonesStayClones == Spec => []CountedAreClones
  BY Invariance, PTL DEF IInv

\* An attempt refused before its first write has changed no device.
THEOREM RefusedAttemptsAreHarmless == Spec => []RefusalWritesNothing
  BY Invariance, PTL DEF IInv
-----------------------------------------------------------------------------
(* Slot 9d from one step to the next *)

\* What a step does to slot 9d of the devices: nothing, or the new key goes into the
\* device connected to, or its certificate into the target.
LEMMA Slot9dStep ==
  ASSUME IInv, Next
  PROVE  \/ \A d \in Device : slot'[d].key = slot[d].key /\ slot'[d].cert = slot[d].cert
         \/ /\ pc = "key" /\ conn \in Device /\ target' = conn /\ pc' = "sign"
            /\ UNCHANGED spoiled
            /\ \A d \in Device \ {conn} : slot'[d].key = slot[d].key /\ slot'[d].cert = slot[d].cert
         \/ /\ pc = "cert" /\ slot'[target].key = Root /\ slot'[target].cert = Root
            /\ UNCHANGED <<target, spoiled>>
            /\ \A d \in Device : slot'[d].key = slot[d].key
            /\ \A d \in Device \ {target} : slot'[d].cert = slot[d].cert
<1> DEFINE Same == \A d \in Device : slot'[d].key = slot[d].key /\ slot'[d].cert = slot[d].cert
<1>0. slot \in [Device -> Content] /\ plugged \subseteq Device
  BY DEF IInv, TypeOK, HostTypeOK
<1>1. CASE Failing
  BY <1>1 DEF Failing, Fail
<1>2. CASE ~Failing
  <2> USE <1>2, Kinds DEF Early, IInv, Goto, hostVars
  <2>1. CASE NextDevice \/ Quit
    BY <2>1 DEF NextDevice, Quit
  <2>2. CASE Open \/ OpenFails \/ ConfirmOverwrite \/ EnterPin
    BY <2>2 DEF Open, OpenFails, ConfirmOverwrite, EnterPin
  <2>3. CASE CheckSlot
    BY <2>3 DEF CheckSlot
  <2>4. CASE VerifyAccepted \/ VerifyRefused \/ AuthenticateMgm
    BY <2>4 DEF VerifyAccepted, VerifyRefused, AuthenticateMgm
  <2>5. CASE WriteKey
    <3>1. conn \in Device /\ slot' = [slot EXCEPT ![conn].key = Root]
      BY <2>5 DEF WriteKey, Reaches
    <3> QED
      BY <1>0, <2>5, <3>1, KeyWritten DEF WriteKey, report
  <2>6. CASE SignCert \/ SignTimesOut
    BY <2>6 DEF SignCert, SignTimesOut
  <2>7. CASE WriteCert
    <3>1. conn = target /\ target \in Device /\ slot' = [slot EXCEPT ![conn].cert = Root]
      BY <2>7, HostAssumption DEF HostAssumption, WriteCert, Reaches, WriteInv, ConnInv, Late
    <3>2. slot[target].key = Root
      BY <2>7 DEF WriteCert, WriteInv, Late
    <3> QED
      BY <1>0, <2>7, <3>1, <3>2, CertWritten DEF WriteCert, attempt, report
  <2>8. CASE ReadBack \/ ConfirmSlot2
    BY <2>8 DEF ReadBack, ConfirmSlot2
  <2>9. CASE ProgramSlot2
    BY <1>0, <2>9, Slot2Written DEF ProgramSlot2
  <2>10. CASE ProgramBreaks
    BY <1>0, <2>10, Slot2Written DEF ProgramBreaks
  <2>11. CASE Tick
    BY <2>11 DEF Tick
  <2>12. CASE \E d \in Device : World(d)
    BY <2>12 DEF World, Plug, Unplug, TakeCard, ReleaseCard, Meddle, Insert, Withdraw, Grab, LetGo,
      SelectOther
  <2> QED
    BY <2>1, <2>2, <2>3, <2>4, <2>5, <2>6, <2>7, <2>8, <2>9, <2>10, <2>11, <2>12, OnlyFail DEF Next
<1> QED
  BY <1>1, <1>2

\* While nobody else uses the card, a key that slot 9d shows, by its metadata or by its
\* certificate, is replaced only by consent.
THEOREM OverwriteTakesConsent == Spec => NoClobber
<1> DEFINE A == \A d \in Device :
                   /\ slot[d].key \notin {None, slot'[d].key}
                   /\ d \in Metadata \/ slot[d].cert # None
                   /\ noise = "quiet"
                   => consent
<1>1. IInv /\ [Next]_vars => [A]_vars
  BY Slot9dStep DEF IInv, ConsentInv, Visible
<1> QED
  BY <1>1, Invariance, PTL DEF Spec, NoClobber
-----------------------------------------------------------------------------
(* A certificate of another key *)

\* The devices come with certificates of their own keys: nothing can be said of one that
\* was already wrong and that no attempt touches.
ContentsAgree == \A c \in Contents : c.cert # None => c.key = c.cert

\* What a step takes off the list of spoiled devices is a target that holds the root key
\* and its certificate.
LEMMA SpoiledStep ==
  ASSUME IInv, Next, NEW d \in spoiled
  PROVE  d \in spoiled' \/ (slot'[d].key = Root /\ slot'[d].cert = Root)
<1>0. slot \in [Device -> Content] /\ plugged \subseteq Device
  BY DEF IInv, TypeOK, HostTypeOK
<1>1. CASE Failing
  BY <1>1 DEF Failing, Fail
<1>2. CASE ~Failing
  <2> USE <1>2, Kinds DEF Early, report
  <2>1. CASE NextDevice \/ Quit \/ Open \/ OpenFails \/ ConfirmOverwrite \/ EnterPin
    BY <2>1 DEF NextDevice, Quit, Open, OpenFails, ConfirmOverwrite, EnterPin
  <2>2. CASE CheckSlot
    BY <2>2 DEF CheckSlot
  <2>3. CASE VerifyAccepted \/ VerifyRefused \/ AuthenticateMgm \/ WriteKey \/ SignCert \/ WriteCert
    BY <2>3 DEF VerifyAccepted, VerifyRefused, AuthenticateMgm, WriteKey, SignCert, WriteCert
  <2>4. CASE SignTimesOut \/ ProgramBreaks
    BY <2>4 DEF SignTimesOut, ProgramBreaks
  <2>5. CASE ReadBack \/ ConfirmSlot2 \/ ProgramSlot2
    <3>1. pc \in {"readBack", "slot2", "hid"}
      BY <2>5 DEF ReadBack, ConfirmSlot2, ProgramSlot2
    <3>2. target \in Device /\ slot[target].key = Root /\ slot[target].cert = Root
      BY <3>1 DEF IInv, WriteInv, Late
    <3>3. slot'[target].key = Root /\ slot'[target].cert = Root
      BY <3>1, <3>2, Slot9dStep
    <3>4. spoiled' \in {spoiled, spoiled \ {target}}
      BY <2>5 DEF ReadBack, ConfirmSlot2, ProgramSlot2, Succeed
    <3> QED
      BY <3>3, <3>4
  <2>6. CASE Tick
    BY <2>6 DEF Tick
  <2>7. CASE \E e \in Device : World(e)
    BY <2>7 DEF World, Plug, Unplug, TakeCard, ReleaseCard, Meddle, Disturb
  <2> QED
    BY <2>1, <2>2, <2>3, <2>4, <2>5, <2>6, <2>7, OnlyFail DEF Next
<1> QED
  BY <1>1, <1>2

\* A step that leaves the place between the key and the certificate writes the
\* certificate or has its target listed as spoiled.
LEMMA LeavingStep ==
  ASSUME IInv, Next, pc \in {"sign", "cert"}
  PROVE  \/ target \in spoiled'
         \/ slot'[target].key = Root /\ slot'[target].cert = Root
         \/ pc' \in {"sign", "cert"} /\ target' = target
<1>0. target \in Device /\ slot[target].key = Root
  BY DEF IInv, WriteInv, Late
<1>1. CASE Failing
  BY <1>0, <1>1, HostAssumption DEF HostAssumption, Failing, Fail
<1>2. CASE ~Failing
  <2> USE <1>2, Kinds DEF Goto, attempt
  <2>1. CASE SignCert
    BY <2>1 DEF SignCert
  <2>2. CASE SignTimesOut
    BY <2>2 DEF SignTimesOut
  <2>3. CASE WriteCert
    <3>1. conn = target /\ slot' = [slot EXCEPT ![conn].cert = Root]
      BY <2>3, HostAssumption DEF HostAssumption, WriteCert, Reaches, IInv, ConnInv
    <3> QED
      BY <1>0, <3>1, CertWritten DEF IInv, TypeOK, HostTypeOK
  <2>4. CASE Tick
    BY <2>4 DEF Tick
  <2>5. CASE \E d \in Device : World(d)
    BY <2>5 DEF World, Plug, Unplug, TakeCard, ReleaseCard, Meddle, Disturb
  <2> QED
    BY <2>1, <2>2, <2>3, <2>4, <2>5, OnlyFail
       DEF Next, NextDevice, Quit, Open, OpenFails, CheckSlot, ConfirmOverwrite, EnterPin,
           VerifyAccepted, VerifyRefused, AuthenticateMgm, WriteKey, ReadBack, ConfirmSlot2,
           ProgramSlot2, ProgramBreaks
<1> QED
  BY <1>1, <1>2

\* Whatever stops an attempt and whatever others do, a certificate that is not of the key
\* beside it belongs to a device whose last attempt failed, or to the one being written.
THEOREM SpoiledIsReported == ASSUME ContentsAgree PROVE Spec => []MismatchIsReported
<1>1. Init => MismatchIsReported
  BY DEF ContentsAgree, Init, HostInit, MismatchIsReported
<1>2. IInv /\ MismatchIsReported /\ [Next]_vars => MismatchIsReported'
  <2> SUFFICES ASSUME IInv, MismatchIsReported, [Next]_vars PROVE MismatchIsReported'
    OBVIOUS
  <2>1. CASE Next
    <3> SUFFICES ASSUME NEW d \in Device, slot'[d].key # slot'[d].cert, slot'[d].cert # None
                 PROVE  d \in spoiled' \/ (d = target' /\ pc' \in {"sign", "cert"})
      BY DEF MismatchIsReported
    <3>1. CASE slot'[d].key = slot[d].key /\ slot'[d].cert = slot[d].cert
      <4>1. d \in spoiled \/ (d = target /\ pc \in {"sign", "cert"})
        BY <3>1 DEF MismatchIsReported
      <4> QED
        BY <2>1, <4>1, SpoiledStep, LeavingStep
    <3>2. CASE pc = "key" /\ target' = conn /\ pc' = "sign" /\ d = conn
      BY <3>2
    <3>3. CASE slot'[target].key = Root /\ slot'[target].cert = Root /\ d = target
      BY <3>3
    <3> QED
      BY <2>1, <3>1, <3>2, <3>3, Slot9dStep
  <2>2. CASE UNCHANGED vars
    BY <2>2 DEF vars, hostVars, attempt, report, MismatchIsReported
  <2> QED
    BY <2>1, <2>2
<1> QED
  BY <1>1, <1>2, Invariance, PTL DEF Spec
=============================================================================
