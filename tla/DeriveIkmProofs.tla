-------------------------- MODULE DeriveIkmProofs --------------------------
(***************************************************************************)
(* Proofs about DeriveIkm, for every set of devices, slots, PINs and       *)
(* processes and every value of the bounds.                                *)
(***************************************************************************)
EXTENDS DeriveIkm, FiniteSetTheorems, TLAPS

\* The inductive invariant.  Type correctness needs SessionInv: only a session whose
\* card has a key and a certificate produces key material.
IInv == TypeOK /\ SessionInv

\* Idle sessions hold nothing.
LEMMA InitIInv == Init => IInv
  BY HostAssumption, DeriveAssumption
    DEF HostAssumption, DeriveAssumption, Init, HostInit, IInv, TypeOK, HostTypeOK,
      Content, Place, Kind, Noise, Ikm, SessionInv, SessionOK, Active, HasCard, HasPoint,
      HasPin, PivEntry

\* A flag the command line accepts and any environment give a transport or an error.
LEMMA RequestedTransportType ==
  ASSUME NEW flag \in Flag, NEW env
  PROVE  RequestedTransport(flag, env) \in {"auto", "pcsc", "scdaemon", "invalid"}
BY DeriveAssumption DEF DeriveAssumption, RequestedTransport

\* Start chooses the request and where it goes.
LEMMA StartType == ASSUME IInv, NEW p \in Proc, Start(p) PROVE TypeOK'
<1>1. /\ req' \in [Proc -> [layered : BOOLEAN,
                             transport : {"auto", "pcsc", "scdaemon", "invalid"}]]
      /\ pc' \in [Proc -> Place]
      /\ outcome' \in [Proc -> Kind]
  <2>1. PICK layered \in BOOLEAN, flag \in Flag, env \in Env :
       LET t == RequestedTransport(flag, env) IN
       /\ req' = [req EXCEPT ![p] = [layered |-> layered, transport |-> t]]
       /\ pc' = [pc EXCEPT ![p] = CASE t = "invalid" -> "done"
                    [] t = "scdaemon" -> "selScd"
                    [] OTHER -> "selOpen"]
       /\ outcome' = [outcome EXCEPT ![p] = IF t = "invalid" THEN "Scd" ELSE "none"]
    BY DEF Start, Goto
  <2> DEFINE t == RequestedTransport(flag, env)
  <2>2. t \in {"auto", "pcsc", "scdaemon", "invalid"}
    BY RequestedTransportType
  <2> HIDE DEF t
  <2> QED BY <2>1, <2>2 DEF IInv, TypeOK, Place, Kind, t
<1>2. noise' \in [Proc -> Noise]
  BY DEF Start, IInv, TypeOK, Noise, Noisier
<1> QED BY <1>1, <1>2 DEF Start, IInv, TypeOK, HostTypeOK, hostVars, link

\* An error return resets the connection of its session to None.
LEMMA FailType ==
  ASSUME IInv, NEW p \in Proc, NEW kind \in Kind, Fail(p, kind)
  PROVE  TypeOK'
BY HostAssumption, DeriveAssumption
DEF HostAssumption, DeriveAssumption, Fail, Quit, End, CardAfterDrop, Goto, IInv, TypeOK,
    HostTypeOK, Place, Kind

\* The probe of the readers only resets cards.
LEMMA ProbeResets ==
  ASSUME TypeOK, SmartcardBusy
  PROVE  card' \in [Device -> {"none", "piv", "verified"}]
<1>1. PICK seen \in SUBSET Openable :
        card' = [d \in Device |-> IF d \in seen THEN "none" ELSE card[d]]
  BY DEF SmartcardBusy
<1> QED
  BY <1>1 DEF TypeOK, HostTypeOK

\* A probe that finds no use for the readers ends the session with one of two errors.
LEMMA ProbeFailsType ==
  ASSUME IInv, NEW p \in Proc, SmartcardBusy, ProbeFails(p)
  PROVE  TypeOK'
BY HostAssumption, DeriveAssumption, ProbeResets
DEF HostAssumption, DeriveAssumption, ProbeFails, Quit, End, Goto, IInv, TypeOK,
    HostTypeOK, Place, Kind

\* One step per action; the error returns share FailType.
LEMMA TypeStep ==
  ASSUME IInv, Next
  PROVE  TypeOK'
<1>1. ASSUME NEW p \in Proc, NEW kind \in Kind, Fail(p, kind) PROVE TypeOK'
  BY <1>1, FailType
<1>2. ASSUME NEW p \in Proc,
             \/ Interrupt(p) \/ SelectScdaemonFails(p) \/ SerialnoFails(p)
             \/ VerifyFails(p) \/ ReadCertFails(p) \/ EcdhFails(p)
      PROVE  TypeOK'
  <2>1. \E kind \in Kind : Fail(p, kind)
    BY <1>2
      DEF Kind, PivError, EcdhError, CertError, Interrupt, SelectScdaemonFails,
        SerialnoFails, VerifyFails, ReadCertFails, EcdhFails
  <2> QED BY <2>1, <1>1
<1>7. ASSUME NEW p \in Proc, SelectProbe(p) \/ OpenProbe(p) PROVE TypeOK'
  <2>1. CASE Goto(p, "selScd") /\ SmartcardBusy
             /\ UNCHANGED <<plugged, slot, tries, holder, cool, req, pin, link, answer, noise>>
    BY <2>1, ProbeResets DEF IInv, TypeOK, HostTypeOK, Goto, Place, link, answer
  <2>2. CASE SmartcardBusy /\ ProbeFails(p)
    BY <2>2, ProbeFailsType
  <2> QED BY <1>7, <2>1, <2>2 DEF SelectProbe, OpenProbe
<1> USE HostAssumption, DeriveAssumption
    DEF HostAssumption, DeriveAssumption, IInv, TypeOK, HostTypeOK, Content, Place, Kind,
        Noise,
        Ikm, Noisier, hostVars, link, answer, Goto, PivEntry, Disturb, Unmoved, Shared,
            Openable
<1>3. ASSUME NEW p \in Proc, Start(p) PROVE TypeOK'
  BY <1>3, StartType
<1>4. ASSUME NEW p \in Proc, EnterPin(p) PROVE TypeOK'
  BY <1>4 DEF EnterPin
<1>5. ASSUME NEW p \in Proc, SelectOpen(p) PROVE TypeOK'
  BY <1>5 DEF SelectOpen
<1>6. ASSUME NEW p \in Proc, SelectOpenFails(p) PROVE TypeOK'
  BY <1>6 DEF SelectOpenFails
<1>8. ASSUME NEW p \in Proc, SelectScdaemon(p) PROVE TypeOK'
  <2>1. PICK d \in ScdaemonReaches(Shared) :
               /\ holder' = [holder EXCEPT ![d] = "scdaemon"]
               /\ card' = IF holder[d] = "free" THEN [card EXCEPT ![d] = "none"] ELSE card
    BY <1>8 DEF SelectScdaemon
  <2> QED BY <1>8, <2>1 DEF SelectScdaemon, ScdaemonReaches
<1>9. ASSUME NEW p \in Proc, HmacAnswered(p) PROVE TypeOK'
  <2>1. PICK d \in Answering : hmac' = [hmac EXCEPT ![p] = slot[d].slot2]
    BY <1>9 DEF HmacAnswered
  <2> QED BY <1>9, <2>1 DEF HmacAnswered, Answering
<1>10. ASSUME NEW p \in Proc, HmacFails(p) PROVE TypeOK'
  <2>1. noise' \in [Proc -> Noise]
    BY <1>10 DEF HmacFails
  <2>2. CASE Goto(p, "pause") /\ UNCHANGED <<hostVars, req, pin, link, answer>>
    BY <2>1, <2>2
  <2>3. CASE End(p, "HmacFailed") /\ UNCHANGED <<card, tries, cool, accepted, ikm>>
    BY <2>1, <2>3 DEF End
  <2> QED BY <1>10, <2>2, <2>3 DEF HmacFails
<1>11. ASSUME NEW p \in Proc, Open(p) PROVE TypeOK'
  BY <1>11 DEF Open
<1>12. ASSUME NEW p \in Proc, OpenFails(p) PROVE TypeOK'
  BY <1>12 DEF OpenFails
<1>13. ASSUME NEW p \in Proc, Serialno(p) PROVE TypeOK'
  <2>1. PICK d \in ScdaemonReaches(Shared) :
               /\ holder' = [holder EXCEPT ![d] = "scdaemon"]
               /\ conn' = [conn EXCEPT ![p] = d]
               /\ card' = [card EXCEPT ![d] = "piv"]
    BY <1>13 DEF Serialno
  <2> QED BY <1>13, <2>1 DEF Serialno, ScdaemonReaches
<1>14. ASSUME NEW p \in Proc, VerifyAccepted(p) PROVE TypeOK'
  <2>1. tries' \in [Device -> 0 .. MaxTries]
    BY <1>14 DEF VerifyAccepted, TriesAfter, Reaches
  <2> QED BY <1>14, <2>1 DEF VerifyAccepted, Reaches
<1>15. ASSUME NEW p \in Proc, VerifyRefused(p) PROVE TypeOK'
  <2>1. tries' \in [Device -> 0 .. MaxTries]
    BY <1>15 DEF VerifyRefused, TriesAfter, Reaches
  <2> QED BY <1>15, <2>1 DEF VerifyRefused, End, Reaches
<1>16. ASSUME NEW p \in Proc, ReadCert(p) PROVE TypeOK'
  BY <1>16 DEF ReadCert, Reaches
<1>17. ASSUME NEW p \in Proc, Blink(p) PROVE TypeOK'
  BY <1>17 DEF Blink, Reaches
<1>18. ASSUME NEW p \in Proc, Touched(p) PROVE TypeOK'
  <2>1. cool' \in [Device -> 0 .. Cooldown]
    BY <1>18 DEF Touched
  <2>2. /\ conn[p] \in Device
        /\ slot[conn[p]].key \in Key
        /\ point[p] \in Key
    BY <1>18 DEF Touched, SessionInv, SessionOK, HasPoint
  <2>3. ikm' \in [Proc -> Ikm \cup {None}]
    BY <1>18, <2>2 DEF Touched, Ecdh
  <2> QED BY <1>18, <2>1, <2>3 DEF Touched, End, CardAfterDrop
<1>19. ASSUME NEW p \in Proc, NotTouched(p) PROVE TypeOK'
  BY <1>19 DEF NotTouched, End, CardAfterDrop, EcdhError
<1>20. CASE Tick
  <2>1. cool' \in [Device -> 0 .. Cooldown]
    BY <1>20 DEF Tick
  <2>2. clock' \in [Proc -> 0 .. RetryBudget]
    BY <1>20 DEF Tick, SessionInv, SessionOK
  <2> QED BY <1>20, <2>1, <2>2 DEF Tick
<1>21. ASSUME NEW d \in Device, Plug(d) PROVE TypeOK'
  BY <1>21 DEF Plug, Insert
<1>22. ASSUME NEW d \in Device, Unplug(d) PROVE TypeOK'
  BY <1>22 DEF Unplug, Withdraw, Disconnect
<1>23. ASSUME NEW d \in Device, TakeCard(d) PROVE TypeOK'
  BY <1>23 DEF TakeCard, Grab
<1>24. ASSUME NEW d \in Device, ReleaseCard(d) PROVE TypeOK'
  BY <1>24 DEF ReleaseCard, LetGo, Disconnect
<1>25. ASSUME NEW d \in Device, Meddle(d) PROVE TypeOK'
  BY <1>25 DEF Meddle, SelectOther
<1> QED
  BY <1>2, <1>3, <1>4, <1>5, <1>6, <1>7, <1>8, <1>9, <1>10, <1>11, <1>12, <1>13, <1>14,
      <1>15, <1>16, <1>17, <1>18, <1>19, <1>20, <1>21, <1>22, <1>23, <1>24, <1>25
  DEF Next, Step, World
-----------------------------------------------------------------------------
\* An error return leaves a session without a card, which then claims nothing.
LEMMA QuitSession ==
  ASSUME IInv, NEW p \in Proc, NEW kind, Quit(p, kind)
  PROVE  SessionInv'
BY HostAssumption, DeriveAssumption
DEF HostAssumption, DeriveAssumption, Quit, End, Goto, IInv, TypeOK, HostTypeOK,
    SessionInv, SessionOK, Active, HasCard, HasPoint, HasPin, PivEntry

\* Each session is bound to its card by its own step, and kept or cut off by the
\* steps of the others: nobody but the host's user changes conn of another session.
LEMMA SessionStep ==
  ASSUME IInv, Next
  PROVE  SessionInv'
<1>1. ASSUME NEW p \in Proc, NEW kind \in Kind, Quit(p, kind) PROVE SessionInv'
  BY <1>1, QuitSession
<1>2. ASSUME NEW p \in Proc,
             \/ Interrupt(p) \/ SelectScdaemonFails(p) \/ OpenProbe(p) \/ SerialnoFails(p)
             \/ VerifyFails(p) \/ ReadCertFails(p) \/ EcdhFails(p)
      PROVE  SessionInv'
  <2>1. \E kind \in Kind : Quit(p, kind)
    BY <1>2
      DEF Kind, PivError, EcdhError, CertError, Interrupt, SelectScdaemonFails, OpenProbe,
        ProbeFails, SerialnoFails, VerifyFails, ReadCertFails, EcdhFails, Fail
  <2> QED BY <2>1, <1>1
<1> USE HostAssumption, DeriveAssumption
    DEF HostAssumption, DeriveAssumption, IInv, TypeOK, HostTypeOK, Content, hostVars, link,
        answer, Goto, PivEntry, Unmoved, On, SessionInv, SessionOK, Active, HasCard,
            HasPoint, HasPin
<1>3. ASSUME NEW p \in Proc, Start(p) PROVE SessionInv'
  BY <1>3 DEF Start
<1>4. ASSUME NEW p \in Proc, EnterPin(p) PROVE SessionInv'
  BY <1>4 DEF EnterPin
<1>5. ASSUME NEW p \in Proc, SelectOpen(p) PROVE SessionInv'
  BY <1>5 DEF SelectOpen
<1>6. ASSUME NEW p \in Proc, SelectOpenFails(p) PROVE SessionInv'
  BY <1>6 DEF SelectOpenFails
<1>7. ASSUME NEW p \in Proc, SelectProbe(p) PROVE SessionInv'
  <2>1. ASSUME Goto(p, "selScd"),
               UNCHANGED <<plugged, slot, tries, holder, cool, req, pin, link, answer, noise>>
        PROVE  SessionInv'
    <3>1. SessionOK(p)'
      BY <1>7, <2>1 DEF SelectProbe
    <3>2. ASSUME NEW q \in Proc \ {p} PROVE SessionOK(q)'
      BY <1>7, <2>1, <3>2 DEF SelectProbe
    <3> QED BY <3>1, <3>2
  <2> QED BY <1>7, <1>1, <2>1 DEF SelectProbe, ProbeFails, Kind
<1>8. ASSUME NEW p \in Proc, SelectScdaemon(p) PROVE SessionInv'
  BY <1>8 DEF SelectScdaemon
<1>9. ASSUME NEW p \in Proc, HmacAnswered(p) PROVE SessionInv'
  <2>1. PICK d \in Answering : hmac' = [hmac EXCEPT ![p] = slot[d].slot2]
    BY <1>9 DEF HmacAnswered
  <2> QED BY <1>9, <2>1 DEF HmacAnswered, Answering
<1>10. ASSUME NEW p \in Proc, HmacFails(p) PROVE SessionInv'
  <2>1. CASE clock[p] > 0 /\ Goto(p, "pause") /\ UNCHANGED <<hostVars, req, pin, link,
      answer>>
    <3>1. SessionOK(p)'
      BY <1>10, <2>1 DEF HmacFails
    <3>2. ASSUME NEW q \in Proc \ {p} PROVE SessionOK(q)'
      BY <1>10, <2>1, <3>2 DEF HmacFails
    <3> QED BY <3>1, <3>2
  <2>2. CASE End(p, "HmacFailed") /\ UNCHANGED <<card, tries, cool, accepted, ikm>>
    BY <2>2 DEF End
  <2> QED BY <1>10, <2>1, <2>2 DEF HmacFails
<1>11. ASSUME NEW p \in Proc, Open(p) PROVE SessionInv'
  <2>1. PICK d \in Openable : conn' = [conn EXCEPT ![p] = d] /\ card' = [card EXCEPT ![d] = "piv"]
    BY <1>11 DEF Open
  <2>2. SessionOK(p)'
    <3>1. chosen[p] = "pcsc" /\ accepted[p] = None
      <4>1. chosen[p] \in {"pcsc", "scdaemon", None} /\ pc[p] = "open"
        BY <1>11 DEF Open
      <4> QED BY <4>1
    <3>2. d \in Device
      BY <2>1 DEF Openable
    <3>3. /\ pc'[p] = "verify" /\ conn'[p] = d
          /\ UNCHANGED <<slot, chosen, accepted, hmac>>
      BY <1>11, <2>1, <3>2 DEF Open
    <3> QED BY <3>1, <3>2, <3>3
  <2>3. ASSUME NEW q \in Proc \ {p} PROVE SessionOK(q)'
    BY <1>11, <2>1, <2>3 DEF Open, Openable
  <2> QED BY <2>2, <2>3
<1>12. ASSUME NEW p \in Proc, OpenFails(p) PROVE SessionInv'
  BY <1>12 DEF OpenFails
<1>13. ASSUME NEW p \in Proc, Serialno(p) PROVE SessionInv'
  <2>1. PICK d \in ScdaemonReaches(Shared) :
               /\ holder' = [holder EXCEPT ![d] = "scdaemon"]
               /\ conn' = [conn EXCEPT ![p] = d]
               /\ card' = [card EXCEPT ![d] = "piv"]
    BY <1>13 DEF Serialno
  <2>2. SessionOK(p)'
    <3>1. chosen[p] = "scdaemon" /\ accepted[p] = None
      <4>1. chosen[p] \in {"pcsc", "scdaemon", None} /\ pc[p] = "serialno"
        BY <1>13 DEF Serialno
      <4> QED BY <4>1
    <3>2. d \in Device
      BY <2>1 DEF ScdaemonReaches
    <3>3. /\ pc'[p] = "cert" /\ conn'[p] = d
          /\ UNCHANGED <<slot, chosen, accepted, hmac>>
      BY <1>13, <2>1, <3>2 DEF Serialno
    <3> QED BY <3>1, <3>2, <3>3
  <2>3. ASSUME NEW q \in Proc \ {p} PROVE SessionOK(q)'
    BY <1>13, <2>1, <2>3 DEF Serialno, ScdaemonReaches
  <2> QED BY <2>2, <2>3
<1>14. ASSUME NEW p \in Proc, VerifyAccepted(p) PROVE SessionInv'
  BY <1>14 DEF VerifyAccepted, TriesAfter, Reaches
<1>15. ASSUME NEW p \in Proc, VerifyRefused(p) PROVE SessionInv'
  BY <1>15 DEF VerifyRefused, End, TriesAfter, Reaches
<1>16. ASSUME NEW p \in Proc, ReadCert(p) PROVE SessionInv'
  BY <1>16 DEF ReadCert, Reaches
<1>17. ASSUME NEW p \in Proc, Blink(p) PROVE SessionInv'
  BY <1>17 DEF Blink, Reaches
<1>18. ASSUME NEW p \in Proc, Touched(p) PROVE SessionInv'
  BY <1>18 DEF Touched, End
<1>19. ASSUME NEW p \in Proc, NotTouched(p) PROVE SessionInv'
  BY <1>19 DEF NotTouched, End, CardAfterDrop, EcdhError
<1>20. CASE Tick
  BY <1>20 DEF Tick
<1>21. ASSUME NEW d \in Device, Plug(d) PROVE SessionInv'
  BY <1>21 DEF Plug, Insert
<1>22. ASSUME NEW d \in Device, Unplug(d) PROVE SessionInv'
  BY <1>22 DEF Unplug, Withdraw, Disconnect
<1>23. ASSUME NEW d \in Device, TakeCard(d) PROVE SessionInv'
  BY <1>23 DEF TakeCard, Grab
<1>24. ASSUME NEW d \in Device, ReleaseCard(d) PROVE SessionInv'
  BY <1>24 DEF ReleaseCard, LetGo, Disconnect
<1>25. ASSUME NEW d \in Device, Meddle(d) PROVE SessionInv'
  BY <1>25 DEF Meddle, SelectOther
<1> QED
  BY <1>2, <1>3, <1>4, <1>5, <1>6, <1>7, <1>8, <1>9, <1>10, <1>11, <1>12, <1>13, <1>14,
      <1>15, <1>16, <1>17, <1>18, <1>19, <1>20, <1>21, <1>22, <1>23, <1>24, <1>25
  DEF Next, Step, World
-----------------------------------------------------------------------------
\* The inductive invariant holds in every behaviour.
THEOREM Invariance == Spec => []IInv
<1>1. IInv /\ [Next]_vars => IInv'
  <2>1. ASSUME IInv, Next PROVE IInv'
    BY <2>1, TypeStep, SessionStep DEF IInv
  <2>2. ASSUME IInv, UNCHANGED vars PROVE IInv'
    BY <2>2 DEF IInv, TypeOK, HostTypeOK, SessionInv, SessionOK, Active, HasCard, HasPoint,
       HasPin, PivEntry, vars, hostVars, link, answer
  <2> QED BY <2>1, <2>2
<1> QED BY InitIInv, <1>1, PTL DEF Spec

\* Every variable keeps its type; in particular a session that returns key material
\* has a private key, a certificate's point and a live connection to agree with.
THEOREM TypeCorrect == Spec => []TypeOK
BY Invariance, PTL DEF IInv

\* Whatever the transport, the peers, gpg and the user do, what a session holds
\* belongs to the one device it is connected to, and that device accepted its own PIN
\* (lib.rs:237-277, scd.rs:62-90).
THEOREM SessionsStayBound == Spec => []SessionInv
BY Invariance, PTL DEF IInv
-----------------------------------------------------------------------------
(* Refinement of IkmService. *)

\* No session is open at first, in either.
LEMMA InitMapped == Init => Service!Init
<1> SUFFICES ASSUME Init PROVE Service!Init
  OBVIOUS
<1>1. \A p \in Proc : Active(p) = FALSE
  BY DEF Init, Active
<1>2. [p \in Proc |-> Active(p)] = [p \in Proc |-> FALSE]
  BY <1>1
<1> QED BY <1>2 DEF Init, HostInit, Service!Init

\* A step that keeps what callers see, and neither opens nor closes a session.
LEMMA Internal ==
  ASSUME UNCHANGED <<slot, tries, answer>>, \A q \in Proc : Active(q)' = Active(q)
  PROVE  UNCHANGED Service!vars
BY DEF answer, Service!vars

\* The end of an open session, as callers see it.
LEMMA EndMapped ==
  ASSUME TypeOK, NEW p \in Proc, NEW kind, Active(p), End(p, kind), UNCHANGED accepted
  PROVE  Service!Finish(p, kind)
<1>1. [q \in Proc |-> Active(q)]' = [[q \in Proc |-> Active(q)] EXCEPT ![p] = FALSE]
  BY DEF TypeOK, End, Goto, Active
<1> QED BY <1>1 DEF End, Service!Finish

\* An error costs nothing: it is Fail of the service.
LEMMA FailMapped ==
  ASSUME TypeOK, NEW p \in Proc, NEW kind \in Service!Errors, Active(p), Quit(p, kind)
  PROVE  Service!Next
<1>1. Service!Finish(p, kind)
  BY EndMapped DEF Quit
<1> QED BY <1>1 DEF Quit, Service!Fail, Service!Next

\* A request is opened, or refused at once for its environment.
LEMMA StartMapped == ASSUME TypeOK, NEW p \in Proc, Start(p) PROVE Service!Next
<1>1. PICK t \in {"auto", "pcsc", "scdaemon", "invalid"} :
        /\ pc' = [pc EXCEPT ![p] = CASE t = "invalid" -> "done"
                    [] t = "scdaemon" -> "selScd"
                    [] OTHER -> "selOpen"]
        /\ outcome' = [outcome EXCEPT ![p] = IF t = "invalid" THEN "Scd" ELSE "none"]
  BY RequestedTransportType DEF Start, Goto
<1>2. CASE t = "invalid"
  <2>1. [q \in Proc |-> Active(q)]' = [q \in Proc |-> Active(q)]
    BY <1>1, <1>2 DEF Start, Active, TypeOK
  <2>2. "Scd" \in Service!Errors
    BY DEF Service!Errors, Service!Refusals, Kind
  <2>3. Service!Begin(p)
    BY <1>1, <1>2, <2>1, <2>2 DEF Start, Service!Begin, hostVars
  <2> QED BY <2>3 DEF Service!Next
<1>3. CASE t # "invalid"
  <2>1. [q \in Proc |-> Active(q)]' = [[q \in Proc |-> Active(q)] EXCEPT ![p] = TRUE]
    BY <1>1, <1>3 DEF Start, Active, TypeOK
  <2>3. Service!Begin(p)
    BY <1>1, <1>3, <2>1 DEF Start, Service!Begin, hostVars
  <2> QED BY <2>3 DEF Service!Next
<1> QED BY <1>2, <1>3

\* VERIFY accepted: the session had offered its PIN to no card before.
LEMMA AcceptMapped ==
  ASSUME IInv, NEW p \in Proc, VerifyAccepted(p) PROVE Service!Next
<1>1. conn[p] \in Device /\ accepted[p] = None
  BY DEF IInv, TypeOK, SessionInv, SessionOK, VerifyAccepted, Reaches, HasPin
<1>2. UNCHANGED [q \in Proc |-> Active(q)]
  BY DEF IInv, TypeOK, VerifyAccepted, Goto, Active
<1>3. tries[conn[p]] > 0 /\ tries' = [tries EXCEPT ![conn[p]] = MaxTries]
  <2>1. tries[conn[p]] \in Nat /\ tries[conn[p]] > 0 /\ pin[p] = PinOf[conn[p]]
    BY <1>1 DEF IInv, TypeOK, HostTypeOK, VerifyAccepted, PinAccepted
  <2>2. TriesAfter(conn[p], pin[p]) = MaxTries
    BY <2>1 DEF TriesAfter
  <2> QED BY <2>1, <2>2 DEF VerifyAccepted
<1>4. Service!Accept(p, conn[p])
  BY <1>1, <1>2, <1>3 DEF VerifyAccepted, Active, Service!Accept
<1> QED BY <1>1, <1>4 DEF Service!Next

\* VERIFY refused: the attempt lost is reported.
LEMMA RefuseMapped ==
  ASSUME IInv, NEW p \in Proc, VerifyRefused(p) PROVE Service!Next
<1> DEFINE kind == IF tries[conn[p]] = 0 THEN "PinLocked" ELSE "WrongPin"
<1>1. conn[p] \in Device /\ accepted[p] = None /\ Active(p)
  BY DEF IInv, TypeOK, SessionInv, SessionOK, VerifyRefused, Reaches, HasPin, Active
<1>2. Service!Finish(p, kind)
  BY <1>1, EndMapped DEF IInv, VerifyRefused
<1>3. /\ tries[conn[p]] \in Nat
      /\ tries' = [tries EXCEPT ![conn[p]] = TriesAfter(conn[p], pin[p])]
      /\ TriesAfter(conn[p], pin[p]) =
           IF tries[conn[p]] > 0 THEN tries[conn[p]] - 1 ELSE tries[conn[p]]
  BY <1>1 DEF IInv, TypeOK, HostTypeOK, VerifyRefused, PinAccepted, TriesAfter
<1>4. Service!Refuse(p, conn[p])
  <2>1. CASE tries[conn[p]] > 0
    <3>1. tries' = [tries EXCEPT ![conn[p]] = @ - 1]
      BY <1>3, <2>1
    <3>2. Service!Finish(p, "WrongPin")
      BY <1>2, <2>1
    <3> QED BY <1>1, <2>1, <3>1, <3>2 DEF VerifyRefused, Service!Refuse
  <2>2. CASE tries[conn[p]] = 0
    <3>1. tries' = tries
      BY <1>3, <2>2 DEF IInv, TypeOK, HostTypeOK
    <3> QED BY <1>1, <1>2, <2>2, <3>1 DEF VerifyRefused, Service!Refuse
  <2> QED BY <1>3, <2>1, <2>2
<1> QED BY <1>1, <1>4 DEF Service!Next

\* The touch: SessionInv binds point and PIN to the card that computes.
LEMMA AnswerMapped ==
  ASSUME IInv, NEW p \in Proc, Touched(p) PROVE Service!Next
<1>1. /\ conn[p] \in Device /\ accepted[p] = conn[p] /\ Active(p)
      /\ point[p] = slot[conn[p]].cert
      /\ hmac[p] \in {None} \cup {slot[d].slot2 : d \in Device}
  BY DEF IInv, TypeOK, SessionInv, SessionOK, Touched, HasPin, HasPoint, Active
<1>2. Service!Finish(p, "ok")
  BY <1>1, EndMapped DEF IInv, Touched
<1>3. Service!Answer(p)
  BY <1>1, <1>2 DEF Touched, Ecdh, Service!Answer
<1> QED BY <1>3 DEF Service!Next

\* One step per action; most are internal.
LEMMA NextMapped == ASSUME IInv, Next PROVE [Service!Next]_Service!vars
<1>1. ASSUME NEW p \in Proc, Start(p) PROVE Service!Next
  BY <1>1, StartMapped DEF IInv
<1>2. ASSUME NEW p \in Proc, NEW kind \in Kind \ {"none", "ok", "WrongPin", "PinLocked"},
             Active(p), Quit(p, kind)
      PROVE  Service!Next
  BY <1>2, FailMapped DEF IInv, Service!Errors, Service!Refusals
<1>3. ASSUME NEW p \in Proc,
             \/ Interrupt(p) \/ SelectScdaemonFails(p) \/ OpenProbe(p) \/ SerialnoFails(p)
             \/ VerifyFails(p) \/ ReadCertFails(p) \/ EcdhFails(p)
      PROVE  Service!Next
  <2>1. Active(p)
    BY <1>3 DEF Active, Interrupt, SelectScdaemonFails, OpenProbe, SerialnoFails,
       VerifyFails, ReadCertFails, EcdhFails
  <2>2. \E kind \in Kind \ {"none", "ok", "WrongPin", "PinLocked"} : Quit(p, kind)
    BY <1>3 DEF Kind, PivError, EcdhError, CertError, Interrupt, SelectScdaemonFails,
       OpenProbe, ProbeFails, SerialnoFails, VerifyFails, ReadCertFails, EcdhFails, Fail
  <2> QED BY <2>1, <2>2, <1>2
<1>4. ASSUME NEW p \in Proc, HmacFails(p) \/ NotTouched(p) PROVE [Service!Next]_Service!vars
  <2>1. CASE HmacFails(p) /\ Goto(p, "pause") /\ UNCHANGED <<hostVars, answer>>
    BY <2>1, Internal DEF IInv, TypeOK, HmacFails, Goto, Active, hostVars
  <2>2. ASSUME NEW kind \in {"HmacFailed", "EcdhFailed", "Scd"}, Active(p), End(p, kind),
               UNCHANGED <<tries, accepted, ikm>>
        PROVE  Service!Next
    <3>1. Service!Finish(p, kind)
      BY <2>2, EndMapped DEF IInv
    <3>2. kind \in Service!Errors
      BY DEF Service!Errors, Service!Refusals, Kind
    <3>3. Service!Fail(p)
      BY <2>2, <3>1, <3>2 DEF Service!Fail
    <3> QED BY <3>3 DEF Service!Next
  <2> QED BY <1>4, <2>1, <2>2 DEF HmacFails, NotTouched, EcdhError, Active
<1>5. ASSUME NEW p \in Proc, VerifyAccepted(p) \/ VerifyRefused(p) \/ Touched(p)
      PROVE  Service!Next
  BY <1>5, AcceptMapped, RefuseMapped, AnswerMapped
<1>6. ASSUME NEW p \in Proc, SelectProbe(p) PROVE [Service!Next]_Service!vars
  <2>1. CASE Goto(p, "selScd") /\ UNCHANGED <<slot, tries, answer>>
    BY <1>6, <2>1, Internal DEF IInv, TypeOK, SelectProbe, Goto, Active
  <2> QED BY <1>2, <1>6, <2>1 DEF SelectProbe, ProbeFails, Active, Kind
<1>7. ASSUME NEW p \in Proc,
             \/ EnterPin(p) \/ SelectOpen(p) \/ SelectOpenFails(p) \/ SelectScdaemon(p)
             \/ HmacAnswered(p) \/ Open(p) \/ OpenFails(p) \/ Serialno(p) \/ ReadCert(p)
             \/ Blink(p)
      PROVE  UNCHANGED Service!vars
  <2>1. UNCHANGED <<slot, tries, answer>>
    BY <1>7 DEF EnterPin, SelectOpen, SelectOpenFails, SelectScdaemon, HmacAnswered, Open,
       OpenFails, Serialno, ReadCert, Blink, hostVars
  <2>2. \E place \in Place \ {"idle", "done"} : Active(p) /\ Goto(p, place)
    BY <1>7 DEF EnterPin, SelectOpen, SelectOpenFails, SelectScdaemon, HmacAnswered, Open,
       OpenFails, Serialno, ReadCert, Blink, Place, PivEntry, Active
  <2>3. \A q \in Proc : Active(q)' = Active(q)
    BY <2>2 DEF IInv, TypeOK, Goto, Active
  <2> QED BY <2>1, <2>3, Internal
<1>8. CASE Tick
  <2>1. \A q \in Proc : Active(q)' = Active(q)
    BY <1>8 DEF Tick, Active
  <2> QED BY <1>8, <2>1, Internal DEF Tick
<1>9. ASSUME NEW d \in Device, World(d) PROVE UNCHANGED Service!vars
  <2>1. UNCHANGED <<slot, tries, answer, pc>>
    BY <1>9 DEF World, Plug, Unplug, TakeCard, ReleaseCard, Meddle, Insert, Withdraw, Grab,
       LetGo, SelectOther, Unmoved, answer
  <2> QED BY <2>1, Internal DEF Active
<1> QED
  BY <1>1, <1>3, <1>4, <1>5, <1>6, <1>7, <1>8, <1>9 DEF Next, Step

\* Every behaviour of the sessions is one of IkmService: a request offers its PIN to at
\* most one card, a refused PIN ends it and is reported, and key material only comes
\* from the card that accepted this request's PIN (lib.rs:237-277, scd.rs:62-90).
THEOREM Implementation == Spec => ServiceSpec
<1>1. ASSUME IInv, [Next]_vars PROVE [Service!Next]_Service!vars
  <2>1. CASE UNCHANGED vars
    BY <2>1 DEF vars, hostVars, answer, Active, Service!vars
  <2> QED BY <1>1, <2>1, NextMapped
<1> QED BY InitMapped, Invariance, <1>1, PTL DEF Spec, ServiceSpec, Service!Spec
-----------------------------------------------------------------------------
(* Where the two factors come from. *)

\* The places of a session that is past its HMAC factor.
PivPlace == {"open", "openProbe", "serialno", "verify", "cert", "ecdh", "touch"}

\* What makes NoWrongIkm inductive: a connection leads to a device that is plugged in,
\* and a session that reaches the PIV exchange holds the HMAC factor of the only device
\* there was, if it was asked for one.
ProvenanceOK(p) ==
  /\ conn[p] \in plugged \cup {None}
  /\ Active(p) => outcome[p] = "none"
  /\ pc[p] = "idle" => outcome[p] # "ok"
  /\ pc[p] \in {"hid", "pause"} => req[p].layered
  /\ pc[p] \notin PivPlace => hmac[p] = None
  /\ \A d \in Device :
       plugged = {d} /\ noise[p] # "swapped" /\ pc[p] \in PivPlace =>
         hmac[p] = IF req[p].layered THEN slot[d].slot2 ELSE None

ProvenanceInv == \A p \in Proc : ProvenanceOK(p) /\ RightIkm(p)

\* A session that is only spoiled, or left alone, keeps it.
LEMMA KeepsProvenance ==
  ASSUME TypeOK, NEW q \in Proc, ProvenanceOK(q), RightIkm(q), UNCHANGED <<plugged, slot>>,
         pc'[q] = pc[q], req'[q] = req[q], hmac'[q] = hmac[q], outcome'[q] = outcome[q],
         ikm'[q] = ikm[q], conn'[q] \in {conn[q], None},
         noise'[q] \in {noise[q], "disturbed", "swapped"},
         noise[q] = "swapped" => noise'[q] = "swapped"
  PROVE  ProvenanceOK(q)' /\ RightIkm(q)'
BY DEF ProvenanceOK, RightIkm, Active, PivPlace

\* So does every other session in a step of p that leaves their state alone.
LEMMA OthersKeepProvenance ==
  ASSUME TypeOK, ProvenanceInv, NEW p \in Proc, ProvenanceOK(p)', RightIkm(p)',
         UNCHANGED <<plugged, slot>>,
         \A q \in Proc \ {p} :
           /\ pc'[q] = pc[q] /\ req'[q] = req[q] /\ hmac'[q] = hmac[q] /\ conn'[q] = conn[q]
           /\ outcome'[q] = outcome[q] /\ ikm'[q] = ikm[q] /\ noise'[q] = noise[q]
  PROVE  ProvenanceInv'
<1>1. ASSUME NEW q \in Proc \ {p} PROVE ProvenanceOK(q)' /\ RightIkm(q)'
  BY <1>1, KeepsProvenance DEF ProvenanceInv
<1> QED BY <1>1 DEF ProvenanceInv

\* A session that ends without key material keeps it.
LEMMA EndKeepsProvenance ==
  ASSUME TypeOK, ProvenanceInv, NEW p \in Proc, NEW kind \in Kind \ {"ok"}, Active(p),
         End(p, kind), UNCHANGED ikm,
         noise' \in {noise, [noise EXCEPT ![p] = Noisier(p, "disturbed")]}
  PROVE  ProvenanceInv'
<1>1. ProvenanceOK(p)' /\ RightIkm(p)'
  BY DEF TypeOK, End, Goto, ProvenanceInv, ProvenanceOK, RightIkm, Active, PivPlace
<1>2. \A q \in Proc \ {p} :
        /\ pc'[q] = pc[q] /\ req'[q] = req[q] /\ hmac'[q] = hmac[q] /\ conn'[q] = conn[q]
        /\ outcome'[q] = outcome[q] /\ ikm'[q] = ikm[q] /\ noise'[q] = noise[q]
  BY DEF TypeOK, End, Goto
<1> QED BY <1>1, <1>2, OthersKeepProvenance DEF End

\* One step per action, split on the session that takes it.
LEMMA ProvenanceStep ==
  ASSUME IInv, ProvenanceInv, Next
  PROVE  ProvenanceInv'
<1>1. TypeOK /\ SessionInv
  BY DEF IInv
<1>2. ASSUME NEW p \in Proc, NEW kind \in Kind \ {"ok"}, Active(p), Quit(p, kind)
      PROVE  ProvenanceInv'
  BY <1>1, <1>2, EndKeepsProvenance DEF Quit
<1>3. ASSUME NEW p \in Proc,
             \/ Interrupt(p) \/ SelectScdaemonFails(p) \/ OpenProbe(p) \/ SerialnoFails(p)
             \/ VerifyFails(p) \/ ReadCertFails(p) \/ EcdhFails(p)
      PROVE  ProvenanceInv'
  <2>1. Active(p) /\ \E kind \in Kind \ {"ok"} : Quit(p, kind)
    BY <1>3 DEF Kind, PivError, EcdhError, CertError, Interrupt, SelectScdaemonFails,
       OpenProbe, ProbeFails, SerialnoFails, VerifyFails, ReadCertFails, EcdhFails, Fail, Active
  <2> QED BY <2>1, <1>2
<1>4. ASSUME NEW p \in Proc, HmacAnswered(p) PROVE ProvenanceInv'
  <2>1. ProvenanceOK(p)' /\ RightIkm(p)'
    BY <1>1, <1>4
      DEF HmacAnswered, TypeOK, HostTypeOK, Answering, Goto, hostVars, answer, PivEntry,
        ProvenanceInv, ProvenanceOK, RightIkm, Active, PivPlace
  <2>2. \A q \in Proc \ {p} :
            /\ pc'[q] = pc[q] /\ req'[q] = req[q] /\ hmac'[q] = hmac[q] /\ conn'[q] = conn[q]
            /\ outcome'[q] = outcome[q] /\ ikm'[q] = ikm[q] /\ noise'[q] = noise[q]
    BY <1>1, <1>4
      DEF HmacAnswered, TypeOK, HostTypeOK, Answering, Goto, hostVars, answer, PivEntry
  <2> QED BY <1>1, <1>4, <2>1, <2>2, OthersKeepProvenance
     DEF HmacAnswered, hostVars
<1>5. ASSUME NEW p \in Proc, HmacFails(p) PROVE ProvenanceInv'
  <2>1. CASE clock[p] > 0 /\ Goto(p, "pause") /\ UNCHANGED <<hostVars, req, link, answer>>
    <3>1. ProvenanceOK(p)' /\ RightIkm(p)'
      BY <1>1, <1>5, <2>1
        DEF HmacFails, TypeOK, Goto, hostVars, link, answer, Noisier, ProvenanceInv,
          ProvenanceOK, RightIkm, Active, PivPlace
    <3>2. ASSUME NEW q \in Proc \ {p} PROVE ProvenanceOK(q)' /\ RightIkm(q)'
      <4>1. /\ pc'[q] = pc[q] /\ noise'[q] = noise[q]
            /\ UNCHANGED <<plugged, slot, req, hmac, conn, outcome, ikm>>
        BY <1>1, <1>5, <2>1, <3>2 DEF HmacFails, TypeOK, Goto, hostVars, link, answer
      <4> QED BY <1>1, <4>1, KeepsProvenance DEF ProvenanceInv
    <3> QED BY <3>1, <3>2 DEF ProvenanceInv
  <2>2. CASE End(p, "HmacFailed") /\ UNCHANGED ikm
    BY <1>1, <1>5, <2>2, EndKeepsProvenance DEF HmacFails, Active, Kind
  <2> QED BY <1>5, <2>1, <2>2 DEF HmacFails
<1>6. ASSUME NEW p \in Proc, NotTouched(p) PROVE ProvenanceInv'
  BY <1>1, <1>6, EndKeepsProvenance DEF NotTouched, EcdhError, Active, Kind
<1>7. ASSUME NEW p \in Proc, SelectProbe(p) PROVE ProvenanceInv'
  <2>1. CASE Goto(p, "selScd") /\ UNCHANGED <<plugged, slot, req, link, answer, noise>>
    <3>1. ProvenanceOK(p)' /\ RightIkm(p)'
      BY <1>1, <1>7, <2>1
        DEF SelectProbe, TypeOK, Goto, link, answer, ProvenanceInv, ProvenanceOK,
          RightIkm, Active, PivPlace
    <3>2. ASSUME NEW q \in Proc \ {p} PROVE ProvenanceOK(q)' /\ RightIkm(q)'
      <4>1. /\ pc'[q] = pc[q]
            /\ UNCHANGED <<plugged, slot, req, hmac, conn, outcome, ikm, noise>>
        BY <1>1, <2>1, <3>2 DEF TypeOK, Goto, hostVars, link, answer
      <4> QED BY <1>1, <4>1, KeepsProvenance DEF ProvenanceInv
    <3> QED BY <3>1, <3>2 DEF ProvenanceInv
  <2> QED BY <1>2, <1>7, <2>1 DEF SelectProbe, ProbeFails, Active, Kind
<1>8. ASSUME NEW p \in Proc, Open(p) PROVE ProvenanceInv'
  <2>1. ProvenanceOK(p)' /\ RightIkm(p)'
    BY <1>1, <1>8
      DEF Open, TypeOK, Openable, Goto, answer, ProvenanceInv, ProvenanceOK, RightIkm,
        Active, PivPlace
  <2>2. \A q \in Proc \ {p} :
            /\ pc'[q] = pc[q] /\ req'[q] = req[q] /\ hmac'[q] = hmac[q] /\ conn'[q] = conn[q]
            /\ outcome'[q] = outcome[q] /\ ikm'[q] = ikm[q] /\ noise'[q] = noise[q]
    BY <1>1, <1>8 DEF Open, TypeOK, Openable, Goto, answer
  <2> QED BY <1>1, <1>8, <2>1, <2>2, OthersKeepProvenance
     DEF Open, hostVars
<1>9. ASSUME NEW p \in Proc, Serialno(p) PROVE ProvenanceInv'
  <2>1. ProvenanceOK(p)' /\ RightIkm(p)'
    BY <1>1, <1>9
      DEF Serialno, TypeOK, ScdaemonReaches, Goto, answer, ProvenanceInv, ProvenanceOK,
        RightIkm, Active, PivPlace
  <2>2. \A q \in Proc \ {p} :
            /\ pc'[q] = pc[q] /\ req'[q] = req[q] /\ hmac'[q] = hmac[q] /\ conn'[q] = conn[q]
            /\ outcome'[q] = outcome[q] /\ ikm'[q] = ikm[q] /\ noise'[q] = noise[q]
    BY <1>1, <1>9 DEF Serialno, TypeOK, ScdaemonReaches, Goto, answer
  <2> QED BY <1>1, <1>9, <2>1, <2>2, OthersKeepProvenance
     DEF Serialno, hostVars
<1>10. ASSUME NEW p \in Proc, Touched(p) PROVE ProvenanceInv'
  <2>1. ProvenanceOK(p)' /\ RightIkm(p)'
    <3>1. conn[p] \in plugged /\ point[p] = slot[conn[p]].cert
      BY <1>1, <1>10
        DEF Touched, SessionInv, SessionOK, HasPoint, ProvenanceInv, ProvenanceOK
    <3>2. ikm'[p] = [ecdh |-> {slot[conn[p]].key, slot[conn[p]].cert}, hmac |-> hmac[p]]
      BY <1>1, <1>10, <3>1 DEF Touched, Ecdh, TypeOK
    <3>3. ProvenanceOK(p)'
      BY <1>1, <1>10
        DEF Touched, End, Goto, TypeOK, ProvenanceInv, ProvenanceOK, RightIkm, Active,
          PivPlace
    <3>4. RightIkm(p)'
      <4>1. UNCHANGED <<plugged, slot, req, noise>>
        BY <1>10 DEF Touched, End
      <4>2. ASSUME NEW d \in Device, plugged = {d}, noise[p] # "swapped"
            PROVE  hmac[p] = (IF req[p].layered THEN slot[d].slot2 ELSE None) /\ conn[p] = d
        BY <1>10, <3>1, <4>2 DEF Touched, ProvenanceInv, ProvenanceOK, PivPlace
      <4> QED BY <3>2, <4>1, <4>2 DEF RightIkm
    <3> QED BY <3>3, <3>4
  <2>2. \A q \in Proc \ {p} :
            /\ pc'[q] = pc[q] /\ req'[q] = req[q] /\ hmac'[q] = hmac[q] /\ conn'[q] = conn[q]
            /\ outcome'[q] = outcome[q] /\ ikm'[q] = ikm[q] /\ noise'[q] = noise[q]
    BY <1>1, <1>10 DEF Touched, End, TypeOK, Goto
  <2> QED BY <1>1, <1>10, <2>1, <2>2, OthersKeepProvenance
     DEF Touched, hostVars, End
<1>11. ASSUME NEW d \in Device, Unplug(d) PROVE ProvenanceInv'
  <2>1. \A q \in Proc : noise'[q] = "swapped"
    BY <1>11 DEF Unplug, Disturb, Noisier
  <2>2. \A q \in Proc : conn'[q] \in plugged' \cup {None}
    BY <1>1, <1>11 DEF Unplug, Disconnect, On, Withdraw, TypeOK, HostTypeOK, ProvenanceInv,
       ProvenanceOK
  <2>3. UNCHANGED <<pc, req, hmac, outcome>>
    BY <1>11 DEF Unplug, Unmoved, answer
  <2> QED BY <2>1, <2>2, <2>3 DEF ProvenanceInv, ProvenanceOK, RightIkm, Active
<1> USE HostAssumption, DeriveAssumption
    DEF HostAssumption, DeriveAssumption, IInv, TypeOK, HostTypeOK, Kind, Noise, Noisier,
        hostVars, link, answer, Goto, PivEntry, Disturb, Unmoved, ProvenanceInv,
        ProvenanceOK, RightIkm, Active, PivPlace
<1>12. ASSUME NEW p \in Proc, Start(p) PROVE ProvenanceInv'
  BY <1>12 DEF Start
<1>13. ASSUME NEW p \in Proc, EnterPin(p) PROVE ProvenanceInv'
  BY <1>13 DEF EnterPin
<1>14. ASSUME NEW p \in Proc, SelectOpen(p) PROVE ProvenanceInv'
  BY <1>14 DEF SelectOpen
<1>15. ASSUME NEW p \in Proc, SelectOpenFails(p) PROVE ProvenanceInv'
  BY <1>15 DEF SelectOpenFails
<1>16. ASSUME NEW p \in Proc, SelectScdaemon(p) PROVE ProvenanceInv'
  BY <1>16 DEF SelectScdaemon
<1>17. ASSUME NEW p \in Proc, OpenFails(p) PROVE ProvenanceInv'
  BY <1>17 DEF OpenFails
<1>18. ASSUME NEW p \in Proc, VerifyAccepted(p) PROVE ProvenanceInv'
  BY <1>18 DEF VerifyAccepted
<1>19. ASSUME NEW p \in Proc, VerifyRefused(p) PROVE ProvenanceInv'
  BY <1>19 DEF VerifyRefused, End
<1>20. ASSUME NEW p \in Proc, ReadCert(p) PROVE ProvenanceInv'
  BY <1>20 DEF ReadCert
<1>21. ASSUME NEW p \in Proc, Blink(p) PROVE ProvenanceInv'
  BY <1>21 DEF Blink
<1>22. CASE Tick
  BY <1>22 DEF Tick
<1>23. ASSUME NEW d \in Device, Plug(d) PROVE ProvenanceInv'
  BY <1>23 DEF Plug, Insert
<1>24. ASSUME NEW d \in Device, TakeCard(d) PROVE ProvenanceInv'
  BY <1>24 DEF TakeCard, Grab
<1>25. ASSUME NEW d \in Device, ReleaseCard(d) PROVE ProvenanceInv'
  BY <1>25 DEF ReleaseCard, LetGo, Disconnect
<1>26. ASSUME NEW d \in Device, Meddle(d) PROVE ProvenanceInv'
  BY <1>26 DEF Meddle, SelectOther
<1> QED
  BY <1>3, <1>4, <1>5, <1>6, <1>7, <1>8, <1>9, <1>10, <1>11, <1>12, <1>13, <1>14, <1>15,
      <1>16, <1>17, <1>18, <1>19, <1>20, <1>21, <1>22, <1>23, <1>24, <1>25, <1>26
  DEF Next, Step, World

\* While the one device in the port stays there, key material is that device's, and
\* holds the HMAC factor exactly when it was asked for (lib.rs:238-276).
THEOREM RightKeyMaterial == Spec => []NoWrongIkm
<1>1. Init => ProvenanceInv
  BY DeriveAssumption
    DEF DeriveAssumption, Init, ProvenanceInv, ProvenanceOK, RightIkm, Active, PivPlace
<1>2. IInv /\ ProvenanceInv /\ [Next]_vars => ProvenanceInv'
  <2>1. CASE UNCHANGED vars
    BY <2>1 DEF vars, hostVars, link, answer, ProvenanceInv, ProvenanceOK, RightIkm, Active
  <2> QED BY <2>1, ProvenanceStep
<1>3. ProvenanceInv => NoWrongIkm
  BY DEF ProvenanceInv, NoWrongIkm
<1> QED BY Invariance, <1>1, <1>2, <1>3, PTL DEF Spec
-----------------------------------------------------------------------------
(* The outcome of a session that nothing disturbs. *)

\* No other session is open.
Alone(p) == \A q \in Proc \ {p} : ~ Active(q)

\* The transport chosen is the one the card is held for.
OnRoute(p, d) ==
  \/ chosen[p] = "pcsc" /\ holder[d] = "free" /\ req[p].transport \in {"auto", "pcsc"}
  \/ chosen[p] = "scdaemon" /\ holder[d] = "scdaemon" /\ req[p].transport \in {"auto", "scdaemon"}

\* Where a session can be when no device is plugged in.
QuietWithout(p) ==
  \/ pc[p] \in {"selOpen", "selProbe"} /\ req[p].transport \in {"auto", "pcsc"}
  \/ pc[p] = "selScd" /\ req[p].transport = "scdaemon"

\* How far it got when d is: what it will meet from here on is decided by the request, the
\* PIN, the slots of d and who holds its card, and a silent HID speaks before the deadline.
QuietWith(p, d) ==
  /\ pc[p] \in {"selOpen", "selProbe"} => req[p].transport \in {"auto", "pcsc"}
  /\ pc[p] = "selProbe" => holder[d] # "free"
  /\ pc[p] = "selScd" =>
       req[p].transport = "scdaemon" \/ (req[p].transport = "auto" /\ holder[d] # "free")
  /\ pc[p] \notin {"selOpen", "selProbe", "selScd"} => OnRoute(p, d)
  /\ pc[p] # "openProbe"
  /\ pc[p] \in {"hid", "pause"} => req[p].layered /\ cool[d] <= clock[p]
  /\ pc[p] \in {"open", "serialno", "verify", "cert", "ecdh", "touch"} =>
       (req[p].layered => slot[d].slot2 # None)
  /\ HasCard(p) => conn[p] = d /\ card[d] # "none"
  /\ HasPin(p) => pin[p] = PinOf[d] /\ tries[d] > 0 /\ card[d] = "verified"

\* How it ends.
QuietEnd(p) ==
  pc[p] = "done" /\ outcome[p] # "interrupted" /\ req[p].transport # "invalid" =>
    /\ plugged = {} => outcome[p] = IF req[p].transport = "scdaemon" THEN "Scd" ELSE "DeviceNotFound"
    /\ \A d \in Device : plugged = {d} => outcome[p] \in QuietOutcomeOn(p, d)

QuietOK(p) ==
  noise[p] = "quiet" =>
    /\ Alone(p)
    /\ Active(p) => /\ plugged = {} => QuietWithout(p)
                    /\ \A d \in Device : plugged = {d} => QuietWith(p, d)
    /\ QuietEnd(p)

QuietInv == \A p \in Proc : QuietOK(p)

\* It holds before any session.
LEMMA InitQuiet == Init => QuietInv
BY DEF Init, QuietInv, QuietOK, Alone, Active, QuietEnd

\* A card that nobody's transport leads to.
LEMMA NoRoute ==
  ASSUME NEW p \in Proc, NEW d \in Device,
         \/ holder[d] = "other"
         \/ holder[d] # "free" /\ req[p].transport = "pcsc"
  PROVE  QuietOutcomeOn(p, d) = {IF req[p].transport = "scdaemon" THEN "Scd" ELSE "SmartcardBusy"}
<1>1. Route(p, d) = None
  BY DEF Route
<1> QED
  BY <1>1 DEF QuietOutcomeOn

\* The reference takes the transport that was chosen.
LEMMA RouteIsChosen ==
  ASSUME NEW p \in Proc, NEW d \in Device, OnRoute(p, d)
  PROVE  Route(p, d) = chosen[p] /\ Route(p, d) # None
<1>1. None \notin {"pcsc", "scdaemon"}
  BY DeriveAssumption DEF DeriveAssumption
<1> QED
  BY <1>1 DEF OnRoute, Route

\* What the reference expects of the HMAC factor.
LEMMA ReferenceHmac ==
  ASSUME NEW p \in Proc, NEW d \in Device, OnRoute(p, d), req[p].layered, slot[d].slot2 = None
  PROVE  QuietOutcomeOn(p, d) = {"HmacFailed"}
BY RouteIsChosen DEF QuietOutcomeOn

\* Of a session over PC/SC that has it, or needs none.
LEMMA ReferencePcsc ==
  ASSUME NEW p \in Proc, NEW d \in Device, OnRoute(p, d), chosen[p] = "pcsc",
         req[p].layered => slot[d].slot2 # None
  PROVE  /\ pin[p] = BadPin => QuietOutcomeOn(p, d) = {"Piv"}
         /\ pin[p] # BadPin /\ pin[p] = PinOf[d] /\ tries[d] > 0 =>
              /\ slot[d].cert \notin Key => QuietOutcomeOn(p, d) = {CertError(d)}
              /\ slot[d].cert \in Key /\ slot[d].key = None => QuietOutcomeOn(p, d) = {"EcdhFailed"}
              /\ slot[d].cert \in Key /\ slot[d].key # None => QuietOutcomeOn(p, d) = {"ok"}
<1>1. Route(p, d) = "pcsc" /\ Route(p, d) # None
  BY RouteIsChosen
<1>2. QuietOutcomeOn(p, d) =
        CASE pin[p] = BadPin -> {"Piv"}
          [] pin[p] # BadPin /\ (tries[d] = 0 \/ pin[p] # PinOf[d]) -> PinVerdict(p, d)
          [] OTHER -> {CASE slot[d].cert \notin Key -> CertError(d)
                         [] slot[d].cert \in Key /\ slot[d].key = None -> "EcdhFailed"
                         [] OTHER -> "ok"}
  BY <1>1 DEF QuietOutcomeOn
<1>3. tries[d] > 0 => tries[d] # 0
  OBVIOUS
<1>4. pin[p] = BadPin => QuietOutcomeOn(p, d) = {"Piv"}
  BY <1>2
<1>5. pin[p] # BadPin /\ pin[p] = PinOf[d] /\ tries[d] > 0 =>
        QuietOutcomeOn(p, d) = {CASE slot[d].cert \notin Key -> CertError(d)
                         [] slot[d].cert \in Key /\ slot[d].key = None -> "EcdhFailed"
                         [] OTHER -> "ok"}
  BY <1>2, <1>3
<1> QED
  BY <1>4, <1>5

\* And of one over scdaemon.
LEMMA ReferenceScdaemon ==
  ASSUME NEW p \in Proc, NEW d \in Device, OnRoute(p, d), chosen[p] = "scdaemon",
         req[p].layered => slot[d].slot2 # None
  PROVE  /\ pin[p] = BadPin \/ slot[d].cert \notin Key => QuietOutcomeOn(p, d) = {"Scd"}
         /\ pin[p] # BadPin /\ slot[d].cert \in Key /\ pin[p] = PinOf[d] /\ tries[d] > 0 =>
              QuietOutcomeOn(p, d) = {IF slot[d].key = None THEN "Scd" ELSE "ok"}
<1>1. Route(p, d) = "scdaemon" /\ Route(p, d) # None
  BY RouteIsChosen
<1>2. QuietOutcomeOn(p, d) =
        CASE slot[d].cert \notin Key \/ pin[p] = BadPin -> {"Scd"}
          [] slot[d].cert \in Key /\ pin[p] # BadPin
               /\ (tries[d] = 0 \/ pin[p] # PinOf[d]) -> PinVerdict(p, d)
          [] OTHER -> {IF slot[d].key = None THEN "Scd" ELSE "ok"}
  BY <1>1 DEF QuietOutcomeOn
<1>3. tries[d] > 0 => tries[d] # 0
  OBVIOUS
<1> QED
  BY <1>2, <1>3

\* A refused PIN is judged after the attempt.
LEMMA ReferenceRefused ==
  ASSUME IInv, NEW p \in Proc, NEW d \in Device, OnRoute(p, d),
         req[p].layered => slot[d].slot2 # None,
         chosen[p] = "scdaemon" => slot[d].cert \in Key,
         UNCHANGED <<slot, holder, req, pin>>, pin[p] # BadPin, ~ PinAccepted(d, pin[p]),
         tries' = [tries EXCEPT ![d] = TriesAfter(d, pin[p])]
  PROVE  (IF tries[d] = 0 THEN "PinLocked" ELSE "WrongPin") \in QuietOutcomeOn(p, d)'
<1>1. Route(p, d) = chosen[p] /\ Route(p, d) # None /\ Route(p, d)' = Route(p, d)
  BY RouteIsChosen DEF Route
<1>2. chosen[p] \in {"pcsc", "scdaemon"}
  BY DEF OnRoute
<1>3. tries[d] \in Nat
  BY HostAssumption DEF IInv, TypeOK, HostTypeOK, HostAssumption
<1>4. tries'[d] = TriesAfter(d, pin[p])
  BY DEF IInv, TypeOK, HostTypeOK
<1>5. tries'[d] = 0 \/ pin[p] # PinOf[d]
  BY <1>3, <1>4 DEF TriesAfter, PinAccepted
<1>6. (IF tries[d] = 0 THEN "PinLocked" ELSE "WrongPin") \in PinVerdict(p, d)'
  <2>1. CASE tries[d] = 0
    <3>1. tries'[d] = 0
      BY <1>4, <2>1 DEF TriesAfter
    <3> QED
      BY <2>1, <3>1 DEF PinVerdict
  <2>2. CASE tries[d] # 0
    <3>1. pin[p] # PinOf[d]
      BY <1>3, <2>2 DEF PinAccepted
    <3> QED
      BY <2>2, <3>1 DEF PinVerdict
  <2> QED
    BY <2>1, <2>2
<1>7. QuietOutcomeOn(p, d)' = PinVerdict(p, d)'
  <2>1. CASE chosen[p] = "pcsc"
    BY <1>1, <1>5, <2>1 DEF QuietOutcomeOn
  <2>2. CASE chosen[p] = "scdaemon"
    BY <1>1, <1>5, <2>2 DEF QuietOutcomeOn
  <2> QED
    BY <1>2, <2>1, <2>2
<1> QED
  BY <1>6, <1>7

\* The reference looks at nothing else.
LEMMA SameReference ==
  ASSUME NEW p \in Proc, NEW d \in Device, UNCHANGED <<slot, tries, holder, req, pin>>
  PROVE  QuietOutcomeOn(p, d)' = QuietOutcomeOn(p, d)
BY DEF QuietOutcomeOn, PinVerdict, Route, CertError

\* A session nothing has disturbed, in the middle of its way.
Undisturbed(p) == IInv /\ QuietOK(p) /\ noise[p] = "quiet" /\ Active(p)

\* Nobody else's card is open, or blinks.
LEMMA AloneMeans ==
  ASSUME NEW p \in Proc, Undisturbed(p)
  PROVE  /\ ~ HasCard(p) => Shared = {} /\ \A d \in Device : CardIdle(d)
         /\ pc[p] # "touch" => \A d \in Device : CardIdle(d)
<1>1. \A q \in Proc \ {p} : pc[q] \in {"idle", "done"}
  BY DEF Undisturbed, QuietOK, Alone, Active
<1>2. \A q \in Proc : conn[q] # None => HasCard(q)
  BY DEF Undisturbed, IInv, SessionInv, SessionOK
<1>3. \A q \in Proc \ {p} : conn[q] = None
  BY <1>1, <1>2 DEF HasCard
<1>4. ASSUME ~ HasCard(p) PROVE Shared = {}
  <2>1. \A q \in Proc : conn[q] = None
    BY <1>2, <1>3, <1>4
  <2> QED
    BY <2>1 DEF Shared
<1>5. pc[p] # "touch" => \A d \in Device : CardIdle(d)
  BY <1>1 DEF CardIdle
<1> QED
  BY <1>4, <1>5 DEF HasCard

\* It goes on.
LEMMA QuietGoesOn ==
  ASSUME NEW p \in Proc, Undisturbed(p), plugged' = plugged,
         NEW place \in Place \ {"idle", "done"}, pc' = [pc EXCEPT ![p] = place],
         plugged = {} => QuietWithout(p)',
         \A d \in Device : plugged = {d} => QuietWith(p, d)'
  PROVE  QuietOK(p)'
<1>1. pc'[p] = place /\ \A q \in Proc \ {p} : pc'[q] = pc[q]
  BY DEF Undisturbed, IInv, TypeOK
<1>2. Alone(p)'
  BY <1>1 DEF Undisturbed, QuietOK, Alone, Active
<1>3. QuietEnd(p)'
  BY <1>1 DEF QuietEnd
<1> QED
  BY <1>2, <1>3 DEF QuietOK

\* It ends.
LEMMA QuietEnds ==
  ASSUME NEW p \in Proc, Undisturbed(p), NEW kind, End(p, kind),
         kind = "interrupted"
           \/ /\ plugged = {} => kind = IF req[p].transport = "scdaemon" THEN "Scd" ELSE "DeviceNotFound"
              /\ \A d \in Device : plugged = {d} => kind \in QuietOutcomeOn(p, d)'
  PROVE  QuietOK(p)'
<1>1. pc'[p] = "done" /\ outcome'[p] = kind /\ \A q \in Proc \ {p} : pc'[q] = pc[q]
  BY DEF Undisturbed, IInv, TypeOK, End, Goto
<1>2. Alone(p)' /\ ~ Active(p)'
  BY <1>1 DEF Undisturbed, QuietOK, Alone, Active
<1>3. plugged' = plugged /\ req' = req
  BY DEF End
<1>4. QuietEnd(p)'
  BY <1>1, <1>3 DEF QuietEnd
<1> QED
  BY <1>2, <1>4 DEF QuietOK

\* With an error that cost nothing.
LEMMA QuietQuits ==
  ASSUME NEW p \in Proc, Undisturbed(p), NEW kind, Quit(p, kind),
         kind = "interrupted"
           \/ /\ plugged = {} => kind = IF req[p].transport = "scdaemon" THEN "Scd" ELSE "DeviceNotFound"
              /\ \A d \in Device : plugged = {d} => kind \in QuietOutcomeOn(p, d)
  PROVE  QuietOK(p)'
<1>1. End(p, kind) /\ UNCHANGED <<slot, tries, holder, req, pin>>
  BY DEF Quit, End
<1>2. \A d \in Device : QuietOutcomeOn(p, d)' = QuietOutcomeOn(p, d)
  BY <1>1, SameReference
<1> QED
  BY <1>1, <1>2, QuietEnds

LEMMA QuietFails ==
  ASSUME NEW p \in Proc, Undisturbed(p), NEW kind, Fail(p, kind),
         kind = "interrupted"
           \/ /\ plugged = {} => kind = IF req[p].transport = "scdaemon" THEN "Scd" ELSE "DeviceNotFound"
              /\ \A d \in Device : plugged = {d} => kind \in QuietOutcomeOn(p, d)
  PROVE  QuietOK(p)'
BY QuietQuits DEF Fail

\* What an undisturbed session knows.
LEMMA QuietKnows ==
  ASSUME NEW p \in Proc, Undisturbed(p)
  PROVE  /\ plugged = {} => QuietWithout(p)
         /\ \A d \in Device : plugged = {d} => QuietWith(p, d)
BY DEF Undisturbed, QuietOK
-----------------------------------------------------------------------------
(* Choosing the transport *)

LEMMA QuietSelectOpen ==
  ASSUME NEW p \in Proc, Undisturbed(p), SelectOpen(p)
  PROVE  QuietOK(p)'
<1>1. PICK e \in Openable : card' = [card EXCEPT ![e] = "none"]
  BY DEF SelectOpen
<1>2. /\ pc[p] = "selOpen" /\ chosen'[p] = "pcsc" /\ pc' = [pc EXCEPT ![p] = "prompt"]
      /\ UNCHANGED <<plugged, holder, req>>
  BY DEF SelectOpen, Goto, Undisturbed, IInv, TypeOK
<1>3. plugged # {}
  BY <1>1 DEF Openable
<1>4. pc'[p] = "prompt"
  BY <1>2 DEF Undisturbed, IInv, TypeOK
<1>5. ASSUME NEW d \in Device, plugged = {d} PROVE QuietWith(p, d)'
  <2>1. holder[d] = "free"
    BY <1>1, <1>5 DEF Openable
  <2>2. req[p].transport \in {"auto", "pcsc"}
    BY <1>2, <1>5, QuietKnows DEF QuietWith
  <2> QED
    BY <1>2, <1>4, <2>1, <2>2 DEF QuietWith, OnRoute, HasCard, HasPin
<1> QED
  BY <1>2, <1>3, <1>5, QuietGoesOn DEF Place

LEMMA QuietSelectOpenFails ==
  ASSUME NEW p \in Proc, Undisturbed(p), SelectOpenFails(p)
  PROVE  QuietOK(p)'
<1>1. /\ pc[p] = "selOpen" /\ OpenMayFail /\ pc' = [pc EXCEPT ![p] = "selProbe"]
      /\ UNCHANGED <<plugged, holder, req>>
  BY DEF SelectOpenFails, Goto, hostVars
<1>2. pc'[p] = "selProbe"
  BY <1>1 DEF Undisturbed, IInv, TypeOK
<1>3. ASSUME plugged = {} PROVE QuietWithout(p)'
  BY <1>1, <1>2, <1>3, QuietKnows DEF QuietWithout
<1>4. ASSUME NEW d \in Device, plugged = {d} PROVE QuietWith(p, d)'
  <2>1. req[p].transport \in {"auto", "pcsc"}
    BY <1>1, <1>4, QuietKnows DEF QuietWith
  <2>2. holder[d] # "free"
    <3>1. SUFFICES ASSUME holder[d] = "free" PROVE FALSE
      OBVIOUS
    <3>2. Openable = {d}
      BY <1>4, <3>1 DEF Openable
    <3> QED
      BY <1>1, <3>2, FS_Singleton DEF OpenMayFail
  <2> QED
    BY <1>1, <1>2, <2>1, <2>2 DEF QuietWith, HasCard, HasPin
<1> QED
  BY <1>1, <1>3, <1>4, QuietGoesOn DEF Place

LEMMA QuietSelectProbe ==
  ASSUME NEW p \in Proc, Undisturbed(p), SelectProbe(p)
  PROVE  QuietOK(p)'
<1>1. pc[p] = "selProbe"
  BY DEF SelectProbe
<1>2. \A d \in Device : plugged = {d} =>
        SharingViolation /\ holder[d] # "free" /\ req[p].transport \in {"auto", "pcsc"}
  BY <1>1, QuietKnows DEF QuietWith, SharingViolation
<1>3. plugged = {} => ~ SharingViolation /\ req[p].transport \in {"auto", "pcsc"}
  BY <1>1, QuietKnows DEF QuietWithout, SharingViolation
<1>4. CASE SharingViolation /\ req[p].transport = "auto" /\ Goto(p, "selScd")
           /\ UNCHANGED <<plugged, slot, tries, holder, cool, req, pin, link, answer, noise>>
  <2>1. pc'[p] = "selScd" /\ UNCHANGED <<plugged, holder, req>>
    BY <1>4 DEF Undisturbed, IInv, TypeOK, Goto
  <2>2. ASSUME NEW d \in Device, plugged = {d} PROVE QuietWith(p, d)'
    BY <1>2, <1>4, <2>1, <2>2 DEF QuietWith, HasCard, HasPin
  <2> QED
    BY <1>3, <1>4, <2>1, <2>2, QuietGoesOn DEF Place, Goto
<1>5. CASE SharingViolation /\ req[p].transport = "pcsc" /\ Quit(p, "SmartcardBusy")
  <2>1. \A d \in Device : plugged = {d} => "SmartcardBusy" \in QuietOutcomeOn(p, d)
    BY <1>2, <1>5, NoRoute
  <2> QED
    BY <1>3, <1>5, <2>1, QuietQuits
<1>6. CASE ~ SharingViolation /\ Quit(p, "DeviceNotFound")
  BY <1>2, <1>3, <1>6, QuietQuits
<1> QED
  BY <1>4, <1>5, <1>6 DEF SelectProbe, ProbeFails

LEMMA QuietSelectScdaemon ==
  ASSUME NEW p \in Proc, Undisturbed(p), SelectScdaemon(p)
  PROVE  QuietOK(p)'
<1>1. PICK e \in ScdaemonReaches(Shared) : holder' = [holder EXCEPT ![e] = "scdaemon"]
  BY DEF SelectScdaemon
<1>2. /\ pc[p] = "selScd" /\ chosen'[p] = "scdaemon" /\ pc' = [pc EXCEPT ![p] = "prompt"]
      /\ UNCHANGED <<plugged, req>>
  BY DEF SelectScdaemon, Goto, Undisturbed, IInv, TypeOK
<1>3. pc'[p] = "prompt"
  BY <1>2 DEF Undisturbed, IInv, TypeOK
<1>4. e \in plugged
  BY <1>1 DEF ScdaemonReaches
<1>5. ASSUME NEW d \in Device, plugged = {d} PROVE QuietWith(p, d)'
  <2>1. holder'[d] = "scdaemon"
    BY <1>1, <1>4, <1>5 DEF Undisturbed, IInv, TypeOK, HostTypeOK
  <2>2. req[p].transport \in {"auto", "scdaemon"}
    BY <1>2, <1>5, QuietKnows DEF QuietWith
  <2> QED
    BY <1>2, <1>3, <2>1, <2>2 DEF QuietWith, OnRoute, HasCard, HasPin
<1> QED
  BY <1>2, <1>4, <1>5, QuietGoesOn DEF Place

LEMMA QuietSelectScdaemonFails ==
  ASSUME NEW p \in Proc, Undisturbed(p), SelectScdaemonFails(p)
  PROVE  QuietOK(p)'
<1> DEFINE kind == IF req[p].transport = "auto" THEN "SmartcardBusy" ELSE "Scd"
<1>1. pc[p] = "selScd" /\ ScdaemonReaches(Shared) = {} /\ Fail(p, kind)
  BY DEF SelectScdaemonFails
<1>2. Shared = {}
  BY <1>1, AloneMeans DEF HasCard
<1>3. ASSUME NEW d \in Device, plugged = {d} PROVE kind \in QuietOutcomeOn(p, d)
  <2>1. holder[d] = "other"
    BY <1>1, <1>2, <1>3 DEF ScdaemonReaches, Undisturbed, IInv, TypeOK, HostTypeOK
  <2>2. req[p].transport \in {"auto", "scdaemon"}
    BY <1>1, <1>3, QuietKnows DEF QuietWith
  <2> QED
    BY <2>1, <2>2, NoRoute
<1>4. plugged = {} => req[p].transport = "scdaemon"
  BY <1>1, QuietKnows DEF QuietWithout
<1> QED
  BY <1>1, <1>3, <1>4, QuietFails
-----------------------------------------------------------------------------
(* The PIN and the HMAC factor *)

LEMMA QuietEnterPin ==
  ASSUME Cooldown <= RetryBudget, NEW p \in Proc, Undisturbed(p), EnterPin(p)
  PROVE  QuietOK(p)'
<1> DEFINE place == IF req[p].layered THEN "hid" ELSE PivEntry(p)
<1>1. /\ pc[p] = "prompt" /\ pc' = [pc EXCEPT ![p] = place]
      /\ clock' = [clock EXCEPT ![p] = IF req[p].layered THEN RetryBudget ELSE 0]
      /\ UNCHANGED <<plugged, slot, tries, holder, card, cool, req, chosen, conn>>
  BY DEF EnterPin, Goto, hostVars
<1>2. pc'[p] = place /\ clock'[p] = IF req[p].layered THEN RetryBudget ELSE 0
  BY <1>1 DEF Undisturbed, IInv, TypeOK
<1>3. place \in {"hid", "open", "serialno"} /\ (place = "hid" <=> req[p].layered)
  BY DEF PivEntry
<1>4. plugged # {}
  BY <1>1, QuietKnows DEF QuietWithout
<1>5. ASSUME NEW d \in Device, plugged = {d} PROVE QuietWith(p, d)'
  <2>1. OnRoute(p, d)
    BY <1>1, <1>5, QuietKnows DEF QuietWith
  <2>2. OnRoute(p, d)'
    BY <1>1, <2>1 DEF OnRoute
  <2>3. cool[d] <= RetryBudget
    <3>1. cool[d] \in 0 .. Cooldown /\ Cooldown \in Nat /\ RetryBudget \in Nat
      BY HostAssumption, DeriveAssumption
        DEF HostAssumption, DeriveAssumption, Undisturbed, IInv, TypeOK, HostTypeOK
    <3> QED
      BY <3>1
  <2> HIDE DEF place
  <2> QED
    BY <1>1, <1>2, <1>3, <2>2, <2>3 DEF QuietWith, HasCard, HasPin
<1>6. place \in Place \ {"idle", "done"}
  BY <1>3 DEF Place
<1> HIDE DEF place
<1> QED
  BY <1>1, <1>4, <1>5, <1>6, QuietGoesOn

LEMMA QuietHmacAnswered ==
  ASSUME NEW p \in Proc, Undisturbed(p), HmacAnswered(p)
  PROVE  QuietOK(p)'
<1>1. /\ pc[p] = "hid" /\ pc' = [pc EXCEPT ![p] = PivEntry(p)]
      /\ Answering # {}
      /\ UNCHANGED <<plugged, slot, tries, holder, card, cool, req, chosen, conn>>
  BY DEF HmacAnswered, Goto, hostVars
<1>2. pc'[p] = PivEntry(p)
  BY <1>1 DEF Undisturbed, IInv, TypeOK
<1>3. PivEntry(p) \in {"open", "serialno"}
  BY DEF PivEntry
<1>4. plugged # {}
  BY <1>1 DEF Answering
<1>5. ASSUME NEW d \in Device, plugged = {d} PROVE QuietWith(p, d)'
  <2>1. slot[d].slot2 # None
    BY <1>1, <1>5 DEF Answering
  <2>2. OnRoute(p, d)'
    BY <1>1, <1>5, QuietKnows DEF QuietWith, OnRoute
  <2> QED
    BY <1>1, <1>2, <1>3, <2>1, <2>2 DEF QuietWith, HasCard, HasPin
<1>6. PivEntry(p) \in Place \ {"idle", "done"}
  BY <1>3 DEF Place
<1> QED
  BY <1>1, <1>4, <1>5, <1>6, QuietGoesOn

\* The one device in the port does not answer only as long as it is silent or if its slot 2
\* is empty; else somebody did not touch it.
LEMMA QuietHmacFails ==
  ASSUME NEW p \in Proc, Undisturbed(p), HmacFails(p), noise'[p] = "quiet"
  PROVE  QuietOK(p)'
<1>1. pc[p] = "hid"
  BY DEF HmacFails
<1>2. plugged # {}
  BY <1>1, QuietKnows DEF QuietWithout
<1>3. Answering # plugged
  <2>1. SUFFICES ASSUME Answering = plugged PROVE FALSE
    OBVIOUS
  <2>2. noise' = [noise EXCEPT ![p] = Noisier(p, "disturbed")]
    BY <1>2, <2>1 DEF HmacFails
  <2>3. noise'[p] \in {"swapped", "disturbed"}
    BY <2>2 DEF Noisier, Undisturbed, IInv, TypeOK
  <2> QED
    BY <2>3
<1>4. CASE clock[p] > 0 /\ Goto(p, "pause") /\ UNCHANGED <<hostVars, req, pin, link, answer>>
  <2>1. /\ pc'[p] = "pause"
        /\ UNCHANGED <<plugged, slot, tries, holder, card, cool, req, chosen, conn, clock>>
    BY <1>4 DEF Goto, Undisturbed, IInv, TypeOK, hostVars, link
  <2>2. ASSUME NEW d \in Device, plugged = {d} PROVE QuietWith(p, d)'
    <3>1. OnRoute(p, d)'
      BY <1>1, <2>1, <2>2, QuietKnows DEF QuietWith, OnRoute
    <3>2. req[p].layered /\ cool[d] <= clock[p]
      BY <1>1, <2>2, QuietKnows DEF QuietWith
    <3> QED
      BY <2>1, <3>1, <3>2 DEF QuietWith, HasCard, HasPin
  <2> QED
    BY <1>2, <1>4, <2>1, <2>2, QuietGoesOn DEF Goto, Place
<1>5. CASE clock[p] = 0 /\ End(p, "HmacFailed") /\ UNCHANGED <<card, tries, cool, accepted, ikm>>
  <2>1. ASSUME NEW d \in Device, plugged = {d} PROVE "HmacFailed" \in QuietOutcomeOn(p, d)'
    <3>1. OnRoute(p, d) /\ req[p].layered /\ cool[d] <= 0
      BY <1>1, <1>5, <2>1, QuietKnows DEF QuietWith
    <3>2. cool[d] = 0
      <4>1. cool[d] \in 0 .. Cooldown /\ Cooldown \in Nat
        BY HostAssumption DEF HostAssumption, Undisturbed, IInv, TypeOK, HostTypeOK
      <4> QED
        BY <3>1, <4>1
    <3>3. CardIdle(d)
      BY <1>1, AloneMeans
    <3>4. slot[d].slot2 = None
      BY <1>3, <2>1, <3>2, <3>3 DEF Answering
    <3>5. QuietOutcomeOn(p, d) = {"HmacFailed"}
      BY <3>1, <3>4, ReferenceHmac
    <3>6. UNCHANGED <<slot, tries, holder, req, pin>>
      BY <1>5 DEF End
    <3> QED
      BY <3>5, <3>6, SameReference
  <2> QED
    BY <1>2, <1>5, <2>1, QuietEnds
<1> QED
  BY <1>4, <1>5 DEF HmacFails

\* Time passes for the silence and for the deadline alike.
LEMMA QuietTick ==
  ASSUME NEW p \in Proc, IInv, QuietOK(p), Tick
  PROVE  QuietOK(p)'
<1> SUFFICES ASSUME noise[p] = "quiet" PROVE QuietOK(p)'
  BY DEF Tick, QuietOK
<1>1. /\ pc' = [q \in Proc |-> IF pc[q] = "pause" THEN "hid" ELSE pc[q]]
      /\ clock' = [q \in Proc |-> IF pc[q] = "pause" THEN clock[q] - 1 ELSE clock[q]]
      /\ cool' = [d \in Device |-> IF cool[d] > 0 THEN cool[d] - 1 ELSE 0]
      /\ pc[p] # "hid"
      /\ UNCHANGED <<plugged, slot, tries, holder, card, req, pin, chosen, conn, outcome, noise>>
  BY DEF Tick, answer
<1>2. \A q \in Proc : Active(q)' = Active(q)
  BY <1>1 DEF Active
<1>3. Alone(p)'
  BY <1>2 DEF QuietOK, Alone
<1>4. QuietEnd(p)'
  <2>1. pc'[p] = "done" => pc[p] = "done"
    BY <1>1
  <2>2. \A d \in Device : QuietOutcomeOn(p, d)' = QuietOutcomeOn(p, d)
    BY <1>1, SameReference
  <2> QED
    BY <1>1, <2>1, <2>2 DEF QuietOK, QuietEnd
<1>5. ASSUME Active(p) PROVE (plugged = {} => QuietWithout(p)') /\ \A d \in Device : plugged = {d} => QuietWith(p, d)'
  <2>1. pc[p] = "pause" \/ pc'[p] = pc[p]
    BY <1>1
  <2>2. pc[p] = "pause" => pc'[p] = "hid"
    BY <1>1
  <2>3. Undisturbed(p)
    BY <1>5 DEF Undisturbed
  <2>4. plugged = {} => QuietWithout(p)'
    BY <1>1, <2>1, <2>3, QuietKnows DEF QuietWithout
  <2>5. ASSUME NEW d \in Device, plugged = {d} PROVE QuietWith(p, d)'
    <3>1. QuietWith(p, d)
      BY <2>3, <2>5, QuietKnows
    <3>2. CASE pc[p] = "pause"
      <4>1. OnRoute(p, d)'
        BY <1>1, <3>1, <3>2 DEF QuietWith, OnRoute
      <4>2. cool[d] \in 0 .. Cooldown /\ Cooldown \in Nat /\ clock[p] \in 0 .. RetryBudget
            /\ RetryBudget \in Nat /\ clock[p] > 0 /\ cool[d] <= clock[p] /\ req[p].layered
        BY <3>1, <3>2, HostAssumption, DeriveAssumption
          DEF HostAssumption, DeriveAssumption, IInv, TypeOK, HostTypeOK, SessionInv, SessionOK, QuietWith
      <4>3. cool'[d] = (IF cool[d] > 0 THEN cool[d] - 1 ELSE 0) /\ clock'[p] = clock[p] - 1
        BY <1>1, <3>2
      <4>4. cool'[d] <= clock'[p]
        BY <4>2, <4>3
      <4> QED
        BY <1>1, <2>2, <3>2, <4>1, <4>2, <4>4 DEF QuietWith, HasCard, HasPin
    <3>3. CASE pc[p] # "pause"
      <4>1. pc'[p] = pc[p] /\ pc[p] \notin {"hid", "pause"}
        BY <1>1, <2>1, <3>3
      <4> QED
        BY <1>1, <3>1, <4>1 DEF QuietWith, OnRoute, HasCard, HasPin
    <3> QED
      BY <3>2, <3>3
  <2> QED
    BY <2>4, <2>5
<1> QED
  BY <1>1, <1>2, <1>3, <1>4, <1>5 DEF QuietOK
-----------------------------------------------------------------------------
(* The PIV factor *)

\* A session past the prompt knows its device, its transport and its HMAC factor.
LEMMA QuietPiv ==
  ASSUME NEW p \in Proc, Undisturbed(p),
         pc[p] \in {"open", "serialno", "verify", "cert", "ecdh", "touch"}
  PROVE  /\ plugged # {}
         /\ \A d \in Device : plugged = {d} =>
              /\ OnRoute(p, d) /\ (req[p].layered => slot[d].slot2 # None)
              /\ HasCard(p) => conn[p] = d /\ card[d] # "none"
              /\ HasPin(p) => pin[p] = PinOf[d] /\ pin[p] # BadPin /\ tries[d] > 0 /\ card[d] = "verified"
              /\ HasPoint(p) => slot[d].cert \in Key
<1>1. plugged # {}
  BY QuietKnows DEF QuietWithout
<1>2. ASSUME NEW d \in Device, plugged = {d}
      PROVE  /\ OnRoute(p, d) /\ (req[p].layered => slot[d].slot2 # None)
             /\ HasCard(p) => conn[p] = d /\ card[d] # "none"
             /\ HasPin(p) => pin[p] = PinOf[d] /\ pin[p] # BadPin /\ tries[d] > 0 /\ card[d] = "verified"
             /\ HasPoint(p) => slot[d].cert \in Key
  <2>1. QuietWith(p, d)
    BY <1>2, QuietKnows
  <2>2. PinOf[d] # BadPin
    BY HostAssumption, DeriveAssumption DEF HostAssumption, DeriveAssumption
  <2>3. HasPoint(p) => HasCard(p)
    BY DEF HasPoint, HasCard
  <2>4. d # None
    BY HostAssumption DEF HostAssumption
  <2>5. HasCard(p) /\ HasPoint(p) => slot[d].cert \in Key
    BY <2>1, <2>4 DEF QuietWith, Undisturbed, IInv, TypeOK, SessionInv, SessionOK
  <2> QED
    BY <2>1, <2>2, <2>3, <2>5 DEF QuietWith
<1> QED
  BY <1>1, <1>2

LEMMA QuietOpen ==
  ASSUME NEW p \in Proc, Undisturbed(p), Open(p)
  PROVE  QuietOK(p)'
<1>1. PICK e \in Openable : conn' = [conn EXCEPT ![p] = e] /\ card' = [card EXCEPT ![e] = "piv"]
  BY DEF Open
<1>2. /\ pc[p] = "open" /\ pc' = [pc EXCEPT ![p] = "verify"]
      /\ UNCHANGED <<plugged, slot, tries, holder, req, pin, chosen>>
  BY DEF Open, Goto
<1>3. pc'[p] = "verify" /\ conn'[p] = e
  BY <1>1, <1>2 DEF Undisturbed, IInv, TypeOK
<1>4. ASSUME NEW d \in Device, plugged = {d} PROVE QuietWith(p, d)'
  <2>1. e = d /\ card'[d] = "piv"
    BY <1>1, <1>4 DEF Openable, Undisturbed, IInv, TypeOK, HostTypeOK
  <2>2. OnRoute(p, d)' /\ (req[p].layered => slot[d].slot2 # None)
    BY <1>2, <1>4, QuietPiv DEF OnRoute
  <2> QED
    BY <1>2, <1>3, <2>1, <2>2 DEF QuietWith, HasCard, HasPin
<1>5. plugged # {}
  BY <1>2, QuietPiv
<1> QED
  BY <1>2, <1>4, <1>5, QuietGoesOn DEF Place

\* The card that was free at the prompt is free, and it is the only one.
LEMMA QuietOpenFails ==
  ASSUME NEW p \in Proc, Undisturbed(p), OpenFails(p), NEW d \in Device, plugged = {d}
  PROVE  FALSE
<1>1. pc[p] = "open" /\ OpenMayFail
  BY DEF OpenFails
<1>2. chosen[p] = "pcsc"
  BY <1>1 DEF Undisturbed, IInv, SessionInv, SessionOK, PivEntry
<1>3. holder[d] = "free"
  BY <1>1, <1>2, QuietPiv DEF OnRoute
<1>4. Openable = {d}
  BY <1>3 DEF Openable
<1> QED
  BY <1>1, <1>4, FS_Singleton DEF OpenMayFail

LEMMA QuietSerialno ==
  ASSUME NEW p \in Proc, Undisturbed(p), Serialno(p)
  PROVE  QuietOK(p)'
<1>1. PICK e \in ScdaemonReaches(Shared) :
        /\ holder' = [holder EXCEPT ![e] = "scdaemon"]
        /\ conn' = [conn EXCEPT ![p] = e] /\ card' = [card EXCEPT ![e] = "piv"]
  BY DEF Serialno
<1>2. /\ pc[p] = "serialno" /\ pc' = [pc EXCEPT ![p] = "cert"]
      /\ UNCHANGED <<plugged, slot, tries, req, pin, chosen>>
  BY DEF Serialno, Goto
<1>3. chosen[p] = "scdaemon"
  BY <1>2 DEF Undisturbed, IInv, TypeOK, SessionInv, SessionOK, PivEntry
<1>4. pc'[p] = "cert" /\ conn'[p] = e
  BY <1>1, <1>2 DEF Undisturbed, IInv, TypeOK
<1>5. ASSUME NEW d \in Device, plugged = {d} PROVE QuietWith(p, d)'
  <2>1. e = d /\ card'[d] = "piv" /\ holder'[d] = "scdaemon"
    BY <1>1, <1>5 DEF ScdaemonReaches, Undisturbed, IInv, TypeOK, HostTypeOK
  <2>2. OnRoute(p, d) /\ (req[p].layered => slot[d].slot2 # None)
    BY <1>2, <1>5, QuietPiv
  <2>3. OnRoute(p, d)'
    BY <1>2, <1>3, <2>1, <2>2 DEF OnRoute
  <2> QED
    BY <1>2, <1>3, <1>4, <2>1, <2>2, <2>3 DEF QuietWith, HasCard, HasPin
<1>6. plugged # {}
  BY <1>2, QuietPiv
<1> QED
  BY <1>2, <1>5, <1>6, QuietGoesOn DEF Place

\* What scdaemon held at the prompt it holds.
LEMMA QuietSerialnoFails ==
  ASSUME NEW p \in Proc, Undisturbed(p), SerialnoFails(p), NEW d \in Device, plugged = {d}
  PROVE  FALSE
<1>1. pc[p] = "serialno" /\ ScdaemonReaches(Shared) = {}
  BY DEF SerialnoFails
<1>2. chosen[p] = "scdaemon"
  BY <1>1 DEF Undisturbed, IInv, TypeOK, SessionInv, SessionOK, PivEntry
<1>3. holder[d] = "scdaemon"
  BY <1>1, <1>2, QuietPiv DEF OnRoute
<1> QED
  BY <1>1, <1>3 DEF ScdaemonReaches

LEMMA QuietRare ==
  ASSUME NEW p \in Proc, Undisturbed(p), OpenFails(p) \/ OpenProbe(p) \/ SerialnoFails(p)
  PROVE  QuietOK(p)'
<1>1. CASE OpenFails(p)
  <2>1. pc[p] = "open" /\ pc' = [pc EXCEPT ![p] = "openProbe"] /\ plugged' = plugged
    BY <1>1 DEF OpenFails, Goto, hostVars
  <2> QED
    BY <1>1, <2>1, QuietPiv, QuietOpenFails, QuietGoesOn DEF Place
<1>2. CASE OpenProbe(p)
  <2>1. plugged # {} /\ \A d \in Device : plugged # {d}
    BY <1>2, QuietKnows DEF OpenProbe, QuietWithout, QuietWith
  <2> QED
    BY <1>2, <2>1, QuietQuits DEF OpenProbe, ProbeFails
<1>3. CASE SerialnoFails(p)
  <2>1. plugged # {} /\ \A d \in Device : plugged # {d}
    BY <1>3, QuietPiv, QuietSerialnoFails DEF SerialnoFails
  <2> QED
    BY <1>3, <2>1, QuietFails DEF SerialnoFails
<1> QED
  BY <1>1, <1>2, <1>3

\* The connection of an undisturbed session holds.
LEMMA QuietReaches ==
  ASSUME NEW p \in Proc, Undisturbed(p), HasCard(p), NEW d \in Device, plugged = {d}
  PROVE  conn[p] = d /\ ~ Unreachable(p)
<1>1. conn[p] = d /\ card[d] # "none"
  BY QuietPiv DEF HasCard
<1> QED
  BY <1>1 DEF Unreachable

LEMMA QuietVerifyFails ==
  ASSUME NEW p \in Proc, Undisturbed(p), VerifyFails(p)
  PROVE  QuietOK(p)'
<1>1. pc[p] = "verify" /\ (Unreachable(p) \/ pin[p] = BadPin) /\ Fail(p, PivError(p))
  BY DEF VerifyFails
<1>2. ASSUME NEW d \in Device, plugged = {d} PROVE PivError(p) \in QuietOutcomeOn(p, d)
  <2>1. pin[p] = BadPin
    BY <1>1, <1>2, QuietReaches DEF HasCard
  <2>2. OnRoute(p, d) /\ (req[p].layered => slot[d].slot2 # None)
    BY <1>1, <1>2, QuietPiv
  <2>3. CASE chosen[p] = "pcsc"
    BY <2>1, <2>2, <2>3, ReferencePcsc DEF PivError
  <2>4. CASE chosen[p] = "scdaemon"
    BY <2>1, <2>2, <2>4, ReferenceScdaemon DEF PivError
  <2> QED
    BY <2>2, <2>3, <2>4 DEF OnRoute
<1> QED
  BY <1>1, <1>2, QuietPiv, QuietFails

LEMMA QuietVerifyAccepted ==
  ASSUME NEW p \in Proc, Undisturbed(p), VerifyAccepted(p)
  PROVE  QuietOK(p)'
<1> DEFINE place == IF chosen[p] = "pcsc" THEN "cert" ELSE "ecdh"
<1>1. /\ pc[p] = "verify" /\ pc' = [pc EXCEPT ![p] = place]
      /\ PinAccepted(conn[p], pin[p])
      /\ tries' = [tries EXCEPT ![conn[p]] = TriesAfter(conn[p], pin[p])]
      /\ card' = [card EXCEPT ![conn[p]] = "verified"]
      /\ UNCHANGED <<plugged, slot, holder, req, pin, chosen, conn>>
  BY DEF VerifyAccepted, Goto, link
<1>2. pc'[p] = place /\ place \in {"cert", "ecdh"}
  BY <1>1 DEF Undisturbed, IInv, TypeOK
<1>3. ASSUME NEW d \in Device, plugged = {d} PROVE QuietWith(p, d)'
  <2>1. conn[p] = d /\ OnRoute(p, d) /\ (req[p].layered => slot[d].slot2 # None)
    BY <1>1, <1>3, QuietPiv DEF HasCard
  <2>2. OnRoute(p, d)'
    BY <1>1, <2>1 DEF OnRoute
  <2>3. pin[p] = PinOf[d] /\ tries[d] > 0
    BY <1>1, <2>1 DEF PinAccepted
  <2>4. tries'[d] > 0
    <3>1. tries[d] \in 0 .. MaxTries /\ MaxTries \in Nat \ {0}
      BY HostAssumption DEF HostAssumption, Undisturbed, IInv, TypeOK, HostTypeOK
    <3>2. tries'[d] = MaxTries
      BY <1>1, <2>1, <2>3, <3>1 DEF TriesAfter, Undisturbed, IInv, TypeOK, HostTypeOK
    <3> QED
      BY <3>1, <3>2
  <2>5. card'[d] = "verified"
    BY <1>1, <2>1 DEF Undisturbed, IInv, TypeOK, HostTypeOK
  <2> HIDE DEF place
  <2> QED
    BY <1>1, <1>2, <2>1, <2>2, <2>3, <2>4, <2>5 DEF QuietWith, HasCard, HasPin
<1>4. place \in Place \ {"idle", "done"}
  BY <1>2 DEF Place
<1>5. plugged # {}
  BY <1>1, QuietPiv
<1> HIDE DEF place
<1> QED
  BY <1>1, <1>3, <1>4, <1>5, QuietGoesOn

LEMMA QuietVerifyRefused ==
  ASSUME NEW p \in Proc, Undisturbed(p), VerifyRefused(p)
  PROVE  QuietOK(p)'
<1> DEFINE kind == IF tries[conn[p]] = 0 THEN "PinLocked" ELSE "WrongPin"
<1>1. /\ pc[p] = "verify" /\ End(p, kind)
      /\ pin[p] # BadPin /\ ~ PinAccepted(conn[p], pin[p])
      /\ tries' = [tries EXCEPT ![conn[p]] = TriesAfter(conn[p], pin[p])]
      /\ UNCHANGED <<slot, holder, req, pin>>
  BY DEF VerifyRefused, End
<1>2. ASSUME NEW d \in Device, plugged = {d} PROVE kind \in QuietOutcomeOn(p, d)'
  <2>1. conn[p] = d /\ OnRoute(p, d) /\ (req[p].layered => slot[d].slot2 # None)
        /\ (HasPoint(p) => slot[d].cert \in Key)
    BY <1>1, <1>2, QuietPiv DEF HasCard
  <2>2. chosen[p] = "scdaemon" => slot[d].cert \in Key
    BY <1>1, <2>1 DEF HasPoint
  <2>3. IInv
    BY DEF Undisturbed
  <2> QED
    BY <1>1, <2>1, <2>2, <2>3, ReferenceRefused
<1>3. plugged # {}
  BY <1>1, QuietPiv
<1> HIDE DEF kind
<1> QED
  BY <1>1, <1>2, <1>3, QuietEnds

LEMMA QuietReadCert ==
  ASSUME NEW p \in Proc, Undisturbed(p), ReadCert(p)
  PROVE  QuietOK(p)'
<1> DEFINE place == IF chosen[p] = "pcsc" THEN "ecdh" ELSE "verify"
<1>1. /\ pc[p] = "cert" /\ pc' = [pc EXCEPT ![p] = place]
      /\ UNCHANGED <<plugged, slot, tries, holder, card, req, pin, chosen, conn>>
  BY DEF ReadCert, Goto, hostVars
<1>2. pc'[p] = place /\ place \in {"ecdh", "verify"} /\ (place = "ecdh" => chosen[p] = "pcsc")
  BY <1>1 DEF Undisturbed, IInv, TypeOK
<1>3. ASSUME NEW d \in Device, plugged = {d} PROVE QuietWith(p, d)'
  <2>1. /\ conn[p] = d /\ card[d] # "none" /\ OnRoute(p, d) /\ (req[p].layered => slot[d].slot2 # None)
        /\ HasPin(p) => pin[p] = PinOf[d] /\ tries[d] > 0 /\ card[d] = "verified"
    BY <1>1, <1>3, QuietPiv DEF HasCard
  <2>2. OnRoute(p, d)'
    BY <1>1, <2>1 DEF OnRoute
  <2>3. place = "ecdh" => HasPin(p)
    BY <1>1, <1>2 DEF HasPin
  <2>4. HasPin(p)' => place = "ecdh"
    BY <1>2 DEF HasPin
  <2> HIDE DEF place
  <2> QED
    BY <1>1, <1>2, <2>1, <2>2, <2>3, <2>4 DEF QuietWith
<1>4. place \in Place \ {"idle", "done"}
  BY <1>2 DEF Place
<1>5. plugged # {}
  BY <1>1, QuietPiv
<1> HIDE DEF place
<1> QED
  BY <1>1, <1>3, <1>4, <1>5, QuietGoesOn

LEMMA QuietReadCertFails ==
  ASSUME NEW p \in Proc, Undisturbed(p), ReadCertFails(p)
  PROVE  QuietOK(p)'
<1>1. pc[p] = "cert" /\ HasCard(p)
  BY DEF ReadCertFails, HasCard
<1>2. plugged # {}
  BY <1>1, QuietPiv
<1>3. CASE Unreachable(p) /\ Fail(p, PivError(p))
  <2>1. \A d \in Device : plugged # {d}
    BY <1>1, <1>3, QuietReaches
  <2> QED
    BY <1>2, <1>3, <2>1, QuietFails
<1>4. CASE Reaches(p) /\ slot[conn[p]].cert \notin Key
           /\ Fail(p, IF chosen[p] = "pcsc" THEN CertError(conn[p]) ELSE "Scd")
  <2>1. ASSUME NEW d \in Device, plugged = {d}
        PROVE (IF chosen[p] = "pcsc" THEN CertError(conn[p]) ELSE "Scd") \in QuietOutcomeOn(p, d)
    <3>1. /\ conn[p] = d /\ OnRoute(p, d) /\ (req[p].layered => slot[d].slot2 # None)
          /\ HasPin(p) => pin[p] = PinOf[d] /\ pin[p] # BadPin /\ tries[d] > 0
      BY <1>1, <2>1, QuietPiv
    <3>2. CASE chosen[p] = "pcsc"
      <4>1. HasPin(p)
        BY <1>1, <3>2 DEF HasPin
      <4> QED
        BY <1>4, <3>1, <3>2, <4>1, ReferencePcsc
    <3>3. CASE chosen[p] = "scdaemon"
      BY <1>4, <3>1, <3>3, ReferenceScdaemon
    <3> QED
      BY <3>1, <3>2, <3>3 DEF OnRoute
  <2> QED
    BY <1>2, <1>4, <2>1, QuietFails
<1> QED
  BY <1>3, <1>4 DEF ReadCertFails

\* At the agreement everything is known but whether slot 9d has a key.
LEMMA QuietAgreement ==
  ASSUME NEW p \in Proc, Undisturbed(p), pc[p] \in {"ecdh", "touch"},
         NEW d \in Device, plugged = {d}
  PROVE  /\ conn[p] = d /\ card[d] = "verified" /\ ~ Unreachable(p) /\ OnRoute(p, d)
         /\ slot[d].key = None => QuietOutcomeOn(p, d) = {EcdhError(p)}
         /\ slot[d].key # None => QuietOutcomeOn(p, d) = {"ok"}
<1>1. HasCard(p) /\ HasPin(p) /\ HasPoint(p)
  BY DEF HasCard, HasPin, HasPoint
<1>2. conn[p] = d /\ ~ Unreachable(p)
  BY <1>1, QuietReaches
<1>3. /\ OnRoute(p, d) /\ (req[p].layered => slot[d].slot2 # None)
      /\ pin[p] = PinOf[d] /\ pin[p] # BadPin /\ tries[d] > 0 /\ card[d] = "verified"
      /\ slot[d].cert \in Key
  BY <1>1, QuietPiv
<1>4. CASE chosen[p] = "pcsc"
  BY <1>2, <1>3, <1>4, ReferencePcsc DEF EcdhError
<1>5. CASE chosen[p] = "scdaemon"
  <2>1. QuietOutcomeOn(p, d) = {IF slot[d].key = None THEN "Scd" ELSE "ok"}
    BY <1>3, <1>5, ReferenceScdaemon
  <2> QED
    BY <1>2, <1>3, <1>5, <2>1 DEF EcdhError
<1> QED
  BY <1>3, <1>4, <1>5 DEF OnRoute

LEMMA QuietBlink ==
  ASSUME NEW p \in Proc, Undisturbed(p), Blink(p)
  PROVE  QuietOK(p)'
<1>1. /\ pc[p] = "ecdh" /\ pc' = [pc EXCEPT ![p] = "touch"]
      /\ UNCHANGED <<plugged, slot, tries, holder, card, req, pin, chosen, conn>>
  BY DEF Blink, Goto, hostVars, link
<1>2. pc'[p] = "touch"
  BY <1>1 DEF Undisturbed, IInv, TypeOK
<1>3. ASSUME NEW d \in Device, plugged = {d} PROVE QuietWith(p, d)'
  <2>1. /\ conn[p] = d /\ card[d] # "none" /\ OnRoute(p, d) /\ (req[p].layered => slot[d].slot2 # None)
        /\ pin[p] = PinOf[d] /\ tries[d] > 0 /\ card[d] = "verified"
    BY <1>1, <1>3, QuietPiv DEF HasCard, HasPin
  <2>2. OnRoute(p, d)'
    BY <1>1, <2>1 DEF OnRoute
  <2> QED
    BY <1>1, <1>2, <2>1, <2>2 DEF QuietWith
<1>4. plugged # {}
  BY <1>1, QuietPiv
<1> QED
  BY <1>1, <1>3, <1>4, QuietGoesOn DEF Place

LEMMA QuietEcdhFails ==
  ASSUME NEW p \in Proc, Undisturbed(p), EcdhFails(p)
  PROVE  QuietOK(p)'
<1>1. pc[p] = "ecdh" /\ Fail(p, EcdhError(p))
      /\ (Unreachable(p) \/ card[conn[p]] # "verified" \/ slot[conn[p]].key = None)
  BY DEF EcdhFails
<1>2. \A d \in Device : plugged = {d} => EcdhError(p) \in QuietOutcomeOn(p, d)
  BY <1>1, QuietAgreement
<1> QED
  BY <1>1, <1>2, QuietPiv, QuietFails

LEMMA QuietTouched ==
  ASSUME NEW p \in Proc, Undisturbed(p), Touched(p)
  PROVE  QuietOK(p)'
<1>1. pc[p] = "touch" /\ conn[p] # None /\ End(p, "ok") /\ UNCHANGED <<slot, tries, holder, req, pin>>
  BY DEF Touched, End
<1>2. ASSUME NEW d \in Device, plugged = {d} PROVE "ok" \in QuietOutcomeOn(p, d)'
  <2>1. conn[p] = d
    BY <1>1, <1>2, QuietAgreement
  <2>2. slot[d].key # None
    BY <1>1, <2>1 DEF Undisturbed, IInv, SessionInv, SessionOK
  <2>3. QuietOutcomeOn(p, d) = {"ok"}
    BY <1>1, <1>2, <2>2, QuietAgreement
  <2> QED
    BY <1>1, <2>3, SameReference
<1> QED
  BY <1>1, <1>2, QuietPiv, QuietEnds

LEMMA QuietInterrupt ==
  ASSUME NEW p \in Proc, Undisturbed(p), Interrupt(p)
  PROVE  QuietOK(p)'
BY QuietFails DEF Interrupt
-----------------------------------------------------------------------------
(* All sessions *)

\* A session that begins while another is open is not undisturbed.
LEMMA QuietStart ==
  ASSUME NEW p \in Proc, IInv, Start(p)
  PROVE  QuietOK(p)'
<1>1. noise'[p] = IF \E r \in Proc \ {p} : Active(r) THEN "disturbed" ELSE "quiet"
  BY DEF Start
<1> SUFFICES ASSUME \A r \in Proc \ {p} : ~ Active(r) PROVE QuietOK(p)'
  BY <1>1 DEF QuietOK
<1>2. PICK layered \in BOOLEAN, flag \in Flag, env \in Env :
        LET t == RequestedTransport(flag, env) IN
        /\ req' = [req EXCEPT ![p] = [layered |-> layered, transport |-> t]]
        /\ Goto(p, CASE t = "invalid" -> "done"
                     [] t = "scdaemon" -> "selScd"
                     [] OTHER -> "selOpen")
  BY DEF Start
<1> DEFINE t == RequestedTransport(flag, env)
<1>3. t \in {"auto", "pcsc", "scdaemon", "invalid"}
  BY RequestedTransportType
<1>4. UNCHANGED <<plugged, slot, tries, holder, card, cool, chosen, conn>>
  BY DEF Start, hostVars, link
<1>5. req'[p].transport = t
  BY <1>2 DEF IInv, TypeOK
<1>6. /\ t = "invalid" => pc'[p] = "done"
      /\ t = "scdaemon" => pc'[p] = "selScd"
      /\ t \in {"auto", "pcsc"} => pc'[p] = "selOpen"
      /\ \A q \in Proc \ {p} : pc'[q] = pc[q]
  <2> HIDE DEF t
  <2>1. pc' = [pc EXCEPT ![p] = CASE t = "invalid" -> "done"
                                  [] t = "scdaemon" -> "selScd"
                                  [] OTHER -> "selOpen"]
    BY <1>2 DEF Goto, t
  <2> QED
    BY <1>3, <2>1 DEF IInv, TypeOK
<1> HIDE DEF t
<1>7. Alone(p)'
  BY <1>6 DEF Alone, Active
<1>8. QuietEnd(p)'
  BY <1>3, <1>5, <1>6 DEF QuietEnd
<1>9. ASSUME Active(p)' PROVE QuietWithout(p)' /\ \A d \in Device : QuietWith(p, d)'
  <2>1. \/ pc'[p] = "selScd" /\ t = "scdaemon"
        \/ pc'[p] = "selOpen" /\ t \in {"auto", "pcsc"}
    BY <1>3, <1>6, <1>9 DEF Active
  <2>2. QuietWithout(p)'
    BY <1>5, <2>1 DEF QuietWithout
  <2>3. \A d \in Device : QuietWith(p, d)'
    BY <1>5, <2>1 DEF QuietWith, HasCard, HasPin
  <2> QED
    BY <2>2, <2>3
<1> QED
  BY <1>7, <1>8, <1>9 DEF QuietOK

\* The steps of an open session.
Moves(q) == EnterPin(q) \/ Interrupt(q) \/ Step(q)

LEMMA MovesOpen ==
  ASSUME IInv, NEW q \in Proc, Moves(q)
  PROVE  Active(q) /\ \A p \in Proc \ {q} : noise'[p] = noise[p]
<1>1. CASE EnterPin(q)
  BY <1>1 DEF EnterPin, Active
<1>2. CASE Interrupt(q)
  BY <1>2 DEF Interrupt, Fail, Quit
<1>3. CASE SelectOpen(q) \/ SelectOpenFails(q) \/ SelectProbe(q) \/ SelectScdaemon(q) \/ SelectScdaemonFails(q)
  BY <1>3 DEF SelectOpen, SelectOpenFails, SelectProbe, SelectScdaemon, SelectScdaemonFails,
       ProbeFails, Fail, Quit, Active
<1>4. CASE HmacAnswered(q) \/ HmacFails(q) \/ NotTouched(q)
  BY <1>4 DEF HmacAnswered, HmacFails, NotTouched, Active, IInv, TypeOK
<1>5. CASE Open(q) \/ OpenFails(q) \/ OpenProbe(q) \/ Serialno(q) \/ SerialnoFails(q)
  BY <1>5 DEF Open, OpenFails, OpenProbe, Serialno, SerialnoFails, ProbeFails, Fail, Quit, Active
<1>6. CASE VerifyFails(q) \/ VerifyAccepted(q) \/ VerifyRefused(q) \/ ReadCert(q) \/ ReadCertFails(q)
  BY <1>6 DEF VerifyFails, VerifyAccepted, VerifyRefused, ReadCert, ReadCertFails, Fail, Quit, Active
<1>7. CASE Blink(q) \/ EcdhFails(q) \/ Touched(q)
  BY <1>7 DEF Blink, EcdhFails, Touched, Fail, Quit, Active
<1> QED
  BY <1>1, <1>2, <1>3, <1>4, <1>5, <1>6, <1>7 DEF Moves, Step

\* A step of another session means that this one is not undisturbed.
LEMMA OthersDisturb ==
  ASSUME IInv, NEW p \in Proc, NEW q \in Proc \ {p}, QuietOK(p), Start(q) \/ Moves(q)
  PROVE  noise'[p] # "quiet"
<1>1. CASE Start(q)
  BY <1>1 DEF Start, Noisier
<1>2. CASE Moves(q)
  BY <1>2, MovesOpen DEF QuietOK, Alone
<1> QED
  BY <1>1, <1>2

LEMMA WorldDisturbs ==
  ASSUME NEW p \in Proc, NEW d \in Device, World(d)
  PROVE  noise'[p] # "quiet"
BY DEF World, Plug, Unplug, TakeCard, ReleaseCard, Meddle, Disturb, Noisier

LEMMA QuietMoves ==
  ASSUME Cooldown <= RetryBudget, IInv, NEW p \in Proc, QuietOK(p), Moves(p), noise'[p] = "quiet"
  PROVE  QuietOK(p)'
<1>1. Active(p)
  BY MovesOpen
<1>2. CASE HmacFails(p) \/ NotTouched(p)
  <2>1. noise[p] = "quiet" /\ ~ NotTouched(p)
    BY <1>2 DEF HmacFails, NotTouched, Noisier, IInv, TypeOK
  <2> QED
    BY <1>1, <1>2, <2>1, QuietHmacFails DEF Undisturbed
<1>3. CASE ~ (HmacFails(p) \/ NotTouched(p))
  <2>1. noise[p] = "quiet"
    <3>1. CASE EnterPin(p) \/ Interrupt(p)
      BY <3>1 DEF EnterPin, Interrupt, Fail, Quit
    <3>2. CASE Step(p)
      BY <1>3, <3>2 DEF Step, SelectOpen, SelectOpenFails, SelectProbe, SelectScdaemon,
        SelectScdaemonFails, HmacAnswered, Open, OpenFails, OpenProbe, Serialno, SerialnoFails,
        VerifyFails, VerifyAccepted, VerifyRefused, ReadCert, ReadCertFails, Blink, EcdhFails,
        Touched, ProbeFails, Fail, Quit
    <3> QED
      BY <3>1, <3>2 DEF Moves
  <2>2. Undisturbed(p)
    BY <1>1, <2>1 DEF Undisturbed
  <2> QED
    BY <1>3, <2>2, QuietSelectOpen, QuietSelectOpenFails, QuietSelectProbe, QuietSelectScdaemon,
      QuietSelectScdaemonFails, QuietEnterPin, QuietHmacAnswered, QuietOpen, QuietSerialno, QuietRare,
      QuietVerifyFails, QuietVerifyAccepted, QuietVerifyRefused, QuietReadCert, QuietReadCertFails,
      QuietBlink, QuietEcdhFails, QuietTouched, QuietInterrupt DEF Moves, Step
<1> QED
  BY <1>2, <1>3

LEMMA QuietStep ==
  ASSUME Cooldown <= RetryBudget, IInv, QuietInv, Next
  PROVE  QuietInv'
<1> SUFFICES ASSUME NEW p \in Proc, noise'[p] = "quiet" PROVE QuietOK(p)'
  BY DEF QuietInv, QuietOK
<1>1. QuietOK(p)
  BY DEF QuietInv
<1>2. CASE \E q \in Proc : Start(q) \/ Moves(q)
  BY <1>1, <1>2, QuietStart, QuietMoves, OthersDisturb
<1>3. CASE Tick
  BY <1>1, <1>3, QuietTick
<1>4. CASE \E d \in Device : World(d)
  BY <1>4, WorldDisturbs
<1> QED
  BY <1>2, <1>3, <1>4 DEF Next, Moves

\* The one device in the port, when it is the only one there.
LEMMA OnePlugged ==
  ASSUME IsFiniteSet(Device), IInv, Cardinality(plugged) <= 1, plugged # {}
  PROVE  \E d \in Device : plugged = {d} /\ (CHOOSE e \in plugged : TRUE) = d
<1>1. plugged \subseteq Device /\ IsFiniteSet(plugged)
  BY FS_Subset DEF IInv, TypeOK, HostTypeOK
<1>2. PICK d \in plugged : TRUE
  OBVIOUS
<1>3. ASSUME NEW e \in plugged, e # d PROVE FALSE
  <2>1. Cardinality({d}) = 1 /\ IsFiniteSet({d})
    BY FS_Singleton
  <2>2. {d} \subseteq plugged /\ {d} # plugged
    BY <1>3
  <2>3. Cardinality({d}) <= Cardinality(plugged) /\ (Cardinality({d}) = Cardinality(plugged) => {d} = plugged)
    BY <1>1, <2>2, FS_Subset
  <2>4. Cardinality(plugged) \in Nat
    BY <1>1, FS_CardinalityType
  <2> QED
    BY <2>1, <2>2, <2>3, <2>4
<1>4. plugged = {d}
  BY <1>2, <1>3
<1> QED
  BY <1>1, <1>4

\* A session that nothing disturbs ends exactly as the reference says, whatever the slots, the
\* PIN counter and the holder of the card are, for any finite number of devices and any retry
\* budget that outlasts the silence a touch leaves behind (hmac.rs:128-131,
\* docs/transport-notes.md:70-80).
THEOREM QuietSessionsEndAsExpected ==
  ASSUME IsFiniteSet(Device), Cooldown <= RetryBudget
  PROVE  Spec => []QuietOutcome
<1>1. IInv /\ QuietInv /\ [Next]_vars => QuietInv'
  <2>1. CASE UNCHANGED vars
    <3>1. UNCHANGED <<plugged, slot, tries, holder, card, cool, pc, req, pin, chosen, clock, conn, outcome, noise>>
      BY <2>1 DEF vars, hostVars, link, answer
    <3>2. \A p \in Proc : /\ Alone(p)' = Alone(p) /\ Active(p)' = Active(p)
                         /\ QuietWithout(p)' = QuietWithout(p)
      BY <3>1 DEF Alone, Active, QuietWithout
    <3>3. \A p \in Proc, d \in Device : QuietWith(p, d)' = QuietWith(p, d)
      BY <3>1 DEF QuietWith, OnRoute, HasCard, HasPin
    <3>4. \A p \in Proc : QuietEnd(p) => QuietEnd(p)'
      <4>1. \A p \in Proc, d \in Device : QuietOutcomeOn(p, d)' = QuietOutcomeOn(p, d)
        BY <3>1, SameReference
      <4> QED
        BY <3>1, <4>1 DEF QuietEnd
    <3> QED
      BY <3>1, <3>2, <3>3, <3>4 DEF QuietInv, QuietOK
  <2> QED
    BY <2>1, QuietStep
<1>2. IInv /\ QuietInv => QuietOutcome
  <2> SUFFICES ASSUME IInv, QuietInv, NEW p \in Proc,
                      pc[p] = "done", noise[p] = "quiet", outcome[p] # "interrupted",
                      req[p].transport # "invalid", Cardinality(plugged) <= 1
               PROVE  outcome[p] \in
                        IF plugged = {}
                        THEN {IF req[p].transport = "scdaemon" THEN "Scd" ELSE "DeviceNotFound"}
                        ELSE QuietOutcomeOn(p, CHOOSE d \in plugged : TRUE)
    BY DEF QuietOutcome
  <2>1. /\ plugged = {} => outcome[p] = IF req[p].transport = "scdaemon" THEN "Scd" ELSE "DeviceNotFound"
        /\ \A d \in Device : plugged = {d} => outcome[p] \in QuietOutcomeOn(p, d)
    BY DEF QuietInv, QuietOK, QuietEnd
  <2>2. CASE plugged = {}
    BY <2>1, <2>2
  <2>3. CASE plugged # {}
    BY <2>1, <2>3, OnePlugged
  <2> QED
    BY <2>2, <2>3
<1> QED
  BY Invariance, InitQuiet, <1>1, <1>2, PTL DEF Spec
=============================================================================
