----------------------------- MODULE IkmService -----------------------------
(***************************************************************************)
(* What a caller may rely on when it asks a YubiKey for input key          *)
(* material, whichever transport carries the request and whatever else     *)
(* uses the devices meanwhile.  A request offers its PIN to at most one    *)
(* card.  A refused PIN ends the request, and the answer reports it: no    *)
(* attempt is ever lost silently.  Key material is only returned from the  *)
(* card that accepted this request's own PIN, and its PIV half is exactly  *)
(* the agreement of that card's key with that card's certificate.          *)
(***************************************************************************)
EXTENDS Integers

CONSTANTS Device, Proc, None, MaxTries, Kind

VARIABLES
  slot,      \* [key, cert, slot2] of each device
  tries,     \* PIN attempts left on each device
  busy,      \* requests being served
  accepted,  \* the device that accepted the request's PIN
  outcome,   \* how the last request ended
  ikm        \* the key material it returned

vars == <<slot, tries, busy, accepted, outcome, ikm>>

Refusals == {"WrongPin", "PinLocked"}
Errors == Kind \ (Refusals \cup {"ok", "none"})

Init ==
  /\ tries = [d \in Device |-> MaxTries]
  /\ busy = [p \in Proc |-> FALSE]
  /\ accepted = [p \in Proc |-> None]
  /\ outcome = [p \in Proc |-> "none"]
  /\ ikm = [p \in Proc |-> None]

\* A new request forgets everything of the one before it.
Begin(p) ==
  /\ ~busy[p]
  /\ \/ busy' = [busy EXCEPT ![p] = TRUE] /\ outcome' = [outcome EXCEPT ![p] = "none"]
     \/ \E e \in Errors : busy' = busy /\ outcome' = [outcome EXCEPT ![p] = e]
  /\ accepted' = [accepted EXCEPT ![p] = None]
  /\ ikm' = [ikm EXCEPT ![p] = None]
  /\ UNCHANGED <<slot, tries>>

Accept(p, d) ==
  /\ busy[p]
  /\ accepted[p] = None
  /\ tries[d] > 0
  /\ tries' = [tries EXCEPT ![d] = MaxTries]
  /\ accepted' = [accepted EXCEPT ![p] = d]
  /\ UNCHANGED <<slot, busy, outcome, ikm>>

Finish(p, kind) ==
  /\ busy[p]
  /\ busy' = [busy EXCEPT ![p] = FALSE]
  /\ outcome' = [outcome EXCEPT ![p] = kind]
  /\ UNCHANGED <<slot, accepted>>

Refuse(p, d) ==
  /\ accepted[p] = None
  /\ IF tries[d] > 0
     THEN tries' = [tries EXCEPT ![d] = @ - 1] /\ Finish(p, "WrongPin")
     ELSE tries' = tries /\ Finish(p, "PinLocked")
  /\ ikm' = ikm

Answer(p) ==
  /\ accepted[p] \in Device
  /\ Finish(p, "ok")
  /\ \E h \in {None} \cup {slot[e].slot2 : e \in Device} :
       ikm' = [ikm EXCEPT ![p] =
                 [ecdh |-> {slot[accepted[p]].key, slot[accepted[p]].cert}, hmac |-> h]]
  /\ tries' = tries

Fail(p) ==
  /\ \E e \in Errors : Finish(p, e)
  /\ UNCHANGED <<tries, ikm>>

Next ==
  \E p \in Proc :
    \/ Begin(p) \/ Answer(p) \/ Fail(p)
    \/ \E d \in Device : Accept(p, d) \/ Refuse(p, d)

Spec == Init /\ [][Next]_vars
=============================================================================
