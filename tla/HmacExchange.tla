---------------------------- MODULE HmacExchange ----------------------------
(***************************************************************************)
(* What callers of crates/ykdf-yubikey/src/hmac.rs may rely on, however    *)
(* their reports interleave on the wire.  Slot 2 only ever holds a secret  *)
(* that some call asked for, whole.  A challenge that succeeds returns the *)
(* response of a secret that slot 2 held while the call ran, or, when some *)
(* other program ran a command of its own meanwhile, that program's; it    *)
(* never returns a mixture of two responses.                               *)
(***************************************************************************)
EXTENDS FiniteSets

CONSTANTS Proc, Secret, None, Foreign

VARIABLES
  slot,     \* the secret in OTP slot 2
  foreign,  \* {Foreign} once another program used it, whose response may be left over
  asked,    \* the secrets callers asked to write
  running,  \* calls in progress
  answers,  \* what a challenge begun when the call began could be answered
  result    \* what the last call returned

vars == <<slot, foreign, asked, running, answers, result>>

Init ==
  /\ slot \in Secret \cup {None}
  /\ foreign = {}
  /\ asked = {}
  /\ running = {}
  /\ answers = [p \in Proc |-> {}]
  /\ result = [p \in Proc |-> "none"]

Begin(p) ==
  /\ p \notin running
  /\ running' = running \cup {p}
  /\ answers' = [answers EXCEPT ![p] = ({slot} \ {None}) \cup foreign]
  /\ result' = [result EXCEPT ![p] = "none"]
  /\ \/ asked' = asked
     \/ \E s \in Secret : asked' = asked \cup {s}
  /\ UNCHANGED <<slot, foreign>>

Store(s) ==
  /\ s \in asked
  /\ slot' = s
  /\ answers' = [p \in Proc |-> IF p \in running THEN answers[p] \cup {s} ELSE answers[p]]
  /\ UNCHANGED <<foreign, asked, running, result>>

\* Another program's own challenge.
Interfere ==
  /\ answers' = [p \in Proc |-> IF p \in running THEN answers[p] \cup {Foreign}
                                ELSE answers[p]]
  /\ foreign' = {Foreign}
  /\ UNCHANGED <<slot, asked, running, result>>

Return(p) ==
  /\ p \in running
  /\ running' = running \ {p}
  /\ \E r \in answers[p] \cup {"written", "failed", "interrupted"} : result' = [result EXCEPT ![p] = r]
  /\ answers' = [answers EXCEPT ![p] = {}]
  /\ UNCHANGED <<slot, foreign, asked>>

Next ==
  \/ Interfere
  \/ \E s \in Secret : Store(s)
  \/ \E p \in Proc : Begin(p) \/ Return(p)

Spec == Init /\ [][Next]_vars
=============================================================================
