------------------------------- MODULE MCWire -------------------------------
(***************************************************************************)
(* The two wire protocols under a session, feature reports to the OTP      *)
(* applet (OtpHid) and Assuan lines to scdaemon (ScdWire).  They share     *)
(* nothing, so a behaviour is of the one that `lane' names and the other   *)
(* stands still.                                                           *)
(*                                                                         *)
(* The answers of the card hold what could be mistaken: a percent sign     *)
(* before digits, CR, LF, and 61 where a status would stand.               *)
(***************************************************************************)
EXTENDS OtpHid, ScdWire

CONSTANTS p1, s1, s2

\* Nothing is known of how the applet treats leftovers; a locked slot 2 refuses writes,
\* which one kind of applet is enough to show.
AnyQuirk ==
  [clears : BOOLEAN, drops : BOOLEAN, locked : {FALSE}]
    \cup {[clears |-> TRUE, drops |-> FALSE, locked |-> TRUE]}

\* Lengths in the short form, in one more byte, and in two.
Tlv(tag, form, value) ==
  <<tag>> \o (CASE form = 0 -> <<Len(value)>>
                [] form = 1 -> <<129, Len(value)>>
                [] form = 2 -> <<130, 0, Len(value)>>) \o value

Forms == 0 .. 2
Certs == {<<>>, <<97, 2>>, <<37, 50, 10>>}
Object(f, g, before, c) ==
  [data |-> Tlv(83, f, before \o Tlv(112, g, c)), sw |-> <<144, 0>>, cert |-> <<c>>]
Whole == {Object(f, 0, <<>>, c) : f \in Forms, c \in Certs}
         \cup {Object(0, g, <<>>, c) : g \in Forms, c \in Certs}
         \cup {Object(0, 0, Tlv(113, 0, <<112>>), c) : c \in Certs}
Cut == {[data |-> SubSeq(Tlv(83, f, Tlv(112, 0, <<37, 65>>)), 1, n), sw |-> <<144, 0>>, cert |-> <<>>] :
          f \in Forms, n \in {2, 4, 5}}
Refused == {[data |-> <<>>, sw |-> sw, cert |-> <<>>] :
              sw \in {<<99, 194>>, <<105, 131>>, <<106, 130>>}}
Answers == Whole \cup Cut \cup Refused
-----------------------------------------------------------------------------
VARIABLE lane

MCInit ==
  /\ Init /\ ScdInit
  /\ lane \in {"hid", "scd"}
  /\ lane = "scd" => slot = None /\ quirk = CHOOSE q \in AnyQuirk : TRUE

HidStep(A) == lane = "hid" /\ A /\ UNCHANGED <<lane, scdVars>>
ScdStep(A) == lane = "scd" /\ A /\ UNCHANGED <<lane, vars>>

\* Next of the one or of the other, action by action.
MCNext ==
  \/ HidStep(Consume) \/ HidStep(Touch) \/ HidStep(ForeignCommand) \/ HidStep(Unplug)
  \/ HidStep(Plug)
  \/ \E p \in Proc :
       \/ HidStep(Find(p)) \/ HidStep(WaitReady(p)) \/ HidStep(WaitSend(p))
       \/ HidStep(SetReport(p)) \/ HidStep(Confirm(p)) \/ HidStep(ReadFirst(p))
       \/ HidStep(TimesOut(p)) \/ HidStep(ReadRest(p)) \/ HidStep(Reset(p))
       \/ HidStep(Settle(p)) \/ HidStep(IoFails(p)) \/ HidStep(Begin(p))
       \/ HidStep(Interrupt(p))
  \/ ScdStep(Greet) \/ ScdStep(ExecuteCommand) \/ ScdStep(SendData)
  \/ ScdStep(SendEnd) \/ ScdStep(SendError) \/ ScdStep(SendNoise)
  \/ ScdStep(Inquire) \/ ScdStep(OtherApdu) \/ ScdStep(Greeting)
  \/ ScdStep(ReadLine)

all == <<lane, vars, scdVars>>

\* The fairness of both modules.
MCSpec ==
  /\ MCInit /\ [][MCNext]_all
  /\ WF_all(HidStep(Consume)) /\ \A p \in Proc : WF_all(HidStep(Step(p)))
  /\ WF_all(ScdStep(Agent)) /\ WF_all(ScdStep(Client))

\* Every call on either wire ends; with the agent, unless it asks something back.
EveryCallEnds == CallEnds /\ (lane = "scd" => EndsUnlessAsked)

\* Types of both; the rest of the properties are stated with each.
Types == TypeOK /\ ScdTypeOK
=============================================================================
