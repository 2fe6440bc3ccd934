------------------------------ MODULE MCOtpHid ------------------------------
(* Small instances of OtpHid for TLC. *)
EXTENDS OtpHid, TLC

CONSTANTS p1, p2, s1, s2

\* Nothing is known of the applet; it keeps what it can.
AnyQuirk == [clears : BOOLEAN, drops : BOOLEAN, locked : BOOLEAN]
Keeps == [clears : {FALSE}, drops : {FALSE}, locked : {FALSE}]

\* Processes and secrets differ in nothing but their names.
Names == Permutations({p1, p2}) \cup Permutations({s1, s2})

\* Calls and nobody else: the node stays, so no ioctl fails, and no touch is asked for.
CallsOnly ==
  \/ Consume
  \/ \E p \in Proc :
       \/ Begin(p) \/ Find(p) \/ WaitReady(p) \/ WaitSend(p) \/ SetReport(p) \/ Confirm(p)
       \/ ReadFirst(p) \/ TimesOut(p) \/ ReadRest(p) \/ Reset(p) \/ Settle(p)
CallsSpec == Init /\ [][CallsOnly]_vars
=============================================================================
