------------------------------- MODULE OtpHid -------------------------------
(***************************************************************************)
(* The feature reports of crates/ykdf-yubikey/src/hmac.rs: a challenge to  *)
(* OTP slot 2 and the write of its configuration, sent by any number of    *)
(* processes to one hidraw node that nothing locks, and the OTP applet     *)
(* behind it.  One action is one ioctl, so that reports of two calls may   *)
(* interleave anywhere and a call may be cut off between any two of them.  *)
(*                                                                         *)
(* The applet is external.  It keeps the last report until it has consumed *)
(* it (flag 0x80), collects reports in a buffer, executes the buffer when  *)
(* the last one arrives if the frame's CRC is right, and hands out a       *)
(* response seven bytes per read (flag 0x40), over and over, whoever       *)
(* reads.  What it does with what an abandoned call left behind is open.   *)
(*                                                                         *)
(* A CRC is a symbol for exactly the data it covers.                       *)
(***************************************************************************)
EXTENDS Integers, Sequences, FiniteSets

CONSTANTS
  Proc,         \* processes
  Secret,       \* HMAC-SHA1 secrets
  None,         \* absence
  Foreign,      \* the response to another program's challenge
  LastReport,   \* index of the last report of a frame
  RetryBudget,  \* how often a failed challenge is tried again
  Quirks,       \* what the applet may do with leftovers: does the first report of a
                \* frame clear the buffer? does any report drop a pending response?
                \* is slot 2 protected by an access code, so that writes are refused?
  Disturbances  \* which of these happen: "unplug", "foreign", "interrupt", "touch"

ASSUME OtpAssumption ==
  /\ LastReport \in 3 .. 14
  /\ RetryBudget \in Nat
  /\ Quirks \subseteq [clears : BOOLEAN, drops : BOOLEAN, locked : BOOLEAN]
  /\ {None, Foreign} \cap Secret = {} /\ None # Foreign

ReportData == 7       \* payload bytes of a report
ReportSize == 8       \* with its flags
ResponseSize == 36    \* the buffer the response is read into
ResponseReports == 4  \* reports that carry the 20 bytes of the HMAC and its CRC
ResetReport == 15     \* the index in the report that ends a reading

VARIABLES
  pc,       \* where each call is
  job,      \* what it is: "challenge", or the secret it writes
  sent,     \* the next report of its frame
  got,      \* the reports it read of a response
  rounds,   \* retries it has left
  open,     \* is its file descriptor still good?
  result,   \* what its last call returned
  slot,     \* the secret in slot 2
  buf,      \* the reports the applet has collected
  inbox,    \* the report it has not consumed
  resp,     \* the response it hands out, and
  pos,      \* the report of it that the next read returns
  stage,    \* is it waiting for a touch?
  plugged,  \* is it in a port?
  quirk,    \* what it does with leftovers
  foreign, asked, answers, quiet   \* history: see HmacExchange and Alone

call == <<job, rounds, result>>
applet == <<slot, buf, inbox, resp, pos, stage, plugged, quirk>>
history == <<foreign, asked, answers, quiet>>
vars == <<pc, call, sent, got, open, applet, history>>

Reports == 0 .. LastReport
Zero == [i \in Reports |-> None]   \* a report of seven zero bytes is None
Answer == Secret \cup {Foreign}

Init ==
  /\ pc = [p \in Proc |-> "idle"]
  /\ job = [p \in Proc |-> "challenge"]
  /\ sent = [p \in Proc |-> 0]
  /\ got = [p \in Proc |-> <<>>]
  /\ rounds = [p \in Proc |-> 0]
  /\ open = [p \in Proc |-> FALSE]
  /\ result = [p \in Proc |-> "none"]
  /\ slot \in Secret \cup {None}
  /\ buf = Zero
  /\ inbox = None
  /\ resp = None
  /\ pos = 0
  /\ stage = "idle"
  /\ plugged = TRUE
  /\ quirk \in Quirks
  /\ foreign = {}
  /\ asked = {}
  /\ answers = [p \in Proc |-> {}]
  /\ quiet = [p \in Proc |-> FALSE]

Running == {p \in Proc : pc[p] # "idle"}
Goto(p, place) == pc' = [pc EXCEPT ![p] = place]
-----------------------------------------------------------------------------
(* Frames. *)

Crc(data) == [i \in 0 .. LastReport - 1 |-> data[i]]

\* frame_from_payload: the last report carries the command and the payload's CRC.
FrameFromPayload(payload, command) ==
  [payload EXCEPT ![LastReport] = <<command, Crc(payload)>>]

\* The challenge fits the first report.  Of a configuration, the first is zero and the
\* secret spans the next two.
FrameOf(j) ==
  IF j = "challenge"
  THEN FrameFromPayload([Zero EXCEPT ![0] = <<"challenge", "ykdf-v1">>], "hmac")
  ELSE FrameFromPayload([Zero EXCEPT ![1] = <<j, "tail">>, ![2] = <<j, "head">>], "config")

\* Absence and the results of a call are told from what the wire carries.
ASSUME NamesAssumption ==
  /\ {"challenge", "none", "written", "failed", "interrupted"} \cap Answer = {}
  /\ \A s \in Secret : None \notin {<<s, "tail">>, <<s, "head">>}
  /\ \A j \in {"challenge"} \cup Secret, i \in Reports :
       None # [index |-> i, data |-> FrameOf(j)[i]]
  /\ None # [index |-> ResetReport, data |-> None]

\* Mutant: every report of zeros is skipped.
SkipsAllZeros(frame) == {i \in Reports : frame[i] # None}

\* write_frame skips reports of zeros between the first and the last.
Transmitted(frame) == {i \in Reports : i \in {0, LastReport} \/ frame[i] # None}

NextReport(frame, from) ==
  CHOOSE i \in Transmitted(frame) :
    i >= from /\ \A k \in Transmitted(frame) : k >= from => i <= k
-----------------------------------------------------------------------------
(* The applet. *)

Busy == inbox # None
Pending == ~Busy /\ stage = "idle" /\ resp # None

\* HIDIOCGFEATURE: whoever reads while a response is pending gets the next report of it.
Report == <<resp, pos>>
Read == pos' = IF Pending THEN (pos + 1) % ResponseReports ELSE pos

\* HIDIOCSFEATURE: a report the applet has not consumed is lost.
Set(index, data) ==
  /\ inbox' = [index |-> index, data |-> data]
  /\ resp' = IF quirk.drops /\ index # ResetReport THEN None ELSE resp
  /\ pos' = IF quirk.drops /\ index # ResetReport THEN 0 ELSE pos

StoredSecret(b) == IF b[1][1] = b[2][1] THEN b[1][1] ELSE "mixed"

\* The last report has arrived in buffer b: the command runs if the frame's CRC is right.
Execute(b) ==
  /\ buf' = Zero
  /\ pos' = 0
  /\ IF b[LastReport][2] # Crc(b)
     THEN resp' = None /\ stage' = "idle" /\ UNCHANGED <<slot, answers, quiet>>
     ELSE IF b[LastReport][1] = "hmac"
     THEN /\ \/ resp' = slot /\ stage' = "idle" /\ quiet' = quiet
             \/ resp' = None /\ stage' = "touch"
                /\ slot # None /\ "touch" \in Disturbances
                /\ quiet' = [p \in Proc |-> FALSE]
          /\ UNCHANGED <<slot, answers>>
     ELSE /\ resp' = None /\ stage' = "idle"
          /\ slot' = IF quirk.locked THEN slot ELSE StoredSecret(b)
          /\ answers' = [p \in Proc |-> IF p \in Running /\ ~quirk.locked
                                        THEN answers[p] \cup {slot'} ELSE answers[p]]
          /\ quiet' = quiet

Consume ==
  /\ Busy
  /\ inbox' = None
  /\ IF inbox.index = ResetReport
     THEN /\ buf' = Zero /\ resp' = None /\ pos' = 0 /\ stage' = "idle"
          /\ UNCHANGED <<slot, answers, quiet>>
     ELSE LET b == [IF inbox.index = 0 /\ quirk.clears THEN Zero ELSE buf
                    EXCEPT ![inbox.index] = inbox.data] IN
          IF inbox.index = LastReport
          THEN Execute(b)
          ELSE buf' = b /\ UNCHANGED <<slot, resp, pos, stage, answers, quiet>>
  /\ UNCHANGED <<pc, call, sent, got, open, plugged, quirk, foreign, asked>>

\* The user touches the device, or does not in time.
Touch ==
  /\ stage = "touch"
  /\ stage' = "idle"
  /\ pos' = 0
  /\ resp' \in {slot, None}
  /\ UNCHANGED <<pc, call, sent, got, open, slot, buf, inbox, plugged, quirk, history>>

\* Another program challenges slot 2 with a string of its own.
ForeignCommand ==
  /\ "foreign" \in Disturbances
  /\ plugged /\ ~Busy /\ slot # None
  /\ buf' = Zero /\ resp' = Foreign /\ pos' = 0 /\ stage' = "idle"
  /\ answers' = [p \in Proc |-> IF p \in Running THEN answers[p] \cup {Foreign}
                                ELSE answers[p]]
  /\ quiet' = [p \in Proc |-> FALSE]
  /\ foreign' = {Foreign}
  /\ UNCHANGED <<pc, call, sent, got, open, slot, inbox, plugged, quirk, asked>>

\* Its state but for the slot goes with the power, and open descriptors with the node.
Unplug ==
  /\ "unplug" \in Disturbances
  /\ plugged
  /\ plugged' = FALSE
  /\ buf' = Zero /\ inbox' = None /\ resp' = None /\ pos' = 0 /\ stage' = "idle"
  /\ open' = [p \in Proc |-> FALSE]
  /\ quiet' = [p \in Proc |-> FALSE]
  /\ UNCHANGED <<pc, call, sent, got, slot, quirk, foreign, asked, answers>>

Plug ==
  /\ ~plugged
  /\ plugged' = TRUE
  /\ UNCHANGED <<pc, call, sent, got, open, slot, buf, inbox, resp, pos, stage, quirk,
                 history>>
-----------------------------------------------------------------------------
(* A call. *)

Begin(p) ==
  /\ pc[p] = "idle"
  /\ \E j \in {"challenge"} \cup Secret :
       /\ job' = [job EXCEPT ![p] = j]
       /\ asked' = asked \cup ({j} \cap Secret)
       /\ rounds' = [rounds EXCEPT ![p] = IF j = "challenge" THEN RetryBudget ELSE 0]
  /\ result' = [result EXCEPT ![p] = "none"]
  /\ answers' = [answers EXCEPT ![p] = ({slot} \ {None}) \cup foreign]
  /\ foreign' = foreign
  /\ quiet' = [q \in Proc |-> q = p /\ Running = {} /\ plugged /\ stage = "idle"]
  /\ Goto(p, "find")
  /\ UNCHANGED <<sent, got, open, applet>>

\* The call ends and its file is closed.
Finish(p, r) ==
  /\ Goto(p, "idle")
  /\ result' = [result EXCEPT ![p] = r]
  /\ open' = [open EXCEPT ![p] = FALSE]
  /\ got' = [got EXCEPT ![p] = <<>>]
  /\ sent' = [sent EXCEPT ![p] = 0]
  /\ answers' = [answers EXCEPT ![p] = {}]
  /\ UNCHANGED <<job, foreign, asked, quiet>>

\* Mutant: the deadline is not looked at.
FailsNever(p) ==
  /\ Goto(p, "find")
  /\ open' = [open EXCEPT ![p] = FALSE]
  /\ got' = [got EXCEPT ![p] = <<>>]
  /\ UNCHANGED <<call, sent, history>>

\* An attempt fails: a challenge is tried again from the start until its time is over, a
\* write is not.
Fails(p) ==
  \/ /\ rounds[p] > 0
     /\ rounds' = [rounds EXCEPT ![p] = @ - 1]
     /\ Goto(p, "find")
     /\ open' = [open EXCEPT ![p] = FALSE]
     /\ got' = [got EXCEPT ![p] = <<>>]
     /\ sent' = [sent EXCEPT ![p] = 0]
     /\ UNCHANGED <<job, result, history>>
  \/ rounds[p] = 0 /\ Finish(p, "failed") /\ rounds' = rounds

Find(p) ==
  /\ pc[p] = "find"
  /\ IF plugged
     THEN /\ open' = [open EXCEPT ![p] = TRUE]
          /\ Goto(p, "ready")
          /\ UNCHANGED <<call, sent, got, history>>
     ELSE Fails(p)
  /\ UNCHANGED applet

\* Every ioctl fails once the node is gone.
IoFails(p) ==
  /\ pc[p] \notin {"idle", "find"}
  /\ ~open[p]
  /\ Fails(p)
  /\ UNCHANGED applet

\* wait_flags(!SLOT_WRITE) holds after some reads, the last of which may take a report of
\* a pending response.
Poll(p) ==
  /\ open[p]
  /\ ~Busy
  /\ Read
  /\ UNCHANGED <<slot, buf, inbox, resp, stage, plugged, quirk>>

WaitReady(p) ==
  /\ pc[p] = "ready" /\ Goto(p, "send")
  /\ Poll(p)
  /\ sent' = [sent EXCEPT ![p] = 0]
  /\ UNCHANGED <<call, got, open, history>>

WaitSend(p) ==
  /\ pc[p] = "send" /\ Goto(p, "set")
  /\ Poll(p)
  /\ UNCHANGED <<call, sent, got, open, history>>

SetReport(p) ==
  LET frame == FrameOf(job[p])
      i == NextReport(frame, sent[p]) IN
  /\ pc[p] = "set"
  /\ open[p]
  /\ Set(i, frame[i])
  /\ IF i = LastReport
     THEN /\ Goto(p, IF job[p] = "challenge" THEN "first" ELSE "confirm")
          /\ sent' = [sent EXCEPT ![p] = 0]
     ELSE Goto(p, "send") /\ sent' = [sent EXCEPT ![p] = i + 1]
  /\ UNCHANGED <<call, got, open, slot, buf, stage, plugged, quirk, history>>

\* program_slot2_hmac is done when the applet has consumed the frame.
Confirm(p) ==
  /\ pc[p] = "confirm"
  /\ Poll(p)
  /\ Finish(p, "written")
  /\ rounds' = rounds

\* wait_flags(RESP_PENDING) returns the first report of the response.
ReadFirst(p) ==
  /\ pc[p] = "first" /\ Goto(p, "rest")
  /\ open[p]
  /\ Pending
  /\ got' = [got EXCEPT ![p] = <<Report>>]
  /\ Read
  /\ UNCHANGED <<call, sent, open, slot, buf, inbox, resp, stage, plugged, quirk,
                 history>>

\* WAIT_LIMIT polls without the flag that is waited for.  The applet consumes a report in
\* that time unless other processes keep it busy.
TimesOut(p) ==
  /\ open[p]
  /\ \/ pc[p] = "first" /\ ~Busy /\ ~Pending
     \/ pc[p] \in {"ready", "send", "first", "confirm", "settle"} /\ Busy /\ Running # {p}
  /\ Fails(p)
  /\ UNCHANGED applet

\* Mutant: the room for the flags byte is forgotten.
FitsData(reports) == ReportData * reports <= ResponseSize

\* Is there room for one report more?
Fits(reports) == ReportData * reports + ReportSize <= ResponseSize

\* The report just read ends the response: no response is pending, or it wrapped around.
EndsResponse(p) == ~Pending \/ pos = 0

ReadRest(p) ==
  /\ pc[p] = "rest"
  /\ open[p]
  /\ IF Fits(Len(got[p]))
     THEN /\ got' = [got EXCEPT ![p] =
                       Append(@, IF Pending THEN Report ELSE <<None, 0>>)]
          /\ Read
          /\ Goto(p, IF EndsResponse(p) THEN "reset" ELSE "rest")
     ELSE Goto(p, "reset") /\ UNCHANGED <<got, pos>>
  /\ UNCHANGED <<call, sent, open, slot, buf, inbox, resp, stage, plugged, quirk,
                 history>>

\* write_reset: sent without waiting, so a report of another process may be lost to it.
Reset(p) ==
  /\ pc[p] = "reset" /\ Goto(p, "settle")
  /\ open[p]
  /\ Set(ResetReport, None)
  /\ UNCHANGED <<call, sent, got, open, slot, buf, stage, plugged, quirk, history>>

\* Mutant: the CRC covers the first report only.
CrcOfFirst(reports) == reports[1][1] \in Answer /\ reports[1][2] = 0

\* The CRC over the first 22 bytes, which four reports carry.
CrcOk(reports) ==
  /\ Len(reports) >= ResponseReports
  /\ reports[1][1] \in Answer
  /\ \A i \in 1 .. ResponseReports : reports[i] = <<reports[1][1], i - 1>>

\* What a caller would take the reports for.
HmacOf(reports) ==
  IF \A i \in 1 .. Len(reports) : i <= ResponseReports => reports[i] = <<reports[1][1], i - 1>>
  THEN reports[1][1] ELSE "mixed"

\* The reset is consumed; then the CRC is looked at.
Settle(p) ==
  /\ pc[p] = "settle"
  /\ Poll(p)
  /\ IF CrcOk(got[p]) THEN Finish(p, HmacOf(got[p])) /\ rounds' = rounds ELSE Fails(p)

\* Ctrl-C: what was sent stays with the applet.
Interrupt(p) ==
  /\ "interrupt" \in Disturbances
  /\ pc[p] # "idle"
  /\ Finish(p, "interrupted")
  /\ UNCHANGED <<rounds, applet>>
-----------------------------------------------------------------------------
Step(p) ==
  \/ Find(p) \/ IoFails(p) \/ WaitReady(p) \/ WaitSend(p) \/ SetReport(p)
  \/ Confirm(p) \/ ReadFirst(p) \/ TimesOut(p) \/ ReadRest(p)
  \/ Reset(p) \/ Settle(p)

World == Touch \/ ForeignCommand \/ Unplug \/ Plug

Next == Consume \/ World \/ \E p \in Proc : Begin(p) \/ Step(p) \/ Interrupt(p)

Spec == Init /\ [][Next]_vars

\* A process keeps being scheduled and the applet consumes what it is sent.
FairSpec == Spec /\ WF_vars(Consume) /\ \A p \in Proc : WF_vars(Step(p))
-----------------------------------------------------------------------------
TypeOK ==
  /\ pc \in [Proc -> {"idle", "find", "ready", "send", "set", "confirm", "first", "rest",
                      "reset", "settle"}]
  /\ job \in [Proc -> {"challenge"} \cup Secret]
  /\ sent \in [Proc -> Reports]
  /\ rounds \in [Proc -> 0 .. RetryBudget]
  /\ open \in [Proc -> BOOLEAN]
  /\ result \in [Proc -> Answer \cup {"none", "written", "failed", "interrupted"}]
  /\ slot \in Secret \cup {None}
  /\ resp \in Answer \cup {None}
  /\ pos \in 0 .. ResponseReports - 1
  /\ stage \in {"idle", "touch"}
  /\ plugged \in BOOLEAN
  /\ quiet \in [Proc -> BOOLEAN]

\* The response buffer is never written past its end, however long a response other
\* readers and writers make it seem (hmac.rs:307-329: 36 bytes, steps of 7, reports of 8).
BufferFits ==
  \A p \in Proc :
    got[p] # <<>> => ReportData * (Len(got[p]) - 1) + ReportSize <= ResponseSize

\* What the calls promise whatever is left behind, lost or interleaved on the wire: slot 2
\* holds a secret that was asked for, whole, and a response that is accepted is the
\* response of one secret it held during the call (hmac.rs:154-184 and 194-216).
Exchange == INSTANCE HmacExchange WITH running <- Running
ExchangeSpec == Exchange!Spec

\* A call that nobody disturbs does what was asked of it, whatever calls that were cut off
\* earlier left in the applet: a partial frame, an unread response, a half-read one.
\* A challenge succeeds on a configured slot; the retry is what recovers from a partial
\* frame (hmac.rs:135-152).  A write ends with its secret in the slot although it is not
\* retried: its reports replace all that such a frame left, the report of zeros at the
\* front included (hmac.rs:285-304).
QuietCallSucceeds ==
  \A p \in Proc :
    /\ quiet[p] /\ job[p] = "challenge" /\ slot # None /\ result[p] \in Answer \cup {"failed"}
         => result[p] = slot
    /\ quiet[p] /\ ~quirk.locked /\ job[p] \in Secret /\ result[p] = "written"
         => slot = job[p]

\* Every call ends, whatever the applet and other processes do (hmac.rs:50 `It returns
\* promptly on failure rather than blocking`).
CallEnds == \A p \in Proc : pc[p] # "idle" ~> pc[p] = "idle"

\* hmac.rs:76-77 promises an error when the write of the slot fails.
WrittenMeansWritten ==
  [][\A p \in Proc : pc'[p] = "idle" /\ pc[p] # "idle" /\ result'[p] = "written"
                     => job[p] \in answers[p]]_vars
=============================================================================
