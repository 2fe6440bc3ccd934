---------------------------- MODULE OtpHidProofs ----------------------------
(***************************************************************************)
(* Proofs about OtpHid, for every number of processes, every set of        *)
(* secrets, every length of a frame and of the retry loop, whatever the    *)
(* applet does with leftovers and whatever disturbs it.                    *)
(***************************************************************************)
EXTENDS OtpHid, SequenceTheorems, WellFoundedInduction, TLAPS

Job == {"challenge"} \cup Secret

\* What was sent is a report of the frame of some call: of a challenge, or of the write of
\* a secret that was asked for.
WireInv ==
  /\ \A p \in Proc : job[p] \in {"challenge"} \cup asked
  /\ inbox # None /\ inbox.index # ResetReport =>
       \E j \in {"challenge"} \cup asked : inbox.data = FrameOf(j)[inbox.index]
  /\ buf = [i \in Reports |-> buf[i]]

\* What a call may be answered holds all that the applet might answer it with.
AnswersInv ==
  /\ answers \in [Proc -> SUBSET Answer]
  /\ foreign \subseteq {Foreign}
  /\ asked \subseteq Secret
  /\ resp \in {None, slot} \cup foreign
  /\ \A p \in Running : ({slot} \ {None}) \cup foreign \subseteq answers[p]

\* What a call has read came from such answers.
ReadInv ==
  /\ got \in [Proc -> Seq((Answer \cup {None}) \X (0 .. ResponseReports - 1))]
  /\ \A p \in Proc : pc[p] = "idle" => got[p] = <<>>
  /\ \A p \in Proc : \A i \in 1 .. Len(got[p]) : got[p][i][1] \in answers[p] \cup {None}

IInv == TypeOK /\ WireInv /\ AnswersInv /\ ReadInv /\ BufferFits
-----------------------------------------------------------------------------
(* Frames *)

\* The last report of a frame holds its command and the CRC of the others.
LEMMA FrameEnd ==
  ASSUME NEW j
  PROVE  FrameOf(j)[LastReport] =
           <<IF j = "challenge" THEN "hmac" ELSE "config", Crc(FrameOf(j))>>
<1>1. {0, 1, 2, LastReport} \cup (0 .. LastReport - 1) \subseteq Reports /\ LastReport \in Nat
  BY OtpAssumption DEF OtpAssumption, Reports
<1>2. ASSUME NEW payload, NEW command, payload = [i \in Reports |-> payload[i]]
      PROVE  FrameFromPayload(payload, command)[LastReport]
               = <<command, Crc(FrameFromPayload(payload, command))>>
  <2> DEFINE f == FrameFromPayload(payload, command)
  <2>1. f = [payload EXCEPT ![LastReport] = <<command, Crc(payload)>>]
    BY DEF FrameFromPayload
  <2>2. f[LastReport] = <<command, Crc(payload)>>
    BY <1>1, <1>2, <2>1
  <2>3. \A i \in 0 .. LastReport - 1 : f[i] = payload[i]
    BY <1>1, <1>2, <2>1
  <2> HIDE DEF f
  <2>4. Crc(f) = Crc(payload)
    BY <2>3 DEF Crc
  <2> QED
    BY <2>2, <2>4 DEF f
<1>3. CASE j = "challenge"
  BY <1>1, <1>2, <1>3 DEF FrameOf, Zero
<1>4. CASE j # "challenge"
  BY <1>1, <1>2, <1>4 DEF FrameOf, Zero
<1> QED
  BY <1>3, <1>4

\* The reports of a configuration.
LEMMA ConfigReports ==
  ASSUME NEW j, j # "challenge"
  PROVE  /\ FrameOf(j)[1] = <<j, "tail">> /\ FrameOf(j)[2] = <<j, "head">>
         /\ \A i \in Reports \ {1, 2, LastReport} : FrameOf(j)[i] = None
<1> DEFINE payload == [Zero EXCEPT ![1] = <<j, "tail">>, ![2] = <<j, "head">>]
           end == <<"config", Crc(payload)>>
<1>1. {0, 1, 2, LastReport} \subseteq Reports /\ LastReport > 2
  BY OtpAssumption DEF OtpAssumption, Reports
<1>2. FrameOf(j) = [payload EXCEPT ![LastReport] = end]
  BY DEF FrameOf, FrameFromPayload
<1> HIDE DEF end
<1> QED
  BY <1>1, <1>2 DEF Zero

\* A buffer whose CRC is that of a configuration holds the secret of that configuration,
\* whoever sent the reports.
LEMMA CrcTellsSecret ==
  ASSUME NEW j, j # "challenge", NEW b, Crc(b) = Crc(FrameOf(j))
  PROVE  StoredSecret(b) = j
<1>1. 1 \in 0 .. LastReport - 1 /\ 2 \in 0 .. LastReport - 1
  BY OtpAssumption DEF OtpAssumption
<1>2. b[1] = FrameOf(j)[1] /\ b[2] = FrameOf(j)[2]
  <2> DEFINE f == FrameOf(j)
  <2>1. Crc(b)[1] = Crc(f)[1] /\ Crc(b)[2] = Crc(f)[2]
    OBVIOUS
  <2> HIDE DEF f
  <2> QED
    BY <1>1, <2>1 DEF Crc, f
<1> QED
  BY <1>2, ConfigReports DEF StoredSecret

\* The next report to send is the first that is transmitted from there on.
LEMMA NextReportIs ==
  ASSUME NEW frame, NEW from \in Reports
  PROVE  /\ NextReport(frame, from) \in Transmitted(frame)
         /\ NextReport(frame, from) >= from
         /\ \A k \in Transmitted(frame) : k >= from => NextReport(frame, from) <= k
<1> DEFINE T == {i \in Transmitted(frame) : i >= from}
<1>1. T \subseteq Nat /\ LastReport \in T
  BY OtpAssumption DEF OtpAssumption, Transmitted, Reports
<1> DEFINE less == {ss \in Nat \X Nat : ss[1] < ss[2]}
<1>2. IsWellFoundedOn(less, Nat)
  BY NatLessThanWellFounded DEF OpToRel
<1>3. PICK i \in T : \A k \in T : <<k, i>> \notin less
  BY <1>1, <1>2, WFMin
<1>4. \A k \in T : i <= k
  <2> SUFFICES ASSUME NEW k \in T PROVE ~(k < i)
    BY <1>1
  <2>1. <<k, i>> \in Nat \X Nat
    BY <1>1
  <2> QED
    BY <1>3, <2>1
<1>5. \E n \in Transmitted(frame) : n >= from /\ \A k \in Transmitted(frame) : k >= from => n <= k
  BY <1>4
<1> QED
  BY <1>5 DEF NextReport
-----------------------------------------------------------------------------
(* The invariant holds at first, and no step of a call or of the applet breaks it *)

\* At first the applet has answered nothing and no call runs.
LEMMA InitIInv == Init => IInv
<1> SUFFICES ASSUME Init PROVE IInv
  OBVIOUS
<1> USE OtpAssumption DEF OtpAssumption, Init
<1>1. TypeOK
  BY DEF TypeOK, Reports, Answer, ResponseReports
<1>2. WireInv /\ AnswersInv
  BY DEF WireInv, AnswersInv, Running, Zero
<1>3. ReadInv /\ BufferFits
  BY DEF ReadInv, BufferFits
<1> QED
  BY <1>1, <1>2, <1>3 DEF IInv

\* A read of a report moves the position and nothing else.
LEMMA ReadMoves == ASSUME TypeOK, Read PROVE pos' \in 0 .. ResponseReports - 1
BY DEF TypeOK, Read, ResponseReports

\* What the applet holds stays, but for the position in a response.
AppletCalm == UNCHANGED <<slot, buf, inbox, resp, stage, plugged>> /\ pos' \in 0 .. ResponseReports - 1

\* A poll of the frame status leaves the applet as it is.
LEMMA PollIsCalm == ASSUME TypeOK, NEW p \in Proc, Poll(p) PROVE AppletCalm
BY ReadMoves DEF Poll, AppletCalm

\* The end of a call.
LEMMA FinishKeeps ==
  ASSUME IInv, NEW p \in Proc, NEW r \in Answer \cup {"written", "failed", "interrupted"},
         Finish(p, r), rounds' = rounds, AppletCalm
  PROVE  IInv'
<1> USE DEF IInv, Finish, Goto, AppletCalm
<1>1. TypeOK'
  BY OtpAssumption DEF OtpAssumption, TypeOK, Reports
<1>2. WireInv'
  BY DEF WireInv
<1>3. AnswersInv'
  BY DEF AnswersInv, Running, TypeOK
<1>4. ReadInv' /\ BufferFits'
  BY DEF ReadInv, BufferFits, TypeOK, AnswersInv
<1> QED
  BY <1>1, <1>2, <1>3, <1>4

\* A failed attempt, which is tried again or ends the call.
LEMMA FailsKeeps ==
  ASSUME IInv, NEW p \in Proc, pc[p] # "idle", Fails(p), AppletCalm
  PROVE  IInv'
<1>1. CASE rounds[p] = 0 /\ Finish(p, "failed") /\ rounds' = rounds
  BY <1>1, FinishKeeps
<1>2. CASE ~(rounds[p] = 0 /\ Finish(p, "failed") /\ rounds' = rounds)
  <2>0. /\ rounds[p] > 0 /\ rounds' = [rounds EXCEPT ![p] = @ - 1]
        /\ pc' = [pc EXCEPT ![p] = "find"]
        /\ open' = [open EXCEPT ![p] = FALSE]
        /\ got' = [got EXCEPT ![p] = <<>>]
        /\ sent' = [sent EXCEPT ![p] = 0]
        /\ UNCHANGED <<job, result, history>>
    BY <1>2 DEF Fails, Goto
  <2> USE <2>0 DEF IInv, AppletCalm, history
  <2>1. TypeOK'
    BY OtpAssumption DEF OtpAssumption, TypeOK, Reports
  <2>2. WireInv'
    BY DEF WireInv
  <2>3. AnswersInv'
    BY DEF AnswersInv, Running, TypeOK
  <2>4. ReadInv' /\ BufferFits'
    BY DEF ReadInv, BufferFits, TypeOK, AnswersInv
  <2> QED
    BY <2>1, <2>2, <2>3, <2>4
<1> QED
  BY <1>1, <1>2

\* The steps of a call.
LEMMA CallStep ==
  ASSUME IInv, NEW p \in Proc, Step(p)
  PROVE  IInv'
<1> DEFINE Sane == TypeOK' /\ WireInv' /\ AnswersInv' /\ ReadInv' /\ BufferFits'
<1>0. SUFFICES Sane
  BY DEF IInv
<1> USE DEF IInv
<1>1. CASE pc[p] # "idle" /\ Fails(p) /\ UNCHANGED applet
  <2>1. AppletCalm
    BY <1>1 DEF applet, AppletCalm, TypeOK
  <2> QED
    BY <1>1, <2>1, FailsKeeps
\* Steps that leave the wire, the answers and what was read alone.
<1>2. ASSUME AppletCalm, UNCHANGED <<call, got, history>>, pc[p] # "idle",
             NEW place \in {"find", "ready", "send", "set"}, Goto(p, place),
             sent' \in [Proc -> Reports], open' \in [Proc -> BOOLEAN]
      PROVE  Sane
  <2> USE <1>2 DEF AppletCalm, call, history, Goto
  <2>1. TypeOK'
    BY DEF TypeOK
  <2>2. WireInv' /\ AnswersInv' /\ ReadInv' /\ BufferFits'
    BY DEF WireInv, AnswersInv, ReadInv, BufferFits, Running, TypeOK
  <2> QED
    BY <2>1, <2>2
<1>3. CASE Find(p)
  <2>1. CASE plugged
    <3>1. AppletCalm
      BY <1>3 DEF Find, applet, AppletCalm, TypeOK
    <3>2. pc[p] = "find" /\ Goto(p, "ready") /\ open' \in [Proc -> BOOLEAN]
          /\ sent' \in [Proc -> Reports] /\ UNCHANGED <<call, got, history>>
      BY <1>3, <2>1 DEF Find, TypeOK
    <3> HIDE DEF IInv
    <3> QED
      BY <1>2, <3>1, <3>2
  <2>2. CASE ~plugged
    BY <1>1, <1>3, <2>2 DEF Find
  <2> QED
    BY <2>1, <2>2
<1>4. CASE IoFails(p) \/ TimesOut(p)
  BY <1>1, <1>4 DEF IoFails, TimesOut
<1>5. CASE WaitReady(p) \/ WaitSend(p)
  <2>1. AppletCalm
    BY <1>5, PollIsCalm DEF WaitReady, WaitSend
  <2>2. sent' \in [Proc -> Reports] /\ open' \in [Proc -> BOOLEAN]
    BY <1>5, OtpAssumption DEF OtpAssumption, WaitReady, WaitSend, TypeOK, Reports
  <2> HIDE DEF IInv
  <2> QED
    BY <1>2, <1>5, <2>1, <2>2 DEF WaitReady, WaitSend
<1>6. CASE SetReport(p)
  <2> DEFINE i == NextReport(FrameOf(job[p]), sent[p])
  <2>1. i \in Reports
    BY NextReportIs DEF TypeOK, Transmitted
  <2>2. /\ inbox' = [index |-> i, data |-> FrameOf(job[p])[i]]
        /\ resp' \in {resp, None}
        /\ pos' \in {pos, 0}
    BY <1>6 DEF SetReport, Set
  <2>3. i # LastReport => i + 1 \in Reports
    BY <2>1, OtpAssumption DEF OtpAssumption, Reports
  <2>4. /\ pc' \in [Proc -> {"idle", "find", "ready", "send", "set", "confirm", "first", "rest",
                            "reset", "settle"}]
        /\ \A q \in Proc : pc'[q] = "idle" <=> pc[q] = "idle"
        /\ sent' \in [Proc -> Reports]
    <3>1. 0 \in Reports
      BY OtpAssumption DEF OtpAssumption, Reports
    <3> HIDE DEF i
    <3>2. \/ Goto(p, IF job[p] = "challenge" THEN "first" ELSE "confirm") /\ sent' = [sent EXCEPT ![p] = 0]
          \/ i + 1 \in Reports /\ Goto(p, "send") /\ sent' = [sent EXCEPT ![p] = i + 1]
      BY <1>6, <2>3 DEF SetReport, i
    <3>3. pc[p] = "set"
      BY <1>6 DEF SetReport
    <3> QED
      BY <3>1, <3>2, <3>3 DEF Goto, TypeOK
  <2>5. UNCHANGED <<call, got, open, slot, stage, plugged, history>>
    BY <1>6 DEF SetReport
  <2>9. UNCHANGED buf
    BY <1>6 DEF SetReport
  <2> HIDE DEF i
  <2> USE <2>2, <2>4, <2>5 DEF call, history
  <2>6. TypeOK'
    BY DEF TypeOK, ResponseReports
  <2>7. WireInv'
    BY <2>9 DEF WireInv
  <2>8. AnswersInv' /\ ReadInv' /\ BufferFits'
    BY DEF AnswersInv, ReadInv, BufferFits, Running
  <2> QED
    BY <2>6, <2>7, <2>8
<1>7. CASE Confirm(p)
  <2>1. AppletCalm
    BY <1>7, PollIsCalm DEF Confirm
  <2> QED
    BY <1>7, <2>1, FinishKeeps DEF Confirm
\* Steps that read a report, and the one that stops reading.
<1>8. ASSUME UNCHANGED <<call, sent, open, slot, buf, inbox, resp, stage, plugged, history>>,
             pos' \in 0 .. ResponseReports - 1, pc[p] # "idle",
             NEW place \in {"rest", "reset"}, Goto(p, place),
             NEW reports \in Seq((Answer \cup {None}) \X (0 .. ResponseReports - 1)),
             got' = [got EXCEPT ![p] = reports],
             Len(reports) <= 5, \A i \in 1 .. Len(reports) : reports[i][1] \in answers[p] \cup {None}
      PROVE  Sane
  <2> USE <1>8 DEF call, history, Goto
  <2>1. TypeOK' /\ WireInv'
    BY DEF TypeOK, WireInv
  <2>2. AnswersInv' /\ ReadInv'
    BY DEF AnswersInv, ReadInv, Running, TypeOK
  <2>3. BufferFits'
    BY DEF BufferFits, ReadInv, ReportData, ReportSize, ResponseSize
  <2> QED
    BY <2>1, <2>2, <2>3
<1>9. Pending /\ pc[p] # "idle" =>
        /\ Report \in (Answer \cup {None}) \X (0 .. ResponseReports - 1)
        /\ Report[1] \in answers[p]
  BY DEF Pending, Report, AnswersInv, Running, TypeOK
<1>10. CASE ReadFirst(p)
  <2>1. pos' \in 0 .. ResponseReports - 1
    BY <1>10, ReadMoves DEF ReadFirst
  <2>2. /\ <<Report>> \in Seq((Answer \cup {None}) \X (0 .. ResponseReports - 1))
        /\ Len(<<Report>>) <= 5
        /\ \A i \in 1 .. Len(<<Report>>) : <<Report>>[i][1] \in answers[p] \cup {None}
    BY <1>9, <1>10 DEF ReadFirst
  <2>3. /\ UNCHANGED <<call, sent, open, slot, buf, inbox, resp, stage, plugged, history>>
        /\ pc[p] # "idle" /\ Goto(p, "rest") /\ got' = [got EXCEPT ![p] = <<Report>>]
    BY <1>10 DEF ReadFirst
  <2> HIDE DEF IInv
  <2> QED
    BY <1>8, <2>1, <2>2, <2>3
<1>11. CASE ReadRest(p)
  <2> DEFINE next == IF Pending THEN Report ELSE <<None, 0>>
             X == (Answer \cup {None}) \X (0 .. ResponseReports - 1)
  <2>1. got[p] \in Seq(X) /\ \A i \in 1 .. Len(got[p]) : got[p][i][1] \in answers[p] \cup {None}
    BY DEF ReadInv
  <2>2. next \in X /\ next[1] \in answers[p] \cup {None}
    BY <1>9, <1>11 DEF ReadRest, ResponseReports
  <2>3. UNCHANGED <<call, sent, open, slot, buf, inbox, resp, stage, plugged, history>> /\ pc[p] # "idle"
    BY <1>11 DEF ReadRest
  <2>4. CASE Fits(Len(got[p]))
    <3>1. /\ got' = [got EXCEPT ![p] = Append(got[p], next)]
          /\ Read
          /\ Goto(p, IF EndsResponse(p) THEN "reset" ELSE "rest")
      BY <1>11, <2>4 DEF ReadRest
    <3> HIDE DEF next
    <3>2. Append(got[p], next) \in Seq(X)
      BY <2>1, <2>2
    <3>3. Len(Append(got[p], next)) <= 5
      BY <2>1, <2>2, <2>4 DEF Fits, ReportData, ReportSize, ResponseSize
    <3>4. \A i \in 1 .. Len(Append(got[p], next)) :
             Append(got[p], next)[i][1] \in answers[p] \cup {None}
      BY <2>1, <2>2
    <3>5. pos' \in 0 .. ResponseReports - 1
      BY <3>1, ReadMoves
    <3> HIDE DEF IInv
    <3> QED
      BY <1>8, <2>3, <3>1, <3>2, <3>3, <3>4, <3>5
  <2>5. CASE ~Fits(Len(got[p]))
    <3>1. Goto(p, "reset") /\ UNCHANGED <<got, pos>>
      BY <1>11, <2>5 DEF ReadRest
    <3>2. got' = [got EXCEPT ![p] = got[p]]
      BY <3>1 DEF ReadInv
    <3>3. Len(got[p]) <= 5
      BY <2>1 DEF BufferFits, ReportData, ReportSize, ResponseSize
    <3>4. pos' \in 0 .. ResponseReports - 1
      BY <3>1 DEF TypeOK
    <3> HIDE DEF IInv
    <3> QED
      BY <1>8, <2>1, <2>3, <3>1, <3>2, <3>3, <3>4
  <2> QED
    BY <2>4, <2>5
<1>12. CASE Reset(p)
  <2>1. /\ inbox' = [index |-> ResetReport, data |-> None] /\ UNCHANGED <<resp, pos>>
        /\ UNCHANGED <<call, sent, got, open, slot, buf, stage, plugged, history>>
        /\ pc[p] # "idle" /\ Goto(p, "settle")
    BY <1>12 DEF Reset, Set
  <2> USE <2>1 DEF call, history, Goto
  <2>2. TypeOK' /\ WireInv'
    BY DEF TypeOK, WireInv
  <2>3. AnswersInv' /\ ReadInv' /\ BufferFits'
    BY DEF AnswersInv, ReadInv, BufferFits, Running, TypeOK
  <2> QED
    BY <2>2, <2>3
<1>13. CASE Settle(p)
  <2>1. AppletCalm /\ pc[p] # "idle"
    BY <1>13, PollIsCalm DEF Settle
  <2>2. CASE CrcOk(got[p])
    <3>1. HmacOf(got[p]) \in Answer
      BY <2>2 DEF CrcOk, HmacOf
    <3> QED
      BY <1>13, <2>1, <2>2, <3>1, FinishKeeps DEF Settle
  <2>3. CASE ~CrcOk(got[p])
    BY <1>13, <2>1, <2>3, FailsKeeps DEF Settle
  <2> QED
    BY <2>2, <2>3
<1> QED
  BY <1>3, <1>4, <1>5, <1>6, <1>7, <1>10, <1>11, <1>12, <1>13 DEF Step

\* A call begins with nothing read, and may be answered what the applet holds.
LEMMA BeginStep ==
  ASSUME IInv, NEW p \in Proc, Begin(p)
  PROVE  IInv'
<1>1. PICK j \in Job :
        /\ job' = [job EXCEPT ![p] = j]
        /\ asked' = asked \cup ({j} \cap Secret)
        /\ rounds' = [rounds EXCEPT ![p] = IF j = "challenge" THEN RetryBudget ELSE 0]
  BY DEF Begin, Job
<1> DEFINE mine == ({slot} \ {None}) \cup foreign
<1>2. /\ pc[p] = "idle" /\ pc' = [pc EXCEPT ![p] = "find"]
      /\ result' = [result EXCEPT ![p] = "none"]
      /\ answers' = [answers EXCEPT ![p] = mine]
      /\ foreign' = foreign
      /\ quiet' \in [Proc -> BOOLEAN]
      /\ UNCHANGED <<sent, got, open, slot, buf, inbox, resp, pos, stage, plugged, quirk>>
  <2>1. quiet' \in [Proc -> BOOLEAN]
    BY DEF Begin
  <2> QED
    BY <2>1 DEF Begin, Goto, applet
<1>3. mine \subseteq Answer
  BY DEF IInv, TypeOK, AnswersInv, Answer
<1> USE DEF IInv
<1>4. TypeOK'
  BY <1>1, <1>2, OtpAssumption DEF OtpAssumption, TypeOK, Job
<1>5. WireInv'
  BY <1>1, <1>2 DEF WireInv, Job
<1> HIDE DEF mine
<1>6. AnswersInv'
  <2>1. Running' = Running \cup {p}
    BY <1>2 DEF Running, TypeOK
  <2>2. /\ answers' \in [Proc -> SUBSET Answer] /\ asked' \subseteq Secret
        /\ \A q \in Running' : mine \subseteq answers'[q]
    BY <1>1, <1>2, <1>3, <2>1 DEF AnswersInv, mine
  <2> QED
    BY <1>2, <2>2 DEF AnswersInv, mine
<1>7. ReadInv' /\ BufferFits'
  <2>1. got[p] = <<>> /\ got' = got
    BY <1>2 DEF ReadInv
  <2>2. \A q \in Proc : q # p => answers'[q] = answers[q]
    BY <1>2 DEF AnswersInv
  <2> QED
    BY <1>2, <2>1, <2>2 DEF ReadInv, BufferFits, TypeOK
<1> QED
  BY <1>4, <1>5, <1>6, <1>7

\* What the applet runs is a challenge, which leaves the slot alone, or the write of a
\* secret that was asked for.
LEMMA ExecuteStores ==
  ASSUME IInv, inbox # None, inbox.index = LastReport, NEW b, b[LastReport] = inbox.data, Execute(b)
  PROVE  \/ /\ UNCHANGED <<slot, answers>>
            /\ resp' \in {slot, None}
         \/ /\ slot' \in asked /\ resp' = None
            /\ answers' = [p \in Proc |-> IF p \in Running THEN answers[p] \cup {slot'}
                                          ELSE answers[p]]
<1>1. LastReport # ResetReport
  BY OtpAssumption DEF OtpAssumption, ResetReport
<1>2. PICK j \in {"challenge"} \cup asked :
        b[LastReport] = <<IF j = "challenge" THEN "hmac" ELSE "config", Crc(FrameOf(j))>>
  BY <1>1, FrameEnd DEF IInv, WireInv
<1>3. CASE b[LastReport][2] # Crc(b)
  BY <1>3 DEF Execute
<1>4. CASE b[LastReport][1] = "hmac" /\ b[LastReport][2] = Crc(b)
  BY <1>4 DEF Execute
<1>5. CASE b[LastReport][1] # "hmac" /\ b[LastReport][2] = Crc(b)
  <2>1. j \in asked /\ j # "challenge"
    BY <1>2, <1>5
  <2>2. StoredSecret(b) = j
    BY <1>2, <1>5, <2>1, CrcTellsSecret
  <2>3. /\ slot' = (IF quirk.locked THEN slot ELSE j) /\ resp' = None
        /\ answers' = [p \in Proc |-> IF p \in Running /\ ~quirk.locked
                                      THEN answers[p] \cup {slot'} ELSE answers[p]]
    BY <1>5, <2>2 DEF Execute
  <2>4. CASE quirk.locked
    BY <2>3, <2>4 DEF IInv, AnswersInv
  <2>5. CASE ~quirk.locked
    BY <2>1, <2>3, <2>5
  <2> QED
    BY <2>4, <2>5
<1> QED
  BY <1>3, <1>4, <1>5

\* The applet consumes a report.
LEMMA ConsumeStep ==
  ASSUME IInv, Consume
  PROVE  IInv'
<1>1. /\ inbox # None /\ inbox' = None
      /\ UNCHANGED <<pc, job, rounds, result, sent, got, open, plugged, quirk, foreign, asked>>
  BY DEF Consume, Busy, call
<1>2. /\ \/ UNCHANGED <<slot, answers>> /\ resp' \in {resp, slot, None}
         \/ /\ slot' \in asked /\ resp' = None
            /\ answers' = [p \in Proc |-> IF p \in Running THEN answers[p] \cup {slot'}
                                          ELSE answers[p]]
      /\ pos' \in {pos, 0} /\ stage' \in {"idle", "touch"} /\ quiet' \in [Proc -> BOOLEAN]
      /\ buf' = [i \in Reports |-> buf'[i]]
  <2> DEFINE b == [IF inbox.index = 0 /\ quirk.clears THEN Zero ELSE buf
                     EXCEPT ![inbox.index] = inbox.data]
  <2>1. CASE inbox.index = ResetReport
    BY <2>1 DEF Consume, IInv, TypeOK, Zero
  <2>2. CASE inbox.index # ResetReport /\ inbox.index # LastReport
    BY <2>2 DEF Consume, IInv, TypeOK, WireInv, Zero
  <2>3. CASE inbox.index # ResetReport /\ inbox.index = LastReport
    <3>1. Execute(b)
      BY <2>3 DEF Consume
    <3>2. b[LastReport] = inbox.data
      BY <2>3, OtpAssumption DEF OtpAssumption, IInv, WireInv, Reports, Zero
    <3>3. pos' = 0 /\ stage' \in {"idle", "touch"} /\ buf' = Zero
      <4> HIDE DEF b
      <4> QED
        BY <3>1 DEF Execute
    <3>4. quiet' \in [Proc -> BOOLEAN]
      <4> HIDE DEF b
      <4>1. quiet' = quiet \/ quiet' = [p \in Proc |-> FALSE]
        BY <3>1, Zenon DEF Execute
      <4> QED
        BY <4>1 DEF IInv, TypeOK
    <3> HIDE DEF b
    <3> QED
      BY <1>1, <2>3, <3>1, <3>2, <3>3, <3>4, ExecuteStores DEF Zero
  <2> QED
    BY <2>1, <2>2, <2>3
<1> USE <1>1, <1>2 DEF IInv
<1>3. TypeOK'
  <2>1. slot' \in Secret \cup {None} /\ resp' \in Answer \cup {None}
    BY DEF TypeOK, AnswersInv, Answer
  <2> QED
    BY <2>1 DEF TypeOK, ResponseReports
<1>4. WireInv'
  BY DEF WireInv
<1>5. AnswersInv'
  BY DEF AnswersInv, Running, Answer
<1>6. ReadInv' /\ BufferFits'
  <2>1. \A p \in Proc : answers[p] \subseteq answers'[p]
    BY DEF AnswersInv
  <2> QED
    BY <2>1 DEF ReadInv, BufferFits
<1> QED
  BY <1>3, <1>4, <1>5, <1>6

\* The user, another program and the USB port.
LEMMA WorldStep ==
  ASSUME IInv, World
  PROVE  IInv'
<1> USE OtpAssumption DEF OtpAssumption, IInv, call, history
<1>1. CASE Touch
  BY <1>1 DEF Touch, TypeOK, WireInv, AnswersInv, ReadInv, BufferFits, Running, Answer, ResponseReports
<1>2. CASE ForeignCommand
  <2>1. quiet' \in [Proc -> BOOLEAN]
    BY <1>2 DEF ForeignCommand
  <2>2. TypeOK' /\ WireInv'
    BY <1>2, <2>1 DEF ForeignCommand, TypeOK, WireInv, Answer, ResponseReports, Zero
  <2>3. AnswersInv' /\ ReadInv' /\ BufferFits'
    BY <1>2 DEF ForeignCommand, AnswersInv, ReadInv, BufferFits, Running, Answer
  <2> QED
    BY <2>2, <2>3
<1>3. CASE Unplug
  <2>1. quiet' \in [Proc -> BOOLEAN] /\ open' \in [Proc -> BOOLEAN]
    BY <1>3 DEF Unplug
  <2>5. /\ plugged' = FALSE /\ resp' = None /\ pos' = 0 /\ stage' = "idle"
        /\ UNCHANGED <<pc, call, sent, slot>>
    BY <1>3 DEF Unplug
  <2>2. TypeOK'
    <3>1. TypeOK
      OBVIOUS
    <3> HIDE OtpAssumption DEF IInv, OtpAssumption
    <3>2. plugged' \in BOOLEAN /\ quiet' \in [Proc -> BOOLEAN] /\ open' \in [Proc -> BOOLEAN]
      BY <2>1, <2>5
    <3>3. /\ slot' \in Secret \cup {None}
          /\ resp' \in Answer \cup {None}
          /\ pos' \in 0 .. ResponseReports - 1
          /\ stage' \in {"idle", "touch"}
      BY <2>5, <3>1 DEF TypeOK, ResponseReports
    <3>4. UNCHANGED <<pc, job, sent, rounds, result>>
      BY <2>5
    <3> QED
      BY <3>1, <3>2, <3>3, <3>4 DEF TypeOK
  <2>4. WireInv'
    BY <1>3 DEF Unplug, WireInv, Zero
  <2>3. AnswersInv' /\ ReadInv' /\ BufferFits'
    BY <1>3 DEF Unplug, AnswersInv, ReadInv, BufferFits, Running
  <2> QED
    BY <2>2, <2>3, <2>4
<1>4. CASE Plug
  BY <1>4 DEF Plug, TypeOK, WireInv, AnswersInv, ReadInv, BufferFits, Running
<1> QED
  BY <1>1, <1>2, <1>3, <1>4 DEF World

\* The invariant is inductive.
LEMMA StepIInv == IInv /\ [Next]_vars => IInv'
<1> SUFFICES ASSUME IInv, [Next]_vars PROVE IInv'
  OBVIOUS
<1>1. ASSUME NEW p \in Proc, Interrupt(p) PROVE IInv'
  <2>1. AppletCalm
    BY <1>1 DEF Interrupt, applet, AppletCalm, IInv, TypeOK
  <2> QED
    BY <1>1, <2>1, FinishKeeps DEF Interrupt
<1>2. CASE UNCHANGED vars
  BY <1>2 DEF vars, call, applet, history, IInv, TypeOK, WireInv, AnswersInv, ReadInv, BufferFits,
    Running
<1> QED
  BY <1>1, <1>2, CallStep, BeginStep, ConsumeStep, WorldStep DEF Next

\* It holds however the reports of any number of calls interleave, and whatever is lost,
\* left behind or pulled out.
THEOREM Invariance == Spec => []IInv
  BY InitIInv, StepIInv, PTL DEF Spec

\* The response buffer is never written past its end.
THEOREM ResponseFits == Spec => []BufferFits
  BY Invariance, PTL DEF IInv
-----------------------------------------------------------------------------
(* The refinement of HmacExchange *)

\* The steps that the callers see nothing of.
Unseen == UNCHANGED <<slot, foreign, asked, Running, answers, result>>

\* The end of a call is a return with what it may have been answered, or without.
LEMMA FinishReturns ==
  ASSUME IInv, NEW p \in Proc, pc[p] # "idle", NEW r \in answers[p] \cup {"written", "failed", "interrupted"},
         Finish(p, r), slot' = slot
  PROVE  Exchange!Return(p)
<1>1. p \in Running /\ Running' = Running \ {p}
  BY DEF Finish, Goto, Running, IInv, TypeOK
<1>2. /\ result' = [result EXCEPT ![p] = r] /\ answers' = [answers EXCEPT ![p] = {}]
      /\ UNCHANGED <<slot, foreign, asked>>
  BY DEF Finish
<1> QED
  BY <1>1, <1>2 DEF Exchange!Return

\* A call that moves on, or tries again, is still running.
LEMMA MoveIsUnseen ==
  ASSUME IInv, NEW p \in Proc, pc[p] # "idle", NEW place, place # "idle", Goto(p, place),
         UNCHANGED <<slot, foreign, asked, answers, result>>
  PROVE  Unseen
BY DEF Unseen, Running, Goto, IInv, TypeOK

\* A failed attempt returns an error to the caller, or is tried again unseen.
LEMMA FailsRefines ==
  ASSUME IInv, NEW p \in Proc, pc[p] # "idle", Fails(p), slot' = slot
  PROVE  Exchange!Return(p) \/ Unseen
<1>1. CASE Finish(p, "failed")
  BY <1>1, FinishReturns
<1>2. CASE ~Finish(p, "failed")
  <2>1. Goto(p, "find") /\ UNCHANGED <<foreign, asked, answers, result>>
    BY <1>2 DEF Fails, history
  <2> QED
    BY <2>1, MoveIsUnseen
<1> QED
  BY <1>1, <1>2

\* A step of a call is one of the exchange, or is not seen by its caller.
LEMMA StepRefines ==
  ASSUME IInv, NEW p \in Proc, Step(p)
  PROVE  Exchange!Return(p) \/ Unseen
<1>1. slot' = slot /\ pc[p] # "idle"
  BY DEF Step, Find, IoFails, TimesOut, WaitReady, WaitSend, SetReport, Confirm, ReadFirst, ReadRest,
    Reset, Settle, Poll, applet
<1>2. CASE Find(p) /\ plugged
  <2>1. Goto(p, "ready") /\ UNCHANGED <<foreign, asked, answers, result>>
    BY <1>2 DEF Find, call, history
  <2> QED
    BY <1>1, <2>1, MoveIsUnseen
<1>3. CASE (Find(p) /\ ~plugged) \/ IoFails(p) \/ TimesOut(p)
  BY <1>1, <1>3, FailsRefines DEF Find, IoFails, TimesOut
<1>4. CASE WaitReady(p) \/ WaitSend(p)
  <2>1. \E place \in {"send", "set"} : Goto(p, place)
    BY <1>4 DEF WaitReady, WaitSend
  <2>2. UNCHANGED <<foreign, asked, answers, result>>
    BY <1>4 DEF WaitReady, WaitSend, call, history
  <2> QED
    BY <1>1, <2>1, <2>2, MoveIsUnseen
<1>5. CASE SetReport(p)
  <2>1. \E place \in {"first", "confirm", "send"} : Goto(p, place)
    BY <1>5 DEF SetReport
  <2>2. UNCHANGED <<foreign, asked, answers, result>>
    BY <1>5 DEF SetReport, call, history
  <2> QED
    BY <1>1, <2>1, <2>2, MoveIsUnseen
<1>6. CASE Confirm(p)
  BY <1>1, <1>6, FinishReturns DEF Confirm
<1>7. CASE ReadFirst(p) \/ ReadRest(p) \/ Reset(p)
  <2>1. \E place \in {"rest", "reset", "settle"} : Goto(p, place)
    BY <1>7 DEF ReadFirst, ReadRest, Reset
  <2>2. UNCHANGED <<foreign, asked, answers, result>>
    BY <1>7 DEF ReadFirst, ReadRest, Reset, call, history
  <2> QED
    BY <1>1, <2>1, <2>2, MoveIsUnseen
<1>8. CASE Settle(p)
  <2>1. CASE ~CrcOk(got[p])
    BY <1>1, <1>8, <2>1, FailsRefines DEF Settle
  <2>2. CASE CrcOk(got[p])
    <3>1. HmacOf(got[p]) \in answers[p]
      <4>1. HmacOf(got[p]) = got[p][1][1] /\ got[p][1][1] \in Answer
        BY <2>2 DEF CrcOk, HmacOf
      <4>2. 1 \in 1 .. Len(got[p])
        BY <2>2 DEF CrcOk, ResponseReports, IInv, ReadInv
      <4>3. got[p][1][1] \in answers[p] \cup {None}
        BY <4>2 DEF IInv, ReadInv
      <4> QED
        BY <4>1, <4>3, OtpAssumption DEF OtpAssumption, Answer
    <3> QED
      BY <1>1, <1>8, <2>2, <3>1, FinishReturns DEF Settle
  <2> QED
    BY <2>1, <2>2
<1> QED
  BY <1>2, <1>3, <1>4, <1>5, <1>6, <1>7, <1>8 DEF Step

\* The initial states are initial states of HmacExchange.
LEMMA InitRefines == Init => Exchange!Init
  BY DEF Init, Exchange!Init, Running

\* Every step is a step of HmacExchange, or one it does not see.
LEMMA NextRefines ==
  ASSUME IInv, [Next]_vars
  PROVE  [Exchange!Next]_Exchange!vars
<1>0. Unseen => UNCHANGED Exchange!vars
  BY DEF Unseen, Exchange!vars
<1>1. CASE Consume
  <2>1. UNCHANGED <<pc, foreign, asked, result>> /\ Running' = Running
    BY <1>1 DEF Consume, call, Running
  <2>2. CASE UNCHANGED <<slot, answers>>
    BY <1>0, <2>1, <2>2 DEF Unseen
  <2>3. CASE /\ slot' \in asked
             /\ answers' = [p \in Proc |-> IF p \in Running THEN answers[p] \cup {slot'}
                                           ELSE answers[p]]
    <3>1. asked \subseteq Secret
      BY DEF IInv, AnswersInv
    <3>2. Exchange!Store(slot')
      BY <2>1, <2>3 DEF Exchange!Store
    <3> QED
      BY <2>3, <3>1, <3>2 DEF Exchange!Next
  <2> DEFINE b == [IF inbox.index = 0 /\ quirk.clears THEN Zero ELSE buf
                     EXCEPT ![inbox.index] = inbox.data]
  <2>4. CASE inbox.index = LastReport /\ inbox.index # ResetReport
    <3>1. inbox # None /\ Execute(b)
      BY <1>1, <2>4 DEF Consume, Busy
    <3>2. b[LastReport] = inbox.data
      BY <2>4, OtpAssumption DEF OtpAssumption, IInv, WireInv, Reports, Zero
    <3> HIDE DEF b
    <3>3. \/ UNCHANGED <<slot, answers>>
          \/ /\ slot' \in asked
             /\ answers' = [p \in Proc |-> IF p \in Running THEN answers[p] \cup {slot'}
                                           ELSE answers[p]]
      BY <2>4, <3>1, <3>2, ExecuteStores
    <3> QED
      BY <2>2, <2>3, <3>3
  <2>5. CASE inbox.index # LastReport \/ inbox.index = ResetReport
    BY <1>1, <2>2, <2>5 DEF Consume
  <2> QED
    BY <2>4, <2>5
<1>2. CASE ForeignCommand
  <2>1. Exchange!Interfere
    BY <1>2 DEF ForeignCommand, Exchange!Interfere, Running, call
  <2> QED
    BY <2>1 DEF Exchange!Next
<1>3. CASE Touch \/ Unplug \/ Plug
  BY <1>0, <1>3 DEF Touch, Unplug, Plug, Unseen, Running, call, history
<1>4. ASSUME NEW p \in Proc, Begin(p) PROVE Exchange!Begin(p)
  <2>1. p \notin Running /\ Running' = Running \cup {p}
    BY <1>4 DEF Begin, Goto, Running, IInv, TypeOK
  <2>2. asked' = asked \/ \E s \in Secret : asked' = asked \cup {s}
    <3>1. PICK j \in {"challenge"} \cup Secret : asked' = asked \cup ({j} \cap Secret)
      BY <1>4 DEF Begin
    <3>2. CASE j \in Secret
      BY <3>1, <3>2
    <3>3. CASE j \notin Secret
      BY <3>1, <3>3
    <3> QED
      BY <3>2, <3>3
  <2> QED
    BY <1>4, <2>1, <2>2 DEF Begin, Exchange!Begin, applet
<1>5. ASSUME NEW p \in Proc, Interrupt(p) PROVE Exchange!Return(p)
  BY <1>5, FinishReturns DEF Interrupt, applet
<1>6. CASE UNCHANGED vars
  BY <1>0, <1>6 DEF vars, Unseen, Running, call, applet, history
<1> QED
  BY <1>0, <1>1, <1>2, <1>3, <1>4, <1>5, <1>6, StepRefines DEF Next, World, Exchange!Next

\* However the reports interleave, the calls keep what HmacExchange promises: slot 2 holds
\* a whole secret that was asked for, and a response that is accepted is the response of
\* one secret the slot held during the call.
THEOREM CallsRefineExchange == Spec => ExchangeSpec
<1>1. Init /\ [][Next]_vars /\ []IInv => Exchange!Spec
  BY InitRefines, NextRefines, PTL DEF Exchange!Spec
<1> QED
  BY <1>1, Invariance, PTL DEF Spec, ExchangeSpec
-----------------------------------------------------------------------------
(* Calls that nobody disturbs *)

\* Report i of the frame of j, as it is sent.
Packet(j, i) == [index |-> i, data |-> FrameOf(j)[i]]

\* What is sent up to report n has arrived, and where nothing is sent nothing is left over.
Clean(p, n) ==
  \A i \in 0 .. LastReport - 1 :
    i < n \/ i \notin Transmitted(FrameOf(job[p])) => buf[i] = FrameOf(job[p])[i]

\* An attempt that leftovers cannot spoil: a write, or a challenge tried again.
Sure(p) == job[p] # "challenge" \/ rounds[p] < RetryBudget

\* The frame of p is on its way: its last report sent is consumed, or waits.
SendingInv(p) ==
  \/ inbox = None /\ (Sure(p) => Clean(p, sent[p]))
  \/ /\ pc[p] = "send"
     /\ \E k \in Transmitted(FrameOf(job[p])) \ {LastReport} :
          inbox = Packet(job[p], k) /\ sent[p] = k + 1 /\ (Sure(p) => Clean(p, k))

\* The whole frame is sent: its last report waits, or the command has run.
SentInv(p) ==
  \/ inbox = Packet(job[p], LastReport) /\ (Sure(p) => Clean(p, LastReport))
  \/ /\ inbox = None
     /\ job[p] = "challenge" =>
          buf = Zero /\ pos = 0 /\ resp \in {None, slot} /\ (Sure(p) => resp = slot)
     /\ job[p] # "challenge" /\ ~quirk.locked => slot = job[p]

\* The first n reports of the response are those of slot 2.
Holds(p, n) ==
  /\ slot # None
  /\ \A i \in 1 .. n : got[p][i] = <<slot, i - 1>>

\* QuietCallSucceeds, of one process.
Succeeds(p) ==
  /\ job[p] = "challenge" /\ slot # None /\ result[p] \in Answer \cup {"failed"}
       => result[p] = slot
  /\ ~quirk.locked /\ job[p] \in Secret /\ result[p] = "written" => slot = job[p]

\* A call that nobody disturbs, from its beginning until the next call begins.
QuietCall(p) ==
  /\ Running \subseteq {p} /\ plugged /\ stage = "idle"
  /\ pc[p] \notin {"idle", "find"} => open[p]
  /\ pc[p] # "idle" => result[p] = "none"
  /\ pc[p] = "idle" => result[p] = "interrupted" \/ (inbox = None /\ Succeeds(p))
  /\ job[p] = "challenge" => pc[p] # "confirm"
  /\ job[p] # "challenge" => pc[p] \notin {"first", "rest", "reset", "settle"}
  /\ pc[p] \in {"find", "ready"} /\ job[p] = "challenge" /\ Sure(p) => inbox = None /\ Clean(p, 0)
  /\ pc[p] \in {"send", "set"} => SendingInv(p)
  /\ pc[p] \in {"first", "confirm"} => SentInv(p)
  /\ pc[p] = "rest" =>
       /\ inbox = None /\ resp = slot
       /\ Len(got[p]) \in 1 .. ResponseReports /\ Holds(p, Len(got[p]))
       /\ pos = Len(got[p]) % ResponseReports
  /\ pc[p] \in {"reset", "settle"} =>
       /\ inbox \in {None, [index |-> ResetReport, data |-> None]}
       /\ Len(got[p]) >= ResponseReports /\ Holds(p, ResponseReports)

QuietInv ==
  /\ \A i \in Reports \ {0, 1, 2, LastReport} : buf[i] = None
  /\ \A p \in Proc : quiet[p] => QuietCall(p)

\* The middle of a frame is empty, and all that is not is transmitted.
LEMMA FrameContents ==
  ASSUME NEW j \in Job
  PROVE  /\ \A i \in Reports \ {0, 1, 2, LastReport} : FrameOf(j)[i] = None
         /\ \A i \in Reports \ Transmitted(FrameOf(j)) : FrameOf(j)[i] = None
         /\ j # "challenge" => {0, 1, 2, LastReport} \subseteq Transmitted(FrameOf(j))
         /\ {0, LastReport} \subseteq Transmitted(FrameOf(j))
<1>1. {0, 1, 2, LastReport} \subseteq Reports
  BY OtpAssumption DEF OtpAssumption, Reports
<1>2. CASE j = "challenge"
  <2> DEFINE payload == [Zero EXCEPT ![0] = <<"challenge", "ykdf-v1">>]
             end == <<"hmac", Crc(payload)>>
  <2>1. FrameOf(j) = [payload EXCEPT ![LastReport] = end]
    BY <1>2 DEF FrameOf, FrameFromPayload
  <2> HIDE DEF end
  <2> QED
    BY <1>1, <1>2, <2>1 DEF Zero, Transmitted
<1>3. CASE j # "challenge"
  <2>1. FrameOf(j)[1] # None /\ FrameOf(j)[2] # None
    BY <1>3, ConfigReports, NamesAssumption DEF NamesAssumption, Job
  <2>2. \A i \in Reports \ {1, 2, LastReport} : FrameOf(j)[i] = None
    BY <1>3, ConfigReports
  <2> QED
    BY <1>1, <2>1, <2>2 DEF Transmitted
<1> QED
  BY <1>2, <1>3

\* A clean buffer has the CRC of the frame.
LEMMA CleanCrc ==
  ASSUME NEW f, NEW b, \A i \in 0 .. LastReport - 1 : b[i] = f[i]
  PROVE  Crc(b) = Crc(f)
BY DEF Crc

\* The names of results are not those of secrets.
LEMMA Names ==
  /\ {"challenge", "none", "written", "failed", "interrupted"} \cap Answer = {}
  /\ "challenge" \notin Secret
  /\ None \notin Answer
BY NamesAssumption, OtpAssumption DEF NamesAssumption, OtpAssumption, Answer

\* A packet is not the absence of one.
LEMMA PacketIs ==
  ASSUME NEW j \in Job, NEW i \in Reports
  PROVE  /\ Packet(j, i) # None /\ Packet(j, i).index = i /\ Packet(j, i).data = FrameOf(j)[i]
         /\ i # ResetReport
BY NamesAssumption, OtpAssumption DEF NamesAssumption, OtpAssumption, Packet, Job, Reports, ResetReport

\* Nothing is left over in the middle of the buffer.
LEMMA MiddleStep ==
  ASSUME IInv, QuietInv, [Next]_vars
  PROVE  \A i \in Reports \ {0, 1, 2, LastReport} : buf'[i] = None
<1>1. CASE buf' \in {buf, Zero}
  BY <1>1 DEF QuietInv, Zero
<1>2. CASE Consume
  <2>1. CASE inbox.index \in {ResetReport, LastReport}
    BY <1>1, <1>2, <2>1 DEF Consume, Execute
  <2>2. CASE inbox.index \notin {ResetReport, LastReport}
    <3>1. PICK j \in Job : inbox.data = FrameOf(j)[inbox.index]
      BY <1>2, <2>2 DEF Consume, Busy, IInv, WireInv, AnswersInv, Job
    <3>2. buf' = [IF inbox.index = 0 /\ quirk.clears THEN Zero ELSE buf EXCEPT ![inbox.index] = inbox.data]
      BY <1>2, <2>2 DEF Consume
    <3>3. \A i \in Reports \ {0, 1, 2, LastReport} : FrameOf(j)[i] = None
      BY FrameContents
    <3> QED
      BY <3>1, <3>2, <3>3 DEF QuietInv, IInv, WireInv, Zero
  <2> QED
    BY <2>1, <2>2
<1>3. CASE World
  BY <1>1, <1>3 DEF World, Touch, ForeignCommand, Unplug, Plug
<1>4. ASSUME NEW p \in Proc, Begin(p) \/ Interrupt(p) \/ Step(p) PROVE buf' = buf
  BY <1>4 DEF Begin, Interrupt, Step, Find, IoFails, TimesOut, WaitReady, WaitSend, SetReport, Confirm,
    ReadFirst, ReadRest, Reset, Settle, Poll, applet
<1>5. CASE UNCHANGED vars
  BY <1>1, <1>5 DEF vars, applet
<1> QED
  BY <1>1, <1>2, <1>3, <1>4, <1>5 DEF Next

\* A call that begins with nobody else around has nothing to show for it yet.
LEMMA QuietBegin ==
  ASSUME IInv, NEW p \in Proc, Begin(p), NEW q \in Proc, quiet'[q]
  PROVE  QuietCall(q)'
<1>1. q = p /\ Running = {} /\ plugged /\ stage = "idle"
  BY DEF Begin
<1>2. /\ pc'[p] = "find" /\ Running' = {p}
      /\ result'[p] = "none" /\ UNCHANGED <<plugged, stage>>
  BY <1>1 DEF Begin, Goto, applet, Running, IInv, TypeOK
<1>3. job'[p] = "challenge" => rounds'[p] = RetryBudget
  BY DEF Begin, IInv, TypeOK
<1>4. job'[p] = "challenge" => ~Sure(p)'
  BY <1>3, OtpAssumption DEF OtpAssumption, Sure
<1> QED
  BY <1>1, <1>2, <1>4 DEF QuietCall

\* Nobody but its process steps while such a call runs, or after it.
LEMMA QuietAlone ==
  ASSUME IInv, QuietInv, NEW p \in Proc, Step(p) \/ Interrupt(p), NEW q \in Proc, quiet'[q]
  PROVE  q = p /\ QuietCall(p) /\ pc[p] # "idle" /\ Running = {p}
<1>1. pc[p] # "idle"
  BY DEF Step, Interrupt, Find, IoFails, TimesOut, WaitReady, WaitSend, SetReport, Confirm, ReadFirst,
    ReadRest, Reset, Settle
<1>2. quiet' = quiet
  BY DEF Step, Interrupt, Find, IoFails, TimesOut, WaitReady, WaitSend, SetReport, Confirm, ReadFirst,
    ReadRest, Reset, Settle, Fails, Finish, history
<1> QED
  BY <1>1, <1>2 DEF QuietInv, QuietCall, Running

\* The end of such a call.
LEMMA QuietFinish ==
  ASSUME IInv, QuietInv, NEW p \in Proc, QuietCall(p), NEW r, Finish(p, r),
         UNCHANGED <<plugged, stage, inbox, slot, quirk>>, r # "interrupted" => inbox = None,
         job[p] = "challenge" /\ slot # None /\ r \in Answer \cup {"failed"} => r = slot,
         ~quirk.locked /\ job[p] \in Secret /\ r = "written" => slot = job[p]
  PROVE  QuietCall(p)'
<1>1. pc'[p] = "idle" /\ Running' \subseteq {p} /\ result'[p] = r /\ job' = job
  BY DEF Finish, Goto, Running, IInv, TypeOK, QuietCall
<1>2. Succeeds(p)'
  BY <1>1 DEF Succeeds
<1> QED
  BY <1>1, <1>2 DEF QuietCall

\* Only a first attempt fails, and what it leaves cannot spoil the next.
LEMMA QuietFails ==
  ASSUME RetryBudget > 0, IInv, QuietInv, NEW p \in Proc, QuietCall(p), pc[p] = "first", Fails(p),
         UNCHANGED <<plugged, stage, inbox, slot, quirk, buf>>, inbox = None, buf = Zero,
         Sure(p) => slot = None
  PROVE  QuietCall(p)'
<1>0. job[p] = "challenge"
  BY DEF QuietCall
<1>1. CASE rounds[p] = 0
  <2>1. Finish(p, "failed") /\ rounds' = rounds
    BY <1>1 DEF Fails
  <2>2. Sure(p)
    BY <1>1 DEF Sure
  <2> QED
    BY <1>0, <2>1, <2>2, QuietFinish, Names
<1>2. CASE rounds[p] # 0
  <2>1. pc'[p] = "find" /\ Running' = Running /\ UNCHANGED <<job, result>>
    BY <1>2 DEF Fails, Goto, Running, IInv, TypeOK
  <2>2. Clean(p, 0)'
    <3>1. \A i \in Reports \ Transmitted(FrameOf(job[p])) : FrameOf(job[p])[i] = None
      BY FrameContents DEF IInv, TypeOK, Job
    <3>2. 0 .. LastReport - 1 \subseteq Reports
      BY OtpAssumption DEF OtpAssumption, Reports
    <3> QED
      BY <2>1, <3>1, <3>2 DEF Clean, Zero
  <2> QED
    BY <2>1, <2>2 DEF QuietCall
<1> QED
  BY <1>1, <1>2

\* Another program, the user and the port: they disturb the call, or cannot.
LEMMA QuietWorld ==
  ASSUME IInv, QuietInv, World, NEW q \in Proc, quiet'[q]
  PROVE  QuietCall(q)'
<1>1. CASE Touch \/ Plug
  <2>1. QuietCall(q)
    BY <1>1 DEF Touch, Plug, history, QuietInv
  <2> QED
    BY <1>1, <2>1 DEF Touch, Plug, QuietCall
<1>2. CASE ForeignCommand \/ Unplug
  BY <1>2 DEF ForeignCommand, Unplug
<1> QED
  BY <1>1, <1>2 DEF World

\* The steps of such a call.
LEMMA QuietStep ==
  ASSUME RetryBudget > 0, IInv, QuietInv, NEW p \in Proc, QuietCall(p), pc[p] # "idle",
         Running = {p}, Step(p)
  PROVE  QuietCall(p)'
<1> DEFINE F == FrameOf(job[p])
<1>0. /\ job[p] \in Job /\ pc \in [Proc -> {"idle", "find", "ready", "send", "set", "confirm", "first",
                                             "rest", "reset", "settle"}]
      /\ 0 .. LastReport - 1 \subseteq Reports /\ LastReport \in Reports /\ sent \in [Proc -> Reports]
      /\ slot \in Secret \cup {None} /\ plugged /\ stage = "idle" /\ pos \in 0 .. 3
  BY OtpAssumption DEF OtpAssumption, Reports, IInv, TypeOK, Job, QuietCall, ResponseReports
<1>1. CASE Find(p)
  <2>1. pc[p] = "find" /\ pc'[p] = "ready" /\ open'[p] = TRUE /\ UNCHANGED <<call, got, history, applet>>
    BY <1>0, <1>1 DEF Find, Goto, IInv, TypeOK
  <2>2. Running' \subseteq {p}
    BY <1>1, <1>0 DEF Find, Goto, Running
  <2> QED
    BY <2>1, <2>2 DEF QuietCall, call, applet, Clean, Sure
<1>2. ~IoFails(p)
  BY DEF IoFails, QuietCall
<1>3. CASE WaitReady(p)
  <2>1. pc[p] = "ready" /\ pc'[p] = "send" /\ sent'[p] = 0 /\ Running' \subseteq {p}
    BY <1>0, <1>3 DEF WaitReady, Goto, Running
  <2>2. inbox = None /\ UNCHANGED <<call, open, buf, inbox, stage, plugged>>
    BY <1>3 DEF WaitReady, Poll, Busy
  <2>3. Sure(p) => Clean(p, 0)
    <3>1. CASE job[p] # "challenge"
      <4>1. \A i \in Reports \ Transmitted(F) : buf[i] = None /\ F[i] = None
        BY <1>0, <3>1, FrameContents DEF QuietInv
      <4> QED
        BY <1>0, <4>1 DEF Clean
    <3> QED
      BY <2>1, <3>1 DEF QuietCall
  <2>4. SendingInv(p)'
    BY <2>1, <2>2, <2>3 DEF SendingInv, Clean, Sure, call
  <2> QED
    BY <2>1, <2>2, <2>4 DEF QuietCall, call
<1>4. CASE WaitSend(p)
  <2>1. pc[p] = "send" /\ pc'[p] = "set" /\ sent' = sent /\ Running' \subseteq {p}
    BY <1>0, <1>4 DEF WaitSend, Goto, Running
  <2>2. inbox = None /\ UNCHANGED <<call, open, buf, inbox, stage, plugged>>
    BY <1>4 DEF WaitSend, Poll, Busy
  <2>3. Sure(p) => Clean(p, sent[p])
    BY <1>0, <2>1, <2>2, PacketIs DEF QuietCall, SendingInv, Transmitted
  <2>4. SendingInv(p)'
    BY <2>1, <2>2, <2>3 DEF SendingInv, Clean, Sure, call
  <2> QED
    BY <2>1, <2>2, <2>4 DEF QuietCall, call
<1>5. CASE SetReport(p)
  <2> DEFINE k == NextReport(F, sent[p])
  <2>1. k \in Transmitted(F) /\ k >= sent[p] /\ \A i \in Transmitted(F) : i >= sent[p] => k <= i
    BY <1>0, NextReportIs
  <2>2. /\ pc[p] = "set"
        /\ inbox' = Packet(job[p], k)
        /\ UNCHANGED <<call, open, slot, buf, stage, plugged>>
        /\ k = LastReport => pc'[p] = IF job[p] = "challenge" THEN "first" ELSE "confirm"
        /\ k # LastReport => pc'[p] = "send" /\ sent'[p] = k + 1
    BY <1>0, <1>5 DEF SetReport, Set, Goto, Packet
  <2>3. Running' \subseteq {p}
    BY <1>0, <1>5 DEF SetReport, Goto, Running
  <2>4. Sure(p) => Clean(p, k)
    <3>1. Sure(p) => Clean(p, sent[p])
      BY <2>2 DEF QuietCall, SendingInv
    <3>2. \A i \in 0 .. LastReport - 1 : i < k => i < sent[p] \/ i \notin Transmitted(F)
      <4>1. k \in Reports /\ Reports \subseteq Nat /\ LastReport \in Nat
        BY <2>1, OtpAssumption DEF OtpAssumption, Reports, Transmitted
      <4>2. sent[p] \in Nat
        BY <1>0, <4>1
      <4> HIDE DEF k, F
      <4> QED
        BY <2>1, <4>1, <4>2
    <3> HIDE DEF k
    <3> QED
      BY <3>1, <3>2 DEF Clean
  <2> HIDE DEF k
  <2>5. k # LastReport => SendingInv(p)'
    BY <2>1, <2>2, <2>4 DEF SendingInv, Clean, Sure, call, Packet
  <2>6. k = LastReport => SentInv(p)'
    BY <2>1, <2>2, <2>4 DEF SentInv, Clean, Sure, call, Packet
  <2> QED
    BY <2>2, <2>3, <2>5, <2>6 DEF QuietCall, call
<1>6. CASE Confirm(p)
  <2>1. /\ pc[p] = "confirm" /\ inbox = None /\ Finish(p, "written")
        /\ UNCHANGED <<slot, inbox, stage, plugged, quirk>>
    BY <1>6 DEF Confirm, Poll, Busy
  <2>2. job[p] # "challenge"
    BY <2>1 DEF QuietCall
  <2>3. ~quirk.locked => slot = job[p]
    BY <1>0, <2>1, <2>2, PacketIs DEF QuietCall, SentInv
  <2> QED
    BY <2>1, <2>2, <2>3, QuietFinish
<1>7. CASE ReadFirst(p)
  <2>1. /\ pc[p] = "first" /\ pc'[p] = "rest" /\ inbox = None /\ resp # None
        /\ got'[p] = <<<<resp, pos>>>> /\ pos' = (pos + 1) % ResponseReports
        /\ UNCHANGED <<call, open, slot, inbox, resp, stage, plugged>>
    BY <1>0, <1>7 DEF ReadFirst, Goto, Pending, Busy, Report, Read, IInv, ReadInv
  <2>2. Running' \subseteq {p}
    BY <1>0, <1>7 DEF ReadFirst, Goto, Running
  <2>3. job[p] = "challenge" /\ pos = 0 /\ resp = slot
    BY <1>0, <2>1, PacketIs DEF QuietCall, SentInv
  <2>4. Len(got'[p]) = 1 /\ got'[p][1] = <<slot, 0>> /\ slot # None /\ pos' = 1
    BY <2>1, <2>3 DEF ResponseReports
  <2>5. /\ inbox' = None /\ resp' = slot'
        /\ Len(got'[p]) \in 1 .. ResponseReports /\ Holds(p, Len(got[p]))'
        /\ pos' = Len(got'[p]) % ResponseReports
    BY <2>1, <2>3, <2>4 DEF Holds, ResponseReports
  <2> QED
    BY <2>1, <2>2, <2>3, <2>5 DEF QuietCall, call
<1>8. CASE TimesOut(p)
  <2>1. pc[p] = "first" /\ ~Busy /\ ~Pending /\ Fails(p) /\ UNCHANGED applet
    BY <1>8 DEF TimesOut
  <2>2. job[p] = "challenge" /\ inbox = None /\ resp = None
    BY <1>0, <2>1 DEF QuietCall, Busy, Pending
  <2>3. buf = Zero /\ (Sure(p) => slot = None)
    BY <1>0, <2>1, <2>2, PacketIs DEF QuietCall, SentInv
  <2>4. UNCHANGED <<plugged, stage, inbox, slot, quirk, buf>>
    BY <2>1 DEF applet
  <2> QED
    BY <2>1, <2>2, <2>3, <2>4, QuietFails
<1>9. CASE ReadRest(p)
  <2> DEFINE X == (Answer \cup {None}) \X (0 .. ResponseReports - 1)
  <2>0. PICK n \in 1 .. 4 : n = Len(got[p])
    BY <1>9 DEF ReadRest, QuietCall, ResponseReports
  <2>1. /\ pc[p] = "rest" /\ inbox = None /\ resp = slot /\ Holds(p, n)
        /\ pos = n % 4 /\ got \in [Proc -> Seq(X)] /\ slot # None
    BY <1>9, <2>0 DEF ReadRest, QuietCall, ResponseReports, Holds, IInv, ReadInv
  <2>2. Pending /\ Fits(n) /\ Report = <<slot, pos>>
    <3>1. Pending /\ Report = <<slot, pos>>
      BY <1>0, <2>1 DEF Pending, Busy, Report
    <3>2. Fits(n)
      BY DEF Fits, ReportData, ReportSize, ResponseSize
    <3> QED
      BY <3>1, <3>2
  <2>3. /\ got'[p] = Append(got[p], <<slot, pos>>)
        /\ pos' = (pos + 1) % 4
        /\ pc'[p] = IF pos = 0 THEN "reset" ELSE "rest"
        /\ UNCHANGED <<call, open, slot, inbox, resp, stage, plugged>>
    BY <1>0, <1>9, <2>0, <2>1, <2>2 DEF ReadRest, Read, Goto, EndsResponse, ResponseReports
  <2>4. Running' \subseteq {p}
    BY <1>0, <1>9, <2>0, <2>2 DEF ReadRest, Goto, Running
  <2>5. /\ Len(got'[p]) = n + 1 /\ got'[p][n + 1] = <<slot, pos>>
        /\ \A i \in 1 .. n : got'[p][i] = <<slot, i - 1>>
    <3>1. got[p] \in Seq(X) /\ <<slot, pos>> \in X
      BY <1>0, <2>1 DEF Answer, ResponseReports
    <3> QED
      BY <2>0, <2>1, <2>3, <3>1 DEF Holds
  <2>6. CASE n = 4
    <3>1. Len(got'[p]) >= ResponseReports /\ Holds(p, ResponseReports)' /\ pc'[p] = "reset"
      BY <2>1, <2>3, <2>5, <2>6 DEF Holds, ResponseReports
    <3> QED
      BY <2>1, <2>3, <2>4, <3>1 DEF QuietCall, call
  <2>7. CASE n \in 1 .. 3
    <3>1. pos = n /\ pc'[p] = "rest" /\ pos' = (n + 1) % 4
      BY <2>1, <2>3, <2>7
    <3>2. Holds(p, n + 1)'
      BY <2>1, <2>3, <2>5, <2>7, <3>1 DEF Holds
    <3>3. Len(got'[p]) \in 1 .. ResponseReports /\ Holds(p, Len(got[p]))'
          /\ pos' = Len(got'[p]) % ResponseReports
      BY <2>5, <2>7, <3>1, <3>2 DEF ResponseReports
    <3> QED
      BY <2>1, <2>3, <2>4, <3>1, <3>3 DEF QuietCall, call
  <2> QED
    BY <2>6, <2>7
<1>10. CASE Reset(p)
  <2>1. /\ pc[p] = "reset" /\ pc'[p] = "settle"
        /\ inbox' = [index |-> ResetReport, data |-> None]
        /\ UNCHANGED <<call, got, open, slot, stage, plugged>>
    BY <1>0, <1>10 DEF Reset, Set, Goto
  <2>2. Running' \subseteq {p}
    BY <1>0, <1>10 DEF Reset, Goto, Running
  <2> QED
    BY <2>1, <2>2 DEF QuietCall, call, Holds
<1>11. CASE Settle(p)
  <2>1. /\ pc[p] = "settle" /\ inbox = None
        /\ UNCHANGED <<plugged, stage, inbox, slot, quirk>>
        /\ IF CrcOk(got[p]) THEN Finish(p, HmacOf(got[p])) ELSE Fails(p)
    BY <1>11 DEF Settle, Poll, Busy
  <2>2. Len(got[p]) >= 4 /\ \A i \in 1 .. 4 : got[p][i] = <<slot, i - 1>>
    BY <2>1 DEF QuietCall, Holds, ResponseReports
  <2>3. slot \in Answer /\ job[p] = "challenge"
    BY <1>0, <2>1 DEF QuietCall, Holds, Answer
  <2>4. got[p][1][1] = slot
    BY <2>2
  <2>5. CrcOk(got[p])
    BY <2>2, <2>3, <2>4 DEF CrcOk, ResponseReports
  <2>6. HmacOf(got[p]) = slot
    BY <2>2, <2>4 DEF HmacOf, ResponseReports
  <2> QED
    BY <2>1, <2>3, <2>5, <2>6, QuietFinish, Names
<1> QED
  BY <1>1, <1>2, <1>3, <1>4, <1>5, <1>6, <1>7, <1>8, <1>9, <1>10, <1>11 DEF Step

\* The applet consumes what such a call has sent, or what was left over before it.
LEMMA QuietConsume ==
  ASSUME IInv, QuietInv, Consume, NEW p \in Proc, quiet'[p]
  PROVE  QuietCall(p)'
<1> DEFINE F == FrameOf(job[p])
           base == IF inbox.index = 0 /\ quirk.clears THEN Zero ELSE buf
           b == [base EXCEPT ![inbox.index] = inbox.data]
<1>0. /\ job[p] \in Job /\ pc[p] \in {"idle", "find", "ready", "send", "set", "confirm", "first",
                                       "rest", "reset", "settle"}
      /\ 0 .. LastReport - 1 \subseteq Reports /\ LastReport \in Reports /\ LastReport # ResetReport
      /\ base = [i \in Reports |-> base[i]]
  <2>1. base = [i \in Reports |-> base[i]]
    BY DEF IInv, WireInv, Zero
  <2> HIDE DEF base
  <2> QED
    BY <2>1, OtpAssumption DEF OtpAssumption, Reports, IInv, TypeOK, Job, ResetReport
<1>1. /\ inbox # None /\ inbox' = None
      /\ UNCHANGED <<pc, job, rounds, result, sent, got, open, plugged, quirk>> /\ Running' = Running
  BY DEF Consume, Busy, call, Running
<1>2. quiet[p] /\ stage' = "idle"
  <2>1. CASE inbox.index = LastReport
    <3>1. Execute(b)
      BY <1>0, <2>1 DEF Consume
    <3> HIDE DEF b
    <3>2. (quiet' = quiet /\ stage' = "idle") \/ quiet' = [q \in Proc |-> FALSE]
      BY <3>1, Zenon DEF Execute
    <3> QED
      BY <3>2
  <2>2. CASE inbox.index = ResetReport
    BY <2>2 DEF Consume
  <2>3. CASE inbox.index \notin {ResetReport, LastReport}
    <3>1. UNCHANGED <<stage, quiet>>
      BY <2>3 DEF Consume
    <3>2. quiet[p]
      BY <3>1
    <3> QED
      BY <3>1, <3>2 DEF QuietInv, QuietCall
  <2> QED
    BY <2>1, <2>2, <2>3
<1>3. QuietCall(p)
  BY <1>2 DEF QuietInv
<1>4. CASE pc[p] \in {"idle", "find", "ready", "rest"}
  BY <1>1, <1>2, <1>3, <1>4 DEF QuietCall, Sure
<1>5. CASE pc[p] \in {"send", "set"}
  <2>1. PICK k \in Transmitted(F) \ {LastReport} :
          inbox = Packet(job[p], k) /\ sent[p] = k + 1 /\ (Sure(p) => Clean(p, k))
    BY <1>1, <1>3, <1>5 DEF QuietCall, SendingInv
  <2>2. inbox.index = k /\ inbox.data = F[k] /\ k # ResetReport /\ k \in Reports
    BY <1>0, <2>1, PacketIs DEF Transmitted
  <2>3. buf' = b
    BY <2>1, <2>2 DEF Consume
  <2>4. ASSUME Sure(p) PROVE Clean(p, k + 1)'
    <3> SUFFICES ASSUME NEW i \in 0 .. LastReport - 1, i < k + 1 \/ i \notin Transmitted(F)
                 PROVE  b[i] = F[i]
      BY <1>1, <2>3 DEF Clean
    <3>1. i \in Reports /\ Reports \subseteq Nat
      BY <1>0 DEF Reports
    <3>2. CASE i = k
      BY <1>0, <2>2, <3>1, <3>2
    <3>3. CASE i # k
      <4>1. b[i] = base[i]
        BY <1>0, <2>2, <3>1, <3>3
      <4>2. i < k \/ i \notin Transmitted(F)
        BY <2>2, <3>1, <3>3
      <4>3. CASE base = buf
        BY <2>1, <2>4, <4>1, <4>2, <4>3 DEF Clean
      <4>4. CASE base # buf
        <5>1. k = 0 /\ base = Zero
          BY <2>2, <4>4
        <5>2. i \notin Transmitted(F)
          BY <3>1, <4>2, <5>1
        <5>3. F[i] = None
          BY <1>0, <3>1, <5>2, FrameContents
        <5> QED
          BY <3>1, <4>1, <5>1, <5>3 DEF Zero
      <4> QED
        BY <4>3, <4>4
    <3> QED
      BY <3>2, <3>3
  <2>5. SendingInv(p)'
    BY <1>1, <2>1, <2>4 DEF SendingInv, Sure
  <2> QED
    BY <1>1, <1>2, <1>3, <1>5, <2>5 DEF QuietCall
<1>6. CASE pc[p] \in {"first", "confirm"}
  <2>1. inbox = Packet(job[p], LastReport) /\ (Sure(p) => Clean(p, LastReport))
    BY <1>1, <1>3, <1>6 DEF QuietCall, SentInv
  <2>2. inbox.index = LastReport /\ inbox.data = F[LastReport]
    BY <1>0, <2>1, PacketIs
  <2>3. Execute(b) /\ b[LastReport] = F[LastReport] /\ \A i \in 0 .. LastReport - 1 : b[i] = buf[i]
    <3>1. Execute(b)
      BY <1>0, <2>2 DEF Consume
    <3>2. base = buf
      BY <2>2, OtpAssumption DEF OtpAssumption
    <3>3. \A i \in 0 .. LastReport - 1 : i # LastReport
      BY OtpAssumption DEF OtpAssumption
    <3> QED
      BY <1>0, <2>2, <3>1, <3>2, <3>3
  <2>4. b[LastReport] = <<IF job[p] = "challenge" THEN "hmac" ELSE "config", Crc(F)>>
    BY <2>3, FrameEnd
  <2>5. Sure(p) => Crc(b) = Crc(F)
    <3>1. Sure(p) => \A i \in 0 .. LastReport - 1 : buf[i] = F[i]
      BY <2>1, OtpAssumption DEF OtpAssumption, Clean
    <3> HIDE DEF b, F
    <3> QED
      BY <2>3, <3>1, CleanCrc
  <2> HIDE DEF b, F, base
  <2>6. CASE job[p] = "challenge"
    <3>1. buf' = Zero /\ pos' = 0 /\ slot' = slot /\ resp' \in {slot, None}
      BY <2>3, <2>4, <2>6 DEF Execute
    <3>2. Sure(p) => resp' = slot
      BY <1>2, <2>3, <2>4, <2>5, <2>6 DEF Execute
    <3>3. SentInv(p)'
      BY <1>1, <2>6, <3>1, <3>2 DEF SentInv, Sure
    <3> QED
      BY <1>1, <1>2, <1>3, <1>6, <3>3 DEF QuietCall
  <2>7. CASE job[p] # "challenge"
    <3>1. Crc(b) = Crc(F)
      BY <2>5, <2>7 DEF Sure
    <3>2. StoredSecret(b) = job[p]
      BY <2>7, <3>1, CrcTellsSecret DEF F
    <3>3. ~quirk.locked => slot' = job[p]
      BY <2>3, <2>4, <2>7, <3>1, <3>2 DEF Execute
    <3>4. SentInv(p)'
      BY <1>1, <2>7, <3>3 DEF SentInv
    <3> QED
      BY <1>1, <1>2, <1>3, <1>6, <3>4 DEF QuietCall
  <2> QED
    BY <2>6, <2>7
<1>7. CASE pc[p] \in {"reset", "settle"}
  <2>1. inbox = [index |-> ResetReport, data |-> None]
    BY <1>1, <1>3, <1>7 DEF QuietCall
  <2>2. slot' = slot
    BY <2>1 DEF Consume
  <2> QED
    BY <1>1, <1>2, <1>3, <1>7, <2>2 DEF QuietCall, Holds
<1> QED
  BY <1>0, <1>4, <1>5, <1>6, <1>7

\* The invariant of such calls is inductive, given a retry to recover by.
LEMMA StepQuietInv ==
  ASSUME RetryBudget > 0, IInv, QuietInv, [Next]_vars
  PROVE  QuietInv'
<1>1. \A i \in Reports \ {0, 1, 2, LastReport} : buf'[i] = None
  BY MiddleStep
<1> SUFFICES ASSUME NEW p \in Proc, quiet'[p] PROVE QuietCall(p)'
  BY <1>1 DEF QuietInv
<1>2. ASSUME NEW q \in Proc, Begin(q) PROVE QuietCall(p)'
  BY <1>2, QuietBegin
<1>3. ASSUME NEW q \in Proc, Step(q) PROVE QuietCall(p)'
  BY <1>3, QuietAlone, QuietStep
<1>4. ASSUME NEW q \in Proc, Interrupt(q) PROVE QuietCall(p)'
  <2>1. q = p /\ QuietCall(p)
    BY <1>4, QuietAlone
  <2>2. Finish(p, "interrupted") /\ UNCHANGED <<plugged, stage, inbox, slot, quirk>>
    BY <1>4, <2>1 DEF Interrupt, applet
  <2> QED
    BY <2>1, <2>2, QuietFinish, Names
<1>5. CASE UNCHANGED vars
  <2>1. UNCHANGED <<pc, job, rounds, result, sent, got, open, slot, buf, inbox, resp, pos, stage,
                    plugged, quirk, quiet>>
    BY <1>5 DEF vars, call, applet, history
  <2>2. QuietCall(p)
    BY <2>1 DEF QuietInv
  <2> QED
    BY <2>1, <2>2 DEF QuietCall, Running, SendingInv, SentInv, Clean, Sure, Holds, Succeeds
<1> QED
  BY <1>2, <1>3, <1>4, <1>5, QuietConsume, QuietWorld DEF Next

\* What calls that were cut off left in the applet, of a frame or of a response, spoils no
\* later call that nobody disturbs: a write needs no retry, a challenge one.
THEOREM LeftoversDoNoHarm == ASSUME RetryBudget > 0 PROVE Spec => []QuietCallSucceeds
<1>1. Init => QuietInv
  BY DEF Init, QuietInv, Zero
<1>2. IInv /\ QuietInv => QuietCallSucceeds
  <2> SUFFICES ASSUME IInv, QuietInv, NEW p \in Proc, quiet[p] PROVE Succeeds(p)
    BY DEF QuietCallSucceeds, Succeeds
  <2> QED
    BY Names DEF QuietInv, QuietCall, Succeeds
<1>3. IInv /\ QuietInv /\ [Next]_vars => QuietInv'
  BY StepQuietInv
<1> QED
  BY <1>1, <1>2, <1>3, Invariance, PTL DEF Spec
=============================================================================
