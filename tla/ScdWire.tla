------------------------------- MODULE ScdWire -------------------------------
(***************************************************************************)
(* What DeriveIkm takes as one exchange over gpg-agent: the Assuan client  *)
(* of scd.rs, line by line and byte by byte, sending one APDU, collecting  *)
(* its chained response and taking a certificate out of it.  The agent     *)
(* splits its data into lines as it likes, puts status lines and comments  *)
(* between them, fails, closes the connection or asks something back; the  *)
(* card gives its data in pieces (61 xx).                                  *)
(*                                                                         *)
(* A line is [is, bytes]: its keyword and what follows.                    *)
(***************************************************************************)
EXTENDS Integers, Sequences, SequencesExt, FiniteSetsExt

CONSTANTS
  CardAnswer,    \* what the card may answer: [data, sw, cert], bytes, two bytes, <<>> or <<bytes>>
  MaxChunk,  \* bytes of data in one response of the card
  Wide,      \* 256 in the code: a count of that many or more is sent as 0
  MaxNoise,  \* a bound on status lines and comments
  Inquires,  \* whether the agent may ask back
  Others     \* whether another client of scdaemon sends APDUs of its own

VARIABLES
  card,    \* [rest, sw]: what GET RESPONSE would give
  agent,   \* [pc, out, noise]: out is what is still to be sent, escaped byte by byte
  wire,    \* lines on their way to the client
  command, \* the command on its way to the agent, <<>> when there is none
  client,  \* [pc, data, resp, result]
  full,    \* history: the answer of the card to the APDU,
  mixed    \* and whether another client's APDU came between its pieces

scdVars == <<card, agent, wire, command, client, full, mixed>>

Byte == 0 .. 255
Percent == 37

\* A status 61 xx announces more data, and is never the last of a response.
ASSUME ScdAssumption ==
  /\ \A a \in CardAnswer : a.data \in Seq(Byte) /\ a.sw \in Byte \X Byte /\ a.sw[1] # 97
  /\ MaxChunk \in Nat /\ Wide \in 0 .. 256 /\ MaxNoise \in Nat
-----------------------------------------------------------------------------
(* Bytes *)

\* The digits of %25, %0D and %0A, and the byte they stand for.
HexVal(c) == IF c \in 48 .. 57 THEN c - 48
             ELSE IF c \in 97 .. 102 THEN c - 87
             ELSE IF c \in 65 .. 70 THEN c - 55 ELSE -1

PercentEscape(b, i) ==
  IF b[i] # Percent \/ i + 2 > Len(b) \/ HexVal(b[i + 1]) < 0 \/ HexVal(b[i + 2]) < 0 THEN <<>>
  ELSE <<16 * HexVal(b[i + 1]) + HexVal(b[i + 2])>>

DecodePercent(b) ==
  LET from[i \in 1 .. Len(b) + 3] ==
        IF i > Len(b) THEN <<>>
        ELSE IF PercentEscape(b, i) # <<>> THEN PercentEscape(b, i) \o from[i + 3]
        ELSE <<b[i]>> \o from[i + 1]
  IN from[1]

\* Mutant: the length is taken to be one byte always.
HeaderShort(b, i) ==
  IF i + 1 > Len(b) THEN <<>> ELSE <<[from |-> i + 2, len |-> b[i + 1]]>>

\* The length of the element at i, and where its value begins.
Header(b, i) ==
  IF i + 1 > Len(b) THEN <<>>
  ELSE IF b[i + 1] < 128 THEN <<[from |-> i + 2, len |-> b[i + 1]]>>
  ELSE LET n == b[i + 1] - 128 IN
       IF i + 1 + n > Len(b) THEN <<>>
       ELSE <<[from |-> i + 2 + n,
               len |-> FoldLeft(LAMBDA acc, byte : 256 * acc + byte, 0, SubSeq(b, i + 2, i + 1 + n))]>>

\* tlv_find: <<value>> of the first element with the tag, <<>> when the bytes end early.
TlvFind(b, tag) ==
  LET at[i \in 1 .. Len(b) + 1] ==
        IF i > Len(b) \/ Header(b, i) = <<>> THEN <<>>
        ELSE LET h == Header(b, i)[1] IN
             IF h.from + h.len - 1 > Len(b) THEN <<>>
             ELSE IF b[i] = tag THEN <<SubSeq(b, h.from, h.from + h.len - 1)>>
             ELSE at[h.from + h.len]
  IN at[1]

\* Mutant: the whole low byte of 63 Cx is taken for the count.
ClassifySwByte(sw) ==
  CASE sw = <<144, 0>> -> [kind |-> "Ok", retries |-> 0]
    [] sw[1] = 99 /\ sw[2] \in 192 .. 207 -> [kind |-> "WrongPin", retries |-> sw[2]]
    [] sw = <<105, 131>> -> [kind |-> "PinLocked", retries |-> 0]
    [] OTHER -> [kind |-> "Scd", retries |-> 0]

ClassifySw(sw) ==
  CASE sw = <<144, 0>> -> [kind |-> "Ok", retries |-> 0]
    [] sw[1] = 99 /\ sw[2] \in 192 .. 207 -> [kind |-> "WrongPin", retries |-> sw[2] % 16]
    [] sw = <<105, 131>> -> [kind |-> "PinLocked", retries |-> 0]
    [] OTHER -> [kind |-> "Scd", retries |-> 0]

SplitSw(resp) == <<SubSeq(resp, 1, Len(resp) - 2), SubSeq(resp, Len(resp) - 1, Len(resp))>>

\* The certificate (70) in the object (53).
CertOf(data) ==
  LET object == TlvFind(data, 83) IN IF object = <<>> THEN <<>> ELSE TlvFind(object[1], 112)
-----------------------------------------------------------------------------
(* The card and the agent *)

ScdInit ==
  /\ card = [rest |-> <<>>, sw |-> <<105, 133>>]
  /\ agent = [pc |-> "greet", out |-> <<>>, noise |-> 0]
  /\ wire = <<>> /\ command = <<>>
  /\ client = [pc |-> "greeting", data |-> <<>>, resp |-> <<>>, result |-> [kind |-> "none"]]
  /\ full = <<>> /\ mixed = FALSE

Line(is, bytes) == [is |-> is, bytes |-> bytes]
Send(line) == wire' = Append(wire, line)

\* Assuan escapes %, CR and LF in data, and nothing else.
Escaped(byte) ==
  CASE byte = Percent -> <<37, 50, 53>>
    [] byte = 13 -> <<37, 48, 68>>
    [] byte = 10 -> <<37, 48, 65>>
    [] OTHER -> <<byte>>

Greet ==
  /\ agent.pc = "greet"
  /\ \/ Send(Line("OK", <<>>)) /\ agent' = [agent EXCEPT !.pc = "idle"]
     \/ Send(Line("ERR", <<>>)) /\ agent' = [agent EXCEPT !.pc = "closed"]
  /\ UNCHANGED <<card, command, client, full, mixed>>

\* The card gives at most `most' bytes, and counts what is left.
Respond(rest, sw, most) ==
  LET n == Min({most, MaxChunk}) IN
  IF Len(rest) <= n
  THEN /\ agent' = [agent EXCEPT !.pc = "answer", !.out = rest \o sw]
       /\ card' = [rest |-> <<>>, sw |-> <<105, 133>>]
  ELSE LET left == Len(rest) - n IN
       /\ agent' = [agent EXCEPT !.pc = "answer",
                      !.out = SubSeq(rest, 1, n) \o <<97, IF left >= Wide THEN 0 ELSE left>>]
       /\ card' = [rest |-> SubSeq(rest, n + 1, Len(rest)), sw |-> sw]

ExecuteCommand ==
  /\ agent.pc = "idle" /\ command # <<>>
  /\ command' = <<>>
  /\ CASE command[1] = "SERIALNO" ->
            agent' = [agent EXCEPT !.pc = "answer"] /\ UNCHANGED <<card, full>>
       [] command[1] = "APDU" ->
            \E a \in CardAnswer : full' = <<a>> /\ Respond(a.data, a.sw, MaxChunk)
       [] command[1] = "GET RESPONSE" ->
            /\ Respond(card.rest, card.sw, IF command[2] = 0 THEN Wide ELSE command[2])
            /\ UNCHANGED full
  /\ UNCHANGED <<wire, client, mixed>>

SendData ==
  /\ agent.pc = "answer" /\ agent.out # <<>>
  /\ \E k \in {1, Len(agent.out)} :
       /\ Send(Line("D", FlattenSeq([i \in 1 .. k |-> Escaped(agent.out[i])])))
       /\ agent' = [agent EXCEPT !.out = SubSeq(@, k + 1, Len(@))]
  /\ UNCHANGED <<card, command, client, full, mixed>>

SendEnd ==
  /\ agent.pc = "answer" /\ agent.out = <<>>
  /\ \E text \in {<<>>, <<67>>} : Send(Line("OK", text))
  /\ agent' = [agent EXCEPT !.pc = "idle"]
  /\ UNCHANGED <<card, command, client, full, mixed>>

SendError ==
  /\ agent.pc = "answer"
  /\ \/ Send(Line("ERR", <<>>)) /\ agent' = [agent EXCEPT !.pc = "idle"]
     \/ Send(Line("EOF", <<>>)) /\ agent' = [agent EXCEPT !.pc = "closed"]
  /\ UNCHANGED <<card, command, client, full, mixed>>

SendNoise ==
  /\ agent.pc = "answer" /\ agent.noise < MaxNoise
  /\ \E is \in {"S", "#"} : Send(Line(is, <<>>))
  /\ agent' = [agent EXCEPT !.noise = @ + 1]
  /\ UNCHANGED <<card, command, client, full, mixed>>

\* The agent waits for an answer to its question from here on.
Inquire ==
  /\ Inquires /\ agent.pc = "answer"
  /\ Send(Line("INQUIRE", <<>>)) /\ agent' = [agent EXCEPT !.pc = "inquire"]
  /\ UNCHANGED <<card, command, client, full, mixed>>

\* Another client's APDU ends a chain, and may leave one of its own; it sends one at most.
OtherApdu ==
  /\ Others /\ ~ mixed /\ card.rest # <<>>
  /\ card' \in {[rest |-> <<>>, sw |-> <<105, 133>>], [rest |-> <<65>>, sw |-> <<144, 0>>]}
  /\ mixed' = TRUE
  /\ UNCHANGED <<agent, wire, command, client, full>>
-----------------------------------------------------------------------------
(* The client *)

End(result) ==
  /\ client' = [client EXCEPT !.pc = "done", !.result = result]
  /\ UNCHANGED command

Ask(pc, cmd, resp) ==
  /\ client' = [client EXCEPT !.pc = pc, !.data = <<>>, !.resp = resp]
  /\ command' = cmd

\* Mutant: what came before the last piece is lost.
ExtendLast(resp, data) == data
Extend(resp, data) == resp \o data

\* apdu, and apdu_ok when the status is not 61 any more.
Collect ==
  LET resp == Extend(client.resp, client.data)
      n == Len(resp)
  IN IF client.pc = "serialno" THEN Ask("apdu", <<"APDU">>, <<>>)
     ELSE IF n < 2 THEN End([kind |-> "TooShort"])
     ELSE IF resp[n - 1] = 97 THEN Ask("apdu", <<"GET RESPONSE", resp[n]>>, SubSeq(resp, 1, n - 2))
     ELSE /\ client' = [client EXCEPT !.pc = "done", !.resp = resp,
                          !.result = [kind |-> "answered", status |-> ClassifySw(SplitSw(resp)[2]),
                                      cert |-> CertOf(SplitSw(resp)[1])]]
          /\ UNCHANGED command

EndsAnswer(line) == line.is = "OK"

Greeting ==
  /\ client.pc = "greeting" /\ wire # <<>>
  /\ wire' = Tail(wire)
  /\ IF Head(wire).is = "OK" THEN Ask("serialno", <<"SERIALNO">>, <<>>)
     ELSE End([kind |-> "Agent"])
  /\ UNCHANGED <<card, agent, full, mixed>>

\* One turn of the loop of `command'.
ReadLine ==
  /\ client.pc \in {"serialno", "apdu"} /\ wire # <<>>
  /\ wire' = Tail(wire)
  /\ LET line == Head(wire) IN
     CASE EndsAnswer(line) -> Collect
       [] line.is = "D" ->
            client' = [client EXCEPT !.data = @ \o DecodePercent(line.bytes)] /\ UNCHANGED command
       [] line.is \in {"ERR", "EOF"} -> End([kind |-> "Agent"])
       [] OTHER -> UNCHANGED <<client, command>>
  /\ UNCHANGED <<card, agent, full, mixed>>

Agent == Greet \/ ExecuteCommand \/ SendData \/ SendEnd \/ SendError \/ SendNoise \/ Inquire
Client == Greeting \/ ReadLine

ScdNext ==
  \/ Greet
  \/ ExecuteCommand
  \/ SendData
  \/ SendEnd
  \/ SendError
  \/ SendNoise
  \/ Inquire
  \/ OtherApdu
  \/ Greeting
  \/ ReadLine

ScdSpec == ScdInit /\ [][ScdNext]_scdVars
FairScdSpec == ScdSpec /\ WF_scdVars(Agent) /\ WF_scdVars(Client)
-----------------------------------------------------------------------------
Answered == client.pc = "done" /\ client.result.kind = "answered"

\* Bytes are bytes, and a count of attempts has four bits.
ScdTypeOK ==
  /\ client.pc \in {"greeting", "serialno", "apdu", "done"}
  /\ agent.pc \in {"greet", "idle", "answer", "inquire", "closed"}
  /\ agent.noise \in 0 .. MaxNoise
  /\ Range(client.data) \cup Range(client.resp) \subseteq Byte
  /\ Answered => client.result.status.retries \in 0 .. 15

\* "Send an APDU and return the full response (data + 2-byte SW), handling ISO-7816 response
\* chaining" (scd.rs): whatever the pieces, the lines and the escapes, and however the data
\* resembles a status, as long as no other client of scdaemon comes between two pieces.
FullResponse == Answered /\ ~ mixed => client.resp = full[1].data \o full[1].sw

\* A certificate that the card has is found, in every form of its length and among others,
\* and none is found in an object that was cut short.
CertIsFound == Answered /\ ~ mixed => client.result.cert = full[1].cert

\* The exchange ends, unless the agent asks back: the client ignores the question, and each
\* waits for the other.
EndsUnlessAsked == <>(client.pc = "done" \/ agent.pc = "inquire")
=============================================================================
