-------------------------- MODULE ConnectionProofs --------------------------
(***************************************************************************)
(* IInv is an inductive invariant of Connection for any number of requests *)
(* and any size of the buffer and the socket, and what follows from it;    *)
(* and the bounds of DateCache on the date in the responses.               *)
(***************************************************************************)
EXTENDS Connection, DateCache, TLAPS

(* The two parts of IInv: what has been done, and what is still to be.     *)
Safe == TypeOK /\ InputIsParsed /\ KeepaliveIsLast /\ FlagsAreDue
Seen == InputIsSeen /\ OutputIsSeen /\ ErrorIsSeen

LEMMA ConnectionFacts ==
  /\ MaxRequests \in Nat /\ 2 * MaxRequests \in Nat
  /\ BufCaps \subseteq Nat \ {0} /\ SendCap \in Nat \ {0}
BY ConnectionAssumption

LEMMA InitInv == Init => IInv
<1> SUFFICES ASSUME Init PROVE IInv
  OBVIOUS
<1>1. TypeOK
  <2>1. /\ 0 \in 0 .. 2 * MaxRequests /\ 0 \in 0 .. 0 + SendCap
        /\ cap \in Nat \ {0} /\ 0 - 0 <= cap
        /\ 0 \in Nat /\ 0 <= 0 /\ 0 \in 0 .. 0
    BY ConnectionFacts DEF Init
  <2>2. /\ sent \in 0 .. 2 * MaxRequests /\ got \in Nat /\ written \in got .. got + SendCap
        /\ answered \in Nat /\ written <= answered
        /\ taken \in 0 .. sent /\ parsed \in 0 .. taken
        /\ cap \in Nat \ {0} /\ taken - parsed <= cap
    BY <2>1, ConnectionFacts DEF Init
  <2>3. raised \in SUBSET Ready /\ events \in SUBSET Ready
    BY DEF Init, Ready
  <2> QED
    BY <2>2, <2>3 DEF Init, TypeOK
<1>2. InputIsParsed /\ KeepaliveIsLast /\ FlagsAreDue
  BY DEF Init, InputIsParsed, KeepaliveIsLast, FlagsAreDue
<1>3. InputIsSeen /\ OutputIsSeen /\ ErrorIsSeen
  BY DEF Init, InputIsSeen, OutputIsSeen, ErrorIsSeen, WillRead
<1> QED
  BY <1>1, <1>2, <1>3 DEF IInv

(* What has been parsed is what has been answered, so the next request in  *)
(* input is the first without an answer.                                   *)
LEMMA ParsedFacts ==
  ASSUME IInv
  PROVE  /\ sent \in Nat /\ taken \in Nat /\ parsed \in Nat /\ answered \in Nat
         /\ written \in Nat /\ got \in Nat /\ cap \in Nat \ {0}
         /\ parsed = 2 * answered /\ parsed <= taken /\ taken <= sent
         /\ sent <= 2 * MaxRequests /\ taken - parsed <= cap
         /\ got <= written /\ written <= got + SendCap /\ written <= answered
         /\ Current = script[answered + 1]
<1>1. /\ sent \in Nat /\ taken \in Nat /\ parsed \in Nat /\ answered \in Nat
      /\ written \in Nat /\ got \in Nat /\ cap \in Nat \ {0}
      /\ parsed = 2 * answered /\ parsed <= taken /\ taken <= sent
      /\ sent <= 2 * MaxRequests /\ taken - parsed <= cap
      /\ got <= written /\ written <= got + SendCap /\ written <= answered
  BY ConnectionFacts DEF IInv, TypeOK, InputIsParsed
<1>2. parsed \div 2 = answered
  BY <1>1
<1> QED
  BY <1>1, <1>2 DEF Current

-----------------------------------------------------------------------------
(* The steps of the client.                                                *)

LEMMA ClientStep ==
  ASSUME IInv, ClientSends \/ ClientReceives \/ ClientEnds
  PROVE  Safe'
<1> USE DEF IInv, Safe
<1>1. /\ UNCHANGED <<script, pc, input, output, flags>>
      /\ raised' \in SUBSET Ready
  BY DEF ClientSends, ClientReceives, ClientEnds, Raise, TypeOK, Ready
<1>2. TypeOK'
  <2>1. CASE ClientSends
    <3>1. sent + 1 \in 0 .. 2 * MaxRequests /\ taken \in 0 .. sent + 1
      BY <2>1, ParsedFacts, ConnectionFacts DEF ClientSends
    <3> QED
      BY <1>1, <2>1, <3>1 DEF ClientSends, TypeOK, input, output, flags
  <2>2. CASE ClientReceives
    <3>1. got + 1 \in Nat /\ written \in got + 1 .. got + 1 + SendCap
      BY <2>2, ParsedFacts, ConnectionFacts DEF ClientReceives
    <3> QED
      BY <1>1, <2>2, <3>1 DEF ClientReceives, TypeOK, input, output, flags
  <2>3. CASE ClientEnds
    <3>1. peer' \in {"open", "finished", "reset"} /\ UNCHANGED <<sent, got>>
      BY <2>3 DEF ClientEnds
    <3> QED
      BY <1>1, <3>1 DEF TypeOK, input, output, flags
  <2> QED
    BY <2>1, <2>2, <2>3
<1>3. InputIsParsed' /\ KeepaliveIsLast'
  BY <1>1 DEF InputIsParsed, KeepaliveIsLast, input, output, flags
<1>4. Done => Done'
  <2>1. AskedToClose => AskedToClose'
    BY <1>1 DEF AskedToClose, output
  <2>2. peer = "finished" => peer' = "finished" /\ UNCHANGED sent
    BY DEF ClientSends, ClientReceives, ClientEnds
  <2> QED
    BY <1>1, <2>1, <2>2 DEF Done, Complete, output
<1>5. FlagsAreDue'
  BY <1>1, <1>4 DEF FlagsAreDue, AskedToClose, output, flags
<1> QED
  BY <1>2, <1>3, <1>5

-----------------------------------------------------------------------------
(* The steps of the server.                                                *)

(* What does not answer a request leaves Done and the keepalive as it was. *)
LEMMA DoneStays ==
  ASSUME UNCHANGED <<client, answered>>
  PROVE  (Done <=> Done') /\ (AskedToClose <=> AskedToClose')
BY DEF Done, AskedToClose, Complete, client

LEMMA CallStep == ASSUME IInv, Call PROVE Safe'
<1> USE DEF IInv, Safe
<1>1. /\ UNCHANGED <<client, input, output, keepalive, readClosed, closed>>
      /\ pc \in {"accepted", "idle"} /\ Loop(events')
      /\ events' \in SUBSET Ready /\ raised' \in SUBSET Ready
  BY DEF Call, TypeOK, Ready, ReadyNow
<1>2. pc' = "write" \/ (pc' = "read" /\ ~readClosed)
  BY <1>1 DEF Loop, Goto
<1>3. TypeOK'
  BY <1>1, <1>2 DEF TypeOK, client, input, output
<1>4. InputIsParsed' /\ KeepaliveIsLast'
  BY <1>1, <1>2 DEF InputIsParsed, KeepaliveIsLast, client, input, output
<1>5. FlagsAreDue'
  BY <1>1, <1>2, DoneStays DEF FlagsAreDue, output
<1> QED
  BY <1>3, <1>4, <1>5

(* A read has room, so that Ok(0) is the end of the stream.                *)
LEMMA HasRoom == IInv => /\ Capacity \in Nat \ {0} /\ taken - parsed < Capacity
                         /\ Room \in Nat \ {0}
<1> SUFFICES ASSUME IInv PROVE Capacity \in Nat \ {0} /\ taken - parsed < Capacity
  BY ParsedFacts DEF Room
<1> QED
  BY ParsedFacts DEF Capacity

LEMMA ReadDataStep == ASSUME IInv, ReadData PROVE Safe'
<1> USE DEF IInv, Safe
<1>1. /\ pc = "read" /\ pc' = "parse" /\ sent > taken /\ cap' = Capacity
      /\ filled' \in BOOLEAN
      /\ UNCHANGED <<client, raised, parsed, output, flags>>
  BY DEF ReadData, Goto, TypeOK
<1>2. Capacity \in Nat \ {0} /\ taken - parsed < Capacity
  BY HasRoom
<1>3. /\ taken' \in Nat /\ taken <= taken' /\ taken' <= sent
      /\ taken' - parsed <= Capacity
  BY <1>1, <1>2, ParsedFacts DEF ReadData, Room
<1>4. sent' = sent /\ parsed' = parsed
  BY <1>1 DEF client
<1>5. TypeOK'
  <2>1. /\ taken' \in 0 .. sent' /\ parsed' \in 0 .. taken'
        /\ cap' \in Nat \ {0} /\ taken' - parsed' <= cap'
    BY <1>1, <1>2, <1>3, <1>4, ParsedFacts
  <2>2. UNCHANGED <<script, sent, got, peer, raised, answered, written, events,
                    keepalive, readClosed, closed>> /\ pc' = "parse"
    BY <1>1 DEF client, output, flags
  <2> QED
    BY <1>1, <2>1, <2>2 DEF TypeOK
<1>6. InputIsParsed' /\ KeepaliveIsLast'
  BY <1>1 DEF InputIsParsed, KeepaliveIsLast, client, output, flags
<1>7. FlagsAreDue'
  BY <1>1, DoneStays DEF FlagsAreDue, output, flags
<1> QED
  BY <1>5, <1>6, <1>7

(* The end of the stream finds at most the beginning of a request that     *)
(* will never be whole, so every whole one has been answered.              *)
LEMMA ReadNothingStep == ASSUME IInv, ReadNothing PROVE Safe'
<1> USE DEF IInv, Safe
<1>1. /\ pc = "read" /\ pc' = "write" /\ sent = taken /\ cap' = Capacity
      /\ readClosed' = (peer = "finished")
      /\ events' \in SUBSET Ready
      /\ UNCHANGED <<client, raised, taken, parsed, filled, output, keepalive, closed>>
  BY HasRoom DEF ReadNothing, NoInput, ReadsEof, Goto, TypeOK
<1>2. Capacity \in Nat \ {0} /\ taken - parsed <= Capacity
  BY HasRoom, ParsedFacts
<1>3. TypeOK'
  BY <1>1, <1>2 DEF TypeOK, client, output
<1>4. InputIsParsed' /\ KeepaliveIsLast'
  BY <1>1 DEF InputIsParsed, KeepaliveIsLast, client, output
<1>5. peer = "finished" => Done
  <2>0. taken <= parsed + 1
    BY <1>1 DEF InputIsParsed
  <2>1. sent = 2 * answered \/ sent = 2 * answered + 1
    BY <1>1, <2>0, ParsedFacts
  <2>2. Complete = answered
    BY <2>1, ParsedFacts DEF Complete
  <2> QED
    BY <2>2 DEF Done
<1>6. FlagsAreDue'
  BY <1>1, <1>5, DoneStays DEF FlagsAreDue, output
<1> QED
  BY <1>3, <1>4, <1>6

(* The steps that change nothing but the place in the code.                *)
LEMMA MoveStep ==
  ASSUME IInv, SocketFails \/ ParseDone \/ ParsePartial \/ ParseFails
  PROVE  Safe'
<1> USE DEF IInv, Safe
<1>1. UNCHANGED <<client, raised, input, output, flags>>
  BY DEF SocketFails, ParseDone, ParsePartial, ParseFails
<1>2. \/ pc \in {"read", "parse"} /\ pc' = "failed"
      \/ pc = "write" /\ answered > written /\ pc' = "failed"
      \/ pc = "parse" /\ taken <= parsed + 1 /\ pc' \in {"idle", "write"}
      \/ pc = "parse" /\ taken <= parsed + 1 /\ pc' = "read" /\ ~readClosed
  BY ParsedFacts DEF SocketFails, ParseDone, ParsePartial, ParseFails, Loop, Goto
<1>3. TypeOK'
  BY <1>1, <1>2 DEF TypeOK, Over, client, input, output, flags
<1>4. InputIsParsed' /\ KeepaliveIsLast'
  BY <1>1, <1>2 DEF InputIsParsed, KeepaliveIsLast, client, input, output, flags
<1>5. closed => pc = "write" \/ pc = "closed"
  BY DEF FlagsAreDue
<1>6. ~closed
  BY <1>2, <1>5, ParsedFacts DEF FlagsAreDue
<1>7. FlagsAreDue'
  BY <1>1, <1>2, <1>6, DoneStays DEF FlagsAreDue, output, flags
<1> QED
  BY <1>3, <1>4, <1>7

(* A request that asks for the end makes the rest of input not count, and  *)
(* any other leaves the reasons as they were.                              *)
LEMMA RespondStep == ASSUME IInv, Respond PROVE Safe'
<1> USE DEF IInv, Safe
<1>1. /\ pc = "parse" /\ taken > parsed + 1 /\ HasAnswer(Current)
      /\ parsed' = parsed + 2 /\ answered' = answered + 1
      /\ keepalive' = (Current = "keep")
      /\ readClosed' = (readClosed \/ Current = "close")
      /\ UNCHANGED <<client, raised, pc, taken, cap, filled, written, events, closed>>
  BY DEF Respond, AppendResponse
<1>2. /\ parsed + 2 \in 0 .. taken /\ taken - (parsed + 2) <= cap
      /\ answered + 1 \in Nat /\ written <= answered + 1
      /\ parsed + 2 = 2 * (answered + 1)
  BY <1>1, ParsedFacts
<1>3. keepalive' \in BOOLEAN /\ readClosed' \in BOOLEAN
  BY <1>1
<1>4. TypeOK'
  BY <1>1, <1>2, <1>3 DEF TypeOK, client
<1>5. InputIsParsed'
  BY <1>1, <1>2 DEF InputIsParsed
<1>6. \A r \in 1 .. answered' : r \in 1 .. answered \/ r = answered'
  BY <1>1, ParsedFacts
<1>7. script' = script /\ script[answered'] = Current
  BY <1>1, ParsedFacts DEF client
<1>8. KeepaliveIsLast'
  BY <1>1, <1>6, <1>7 DEF KeepaliveIsLast
<1>9. readClosed' => AskedToClose'
  <2>1. AskedToClose => AskedToClose'
    <3>1. \A r \in 1 .. answered : r \in 1 .. answered'
      BY <1>1, ParsedFacts
    <3> QED
      BY <1>7, <3>1 DEF AskedToClose
  <2>2. Current = "close" => AskedToClose'
    <3>1. answered' \in 1 .. answered'
      BY <1>1, ParsedFacts
    <3> QED
      BY <1>7, <3>1 DEF AskedToClose
  <2> QED
    BY <1>1, <2>1, <2>2 DEF FlagsAreDue
<1>10. FlagsAreDue'
  BY <1>1, <1>9 DEF FlagsAreDue, Done
<1> QED
  BY <1>4, <1>5, <1>8, <1>10

(* When the last response is written and the request it answers is not to  *)
(* be followed by another, the client has asked for the end.               *)
LEMMA WriteDataStep == ASSUME IInv, WriteData PROVE Safe'
<1> USE DEF IInv, Safe
<1>1. /\ pc = "write" /\ answered > written
      /\ closed' = (closed \/ (written' = answered /\ (~keepalive \/ readClosed)))
      /\ UNCHANGED <<client, raised, pc, input, answered, events, keepalive, readClosed>>
  BY DEF WriteData
<1>2. PICK n \in 1 .. answered - written : written + n - got <= SendCap /\ written' = written + n
  BY DEF WriteData
<1>3. /\ written' \in got .. got + SendCap /\ written' <= answered
  BY <1>1, <1>2, ParsedFacts, ConnectionFacts
<1>4. closed' \in BOOLEAN
  BY <1>1 DEF TypeOK
<1>5. TypeOK'
  BY <1>1, <1>3, <1>4 DEF TypeOK, client, input
<1>6. InputIsParsed' /\ KeepaliveIsLast'
  BY <1>1 DEF InputIsParsed, KeepaliveIsLast, client, input
<1>7. ~keepalive => AskedToClose
  <2>1. answered > 0 /\ answered \in 1 .. answered
    BY <1>1, ParsedFacts
  <2> QED
    BY <2>1 DEF KeepaliveIsLast, HasAnswer, AskedToClose
<1>8. ~closed
  BY <1>1, ParsedFacts DEF FlagsAreDue
<1>9. FlagsAreDue'
  BY <1>1, <1>7, <1>8, DoneStays DEF FlagsAreDue, Done
<1> QED
  BY <1>5, <1>6, <1>9

LEMMA ReturnStep ==
  ASSUME IInv, WriteBlocks \/ Return
  PROVE  Safe' /\ (pc' = "closed" => written = answered /\ Done)
<1> USE DEF IInv, Safe
<1>1. /\ pc = "write" /\ UNCHANGED <<client, raised, input, output, keepalive, readClosed>>
      /\ events' \in SUBSET Ready
  BY DEF WriteBlocks, Return, TypeOK
<1>2. \/ pc' = "write" /\ UNCHANGED closed
      \/ /\ closed' = (closed \/ (readClosed /\ answered = written))
         /\ pc' = IF closed' THEN "closed" ELSE "idle"
  BY DEF WriteBlocks, Return, Goto
<1>3. closed' \in BOOLEAN /\ (closed' => written = answered /\ Done)
  BY <1>2 DEF TypeOK, FlagsAreDue
<1>4. TypeOK'
  BY <1>1, <1>2, <1>3 DEF TypeOK, Over, client, input, output
<1>5. InputIsParsed' /\ KeepaliveIsLast'
  BY <1>1, <1>2 DEF InputIsParsed, KeepaliveIsLast, client, input, output
<1>6. FlagsAreDue'
  BY <1>1, <1>2, <1>3, DoneStays DEF FlagsAreDue, output
<1> QED
  BY <1>2, <1>3, <1>4, <1>5, <1>6

-----------------------------------------------------------------------------
(***************************************************************************)
(* What has no edge to come is looked at.  InputIsSeen needs of a step only *)
(* what it leaves of the input; the rest is by the places in the code.     *)
(***************************************************************************)

LEMMA ClientSeen ==
  ASSUME IInv, ClientSends \/ ClientReceives \/ ClientEnds
  PROVE  Seen'
<1> USE DEF IInv
<1>1. /\ UNCHANGED <<script, pc, input, output, flags>> /\ raised \subseteq raised'
      /\ raised' \in SUBSET Ready
  BY DEF ClientSends, ClientReceives, ClientEnds, Raise, TypeOK, Ready
<1>2. UNCHANGED <<sent, peer>> \/ "readable" \in raised'
  BY DEF ClientSends, ClientReceives, ClientEnds, Raise, Ready
<1>3. InputIsSeen'
  BY <1>1, <1>2 DEF InputIsSeen, WillRead, Over, input, flags
<1>4. OutputIsSeen'
  <2>1. UNCHANGED got \/ "writable" \in events \cup raised'
    BY DEF ClientSends, ClientReceives, ClientEnds, Raise
  <2> QED
    BY <1>1, <2>1 DEF OutputIsSeen, input, output, flags
<1>5. ErrorIsSeen'
  <2>1. peer' = "reset" => raised' = Ready \/ peer = "reset"
    BY <1>1 DEF ClientSends, ClientReceives, ClientEnds, Raise
  <2>2. raised = Ready => raised' = Ready
    BY <1>1
  <2> QED
    BY <1>1, <2>1, <2>2 DEF ErrorIsSeen, Over, flags
<1> QED
  BY <1>3, <1>4, <1>5 DEF Seen

(* A call takes every edge, and reads unless it reads no more.             *)
LEMMA CallSeen == ASSUME IInv, Call PROVE Seen'
<1> USE DEF IInv
<1>1. /\ UNCHANGED <<client, input, output, keepalive, readClosed, closed>>
      /\ events \cup raised \subseteq events' \cup raised'
      /\ Loop(events')
      /\ \/ pc = "accepted" /\ events' = Ready
         \/ pc = "idle" /\ raised \subseteq events'
  BY DEF Call, TypeOK
<1>2. pc' = IF "readable" \in events' /\ ~readClosed THEN "read" ELSE "write"
  BY <1>1 DEF Loop, Goto
<1>3. InputIsSeen'
  <2>1. CASE "readable" \in events'
    BY <1>1, <1>2, <2>1 DEF InputIsSeen, WillRead
  <2>2. CASE "readable" \notin events'
    BY <1>1, <1>2, <2>2 DEF InputIsSeen, WillRead, Over, Ready, client, input
  <2> QED
    BY <2>1, <2>2
<1>4. OutputIsSeen'
  BY <1>1, <1>2 DEF OutputIsSeen, client, output
<1>5. ErrorIsSeen'
  BY <1>1, <1>2 DEF ErrorIsSeen, Over, Ready, client
<1> QED
  BY <1>3, <1>4, <1>5 DEF Seen

(* A read that does not fill the buffer takes all there is.                *)
LEMMA ReadDataSeen == ASSUME IInv, ReadData PROVE Seen'
<1> USE DEF IInv
<1>1. /\ pc = "read" /\ pc' = "parse" /\ peer # "reset"
      /\ UNCHANGED <<client, raised, parsed, output, flags>>
  BY DEF ReadData, Goto
<1>2. ~filled' => taken' = sent
  <2>1. Room \in Nat /\ sent - taken \in Nat
    BY HasRoom, ParsedFacts
  <2>2. /\ taken' = taken + (IF sent - taken < Room THEN sent - taken ELSE Room)
        /\ filled' = (filled \/ (IF sent - taken < Room THEN sent - taken ELSE Room) = Room)
    BY DEF ReadData
  <2>3. ~filled' => (IF sent - taken < Room THEN sent - taken ELSE Room) # Room
    BY <2>2
  <2> QED
    BY <2>1, <2>2, <2>3, ParsedFacts
<1>3. InputIsSeen'
  <2>1. ~filled' => ~(sent' > taken')
    BY <1>1, <1>2, ParsedFacts DEF client
  <2> QED
    BY <1>1, <2>1 DEF InputIsSeen, flags
<1>4. OutputIsSeen' /\ ErrorIsSeen'
  BY <1>1 DEF OutputIsSeen, ErrorIsSeen, client, output, flags
<1> QED
  BY <1>3, <1>4 DEF Seen

LEMMA ReadNothingSeen == ASSUME IInv, ReadNothing PROVE Seen'
<1> USE DEF IInv
<1>1. /\ pc = "read" /\ pc' = "write" /\ peer # "reset" /\ sent = taken
      /\ readClosed' = (peer = "finished")
      /\ "writable" \in events' <=> "writable" \in events
      /\ UNCHANGED <<client, raised, taken, output>>
  BY HasRoom DEF ReadNothing, NoInput, ReadsEof, Goto
<1>2. InputIsSeen'
  <2>1. ~(sent' > taken')
    BY <1>1, ParsedFacts DEF client
  <2>2. peer' = "finished" => readClosed'
    BY <1>1 DEF client
  <2> QED
    BY <1>1, <2>1, <2>2 DEF InputIsSeen
<1>3. OutputIsSeen' /\ ErrorIsSeen'
  BY <1>1 DEF OutputIsSeen, ErrorIsSeen, client, output
<1> QED
  BY <1>2, <1>3 DEF Seen

(* Who has read all and parses a part of a request has seen an odd number  *)
(* of pieces.                                                              *)
LEMMA MoveSeen ==
  ASSUME IInv, SocketFails \/ ParseDone \/ ParsePartial \/ ParseFails
  PROVE  Seen'
<1> USE DEF IInv
<1>1. UNCHANGED <<client, raised, input, output, flags>>
  BY DEF SocketFails, ParseDone, ParsePartial, ParseFails
<1>2. \/ pc' = "failed"
      \/ /\ pc = "parse" /\ pc' = "idle" /\ taken = parsed + 1
      \/ /\ pc = "parse"
         /\ pc' = IF "readable" \in events /\ ~readClosed THEN "read" ELSE "write"
  BY DEF SocketFails, ParseDone, ParsePartial, ParseFails, Loop, Goto
<1>3. taken = parsed + 1 /\ sent = taken => sent % 2 = 1
  BY ParsedFacts
<1>4. sent > taken \/ sent = taken
  BY ParsedFacts
<1>5. UNCHANGED <<sent, peer, got, raised, taken, parsed, filled, answered, written,
                  events, readClosed>>
  BY <1>1 DEF client, input, output, flags
<1>6. InputIsSeen'
  BY <1>2, <1>3, <1>4, <1>5 DEF InputIsSeen, WillRead, Over
<1>7. OutputIsSeen' /\ ErrorIsSeen'
  BY <1>2, <1>5 DEF OutputIsSeen, ErrorIsSeen, Over
<1> QED
  BY <1>6, <1>7 DEF Seen

LEMMA RespondSeen == ASSUME IInv, Respond PROVE Seen'
<1> USE DEF IInv
<1>1. /\ pc = "parse" /\ readClosed' = (readClosed \/ Current = "close")
      /\ UNCHANGED <<client, raised, pc, taken, cap, filled, written, events, closed>>
  BY DEF Respond
<1>2. InputIsSeen'
  BY <1>1 DEF InputIsSeen, WillRead, client
<1>3. OutputIsSeen' /\ ErrorIsSeen'
  BY <1>1 DEF OutputIsSeen, ErrorIsSeen, Over, client
<1> QED
  BY <1>2, <1>3 DEF Seen

(* Return leaves output only to a full socket.                             *)
LEMMA WriteSeen ==
  ASSUME IInv, WriteData \/ WriteBlocks \/ Return
  PROVE  Seen'
<1> USE DEF IInv
<1>1. /\ pc = "write" /\ UNCHANGED <<client, raised, input, answered, readClosed>>
      /\ "readable" \in events' <=> "readable" \in events
  BY DEF WriteData, WriteBlocks, Return, output
<1>2. pc' \in {"write", "idle", "closed"}
  BY <1>1 DEF WriteData, WriteBlocks, Return, Goto
<1>3. InputIsSeen'
  BY <1>1, <1>2 DEF InputIsSeen, WillRead, Over, client, input
<1>4. OutputIsSeen'
  <2>1. CASE WriteData
    BY <2>1 DEF WriteData, OutputIsSeen
  <2>2. CASE WriteBlocks
    BY <2>2 DEF WriteBlocks, OutputIsSeen, client, output
  <2>3. CASE Return
    <3>1. UNCHANGED <<client, raised, input, output, events>>
      BY <2>3 DEF Return
    <3>2. "writable" \in events => answered = written
      BY <2>3 DEF Return
    <3>3. ~(answered > answered)
      BY ParsedFacts
    <3> QED
      BY <3>1, <3>2, <3>3 DEF OutputIsSeen, client, input, output
  <2> QED
    BY <2>1, <2>2, <2>3
<1>5. ErrorIsSeen'
  <2>1. CASE WriteData \/ WriteBlocks
    BY <1>1, <2>1 DEF WriteData, WriteBlocks, ErrorIsSeen, client
  <2>2. CASE Return
    <3>1. /\ "writable" \notin events \/ answered = written
          /\ closed' = (closed \/ (readClosed /\ answered = written))
          /\ pc' = IF closed' THEN "closed" ELSE "idle"
      BY <2>2 DEF Return, Goto
    <3> QED
      BY <1>1, <3>1 DEF ErrorIsSeen, Over, client
  <2> QED
    BY <2>1, <2>2
<1> QED
  BY <1>3, <1>4, <1>5 DEF Seen

-----------------------------------------------------------------------------
(* The theorems.                                                           *)

LEMMA InvStep == IInv /\ [Next]_vars => IInv'
<1> SUFFICES ASSUME IInv, [Next]_vars PROVE IInv'
  OBVIOUS
<1>1. CASE UNCHANGED vars
  <2>1. TypeOK' /\ InputIsParsed' /\ KeepaliveIsLast'
    BY <1>1 DEF vars, client, input, output, flags, IInv, TypeOK, InputIsParsed, KeepaliveIsLast
  <2>2. FlagsAreDue'
    BY <1>1, DoneStays DEF vars, output, flags, IInv, FlagsAreDue
  <2>3. InputIsSeen' /\ OutputIsSeen' /\ ErrorIsSeen'
    BY <1>1 DEF vars, client, input, output, flags, IInv, InputIsSeen, OutputIsSeen,
                ErrorIsSeen, WillRead
  <2> QED
    BY <2>1, <2>2, <2>3 DEF IInv
<1>2. CASE Next
  <2>1. Safe'
    BY <1>2, ClientStep, CallStep, ReadDataStep, ReadNothingStep, MoveStep, RespondStep,
       WriteDataStep, ReturnStep DEF Next, Server
  <2>2. Seen'
    BY <1>2, ClientSeen, CallSeen, ReadDataSeen, ReadNothingSeen, MoveSeen, RespondSeen,
       WriteSeen DEF Next, Server
  <2> QED
    BY <2>1, <2>2 DEF IInv, Safe, Seen
<1> QED
  BY <1>1, <1>2

(* What is read, parsed, answered and written stays in step, and neither   *)
(* read_closed nor closed is set while a request is owed an answer.        *)
THEOREM Invariance == Spec => []IInv
BY InitInv, InvStep, PTL DEF Spec

(* The counts stay in their ranges: nothing is drained that was not read,  *)
(* or written that was not answered, and a read fits the buffer.           *)
THEOREM TypeCorrect == Spec => []TypeOK
<1>1. IInv => TypeOK
  BY DEF IInv
<1> QED
  BY <1>1, Invariance, PTL

(* Edge-triggered readiness loses nothing, whatever arrives while ready    *)
(* runs: what it leaves in the socket or in output has an edge to come.    *)
THEOREM NoWakeupIsLost == Spec => []NoLostWakeup
<1>1. IInv => NoLostWakeup
  <2> SUFFICES ASSUME IInv, pc = "idle" PROVE NoLostWakeup
    BY DEF NoLostWakeup
  <2>1. "readable" \notin raised /\ ~readClosed /\ ~filled =>
          taken = sent /\ (peer = "finished" => sent % 2 = 1)
    BY ParsedFacts DEF IInv, InputIsSeen, WillRead, Over
  <2>2. "writable" \notin raised /\ answered > written =>
          written - got = SendCap \/ taken = parsed + 1
    BY DEF IInv, OutputIsSeen
  <2>3. peer = "reset" => raised = Ready
    BY DEF IInv, ErrorIsSeen, Over
  <2> QED
    BY <2>1, <2>2, <2>3 DEF NoLostWakeup
<1> QED
  BY <1>1, Invariance, PTL

(* A connection is closed only when every response is written and the      *)
(* client has asked for the end, or has ended with every request answered. *)
THEOREM ClosedOnlyWhenDone == Spec => ClosesWhenDone
<1> DEFINE Step == pc # "closed" /\ pc' = "closed" => written = answered /\ Done
<1>1. IInv /\ [Next]_vars => [Step]_vars
  <2> SUFFICES ASSUME IInv, Next, pc # "closed", pc' = "closed"
               PROVE  written = answered /\ Done
    OBVIOUS
  <2>1. Return
    BY DEF Next, Server, Call, ReadData, ReadNothing, SocketFails, ParseDone, ParsePartial,
           ParseFails, Respond, WriteData, WriteBlocks, ClientSends, ClientReceives,
           ClientEnds, Loop, Goto
  <2> QED
    BY <2>1, ReturnStep
<1>2. [][Step]_vars => ClosesWhenDone
  BY DEF ClosesWhenDone
<1> QED
  BY <1>1, <1>2, Invariance, PTL DEF Spec

-----------------------------------------------------------------------------
(* The date of a response.  The bounds hold for any number of threads, any *)
(* division of the second into ticks and any length of the clock.          *)
(*                                                                         *)
(* Neither is inductive: a response is as good as the cache it is taken    *)
(* from.  Cached says when a thread rendered its text, Ordered that no     *)
(* cache and no response is ahead of a clock that was never set back.      *)

(* When t rendered the text it has: update sets next_update a second later.*)
Rendered(t) == nextUpdate[t] - Second

Cached ==
  \A t \in Threads :
    \/ text[t] = Empty /\ nextUpdate[t] = 0
    \/ Rendered(t) \in Time /\ text[t] = BeginOfSecond(Rendered(t))

Ordered ==
  ~setBack =>
    /\ \A t \in Threads : text[t] # Empty => Rendered(t) <= clock
    /\ newest # Empty => newest <= BeginOfSecond(clock)

DateIInv == DateTypeOK /\ Cached /\ Ordered /\ DateIsRecent /\ DatesInOrder

-----------------------------------------------------------------------------
(* Arithmetic of seconds.                                                  *)

(* A time is in the second that its text names.                            *)
LEMMA BeginOfSecondBounds ==
  ASSUME NEW a \in Nat
  PROVE  /\ BeginOfSecond(a) \in Nat
         /\ BeginOfSecond(a) <= a
         /\ a - BeginOfSecond(a) < Second
<1>1. Second \in Nat /\ Second > 0
  BY ClockAssumption
<1>2. a % Second \in 0 .. Second - 1 /\ a % Second <= a
  BY <1>1
<1> QED
  BY <1>1, <1>2 DEF BeginOfSecond

(* A text is the number of the second times its length.                    *)
LEMMA BeginOfSecondIsMultiple ==
  ASSUME NEW a \in Nat
  PROVE  /\ a \div Second \in Nat
         /\ BeginOfSecond(a) = Second * (a \div Second)
BY ClockAssumption DEF BeginOfSecond

(* What lies at most a second later has at most the next text.             *)
LEMMA BeginOfNextSecond ==
  ASSUME NEW a \in Nat, NEW b \in Nat, a <= b + Second
  PROVE  BeginOfSecond(a) <= BeginOfSecond(b) + Second
<1> DEFINE p == a \div Second
           q == b \div Second
<1>1. Second \in Nat /\ Second > 0
  BY ClockAssumption
<1>2. p \in Nat /\ q \in Nat /\ BeginOfSecond(a) = Second * p
      /\ BeginOfSecond(b) = Second * q
  BY BeginOfSecondIsMultiple
<1>3. Second * p < Second * q + 2 * Second
  BY <1>1, <1>2, BeginOfSecondBounds
<1> HIDE DEF p, q
<1>4. p < q + 2
  <2>1. SUFFICES ASSUME p >= q + 2 PROVE FALSE
    BY <1>2
  <2>2. PICK d \in Nat : p = q + 2 + d
    <3>1. p - q - 2 \in Nat /\ p = q + 2 + (p - q - 2)
      BY <1>2, <2>1
    <3> QED
      BY <3>1
  <2>3. Second * p = Second * q + 2 * Second + Second * d
    BY <1>1, <1>2, <2>2
  <2>4. Second * d >= 0
    BY <1>1, <2>2
  <2> QED
    BY <1>1, <1>2, <1>3, <2>2, <2>3, <2>4
<1>5. p <= q + 1
  BY <1>2, <1>4
<1>6. PICK e \in Nat : q + 1 = p + e
  <2>1. q + 1 - p \in Nat /\ q + 1 = p + (q + 1 - p)
    BY <1>2, <1>5
  <2> QED
    BY <2>1
<1>7. Second * q + Second = Second * p + Second * e /\ Second * e >= 0
  BY <1>1, <1>2, <1>6
<1> QED
  BY <1>1, <1>2, <1>6, <1>7

(* Texts are in the order of their times.                                  *)
LEMMA BeginOfSecondOrder ==
  ASSUME NEW a \in Nat, NEW b \in Nat, a <= b
  PROVE  BeginOfSecond(a) <= BeginOfSecond(b)
<1> DEFINE p == a \div Second
           q == b \div Second
<1>1. Second \in Nat /\ Second > 0
  BY ClockAssumption
<1>2. p \in Nat /\ q \in Nat /\ BeginOfSecond(a) = Second * p
      /\ BeginOfSecond(b) = Second * q
  BY BeginOfSecondIsMultiple
<1>3. Second * p < Second * q + Second
  BY <1>1, <1>2, BeginOfSecondBounds
<1> HIDE DEF p, q
<1>4. p < q + 1
  <2>1. SUFFICES ASSUME p >= q + 1 PROVE FALSE
    BY <1>2
  <2>2. PICK d \in Nat : p = q + 1 + d
    <3>1. p - q - 1 \in Nat /\ p = q + 1 + (p - q - 1)
      BY <1>2, <2>1
    <3> QED
      BY <3>1
  <2>3. Second * p = Second * q + Second + Second * d
    BY <1>1, <1>2, <2>2
  <2>4. Second * d >= 0
    BY <1>1, <2>2
  <2> QED
    BY <1>1, <1>2, <1>3, <2>2, <2>3, <2>4
<1>5. PICK e \in Nat : q = p + e
  <2>1. q - p \in Nat /\ q = p + (q - p)
    BY <1>2, <1>4
  <2> QED
    BY <2>1
<1>6. Second * q = Second * p + Second * e /\ Second * e >= 0
  BY <1>1, <1>2, <1>5
<1> QED
  BY <1>1, <1>2, <1>5, <1>6

-----------------------------------------------------------------------------
(* Initially no thread has a text and no response has been sent.           *)
LEMMA DateInitInv == DateInit => DateIInv
<1> SUFFICES ASSUME DateInit PROVE DateIInv
  OBVIOUS
<1>1. DateTypeOK
  <2>1. Empty \in Int /\ 0 \in Int
    BY DEF Empty
  <2> QED
    BY <2>1 DEF DateInit, DateTypeOK
<1>2. Cached /\ Ordered /\ DateIsRecent /\ DatesInOrder
  BY DEF DateInit, Cached, Ordered, DateIsRecent, DatesInOrder
<1> QED
  BY <1>1, <1>2 DEF DateIInv

(* Time that goes by leaves every cache and every response as they are.    *)
LEMMA AdvanceInv == DateIInv /\ Advance => DateIInv'
<1> SUFFICES ASSUME DateIInv, Advance PROVE DateIInv'
  OBVIOUS
<1> USE DEF DateIInv
<1>1. DateTypeOK' /\ clock' > clock
  BY DEF Advance, DateTypeOK, Time
<1>2. Cached' /\ DateIsRecent' /\ DatesInOrder'
  BY DEF Advance, Cached, DateIsRecent, DatesInOrder, Rendered
<1>3. Ordered'
  <2>1. BeginOfSecond(clock) <= BeginOfSecond(clock')
    BY <1>1, BeginOfSecondOrder DEF DateTypeOK, Time
  <2>2. BeginOfSecond(clock) \in Nat /\ BeginOfSecond(clock') \in Nat
    BY <1>1, BeginOfSecondBounds DEF DateTypeOK, Time
  <2>3. \A t \in Threads : Rendered(t) \in Int
    BY ClockAssumption DEF DateTypeOK, Rendered
  <2> QED
    BY <1>1, <2>1, <2>2, <2>3 DEF Advance, Ordered, Rendered, DateTypeOK, Time
<1> QED
  BY <1>1, <1>2, <1>3

(* A clock that is set back promises nothing about the order.              *)
LEMMA SetBackInv == DateIInv /\ SetBack => DateIInv'
BY DEF DateIInv, SetBack, DateTypeOK, Cached, Ordered, DateIsRecent, DatesInOrder,
       Rendered, Time

(* The cache t formats from was rendered at some time r, not before the    *)
(* clock was a second ahead of r, if it is used as it is, and now if not.  *)
LEMMA FormatInv == ASSUME NEW t \in Threads, DateIInv, Format(t) PROVE DateIInv'
<1> DEFINE r == nextUpdate'[t] - Second
<1>1. Second \in Nat /\ Second > 0 /\ Time \subseteq Nat /\ clock \in Time
  BY ClockAssumption DEF DateIInv, DateTypeOK, Time
<1>2. /\ text' \in [Threads -> Int] /\ nextUpdate' \in [Threads -> Int]
      /\ \A u \in Threads \ {t} :
           text'[u] = text[u] /\ nextUpdate'[u] = nextUpdate[u]
      /\ clock' = clock /\ setBack' = setBack /\ sentAt' = clock
      /\ date' = text'[t]
      /\ newest' = IF date' > newest THEN date' ELSE newest
  BY <1>1, BeginOfSecondBounds DEF DateIInv, DateTypeOK, Format, Refresh, Update
<1>3. /\ r \in Time /\ text'[t] = BeginOfSecond(r)
      /\ clock <= r + Second
      /\ ~setBack => r <= clock
  <2>1. CASE clock > nextUpdate[t]
    BY <1>1, <2>1 DEF DateIInv, DateTypeOK, Format, Refresh, Update
  <2>2. CASE ~(clock > nextUpdate[t])
    <3>1. nextUpdate[t] \in Int /\ clock <= nextUpdate[t] /\ clock > 0
          /\ text' = text /\ nextUpdate' = nextUpdate
      BY <1>1, <2>2 DEF DateIInv, DateTypeOK, Format, Refresh, Time
    <3>2. r \in Time /\ text[t] = BeginOfSecond(r) /\ r = Rendered(t)
      BY <1>1, <3>1 DEF DateIInv, Cached, Rendered
    <3>3. text[t] # Empty
      <4>1. BeginOfSecond(r) \in Nat
        BY <1>1, <3>2, BeginOfSecondBounds
      <4> QED
        BY <3>2, <4>1 DEF Empty
    <3> QED
      BY <1>1, <3>1, <3>2, <3>3 DEF DateIInv, Ordered
  <2> QED
    BY <2>1, <2>2
<1> HIDE DEF r
<1>4. /\ BeginOfSecond(r) \in Nat /\ BeginOfSecond(r) <= r
      /\ r - BeginOfSecond(r) < Second
  BY <1>1, <1>3, BeginOfSecondBounds
<1>5. DateTypeOK'
  BY <1>1, <1>2 DEF DateIInv, DateTypeOK
<1>6. Cached'
  BY <1>2, <1>3 DEF DateIInv, Cached, Rendered, r
<1>7. Ordered'
  <2> SUFFICES ASSUME ~setBack PROVE Ordered'
    BY <1>2 DEF Ordered
  <2>1. BeginOfSecond(r) <= BeginOfSecond(clock)
    BY <1>1, <1>3, BeginOfSecondOrder
  <2>2. newest' # Empty => newest' <= BeginOfSecond(clock)
    BY <1>2, <1>3, <2>1 DEF DateIInv, Ordered
  <2>3. \A u \in Threads : text'[u] # Empty => Rendered(u)' <= clock
    BY <1>2, <1>3 DEF DateIInv, Ordered, Rendered, r
  <2> QED
    BY <1>2, <2>2, <2>3 DEF Ordered, BeginOfSecond
<1>8. DateIsRecent'
  BY <1>1, <1>2, <1>3, <1>4 DEF DateIsRecent, Empty, Time
<1>9. DatesInOrder'
  <2> SUFFICES ASSUME ~setBack PROVE date' <= sentAt' /\ newest' - date' <= Second
    BY <1>2 DEF DatesInOrder
  <2>1. date' <= sentAt'
    BY <1>1, <1>2, <1>3, <1>4
  <2>2. BeginOfSecond(clock) <= BeginOfSecond(r) + Second
    BY <1>1, <1>3, BeginOfNextSecond
  <2>3. BeginOfSecond(clock) \in Nat /\ newest \in Int
    BY <1>1, BeginOfSecondBounds DEF DateIInv, DateTypeOK
  <2>4. newest = Empty \/ newest <= BeginOfSecond(clock)
    BY DEF DateIInv, Ordered
  <2> QED
    BY <1>1, <1>2, <1>3, <1>4, <2>2, <2>3, <2>4 DEF Empty
<1> QED
  BY <1>5, <1>6, <1>7, <1>8, <1>9 DEF DateIInv

(* Every step keeps what is known of the caches and of the last response.  *)
THEOREM DateInvariance == DateSpec => []DateIInv
<1>1. DateIInv /\ [DateNext]_dateVars => DateIInv'
  <2> SUFFICES ASSUME DateIInv, [DateNext]_dateVars PROVE DateIInv'
    OBVIOUS
  <2>1. CASE UNCHANGED dateVars
    BY <2>1 DEF dateVars, DateIInv, DateTypeOK, Cached, Ordered, DateIsRecent, DatesInOrder,
                Rendered, BeginOfSecond
  <2> QED
    BY <2>1, AdvanceInv, SetBackInv, FormatInv DEF DateNext
<1> QED
  BY DateInitInv, <1>1, PTL DEF DateSpec

(* Every response is dated, and no date is two seconds old, whatever is    *)
(* done to the clock.                                                      *)
THEOREM NoDateIsOld == DateSpec => []DateIsRecent
<1>1. DateIInv => DateIsRecent
  BY DEF DateIInv
<1> QED
  BY DateInvariance, <1>1, PTL

(* Unless the clock is set back, no date is in the future or more than a   *)
(* second before one that any thread has sent.                             *)
THEOREM DatesAreOrdered == DateSpec => []DatesInOrder
<1>1. DateIInv => DatesInOrder
  BY DEF DateIInv
<1> QED
  BY DateInvariance, <1>1, PTL
=============================================================================
