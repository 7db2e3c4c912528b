--------------------------- MODULE FixturesProof ----------------------------
(***************************************************************************)
(* What the harness is told of a Linux composite, for every set of cases.  *)
(*                                                                         *)
(* The tool, the peer, the program and whoever waits for it each know what *)
(* they have received. The invariant ties this to what was done: who uses  *)
(* the connection (Line), that what only an executed operation prints was  *)
(* sent once, by one that was carried out, and that a receipt comes of it  *)
(* (Deeds), that a shell ends after its receipt was written (Shell), and   *)
(* what program and harness have concluded (Told).                         *)
(***************************************************************************)
EXTENDS Fixtures, Integers, SequenceTheorems, TLAPS

Kinds   == [peer : {"send", "netcat", "shell"}, entry : {"direct", "web", "npm"}]
Tokens  == {"echo", "out", "end"}
Answers == {"payload", "command", "ack"}
Has(q, t)  == \E k \in 1 .. Len(q) : q[k] = t
Once(q, t) == \A j, k \in 1 .. Len(q) : q[j] = t /\ q[k] = t => j = k
Sent(t) == Has(toPeer, t)

Typed ==
  /\ case \in Kinds
  /\ toPeer \in Seq(Tokens) /\ toTool \in Seq(Answers)
  /\ receipt \in {"none", "empty", "whole"}
  /\ did \in BOOLEAN /\ slow \in BOOLEAN

\* The connection is used by the two that opened it, once.
Line ==
  /\ tool \in {"none", "started"} => conn = "none" /\ toTool = << >>
  /\ tool \in {"executing", "reading", "ending"} => case.peer = "shell"
  /\ peer \in {"send", "command", "receive", "record", "ack", "drain"} =>
       conn = "open"
  /\ peer = "send" => case.peer = "send"
  /\ peer \in {"command", "ack", "drain"} => case.peer = "shell"

\* What was executed, what was sent of it and what was received.
Deeds ==
  /\ tool \in {"reading", "ending", "ok"} => did
  /\ did => tool \in {"reading", "ending", "ok", "bad"}
  /\ Sent("out") => did /\ receipt = "none" /\ peer # "record"
  /\ Once(toPeer, "out")
  /\ Sent("end") => tool = "ok"
  /\ receipt # "none" => did
  /\ peer = "record" => did /\ receipt # "whole"
  /\ peer = "ack" => receipt = "whole"

\* The shell waits for the answer, and the peer for the shell.
Shell ==
  case.peer = "shell" =>
    /\ peer = "command" \/ conn = "queued" => tool = "connected" /\ toTool = << >>
    /\ tool = "connected" => Len(toTool) <= 1
    /\ tool = "executing" => toTool = << >>
    /\ tool = "reading" /\ toTool # << >> => receipt = "whole"
    /\ tool \in {"ending", "ok"} => receipt = "whole"
    /\ conn = "closed" => tool = "ok" \/ slow
    /\ tool = "bad" /\ did => slow

\* A tool that only reads and fails has not got anything.
Sending == case.peer = "send" => (tool = "bad" => ~did)

\* What the program and the harness make of it.
Told ==
  /\ verdict \in {"none", "entering"} => program = "none" /\ tool = "none"
  /\ program = "ok" => did /\ (case.peer = "send" \/ receipt = "whole")
  /\ program = "bad" /\ ~slow /\ case.peer # "netcat" => tool = "bad"
  /\ code = "ok" => program = "ok"
  /\ verdict = "ok" => program = "ok"
  /\ verdict = "bad" /\ ~slow /\ case.entry # "npm" =>
       tool = "none" \/ program = "bad"

IInv == Typed /\ Line /\ Deeds /\ Shell /\ Sending /\ Told

(***************************************************************************)
(* What is under way.                                                      *)
(***************************************************************************)

(* What is sent comes last.                                                *)
LEMMA Appended ==
  ASSUME NEW S, NEW q \in Seq(S), NEW e \in S
  PROVE  /\ Append(q, e) \in Seq(S) /\ Len(Append(q, e)) = Len(q) + 1
         /\ \A t : Has(Append(q, e), t) <=> Has(q, t) \/ t = e
         /\ \A t : Once(q, t) /\ (t = e => ~Has(q, t)) => Once(Append(q, e), t)
<1>0. Len(q) \in Nat OBVIOUS
<1>1. /\ Append(q, e) \in Seq(S) /\ Len(Append(q, e)) = Len(q) + 1
      /\ \A k \in 1 .. Len(q) : Append(q, e)[k] = q[k]
      /\ Append(q, e)[Len(q) + 1] = e
  BY AppendProperties
<1>2. ASSUME NEW t PROVE Has(Append(q, e), t) <=> Has(q, t) \/ t = e
  BY <1>0, <1>1 DEF Has
<1>3. ASSUME NEW t, Once(q, t), t = e => ~Has(q, t) PROVE Once(Append(q, e), t)
  BY <1>0, <1>1, <1>3 DEF Has, Once
<1> QED BY <1>1, <1>2, <1>3

(* What is received came first.                                            *)
LEMMA Taken ==
  ASSUME NEW S, NEW q \in Seq(S), q # << >>
  PROVE  /\ Head(q) \in S /\ Tail(q) \in Seq(S) /\ Len(Tail(q)) = Len(q) - 1
         /\ Has(q, Head(q))
         /\ \A t : Has(Tail(q), t) => Has(q, t)
         /\ \A t : Once(q, t) => Once(Tail(q), t)
         /\ Once(q, Head(q)) => ~Has(Tail(q), Head(q))
<1>0. Len(q) \in Nat /\ Len(q) >= 1 BY EmptySeq
<1>1. /\ Head(q) = q[1] /\ Tail(q) \in Seq(S) /\ Len(Tail(q)) = Len(q) - 1
      /\ \A k \in 1 .. Len(q) - 1 : Tail(q)[k] = q[k + 1]
  BY HeadTailProperties
<1>2. Head(q) \in S BY <1>0, <1>1, ElementOfSeq
<1>3. Has(q, Head(q)) BY <1>0, <1>1 DEF Has
<1>4. ASSUME NEW t, Has(Tail(q), t) PROVE Has(q, t)
  <2>1. PICK k \in 1 .. Len(q) - 1 : Tail(q)[k] = t BY <1>1, <1>4 DEF Has
  <2>2. k + 1 \in 1 .. Len(q) /\ q[k + 1] = t BY <1>0, <1>1, <2>1
  <2> QED BY <2>2 DEF Has
<1>5. ASSUME NEW t, Once(q, t) PROVE Once(Tail(q), t)
  <2> SUFFICES ASSUME NEW j \in 1 .. Len(q) - 1, NEW k \in 1 .. Len(q) - 1,
                      Tail(q)[j] = t, Tail(q)[k] = t
               PROVE  j = k
    BY <1>1 DEF Once
  <2>1. j + 1 \in 1 .. Len(q) /\ k + 1 \in 1 .. Len(q) BY <1>0
  <2>2. q[j + 1] = t /\ q[k + 1] = t BY <1>1
  <2>3. j + 1 = k + 1 BY <1>5, <2>1, <2>2 DEF Once
  <2> QED BY <2>3
<1>6. ASSUME Once(q, Head(q)), Has(Tail(q), Head(q)) PROVE FALSE
  <2>1. PICK k \in 1 .. Len(q) - 1 : Tail(q)[k] = q[1] BY <1>1, <1>6 DEF Has
  <2>2. k + 1 \in 1 .. Len(q) /\ q[k + 1] = q[1] BY <1>0, <1>1, <2>1
  <2>3. 1 \in 1 .. Len(q) BY <1>0
  <2>4. k + 1 = 1 BY <1>1, <1>6, <2>2, <2>3 DEF Once
  <2> QED BY <2>1, <2>4
<1> QED BY <1>1, <1>2, <1>3, <1>4, <1>5, <1>6

(* Nothing is under way in an empty connection.                            *)
LEMMA Quiet == \A t : ~Has(<< >>, t) /\ Once(<< >>, t)
BY DEF Has, Once

(* What a step does to what the tool has sent: a token of the tool's is    *)
(* added, or the peer takes the first.                                     *)
Adds(e) == toPeer' = Append(toPeer, e)
Takes   == toPeer # << >> /\ toPeer' = Tail(toPeer)

(* The tool sends a token.                                                 *)
LEMMA Adding ==
  ASSUME Typed, NEW e \in Tokens, Adds(e)
  PROVE  /\ toPeer' \in Seq(Tokens)
         /\ \A t : Sent(t)' <=> Sent(t) \/ t = e
         /\ Once(toPeer, "out") /\ (e = "out" => ~Sent("out")) => Once(toPeer', "out")
<1>1. toPeer \in Seq(Tokens) BY DEF Typed
<1> QED BY <1>1, Appended DEF Adds, Sent

(* The peer takes the first.                                               *)
LEMMA Taking ==
  ASSUME Typed, Takes
  PROVE  /\ Head(toPeer) \in Tokens /\ toPeer' \in Seq(Tokens)
         /\ Sent(Head(toPeer))
         /\ \A t : Sent(t)' => Sent(t)
         /\ Once(toPeer, "out") => Once(toPeer', "out")
         /\ Once(toPeer, "out") /\ Head(toPeer) = "out" => ~Sent("out")'
<1>1. toPeer \in Seq(Tokens) BY DEF Typed
<1> QED BY <1>1, Taken DEF Takes, Sent

(***************************************************************************)
(* The invariant.                                                          *)
(***************************************************************************)
(* The types after every step.                                             *)
LEMMA TypedStep ==
  ASSUME Typed, [Next]_vars PROVE Typed'
<1> USE DEF Typed
<1>1. CASE StartService
  BY <1>1 DEF Typed, StartService, fixture, session, wires, native
<1>2. CASE Listen
  BY <1>2 DEF Typed, Listen, fixture, session, wires, native
<1>3. CASE StartSession
  BY <1>3 DEF Typed, StartSession, fixture, session, wires, native
<1>4. CASE Wait
  BY <1>4 DEF Typed, Wait, Late, InTime, fixture, session, wires, native
<1>5. CASE Arm
  BY <1>5 DEF Typed, Arm, fixture, session, wires, native
<1>6. CASE Write
  BY <1>6 DEF Typed, Write, fixture, session, wires, native
<1>7. CASE Enter
  BY <1>7 DEF Typed, Enter, Begin, fixture, session, wires, native
<1>8. CASE Trigger
  BY <1>8 DEF Typed, Trigger, Begin, fixture, session, wires, native
<1>9. CASE Output
  BY <1>9 DEF Typed, Output, fixture, session, wires, native
<1>10. CASE ReadCode
  BY <1>10 DEF Typed, ReadCode, fixture, session, wires, native
<1>11. CASE GiveUp
  BY <1>11 DEF Typed, GiveUp, Late, fixture, session, wires, native
<1>12. CASE Accept
  BY <1>12 DEF Typed, Accept, fixture, session, wires, native
<1>13. CASE Send
  BY <1>13, Appended DEF Send, Close, Answers, fixture, session, native
<1>14. CASE Command
  BY <1>14, Appended DEF Command, Answers, session, native
<1>15. CASE Receive
  BY <1>15, Taking DEF Receive, Takes, Close, session, native
<1>16. CASE Record
  BY <1>16 DEF Typed, Record, Close, fixture, session, wires, native
<1>17. CASE Acknowledge
  BY <1>17, Appended DEF Acknowledge, Answers, session, native
<1>18. CASE Drain
  BY <1>18, Taking DEF Drain, Takes, Close, session, native
<1>19. CASE PeerTimesOut
  BY <1>19 DEF Typed, PeerTimesOut, Late, Close, fixture, session, wires, native
<1>20. CASE Connect
  BY <1>20 DEF Typed, Connect, fixture, session, wires, native
<1>21. CASE Netcat
  <2>1. toPeer \o <<"out", "end">> = Append(Append(toPeer, "out"), "end")
    OBVIOUS
  <2>2. Append(toPeer, "out") \in Seq(Tokens) BY Appended DEF Tokens
  <2>3. toPeer' \in Seq(Tokens) BY <1>21, <2>1, <2>2, Appended DEF Netcat, Tokens
  <2> QED BY <1>21, <2>3 DEF Netcat, fixture, session
<1>22. CASE Fetch
  BY <1>22, Taken DEF Fetch, fixture, session
<1>23. CASE Verify
  BY <1>23 DEF Typed, Verify, fixture, session, wires, native
<1>24. CASE Alarm
  BY <1>24 DEF Typed, Alarm, Late, fixture, session, wires, native
<1>25. CASE ShellReads
  BY <1>25, Taken, Appended DEF ShellReads, Tokens, fixture, session
<1>26. CASE ShellExecutes
  BY <1>26, Appended DEF ShellExecutes, Tokens, fixture, session
<1>27. CASE ShellAnswered
  BY <1>27, Taken DEF ShellAnswered, fixture, session
<1>28. CASE ShellEnds
  BY <1>28, Appended DEF ShellEnds, Tokens, fixture, session
<1>29. CASE HangUp
  BY <1>29 DEF Typed, HangUp, fixture, session, wires, native
<1>30. CASE UNCHANGED vars
  BY <1>30 DEF Typed, vars, fixture, session, wires, native
<1> QED
  BY <1>1, <1>2, <1>3, <1>4, <1>5, <1>6, <1>7, <1>8, <1>9, <1>10,
     <1>11, <1>12, <1>13, <1>14, <1>15, <1>16, <1>17, <1>18, <1>19, <1>20,
     <1>21, <1>22, <1>23, <1>24, <1>25, <1>26, <1>27, <1>28, <1>29, <1>30 DEF Next

(* The connection after every step.                                        *)
LEMMA LineStep ==
  ASSUME Typed, Line, Told, [Next]_vars PROVE Line'
<1>1. CASE StartService
  BY <1>1 DEF Typed, Kinds, Line, StartService, fixture, session, wires, native
<1>2. CASE Listen
  BY <1>2 DEF Typed, Kinds, Line, Listen, fixture, session, wires, native
<1>3. CASE StartSession
  BY <1>3 DEF Typed, Kinds, Line, StartSession, fixture, session, wires, native
<1>4. CASE Wait
  BY <1>4 DEF Typed, Kinds, Line, Wait, Late, InTime, fixture, session, wires, native
<1>5. CASE Arm
  BY <1>5 DEF Typed, Kinds, Line, Arm, fixture, session, wires, native
<1>6. CASE Write
  BY <1>6 DEF Typed, Kinds, Line, Write, fixture, session, wires, native
<1>7. CASE Enter
  BY <1>7 DEF Line, Told, Enter, Begin, fixture, wires
<1>8. CASE Trigger
  BY <1>8 DEF Line, Told, Trigger, Begin, fixture, wires
<1>9. CASE Output
  BY <1>9 DEF Typed, Kinds, Line, Output, fixture, session, wires, native
<1>10. CASE ReadCode
  BY <1>10 DEF Typed, Kinds, Line, ReadCode, fixture, session, wires, native
<1>11. CASE GiveUp
  BY <1>11 DEF Typed, Kinds, Line, GiveUp, Late, fixture, session, wires, native
<1>12. CASE Accept
  BY <1>12 DEF Typed, Kinds, Line, Accept, fixture, session, wires, native
<1>13. CASE Send
  BY <1>13 DEF Typed, Kinds, Line, Send, Close, fixture, session, wires, native
<1>14. CASE Command
  BY <1>14 DEF Typed, Kinds, Line, Command, fixture, session, wires, native
<1>15. CASE Receive
  BY <1>15 DEF Typed, Kinds, Line, Receive, Close, Expected, fixture, session, wires, native
<1>16. CASE Record
  BY <1>16 DEF Typed, Kinds, Line, Record, Close, fixture, session, wires, native
<1>17. CASE Acknowledge
  BY <1>17 DEF Typed, Kinds, Line, Acknowledge, fixture, session, wires, native
<1>18. CASE Drain
  BY <1>18 DEF Typed, Kinds, Line, Drain, Close, Drained, fixture, session, wires, native
<1>19. CASE PeerTimesOut
  BY <1>19 DEF Typed, Kinds, Line, PeerTimesOut, Late, Close, fixture, session, wires, native
<1>20. CASE Connect
  BY <1>20 DEF Typed, Kinds, Line, Connect, fixture, session, wires, native
<1>21. CASE Netcat
  BY <1>21 DEF Typed, Kinds, Line, Netcat, fixture, session, wires, native
<1>22. CASE Fetch
  BY <1>22 DEF Typed, Kinds, Line, Fetch, fixture, session, wires, native
<1>23. CASE Verify
  BY <1>23 DEF Typed, Kinds, Line, Verify, fixture, session, wires, native
<1>24. CASE Alarm
  BY <1>24 DEF Typed, Kinds, Line, Alarm, Late, fixture, session, wires, native
<1>25. CASE ShellReads
  BY <1>25 DEF Typed, Kinds, Line, ShellReads, fixture, session, wires, native
<1>26. CASE ShellExecutes
  BY <1>26 DEF Typed, Kinds, Line, ShellExecutes, fixture, session, wires, native
<1>27. CASE ShellAnswered
  BY <1>27 DEF Typed, Kinds, Line, ShellAnswered, fixture, session, wires, native
<1>28. CASE ShellEnds
  BY <1>28 DEF Typed, Kinds, Line, ShellEnds, fixture, session, wires, native
<1>29. CASE HangUp
  BY <1>29 DEF Typed, Kinds, Line, HangUp, fixture, session, wires, native
<1>30. CASE UNCHANGED vars
  BY <1>30 DEF Typed, Kinds, Line, vars, fixture, session, wires, native
<1> QED
  BY <1>1, <1>2, <1>3, <1>4, <1>5, <1>6, <1>7, <1>8, <1>9, <1>10,
     <1>11, <1>12, <1>13, <1>14, <1>15, <1>16, <1>17, <1>18, <1>19, <1>20,
     <1>21, <1>22, <1>23, <1>24, <1>25, <1>26, <1>27, <1>28, <1>29, <1>30 DEF Next

(* What was executed and received after every step.                        *)
LEMMA DeedsStep ==
  ASSUME Typed, Line, Deeds, Told, [Next]_vars PROVE Deeds'
<1>1. CASE StartService
  BY <1>1 DEF Deeds, Sent, StartService, fixture, session, wires, native
<1>2. CASE Listen
  BY <1>2 DEF Deeds, Sent, Listen, fixture, session, wires, native
<1>3. CASE StartSession
  BY <1>3 DEF Deeds, Sent, StartSession, fixture, session, wires, native
<1>4. CASE Wait
  BY <1>4 DEF Deeds, Sent, Wait, Late, InTime, fixture, session, wires, native
<1>5. CASE Arm
  BY <1>5 DEF Deeds, Sent, Arm, fixture, session, wires, native
<1>6. CASE Write
  BY <1>6 DEF Deeds, Sent, Write, fixture, session, wires, native
<1>7. CASE Enter
  BY <1>7 DEF Enter, Deeds, Told, Begin, Sent, fixture, session, wires
<1>8. CASE Trigger
  BY <1>8 DEF Trigger, Deeds, Told, Begin, Sent, fixture, session, wires
<1>9. CASE Output
  BY <1>9 DEF Deeds, Sent, Output, fixture, session, wires, native
<1>10. CASE ReadCode
  BY <1>10 DEF Deeds, Sent, ReadCode, fixture, session, wires, native
<1>11. CASE GiveUp
  BY <1>11 DEF Deeds, Sent, GiveUp, Late, fixture, session, wires, native
<1>12. CASE Accept
  BY <1>12 DEF Accept, Deeds, Sent, Typed, Kinds, session, wires, native
<1>13. CASE Send
  BY <1>13 DEF Deeds, Sent, Send, Close, fixture, session, wires, native
<1>14. CASE Command
  BY <1>14 DEF Deeds, Sent, Command, fixture, session, wires, native
<1>15. CASE Receive
  <2>1. Takes BY <1>15 DEF Receive, Takes
  <2>2. CASE Head(toPeer) = "out"
    BY <1>15, <2>1, <2>2, Taking DEF Deeds, Receive, Expected, Close, session, native
  <2>3. CASE Head(toPeer) # "out"
    BY <1>15, <2>1, <2>3, Taking DEF Deeds, Receive, Expected, Close, session, native
  <2> QED BY <2>2, <2>3
<1>16. CASE Record
  BY <1>16 DEF Deeds, Sent, Record, Close, fixture, session, wires, native
<1>17. CASE Acknowledge
  BY <1>17 DEF Deeds, Sent, Acknowledge, fixture, session, wires, native
<1>18. CASE Drain
  <2>1. CASE UNCHANGED toPeer BY <1>18, <2>1 DEF Deeds, Sent, Drain, Close, session, native
  <2>2. CASE Takes BY <1>18, <2>2, Taking DEF Deeds, Drain, Close, session, native
  <2> QED BY <1>18, <2>1, <2>2 DEF Drain, Takes
<1>19. CASE PeerTimesOut
  BY <1>19 DEF Deeds, Sent, PeerTimesOut, Late, Close, fixture, session, wires, native
<1>20. CASE Connect
  BY <1>20 DEF Deeds, Sent, Connect, fixture, session, wires, native
<1>21. CASE Netcat
  <2>1. toPeer \o <<"out", "end">> = Append(Append(toPeer, "out"), "end")
    BY DEF Typed
  <2>2. Append(toPeer, "out") \in Seq(Tokens) BY Appended DEF Typed, Tokens
  <2>3. ~Sent("out") /\ ~did /\ ~Sent("end") BY <1>21 DEF Deeds, Netcat
  <2>4. ~Has(Append(toPeer, "out"), "end") /\ Once(Append(toPeer, "out"), "out")
    BY <2>3, Appended DEF Deeds, Typed, Tokens, Sent
  <2>5. Once(toPeer', "out")
    <3>0. "end" \in Tokens BY DEF Tokens
    <3> DEFINE q == Append(toPeer, "out")
    <3> HIDE DEF q
    <3>2. q \in Seq(Tokens) /\ Once(q, "out") BY <2>2, <2>4 DEF q
    <3>3. Once(Append(q, "end"), "out") BY <3>0, <3>2, Appended
    <3>1. Once(Append(Append(toPeer, "out"), "end"), "out") BY <3>3 DEF q
    <3> QED BY <1>21, <2>1, <3>1 DEF Netcat
  <2>6. receipt = "none" /\ peer # "record" BY <2>3 DEF Deeds
  <2> QED BY <1>21, <2>5, <2>6 DEF Deeds, Netcat, fixture, session
<1>22. CASE Fetch
  BY <1>22 DEF Deeds, Sent, Fetch, fixture, session, wires, native
<1>23. CASE Verify
  BY <1>23 DEF Deeds, Sent, Verify, fixture, session, wires, native
<1>24. CASE Alarm
  BY <1>24 DEF Deeds, Sent, Alarm, Late, fixture, session, wires, native
<1>25. CASE ShellReads
  <2>1. Adds("echo") BY <1>25 DEF ShellReads, Adds
  <2> QED BY <1>25, <2>1, Adding DEF Deeds, ShellReads, Tokens, fixture, session
<1>26. CASE ShellExecutes
  <2>1. Adds("out") BY <1>26 DEF ShellExecutes, Adds
  <2>2. ~did BY <1>26 DEF ShellExecutes, Deeds
  <2> QED BY <1>26, <2>1, <2>2, Adding DEF Deeds, ShellExecutes, Tokens, fixture, session
<1>27. CASE ShellAnswered
  BY <1>27 DEF Deeds, Sent, ShellAnswered, fixture, session, wires, native
<1>28. CASE ShellEnds
  <2>1. Adds("end") BY <1>28 DEF ShellEnds, Adds
  <2> QED BY <1>28, <2>1, Adding DEF Deeds, ShellEnds, Tokens, fixture, session
<1>29. CASE HangUp
  BY <1>29 DEF Deeds, Sent, HangUp, fixture, session, wires, native
<1>30. CASE UNCHANGED vars
  BY <1>30 DEF Deeds, Sent, vars, fixture, session, wires, native
<1> QED
  BY <1>1, <1>2, <1>3, <1>4, <1>5, <1>6, <1>7, <1>8, <1>9, <1>10,
     <1>11, <1>12, <1>13, <1>14, <1>15, <1>16, <1>17, <1>18, <1>19, <1>20,
     <1>21, <1>22, <1>23, <1>24, <1>25, <1>26, <1>27, <1>28, <1>29, <1>30 DEF Next

(* The shell and the peer after every step.                                *)
LEMMA ShellStep ==
  ASSUME Typed, Line, Deeds, Shell, Told, [Next]_vars PROVE Shell'
<1>0. case' = case
  BY DEF Next, vars, StartService, Listen, StartSession, Wait, Arm, Write, Enter, Trigger,
     Output, ReadCode, GiveUp, Accept, Send, Command, Receive, Record, Acknowledge, Drain,
     PeerTimesOut, Connect, Netcat, Fetch, Verify, Alarm, ShellReads, ShellExecutes,
     ShellAnswered, ShellEnds, HangUp
<1>1. CASE StartService
  BY <1>1, <1>0 DEF Shell, StartService, fixture, session, wires, native
<1>2. CASE Listen
  BY <1>2, <1>0 DEF Shell, Listen, fixture, session, wires, native
<1>3. CASE StartSession
  BY <1>3, <1>0 DEF Shell, StartSession, fixture, session, wires, native
<1>4. CASE Wait
  BY <1>4, <1>0 DEF Shell, Wait, Late, InTime, fixture, session, wires, native
<1>5. CASE Arm
  BY <1>5, <1>0 DEF Shell, Arm, fixture, session, wires, native
<1>6. CASE Write
  BY <1>6, <1>0 DEF Shell, Write, fixture, session, wires, native
<1>7. CASE Enter
  BY <1>0, <1>7 DEF Enter, Shell, Line, Told, Begin, fixture, session, wires
<1>8. CASE Trigger
  BY <1>0, <1>8 DEF Trigger, Shell, Line, Told, Begin, fixture, session, wires
<1>9. CASE Output
  BY <1>9, <1>0 DEF Shell, Output, fixture, session, wires, native
<1>10. CASE ReadCode
  BY <1>10, <1>0 DEF Shell, ReadCode, fixture, session, wires, native
<1>11. CASE GiveUp
  BY <1>11, <1>0 DEF Shell, GiveUp, Late, fixture, session, wires, native
<1>12. CASE Accept
  BY <1>0, <1>12 DEF Accept, Shell, Typed, Kinds, session, wires, native
<1>13. CASE Send
  BY <1>0, <1>13 DEF Send, Shell, Line, Close
<1>14. CASE Command
  <2> SUFFICES ASSUME case.peer = "shell" PROVE Shell' BY <1>0 DEF Shell
  <2>1. tool = "connected" /\ toTool = << >> /\ conn = "open" BY <1>14 DEF Command, Shell, Line
  <2>2. toTool' = <<"command">> BY <1>14, <2>1 DEF Command
  <2>3. Len(toTool') = 1 BY <2>2
  <2> QED BY <1>0, <1>14, <2>1, <2>3 DEF Command, Shell, session, native
<1>15. CASE Receive
  <2>1. Takes BY <1>15 DEF Receive, Takes
  <2>2. Head(toPeer) = "end" => tool = "ok" BY <2>1, Taking DEF Deeds
  <2> QED BY <1>0, <1>15, <2>2 DEF Receive, Expected, Close, Shell, Line, session, native
<1>16. CASE Record
  BY <1>0, <1>16 DEF Record, Shell, Line, Deeds, Close, session, wires, native
<1>17. CASE Acknowledge
  <2> SUFFICES ASSUME case.peer = "shell" PROVE Shell' BY <1>0 DEF Shell
  <2>1. receipt = "whole" /\ did /\ conn = "open" BY <1>17 DEF Acknowledge, Deeds, Line
  <2>2. tool \in {"reading", "ending", "ok", "bad"} BY <2>1 DEF Deeds
  <2> QED BY <1>0, <1>17, <2>1, <2>2 DEF Acknowledge, Shell, session, native
<1>18. CASE Drain
  <2>1. Drained => tool = "ok"
    <3>1. SUFFICES ASSUME Drained PROVE Sent("end") BY DEF Deeds
    <3>2. Has(toPeer, Head(toPeer)) BY <3>1, Taken DEF Drained, Typed
    <3> QED BY <3>1, <3>2 DEF Drained, Sent
  <2> QED BY <1>0, <1>18, <2>1 DEF Drain, Close, Shell, Line, session, native
<1>19. CASE PeerTimesOut
  BY <1>19, <1>0 DEF Shell, PeerTimesOut, Late, Close, fixture, session, wires, native
<1>20. CASE Connect
  BY <1>0, <1>20 DEF Connect, Shell, Line, Deeds, session, wires
<1>21. CASE Netcat
  BY <1>21, <1>0 DEF Shell, Netcat, fixture, session, wires, native
<1>22. CASE Fetch
  BY <1>22, <1>0 DEF Shell, Fetch, fixture, session, wires, native
<1>23. CASE Verify
  BY <1>23, <1>0 DEF Shell, Verify, fixture, session, wires, native
<1>24. CASE Alarm
  BY <1>24, <1>0 DEF Shell, Alarm, Late, fixture, session, wires, native
<1>25. CASE ShellReads
  <2>1. Len(toTool) <= 1 /\ toTool \in Seq(Answers) /\ toTool # << >>
    BY <1>25 DEF ShellReads, Shell, Typed
  <2>2. toTool' \in Seq(Answers) /\ Len(toTool') = Len(toTool) - 1
    BY <1>25, <2>1, Taken DEF ShellReads
  <2>3. Len(toTool) \in Nat /\ Len(toTool') \in Nat BY <2>1, <2>2
  <2>4. Len(toTool') = 0 BY <2>1, <2>2, <2>3
  <2>5. toTool' = << >> BY <2>2, <2>4, EmptySeq
  <2> QED BY <1>0, <1>25, <2>1, <2>5 DEF ShellReads, Shell, fixture, session
<1>26. CASE ShellExecutes
  BY <1>26, <1>0 DEF Shell, ShellExecutes, fixture, session, wires, native
<1>27. CASE ShellAnswered
  BY <1>27, <1>0 DEF Shell, ShellAnswered, fixture, session, wires, native
<1>28. CASE ShellEnds
  BY <1>28, <1>0 DEF Shell, ShellEnds, fixture, session, wires, native
<1>29. CASE HangUp
  BY <1>0, <1>29 DEF HangUp, Shell, Line, fixture, session, wires
<1>30. CASE UNCHANGED vars
  BY <1>30, <1>0 DEF Shell, vars, fixture, session, wires, native
<1> QED
  BY <1>1, <1>2, <1>3, <1>4, <1>5, <1>6, <1>7, <1>8, <1>9, <1>10,
     <1>11, <1>12, <1>13, <1>14, <1>15, <1>16, <1>17, <1>18, <1>19, <1>20,
     <1>21, <1>22, <1>23, <1>24, <1>25, <1>26, <1>27, <1>28, <1>29, <1>30 DEF Next

(* The tools that only read, after every step.                             *)
LEMMA SendingStep ==
  ASSUME Typed, Line, Deeds, Sending, Told, [Next]_vars PROVE Sending'
<1>0. case' = case
  BY DEF Next, vars, StartService, Listen, StartSession, Wait, Arm, Write, Enter, Trigger,
     Output, ReadCode, GiveUp, Accept, Send, Command, Receive, Record, Acknowledge, Drain,
     PeerTimesOut, Connect, Netcat, Fetch, Verify, Alarm, ShellReads, ShellExecutes,
     ShellAnswered, ShellEnds, HangUp
<1>1. CASE StartService
  BY <1>1, <1>0 DEF Sending, StartService, fixture, session, wires, native
<1>2. CASE Listen
  BY <1>2, <1>0 DEF Sending, Listen, fixture, session, wires, native
<1>3. CASE StartSession
  BY <1>3, <1>0 DEF Sending, StartSession, fixture, session, wires, native
<1>4. CASE Wait
  BY <1>4, <1>0 DEF Sending, Wait, Late, InTime, fixture, session, wires, native
<1>5. CASE Arm
  BY <1>5, <1>0 DEF Sending, Arm, fixture, session, wires, native
<1>6. CASE Write
  BY <1>6, <1>0 DEF Sending, Write, fixture, session, wires, native
<1>7. CASE Enter
  BY <1>7, <1>0 DEF Sending, Enter, Begin, fixture, session, wires, native
<1>8. CASE Trigger
  BY <1>8, <1>0 DEF Sending, Trigger, Begin, fixture, session, wires, native
<1>9. CASE Output
  BY <1>9, <1>0 DEF Sending, Output, fixture, session, wires, native
<1>10. CASE ReadCode
  BY <1>10, <1>0 DEF Sending, ReadCode, fixture, session, wires, native
<1>11. CASE GiveUp
  BY <1>11, <1>0 DEF Sending, GiveUp, Late, fixture, session, wires, native
<1>12. CASE Accept
  BY <1>12, <1>0 DEF Sending, Accept, fixture, session, wires, native
<1>13. CASE Send
  BY <1>13, <1>0 DEF Sending, Send, Close, fixture, session, wires, native
<1>14. CASE Command
  BY <1>14, <1>0 DEF Sending, Command, fixture, session, wires, native
<1>15. CASE Receive
  BY <1>15, <1>0 DEF Sending, Receive, Close, Expected, fixture, session, wires, native
<1>16. CASE Record
  BY <1>16, <1>0 DEF Sending, Record, Close, fixture, session, wires, native
<1>17. CASE Acknowledge
  BY <1>17, <1>0 DEF Sending, Acknowledge, fixture, session, wires, native
<1>18. CASE Drain
  BY <1>18, <1>0 DEF Sending, Drain, Close, Drained, fixture, session, wires, native
<1>19. CASE PeerTimesOut
  BY <1>19, <1>0 DEF Sending, PeerTimesOut, Late, Close, fixture, session, wires, native
<1>20. CASE Connect
  BY <1>0, <1>20 DEF Connect, Sending, Deeds
<1>21. CASE Netcat
  BY <1>21, <1>0 DEF Sending, Netcat, fixture, session, wires, native
<1>22. CASE Fetch
  BY <1>22, <1>0 DEF Sending, Fetch, fixture, session, wires, native
<1>23. CASE Verify
  BY <1>23, <1>0 DEF Sending, Verify, fixture, session, wires, native
<1>24. CASE Alarm
  BY <1>24, <1>0 DEF Sending, Alarm, Late, fixture, session, wires, native
<1>25. CASE ShellReads
  BY <1>25, <1>0 DEF Sending, ShellReads, fixture, session, wires, native
<1>26. CASE ShellExecutes
  BY <1>26, <1>0 DEF Sending, ShellExecutes, fixture, session, wires, native
<1>27. CASE ShellAnswered
  BY <1>27, <1>0 DEF Sending, ShellAnswered, fixture, session, wires, native
<1>28. CASE ShellEnds
  BY <1>28, <1>0 DEF Sending, ShellEnds, fixture, session, wires, native
<1>29. CASE HangUp
  BY <1>0, <1>29 DEF HangUp, Sending, Deeds, Line
<1>30. CASE UNCHANGED vars
  BY <1>30, <1>0 DEF Sending, vars, fixture, session, wires, native
<1> QED
  BY <1>1, <1>2, <1>3, <1>4, <1>5, <1>6, <1>7, <1>8, <1>9, <1>10,
     <1>11, <1>12, <1>13, <1>14, <1>15, <1>16, <1>17, <1>18, <1>19, <1>20,
     <1>21, <1>22, <1>23, <1>24, <1>25, <1>26, <1>27, <1>28, <1>29, <1>30 DEF Next

(* What is told, after every step.                                         *)
LEMMA ToldStep ==
  ASSUME Typed, Line, Deeds, Shell, Told, [Next]_vars PROVE Told'
<1>0. case' = case
  BY DEF Next, vars, StartService, Listen, StartSession, Wait, Arm, Write, Enter, Trigger,
     Output, ReadCode, GiveUp, Accept, Send, Command, Receive, Record, Acknowledge, Drain,
     PeerTimesOut, Connect, Netcat, Fetch, Verify, Alarm, ShellReads, ShellExecutes,
     ShellAnswered, ShellEnds, HangUp
<1>1. CASE StartService
  BY <1>1, <1>0 DEF Told, StartService, fixture, session, wires, native
<1>2. CASE Listen
  BY <1>2, <1>0 DEF Told, Listen, fixture, session, wires, native
<1>3. CASE StartSession
  BY <1>3, <1>0 DEF Told, StartSession, fixture, session, wires, native
<1>4. CASE Wait
  BY <1>4, <1>0 DEF Told, Wait, Late, InTime, fixture, session, wires, native
<1>5. CASE Arm
  BY <1>5, <1>0 DEF Told, Arm, fixture, session, wires, native
<1>6. CASE Write
  BY <1>0, <1>6 DEF Write, Told, fixture, wires, native
<1>7. CASE Enter
  BY <1>7, <1>0 DEF Told, Enter, Begin, fixture, session, wires, native
<1>8. CASE Trigger
  BY <1>8, <1>0 DEF Told, Trigger, Begin, fixture, session, wires, native
<1>9. CASE Output
  BY <1>9, <1>0 DEF Told, Output, fixture, session, wires, native
<1>10. CASE ReadCode
  BY <1>10, <1>0 DEF Told, ReadCode, fixture, session, wires, native
<1>11. CASE GiveUp
  BY <1>11, <1>0 DEF Told, GiveUp, Late, fixture, session, wires, native
<1>12. CASE Accept
  BY <1>12, <1>0 DEF Told, Accept, fixture, session, wires, native
<1>13. CASE Send
  BY <1>13, <1>0 DEF Told, Send, Close, fixture, session, wires, native
<1>14. CASE Command
  BY <1>14, <1>0 DEF Told, Command, fixture, session, wires, native
<1>15. CASE Receive
  BY <1>15, <1>0 DEF Told, Receive, Close, Expected, fixture, session, wires, native
<1>16. CASE Record
  BY <1>0, <1>16 DEF Record, Told, Deeds, Close, session, wires, native
<1>17. CASE Acknowledge
  BY <1>17, <1>0 DEF Told, Acknowledge, fixture, session, wires, native
<1>18. CASE Drain
  BY <1>18, <1>0 DEF Told, Drain, Close, Drained, fixture, session, wires, native
<1>19. CASE PeerTimesOut
  BY <1>19, <1>0 DEF Told, PeerTimesOut, Late, Close, fixture, session, wires, native
<1>20. CASE Connect
  BY <1>20, <1>0 DEF Told, Connect, fixture, session, wires, native
<1>21. CASE Netcat
  BY <1>21, <1>0 DEF Told, Netcat, fixture, session, wires, native
<1>22. CASE Fetch
  BY <1>22, <1>0 DEF Told, Fetch, fixture, session, wires, native
<1>23. CASE Verify
  BY <1>0, <1>23 DEF Verify, Told, Deeds, Shell, Typed, Kinds, fixture, session, wires
<1>24. CASE Alarm
  BY <1>24, <1>0 DEF Told, Alarm, Late, fixture, session, wires, native
<1>25. CASE ShellReads
  BY <1>25, <1>0 DEF Told, ShellReads, fixture, session, wires, native
<1>26. CASE ShellExecutes
  BY <1>26, <1>0 DEF Told, ShellExecutes, fixture, session, wires, native
<1>27. CASE ShellAnswered
  BY <1>27, <1>0 DEF Told, ShellAnswered, fixture, session, wires, native
<1>28. CASE ShellEnds
  BY <1>28, <1>0 DEF Told, ShellEnds, fixture, session, wires, native
<1>29. CASE HangUp
  BY <1>29, <1>0 DEF Told, HangUp, fixture, session, wires, native
<1>30. CASE UNCHANGED vars
  BY <1>30, <1>0 DEF Told, vars, fixture, session, wires, native
<1> QED
  BY <1>1, <1>2, <1>3, <1>4, <1>5, <1>6, <1>7, <1>8, <1>9, <1>10,
     <1>11, <1>12, <1>13, <1>14, <1>15, <1>16, <1>17, <1>18, <1>19, <1>20,
     <1>21, <1>22, <1>23, <1>24, <1>25, <1>26, <1>27, <1>28, <1>29, <1>30 DEF Next

(* The invariant holds of every state.                                     *)
LEMMA Invariant ==
  ASSUME Cases \subseteq Kinds PROVE Spec => []IInv
<1>1. Init => IInv
  <2> SUFFICES ASSUME Init PROVE IInv OBVIOUS
  <2>1. toPeer = << >> /\ toTool = << >> BY DEF Init
  <2>2. \A t : ~Has(toPeer, t) /\ Once(toPeer, t) BY <2>1, Quiet
  <2>3. case \in Kinds BY DEF Init
  <2>4. Typed
    <3>1. toPeer \in Seq(Tokens) /\ toTool \in Seq(Answers) BY <2>1
    <3>2. receipt = "none" /\ did = FALSE /\ slow = FALSE BY DEF Init
    <3> QED BY <2>3, <3>1, <3>2 DEF Typed
  <2>5. Line /\ Sending /\ Told BY <2>1 DEF Init, Line, Sending, Told
  <2>6. Deeds BY <2>2 DEF Init, Deeds, Sent
  <2>7. Shell BY DEF Init, Shell
  <2> QED BY <2>4, <2>5, <2>6, <2>7 DEF IInv
<1>2. IInv /\ [Next]_vars => IInv'
  BY TypedStep, LineStep, DeedsStep, ShellStep, SendingStep, ToldStep DEF IInv
<1> QED BY <1>1, <1>2, PTL DEF Spec

(* The harness is told the truth: "ok" only of what was carried out and    *)
(* received, a receipt only of executed output, and no failure of what was *)
(* carried out in time, except where a file is read while it is written    *)
(* (fixtures/services.py:11-32, fixtures/invoke.py:3-24).                  *)
THEOREM HarnessIsToldTheTruth ==
  ASSUME Cases \subseteq Kinds PROVE Spec => []VerdictIsTrue
<1>1. IInv => VerdictIsTrue
  <2> SUFFICES ASSUME IInv PROVE VerdictIsTrue OBVIOUS
  <2>1. verdict = "ok" => did /\ (case.peer # "send" => receipt = "whole")
    BY DEF IInv, Told
  <2>2. receipt # "none" => did BY DEF IInv, Deeds
  <2>3. verdict = "bad" /\ did /\ ~slow => Unguarded
    <3>0. SUFFICES ASSUME verdict = "bad", did, ~slow, ~Unguarded PROVE FALSE OBVIOUS
    <3>1. tool # "none" BY <3>0 DEF IInv, Deeds
    <3>2. program = "bad" /\ tool = "bad" BY <3>0, <3>1 DEF IInv, Told, Unguarded
    <3>3. case.peer \in {"send", "shell"} BY <3>0 DEF IInv, Typed, Kinds, Unguarded
    <3> QED BY <3>0, <3>2, <3>3 DEF IInv, Shell, Sending
  <2> QED BY <2>1, <2>2, <2>3 DEF VerdictIsTrue
<1> QED BY <1>1, Invariant, PTL
=============================================================================
