------------------------------ MODULE Fixtures ------------------------------
(***************************************************************************)
(* The fixtures of a Linux composite, inside its container: what           *)
(* prepare.py starts before the capture, the peer on the container's own   *)
(* network (services.py), Apache, the Bun installation that waits at a     *)
(* FIFO (npm_session.py, gated_exec.py), and the way the measured program  *)
(* is entered and its outcome handed on (invoke.py).  The program starts   *)
(* one tool that talks to the peer, waits for it and checks what came of   *)
(* it (external).                                                          *)
(*                                                                         *)
(* A case is what it talks to and how it is entered; the peers for HTTP    *)
(* and for plain payloads are one.  What passes through a connection is    *)
(* abstracted to tokens: "command" and "ack" to a shell, "payload" to      *)
(* other tools, "echo" (the shell shows its input), "out" (what only the   *)
(* executed operation prints) and "end" to the peer.  Controls, which do   *)
(* not talk to anyone, are left out.                                       *)
(***************************************************************************)
EXTENDS Sequences

\* The cases explored: [peer : {"send", "netcat", "shell"}, entry : {"direct",
\* "web", "npm"}].
CONSTANT Cases

VARIABLES
    case,
    prep,     \* prepare.py: "service", "port", "session", "gate", "ready", "failed"
    peer,     \* services.py: "off", "starting", "accept", or where handle_peer is, or "dead"
    toPeer,   \* what the tool has sent and the peer has not received
    toTool,   \* what the peer has sent
    conn,     \* the connection: "none", "queued", "open", "closed" by the peer
    receipt,  \* the file "received": "none", "empty", "whole"
    gate,     \* gated_exec.py, or Apache: "off", "starting", "waiting", "execed", "dead"
    code,     \* npm-result.json: "none", "empty", "ok", "bad"
    tool,     \* the program's tool: "none", "started", or where it is, "ok", "bad"
    program,  \* the program: "none", "running", "ok", "bad"
    verdict,  \* what the harness is told: "none", "entering", "waiting", "ok", "bad", "timeout"
    did,      \* history: the tool did all that the case asks for
    slow      \* history: somebody ran out of time

fixture == <<prep, peer, conn, receipt>>
session == <<gate, code>>
wires   == <<toPeer, toTool>>
native  == <<tool, program, did>>
vars == <<case, fixture, session, wires, native, verdict, slow>>

InTime == UNCHANGED slow
Late   == slow' = TRUE

----------------------------------------------------------------------------
(* prepare.py                                                              *)

StartService ==
    /\ prep = "service"
    /\ prep' = "port" /\ peer' = "starting"
    /\ UNCHANGED <<case, conn, receipt, session, wires, native, verdict, slow>>

\* The service binds its port, or dies of an error.
Listen ==
    /\ peer = "starting" /\ peer' \in {"accept", "dead"}
    /\ UNCHANGED <<case, prep, conn, receipt, session, wires, native, verdict, slow>>

StartSession ==
    /\ prep = "session"
    /\ prep' = "gate" /\ gate' = "starting"
    /\ UNCHANGED <<case, peer, conn, receipt, code, wires, native, verdict, slow>>

\* A port is looked for in /proc, without connecting; the FIFO's reader by a
\* file.  Five and ten seconds at most, and no longer than the process lives.
Awaited == IF prep = "port" THEN peer ELSE gate
Prepared == IF prep = "port" /\ case.entry # "direct" THEN "session" ELSE "ready"

Wait ==
    /\ prep \in {"port", "gate"}
    /\ \/ Awaited \in {"accept", "waiting"} /\ prep' = Prepared /\ InTime
       \/ Awaited = "dead" /\ prep' = "failed" /\ InTime
       \/ Awaited = "starting" /\ prep' = "failed" /\ Late
    /\ UNCHANGED <<case, peer, conn, receipt, session, wires, native, verdict>>

----------------------------------------------------------------------------
(* npm_session.py and gated_exec.py; Apache                                *)

\* Apache listens.  Or native-ready is written, before the FIFO is opened:
\* whoever opens it next waits for this reader.  Either may also end by an
\* error before the program was started.
Arm ==
    /\ \/ gate = "starting" /\ gate' = "waiting"
       \/ /\ gate \in {"starting", "waiting"} /\ verdict # "waiting"
          /\ gate' = "dead"
    /\ UNCHANGED <<case, fixture, code, wires, native, verdict, slow>>

\* The installation's exit code, the program's own, is written to a file, which
\* is created first.
Write ==
    /\ case.entry = "npm"
    /\ \/ /\ code = "none" /\ code' = "empty"
          /\ gate = "dead" \/ (gate = "execed" /\ program \in {"ok", "bad"})
       \/ code = "empty" /\ code' = IF gate = "dead" THEN "bad" ELSE program
    /\ UNCHANGED <<case, fixture, gate, wires, native, verdict, slow>>

----------------------------------------------------------------------------
(* The harness enters the container, and invoke.py.                        *)

Begin == verdict' = "waiting" /\ program' = "running" /\ tool' = "started"

Enter ==
    /\ prep = "ready" /\ verdict = "none"
    /\ \/ case.entry = "npm" /\ verdict' = "entering" /\ UNCHANGED <<tool, program>>
       \/ /\ case.entry = "web" /\ gate = "dead"
          /\ verdict' = "bad" /\ UNCHANGED <<tool, program>>
       \/ case.entry # "npm" /\ gate # "dead" /\ Begin
    /\ UNCHANGED <<case, fixture, session, wires, did, slow>>

\* The FIFO opens when both ends are there; the program replaces gated_exec.
Trigger ==
    /\ verdict = "entering" /\ gate = "waiting"
    /\ gate' = "execed" /\ Begin
    /\ UNCHANGED <<case, fixture, code, wires, did, slow>>

\* The program itself, or Apache: its marker is in the output only when it ended
\* well.
Output ==
    /\ verdict = "waiting" /\ case.entry # "npm"
    /\ program \in {"ok", "bad"} /\ verdict' = program
    /\ UNCHANGED <<case, fixture, session, wires, native, slow>>

\* The installation: its file is read as soon as it exists.
ReadCode ==
    /\ verdict = "waiting" /\ case.entry = "npm"
    /\ code # "none"
    /\ verdict' = IF code = "ok" THEN "ok" ELSE "bad"
    /\ UNCHANGED <<case, fixture, session, wires, native, slow>>

\* invoke.py waits 12.5 s for the file or 15 s for Apache, the harness 20 s.
GiveUp ==
    /\ verdict \in {"entering", "waiting"}
    /\ \/ case.entry # "direct" /\ verdict = "waiting" /\ verdict' = "bad"
       \/ verdict' = "timeout"
    /\ Late
    /\ UNCHANGED <<case, fixture, session, wires, native>>

----------------------------------------------------------------------------
(* services.py: one connection after the other; an error ends the service. *)

Accept ==
    /\ peer = "accept" /\ conn = "queued"
    /\ conn' = "open"
    /\ peer' = CASE case.peer = "send" -> "send" [] case.peer = "netcat" -> "receive"
                 [] case.peer = "shell" -> "command"
    /\ UNCHANGED <<case, prep, receipt, session, wires, native, verdict, slow>>

Close(next) == conn' = "closed" /\ peer' = next

Send ==
    /\ peer = "send"
    /\ toTool' = Append(toTool, "payload") /\ Close("accept")
    /\ UNCHANGED <<case, prep, receipt, session, toPeer, native, verdict, slow>>

Command ==
    /\ peer = "command" /\ peer' = "receive"
    /\ toTool' = Append(toTool, "command")
    /\ UNCHANGED <<case, prep, conn, receipt, session, toPeer, native, verdict, slow>>

\* Only executed output contains what is expected.
Expected(token) == token = "out"

Receive ==
    /\ peer = "receive" /\ toPeer # << >>
    /\ toPeer' = Tail(toPeer)
    /\ IF Head(toPeer) = "end" THEN Close("accept")
       ELSE /\ peer' = IF Expected(Head(toPeer)) THEN "record" ELSE peer
            /\ UNCHANGED conn
    /\ UNCHANGED <<case, prep, receipt, session, toTool, native, verdict, slow>>

\* The receipt is created and then written; a shell is only then told so.
Record ==
    /\ peer = "record"
    /\ \/ receipt # "empty" /\ receipt' = "empty" /\ UNCHANGED <<peer, conn>>
       \/ /\ receipt = "empty" /\ receipt' = "whole"
          /\ IF case.peer = "shell" THEN peer' = "ack" /\ UNCHANGED conn ELSE Close("accept")
    /\ UNCHANGED <<case, prep, session, wires, native, verdict, slow>>

Acknowledge ==
    /\ peer = "ack" /\ peer' = "drain"
    /\ toTool' = Append(toTool, "ack")
    /\ UNCHANGED <<case, prep, conn, receipt, session, toPeer, native, verdict, slow>>

\* What else the shell sends is read until it has ended.
Drained_AtOnce == TRUE  \* mutation: the connection is closed after the ack
Drained == toPeer # << >> /\ Head(toPeer) = "end"

Drain ==
    /\ peer = "drain"
    /\ IF Drained THEN Close("accept") /\ UNCHANGED toPeer
       ELSE toPeer # << >> /\ toPeer' = Tail(toPeer) /\ UNCHANGED <<conn, peer>>
    /\ UNCHANGED <<case, prep, receipt, session, toTool, native, verdict, slow>>

\* Five seconds without a byte.
PeerTimesOut ==
    /\ peer \in {"receive", "drain"} /\ toPeer = << >>
    /\ Close("dead") /\ Late
    /\ UNCHANGED <<case, prep, receipt, session, wires, native, verdict>>

----------------------------------------------------------------------------
(* The measured program and its tool.                                      *)

Connect ==
    /\ tool = "started"
    /\ IF peer = "accept" THEN tool' = "connected" /\ conn' = "queued"
       ELSE tool' = "bad" /\ UNCHANGED conn
    /\ UNCHANGED <<case, prep, peer, receipt, session, wires, program, verdict, did, slow>>

\* ncat sends what its child printed and ends; it waits for nobody.
Netcat ==
    /\ tool = "connected" /\ case.peer = "netcat"
    /\ toPeer' = toPeer \o <<"out", "end">>
    /\ tool' = "ok" /\ did' = TRUE
    /\ UNCHANGED <<case, fixture, session, toTool, program, verdict, slow>>

Fetch ==
    /\ tool = "connected" /\ case.peer = "send"
    /\ toTool # << >> /\ toTool' = Tail(toTool)
    /\ tool' = "ok" /\ did' = TRUE
    /\ UNCHANGED <<case, fixture, session, toPeer, program, verdict, slow>>

\* The interactive shell shows the command, executes it, waits for the answer,
\* and ends.
ShellReads ==
    /\ tool = "connected" /\ case.peer = "shell"
    /\ toTool # << >> /\ toTool' = Tail(toTool)
    /\ toPeer' = Append(toPeer, "echo") /\ tool' = "executing"
    /\ UNCHANGED <<case, fixture, session, program, verdict, did, slow>>

ShellExecutes ==
    /\ tool = "executing"
    /\ toPeer' = Append(toPeer, "out") /\ tool' = "reading" /\ did' = TRUE
    /\ UNCHANGED <<case, fixture, session, toTool, program, verdict, slow>>

ShellAnswered ==
    /\ tool = "reading"
    /\ toTool # << >> /\ toTool' = Tail(toTool) /\ tool' = "ending"
    /\ UNCHANGED <<case, fixture, session, toPeer, program, verdict, did, slow>>

ShellEnds ==
    /\ tool = "ending"
    /\ toPeer' = Append(toPeer, "end") /\ tool' = "ok"
    /\ UNCHANGED <<case, fixture, session, toTool, program, verdict, did, slow>>

\* The peer is gone before the tool has ended: SIGHUP, or nothing to read.
HangUp ==
    /\ tool \in {"connected", "executing", "reading", "ending"}
    /\ conn = "closed" /\ toTool = << >>
    /\ tool' = "bad"
    /\ UNCHANGED <<case, fixture, session, wires, program, verdict, did, slow>>

\* The tool's exit code and, where the peer publishes a receipt, its bytes.
Verify ==
    /\ program = "running" /\ tool \in {"ok", "bad"}
    /\ program' = IF tool = "ok" /\ (case.peer = "send" \/ receipt = "whole")
                  THEN "ok" ELSE "bad"
    /\ UNCHANGED <<case, fixture, session, wires, tool, verdict, did, slow>>

\* alarm(10)
Alarm ==
    /\ program = "running" /\ program' = "bad" /\ Late
    /\ UNCHANGED <<case, fixture, session, wires, tool, verdict, did>>

----------------------------------------------------------------------------
Init ==
    /\ case \in Cases
    /\ prep = "service" /\ peer = "off" /\ conn = "none" /\ receipt = "none"
    /\ toPeer = << >> /\ toTool = << >>
    /\ gate = "off" /\ code = "none"
    /\ tool = "none" /\ program = "none" /\ verdict = "none"
    /\ did = FALSE /\ slow = FALSE

Next ==
    \/ StartService \/ Listen \/ StartSession \/ Wait \/ Arm \/ Write
    \/ Enter \/ Trigger \/ Output \/ ReadCode \/ GiveUp
    \/ Accept \/ Send \/ Command \/ Receive \/ Record \/ Acknowledge \/ Drain
    \/ PeerTimesOut
    \/ Connect \/ Netcat \/ Fetch \/ Verify \/ Alarm
    \/ ShellReads \/ ShellExecutes \/ ShellAnswered \/ ShellEnds \/ HangUp

Spec == Init /\ [][Next]_vars

----------------------------------------------------------------------------
(* Properties.                                                             *)

\* Files that are read while another process may still write them.
Unguarded == case.peer = "netcat" \/ case.entry = "npm"

\* The harness is told the truth: "ok" only when the operation was carried out
\* and, where the peer checks it, received; a receipt only for executed output,
\* never for the command that was echoed; and no failure of an operation that
\* was carried out while nobody ran out of time, except where a file is read
\* while it is being written.  "Early close can send SIGHUP during successful
\* execution" (services.py:8, 28-31; linux67-coverage/README.md:22).
VerdictIsTrue ==
    /\ verdict = "ok" => did /\ (case.peer # "send" => receipt = "whole")
    /\ receipt # "none" => did
    /\ verdict = "bad" /\ did /\ ~slow => Unguarded
=============================================================================
