---------------------------- MODULE ReplSession ----------------------------
(***************************************************************************)
(* One session of the REPL server, end to end: the socket of the primary   *)
(* channel, the thread that forwards its traffic to a pseudo-terminal      *)
(* (unpythonic/net/ptyproxy_posix.py), and the session thread that runs an *)
(* interactive console on the other side (ConsoleSession.handle of         *)
(* unpythonic/net/server.py).  The client may be netcat: it sends lines    *)
(* when it likes, and may disappear at any moment.                         *)
(*                                                                         *)
(* The kernel's queues between the two sides of the pseudo-terminal are    *)
(* bounded: `keyboard` holds InCap lines, `screen` one chunk of output.    *)
(* Only output that exceeds the queue counts as output here.               *)
(***************************************************************************)
EXTENDS Naturals, Sequences, SequencesExt

CONSTANTS
  Lines,         \* the kinds of lines the client sends
  InCap,         \* lines the terminal holds for a console that does not read
  MaxLines,      \* bound on the number of lines sent
  MaxInterrupts  \* bound on the number of remote Ctrl+C

(***************************************************************************)
(* A line is a complete statement, one that starts a compound or           *)
(* bracketed statement, one whose output needs two chunks, or quit().  The *)
(* quit() injected by on_socket_disconnect is told apart as "hangup".      *)
(***************************************************************************)
ReplSessionAssumption ==
  /\ Lines \subseteq {"stmt", "open", "big", "quit"}
  /\ InCap \in Nat \ {0} /\ MaxLines \in Nat /\ MaxInterrupts \in Nat

VARIABLES
  conn,        \* the client's end of the connection
  sent,        \* history: the lines the client has sent
  wire,        \* lines in the socket, not yet received
  unread,      \* chunks of output in the socket the client has not read: 0 or 1
  fwd,         \* forward_traffic: where it is
  carried,     \* the line it has received and not yet written
  terminated,  \* self._terminated
  keyboard,    \* lines written to the master, not yet read from the slave
  screen,      \* chunks of output in the terminal: 0 or 1
  fds,         \* master and slave
  con,         \* the session thread: where it is
  more,        \* the console has an incomplete statement
  todo,        \* chunks of output the running statement has yet to write
  got,         \* history: the lines the console has read
  ki,          \* an asynchronous KeyboardInterrupt is pending in the thread
  interrupts,  \* number of interrupts so far
  cutShort     \* history: a KeyboardInterrupt was raised inside stop()

client == <<conn, sent, wire, unread>>
forwarder == <<fwd, carried>>
console == <<con, more, todo, got>>
vars == <<client, forwarder, terminated, keyboard, screen, fds, console, ki, interrupts, cutShort>>

Forwarding == {"poll", "send", "write", "hangup"}
ThreadKnown == con \notin {"starting", "open", "ended"}

------------------------------------------------------------------------------
(***************************************************************************)
(* The client                                                              *)
(***************************************************************************)
SendLine(l) ==
  /\ conn = "up" /\ Len(sent) < MaxLines
  /\ sent' = Append(sent, l)
  /\ wire' = Append(wire, l)
  /\ UNCHANGED <<conn, unread, forwarder, terminated, keyboard, screen, fds, console, ki, interrupts, cutShort>>

\* The client reads output, when it likes.
ReadOutput ==
  /\ conn = "up" /\ unread = 1
  /\ unread' = 0
  /\ UNCHANGED <<conn, sent, wire, forwarder, terminated, keyboard, screen, fds, console, ki, interrupts, cutShort>>

\* The client closes its end, or its end is reset, which discards what the
\* server has not received yet.
Disconnect ==
  /\ conn = "up"
  /\ unread' = 0
  /\ \/ conn' = "closed" /\ UNCHANGED wire
     \/ conn' = "reset" /\ wire' = <<>>
  /\ UNCHANGED <<sent, forwarder, terminated, keyboard, screen, fds, console, ki, interrupts, cutShort>>

\* Remote Ctrl+C: async_raise(target_session.thread, KeyboardInterrupt)
Interrupt ==
  /\ ThreadKnown /\ interrupts < MaxInterrupts
  /\ ki' = TRUE
  /\ interrupts' = interrupts + 1
  /\ UNCHANGED <<client, forwarder, terminated, keyboard, screen, fds, console, cutShort>>

------------------------------------------------------------------------------
(***************************************************************************)
(* forward_traffic                                                         *)
(***************************************************************************)
\* MUTANT of Poll: the end of file is seen before the data in front of it
Poll_earlyEOF ==
  /\ fwd = "poll"
  /\ \/ terminated /\ fwd' = "ended" /\ UNCHANGED <<wire, carried, screen>>
     \/ ~terminated /\ screen = 1 /\ fwd' = "send" /\ screen' = 0 /\ UNCHANGED <<wire, carried>>
     \/ /\ ~terminated /\ wire # <<>>
        /\ fwd' = "write" /\ carried' = <<Head(wire)>> /\ wire' = Tail(wire)
        /\ UNCHANGED screen
     \/ /\ ~terminated /\ conn # "up"
        /\ fwd' = "hangup" /\ UNCHANGED <<wire, carried, screen>>
  /\ UNCHANGED <<conn, sent, unread, terminated, keyboard, fds, console, ki, interrupts, cutShort>>

\* The loop looks at the flag, then waits until there is output to read, a
\* line to receive, or the end of the connection.
Poll ==
  /\ fwd = "poll"
  /\ \/ terminated /\ fwd' = "ended" /\ UNCHANGED <<wire, carried, screen>>
     \/ ~terminated /\ screen = 1 /\ fwd' = "send" /\ screen' = 0 /\ UNCHANGED <<wire, carried>>
     \/ /\ ~terminated /\ wire # <<>>
        /\ fwd' = "write" /\ carried' = <<Head(wire)>> /\ wire' = Tail(wire)
        /\ UNCHANGED screen
     \/ /\ ~terminated /\ conn # "up" /\ wire = <<>>
        /\ fwd' = "hangup" /\ UNCHANGED <<wire, carried, screen>>
  /\ UNCHANGED <<conn, sent, unread, terminated, keyboard, fds, console, ki, interrupts, cutShort>>

\* sock.send blocks while a connected client does not read its output.  To a
\* client that is gone it may still succeed; or the output makes that end
\* reset the connection, which raises ConnectionResetError, which is caught,
\* or BrokenPipeError, which is not.
SendOutput ==
  /\ fwd = "send"
  /\ \/ conn = "up" /\ unread = 0 /\ unread' = 1 /\ fwd' = "poll" /\ UNCHANGED <<conn, wire>>
     \/ conn # "up" /\ fwd' = "poll" /\ UNCHANGED <<conn, wire, unread>>
     \/ /\ conn # "up" /\ fwd' \in {"hangup", "died"}
        /\ conn' = "reset" /\ wire' = <<>> /\ UNCHANGED unread
  /\ UNCHANGED <<sent, carried, terminated, keyboard, screen, fds, console, ki, interrupts, cutShort>>

\* os.write to the master blocks while the terminal holds all it can.
WriteInput ==
  /\ fwd = "write" /\ Len(keyboard) < InCap
  /\ keyboard' = keyboard \o carried
  /\ carried' = <<>>
  /\ fwd' = "poll"
  /\ UNCHANGED <<client, terminated, screen, fds, console, ki, interrupts, cutShort>>

\* MUTANT of Hangup: no on_socket_disconnect
Hangup_silent ==
  /\ fwd = "hangup"
  /\ fwd' = "ended"
  /\ UNCHANGED <<client, carried, terminated, keyboard, screen, fds, console, ki, interrupts, cutShort>>

\* on_socket_disconnect writes quit() as if the client had typed it.
Hangup ==
  /\ fwd = "hangup" /\ Len(keyboard) < InCap
  /\ keyboard' = Append(keyboard, "hangup")
  /\ fwd' = "ended"
  /\ UNCHANGED <<client, carried, terminated, screen, fds, console, ki, interrupts, cutShort>>

------------------------------------------------------------------------------
(***************************************************************************)
(* ConsoleSession.handle                                                   *)
(***************************************************************************)
\* PTYSocketProxy(...): opening the terminal may fail
OpenTerminal ==
  /\ con = "starting"
  /\ \/ con' = "open" /\ fds' = "open"
     \/ con' = "unregistering" /\ UNCHANGED fds
  /\ UNCHANGED <<client, forwarder, terminated, keyboard, screen, more, todo, got, ki, interrupts, cutShort>>

\* MUTANT of Start: the failure of start() is not covered by the `with`
Start_uncovered ==
  /\ con = "open"
  /\ \/ con' = "greeted" /\ fwd' = "poll" /\ terminated' = FALSE
     \/ con' = "unregistering" /\ UNCHANGED <<fwd, terminated>>
     \/ con' = "stopping" /\ fwd' = "poll" /\ terminated' = FALSE
  /\ UNCHANGED <<client, carried, keyboard, screen, fds, more, todo, got, ki, interrupts, cutShort>>

\* adaptor.start() and the streams, each of which may fail; then the thread
\* is made known and the client is greeted.
Start ==
  /\ con = "open"
  /\ \/ con' = "greeted" /\ fwd' = "poll" /\ terminated' = FALSE
     \/ con' = "stopping" /\ UNCHANGED <<fwd, terminated>>
     \/ con' = "stopping" /\ fwd' = "poll" /\ terminated' = FALSE
  /\ UNCHANGED <<client, carried, keyboard, screen, fds, more, todo, got, ki, interrupts, cutShort>>

\* console.interact begins; only inside it a KeyboardInterrupt is caught.
Interact ==
  /\ con = "greeted"
  /\ con' = IF ki THEN "stopping" ELSE "reading"
  /\ ki' = FALSE
  /\ UNCHANGED <<client, forwarder, terminated, keyboard, screen, fds, more, todo, got, interrupts, cutShort>>

\* A complete statement is run; quit() raises SystemExit.
Execute(l) ==
  /\ con' = IF l \in {"quit", "hangup"} THEN "leaving" ELSE "running"
  /\ todo' = IF l = "big" THEN 2 ELSE 0
  /\ more' = FALSE

\* A line is pushed to the console.  In an incomplete statement it becomes a
\* part of that: the statement stays incomplete, turns out to be malformed,
\* or is complete now.
Push(l) ==
  \/ ~more /\ l # "open" /\ Execute(l)
  \/ ~more /\ l = "open" /\ more' = TRUE /\ UNCHANGED <<con, todo>>
  \/ more /\ more' \in BOOLEAN /\ UNCHANGED <<con, todo>>
  \/ more /\ Execute(l)

\* A read returns. A KeyboardInterrupt that has come meanwhile is raised
\* before the line is used, and resets the console.
ReadLine ==
  /\ con = "reading" /\ keyboard # <<>>
  /\ keyboard' = Tail(keyboard)
  /\ got' = Append(got, Head(keyboard))
  /\ IF ki THEN more' = FALSE /\ UNCHANGED <<con, todo>>
           ELSE Push(Head(keyboard))
  /\ ki' = FALSE
  /\ UNCHANGED <<client, forwarder, terminated, screen, fds, interrupts, cutShort>>

\* A statement writes its output, which blocks while the terminal is full,
\* and ends, at once if interrupted.
RunStatement ==
  /\ con = "running"
  /\ \/ todo > 0 /\ screen = 0 /\ screen' = 1 /\ todo' = todo - 1 /\ UNCHANGED <<con, ki>>
     \/ todo = 0 /\ ~ki /\ con' = "reading" /\ UNCHANGED <<screen, todo, ki>>
     \/ ki /\ (todo > 0 => screen = 0) /\ con' = "reading" /\ todo' = 0 /\ ki' = FALSE /\ UNCHANGED screen
  /\ UNCHANGED <<client, forwarder, terminated, keyboard, fds, more, got, interrupts, cutShort>>

\* The streams are closed, then __exit__ calls stop().
LeaveStreams ==
  /\ con = "leaving"
  /\ con' = "stopping" /\ ki' = FALSE
  /\ UNCHANGED <<client, forwarder, terminated, keyboard, screen, fds, more, todo, got, interrupts, cutShort>>

\* MUTANT of Stop: the descriptors are closed without a join
Stop_withoutJoin ==
  /\ con = "stopping"
  /\ \/ ki /\ con' = "unregistering" /\ UNCHANGED terminated
     \/ /\ ~ki
        /\ terminated' = TRUE /\ con' = "closing"
  /\ ki' = FALSE /\ cutShort' = (cutShort \/ ki)
  /\ UNCHANGED <<client, forwarder, keyboard, screen, fds, more, todo, got, interrupts>>

\* stop() asks the forwarding thread, if there is one, to end.  From here on
\* a KeyboardInterrupt skips what is left of stop().
Stop ==
  /\ con = "stopping"
  /\ \/ ki /\ con' = "unregistering" /\ UNCHANGED terminated
     \/ /\ ~ki
        /\ IF fwd = "none" THEN con' = "closing" /\ UNCHANGED terminated
                           ELSE con' = "joining" /\ terminated' = TRUE
  /\ ki' = FALSE /\ cutShort' = (cutShort \/ ki)
  /\ UNCHANGED <<client, forwarder, keyboard, screen, fds, more, todo, got, interrupts>>

Join ==
  /\ con = "joining" /\ fwd \notin Forwarding
  /\ con' = IF ki THEN "unregistering" ELSE "closing"
  /\ ki' = FALSE /\ cutShort' = (cutShort \/ ki)
  /\ UNCHANGED <<client, forwarder, terminated, keyboard, screen, fds, more, todo, got, interrupts>>

Close ==
  /\ con = "closing"
  /\ con' = "unregistering"
  /\ fds' = IF ki THEN fds ELSE "closed"
  /\ ki' = FALSE /\ cutShort' = (cutShort \/ ki)
  /\ UNCHANGED <<client, forwarder, terminated, keyboard, screen, more, todo, got, interrupts>>

\* finally: del _active_sessions[...].  Then socketserver closes the socket.
Unregister ==
  /\ con = "unregistering"
  /\ con' = "ended" /\ ki' = FALSE
  /\ conn' = IF conn = "up" THEN "closed" ELSE conn
  /\ UNCHANGED <<sent, wire, unread, forwarder, terminated, keyboard, screen, fds, more, todo, got, interrupts, cutShort>>

------------------------------------------------------------------------------
Init ==
  /\ conn = "up" /\ sent = <<>> /\ wire = <<>> /\ unread = 0
  /\ fwd = "none" /\ carried = <<>> /\ terminated = TRUE
  /\ keyboard = <<>> /\ screen = 0 /\ fds = "none"
  /\ con = "starting" /\ more = FALSE /\ todo = 0 /\ got = <<>>
  /\ ki = FALSE /\ interrupts = 0 /\ cutShort = FALSE

Client == (\E l \in Lines : SendLine(l)) \/ ReadOutput \/ Disconnect \/ Interrupt
ForwardTraffic == Poll \/ SendOutput \/ WriteInput \/ Hangup
Handle == OpenTerminal \/ Start \/ Interact \/ ReadLine \/ RunStatement
            \/ LeaveStreams \/ Stop \/ Join \/ Close \/ Unregister
Next == Client \/ ForwardTraffic \/ Handle

\* Two threads of the server that run whenever they can; the client promises
\* nothing.  User code that is run ends.
Spec == Init /\ [][Next]_vars /\ WF_vars(ForwardTraffic) /\ WF_vars(Handle)
------------------------------------------------------------------------------
(***************************************************************************)
(* Properties                                                              *)
(***************************************************************************)
TypeOK ==
  /\ conn \in {"up", "closed", "reset"}
  /\ sent \in Seq(Lines) /\ wire \in Seq(Lines) /\ carried \in Seq(Lines)
  /\ fwd \in Forwarding \cup {"none", "ended", "died"}
  /\ terminated \in BOOLEAN
  /\ keyboard \in Seq(Lines \cup {"hangup"}) /\ got \in Seq(Lines \cup {"hangup"})
  /\ screen \in {0, 1} /\ unread \in {0, 1} /\ todo \in 0..2
  /\ fds \in {"none", "open", "closed"}
  /\ con \in {"starting", "open", "greeted", "reading", "running", "leaving",
              "stopping", "joining", "closing", "unregistering", "ended"}
  /\ more \in BOOLEAN /\ ki \in BOOLEAN /\ interrupts \in 0..MaxInterrupts
  /\ cutShort \in BOOLEAN

\* The forwarding thread never uses a closed descriptor, although another
\* thread closes them (ptyproxy_posix.py:109-128).
ForwarderOwnsTransport == fwd \in Forwarding => fds = "open"

\* What the console reads is what the client sent, in order and nothing
\* twice, and the quit() injected for a client that is gone comes after all
\* of it - unless a reset has destroyed the rest (ptyproxy_posix.py:81-103).
InputInOrder ==
  LET stream == got \o keyboard \o carried
  IN  /\ \/ IsPrefix(stream, sent)
         \/ stream # <<>> /\ Last(stream) = "hangup" /\ IsPrefix(Front(stream), sent)
      /\ (Contains(stream, "hangup") /\ conn = "closed") => stream = Append(sent, "hangup")

\* The terminal's descriptors are closed when the session is over, whichever
\* step failed and whenever interrupts came; only a KeyboardInterrupt raised
\* inside stop() itself can leak them (ptyproxy.py:106-122, server.py:440-445).
TransportReleased == con = "ended" /\ fds = "open" => cutShort

\* The ways in which a session survives its client, or the order to quit: the
\* injected quit() was consumed by something else than an idle prompt, or
\* never written; the console writes output nobody forwards any more; stop()
\* waits for a thread that writes input nobody reads any more, or sends output
\* to a client that does not read; or the console waits for its output to be
\* forwarded and the forwarding thread for its input to be read.
Stuck ==
  LET inputBlocked == fwd \in {"write", "hangup"} /\ Len(keyboard) >= InCap
      outputBlocked == con = "running" /\ todo > 0 /\ screen = 1
      sendBlocked == fwd = "send" /\ conn = "up" /\ unread = 1
  IN  \/ con = "reading" /\ keyboard = <<>> /\ (Contains(got, "hangup") \/ fwd = "died")
      \/ outputBlocked /\ (inputBlocked \/ fwd \in {"ended", "died"})
      \/ con = "joining" /\ (inputBlocked \/ sendBlocked)

\* The session of a client that has gone comes to its end, and so does one that
\* was told to quit, whatever its client does: it is removed from the registry,
\* unless it is stuck for good in one of those ways (server.py:432-434, 477-485).
EndsOrIsStuck == (conn # "up" \/ con = "leaving") ~> (con = "ended" \/ []Stuck)

\* "The server should be smart enough to notice the client is gone, and clean
\* up any relevant resources" (client.py:170).
DroppedClientIsCleanedUp == (conn # "up") ~> (con = "ended")
==============================================================================
