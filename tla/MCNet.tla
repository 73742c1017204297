------------------------------- MODULE MCNet -------------------------------
(***************************************************************************)
(* The REPL server, one of its sessions, its client, and the message       *)
(* decoder, each on its own: a behaviour is one of ReplServer, ReplSession,*)
(* ReplClient or MessageDecoder, and what it is not about stays in its     *)
(* initial state.                                                          *)
(*                                                                         *)
(* The server: three sessions, one after the other or at the same time,    *)
(* whose threads share two identifiers, and one control connection.  The   *)
(* session: three lines of any kinds, a terminal that holds one of them,   *)
(* and one remote Ctrl+C.  The client: one line of its user, two Ctrl+C    *)
(* (one that is under way when the other comes), output of a character of  *)
(* two bytes, and reads that cut this and the prompts; a Ctrl+C makes the  *)
(* console print two of these.  The decoder: streams of up to three parts, *)
(* which are messages with an empty body, a body that looks like the start *)
(* of a message, and a body whose length has two digits; junk without and  *)
(* with the sync byte.  A chunk may be as long as the search for a header  *)
(* may hold, as in the sources of the package.                             *)
(***************************************************************************)
EXTENDS ReplServer, Sequences

CONSTANTS Parts, MaxParts, ChunkMax, Limit
CONSTANTS Lines, InCap, MaxLines, MaxInterrupts
CONSTANTS Outputs, ReadMax, MaxTyped, MaxCtrlC

VARIABLES parts, source, buf, pc, need, out, overrun
VARIABLES conn, sent, wire, unread, fwd, carried, terminated, keyboard, screen, fds, con, more, todo, got, ki, interrupts, cutShort
VARIABLES at, val, control, known, typed, ctrlc, up, request, received, srv, raised, printed, shown, lost, repeated, cut
VARIABLE subject

dvars == <<parts, source, buf, pc, need, out, overrun>>
svars == <<conn, sent, wire, unread, fwd, carried, terminated, keyboard, screen, fds, con, more, todo, got, ki, interrupts, cutShort>>
cvars == <<at, val, control, known, typed, ctrlc, up, request, received, srv, raised, printed, shown, lost, repeated, cut>>
allvars == <<vars, dvars, svars, cvars, subject>>

D == INSTANCE MessageDecoder
S == INSTANCE ReplSession
C == INSTANCE ReplClient WITH
       ki <- raised, ChunkMax <- ReadMax, MaxLines <- MaxTyped, MaxInterrupts <- MaxCtrlC
ASSUME MessageDecoderAssumption == D!MessageDecoderAssumption
ASSUME ReplSessionAssumption == S!ReplSessionAssumption
ASSUME ReplClientAssumption == C!ReplClientAssumption

MCSessions == 1..3

Message(body) == [message |-> TRUE, bytes |-> body]
Junk(bytes) == [message |-> FALSE, bytes |-> bytes]
Long == [i \in 1..10 |-> "x"]
MCParts == {Message(<<>>), Message(<<"S", "V">>), Message(Long), Junk(<<"x">>), Junk(<<"S", "V">>)}

MCOutputs == {<<"char1", "char2">>}

MCInit ==
  /\ Init /\ D!Init /\ S!Init /\ C!Init /\ subject \in {"server", "session", "client", "decoder"}
  /\ subject # "decoder" => parts = <<>>

ServerStep(A) == subject = "server" /\ A /\ UNCHANGED <<dvars, svars, cvars, subject>>
SessionStep(A) == subject = "session" /\ A /\ UNCHANGED <<vars, dvars, cvars, subject>>
DecoderStep(A) == subject = "decoder" /\ A /\ UNCHANGED <<vars, svars, cvars, subject>>
ClientStep(A) == subject = "client" /\ A /\ UNCHANGED <<vars, dvars, svars, subject>>

MCNext == ServerStep(Next) \/ SessionStep(S!Next) \/ ClientStep(C!Next) \/ DecoderStep(D!Next)

\* The fairness of the four modules.
MCSpec ==
  /\ MCInit /\ [][MCNext]_allvars
  /\ WF_vars(ServerStep(Main))
  /\ \A s \in Sessions : WF_vars(ServerStep(Session(s)))
  /\ WF_svars(SessionStep(S!ForwardTraffic)) /\ WF_svars(SessionStep(S!Handle))
  /\ WF_cvars(ClientStep(C!Console)) /\ WF_cvars(ClientStep(C!Library))
  /\ WF_dvars(DecoderStep(D!Next))

\* The type invariants of the four modules.
MCTypeOK == TypeOK /\ D!TypeOK /\ S!TypeOK /\ C!TypeOK
\* The safety properties of MessageDecoder: the messages come out in order, None
\* comes after all of them, nothing is lost between two messages, nothing fails -
\* until the search for the end of a header has to be given up.
MessagesArrive ==
  D!MessagesInOrder /\ D!NoneMeansEnd /\ D!NothingLostAtTheSeam /\ D!NeverCrashes
\* Of ReplSession: the input of a session arrives in order.
InputInOrder == S!InputInOrder
\* Of ReplClient: what the console prints is shown in order, and only Ctrl+C loses or
\* repeats something.
ShownInOrder == C!ShownInOrder
\* Of ReplClient: a prompt that no read has cut in two is answered.
PromptsAreAnswered == C!PromptsAreAnswered
\* Of ReplSession: the forwarding thread has its descriptors while it runs, and they
\* are closed in the end.
TransportHandedBack == S!ForwarderOwnsTransport /\ S!TransportReleased
\* A session that was told to quit, or whose client has gone, ends, unless it is
\* stuck in one of the ways described there; and decoding ends.
EndsAreReached ==
  S!EndsOrIsStuck /\ (subject = "decoder" => D!DecodingEnds)

\* What the documentation says of the decoder, for chunks of any size.
EveryMessageArrives == subject = "decoder" => D!EveryMessageArrives
\* What the client says of a session whose client has gone.
DroppedClientIsCleanedUp == S!DroppedClientIsCleanedUp
==============================================================================
