------------------------------ MODULE ReplClient ------------------------------
(***************************************************************************)
(* The client of the REPL server (unpythonic/net/client.py), with the two  *)
(* connections it has and the console at the other end.                    *)
(*                                                                         *)
(* The client knows of the console only what it prints.  It reads until    *)
(* what one read has given it ends with a prompt, then asks its user for a *)
(* line.  What arrives is a sequence of units: the first line, text, a     *)
(* prompt and a character of two bytes each, which a read may cut.  A unit *)
(* that has been read is known by its place in what was printed, so that   *)
(* one can see what of it is lost or repeated.                             *)
(*                                                                         *)
(* Ctrl+C may be pressed at any moment (the comment at client.py:334-336): *)
(* what it does to the text depends on the line of code that it hits.      *)
(*                                                                         *)
(* The control connection carries one request at a time and its reply.     *)
(* The console is that of ReplSession, reduced to what it prints.          *)
(***************************************************************************)
EXTENDS Naturals, Sequences, SequencesExt

CONSTANTS
  Outputs,       \* what a statement may print: sequences of Units
  ChunkMax,      \* units that one read returns at most
  MaxLines,      \* bound on the lines typed
  MaxInterrupts  \* bound on the number of Ctrl+C

Units == {"first", "newline", "text", "char1", "char2", "prompt1", "prompt2"}
Prompt == <<"prompt1", "prompt2">>
ReplClientAssumption ==
  Outputs \subseteq Seq(Units) /\ ChunkMax \in Nat \ {0} /\ MaxLines \in Nat /\ MaxInterrupts \in Nat

VARIABLES
  at,        \* where the client is
  val,       \* the contents of its receive buffer: places in `printed`
  control,   \* its decoder of replies: "live", or "dead" after an interrupted request
  known,    \* whether the server knows to which session the control connection belongs
  typed, ctrlc,   \* numbers of lines and of Ctrl+C so far
  up,        \* lines on their way to the console
  request,   \* interrupt requests on their way to the server
  received,  \* how much of `printed` the client has read; the rest is on its way
  srv,       \* the console: "greeting", "waiting" for a line, "evaluating", "closed"
  ki,        \* a KeyboardInterrupt is pending in the session's thread
  printed,   \* what the console has printed
  shown,     \* history: what the client has shown, as places in `printed`
  lost, repeated, \* history: places that a Ctrl+C has lost; that it has left in the
             \* buffer although they had been shown
  cut        \* history: a read has ended in the middle of a prompt

cvars == <<at, val, control, known, typed, ctrlc, up, request, received, srv, ki,
           printed, shown, lost, repeated, cut>>
server == <<srv, ki, printed>>
text == <<shown, lost, repeated, cut>>
client == <<at, val, control, known, typed, ctrlc, received, text>>

------------------------------------------------------------------------------
(***************************************************************************)
(* The console                                                             *)
(***************************************************************************)
Emit(o) == printed' = printed \o o

Greet ==
  /\ srv = "greeting" /\ srv' = "waiting"
  /\ Emit(<<"first", "newline">> \o Prompt)
  /\ UNCHANGED <<client, up, request, ki>>

\* A line is read.  A pending KeyboardInterrupt is raised first, and the line is
\* dropped; the prompt for more lines of a statement counts as a prompt.
TakeLine ==
  /\ srv = "waiting" /\ up # <<>>
  /\ up' = Tail(up) /\ ki' = FALSE
  /\ IF ki THEN Emit(<<"text">> \o Prompt) /\ UNCHANGED srv
     ELSE IF Head(up) = "blank" THEN Emit(Prompt) /\ UNCHANGED srv
     ELSE srv' = (IF Head(up) = "quit" THEN "closed" ELSE "evaluating") /\ UNCHANGED printed
  /\ UNCHANGED <<client, request>>

Evaluate ==
  /\ srv = "evaluating" /\ srv' = "waiting" /\ ki' = FALSE
  /\ IF ki THEN Emit(<<"text">> \o Prompt) ELSE \E o \in Outputs : Emit(o \o Prompt)
  /\ UNCHANGED <<client, up, request>>

\* ControlSession.handle gets a request: KeyboardInterrupt in the session's thread, if
\* it knows the session.
HandleRequest ==
  /\ request > 0
  /\ request' = request - 1
  /\ ki' = (known /\ srv # "closed")
  /\ UNCHANGED <<client, up, srv, printed>>

\* The server goes away.
Shutdown ==
  /\ srv \in {"waiting", "evaluating"}
  /\ srv' = "closed"
  /\ UNCHANGED <<client, up, request, ki, printed>>

------------------------------------------------------------------------------
(***************************************************************************)
(* The client                                                              *)
(***************************************************************************)
Goes(where) == at' = where

\* describe_server: without its answer there are no prompts to look for, and a
\* TypeError is raised.
Handshake ==
  /\ at = "connecting"
  /\ Goes("greeting") \/ Goes("failed")
  /\ UNCHANGED <<val, control, known, typed, ctrlc, text, up, request, received, server>>

\* The next n units of what is on its way are read.
Receives(n) == n <= ChunkMax /\ received + n <= Len(printed) /\ received' = received + n
Arrivals(n) == [i \in 1..n |-> received + i]

\* The contents of the buffer
Text == [i \in DOMAIN val |-> printed[val[i]]]
NewText == [i \in DOMAIN val' |-> printed[val'[i]]]

\* read_more_input: what the buffer holds after one more read.  The first line, with
\* the number of the session, has to be complete.
Read ==
  /\ \E n \in 1..ChunkMax : Receives(n) /\ val' = val \o Arrivals(n)
  /\ \/ at = "greeting" /\ Goes(IF Contains(NewText, "newline") THEN "pairing" ELSE "greeting")
     \/ at = "reading" /\ Goes("looking")
     \/ at = "draining" /\ Goes("drained")
  /\ UNCHANGED <<control, known, typed, ctrlc, text, up, request, server>>

\* MUTANT of DrainMore: what was read before is forgotten
DrainMore_last ==
  /\ at = "drained"
  /\ \E n \in 1..ChunkMax : Receives(n) /\ val' = Arrivals(n)
  /\ UNCHANGED <<at, control, known, typed, ctrlc, text, up, request, server>>

\* After Ctrl+C: more has come, which is added to what the buffer holds.
DrainMore ==
  /\ at = "drained"
  /\ \E n \in 1..ChunkMax : Receives(n) /\ val' = val \o Arrivals(n)
  /\ UNCHANGED <<at, control, known, typed, ctrlc, text, up, request, server>>

\* pair_with_session, whose reply is not looked at.
Pair ==
  /\ at = "pairing" /\ Goes("looking")
  /\ known' = (srv # "closed")
  /\ UNCHANGED <<val, control, typed, ctrlc, text, up, request, received, server>>

\* MUTANT of EndOfFile: what marks the end of the source is counted and kept like data
EndOfFile_appended ==
  /\ at \in {"greeting", "reading", "draining", "drained"}
  /\ srv = "closed" /\ received = Len(printed)
  /\ Goes("over") /\ received' = received + 1 /\ val' = Append(val, received')
  /\ UNCHANGED <<control, known, typed, ctrlc, text, up, request, server>>

\* StopIteration of the source: EOFError, "disconnected by server".
EndOfFile ==
  /\ at \in {"greeting", "reading", "draining", "drained"}
  /\ srv = "closed" /\ received = Len(printed)
  /\ Goes("over")
  /\ UNCHANGED <<val, control, known, typed, ctrlc, text, up, request, received, server>>

Decodable == val # <<>> => Text[1] # "char2" /\ Last(Text) # "char1"

\* A prompt at the end of what was read: it is the user's turn, and input() prints the
\* prompt.  Otherwise the text is shown and forgotten, and the client reads on.  What
\* is not a sequence of whole characters raises UnicodeDecodeError.
Look ==
  /\ at = "looking"
  /\ IF Decodable
     THEN /\ Goes(IF IsSuffix(Prompt, Text) THEN "input" ELSE "reading")
          /\ shown' = shown \o val
          /\ val' = <<>>
          /\ cut' = (cut \/ (val # <<>> /\ Last(Text) = "prompt1"))
     ELSE Goes("failed") /\ UNCHANGED <<shown, val, cut>>
  /\ UNCHANGED <<control, known, typed, ctrlc, lost, repeated, up, request, received, server>>

\* The user enters a line; BrokenPipeError if the server is gone.
EnterLine ==
  /\ at = "input" /\ typed < MaxLines
  /\ typed' = typed + 1
  /\ \/ Goes("reading") /\ up' = Append(up, "stmt")
     \/ srv = "closed" /\ Goes("over") /\ UNCHANGED up
  /\ UNCHANGED <<val, control, known, ctrlc, text, request, received, server>>

\* Ctrl+D: EOFError in input().
CtrlD ==
  /\ at = "input"
  /\ Goes("over") /\ up' = Append(up, "quit")
  /\ UNCHANGED <<val, control, known, typed, ctrlc, text, request, received, server>>

Pressed == ctrlc < MaxInterrupts /\ ctrlc' = ctrlc + 1

\* A Ctrl+C in _remote_execute is swallowed.  It may come before the request is sent;
\* later it ends the generator that the decoder reads from, and all later replies
\* count as a closed socket.
InterruptPairing ==
  /\ at = "pairing" /\ Pressed
  /\ \/ UNCHANGED <<control, known>>
     \/ control' = "dead" /\ known' = (srv # "closed")
  /\ Goes("looking")
  /\ UNCHANGED <<val, typed, text, up, request, received, server>>

\* The same while the reply to a tab completion or to an earlier Ctrl+C is awaited.
InterruptReply ==
  /\ at \in {"input", "requesting"} /\ Pressed
  /\ \/ control' = "dead" /\ UNCHANGED request
     \/ at = "requesting" /\ request > 0 /\ request' = request - 1 /\ UNCHANGED control
  /\ Goes(IF at = "input" THEN "input" ELSE "interrupted")
  /\ UNCHANGED <<val, known, typed, text, up, received, server>>

\* KeyboardInterrupt in the loop: send_kbinterrupt, which waits for the reply if it can.
Interrupts ==
  /\ Pressed
  /\ request' = request + 1
  /\ Goes(IF control = "live" THEN "requesting" ELSE "interrupted")

\* Ctrl+C where no text is on the move: before or after a read, before the text is
\* written, in input().
CtrlC ==
  /\ at \in {"reading", "looking", "input"}
  /\ Interrupts
  /\ UNCHANGED <<val, control, known, typed, text, up, received, server>>

\* Ctrl+C between recv and buf.append: the data is gone.
InterruptRead ==
  /\ at = "reading"
  /\ Interrupts
  /\ \E n \in 1..ChunkMax : Receives(n) /\ lost' = lost \cup ToSet(Arrivals(n))
  /\ UNCHANGED <<val, control, known, typed, shown, repeated, cut, up, server>>

\* Ctrl+C after the text has been written: what is before the prompt is shown.  Before
\* buf.set it stays in the buffer, with the prompt; after it, the prompt is gone.
InterruptShow ==
  /\ at = "looking" /\ Decodable
  /\ Interrupts
  /\ \E n \in 0..Len(val) :
       /\ Len(val) = n + (IF IsSuffix(Prompt, Text) THEN Len(Prompt) ELSE 0)
       /\ shown' = shown \o SubSeq(val, 1, n)
       /\ \/ /\ repeated' = repeated \cup ToSet(val)
             /\ UNCHANGED <<val, lost>>
          \/ /\ val' = <<>>
             /\ lost' = lost \cup ToSet(SubSeq(val, n + 1, Len(val)))
             /\ UNCHANGED repeated
  /\ UNCHANGED <<control, known, typed, cut, up, received, server>>

Reply ==
  /\ at = "requesting" /\ request = 0
  /\ Goes("interrupted")
  /\ UNCHANGED <<val, control, known, typed, ctrlc, text, up, request, received, server>>

\* MUTANT of SendBlank: no blank line follows
SendBlank_not ==
  /\ at = "interrupted"
  /\ Goes("draining") /\ UNCHANGED up
  /\ UNCHANGED <<val, control, known, typed, ctrlc, text, request, received, server>>

\* A blank line makes the console notice the interrupt.
SendBlank ==
  /\ at = "interrupted"
  /\ \/ Goes("draining") /\ up' = Append(up, "blank")
     \/ srv = "closed" /\ Goes("failed") /\ UNCHANGED up
  /\ UNCHANGED <<val, control, known, typed, ctrlc, text, request, received, server>>

\* Nothing has come for a while: what has come is looked at.
Settle ==
  /\ at = "drained" /\ Goes("looking")
  /\ UNCHANGED <<val, control, known, typed, ctrlc, text, up, request, received, server>>

\* A Ctrl+C before the loop, or while the response to another one is awaited, leaves
\* _connect.
Abort ==
  /\ at \in {"connecting", "greeting", "interrupted", "draining", "drained"} /\ Pressed
  /\ Goes("failed")
  /\ UNCHANGED <<val, control, known, typed, text, up, request, received, server>>

Init ==
  /\ at = "connecting" /\ val = <<>> /\ control = "live" /\ known = FALSE /\ typed = 0 /\ ctrlc = 0
  /\ up = <<>> /\ request = 0 /\ received = 0
  /\ srv = "greeting" /\ ki = FALSE /\ printed = <<>>
  /\ shown = <<>> /\ lost = {} /\ repeated = {} /\ cut = FALSE

Console == Greet \/ TakeLine \/ Evaluate \/ HandleRequest
Library == Read \/ DrainMore \/ Pair \/ EndOfFile \/ Look \/ Reply \/ SendBlank \/ Settle
User == EnterLine \/ CtrlD \/ InterruptPairing \/ InterruptReply \/ CtrlC \/ InterruptRead \/ InterruptShow \/ Abort
Next == Console \/ Library \/ User \/ Handshake \/ Shutdown

\* The client and the console run whenever they can; the user need not do anything.
Fairness == WF_cvars(Console) /\ WF_cvars(Library)
Spec == Init /\ [][Next]_cvars /\ Fairness
------------------------------------------------------------------------------
TypeOK ==
  /\ at \in {"connecting", "greeting", "pairing", "reading", "looking", "input", "requesting",
             "interrupted", "draining", "drained", "over", "failed"}
  /\ printed \in Seq(Units) /\ received \in 0..Len(printed)
  /\ val \in Seq(Nat) /\ shown \in Seq(Nat) /\ lost \in SUBSET Nat /\ repeated \in SUBSET Nat
  /\ control \in {"live", "dead"} /\ typed \in 0..MaxLines /\ ctrlc \in 0..MaxInterrupts
  /\ up \in Seq({"stmt", "blank", "quit"}) /\ request \in 0..MaxInterrupts
  /\ srv \in {"greeting", "waiting", "evaluating", "closed"}
  /\ ki \in BOOLEAN /\ cut \in BOOLEAN /\ known \in BOOLEAN

\* However the output arrives: what has been read is shown or held, except for what a
\* Ctrl+C has lost by hitting a read, or the moment before a prompt is printed; it is
\* in the order in which it was printed and nothing is there twice, except for what a
\* Ctrl+C has left in the buffer between the write and the set (lines 306-307 and
\* 329-330).  Without Ctrl+C nothing is lost or repeated.
ShownInOrder ==
  LET T == shown \o val
  IN  /\ \A i \in 1..Len(T) : T[i] \in 1..received
      /\ \A j \in 1..Len(T) : \A i \in 1..(j - 1) : T[i] < T[j] \/ T[j] \in repeated
      /\ \A k \in 1..received : k \in lost \/ \E i \in 1..Len(T) : T[i] = k
      /\ ctrlc = 0 => lost = {} /\ repeated = {}

Busy == at \notin {"connecting", "input", "over", "failed"}
\* It becomes the user's turn again, or the session ends, unless a read has cut a
\* prompt in two: client and console do not wait for each other.
PromptsAreAnswered == Busy ~> (~Busy \/ cut)
==============================================================================
