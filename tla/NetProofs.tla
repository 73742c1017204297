------------------------------ MODULE NetProofs ------------------------------
(***************************************************************************)
(* Proofs about the REPL server, one of its sessions, its client and the   *)
(* message decoder, each as MCNet puts it beside the others: where an      *)
(* interrupt goes, in which order input arrives, who owns the descriptors  *)
(* of the terminal, that what the console prints is shown, and that every  *)
(* message that was sent is decoded.                                       *)
(***************************************************************************)
EXTENDS MCNet, Induction

------------------------------------------------------------------------------
(***************************************************************************)
(* The server                                                              *)
(***************************************************************************)
\* What Lookup has found, and CheckIdent and RaiseIn go on with, is the paired
\* session, and it was known at that time.
Handed(c) ==
  /\ target[c] \in Sessions /\ target[c] = paired[c]
  /\ st[target[c]] \in {"known", "unregistered", "dead", "killed"}

\* The inductive invariant of the server.  Living threads have different
\* identifiers, and no thread lives or starts in a process that has ended.
ServerInv ==
  /\ TypeOK
  /\ \A c \in Controls : cst[c] # "idle" => Handed(c)
  /\ \A r, s \in Alive : ident[r] = ident[s] => r = s
  /\ \A s \in Sessions : st[s] = "killed" => main = "exited"
  /\ main = "exited" => listening = {}
  /\ \A s \in Sessions : st[s] = "none" => pending[s] = {}
  /\ MisdirectedOnlyAfterDeath

LEMMA ServerInit == Init => ServerInv
  BY ReplServerAssumption DEF Init, ServerInv, TypeOK, Alive, MisdirectedOnlyAfterDeath

LEMMA ServerTypes == ServerInv /\ [Next]_vars => TypeOK'
<1> SUFFICES ASSUME ServerInv, TypeOK, [Next]_vars PROVE TypeOK'
  BY DEF ServerInv
<1> USE DEF TypeOK
<1>1. CASE Start \/ StartControl \/ Watch \/ StopRepl \/ StopControl \/ CtrlC
  BY <1>1 DEF Start, StartControl, Watch, StopRepl, StopControl, CtrlC, process, sessions, controls
<1>2. CASE Exit
  BY <1>2 DEF Exit, controls, Alive
<1>3. ASSUME NEW s \in Sessions,
             Session(s) \/ Accept(s) \/ MakeThreadKnown(s) \/ TakeInterrupt(s)
               \/ \E doit \in BOOLEAN : Halt(s, doit)
      PROVE  TypeOK'
  <2>1. CASE Accept(s)
    BY <2>1 DEF Accept, process, controls
  <2>2. CASE Register(s) \/ MakeThreadKnown(s)
    BY <2>2 DEF Register, MakeThreadKnown, process, controls
  <2>3. CASE TakeInterrupt(s)
    BY <2>3 DEF TakeInterrupt, process, controls
  <2>4. CASE Unregister(s) \/ ThreadEnds(s)
    BY <2>4 DEF Unregister, ThreadEnds, process, controls
  <2>5. CASE \E doit \in BOOLEAN : Halt(s, doit)
    BY <2>5 DEF Halt, sessions, controls
  <2> QED
    BY <1>3, <2>1, <2>2, <2>3, <2>4, <2>5 DEF Session
<1>4. ASSUME NEW c \in Controls, Control(c) \/ \E s \in Sessions : Pair(c, s)
      PROVE  TypeOK'
  <2>1. CASE Lookup(c)
    BY <1>4, <2>1 DEF Lookup, process, sessions, Active
  <2>2. CASE CheckIdent(c)
    BY <1>4, <2>2 DEF CheckIdent, process, sessions
  <2>3. CASE RaiseIn(c)
    <3>1. pending' \in [Sessions -> SUBSET Sessions]
      BY <1>4, <2>3 DEF RaiseIn, Handed, ServerInv
    <3> QED
      BY <1>4, <2>3, <3>1 DEF RaiseIn, process
  <2>4. CASE \E s \in Sessions : Pair(c, s)
    BY <1>4, <2>4 DEF Pair, process, sessions
  <2> QED
    BY <1>4, <2>1, <2>2, <2>3, <2>4 DEF Control
<1>5. CASE UNCHANGED vars
  BY <1>5 DEF vars, process, sessions, controls
<1> QED
  BY <1>1, <1>2, <1>3, <1>4, <1>5 DEF Next, Main

\* A step that leaves the sessions and the control threads alone.
LEMMA ServerProcess ==
  ASSUME ServerInv, [Next]_vars, UNCHANGED <<sessions, controls>>,
         main = "exited" => main' = "exited", main' = "exited" => listening' = {}
  PROVE  ServerInv'
<1>1. TypeOK'
  BY ServerTypes
<1>2. Alive' = Alive /\ MisdirectedOnlyAfterDeath' /\ \A c \in Controls : Handed(c)' <=> Handed(c)
  BY DEF ServerInv, Alive, MisdirectedOnlyAfterDeath, Handed, sessions, controls
<1> QED
  BY <1>1, <1>2 DEF ServerInv, sessions, controls

LEMMA ServerMain ==
  ASSUME ServerInv, Main \/ CtrlC
  PROVE  ServerInv'
<1>1. TypeOK' /\ [Next]_vars
  BY ServerTypes DEF Next
<1>2. CASE Start \/ StartControl \/ Watch \/ CtrlC \/ StopRepl \/ StopControl
  <2>1. UNCHANGED <<sessions, controls>> /\ main # "exited" /\ main' # "exited"
    BY <1>2 DEF Start, StartControl, Watch, CtrlC, StopRepl, StopControl
  <2> QED
    BY <1>1, <2>1, ServerProcess
<1>3. CASE Exit
  <2>1. Alive' = {} /\ main' = "exited" /\ listening' = {}
    BY <1>3 DEF Exit, Alive, ServerInv, TypeOK
  <2>2. UNCHANGED <<ident, pending, controls>>
    BY <1>3 DEF Exit
  <2>3. \A s \in Sessions : /\ st[s] \in {"none", "dead", "killed"} => st'[s] = st[s]
                            /\ s \in Alive => st'[s] = "killed"
    BY <1>3 DEF Exit, Alive, ServerInv, TypeOK
  <2>4. \A s \in Sessions : s \in Alive \/ st[s] \in {"none", "dead", "killed"}
    BY DEF Alive, ServerInv, TypeOK
  <2>5. \A c \in Controls : Handed(c) => Handed(c)'
    BY <2>2, <2>3, <2>4 DEF Handed, controls
  <2>6. MisdirectedOnlyAfterDeath'
    BY <2>2, <2>3 DEF MisdirectedOnlyAfterDeath, ServerInv, TypeOK
  <2> QED
    BY <1>1, <2>1, <2>2, <2>3, <2>4, <2>5, <2>6 DEF ServerInv, controls
<1> QED
  BY <1>2, <1>3 DEF Main

LEMMA ServerSession ==
  ASSUME ServerInv, NEW s \in Sessions,
         Session(s) \/ Accept(s) \/ MakeThreadKnown(s) \/ TakeInterrupt(s)
           \/ \E doit \in BOOLEAN : Halt(s, doit)
  PROVE  ServerInv'
<1>1. TypeOK' /\ [Next]_vars
  BY ServerTypes DEF Next
<1>2. TypeOK
  BY DEF ServerInv
<1>3. CASE Accept(s)
  <2>1. PICK i \in Idents \ LiveIdents : ident' = [ident EXCEPT ![s] = i]
    BY <1>3 DEF Accept
  <2>2. st[s] = "none" /\ st' = [st EXCEPT ![s] = "accepted"] /\ UNCHANGED <<process, pending, controls>>
    BY <1>3 DEF Accept
  <2>3. Alive' = Alive \cup {s} /\ s \notin Alive
    BY <1>2, <2>2 DEF Alive, TypeOK
  <2>4. \A r \in Alive : r # s /\ ident'[r] = ident[r] /\ ident'[r] # ident'[s]
    BY <1>2, <2>1, <2>3 DEF Alive, TypeOK, LiveIdents
  <2>5. \A q, r \in Alive' : ident'[q] = ident'[r] => q = r
    BY <2>3, <2>4 DEF ServerInv
  <2>6. \A c \in Controls : Handed(c) => Handed(c)'
    BY <1>2, <2>2 DEF Handed, controls, TypeOK
  <2>7. MisdirectedOnlyAfterDeath'
    BY <1>2, <2>1, <2>2 DEF MisdirectedOnlyAfterDeath, ServerInv, TypeOK
  <2>8. main # "exited" /\ UNCHANGED main
    BY <1>3, <2>2 DEF Accept, ServerInv, process
  <2> QED
    BY <1>1, <1>2, <2>2, <2>5, <2>6, <2>7, <2>8 DEF ServerInv, controls, TypeOK
<1>4. CASE Register(s) \/ MakeThreadKnown(s) \/ Unregister(s)
  <2>1. /\ s \in Alive /\ UNCHANGED <<process, ident, pending, controls>>
        /\ \E new \in {"registered", "known", "unregistered"} :
             /\ st' = [st EXCEPT ![s] = new]
             /\ st[s] \in {"known", "unregistered", "dead", "killed"} => new \in {"known", "unregistered"}
    BY <1>4 DEF Register, MakeThreadKnown, Unregister, Alive, Active
  <2>2. Alive' = Alive
    BY <1>2, <2>1 DEF Alive, TypeOK
  <2>3. \A c \in Controls : Handed(c) => Handed(c)'
    BY <1>2, <2>1 DEF Handed, controls, TypeOK
  <2>4. MisdirectedOnlyAfterDeath'
    BY <1>2, <2>1 DEF MisdirectedOnlyAfterDeath, ServerInv, TypeOK, Alive
  <2> QED
    BY <1>1, <1>2, <2>1, <2>2, <2>3, <2>4 DEF ServerInv, controls, process, TypeOK
<1>5. CASE ThreadEnds(s)
  <2>1. /\ st[s] = "unregistered" /\ st' = [st EXCEPT ![s] = "dead"]
        /\ pending' = [pending EXCEPT ![s] = {}] /\ UNCHANGED <<process, ident, controls>>
    BY <1>5 DEF ThreadEnds
  <2>2. Alive' = Alive \ {s}
    BY <1>2, <2>1 DEF Alive, TypeOK
  <2>3. \A c \in Controls : Handed(c) => Handed(c)'
    BY <1>2, <2>1 DEF Handed, controls, TypeOK
  <2>4. MisdirectedOnlyAfterDeath'
    BY <1>2, <2>1 DEF MisdirectedOnlyAfterDeath, ServerInv, TypeOK
  <2> QED
    BY <1>1, <1>2, <2>1, <2>2, <2>3, <2>4 DEF ServerInv, controls, process, TypeOK
<1>6. CASE TakeInterrupt(s)
  <2>1. pending' = [pending EXCEPT ![s] = {}] /\ UNCHANGED <<process, st, ident, controls>>
    BY <1>6 DEF TakeInterrupt
  <2>2. Alive' = Alive /\ \A c \in Controls : Handed(c) => Handed(c)'
    BY <2>1 DEF Handed, controls, Alive
  <2>3. MisdirectedOnlyAfterDeath'
    BY <1>2, <2>1 DEF MisdirectedOnlyAfterDeath, ServerInv, TypeOK
  <2> QED
    BY <1>1, <1>2, <2>1, <2>2, <2>3 DEF ServerInv, controls, process, TypeOK
<1>7. CASE \E doit \in BOOLEAN : Halt(s, doit)
  BY <1>1, <1>7, ServerProcess DEF Halt, ServerInv
<1> QED
  BY <1>3, <1>4, <1>5, <1>6, <1>7 DEF Session

\* RaiseIn may reach a thread that is not the one found: then the session is dead,
\* since its thread is not alive and the process has not ended.
LEMMA ServerControl ==
  ASSUME ServerInv, NEW c \in Controls, Control(c) \/ \E s \in Sessions : Pair(c, s)
  PROVE  ServerInv'
<1>1. TypeOK' /\ [Next]_vars
  BY ServerTypes DEF Next
<1>2. TypeOK
  BY DEF ServerInv
<1>3. UNCHANGED <<process, st, ident>> /\ Alive' = Alive
  BY DEF Control, Lookup, CheckIdent, RaiseIn, Pair, process, sessions, Alive
<1>4. \A d \in Controls : cst'[d] # "idle" => Handed(d)'
  <2>1. CASE Lookup(c)
    BY <1>2, <2>1 DEF Lookup, Handed, Active, ServerInv, TypeOK, sessions
  <2>2. CASE CheckIdent(c)
    BY <1>2, <2>2 DEF CheckIdent, Handed, ServerInv, TypeOK, sessions
  <2>3. CASE RaiseIn(c)
    BY <1>2, <2>3 DEF RaiseIn, Handed, ServerInv, TypeOK
  <2>4. CASE \E s \in Sessions : Pair(c, s)
    BY <1>2, <2>4 DEF Pair, Serving, Handed, ServerInv, TypeOK, sessions
  <2> QED
    BY <2>1, <2>2, <2>3, <2>4 DEF Control
<1>5. MisdirectedOnlyAfterDeath' /\ \A s \in Sessions : st'[s] = "none" => pending'[s] = {}
  <2>1. CASE UNCHANGED pending
    BY <1>3, <2>1 DEF ServerInv, MisdirectedOnlyAfterDeath
  <2>2. CASE RaiseIn(c)
    <3> DEFINE hit == {s \in Alive : ident[s] = ident[target[c]]}
    <3>1. pending' = [s \in Sessions |-> IF s \in hit THEN {paired[c]} ELSE pending[s]]
      BY <2>2 DEF RaiseIn
    <3>2. Handed(c) /\ main # "exited"
      BY <2>2 DEF RaiseIn, ServerInv
    <3>3. ASSUME NEW s \in hit PROVE paired[c] = s \/ (st[paired[c]] = "dead" /\ ident[paired[c]] = ident[s])
      <4>1. st[target[c]] # "killed"
        BY <3>2 DEF ServerInv, Handed
      <4>2. CASE st[target[c]] = "dead"
        BY <3>2, <3>3, <4>2 DEF Handed
      <4>3. CASE target[c] \in Alive
        BY <3>2, <3>3, <4>3 DEF Handed, ServerInv
      <4> QED
        BY <3>2, <4>1, <4>2, <4>3 DEF Handed, Alive
    <3>4. ASSUME NEW s \in Sessions, NEW t \in pending'[s]
          PROVE  t = s \/ (st'[t] = "dead" /\ ident'[t] = ident'[s])
      <4>1. CASE s \in hit
        BY <1>3, <3>1, <3>3, <3>4, <4>1
      <4>2. CASE s \notin hit
        BY <1>3, <3>1, <3>4, <4>2 DEF ServerInv, MisdirectedOnlyAfterDeath
      <4> QED
        BY <4>1, <4>2
    <3>5. ASSUME NEW s \in Sessions, st[s] = "none" PROVE pending'[s] = {}
      <4>1. s \notin hit
        BY <3>5 DEF Alive
      <4> QED
        BY <3>1, <3>5, <4>1 DEF ServerInv
    <3> QED
      BY <1>3, <3>4, <3>5 DEF MisdirectedOnlyAfterDeath
  <2> QED
    BY <2>1, <2>2 DEF Control, Lookup, CheckIdent, Pair, sessions
<1> QED
  BY <1>1, <1>3, <1>4, <1>5 DEF ServerInv, process

LEMMA ServerStays == ServerInv /\ UNCHANGED vars => ServerInv'
  BY ServerProcess DEF vars, process, ServerInv

LEMMA ServerInvariant == Init /\ [][Next]_vars => []ServerInv
<1>1. ServerInv /\ [Next]_vars => ServerInv'
  BY ServerMain, ServerSession, ServerControl, ServerStays DEF Next
<1> QED
  BY <1>1, ServerInit, PTL

\* An interrupt meant for one session reaches another only when the thread of the
\* one is dead and the other has its identifier (server.py:392-409,
\* excutil.py:368-372).
THEOREM Misdirection == Spec => []MisdirectedOnlyAfterDeath
<1>1. ServerInv => MisdirectedOnlyAfterDeath
  BY DEF ServerInv
<1> QED
  BY <1>1, ServerInvariant, PTL DEF Spec

------------------------------------------------------------------------------
(***************************************************************************)
(* The session: its descriptors                                            *)
(***************************************************************************)
\* The inductive invariant: while the session thread holds the terminal it is open;
\* the forwarding thread runs from Start to the end of Join; and a step of stop() is
\* left out only when an interrupt is raised inside it.
Transport ==
  /\ con = "starting" => fds = "none" /\ fwd = "none"
  /\ con = "open" => fwd = "none"
  /\ con \notin {"starting", "unregistering", "ended"} => fds = "open"
  /\ con = "closing" => fwd \notin S!Forwarding
  /\ fds # "open" => fwd \notin S!Forwarding
  /\ con \in {"unregistering", "ended"} /\ fds = "open" => cutShort

\* The type invariant in two parts: the Boolean variables, and the others.
SessionFlags == terminated \in BOOLEAN /\ more \in BOOLEAN /\ ki \in BOOLEAN /\ cutShort \in BOOLEAN
SessionData ==
  /\ conn \in {"up", "closed", "reset"}
  /\ sent \in Seq(Lines) /\ wire \in Seq(Lines) /\ carried \in Seq(Lines)
  /\ fwd \in S!Forwarding \cup {"none", "ended", "died"}
  /\ keyboard \in Seq(Lines \cup {"hangup"}) /\ got \in Seq(Lines \cup {"hangup"})
  /\ screen \in {0, 1} /\ unread \in {0, 1} /\ todo \in 0..2
  /\ fds \in {"none", "open", "closed"}
  /\ con \in {"starting", "open", "greeted", "reading", "running", "leaving",
              "stopping", "joining", "closing", "unregistering", "ended"}
  /\ interrupts \in 0..MaxInterrupts

LEMMA SessionParts == S!TypeOK <=> SessionFlags /\ SessionData
  BY DEF S!TypeOK, SessionData, SessionFlags

LEMMA InterruptBound == MaxInterrupts \in Nat
  BY ReplSessionAssumption DEF S!ReplSessionAssumption

LEMMA SessionInit == S!Init => S!TypeOK /\ Transport
<1>1. S!Init => SessionFlags
  BY DEF S!Init, SessionFlags
<1>2. S!Init => SessionData /\ Transport
  BY InterruptBound DEF S!Init, SessionData, Transport, S!Forwarding
<1> QED
  BY <1>1, <1>2, SessionParts

LEMMA SessionFlagSteps == SessionFlags /\ [S!Next]_(S!vars) => SessionFlags'
<1> SUFFICES ASSUME SessionFlags, [S!Next]_(S!vars) PROVE SessionFlags'
  OBVIOUS
<1> USE DEF SessionFlags
<1>1. CASE S!Client \/ S!ForwardTraffic
  BY <1>1 DEF S!Client, S!SendLine, S!ReadOutput, S!Disconnect, S!Interrupt, S!ForwardTraffic, S!Poll,
     S!SendOutput, S!WriteInput, S!Hangup, S!console
<1>2. CASE S!ReadLine
  BY <1>2 DEF S!ReadLine, S!Push, S!Execute
<1>3. CASE S!OpenTerminal \/ S!Start \/ S!Interact \/ S!RunStatement \/ S!LeaveStreams
  BY <1>3 DEF S!OpenTerminal, S!Start, S!Interact, S!RunStatement, S!LeaveStreams
<1>4. CASE S!Stop \/ S!Join \/ S!Close \/ S!Unregister
  BY <1>4 DEF S!Stop, S!Join, S!Close, S!Unregister
<1>5. CASE UNCHANGED S!vars
  BY <1>5 DEF S!vars, S!console
<1> QED
  BY <1>1, <1>2, <1>3, <1>4, <1>5 DEF S!Next, S!Handle

LEMMA SessionDataSteps == SessionData /\ [S!Next]_(S!vars) => SessionData'
<1> SUFFICES ASSUME SessionData, [S!Next]_(S!vars) PROVE SessionData'
  OBVIOUS
<1> USE DEF SessionData
<1>0. <<>> \in Seq(Lines) /\ \A q \in Seq(Lines) : q # <<>> => Tail(q) \in Seq(Lines) /\ <<Head(q)>> \in Seq(Lines)
  OBVIOUS
<1>1. CASE S!Client
  <2>1. ASSUME NEW l \in Lines, S!SendLine(l) PROVE SessionData'
    BY <2>1 DEF S!SendLine, S!forwarder, S!console
  <2>2. CASE S!Disconnect
    <3>1. wire' \in Seq(Lines) /\ conn' \in {"up", "closed", "reset"}
      BY <1>0, <2>2 DEF S!Disconnect
    <3> QED
      BY <2>2, <3>1 DEF S!Disconnect, S!forwarder, S!console
  <2>3. CASE S!Interrupt
    BY <2>3, InterruptBound DEF S!Interrupt, S!client, S!forwarder, S!console
  <2>4. CASE S!ReadOutput
    BY <2>4 DEF S!ReadOutput, S!forwarder, S!console
  <2> QED
    BY <1>1, <2>1, <2>2, <2>3, <2>4 DEF S!Client
<1>2. CASE S!ForwardTraffic
  <2>1. CASE S!Poll
    <3>1. wire' \in Seq(Lines) /\ carried' \in Seq(Lines) /\ screen' \in {0, 1}
      BY <1>0, <2>1 DEF S!Poll
    <3>2. fwd' \in {"ended", "send", "write", "hangup"}
      BY <2>1 DEF S!Poll
    <3> QED
      BY <2>1, <3>1, <3>2 DEF S!Poll, S!console, S!Forwarding
  <2>2. CASE S!SendOutput
    <3>1. /\ wire' \in Seq(Lines) /\ conn' \in {"up", "closed", "reset"} /\ unread' \in {0, 1}
          /\ fwd' \in {"poll", "hangup", "died"}
      BY <1>0, <2>2 DEF S!SendOutput
    <3> QED
      BY <2>2, <3>1 DEF S!SendOutput, S!console, S!Forwarding
  <2>3. CASE S!WriteInput
    BY <2>3 DEF S!WriteInput, S!console, S!client, S!Forwarding
  <2>4. CASE S!Hangup
    BY <2>4 DEF S!Hangup, S!console, S!client
  <2> QED
    BY <1>2, <2>1, <2>2, <2>3, <2>4 DEF S!ForwardTraffic
<1>3. CASE S!ReadLine
  <2>1. /\ Head(keyboard) \in Lines \cup {"hangup"} /\ keyboard' \in Seq(Lines \cup {"hangup"})
        /\ got' \in Seq(Lines \cup {"hangup"})
    BY <1>3 DEF S!ReadLine
  <2>2. con' \in {"reading", "leaving", "running"} /\ todo' \in 0..2
    <3>1. ASSUME S!Execute(Head(keyboard)) PROVE con' \in {"leaving", "running"} /\ todo' \in 0..2
      BY <3>1 DEF S!Execute
    <3>2. S!Execute(Head(keyboard)) \/ UNCHANGED <<con, todo>>
      BY <1>3 DEF S!ReadLine, S!Push
    <3>3. con = "reading"
      BY <1>3 DEF S!ReadLine
    <3> QED
      BY <3>1, <3>2, <3>3
  <2> QED
    BY <1>3, <2>1, <2>2 DEF S!ReadLine, S!client, S!forwarder
<1>4. CASE S!OpenTerminal \/ S!Start \/ S!Interact
  BY <1>4 DEF S!OpenTerminal, S!Start, S!Interact, S!client, S!forwarder, S!Forwarding
<1>5. CASE S!RunStatement \/ S!LeaveStreams
  BY <1>5 DEF S!RunStatement, S!LeaveStreams, S!client, S!forwarder
<1>6. CASE S!Stop \/ S!Join
  BY <1>6 DEF S!Stop, S!Join, S!client, S!forwarder
<1>7. CASE S!Close \/ S!Unregister
  BY <1>7 DEF S!Close, S!Unregister, S!client, S!forwarder
<1>8. CASE UNCHANGED S!vars
  BY <1>8 DEF S!vars, S!client, S!forwarder, S!console
<1> QED
  BY <1>1, <1>2, <1>3, <1>4, <1>5, <1>6, <1>7, <1>8 DEF S!Next, S!Handle

LEMMA SessionTypes == S!TypeOK /\ [S!Next]_(S!vars) => S!TypeOK'
<1>1. S!TypeOK' <=> SessionFlags' /\ SessionData'
  BY DEF S!TypeOK, SessionData, SessionFlags
<1> QED
  BY <1>1, SessionParts, SessionFlagSteps, SessionDataSteps

LEMMA TransportSteps == S!TypeOK /\ Transport /\ [S!Next]_(S!vars) => Transport'
<1> SUFFICES ASSUME S!TypeOK, Transport, [S!Next]_(S!vars) PROVE Transport'
  OBVIOUS
<1> USE DEF Transport, S!Forwarding
<1>1. CASE S!Client
  <2>1. ASSUME NEW l \in Lines, S!SendLine(l) PROVE Transport'
    BY <2>1 DEF S!SendLine, S!forwarder, S!console
  <2>2. CASE S!ReadOutput \/ S!Disconnect \/ S!Interrupt
    BY <2>2 DEF S!ReadOutput, S!Disconnect, S!Interrupt, S!client, S!forwarder, S!console, S!TypeOK
  <2> QED
    BY <1>1, <2>1, <2>2 DEF S!Client
<1>2. CASE S!ForwardTraffic
  BY <1>2 DEF S!ForwardTraffic, S!Poll, S!SendOutput, S!WriteInput, S!Hangup, S!console
<1>3. CASE S!ReadLine
  <2>1. con' \in {"reading", "leaving", "running"} /\ con = "reading"
    BY <1>3 DEF S!ReadLine, S!Push, S!Execute
  <2> QED
    BY <1>3, <2>1 DEF S!ReadLine, S!client, S!forwarder
<1>4. CASE S!OpenTerminal \/ S!Start \/ S!Interact
  BY <1>4 DEF S!OpenTerminal, S!Start, S!Interact, S!forwarder
<1>5. CASE S!RunStatement \/ S!LeaveStreams
  BY <1>5 DEF S!RunStatement, S!LeaveStreams, S!forwarder
<1>6. CASE S!Stop \/ S!Join
  BY <1>6 DEF S!Stop, S!Join, S!forwarder
<1>7. CASE S!Close \/ S!Unregister
  BY <1>7 DEF S!Close, S!Unregister, S!forwarder
<1>8. CASE UNCHANGED S!vars
  BY <1>8 DEF S!vars, S!forwarder, S!console
<1> QED
  BY <1>1, <1>2, <1>3, <1>4, <1>5, <1>6, <1>7, <1>8 DEF S!Next, S!Handle

------------------------------------------------------------------------------
(***************************************************************************)
(* The session: its input                                                  *)
(***************************************************************************)
\* What the forwarding thread has received so far.
Input == got \o keyboard \o carried

\* The inductive invariant, with u as what has been sent and not received: the input
\* is the rest of what was sent, and may end with the injected quit(), after which
\* nothing is received.
Flow ==
  /\ \E u \in Seq(Lines) :
       /\ IF conn = "reset" THEN wire = <<>> ELSE wire = u
       /\ \/ Input \in Seq(Lines) /\ Input \o u = sent
          \/ /\ fwd = "ended" /\ conn # "up" /\ wire = <<>>
             /\ \E t \in Seq(Lines) : Input = Append(t, "hangup") /\ t \o u = sent
  /\ fwd # "write" => carried = <<>>
  /\ fwd = "hangup" => conn # "up" /\ wire = <<>>

LEMMA FlowInit == S!Init => Flow
<1> SUFFICES ASSUME S!Init PROVE Flow
  OBVIOUS
<1>1. <<>> \in Seq(Lines) /\ <<>> \o <<>> = <<>>
  OBVIOUS
<1>2. Input = <<>> /\ sent = <<>> /\ wire = <<>> /\ conn = "up" /\ fwd = "none" /\ carried = <<>>
  BY <1>1 DEF S!Init, Input
<1> QED
  BY <1>1, <1>2 DEF Flow

\* A step that does not touch the input or the connection.
LEMMA FlowKept ==
  ASSUME Flow, UNCHANGED <<Input, carried, sent, wire>>,
         UNCHANGED conn \/ (conn = "up" /\ conn' = "closed"),
         UNCHANGED fwd \/ (fwd # "ended" /\ fwd' # "hangup" /\ (fwd' = "write" <=> fwd = "write"))
  PROVE  Flow'
  BY DEF Flow

LEMMA FlowSteps == S!TypeOK /\ Transport /\ Flow /\ [S!Next]_(S!vars) => Flow'
<1> SUFFICES ASSUME S!TypeOK, Transport, Flow, [S!Next]_(S!vars) PROVE Flow'
  OBVIOUS
<1> DEFINE AllLines == Lines \cup {"hangup"}
<1>1. /\ {got, keyboard, carried, Input} \subseteq Seq(AllLines)
      /\ sent \in Seq(Lines) /\ wire \in Seq(Lines) /\ carried \in Seq(Lines)
  BY DEF S!TypeOK, Input
<1>2. ASSUME NEW l \in Lines, S!SendLine(l) PROVE Flow'
  <2>1. conn = "up" /\ sent' = Append(sent, l) /\ wire' = Append(wire, l) /\ UNCHANGED <<conn, fwd, carried, Input>>
    BY <1>2 DEF S!SendLine, S!forwarder, S!console, Input
  <2>2. Input \in Seq(Lines) /\ Input \o wire = sent
    BY <2>1 DEF Flow
  <2>3. Input \o Append(wire, l) = Append(sent, l) /\ Append(wire, l) \in Seq(Lines)
    BY <1>1, <2>2
  <2> QED
    BY <2>1, <2>2, <2>3 DEF Flow
<1>3. CASE S!Disconnect
  BY <1>3, <1>1 DEF S!Disconnect, S!forwarder, S!console, Flow, Input
<1>4. CASE S!Interrupt
  BY <1>4, FlowKept DEF S!Interrupt, S!client, S!forwarder, S!console, Input
<1>5. CASE S!Poll
  <2>1. fwd = "poll" /\ carried = <<>> /\ UNCHANGED <<conn, sent, got, keyboard>>
    BY <1>5 DEF S!Poll, S!console, Flow
  <2>2. CASE fwd' \in {"ended", "send"} /\ UNCHANGED <<wire, carried>>
    BY <2>1, <2>2, FlowKept DEF Input
  <2>3. CASE wire # <<>> /\ fwd' = "write" /\ carried' = <<Head(wire)>> /\ wire' = Tail(wire)
    <3>1. conn # "reset" /\ Input \in Seq(Lines) /\ Input \o wire = sent
      BY <2>1, <2>3 DEF Flow
    <3>2. Input = got \o keyboard
      BY <1>1, <2>1 DEF Input
    <3>3. Input' = Input \o <<Head(wire)>>
      BY <2>1, <2>3, <3>2 DEF Input
    <3>4. <<Head(wire)>> \in Seq(Lines) /\ Tail(wire) \in Seq(Lines) /\ wire = <<Head(wire)>> \o Tail(wire)
      BY <1>1, <2>3
    <3>5. Input' \in Seq(Lines) /\ Input' \o Tail(wire) = sent
      BY <3>1, <3>3, <3>4, ConcatProperties, ConcatAssociative
    <3> QED
      BY <2>1, <2>3, <3>1, <3>4, <3>5 DEF Flow
  <2>4. CASE conn # "up" /\ wire = <<>> /\ fwd' = "hangup" /\ UNCHANGED <<wire, carried>>
    BY <2>1, <2>4 DEF Flow, Input
  <2> QED
    BY <1>5, <2>2, <2>3, <2>4 DEF S!Poll
<1>6. CASE S!SendOutput
  BY <1>6, <1>1 DEF S!SendOutput, S!console, Flow, Input
<1>7. CASE S!WriteInput
  <2>1. fwd = "write" /\ fwd' = "poll" /\ keyboard' = keyboard \o carried /\ carried' = <<>> /\ UNCHANGED <<conn, sent, wire, got>>
    BY <1>7 DEF S!WriteInput, S!client, S!console
  <2>2. Input' = Input
    <3>1. got \o (keyboard \o carried) = (got \o keyboard) \o carried
      <4>1. got \in Seq(AllLines) /\ keyboard \in Seq(AllLines) /\ carried \in Seq(AllLines)
        BY <1>1
      <4> HIDE DEF AllLines
      <4> QED
        BY <4>1, ConcatAssociative
    <3> QED
      BY <1>1, <2>1, <3>1 DEF Input
  <2> QED
    BY <2>1, <2>2 DEF Flow
<1>8. CASE S!Hangup
  <2>1. fwd = "hangup" /\ fwd' = "ended" /\ keyboard' = Append(keyboard, "hangup") /\ carried = <<>> /\ UNCHANGED <<conn, sent, wire, carried, got>>
    BY <1>8 DEF S!Hangup, S!client, S!console, Flow
  <2>2. Input' = Append(Input, "hangup")
    BY <1>1, <2>1 DEF Input
  <2> QED
    BY <2>1, <2>2 DEF Flow
<1>9. CASE S!ReadLine
  <2>1. keyboard # <<>> /\ keyboard' = Tail(keyboard) /\ got' = Append(got, Head(keyboard)) /\ UNCHANGED <<conn, sent, wire, fwd, carried>>
    BY <1>9 DEF S!ReadLine, S!client, S!forwarder
  <2>2. Append(got, Head(keyboard)) \o Tail(keyboard) = got \o keyboard
    BY <1>1, <2>1
  <2> QED
    BY <2>1, <2>2, FlowKept DEF Input
<1>10. CASE S!Start
  BY <1>10, FlowKept DEF S!Start, S!client, Input, Transport
<1>11. CASE S!OpenTerminal \/ S!Interact \/ S!RunStatement \/ S!LeaveStreams \/ S!Stop \/ S!Join \/ S!Close
  <2>1. UNCHANGED <<conn, sent, wire, fwd, carried, keyboard, got>>
    BY <1>11 DEF S!OpenTerminal, S!Interact, S!RunStatement, S!LeaveStreams, S!Stop, S!Join, S!Close, S!client, S!forwarder
  <2> QED
    BY <2>1, FlowKept DEF Input
<1>12. CASE S!Unregister
  BY <1>12, FlowKept DEF S!Unregister, S!forwarder, Input
<1>13. CASE S!ReadOutput
  BY <1>13, FlowKept DEF S!ReadOutput, S!forwarder, S!console, Input
<1>14. CASE UNCHANGED S!vars
  BY <1>14, FlowKept DEF S!vars, S!client, S!forwarder, S!console, Input
<1> QED
  BY <1>2, <1>3, <1>4, <1>5, <1>6, <1>7, <1>8, <1>9, <1>10, <1>11, <1>12, <1>13, <1>14
  DEF S!Next, S!Client, S!ForwardTraffic, S!Handle

LEMMA InputFromFlow == S!TypeOK /\ Flow => S!InputInOrder
<1> SUFFICES ASSUME S!TypeOK, Flow PROVE S!InputInOrder
  OBVIOUS
<1>1. PICK u \in Seq(Lines) :
        /\ IF conn = "reset" THEN wire = <<>> ELSE wire = u
        /\ \/ Input \in Seq(Lines) /\ Input \o u = sent
           \/ /\ fwd = "ended" /\ conn # "up" /\ wire = <<>>
              /\ \E t \in Seq(Lines) : Input = Append(t, "hangup") /\ t \o u = sent
  BY DEF Flow
<1>2. ASSUME NEW t \in Seq(Lines), t \o u = sent PROVE S!IsPrefix(t, sent)
  <2>1. Len(sent) = Len(t) + Len(u) /\ \A i \in 1..Len(t) : sent[i] = t[i]
    BY <1>2
  <2>2. SubSeq(t, 1, Len(t)) = SubSeq(sent, 1, Len(t))
    BY <1>2, <2>1, SubSeqFull
  <2> QED
    BY <1>2, <2>1, <2>2 DEF S!IsPrefix
<1>3. CASE Input \in Seq(Lines) /\ Input \o u = sent
  <2>1. ~S!Contains(Input, "hangup")
    BY <1>3, ReplSessionAssumption DEF S!Contains, ReplSessionAssumption, S!ReplSessionAssumption
  <2> QED
    BY <1>2, <1>3, <2>1 DEF S!InputInOrder, Input
<1>4. CASE /\ fwd = "ended" /\ conn # "up" /\ wire = <<>>
           /\ \E t \in Seq(Lines) : Input = Append(t, "hangup") /\ t \o u = sent
  <2>1. PICK t \in Seq(Lines) : Input = Append(t, "hangup") /\ t \o u = sent
    BY <1>4
  <2>2. Input # <<>> /\ S!Last(Input) = "hangup" /\ S!Front(Input) = t
    BY <2>1 DEF S!Last, S!Front
  <2>3. conn = "closed" => Input = Append(sent, "hangup")
    BY <1>1, <1>4, <2>1
  <2> QED
    BY <1>2, <2>1, <2>2, <2>3 DEF S!InputInOrder, Input
<1> QED
  BY <1>1, <1>3, <1>4

------------------------------------------------------------------------------
(***************************************************************************)
(* The session: its theorems                                               *)
(***************************************************************************)
\* The inductive invariant of the session.
SessionInv == S!TypeOK /\ Transport /\ Flow

LEMMA SessionInvariant == S!Init /\ [][S!Next]_(S!vars) => []SessionInv
<1>1. S!Init => SessionInv
  BY SessionInit, FlowInit DEF SessionInv
<1>2. SessionInv /\ [S!Next]_(S!vars) => SessionInv'
  BY SessionTypes, TransportSteps, FlowSteps DEF SessionInv
<1> QED
  BY <1>1, <1>2, PTL

\* A step of the composition is a step of each of its parts, or leaves it alone.
LEMMA PartsStep ==
  ASSUME [MCNext]_allvars
  PROVE  [Next]_vars /\ [S!Next]_(S!vars) /\ [C!Next]_(C!cvars) /\ [D!Next]_dvars
<1>1. CASE ServerStep(Next)
  BY <1>1 DEF ServerStep, svars, cvars, S!vars, S!client, S!forwarder, S!console, C!cvars
<1>2. CASE SessionStep(S!Next)
  BY <1>2 DEF SessionStep, svars, cvars, C!cvars
<1>3. CASE ClientStep(C!Next)
  BY <1>3 DEF ClientStep, svars, S!vars, S!client, S!forwarder, S!console
<1>4. CASE DecoderStep(D!Next)
  BY <1>4 DEF DecoderStep, svars, cvars, S!vars, S!client, S!forwarder, S!console, C!cvars
<1>5. CASE UNCHANGED allvars
  BY <1>5 DEF allvars, svars, cvars, S!vars, S!client, S!forwarder, S!console, C!cvars
<1> QED
  BY <1>1, <1>2, <1>3, <1>4, <1>5 DEF MCNext

LEMMA SessionAlone == MCSpec => []SessionInv
<1>1. MCInit => S!Init
  BY DEF MCInit
<1>2. [MCNext]_allvars => [S!Next]_(S!vars)
  BY PartsStep
<1> QED
  BY <1>1, <1>2, SessionInvariant, PTL DEF MCSpec

\* The forwarding thread never uses a closed descriptor, and only an interrupt that
\* is raised inside stop() leaves the descriptors open (ptyproxy_posix.py:109-128,
\* ptyproxy.py:106-122).
THEOREM TransportSafe == MCSpec => []TransportHandedBack
<1>1. SessionInv => TransportHandedBack
  BY DEF SessionInv, Transport, TransportHandedBack, S!ForwarderOwnsTransport, S!TransportReleased
<1> QED
  BY <1>1, SessionAlone, PTL

\* What the console reads is what the client sent, in order and nothing twice; the
\* quit() injected for a client that is gone comes after all of it, unless a reset has
\* destroyed the rest (ptyproxy_posix.py:81-103).
THEOREM InputArrives == MCSpec => []InputInOrder
<1>1. SessionInv => InputInOrder
  BY InputFromFlow DEF SessionInv, InputInOrder
<1> QED
  BY <1>1, SessionAlone, PTL

------------------------------------------------------------------------------
(***************************************************************************)
(* The client                                                              *)
(***************************************************************************)
\* Its type invariant in three parts: the Boolean variables, what is on its way with
\* the counters (a request is on its way for a Ctrl+C), and the text.
ClientFlags == raised \in BOOLEAN /\ cut \in BOOLEAN /\ known \in BOOLEAN
Places == {"connecting", "greeting", "pairing", "reading", "looking", "input", "requesting",
           "interrupted", "draining", "drained", "over", "failed"}
ClientData ==
  /\ at \in Places /\ control \in {"live", "dead"}
  /\ srv \in {"greeting", "waiting", "evaluating", "closed"}
  /\ typed \in 0..MaxTyped /\ ctrlc \in 0..MaxCtrlC /\ request \in 0..ctrlc
  /\ up \in Seq({"stmt", "blank", "quit"})
ClientText ==
  /\ printed \in Seq(C!Units) /\ received \in 0..Len(printed)
  /\ val \in Seq(Nat) /\ shown \in Seq(Nat) /\ lost \in SUBSET Nat /\ repeated \in SUBSET Nat

LEMMA ClientBounds ==
  MaxTyped \in Nat /\ MaxCtrlC \in Nat /\ ReadMax \in Nat \ {0} /\ Outputs \subseteq Seq(C!Units)
  BY ReplClientAssumption DEF C!ReplClientAssumption

LEMMA ClientParts ==
  ASSUME ClientFlags, ClientData, ClientText
  PROVE  C!TypeOK
<1>1. request \in 0..MaxCtrlC
  BY ClientBounds DEF ClientData
<1> QED
  BY <1>1 DEF C!TypeOK, ClientFlags, ClientData, ClientText, Places

LEMMA ClientInit ==
  ASSUME C!Init
  PROVE  ClientFlags /\ ClientData /\ ClientText /\ C!ShownInOrder
<1>1. ClientFlags
  BY DEF C!Init, ClientFlags
<1>2. ClientData
  BY ClientBounds DEF C!Init, ClientData, Places
<1>3. ClientText
  BY DEF C!Init, ClientText
<1>4. C!ShownInOrder
  <2>1. shown \o val = <<>> /\ received = 0 /\ lost = {} /\ repeated = {}
    BY DEF C!Init
  <2> QED
    BY <2>1 DEF C!ShownInOrder
<1> QED
  BY <1>1, <1>2, <1>3, <1>4

LEMMA ClientFlagSteps == ClientFlags /\ [C!Next]_(C!cvars) => ClientFlags'
<1> SUFFICES ASSUME ClientFlags, [C!Next]_(C!cvars) PROVE ClientFlags'
  OBVIOUS
<1> USE DEF ClientFlags, C!server, C!client, C!text
<1>1. CASE C!Console
  BY <1>1 DEF C!Console, C!Greet, C!TakeLine, C!Evaluate, C!HandleRequest
<1>2. CASE C!Library
  BY <1>2 DEF C!Library, C!Read, C!DrainMore, C!Pair, C!EndOfFile, C!Look, C!Reply, C!SendBlank, C!Settle
<1>3. CASE C!User \/ C!Handshake \/ C!Shutdown
  BY <1>3 DEF C!User, C!EnterLine, C!CtrlD, C!InterruptPairing, C!InterruptReply, C!CtrlC, C!InterruptRead,
     C!InterruptShow, C!Abort, C!Handshake, C!Shutdown
<1>4. CASE UNCHANGED C!cvars
  BY <1>4 DEF C!cvars
<1> QED
  BY <1>1, <1>2, <1>3, <1>4 DEF C!Next

LEMMA ClientDataSteps ==
  ASSUME ClientData, [C!Next]_(C!cvars)
  PROVE  ClientData'
<1> USE ClientBounds DEF ClientData, Places, C!server, C!client, C!text, C!Goes
<1>0. \A l \in {"stmt", "blank", "quit"} : Append(up, l) \in Seq({"stmt", "blank", "quit"})
  OBVIOUS
<1>1. CASE C!Greet \/ C!Evaluate
  BY <1>1 DEF C!Greet, C!Evaluate
<1>2. CASE C!TakeLine
  BY <1>2 DEF C!TakeLine
<1>3. CASE C!HandleRequest
  BY <1>3 DEF C!HandleRequest
<1>4. CASE C!Read
  BY <1>4 DEF C!Read
<1>5. CASE C!DrainMore \/ C!EndOfFile \/ C!Settle \/ C!Pair
  BY <1>5 DEF C!DrainMore, C!EndOfFile, C!Settle, C!Pair
<1>6. CASE C!Look
  BY <1>6 DEF C!Look
<1>7. CASE C!Reply \/ C!SendBlank
  BY <1>0, <1>7 DEF C!Reply, C!SendBlank
<1>8. CASE C!EnterLine \/ C!CtrlD
  <2>1. CASE C!EnterLine
    <3>1. up' \in Seq({"stmt", "blank", "quit"}) /\ at' \in Places
      BY <1>0, <2>1 DEF C!EnterLine
    <3>2. typed' \in 0..MaxTyped
      BY <2>1 DEF C!EnterLine
    <3> QED
      BY <2>1, <3>1, <3>2 DEF C!EnterLine
  <2>2. CASE C!CtrlD
    BY <1>0, <2>2 DEF C!CtrlD
  <2> QED
    BY <1>8, <2>1, <2>2
<1>9. CASE C!InterruptPairing \/ C!InterruptReply \/ C!Abort
  BY <1>9 DEF C!InterruptPairing, C!InterruptReply, C!Abort, C!Pressed
<1>10. CASE C!CtrlC \/ C!InterruptRead \/ C!InterruptShow
  <2>1. ctrlc' \in 0..MaxCtrlC /\ request' \in 0..ctrlc' /\ at' \in Places
    BY <1>10 DEF C!CtrlC, C!InterruptRead, C!InterruptShow, C!Interrupts, C!Pressed
  <2> QED
    BY <1>10, <2>1 DEF C!CtrlC, C!InterruptRead, C!InterruptShow
<1>11. CASE C!Handshake \/ C!Shutdown
  BY <1>11 DEF C!Handshake, C!Shutdown
<1>12. CASE UNCHANGED C!cvars
  BY <1>12 DEF C!cvars
<1> QED
  BY <1>1, <1>2, <1>3, <1>4, <1>5, <1>6, <1>7, <1>8, <1>9, <1>10, <1>11, <1>12
  DEF C!Next, C!Console, C!Library, C!User

\* The steps that move text: printing it, reading n units, losing what is read, showing
\* the buffer, showing its first n units and keeping it, or forgetting the rest.
Printing == \E o \in Seq(C!Units) : C!Emit(o) /\ UNCHANGED <<received, val, shown, lost, repeated>>
Reading ==
  /\ \E n \in Nat : C!Receives(n) /\ val' = val \o C!Arrivals(n)
  /\ UNCHANGED <<printed, shown, lost, repeated>>
Losing ==
  /\ \E n \in Nat : C!Receives(n) /\ lost' = lost \cup ToSet(C!Arrivals(n))
  /\ UNCHANGED <<printed, val, shown, repeated>>
Showing == shown' = shown \o val /\ val' = <<>> /\ UNCHANGED <<received, printed, lost, repeated>>
Repeating ==
  /\ \E n \in 0..Len(val) : shown' = shown \o SubSeq(val, 1, n)
  /\ repeated' = repeated \cup ToSet(val)
  /\ UNCHANGED <<received, printed, val, lost>>
Forgetting ==
  /\ \E n \in 0..Len(val) : /\ shown' = shown \o SubSeq(val, 1, n)
                            /\ lost' = lost \cup ToSet(SubSeq(val, n + 1, Len(val)))
  /\ val' = <<>>
  /\ UNCHANGED <<received, printed, repeated>>
ClientTextStays == UNCHANGED <<received, val, printed, shown, lost, repeated>>

LEMMA TextMoves ==
  ASSUME ClientData, [C!Next]_(C!cvars)
  PROVE  \/ ctrlc' \in Nat /\ (ctrlc' = 0 => ctrlc = 0) /\ (Printing \/ Reading \/ Showing \/ ClientTextStays)
         \/ ctrlc' \in Nat /\ ctrlc' # 0 /\ (Losing \/ Repeating \/ Forgetting)
<1> USE DEF C!server, C!client, C!text
<1>0. ctrlc \in Nat
  BY ClientBounds DEF ClientData
<1>1. \A o \in Seq(C!Units) : o \o C!Prompt \in Seq(C!Units)
  BY DEF C!Prompt, C!Units
<1>2. {C!Prompt, <<"text">>, <<"first", "newline">>} \subseteq Seq(C!Units)
  BY DEF C!Prompt, C!Units
<1>3. 1..ReadMax \subseteq Nat
  BY ClientBounds
<1>4. CASE C!Console
  <2>1. CASE C!Greet
    BY <1>0, <1>1, <1>2, <2>1 DEF C!Greet, Printing
  <2>2. CASE C!TakeLine
    BY <1>0, <1>1, <1>2, <2>2 DEF C!TakeLine, Printing, ClientTextStays
  <2>3. CASE C!Evaluate
    BY <1>0, <1>1, <1>2, <2>3, ClientBounds DEF C!Evaluate, Printing
  <2>4. CASE C!HandleRequest
    BY <1>0, <2>4 DEF C!HandleRequest, ClientTextStays
  <2> QED
    BY <1>4, <2>1, <2>2, <2>3, <2>4 DEF C!Console
<1>5. CASE C!Read \/ C!DrainMore
  BY <1>0, <1>3, <1>5 DEF C!Read, C!DrainMore, Reading
<1>6. CASE C!Look
  BY <1>0, <1>6 DEF C!Look, Showing, ClientTextStays
<1>7. CASE C!Pair \/ C!EndOfFile \/ C!Reply \/ C!SendBlank \/ C!Settle
  BY <1>0, <1>7 DEF C!Pair, C!EndOfFile, C!Reply, C!SendBlank, C!Settle, ClientTextStays
<1>8. CASE C!EnterLine \/ C!CtrlD \/ C!Handshake \/ C!Shutdown
  BY <1>0, <1>8 DEF C!EnterLine, C!CtrlD, C!Handshake, C!Shutdown, ClientTextStays
<1>9. CASE C!InterruptPairing \/ C!InterruptReply \/ C!CtrlC \/ C!Abort
  BY <1>0, <1>9 DEF C!InterruptPairing, C!InterruptReply, C!CtrlC, C!Abort, C!Interrupts, C!Pressed,
     ClientTextStays
<1>10. CASE C!InterruptRead
  <2>1. ctrlc' \in Nat /\ ctrlc' # 0
    BY <1>0, <1>10 DEF C!InterruptRead, C!Interrupts, C!Pressed
  <2>2. Losing
    BY <1>3, <1>10 DEF C!InterruptRead, Losing, C!ToSet, ToSet
  <2> QED
    BY <2>1, <2>2
<1>11. CASE C!InterruptShow
  <2>1. ctrlc' \in Nat /\ ctrlc' # 0
    BY <1>0, <1>11 DEF C!InterruptShow, C!Interrupts, C!Pressed
  <2>2. PICK n \in 0..Len(val) :
          /\ shown' = shown \o SubSeq(val, 1, n)
          /\ \/ repeated' = repeated \cup ToSet(val) /\ UNCHANGED <<val, lost>>
             \/ val' = <<>> /\ lost' = lost \cup ToSet(SubSeq(val, n + 1, Len(val))) /\ UNCHANGED repeated
    BY <1>11 DEF C!InterruptShow, C!ToSet, ToSet
  <2>3. UNCHANGED <<received, printed>>
    BY <1>11 DEF C!InterruptShow
  <2>4. Repeating \/ Forgetting
    BY <2>2, <2>3 DEF Repeating, Forgetting
  <2> QED
    BY <2>1, <2>4
<1>12. CASE UNCHANGED C!cvars
  BY <1>0, <1>12 DEF C!cvars, ClientTextStays
<1> QED
  BY <1>4, <1>5, <1>6, <1>7, <1>8, <1>9, <1>10, <1>11, <1>12 DEF C!Next, C!Library, C!User

LEMMA ToSetOfNats == \A s \in Seq(Nat) : ToSet(s) \in SUBSET Nat
  BY DEF ToSet

\* What ShownInOrder says of the text T, and what it says of Ctrl+C.
InOrder(T, n, l, r) ==
  /\ \A i \in 1..Len(T) : T[i] \in 1..n
  /\ \A j \in 1..Len(T) : \A i \in 1..(j - 1) : T[i] < T[j] \/ T[j] \in r
  /\ \A k \in 1..n : k \in l \/ \E i \in 1..Len(T) : T[i] = k

LEMMA ReadInOrder ==
  ASSUME NEW T \in Seq(Nat), NEW m \in Nat, NEW n \in Nat, NEW l, NEW r, InOrder(T, m, l, r),
         NEW N, N = [i \in 1..n |-> m + i]
  PROVE  InOrder(T \o N, m + n, l, r)
<1>1. N \in Seq(Nat) /\ Len(N) = n
  OBVIOUS
<1> DEFINE W == T \o N
<1>2. /\ W \in Seq(Nat) /\ Len(W) = Len(T) + n
      /\ \A i \in 1..Len(T) : W[i] = T[i]
      /\ \A i \in 1..n : W[Len(T) + i] = m + i
  BY <1>1
<1>3. Len(T) \in Nat
  OBVIOUS
<1>4. \A i \in 1..Len(W) : i \in 1..Len(T) \/ (i - Len(T) \in 1..n /\ W[i] = m + (i - Len(T)))
  <2> SUFFICES ASSUME NEW i \in 1..Len(W), i \notin 1..Len(T)
               PROVE  i - Len(T) \in 1..n /\ W[i] = m + (i - Len(T))
    OBVIOUS
  <2>1. i - Len(T) \in 1..n
    BY <1>2, <1>3
  <2>2. Len(T) + (i - Len(T)) = i
    BY <1>3
  <2> QED
    BY <1>2, <2>1, <2>2
<1> HIDE DEF W
<1>5. \A i \in 1..Len(W) : W[i] \in 1..(m + n)
  <2> SUFFICES ASSUME NEW i \in 1..Len(W) PROVE W[i] \in 1..(m + n)
    OBVIOUS
  <2>1. CASE i \in 1..Len(T)
    <3>1. W[i] = T[i] /\ T[i] \in 1..m
      BY <1>2, <2>1 DEF InOrder
    <3> QED
      BY <3>1
  <2>2. CASE i \notin 1..Len(T)
    BY <1>3, <1>4, <2>2
  <2> QED
    BY <2>1, <2>2
<1>6. \A j \in 1..Len(W) : \A i \in 1..(j - 1) : W[i] < W[j] \/ W[j] \in r
  <2> SUFFICES ASSUME NEW j \in 1..Len(W), NEW i \in 1..(j - 1) PROVE W[i] < W[j] \/ W[j] \in r
    OBVIOUS
  <2>1. CASE j \in 1..Len(T)
    <3>1. i \in 1..Len(T)
      BY <1>3, <2>1
    <3>2. W[i] = T[i] /\ W[j] = T[j]
      BY <1>2, <2>1, <3>1
    <3> QED
      BY <2>1, <3>2 DEF InOrder
  <2>2. CASE j \notin 1..Len(T)
    <3>1. W[j] = m + (j - Len(T)) /\ j - Len(T) \in 1..n
      BY <1>4, <2>2
    <3>2. CASE i \in 1..Len(T)
      <4>1. W[i] \in 1..m
        BY <1>2, <3>2 DEF InOrder
      <4> QED
        BY <1>3, <3>1, <4>1
    <3>3. CASE i \notin 1..Len(T)
      <4>1. i \in 1..Len(W)
        BY <1>2, <1>3
      <4>2. W[i] = m + (i - Len(T))
        BY <1>4, <3>3, <4>1
      <4> QED
        BY <1>3, <3>1, <4>1, <4>2
    <3> QED
      BY <3>2, <3>3
  <2> QED
    BY <2>1, <2>2
<1>7. \A k \in 1..(m + n) : k \in l \/ \E i \in 1..Len(W) : W[i] = k
  <2> SUFFICES ASSUME NEW k \in 1..(m + n), k \notin l PROVE \E i \in 1..Len(W) : W[i] = k
    OBVIOUS
  <2>1. CASE k <= m
    <3>1. PICK i \in 1..Len(T) : T[i] = k
      BY <2>1 DEF InOrder
    <3>2. i \in 1..Len(W) /\ W[i] = k
      BY <1>2, <1>3, <3>1
    <3> QED
      BY <3>2
  <2>2. CASE k > m
    <3>1. PICK i \in 1..n : k = m + i
      <4>1. k - m \in 1..n /\ k = m + (k - m)
        BY <2>2
      <4> QED
        BY <4>1
    <3>2. W[Len(T) + i] = k
      BY <1>2, <3>1
    <3>3. Len(T) + i \in 1..Len(W)
      BY <1>2, <1>3, <3>1
    <3> QED
      BY <3>2, <3>3
  <2> QED
    BY <2>1, <2>2
<1> QED
  BY <1>5, <1>6, <1>7 DEF InOrder, W

LEMMA LossInOrder ==
  ASSUME NEW T \in Seq(Nat), NEW m \in Nat, NEW n \in Nat, NEW l, NEW r, InOrder(T, m, l, r),
         NEW N, N = [i \in 1..n |-> m + i]
  PROVE  InOrder(T, m + n, l \cup ToSet(N), r)
<1>1. \A k \in 1..(m + n) : k <= m \/ k \in ToSet(N)
  <2> SUFFICES ASSUME NEW k \in 1..(m + n), ~(k <= m) PROVE k \in ToSet(N)
    OBVIOUS
  <2>1. k - m \in DOMAIN N /\ N[k - m] = k
    OBVIOUS
  <2> QED
    BY <2>1 DEF ToSet
<1> QED
  BY <1>1 DEF InOrder

\* The first n of the buffer B are shown after A, and B stays, or its rest is forgotten.
LEMMA PartInOrder ==
  ASSUME NEW A \in Seq(Nat), NEW B \in Seq(Nat), NEW n \in 0..Len(B),
         NEW m \in Nat, NEW l, NEW r, InOrder(A \o B, m, l, r)
  PROVE  /\ InOrder((A \o SubSeq(B, 1, n)) \o B, m, l, r \cup ToSet(B))
         /\ InOrder((A \o SubSeq(B, 1, n)) \o <<>>, m, l \cup ToSet(SubSeq(B, n + 1, Len(B))), r)
<1> DEFINE T == A \o B
           F == SubSeq(B, 1, n)
           Q == A \o F
           W == Q \o B
           R == SubSeq(B, n + 1, Len(B))
<1>1. /\ Len(A) \in Nat /\ Len(B) \in Nat /\ n \in Nat /\ n <= Len(B)
      /\ F \in Seq(Nat) /\ Len(F) = n /\ \A i \in 1..n : F[i] = B[i]
  OBVIOUS
<1>2. /\ Q \in Seq(Nat) /\ Len(Q) = Len(A) + n
      /\ \A i \in 1..Len(A) : Q[i] = A[i]
      /\ \A i \in 1..n : Q[Len(A) + i] = B[i]
  BY <1>1
<1>3. /\ T \in Seq(Nat) /\ Len(T) = Len(A) + Len(B)
      /\ \A i \in 1..Len(A) : T[i] = A[i]
      /\ \A i \in 1..Len(B) : T[Len(A) + i] = B[i]
  BY <1>1
<1>4. \A i \in 1..Len(Q) : i \in 1..Len(T) /\ Q[i] = T[i]
  <2> SUFFICES ASSUME NEW i \in 1..Len(Q) PROVE i \in 1..Len(T) /\ Q[i] = T[i]
    OBVIOUS
  <2>1. CASE i <= Len(A)
    BY <1>1, <1>2, <1>3, <2>1
  <2>2. CASE i > Len(A)
    <3>1. i - Len(A) \in 1..n /\ Len(A) + (i - Len(A)) = i
      BY <1>1, <1>2, <2>2
    <3> QED
      BY <1>1, <1>2, <1>3, <3>1
  <2> QED
    BY <1>1, <1>2, <2>1, <2>2
<1>5. /\ W \in Seq(Nat) /\ Len(W) = Len(Q) + Len(B)
      /\ \A i \in 1..Len(Q) : W[i] = Q[i]
      /\ \A i \in 1..Len(B) : W[Len(Q) + i] = B[i]
  BY <1>1, <1>2
<1>7. Q \o <<>> = Q
  BY <1>2
<1>8. \A i \in 1..Len(B) : B[i] \in ToSet(B) /\ (i > n => B[i] \in ToSet(R))
  <2> SUFFICES ASSUME NEW i \in 1..Len(B) PROVE B[i] \in ToSet(B) /\ (i > n => B[i] \in ToSet(R))
    OBVIOUS
  <2>1. B[i] \in ToSet(B)
    BY DEF ToSet
  <2>2. ASSUME i > n PROVE B[i] \in ToSet(R)
    <3>1. i - n \in 1..Len(R) /\ R[i - n] = B[i] /\ R \in Seq(Nat)
      BY <1>1, <2>2
    <3> HIDE DEF R
    <3>2. DOMAIN R = 1..Len(R)
      BY <3>1
    <3> QED
      BY <3>1, <3>2 DEF ToSet
  <2> QED
    BY <2>1, <2>2
<1>9. \A i \in 1..Len(W) : i \in 1..Len(Q) \/ (i - Len(Q) \in 1..Len(B) /\ W[i] = B[i - Len(Q)])
  <2> SUFFICES ASSUME NEW i \in 1..Len(W), i \notin 1..Len(Q)
               PROVE  i - Len(Q) \in 1..Len(B) /\ W[i] = B[i - Len(Q)]
    OBVIOUS
  <2>1. i - Len(Q) \in 1..Len(B) /\ Len(Q) + (i - Len(Q)) = i
    BY <1>1, <1>2, <1>5
  <2> QED
    BY <1>5, <2>1
<1> HIDE DEF T, F, Q, W, R
<1>10. InOrder(T, m, l, r)
  BY DEF T
<1>11. InOrder(W, m, l, r \cup ToSet(B))
  <2>1. \A i \in 1..Len(W) : W[i] \in 1..m
    <3> SUFFICES ASSUME NEW i \in 1..Len(W) PROVE W[i] \in 1..m
      OBVIOUS
    <3>1. CASE i \in 1..Len(Q)
      BY <1>4, <1>5, <1>10, <3>1 DEF InOrder
    <3>2. CASE i \notin 1..Len(Q)
      <4>1. i - Len(Q) \in 1..Len(B) /\ W[i] = B[i - Len(Q)]
        BY <1>9, <3>2
      <4> DEFINE k == i - Len(Q)
      <4> HIDE DEF k
      <4>3. k \in 1..Len(B) /\ W[i] = B[k]
        BY <4>1 DEF k
      <4>4. T[Len(A) + k] = W[i]
        BY <1>3, <4>3
      <4>2. Len(A) + k \in 1..Len(T) /\ T[Len(A) + k] = W[i]
        BY <1>1, <1>3, <4>3, <4>4
      <4> QED
        BY <1>10, <4>2 DEF InOrder
    <3> QED
      BY <3>1, <3>2
  <2>2. \A j \in 1..Len(W) : \A i \in 1..(j - 1) : W[i] < W[j] \/ W[j] \in r \cup ToSet(B)
    <3> SUFFICES ASSUME NEW j \in 1..Len(W), NEW i \in 1..(j - 1)
                 PROVE  W[i] < W[j] \/ W[j] \in r \cup ToSet(B)
      OBVIOUS
    <3>1. CASE j \in 1..Len(Q)
      <4>1. i \in 1..Len(Q) /\ Len(Q) \in Nat
        BY <1>1, <1>2, <3>1
      <4>2. W[i] = T[i] /\ W[j] = T[j] /\ j \in 1..Len(T)
        BY <1>4, <1>5, <3>1, <4>1
      <4> QED
        BY <1>10, <4>2 DEF InOrder
    <3>2. CASE j \notin 1..Len(Q)
      BY <1>8, <1>9, <3>2
    <3> QED
      BY <3>1, <3>2
  <2>3. \A k \in 1..m : k \in l \/ \E i \in 1..Len(W) : W[i] = k
    <3> SUFFICES ASSUME NEW k \in 1..m, k \notin l PROVE \E i \in 1..Len(W) : W[i] = k
      OBVIOUS
    <3>1. PICK i \in 1..Len(T) : T[i] = k
      BY <1>10 DEF InOrder
    <3>2. CASE i <= Len(A)
      BY <1>1, <1>2, <1>3, <1>5, <3>1, <3>2
    <3>3. CASE i > Len(A)
      <4>1. i - Len(A) \in 1..Len(B) /\ Len(A) + (i - Len(A)) = i
        BY <1>1, <1>3, <3>3
      <4>2. W[Len(Q) + (i - Len(A))] = k
        BY <1>3, <1>5, <3>1, <4>1
      <4>3. Len(Q) + (i - Len(A)) \in 1..Len(W)
        <5>1. Len(Q) \in Nat /\ Len(W) = Len(Q) + Len(B)
          BY <1>1, <1>2, <1>5
        <5> DEFINE d == i - Len(A)
        <5>2. d \in 1..Len(B) /\ Len(B) \in Nat
          BY <1>1, <4>1
        <5> HIDE DEF d
        <5>3. Len(Q) + d \in 1..Len(W)
          BY <5>1, <5>2
        <5> QED
          BY <5>3 DEF d
      <4> QED
        BY <4>2, <4>3
    <3> QED
      BY <1>1, <3>2, <3>3
  <2> QED
    BY <2>1, <2>2, <2>3 DEF InOrder
<1>12. InOrder(Q, m, l \cup ToSet(R), r)
  <2>1. \A i \in 1..Len(Q) : Q[i] \in 1..m
    BY <1>4, <1>10 DEF InOrder
  <2>2. \A j \in 1..Len(Q) : \A i \in 1..(j - 1) : Q[i] < Q[j] \/ Q[j] \in r
    <3> SUFFICES ASSUME NEW j \in 1..Len(Q), NEW i \in 1..(j - 1) PROVE Q[i] < Q[j] \/ Q[j] \in r
      OBVIOUS
    <3>1. i \in 1..Len(Q)
      BY <1>1, <1>2
    <3>2. Q[i] = T[i] /\ Q[j] = T[j] /\ j \in 1..Len(T)
      BY <1>4, <3>1
    <3> QED
      BY <1>10, <3>2 DEF InOrder
  <2>3. \A k \in 1..m : k \in l \cup ToSet(R) \/ \E i \in 1..Len(Q) : Q[i] = k
    <3> SUFFICES ASSUME NEW k \in 1..m, k \notin l \cup ToSet(R) PROVE \E i \in 1..Len(Q) : Q[i] = k
      OBVIOUS
    <3>1. PICK i \in 1..Len(T) : T[i] = k
      BY <1>10 DEF InOrder
    <3>2. i \in 1..Len(Q)
      <4> SUFFICES ASSUME i \notin 1..Len(Q) PROVE FALSE
        OBVIOUS
      <4>1. i - Len(A) \in 1..Len(B) /\ i - Len(A) > n /\ Len(A) + (i - Len(A)) = i
        BY <1>1, <1>2, <1>3
      <4>2. B[i - Len(A)] = k /\ B[i - Len(A)] \in ToSet(R)
        BY <1>3, <1>8, <3>1, <4>1
      <4> QED
        BY <4>2
    <3> QED
      BY <1>4, <3>1, <3>2
  <2> QED
    BY <2>1, <2>2, <2>3 DEF InOrder
<1> QED
  BY <1>7, <1>11, <1>12 DEF W, Q, F, R

LEMMA ClientTextSteps ==
  ASSUME ClientData, ClientText, C!ShownInOrder, [C!Next]_(C!cvars)
  PROVE  ClientText' /\ C!ShownInOrder'
<1> DEFINE T == shown \o val
<1>1. /\ val \in Seq(Nat) /\ shown \in Seq(Nat) /\ lost \in SUBSET Nat /\ repeated \in SUBSET Nat
      /\ printed \in Seq(C!Units) /\ received \in 0..Len(printed) /\ received \in Nat /\ T \in Seq(Nat)
  BY DEF ClientText
<1>2. InOrder(T, received, lost, repeated) /\ (ctrlc = 0 => lost = {} /\ repeated = {})
  BY DEF InOrder, C!ShownInOrder
<1>3. InOrder(T', received', lost', repeated') /\ (ctrlc' = 0 => lost' = {} /\ repeated' = {})
        => C!ShownInOrder'
  BY DEF InOrder, C!ShownInOrder
<1>4. CASE /\ ctrlc' \in Nat /\ (ctrlc' = 0 => ctrlc = 0)
           /\ Printing \/ Reading \/ Showing \/ ClientTextStays
  <2>1. ctrlc' = 0 => lost' = {} /\ repeated' = {}
    BY <1>2, <1>4 DEF Printing, Reading, Showing, ClientTextStays
  <2>2. CASE Printing
    <3>1. PICK o \in Seq(C!Units) : printed' = printed \o o
      BY <2>2 DEF Printing, C!Emit
    <3>2. printed' \in Seq(C!Units) /\ received' \in 0..Len(printed')
      BY <1>1, <2>2, <3>1 DEF Printing
    <3> QED
      BY <1>1, <1>2, <1>3, <2>1, <2>2, <3>2 DEF Printing, ClientText
  <2>3. CASE Reading
    <3>1. PICK n \in Nat : C!Receives(n) /\ val' = val \o C!Arrivals(n)
      BY <2>3 DEF Reading
    <3>2. received' = received + n /\ received' \in 0..Len(printed)
      BY <1>1, <3>1 DEF C!Receives
    <3> DEFINE N == C!Arrivals(n)
    <3>3. N = [i \in 1..n |-> received + i] /\ N \in Seq(Nat)
      BY <1>1 DEF C!Arrivals
    <3> HIDE DEF N
    <3>4. T' = T \o N
      <4>1. T' = shown \o (val \o N)
        BY <2>3, <3>1 DEF Reading, N
      <4> QED
        BY <1>1, <3>3, <4>1, ConcatAssociative
    <3>5. InOrder(T \o N, received + n, lost, repeated)
      <4> HIDE DEF T
      <4> QED
        BY <1>1, <1>2, <3>3, ReadInOrder
    <3>6. val' \in Seq(Nat)
      BY <1>1, <3>1, <3>3 DEF N
    <3> QED
      BY <1>1, <1>3, <2>1, <2>3, <3>2, <3>4, <3>5, <3>6 DEF Reading, ClientText
  <2>4. CASE Showing
    <3>1. T' = T
      BY <1>1, <2>4 DEF Showing
    <3> QED
      BY <1>1, <1>2, <1>3, <2>1, <2>4, <3>1 DEF Showing, ClientText
  <2>5. CASE ClientTextStays
    BY <1>1, <1>2, <1>3, <2>1, <2>5 DEF ClientTextStays, ClientText
  <2> QED
    BY <1>4, <2>2, <2>3, <2>4, <2>5
<1>5. CASE ctrlc' \in Nat /\ ctrlc' # 0 /\ (Losing \/ Repeating \/ Forgetting)
  <2>1. CASE Losing
    <3>1. PICK n \in Nat : C!Receives(n) /\ lost' = lost \cup ToSet(C!Arrivals(n))
      BY <2>1 DEF Losing
    <3>2. received' = received + n /\ received' \in 0..Len(printed)
      BY <1>1, <3>1 DEF C!Receives
    <3> DEFINE N == C!Arrivals(n)
    <3>3. N = [i \in 1..n |-> received + i] /\ N \in Seq(Nat)
      BY <1>1 DEF C!Arrivals
    <3> HIDE DEF N
    <3>4. T' = T
      BY <2>1 DEF Losing
    <3>5. InOrder(T, received + n, lost \cup ToSet(N), repeated)
      <4> HIDE DEF T
      <4> QED
        BY <1>1, <1>2, <3>3, LossInOrder
    <3>6. lost' \in SUBSET Nat
      BY <1>1, <3>1, <3>3, ToSetOfNats DEF N
    <3> QED
      BY <1>1, <1>3, <1>5, <2>1, <3>1, <3>2, <3>4, <3>5, <3>6 DEF Losing, ClientText, N
  <2>2. CASE Repeating
    <3>1. PICK n \in 0..Len(val) : shown' = shown \o SubSeq(val, 1, n)
      BY <2>2 DEF Repeating
    <3>2. InOrder((shown \o SubSeq(val, 1, n)) \o val, received, lost, repeated \cup ToSet(val))
      BY <1>1, <1>2, PartInOrder
    <3>3. shown' \in Seq(Nat)
      BY <1>1, <3>1
    <3>4. repeated' \in SUBSET Nat
      BY <1>1, <2>2, ToSetOfNats DEF Repeating
    <3> QED
      BY <1>1, <1>3, <1>5, <2>2, <3>1, <3>2, <3>3, <3>4 DEF Repeating, ClientText
  <2>3. CASE Forgetting
    <3>1. PICK n \in 0..Len(val) : /\ shown' = shown \o SubSeq(val, 1, n)
                                   /\ lost' = lost \cup ToSet(SubSeq(val, n + 1, Len(val)))
      BY <2>3 DEF Forgetting
    <3>2. InOrder((shown \o SubSeq(val, 1, n)) \o <<>>, received,
                  lost \cup ToSet(SubSeq(val, n + 1, Len(val))), repeated)
      BY <1>1, <1>2, PartInOrder
    <3>3. shown' \in Seq(Nat)
      BY <1>1, <3>1
    <3>4. lost' \in SUBSET Nat
      <4>1. SubSeq(val, n + 1, Len(val)) \in Seq(Nat)
        BY <1>1
      <4> QED
        BY <1>1, <3>1, <4>1, ToSetOfNats
    <3>5. val' = <<>> /\ val' \in Seq(Nat) /\ UNCHANGED <<received, printed, repeated>>
      BY <2>3 DEF Forgetting
    <3>6. C!ShownInOrder'
      BY <1>3, <1>5, <3>1, <3>2, <3>5
    <3> QED
      BY <1>1, <3>3, <3>4, <3>5, <3>6 DEF ClientText
  <2> QED
    BY <1>5, <2>1, <2>2, <2>3
<1> QED
  BY <1>4, <1>5, TextMoves

\* The inductive invariant of the client.
ClientInv == ClientFlags /\ ClientData /\ ClientText /\ C!ShownInOrder

LEMMA ClientAlone == MCSpec => []ClientInv
<1>1. MCInit => ClientInv
  BY ClientInit DEF MCInit, ClientInv
<1>2. ClientInv /\ [MCNext]_allvars => ClientInv'
  BY PartsStep, ClientFlagSteps, ClientDataSteps, ClientTextSteps DEF ClientInv
<1> QED
  BY <1>1, <1>2, PTL DEF MCSpec

\* What the console prints is shown in order, nothing twice and nothing left out,
\* however it arrives; only a Ctrl+C loses something, that of a read it hits or a
\* prompt it comes before, or repeats what it leaves in the buffer (client.py:298-340).
THEOREM OutputIsShown == MCSpec => []ShownInOrder
<1>1. ClientInv => ShownInOrder
  BY DEF ClientInv, ShownInOrder
<1> QED
  BY <1>1, ClientAlone, PTL

------------------------------------------------------------------------------
(***************************************************************************)
(* The decoder: bytes, digits and headers                                  *)
(***************************************************************************)
DigitSet == ToSet(D!Digits)

LEMMA DigitBasics ==
  /\ Len(D!Digits) = 10 /\ DigitSet = {"0", "1", "2", "3", "4", "5", "6", "7", "8", "9"}
  /\ \A i \in 1..10 : D!Digits[i] \in DigitSet
<1>1. Len(D!Digits) = 10 BY DEF D!Digits
<1>2. DOMAIN D!Digits = 1..10 BY DEF D!Digits
<1>3. DigitSet = {D!Digits[i] : i \in 1..10} BY <1>2 DEF DigitSet, ToSet
<1>4. 1..10 = {1, 2, 3, 4, 5, 6, 7, 8, 9, 10} OBVIOUS
<1>5. DigitSet = {"0", "1", "2", "3", "4", "5", "6", "7", "8", "9"} BY <1>3, <1>4 DEF D!Digits
<1> QED BY <1>1, <1>3, <1>5

LEMMA DigitValues ==
  /\ \A i \in 0..9 : D!DigitValue(D!Digits[i + 1]) = i
  /\ \A d \in DigitSet : D!DigitValue(d) \in 0..9
<1>1. \A i, j \in 1..10 : D!Digits[i] = D!Digits[j] => i = j
  <2>1. 1..10 = {1, 2, 3, 4, 5, 6, 7, 8, 9, 10} OBVIOUS
  <2> QED BY <2>1 DEF D!Digits
<1>2. \A i \in 0..9 : D!DigitValue(D!Digits[i + 1]) = i
  <2> SUFFICES ASSUME NEW i \in 0..9 PROVE D!DigitValue(D!Digits[i + 1]) = i OBVIOUS
  <2> DEFINE c == CHOOSE j \in 1..10 : D!Digits[j] = D!Digits[i + 1]
  <2>1. i + 1 \in 1..10 OBVIOUS
  <2>2. c \in 1..10 /\ D!Digits[c] = D!Digits[i + 1] BY <2>1
  <2>3. c = i + 1 BY <2>1, <2>2, <1>1
  <2>4. c - 1 = i
    <3> HIDE DEF c
    <3> QED BY <2>3
  <2> QED BY <2>4 DEF D!DigitValue
<1>3. ASSUME NEW d \in DigitSet PROVE D!DigitValue(d) \in 0..9
  <2>1. PICK i \in 1..10 : d = D!Digits[i]
    <3>1. DOMAIN D!Digits = 1..10 BY DEF D!Digits
    <3> QED BY <3>1 DEF DigitSet, ToSet
  <2>2. i - 1 \in 0..9 /\ (i - 1) + 1 = i OBVIOUS
  <2>3. D!DigitValue(D!Digits[(i - 1) + 1]) = i - 1 BY <1>2, <2>2
  <2> QED BY <2>1, <2>2, <2>3
<1> QED BY <1>2, <1>3

\* int: the value of a text is that of what precedes its last digit, times ten, plus the digit.
Valuing(text, f) == f[0] = 0 /\ \A i \in 1..Len(text) : f[i] = 10 * f[i - 1] + D!DigitValue(text[i])

LEMMA ValuingExists ==
  ASSUME NEW text \in Seq(DigitSet)
  PROVE  \E f \in [0..Len(text) -> Nat] : Valuing(text, f)
<1> DEFINE n == Len(text)
           step == [i \in 1..n |-> [y \in Nat |-> 10 * y + D!DigitValue(text[i])]]
<1>1. n \in Nat BY LenProperties
<1>2. \A i \in 1..n : D!DigitValue(text[i]) \in Nat
  <2>1. \A i \in 1..n : text[i] \in DigitSet BY ElementOfSeq
  <2>2. \A d \in DigitSet : D!DigitValue(d) \in Nat BY DigitValues
  <2> QED BY <2>1, <2>2
<1>3. step \in Steps(n, Nat)
  <2>1. \A i \in 1..n, y \in Nat : 10 * y + D!DigitValue(text[i]) \in Nat BY <1>2
  <2> QED BY <2>1 DEF Steps
<1>4. PICK f : IsRecursive(f, n, Nat, 0, step)
  <2>1. 0 \in Nat OBVIOUS
  <2> HIDE DEF step, n
  <2> QED BY <1>1, <1>3, <2>1, RecursionExists
<1>5. f \in [0..n -> Nat] /\ f[0] = 0 BY <1>4 DEF IsRecursive
<1>6. ASSUME NEW i \in 1..n PROVE f[i] = 10 * f[i - 1] + D!DigitValue(text[i])
  <2>1. i - 1 \in 0..n BY <1>1
  <2>2. f[i - 1] \in Nat BY <2>1, <1>5
  <2>3. f[i] = step[i][f[i - 1]] BY <1>4 DEF IsRecursive
  <2>4. step[i] = [y \in Nat |-> 10 * y + D!DigitValue(text[i])] OBVIOUS
  <2> HIDE DEF step, n
  <2> QED BY <2>2, <2>3, <2>4
<1> QED BY <1>5, <1>6 DEF Valuing

LEMMA NumberIsValuing ==
  ASSUME NEW text \in Seq(DigitSet), NEW f \in [0..Len(text) -> Nat], Valuing(text, f)
  PROVE  D!Number(text) = f[Len(text)]
<1> DEFINE n == Len(text)
           Eq(g) == g = [i \in 0..n |-> IF i = 0 THEN 0 ELSE 10 * g[i - 1] + D!DigitValue(text[i])]
           c == CHOOSE g : Eq(g)
<1>1. n \in Nat BY LenProperties
<1>2. Eq(f)
  <2>1. \A i \in 0..n : i # 0 => i \in 1..n BY <1>1
  <2>2. \A i \in 0..n : f[i] = IF i = 0 THEN 0 ELSE 10 * f[i - 1] + D!DigitValue(text[i])
    <3> HIDE DEF n
    <3> QED BY <2>1 DEF Valuing, n
  <2> QED BY <2>2
<1>3. Eq(c) BY <1>2
<1>4. D!Number(text) = c[n] BY DEF D!Number
<1> DEFINE T == {i \in Nat : i <= n => c[i] = f[i]}
<1>5. 0 \in T
  <2>1. 0 \in 0..n BY <1>1
  <2>2. c[0] = 0 BY <1>3, <2>1
  <2>3. f[0] = 0 BY DEF Valuing
  <2> QED BY <2>2, <2>3
<1>6. ASSUME NEW i \in Nat, i \in T PROVE i + 1 \in T
  <2> SUFFICES ASSUME i + 1 <= n PROVE c[i + 1] = f[i + 1] OBVIOUS
  <2>1. i + 1 \in 0..n /\ i + 1 \in 1..n /\ i + 1 # 0 /\ (i + 1) - 1 = i /\ i <= n BY <1>1
  <2>2. c[i + 1] = 10 * c[i] + D!DigitValue(text[i + 1]) BY <1>3, <2>1
  <2>3. f[i + 1] = 10 * f[i] + D!DigitValue(text[i + 1])
    <3>1. f[i + 1] = 10 * f[(i + 1) - 1] + D!DigitValue(text[i + 1]) BY <2>1 DEF Valuing
    <3> QED BY <3>1, <2>1
  <2>4. c[i] = f[i] BY <1>6, <2>1
  <2> QED BY <2>2, <2>3, <2>4
<1>7. \A i \in Nat : i \in T
  <2> HIDE DEF T
  <2> QED BY <1>5, <1>6, SetInduction
<1>8. c[n] = f[n]
  <2>1. n \in T BY <1>1, <1>7
  <2> QED BY <2>1, <1>1
<1> QED BY <1>4, <1>8

LEMMA NumberType ==
  ASSUME NEW text \in Seq(DigitSet)
  PROVE  D!Number(text) \in Nat
<1>1. PICK f \in [0..Len(text) -> Nat] : Valuing(text, f) BY ValuingExists
<1>2. Len(text) \in 0..Len(text) BY LenProperties
<1> QED BY <1>1, <1>2, NumberIsValuing

LEMMA NumberAppend ==
  ASSUME NEW text \in Seq(DigitSet), NEW d \in DigitSet
  PROVE  D!Number(Append(text, d)) = 10 * D!Number(text) + D!DigitValue(d)
<1> DEFINE n == Len(text)
           t == Append(text, d)
<1>1. n \in Nat /\ Len(t) = n + 1 /\ t \in Seq(DigitSet) /\ t[n + 1] = d /\ \A i \in 1..n : t[i] = text[i]
  BY LenProperties, AppendProperties
<1>2. PICK f \in [0..n -> Nat] : Valuing(text, f) BY ValuingExists
<1> DEFINE v == 10 * f[n] + D!DigitValue(d)
           g == [i \in 0..n + 1 |-> IF i = n + 1 THEN v ELSE f[i]]
<1>3. v \in Nat
  <2>1. f[n] \in Nat BY <1>1
  <2>2. D!DigitValue(d) \in Nat BY DigitValues
  <2> QED BY <2>1, <2>2
<1>4. g \in [0..Len(t) -> Nat]
  <2>1. \A i \in 0..n + 1 : i # n + 1 => f[i] \in Nat BY <1>1
  <2> HIDE DEF v
  <2> QED BY <2>1, <1>1, <1>3
<1>5. Valuing(t, g)
  <2>1. g[0] = 0
    <3>1. 0 \in 0..n + 1 /\ 0 # n + 1 BY <1>1
    <3> QED BY <3>1, <1>2 DEF Valuing
  <2>2. ASSUME NEW i \in 1..Len(t) PROVE g[i] = 10 * g[i - 1] + D!DigitValue(t[i])
    <3>1. CASE i = n + 1
      <4>1. i \in 0..n + 1 /\ i - 1 \in 0..n + 1 /\ i - 1 # n + 1 /\ i - 1 = n BY <3>1, <1>1
      <4>2. g[i] = v /\ g[i - 1] = f[n] /\ t[i] = d BY <3>1, <4>1, <1>1
      <4> QED BY <4>2
    <3>2. CASE i # n + 1
      <4>1. i \in 1..n /\ i - 1 \in 0..n + 1 /\ i - 1 # n + 1 /\ i \in 0..n + 1 BY <1>1, <3>2
      <4>2. g[i] = f[i] /\ g[i - 1] = f[i - 1] /\ t[i] = text[i] BY <4>1, <3>2, <1>1
      <4>3. f[i] = 10 * f[i - 1] + D!DigitValue(text[i]) BY <4>1, <1>2 DEF Valuing
      <4> QED BY <4>2, <4>3
    <3> QED BY <3>1, <3>2
  <2> QED BY <2>1, <2>2 DEF Valuing
<1>6. D!Number(t) = g[n + 1]
  <2> HIDE DEF g, t
  <2> QED BY <1>1, <1>4, <1>5, NumberIsValuing
<1>7. D!Number(text) = f[n] BY <1>2, NumberIsValuing
<1>8. g[n + 1] = v BY <1>1
<1> QED BY <1>1, <1>6, <1>7, <1>8

\* str: the digits of a number, for numbers of any size.
LEMMA NumeralUnfolds ==
  \A n \in Nat : D!Numeral[n] = IF n < 10 THEN <<D!Digits[n + 1]>>
                                ELSE Append(D!Numeral[n \div 10], D!Digits[(n % 10) + 1])
<1> DEFINE Def(g, n) == IF n < 10 THEN <<D!Digits[n + 1]>> ELSE Append(g[n \div 10], D!Digits[(n % 10) + 1])
           Upto(m, g) == \A i \in 0..m : g[i] = Def(g, i)
           T == {m \in Nat : \E g : Upto(m, g)}
<1>0. \A n \in Nat : n >= 10 => n \div 10 \in 0..n - 1 OBVIOUS
<1>1. 0 \in T
  <2> DEFINE g == [i \in {0} |-> <<D!Digits[i + 1]>>]
  <2>1. \A i \in 0..0 : g[i] = Def(g, i) OBVIOUS
  <2> QED BY <2>1
<1>2. ASSUME NEW m \in Nat, m \in T PROVE m + 1 \in T
  <2>1. PICK g : Upto(m, g) BY <1>2
  <2> DEFINE h == [i \in 0..m + 1 |-> IF i = m + 1 THEN Def(g, i) ELSE g[i]]
  <2>2. ASSUME NEW i \in 0..m + 1 PROVE h[i] = Def(h, i)
    <3>1. h[i] = Def(g, i)
      <4>1. i # m + 1 => i \in 0..m OBVIOUS
      <4>2. i # m + 1 => g[i] = Def(g, i)
        <5> HIDE DEF Def
        <5> QED BY <4>1, <2>1
      <4> HIDE DEF Def
      <4> QED BY <4>2
    <3>2. i >= 10 => h[i \div 10] = g[i \div 10]
      <4> SUFFICES ASSUME i >= 10 PROVE h[i \div 10] = g[i \div 10] OBVIOUS
      <4>1. i \div 10 \in 0..i - 1 BY <1>0
      <4>2. i \div 10 \in 0..m + 1 /\ i \div 10 # m + 1 BY <4>1
      <4> HIDE DEF Def
      <4> QED BY <4>2
    <3>3. Def(g, i) = Def(h, i)
      <4> HIDE DEF h
      <4> QED BY <3>2
    <3> QED BY <3>1, <3>3
  <2>3. Upto(m + 1, h)
    <3> HIDE DEF h, Def
    <3> QED BY <2>2
  <2> HIDE DEF Upto, h
  <2> QED BY <2>3
<1>3. \A m \in Nat : \E g : Upto(m, g)
  <2>1. \A m \in Nat : m \in T
    <3> HIDE DEF T
    <3> QED BY <1>1, <1>2, SetInduction
  <2> HIDE DEF Upto
  <2> QED BY <2>1
<1>4. ASSUME NEW m \in Nat, NEW n \in Nat, NEW g, NEW h, Upto(m, g), Upto(n, h), m <= n
      PROVE  g[m] = h[m]
  <2> DEFINE U == {i \in Nat : i <= m /\ g[i] # h[i]}
  <2> SUFFICES ASSUME U # {} PROVE FALSE OBVIOUS
  <2>1. PICK i \in U : \A j \in U : i <= j
    <3>1. U \in SUBSET Nat OBVIOUS
    <3> HIDE DEF U
    <3> QED BY <3>1, NatLeast
  <2>2. i \in 0..m /\ i \in 0..n BY <1>4
  <2>3. g[i] = Def(g, i) /\ h[i] = Def(h, i)
    <3> HIDE DEF Def, U
    <3> QED BY <1>4, <2>2
  <2>4. i >= 10 => g[i \div 10] = h[i \div 10]
    <3> SUFFICES ASSUME i >= 10 PROVE g[i \div 10] = h[i \div 10] OBVIOUS
    <3>1. i \div 10 \in 0..i - 1 BY <1>0
    <3>2. i \div 10 \notin U BY <3>1, <2>1
    <3>3. i \div 10 \in Nat /\ i \div 10 <= m BY <3>1, <2>2
    <3> HIDE DEF Def
    <3> QED BY <3>2, <3>3
  <2>5. Def(g, i) = Def(h, i) BY <2>4
  <2> QED BY <2>1, <2>3, <2>5
<1> DEFINE G(m) == CHOOSE g : Upto(m, g)
           F == [n \in Nat |-> G(n)[n]]
<1>5. \A m \in Nat : Upto(m, G(m))
  <2> HIDE DEF Upto
  <2> QED BY <1>3
<1>6. \A n \in Nat : F[n] = Def(F, n)
  <2> SUFFICES ASSUME NEW n \in Nat PROVE F[n] = Def(F, n) OBVIOUS
  <2>1. F[n] = Def(G(n), n)
    <3>1. n \in 0..n OBVIOUS
    <3>2. G(n)[n] = Def(G(n), n)
      <4> HIDE DEF Def, G
      <4> QED BY <3>1, <1>5
    <3> HIDE DEF Def, G
    <3> QED BY <3>2
  <2>2. n >= 10 => F[n \div 10] = G(n)[n \div 10]
    <3> SUFFICES ASSUME n >= 10 PROVE F[n \div 10] = G(n)[n \div 10] OBVIOUS
    <3> DEFINE k == n \div 10
    <3>1. k \in Nat /\ k <= n BY <1>0
    <3>2. F[k] = G(k)[k]
      <4> HIDE DEF G, k
      <4> QED BY <3>1
    <3>3. G(k)[k] = G(n)[k]
      <4> HIDE DEF Upto, G, k, F
      <4> QED BY <1>4, <1>5, <3>1
    <3> QED BY <3>2, <3>3
  <2>3. Def(G(n), n) = Def(F, n)
    <3> HIDE DEF F, G
    <3> QED BY <2>2
  <2> QED BY <2>1, <2>3
<1>7. F = [n \in Nat |-> Def(F, n)]
  <2>1. F = [n \in Nat |-> F[n]] OBVIOUS
  <2> HIDE DEF F, Def
  <2> QED BY <2>1, <1>6
<1>8. D!Numeral = [n \in Nat |-> Def(D!Numeral, n)]
  <2>1. D!Numeral = CHOOSE f : f = [n \in Nat |-> Def(f, n)] BY DEF D!Numeral
  <2> HIDE DEF F, Def
  <2> QED BY <2>1, <1>7
<1> QED BY <1>8

\* int(str(n)) = n, and the text has nothing but digits.
LEMMA NumeralIsNumber ==
  \A n \in Nat : /\ D!Numeral[n] \in Seq(DigitSet) /\ D!Numeral[n] # <<>>
                 /\ D!Number(D!Numeral[n]) = n
<1> DEFINE Good(n) == D!Numeral[n] \in Seq(DigitSet) /\ D!Numeral[n] # <<>> /\ D!Number(D!Numeral[n]) = n
           Bad == {n \in Nat : ~Good(n)}
<1> SUFFICES ASSUME Bad # {} PROVE FALSE OBVIOUS
<1>1. PICK n \in Bad : \A m \in Bad : n <= m
  <2>1. Bad \in SUBSET Nat OBVIOUS
  <2> HIDE DEF Bad
  <2> QED BY <2>1, NatLeast
<1>2. n \in Nat /\ ~Good(n) OBVIOUS
<1>3. CASE n < 10
  <2> DEFINE d == D!Digits[n + 1]
  <2>1. D!Numeral[n] = <<d>> BY <1>2, <1>3, NumeralUnfolds
  <2>2. d \in DigitSet /\ D!DigitValue(d) = n
    <3>1. n + 1 \in 1..10 /\ n \in 0..9 BY <1>2, <1>3
    <3> QED BY <3>1, DigitBasics, DigitValues
  <2>3. <<>> \in Seq(DigitSet) /\ Append(<<>>, d) = <<d>> BY EmptySeq
  <2>4. <<d>> \in Seq(DigitSet) /\ <<d>> # <<>> BY <2>2
  <2>5. D!Number(<<>>) = 0
    <3>1. PICK f \in [0..Len(<<>>) -> Nat] : Valuing(<<>>, f) BY <2>3, ValuingExists
    <3>2. D!Number(<<>>) = f[Len(<<>>)] BY <2>3, <3>1, NumberIsValuing
    <3>3. Len(<<>>) = 0 OBVIOUS
    <3> QED BY <3>1, <3>2, <3>3 DEF Valuing
  <2>6. D!Number(<<d>>) = 10 * 0 + n
    <3> HIDE DEF d
    <3> QED BY <2>2, <2>3, <2>5, NumberAppend
  <2> QED BY <2>1, <2>4, <2>6, <1>2
<1>4. CASE ~(n < 10)
  <2> DEFINE m == n \div 10
             d == D!Digits[(n % 10) + 1]
  <2>1. m \in Nat /\ m < n /\ n % 10 \in 0..9 /\ (n % 10) + 1 \in 1..10 /\ n = 10 * m + (n % 10)
    BY <1>2, <1>4
  <2>2. D!Numeral[n] = Append(D!Numeral[m], d) BY <1>2, <1>4, NumeralUnfolds
  <2>3. Good(m)
    <3>1. m \notin Bad BY <1>1, <2>1
    <3> HIDE DEF Good, m
    <3> QED BY <3>1, <2>1
  <2>4. d \in DigitSet /\ D!DigitValue(d) = n % 10 BY <2>1, DigitBasics, DigitValues
  <2>5. D!Number(Append(D!Numeral[m], d)) = 10 * D!Number(D!Numeral[m]) + D!DigitValue(d)
    <3> HIDE DEF d, m
    <3> QED BY <2>3, <2>4, NumberAppend
  <2>6. D!Number(D!Numeral[n]) = n
    <3>1. D!Number(D!Numeral[m]) = m BY <2>3
    <3> HIDE DEF d, m
    <3> QED BY <3>1, <2>1, <2>2, <2>4, <2>5
  <2>7. D!Numeral[n] \in Seq(DigitSet) /\ D!Numeral[n] # <<>>
    <3> HIDE DEF d, m
    <3> QED BY <2>2, <2>3, <2>4, AppendProperties
  <2> QED BY <2>6, <2>7, <1>2
<1> QED BY <1>3, <1>4

------------------------------------------------------------------------------
\* What follows the k-th part of a stream, and what its first k parts are for the receiver.
Following(ps, k) == D!Stream(D!From(ps, k + 1))
Collected(ps, k) == D!Bodies(SubSeq(ps, 1, k))

\* What a sequence is without its first n elements.
LEMMA FromProperties ==
  ASSUME NEW X, NEW s \in Seq(X), NEW n \in 0..Len(s)
  PROVE  /\ D!From(s, n + 1) \in Seq(X)
         /\ Len(D!From(s, n + 1)) = Len(s) - n
         /\ \A i \in 1..Len(s) - n : D!From(s, n + 1)[i] = s[n + i]
<1>1. Len(s) \in Nat BY LenProperties
<1>2. \A i \in n + 1..Len(s) : s[i] \in X
  <2>1. \A i \in n + 1..Len(s) : i \in 1..Len(s) BY <1>1
  <2> QED BY <2>1, ElementOfSeq
<1> DEFINE m == n + 1
           l == Len(s)
<1>3. m \in Int /\ l \in Int BY <1>1
<1>4. /\ SubSeq(s, m, l) \in Seq(X)
      /\ Len(SubSeq(s, m, l)) = IF m <= l THEN l - m + 1 ELSE 0
      /\ \A i \in 1..l - m + 1 : SubSeq(s, m, l)[i] = s[m + i - 1]
  <2> HIDE DEF m, l
  <2>1. \A i \in m..l : s[i] \in X BY <1>2 DEF m, l
  <2> QED BY <1>3, <2>1, SubSeqProperties
<1>5. D!From(s, n + 1) = SubSeq(s, m, l) BY DEF D!From
<1>6. Len(SubSeq(s, m, l)) = l - n BY <1>1, <1>4
<1>7. ASSUME NEW i \in 1..l - n PROVE SubSeq(s, m, l)[i] = s[n + i]
  <2>1. i \in 1..l - m + 1 /\ m + i - 1 = n + i BY <1>1
  <2> HIDE DEF m, l
  <2> QED BY <1>4, <2>1
<1> QED BY <1>4, <1>5, <1>6, <1>7

LEMMA FromConcat ==
  ASSUME NEW X, NEW b \in Seq(X), NEW s \in Seq(X), NEW n \in 0..Len(b)
  PROVE  D!From(b \o s, n + 1) = D!From(b, n + 1) \o s
<1> DEFINE u == b \o s
           v == D!From(b, n + 1)
<1>1. /\ Len(b) \in Nat /\ Len(s) \in Nat /\ u \in Seq(X) /\ Len(u) = Len(b) + Len(s)
      /\ \A i \in 1..Len(b) + Len(s) : u[i] = IF i <= Len(b) THEN b[i] ELSE s[i - Len(b)]
  BY LenProperties, ConcatProperties
<1>2. n \in 0..Len(u) BY <1>1
<1>3. v \in Seq(X) /\ Len(v) = Len(b) - n /\ \A i \in 1..Len(b) - n : v[i] = b[n + i] BY FromProperties
<1>4. /\ D!From(u, n + 1) \in Seq(X) /\ Len(D!From(u, n + 1)) = Len(u) - n
      /\ \A i \in 1..Len(u) - n : D!From(u, n + 1)[i] = u[n + i]
  <2> HIDE DEF u
  <2> QED BY <1>1, <1>2, FromProperties
<1>5. /\ v \o s \in Seq(X) /\ Len(v \o s) = Len(v) + Len(s)
      /\ \A i \in 1..Len(v) + Len(s) : (v \o s)[i] = IF i <= Len(v) THEN v[i] ELSE s[i - Len(v)]
  <2> HIDE DEF v
  <2> QED BY <1>3, ConcatProperties
<1> HIDE DEF u, v
<1>6. Len(v \o s) = Len(u) - n BY <1>1, <1>3, <1>5
<1>7. ASSUME NEW i \in 1..Len(u) - n PROVE D!From(u, n + 1)[i] = (v \o s)[i]
  <2>1. n + i \in 1..Len(b) + Len(s) /\ i \in 1..Len(v) + Len(s) BY <1>1, <1>3
  <2>2. CASE i <= Len(v)
    <3>1. n + i <= Len(b) /\ i \in 1..Len(b) - n BY <2>2, <1>1, <1>3
    <3> QED BY <2>1, <2>2, <3>1, <1>1, <1>3, <1>4, <1>5
  <2>3. CASE ~(i <= Len(v))
    <3>1. ~(n + i <= Len(b)) /\ (n + i) - Len(b) = i - Len(v) BY <2>3, <1>1, <1>3
    <3> QED BY <2>1, <2>3, <3>1, <1>1, <1>4, <1>5
  <2> QED BY <2>2, <2>3
<1> DEFINE w == D!From(u, n + 1)
           z == v \o s
<1>8. w \in Seq(X) /\ z \in Seq(X) /\ Len(w) = Len(z) /\ \A i \in 1..Len(w) : w[i] = z[i]
  BY <1>4, <1>5, <1>6, <1>7
<1>9. w = z
  <2> HIDE DEF w, z
  <2> QED BY <1>8, SeqEqual
<1> QED BY <1>9 DEF u, v

LEMMA FromWhole ==
  ASSUME NEW X, NEW b \in Seq(X), NEW s \in Seq(X)
  PROVE  /\ D!From(b, Len(b) + 1) = <<>>
         /\ D!From(b, 1) = b
         /\ D!From(b \o s, Len(b) + 1) = s
<1>1. Len(b) \in Nat BY LenProperties
<1>2. D!From(b, Len(b) + 1) = <<>>
  <2>1. Len(b) + 1 \in Int /\ Len(b) \in Int /\ Len(b) < Len(b) + 1 BY <1>1
  <2> DEFINE m == Len(b) + 1
             n == Len(b)
  <2>2. SubSeq(b, m, n) = <<>>
    <3> HIDE DEF m, n
    <3> QED BY <2>1, SubSeqEmpty DEF m, n
  <2> QED BY <2>2 DEF D!From
<1>3. D!From(b, 1) = b BY SubSeqFull DEF D!From
<1>4. D!From(b \o s, Len(b) + 1) = D!From(b, Len(b) + 1) \o s
  <2>1. Len(b) \in 0..Len(b) BY <1>1
  <2> QED BY <2>1, FromConcat
<1> QED BY <1>2, <1>3, <1>4, ConcatEmptySeq

\* Dropping one element, and then some more.
LEMMA FromTail ==
  ASSUME NEW X, NEW s \in Seq(X), NEW n \in 0..Len(s) - 1
  PROVE  /\ D!From(s, n + 1) # <<>>
         /\ Tail(D!From(s, n + 1)) = D!From(s, n + 2)
         /\ D!From(s, n + 1)[1] = s[n + 1]
<1>1. Len(s) \in Nat BY LenProperties
<1>2. n + 1 \in 1..Len(s) /\ Len(s) \in n + 1..Len(s) /\ n \in 0..Len(s) BY <1>1
<1> DEFINE m == n + 1
           l == Len(s)
<1>3. Tail(SubSeq(s, m, l)) = SubSeq(s, m + 1, l)
  <2> HIDE DEF m
  <2>1. m \in 1..Len(s) /\ l \in m..Len(s) BY <1>2 DEF m
  <2> HIDE DEF l
  <2> QED BY <2>1, HeadTailOfSubSeq
<1>4. m + 1 = n + 2 OBVIOUS
<1>5. Len(D!From(s, n + 1)) = Len(s) - n /\ D!From(s, n + 1) \in Seq(X) BY <1>2, FromProperties
<1>6. D!From(s, n + 1) # <<>> BY <1>1, <1>5, EmptySeq
<1>7. D!From(s, n + 1)[1] = s[n + 1]
  <2>1. 1 \in 1..Len(s) - n BY <1>1
  <2> QED BY <2>1, <1>2, FromProperties
<1> QED BY <1>3, <1>4, <1>6, <1>7 DEF D!From

------------------------------------------------------------------------------
LEMMA PartTypes ==
  \A p \in Parts : /\ p.message \in BOOLEAN /\ p.bytes \in Seq(D!Bytes)
                   /\ ~p.message => D!IsJunk(p.bytes)
BY MessageDecoderAssumption DEF D!MessageDecoderAssumption, D!Part

LEMMA DigitsAreBytes ==
  DigitSet \subseteq D!Bytes /\ {"S", "V", "l", ";"} \subseteq D!Bytes
BY DEF D!Bytes, DigitSet, D!ToSet, ToSet

LEMMA OneElement ==
  ASSUME NEW X, NEW x \in X
  PROVE  <<x>> \in Seq(X) /\ Len(<<x>>) = 1 /\ <<x>>[1] = x
OBVIOUS

\* The elements of a concatenation.
LEMMA ConcatElements ==
  ASSUME NEW X, NEW s \in Seq(X), NEW t \in Seq(X)
  PROVE  /\ s \o t \in Seq(X) /\ Len(s \o t) = Len(s) + Len(t)
         /\ \A i \in 1..Len(s) : (s \o t)[i] = s[i]
         /\ \A i \in 1..Len(t) : (s \o t)[Len(s) + i] = t[i]
<1> DEFINE u == s \o t
           n == Len(s)
           m == Len(t)
<1>1. /\ u \in Seq(X) /\ Len(u) = n + m
      /\ \A i \in 1..n + m : u[i] = IF i <= n THEN s[i] ELSE t[i - n]
  BY ConcatProperties
<1>2. n \in Nat /\ m \in Nat BY LenProperties
<1> HIDE DEF u, n, m
<1>3. ASSUME NEW i \in 1..n PROVE u[i] = s[i]
  <2>1. i \in 1..n + m /\ i <= n BY <1>2
  <2> QED BY <1>1, <2>1
<1>4. ASSUME NEW i \in 1..m PROVE u[n + i] = t[i]
  <2>1. n + i \in 1..n + m /\ ~(n + i <= n) /\ (n + i) - n = i BY <1>2
  <2> QED BY <1>1, <2>1
<1> QED BY <1>1, <1>3, <1>4 DEF u, n, m

\* A header: three marks, digits, and the terminator.
LEMMA HeaderProperties ==
  ASSUME NEW data \in Seq(D!Bytes)
  PROVE  LET h == D!Header(data)
             n == D!Numeral[Len(data)]
         IN  /\ h \in Seq(D!Bytes) /\ n \in Seq(DigitSet) /\ n # <<>> /\ D!Number(n) = Len(data)
             /\ Len(n) \in Nat /\ Len(n) >= 1 /\ Len(h) = Len(n) + 4
             /\ h[1] = "S" /\ h[2] = "V" /\ h[3] = "l" /\ h[Len(h)] = ";"
             /\ \A i \in 1..Len(n) : h[i + 3] = n[i]
<1> DEFINE h == D!Header(data)
           n == D!Numeral[Len(data)]
           a == <<"S", "V", "l">>
           z == <<";">>
           an == a \o n
<1>1. Len(data) \in Nat BY LenProperties
<1>2. n \in Seq(DigitSet) /\ n # <<>> /\ D!Number(n) = Len(data) BY <1>1, NumeralIsNumber
<1>3. n \in Seq(D!Bytes) /\ Len(n) \in Nat /\ Len(n) >= 1
  <2> HIDE DEF n
  <2>1. n \in Seq(D!Bytes) BY <1>2, DigitsAreBytes, SeqMonotonic
  <2>2. Len(n) \in Nat \ {0} BY <1>2, EmptySeq
  <2> QED BY <2>1, <2>2
<1>4. a \in Seq(D!Bytes) /\ Len(a) = 3
  <2>1. "S" \in D!Bytes /\ "V" \in D!Bytes /\ "l" \in D!Bytes BY DigitsAreBytes
  <2> QED BY <2>1
<1>5. z \in Seq(D!Bytes) /\ Len(z) = 1
  <2>1. ";" \in D!Bytes BY DigitsAreBytes
  <2> QED BY <2>1, OneElement
<1>s. a[1] = "S" /\ a[2] = "V" /\ a[3] = "l" /\ z[1] = ";" OBVIOUS
<1> HIDE DEF a, n, z
<1> DEFINE X == D!Bytes
<1>6. /\ an \in Seq(X) /\ Len(an) = Len(a) + Len(n)
      /\ \A i \in 1..Len(a) : an[i] = a[i]
      /\ \A i \in 1..Len(n) : an[Len(a) + i] = n[i]
  <2>1. a \in Seq(X) BY <1>4
  <2>2. n \in Seq(X) BY <1>3
  <2> HIDE DEF X
  <2> QED BY ONLY <2>1, <2>2, ConcatElements
<1>h. h = an \o z BY DEF D!Header, a, n, z
<1> HIDE DEF an, h
<1>7. /\ h \in Seq(X) /\ Len(h) = Len(an) + Len(z)
      /\ \A i \in 1..Len(an) : h[i] = an[i]
      /\ \A i \in 1..Len(z) : h[Len(an) + i] = z[i]
  <2>1. z \in Seq(X) BY <1>5
  <2>2. an \in Seq(X) BY <1>6
  <2> HIDE DEF X
  <2> QED BY ONLY <1>h, <2>1, <2>2, ConcatElements
<1>8. Len(h) = Len(n) + 4 /\ h[Len(h)] = z[1]
  <2>1. Len(an) = Len(n) + 3 /\ Len(h) = Len(an) + 1 /\ 1 \in 1..Len(z) BY <1>3, <1>4, <1>5, <1>6, <1>7
  <2>2. h[Len(an) + 1] = z[1] BY <1>7, <2>1
  <2> QED BY <2>1, <2>2, <1>3, <1>5
<1>9. ASSUME NEW i \in 1..3 PROVE h[i] = a[i]
  <2>1. i \in 1..Len(an) /\ i \in 1..Len(a) BY <1>3, <1>4, <1>6
  <2> QED BY <2>1, <1>6, <1>7
<1>10. ASSUME NEW i \in 1..Len(n) PROVE h[i + 3] = n[i]
  <2>1. i + 3 \in 1..Len(an) /\ Len(a) + i = i + 3 BY <1>3, <1>4, <1>6
  <2> QED BY <2>1, <1>6, <1>7
<1>11. h[1] = a[1] /\ h[2] = a[2] /\ h[3] = a[3] BY <1>9
<1>12. n \in Seq(DigitSet) /\ n # <<>> /\ D!Number(n) = Len(data) BY <1>2
<1>13. h[1] = "S" /\ h[2] = "V" /\ h[3] = "l" /\ h[Len(h)] = ";" BY <1>s, <1>8, <1>11
<1> QED BY <1>3, <1>7, <1>8, <1>10, <1>12, <1>13 DEF h, n

\* What a part is on the wire: never nothing, and a message begins with its header.
LEMMA EncodedProperties ==
  ASSUME NEW p \in Parts
  PROVE  /\ D!Encoded(p) \in Seq(D!Bytes) /\ D!Encoded(p) # <<>>
         /\ p.message => /\ Len(D!Encoded(p)) >= 5
                         /\ D!Encoded(p) = D!Header(p.bytes) \o p.bytes
                         /\ D!Encoded(p)[1] = "S" /\ D!Encoded(p)[2] = "V" /\ D!Encoded(p)[3] = "l"
         /\ ~p.message => D!Encoded(p) = p.bytes
         /\ D!Received(p) \in Seq(Seq(D!Bytes))
<1>1. p.message \in BOOLEAN /\ p.bytes \in Seq(D!Bytes) /\ (~p.message => D!IsJunk(p.bytes)) BY PartTypes
<1>2. CASE p.message
  <2> DEFINE h == D!Header(p.bytes)
             n == D!Numeral[Len(p.bytes)]
  <2>1. h \in Seq(D!Bytes) /\ Len(n) \in Nat /\ Len(n) >= 1 /\ Len(h) = Len(n) + 4
    BY <1>1, HeaderProperties
  <2>s. h[1] = "S" /\ h[2] = "V" /\ h[3] = "l" BY <1>1, HeaderProperties
  <2>2. D!Encoded(p) = h \o p.bytes BY <1>2 DEF D!Encoded, D!encodemsg
  <2> HIDE DEF h, n
  <2> DEFINE e == h \o p.bytes
  <2>3. /\ e \in Seq(D!Bytes) /\ Len(e) = Len(h) + Len(p.bytes)
        /\ \A i \in 1..Len(h) : e[i] = h[i]
    BY <1>1, <2>1, ConcatElements
  <2>4. Len(p.bytes) \in Nat BY <1>1, LenProperties
  <2> HIDE DEF e
  <2> DEFINE x == Len(h)
             y == Len(p.bytes)
             k == Len(n)
  <2>5. x + y >= 5 /\ \A i \in 1..3 : i \in 1..x
    <3>1. x = k + 4 /\ k \in Nat /\ k >= 1 /\ y \in Nat BY <2>1, <2>4
    <3> HIDE DEF x, y, k
    <3> QED BY <3>1
  <2>6. e[1] = "S" /\ e[2] = "V" /\ e[3] = "l"
    <3>1. \A i \in 1..3 : e[i] = h[i] BY <2>3, <2>5
    <3>2. e[1] = h[1] /\ e[2] = h[2] /\ e[3] = h[3] BY <3>1
    <3> HIDE DEF x, y, k
    <3> QED BY <2>s, <3>2
  <2>7. e # <<>> BY <2>3, <2>5, EmptySeq
  <2>8. D!Received(p) \in Seq(Seq(D!Bytes)) BY <1>1, <1>2 DEF D!Received
  <2> QED BY <1>2, <2>2, <2>3, <2>5, <2>6, <2>7, <2>8 DEF e, h
<1>3. CASE ~p.message
  <2>1. D!Received(p) \in Seq(Seq(D!Bytes)) BY <1>3, EmptySeq DEF D!Received
  <2> QED BY <1>1, <1>3, <2>1 DEF D!Encoded, D!IsJunk
<1> QED BY <1>1, <1>2, <1>3

\* The module of the decoder has the operators of SequencesExt under names of its own.
LEMMA SameFlatten == \A s : D!FlattenSeq(s) = FlattenSeq(s)
BY DEF D!FlattenSeq, FlattenSeq

Wire(ps) == [i \in 1..Len(ps) |-> D!Encoded(ps[i])]
Given(ps) == [i \in 1..Len(ps) |-> D!Received(ps[i])]

LEMMA WireTypes ==
  ASSUME NEW ps \in Seq(Parts)
  PROVE  /\ Wire(ps) \in Seq(Seq(D!Bytes)) /\ Len(Wire(ps)) = Len(ps)
         /\ Given(ps) \in Seq(Seq(Seq(D!Bytes))) /\ Len(Given(ps)) = Len(ps)
         /\ D!Stream(ps) = FlattenSeq(Wire(ps)) /\ D!Stream(ps) \in Seq(D!Bytes)
         /\ D!Bodies(ps) = FlattenSeq(Given(ps)) /\ D!Bodies(ps) \in Seq(Seq(D!Bytes))
<1>1. Len(ps) \in Nat /\ \A i \in 1..Len(ps) : ps[i] \in Parts BY LenProperties, ElementOfSeq
<1>2. \A i \in 1..Len(ps) : D!Encoded(ps[i]) \in Seq(D!Bytes) /\ D!Received(ps[i]) \in Seq(Seq(D!Bytes))
  BY <1>1, EncodedProperties
<1>3. Wire(ps) \in Seq(Seq(D!Bytes)) /\ Len(Wire(ps)) = Len(ps) BY <1>1, <1>2 DEF Wire
<1>4. Given(ps) \in Seq(Seq(Seq(D!Bytes))) /\ Len(Given(ps)) = Len(ps) BY <1>1, <1>2 DEF Given
<1>5. D!Stream(ps) = FlattenSeq(Wire(ps))
  <2>1. D!Stream(ps) = D!FlattenSeq(Wire(ps)) BY DEF D!Stream, Wire
  <2> QED BY <2>1, SameFlatten
<1>6. D!Bodies(ps) = FlattenSeq(Given(ps))
  <2>1. D!Bodies(ps) = D!FlattenSeq(Given(ps)) BY DEF D!Bodies, Given
  <2> QED BY <2>1, SameFlatten
<1>7. D!Stream(ps) \in Seq(D!Bytes) BY <1>3, <1>5, FlattenType
<1>8. D!Bodies(ps) \in Seq(Seq(D!Bytes))
  <2> DEFINE X == Seq(D!Bytes)
  <2>1. Given(ps) \in Seq(Seq(X)) BY <1>4
  <2> HIDE DEF X
  <2>2. FlattenSeq(Given(ps)) \in Seq(X) BY <2>1, FlattenType
  <2> QED BY <2>2, <1>6 DEF X
<1> QED BY <1>3, <1>4, <1>5, <1>6, <1>7, <1>8

\* A stream is that of its first part and that of the others.
LEMMA StreamConcat ==
  ASSUME NEW ps \in Seq(Parts), NEW qs \in Seq(Parts)
  PROVE  /\ D!Stream(ps \o qs) = D!Stream(ps) \o D!Stream(qs)
         /\ D!Bodies(ps \o qs) = D!Bodies(ps) \o D!Bodies(qs)
<1> DEFINE u == ps \o qs
           n == Len(ps)
           m == Len(qs)
<1>1. /\ n \in Nat /\ m \in Nat /\ u \in Seq(Parts) /\ Len(u) = n + m
      /\ \A i \in 1..n + m : u[i] = IF i <= n THEN ps[i] ELSE qs[i - n]
  BY LenProperties, ConcatProperties
<1>2. /\ Wire(ps) \in Seq(Seq(D!Bytes)) /\ Len(Wire(ps)) = n /\ Given(ps) \in Seq(Seq(Seq(D!Bytes))) /\ Len(Given(ps)) = n
      /\ Wire(qs) \in Seq(Seq(D!Bytes)) /\ Len(Wire(qs)) = m /\ Given(qs) \in Seq(Seq(Seq(D!Bytes))) /\ Len(Given(qs)) = m
  BY WireTypes
<1>3. /\ Wire(u) \in Seq(Seq(D!Bytes)) /\ Len(Wire(u)) = n + m /\ Given(u) \in Seq(Seq(Seq(D!Bytes))) /\ Len(Given(u)) = n + m
  <2> HIDE DEF u
  <2> QED BY <1>1, WireTypes
<1>4. Wire(u) = Wire(ps) \o Wire(qs)
  <2> DEFINE w == Wire(ps) \o Wire(qs)
  <2>1. /\ w \in Seq(Seq(D!Bytes)) /\ Len(w) = n + m
        /\ \A i \in 1..n + m : w[i] = IF i <= n THEN Wire(ps)[i] ELSE Wire(qs)[i - n]
    <3> DEFINE X == Seq(D!Bytes)
               a == Wire(ps)
               b == Wire(qs)
    <3>1. a \in Seq(X) /\ b \in Seq(X) /\ Len(a) = n /\ Len(b) = m BY <1>2
    <3>2. /\ a \o b \in Seq(X) /\ Len(a \o b) = Len(a) + Len(b)
          /\ \A i \in 1..Len(a) + Len(b) : (a \o b)[i] = IF i <= Len(a) THEN a[i] ELSE b[i - Len(a)]
      <4> HIDE DEF X, a, b
      <4> QED BY <3>1, ConcatProperties
    <3> HIDE DEF n, m
    <3> QED BY <3>1, <3>2
  <2>2. ASSUME NEW i \in 1..n + m PROVE Wire(u)[i] = w[i]
    <3>1. Wire(u)[i] = D!Encoded(u[i]) BY <1>1 DEF Wire
    <3>2. CASE i <= n
      <4>1. i \in 1..n BY <1>1, <3>2
      <4>2. Wire(ps)[i] = D!Encoded(ps[i]) BY <4>1 DEF Wire
      <4> HIDE DEF u, w, n, m
      <4> QED BY <1>1, <2>1, <3>1, <3>2, <4>2
    <3>3. CASE ~(i <= n)
      <4>1. i - n \in 1..m BY <1>1, <3>3
      <4>2. Wire(qs)[i - n] = D!Encoded(qs[i - n]) BY <4>1 DEF Wire
      <4> HIDE DEF u, w, n, m
      <4> QED BY <1>1, <2>1, <3>1, <3>3, <4>2
    <3> QED BY <3>2, <3>3
  <2> HIDE DEF u, w, n, m
  <2>3. Wire(u) = w BY <1>3, <2>1, <2>2, SeqEqual
  <2> QED BY <2>3 DEF w
<1>5. Given(u) = Given(ps) \o Given(qs)
  <2> DEFINE w == Given(ps) \o Given(qs)
  <2>1. /\ w \in Seq(Seq(Seq(D!Bytes))) /\ Len(w) = n + m
        /\ \A i \in 1..n + m : w[i] = IF i <= n THEN Given(ps)[i] ELSE Given(qs)[i - n]
    <3> DEFINE X == Seq(Seq(D!Bytes))
               a == Given(ps)
               b == Given(qs)
    <3>1. a \in Seq(X) /\ b \in Seq(X) /\ Len(a) = n /\ Len(b) = m BY <1>2
    <3>2. /\ a \o b \in Seq(X) /\ Len(a \o b) = Len(a) + Len(b)
          /\ \A i \in 1..Len(a) + Len(b) : (a \o b)[i] = IF i <= Len(a) THEN a[i] ELSE b[i - Len(a)]
      <4> HIDE DEF X, a, b
      <4> QED BY <3>1, ConcatProperties
    <3> HIDE DEF n, m
    <3> QED BY <3>1, <3>2
  <2>2. ASSUME NEW i \in 1..n + m PROVE Given(u)[i] = w[i]
    <3>1. Given(u)[i] = D!Received(u[i]) BY <1>1 DEF Given
    <3>2. CASE i <= n
      <4>1. i \in 1..n BY <1>1, <3>2
      <4>2. Given(ps)[i] = D!Received(ps[i]) BY <4>1 DEF Given
      <4> HIDE DEF u, w, n, m
      <4> QED BY <1>1, <2>1, <3>1, <3>2, <4>2
    <3>3. CASE ~(i <= n)
      <4>1. i - n \in 1..m BY <1>1, <3>3
      <4>2. Given(qs)[i - n] = D!Received(qs[i - n]) BY <4>1 DEF Given
      <4> HIDE DEF u, w, n, m
      <4> QED BY <1>1, <2>1, <3>1, <3>3, <4>2
    <3> QED BY <3>2, <3>3
  <2> HIDE DEF u, w, n, m
  <2>3. Given(u) = w BY <1>3, <2>1, <2>2, SeqEqual
  <2> QED BY <2>3 DEF w
<1>6. FlattenSeq(Wire(ps) \o Wire(qs)) = FlattenSeq(Wire(ps)) \o FlattenSeq(Wire(qs)) BY <1>2, FlattenConcat
<1>7. FlattenSeq(Given(ps) \o Given(qs)) = FlattenSeq(Given(ps)) \o FlattenSeq(Given(qs))
  BY <1>2, FlattenConcat
<1>8. D!Stream(u) = FlattenSeq(Wire(u)) /\ D!Bodies(u) = FlattenSeq(Given(u))
  <2> HIDE DEF u
  <2> QED BY <1>1, WireTypes
<1>9. /\ D!Stream(ps) = FlattenSeq(Wire(ps)) /\ D!Bodies(ps) = FlattenSeq(Given(ps))
      /\ D!Stream(qs) = FlattenSeq(Wire(qs)) /\ D!Bodies(qs) = FlattenSeq(Given(qs))
  BY WireTypes
<1> QED BY <1>4, <1>5, <1>6, <1>7, <1>8, <1>9

------------------------------------------------------------------------------
\* Of no parts, and of one.
LEMMA StreamFew ==
  /\ D!Stream(<<>>) = <<>> /\ D!Bodies(<<>>) = <<>>
  /\ \A p \in Parts : D!Stream(<<p>>) = D!Encoded(p) /\ D!Bodies(<<p>>) = D!Received(p)
<1>1. D!Stream(<<>>) = <<>> /\ D!Bodies(<<>>) = <<>>
  <2>1. <<>> \in Seq(Parts) BY EmptySeq
  <2>2. Wire(<<>>) = <<>> /\ Given(<<>>) = <<>> BY DEF Wire, Given
  <2> QED BY <2>1, <2>2, WireTypes, FlattenEmpty
<1>2. ASSUME NEW p \in Parts PROVE D!Stream(<<p>>) = D!Encoded(p) /\ D!Bodies(<<p>>) = D!Received(p)
  <2>1. <<p>> \in Seq(Parts) /\ Len(<<p>>) = 1 /\ <<p>>[1] = p OBVIOUS
  <2>2. Wire(<<p>>) = <<D!Encoded(p)>> /\ Given(<<p>>) = <<D!Received(p)>> BY DEF Wire, Given
  <2>3. FlattenSeq(<<D!Encoded(p)>>) = D!Encoded(p) BY EncodedProperties, FlattenOne
  <2>4. FlattenSeq(<<D!Received(p)>>) = D!Received(p)
    <3> DEFINE X == Seq(D!Bytes)
               e == D!Received(p)
    <3>1. e \in Seq(X) BY EncodedProperties
    <3> HIDE DEF X, e
    <3>2. FlattenSeq(<<e>>) = e BY <3>1, FlattenOne
    <3> QED BY <3>2 DEF e
  <2> QED BY <2>1, <2>2, <2>3, <2>4, WireTypes
<1> QED BY <1>1, <1>2

LEMMA FollowingTypes ==
  ASSUME NEW ps \in Seq(Parts), NEW k \in 0..Len(ps)
  PROVE  /\ D!From(ps, k + 1) \in Seq(Parts) /\ SubSeq(ps, 1, k) \in Seq(Parts)
         /\ Following(ps, k) \in Seq(D!Bytes) /\ Collected(ps, k) \in Seq(Seq(D!Bytes))
<1>1. D!From(ps, k + 1) \in Seq(Parts) BY FromProperties
<1>2. SubSeq(ps, 1, k) \in Seq(Parts)
  <2>1. Len(ps) \in Nat BY LenProperties
  <2>2. \A i \in 1..k : ps[i] \in Parts
    <3>1. \A i \in 1..k : i \in 1..Len(ps) BY <2>1
    <3> QED BY <3>1, ElementOfSeq
  <2>3. 1 \in Int /\ k \in Int BY <2>1
  <2> QED BY <2>2, <2>3, SubSeqProperties
<1> QED BY <1>1, <1>2, WireTypes DEF Following, Collected

\* At the two ends of a stream.
LEMMA FollowingEnds ==
  ASSUME NEW ps \in Seq(Parts)
  PROVE  /\ Following(ps, 0) = D!Stream(ps) /\ Following(ps, Len(ps)) = <<>>
         /\ Collected(ps, 0) = <<>> /\ Collected(ps, Len(ps)) = D!Bodies(ps)
<1>1. Len(ps) \in Nat BY LenProperties
<1>2. D!From(ps, Len(ps) + 1) = <<>> /\ D!From(ps, 1) = ps BY EmptySeq, FromWhole
<1>3. 0 + 1 = 1 OBVIOUS
<1>4. SubSeq(ps, 1, 0) = <<>>
  <2>1. 1 \in Int /\ 0 \in Int /\ 0 < 1 OBVIOUS
  <2> QED BY <2>1, SubSeqEmpty
<1>5. SubSeq(ps, 1, Len(ps)) = ps BY SubSeqFull
<1> QED BY <1>2, <1>3, <1>4, <1>5, StreamFew DEF Following, Collected

\* One part further.
LEMMA FollowingStep ==
  ASSUME NEW ps \in Seq(Parts), NEW k \in 0..Len(ps) - 1
  PROVE  /\ ps[k + 1] \in Parts /\ k \in 0..Len(ps) /\ k + 1 \in 0..Len(ps)
         /\ Following(ps, k) = D!Encoded(ps[k + 1]) \o Following(ps, k + 1)
         /\ Collected(ps, k + 1) = Collected(ps, k) \o D!Received(ps[k + 1])
<1>1. /\ Len(ps) \in Nat /\ k + 1 \in 1..Len(ps) /\ k \in 0..Len(ps) /\ k + 1 \in 0..Len(ps)
      /\ Len(ps) \in k + 1..Len(ps) /\ 1 \in 1..Len(ps) /\ k + 1 \in 1..Len(ps) /\ (k + 1) - 1 = k
      /\ (k + 1) + 1 = k + 2
  BY LenProperties
<1>2. ps[k + 1] \in Parts BY <1>1, ElementOfSeq
<1> DEFINE p == ps[k + 1]
<1>3. D!From(ps, k + 1) = <<p>> \o D!From(ps, (k + 1) + 1)
  <2>1. SubSeq(ps, k + 1, Len(ps)) = <<p>> \o SubSeq(ps, (k + 1) + 1, Len(ps))
    <3> DEFINE m == k + 1
               n == Len(ps)
    <3>1. m \in 1..Len(ps) /\ n \in m..Len(ps) BY <1>1
    <3>2. SubSeq(ps, m, n) = <<ps[m]>> \o SubSeq(ps, m + 1, n)
      <4> HIDE DEF m, n
      <4> QED BY <3>1, SubSeqRecursiveFirst
    <3> QED BY <3>2
  <2> QED BY <2>1 DEF D!From
<1>4. SubSeq(ps, 1, k + 1) = SubSeq(ps, 1, k) \o <<p>>
  <2> DEFINE n == k + 1
  <2>1. 1 \in 1..Len(ps) /\ n \in 1..Len(ps) BY <1>1
  <2>2. SubSeq(ps, 1, n) = SubSeq(ps, 1, n - 1) \o <<ps[n]>>
    <3> HIDE DEF n
    <3> QED BY <2>1, SubSeqRecursiveSecond
  <2> QED BY <2>2, <1>1
<1>5. <<p>> \in Seq(Parts) BY <1>2, OneElement
<1>6. D!From(ps, (k + 1) + 1) \in Seq(Parts) /\ SubSeq(ps, 1, k) \in Seq(Parts) BY <1>1, FollowingTypes
<1>7. D!Stream(D!From(ps, k + 1)) = D!Stream(<<p>>) \o D!Stream(D!From(ps, (k + 1) + 1))
  BY <1>3, <1>5, <1>6, StreamConcat
<1>8. D!Bodies(SubSeq(ps, 1, k + 1)) = D!Bodies(SubSeq(ps, 1, k)) \o D!Bodies(<<p>>)
  BY <1>4, <1>5, <1>6, StreamConcat
<1>9. D!Stream(<<p>>) = D!Encoded(p) /\ D!Bodies(<<p>>) = D!Received(p)
  <2> HIDE DEF p
  <2> QED BY <1>2, StreamFew DEF p
<1> QED BY <1>1, <1>2, <1>7, <1>8, <1>9 DEF Following, Collected

\* What was received so far is a prefix of everything.
LEMMA CollectedIsPrefix ==
  ASSUME NEW ps \in Seq(Parts), NEW k \in 0..Len(ps)
  PROVE  D!IsPrefix(Collected(ps, k), D!Bodies(ps))
<1> DEFINE q == D!From(ps, k + 1)
           c == Collected(ps, k)
           t == D!Bodies(q)
<1>1. ps = SubSeq(ps, 1, k) \o q
  <2>1. SubSeq(ps, 1, k) \o SubSeq(ps, k + 1, Len(ps)) = SubSeq(ps, 1, Len(ps))
    <3> DEFINE n == Len(ps)
    <3>1. 1 \in 1..Len(ps) + 1 /\ k \in 1 - 1..Len(ps) /\ n \in k..Len(ps)
      <4>1. Len(ps) \in Nat BY LenProperties
      <4> QED BY <4>1
    <3> HIDE DEF n
    <3>2. SubSeq(ps, 1, k) \o SubSeq(ps, k + 1, n) = SubSeq(ps, 1, n)
      BY <3>1, ConcatAdjacentSubSeq
    <3> QED BY <3>2 DEF n
  <2> QED BY <2>1, SubSeqFull DEF D!From
<1>2. q \in Seq(Parts) /\ SubSeq(ps, 1, k) \in Seq(Parts) /\ c \in Seq(Seq(D!Bytes)) BY FollowingTypes
<1>3. D!Bodies(ps) = c \o t
  <2>1. D!Bodies(SubSeq(ps, 1, k) \o q) = D!Bodies(SubSeq(ps, 1, k)) \o D!Bodies(q)
    <3> HIDE DEF q
    <3> QED BY <1>2, StreamConcat
  <2> QED BY <2>1, <1>1 DEF Collected
<1>4. t \in Seq(Seq(D!Bytes))
  <2> HIDE DEF q
  <2> QED BY <1>2, WireTypes
<1> HIDE DEF q, c, t
<1> DEFINE X == Seq(D!Bytes)
<1>5. /\ c \o t \in Seq(X) /\ Len(c \o t) = Len(c) + Len(t)
      /\ \A i \in 1..Len(c) : (c \o t)[i] = c[i]
  <2>1. c \in Seq(X) /\ t \in Seq(X) BY <1>2, <1>4
  <2> HIDE DEF X
  <2> QED BY <2>1, ConcatElements
<1>6. Len(c) \in Nat /\ Len(t) \in Nat BY <1>2, <1>4, LenProperties
<1>7. D!IsPrefix(c, c \o t)
  <2> DEFINE u == c \o t
  <2>1. Len(c) <= Len(u) BY <1>5, <1>6
  <2>2. \A i \in 1..Len(c) : u[i] = c[i] BY <1>5
  <2>3. Len(u) \in Nat BY <1>5, <1>6
  <2>4. SubSeq(u, 1, Len(c)) = c
    <3>1. SubSeq(c \o t, 1, Len(c)) = c BY <1>2, <1>4, <1>6, SubSeqOfConcat1, SubSeqFull, SubSeqEmpty
    <3> QED BY <3>1
  <2> QED BY <2>1, <2>2, <2>4, <1>6 DEF D!IsPrefix
<1> QED BY <1>3, <1>7 DEF c

------------------------------------------------------------------------------
\* A sequence begins with what is no rest of a header: neither "l", nor "V" and "l".
NoMark(r) ==
  /\ r # <<>> => r[1] # "l"
  /\ Len(r) >= 2 => ~(r[1] = "V" /\ r[2] = "l")

\* Junk that is followed by no rest of a header is none either, at any of its places,
\* and there is no header in it.
LEMMA JunkMarks ==
  ASSUME NEW b \in Seq(D!Bytes), D!IsJunk(b), NEW f \in Seq(D!Bytes), NoMark(f)
  PROVE  /\ NoMark(b \o f)
         /\ \A i \in 1..Len(b) :
              LET r == D!From(b, i) \o f
              IN  Len(r) >= 3 => ~(r[1] = "S" /\ r[2] = "V" /\ r[3] = "l")
<1> DEFINE u == b \o f
           n == Len(b)
           m == Len(f)
<1>1. n \in Nat /\ m \in Nat /\ n >= 1
  <2>1. b # <<>> BY DEF D!IsJunk
  <2>2. n \in Nat \ {0} BY <2>1, EmptySeq
  <2>3. m \in Nat BY LenProperties
  <2> QED BY <2>2, <2>3
<1>2. /\ u \in Seq(D!Bytes) /\ Len(u) = n + m
      /\ \A i \in 1..n : u[i] = b[i]
      /\ \A i \in 1..m : u[n + i] = f[i]
  <2> DEFINE X == D!Bytes
  <2>1. b \in Seq(X) /\ f \in Seq(X) OBVIOUS
  <2> HIDE DEF X
  <2>2. /\ u \in Seq(X) /\ Len(u) = n + m
        /\ \A i \in 1..n : u[i] = b[i]
        /\ \A i \in 1..m : u[n + i] = f[i]
    BY <2>1, ConcatElements
  <2> QED BY <2>2 DEF X
<1>3. \A i \in 1..n : b[i] = "l" => i > 2 /\ ~(b[i - 2] = "S" /\ b[i - 1] = "V") BY DEF D!IsJunk
<1>4. m >= 1 => f[1] # "l"
  <2>1. m >= 1 => f # <<>> BY EmptySeq, <1>1
  <2> QED BY <2>1 DEF NoMark
<1>5. m >= 2 => ~(f[1] = "V" /\ f[2] = "l") BY DEF NoMark
<1> HIDE DEF u, n, m
\* No "l" of u comes after "S" and "V", nor at the first or second place.
<1>6. ASSUME NEW i \in 1..n + m, u[i] = "l", i <= 2 PROVE i = 2 /\ n = 1 /\ FALSE
  <2>1. CASE i <= n
    <3>1. i \in 1..n BY <2>1, <1>1
    <3>2. ~(i > 2) BY <1>1, <1>6
    <3>3. b[i] = "l" BY <3>1, <1>2, <1>6
    <3> QED BY <3>1, <3>2, <3>3, <1>3
  <2>2. CASE ~(i <= n)
    <3>1. i = n + 1 /\ m >= 1 /\ 1 \in 1..m BY <2>2, <1>1, <1>6
    <3>2. u[n + 1] = f[1] BY <3>1, <1>2
    <3> QED BY <3>1, <3>2, <1>4, <1>6
  <2> QED BY <2>1, <2>2
<1>7. NoMark(u)
  <2>1. u # <<>> => u[1] # "l"
    <3>1. 1 \in 1..n + m /\ 1 <= 2 BY <1>1
    <3> QED BY <3>1, <1>6
  <2>2. Len(u) >= 2 => ~(u[1] = "V" /\ u[2] = "l")
    <3>1. Len(u) >= 2 => 2 \in 1..n + m /\ 2 <= 2 BY <1>1, <1>2
    <3> QED BY <3>1, <1>6
  <2> QED BY <2>1, <2>2 DEF NoMark
<1>8. ASSUME NEW i \in 1..n
      PROVE  LET r == D!From(b, i) \o f
             IN  Len(r) >= 3 => ~(r[1] = "S" /\ r[2] = "V" /\ r[3] = "l")
  <2> DEFINE k == i - 1
             r == D!From(b, i) \o f
  <2>1. k \in 0..n /\ k + 1 = i /\ k \in 0..n + m BY <1>1
  <2>2. D!From(u, k + 1) = D!From(b, k + 1) \o f
    <3> HIDE DEF k
    <3> QED BY <2>1, FromConcat DEF u, n
  <2>3. Len(r) = (n + m) - k /\ \A j \in 1..(n + m) - k : r[j] = u[k + j]
    <3>1. Len(D!From(u, k + 1)) = (n + m) - k /\ \A j \in 1..(n + m) - k : D!From(u, k + 1)[j] = u[k + j]
      <4> HIDE DEF k, r
      <4> DEFINE X == D!Bytes
      <4>1. u \in Seq(X) /\ k \in 0..Len(u) BY <2>1, <1>1, <1>2
      <4>2. Len(u) = n + m BY <1>2
      <4> HIDE DEF X
      <4>3. Len(D!From(u, k + 1)) = Len(u) - k /\ \A j \in 1..Len(u) - k : D!From(u, k + 1)[j] = u[k + j]
        BY <4>1, FromProperties
      <4> QED BY <4>2, <4>3
    <3> QED BY <3>1, <2>1, <2>2
  <2> HIDE DEF r
  <2> SUFFICES ASSUME Len(r) >= 3, r[1] = "S" /\ r[2] = "V" /\ r[3] = "l" PROVE FALSE BY DEF r
  <2>4. 1 \in 1..(n + m) - k /\ 2 \in 1..(n + m) - k /\ 3 \in 1..(n + m) - k BY <2>1, <2>3, <1>1
  <2>5. r[1] = u[k + 1] /\ r[2] = u[k + 2] /\ r[3] = u[k + 3] BY <2>3, <2>4
  <2>6. k + 1 \in 1..n /\ k \in Nat BY <2>1, <1>1
  <2>7. u[k + 1] = b[k + 1] BY <2>6, <1>2
  <2>8. CASE k + 3 <= n
    <3>1. k + 2 \in 1..n /\ k + 3 \in 1..n /\ (k + 3) - 2 = k + 1 /\ (k + 3) - 1 = k + 2 BY <2>6, <2>8, <1>1
    <3>2. u[k + 2] = b[k + 2] /\ u[k + 3] = b[k + 3] BY <3>1, <1>2
    <3>3. b[k + 3] = "l" => ~(b[k + 1] = "S" /\ b[k + 2] = "V")
      <4> HIDE DEF k
      <4> QED BY <3>1, <1>3
    <3> QED BY <3>2, <3>3, <2>5, <2>7
  <2>9. CASE k + 2 = n
    <3>1. k + 3 = n + 1 /\ 1 \in 1..m /\ m >= 1 BY <2>9, <2>4, <2>6, <1>1
    <3>2. u[k + 3] = f[1]
      <4> HIDE DEF k
      <4> QED BY <3>1, <1>2
    <3> QED BY <3>1, <3>2, <2>5, <1>4
  <2>10. CASE k + 1 = n
    <3>1. k + 3 = n + 2 /\ k + 2 = n + 1 /\ 1 \in 1..m /\ 2 \in 1..m /\ m >= 2 BY <2>10, <2>4, <2>6, <1>1
    <3>2. u[k + 2] = f[1] /\ u[k + 3] = f[2]
      <4> HIDE DEF k
      <4> QED BY <3>1, <1>2
    <3> QED BY <3>1, <3>2, <2>5, <1>5
  <2>11. k + 3 <= n \/ k + 2 = n \/ k + 1 = n BY <2>6, <1>1
  <2> QED BY <2>8, <2>9, <2>10, <2>11
<1> QED BY <1>7, <1>8 DEF u, n

\* What is left of a stream, from a part on, is not the rest of a header.
LEMMA FollowingMarks ==
  ASSUME NEW ps \in Seq(Parts)
  PROVE  \A k \in 0..Len(ps) : NoMark(Following(ps, k))
<1> DEFINE n == Len(ps)
           T == {i \in Nat : i <= n => NoMark(Following(ps, n - i))}
<1>1. n \in Nat BY LenProperties
<1>2. 0 \in T
  <2>1. n - 0 = n BY <1>1
  <2>2. Following(ps, n) = <<>> BY FollowingEnds
  <2>3. NoMark(<<>>)
    <3>1. Len(<<>>) = 0 BY EmptySeq
    <3> QED BY <3>1 DEF NoMark
  <2> QED BY <2>1, <2>2, <2>3
<1>3. ASSUME NEW i \in Nat, i \in T PROVE i + 1 \in T
  <2> SUFFICES ASSUME i + 1 <= n PROVE NoMark(Following(ps, n - (i + 1))) OBVIOUS
  <2> DEFINE k == n - (i + 1)
             p == ps[k + 1]
             f == Following(ps, k + 1)
  <2>1. k \in 0..n - 1 /\ k + 1 = n - i /\ i <= n /\ k + 1 \in 0..n BY <1>1
  <2>2. NoMark(f) BY <2>1, <1>3
  <2>3. p \in Parts /\ Following(ps, k) = D!Encoded(p) \o f
    <3> HIDE DEF k
    <3> QED BY <2>1, FollowingStep
  <2>4. f \in Seq(D!Bytes)
    <3> DEFINE j == k + 1
    <3>1. j \in 0..n BY <2>1
    <3> HIDE DEF j, k, p
    <3>2. Following(ps, j) \in Seq(D!Bytes) BY <3>1, FollowingTypes
    <3> QED BY <3>2 DEF j
  <2> HIDE DEF f, p, k
  <2>5. p.message \in BOOLEAN /\ p.bytes \in Seq(D!Bytes) /\ (~p.message => D!IsJunk(p.bytes))
    BY <2>3, PartTypes
  <2>6. CASE p.message
    <3> DEFINE e == D!Encoded(p)
               u == e \o f
    <3>1. e \in Seq(D!Bytes) /\ e # <<>> /\ e[1] = "S" BY <2>3, <2>6, EncodedProperties
    <3>2. Len(e) \in Nat \ {0}
      <4>1. e \in Seq(D!Bytes) /\ e # <<>> BY <3>1
      <4> HIDE DEF e
      <4> QED BY <4>1, EmptySeq
    <3> HIDE DEF e
    <3>3. \A j \in 1..Len(e) : u[j] = e[j] BY <3>1, <2>4, ConcatElements
    <3>4. 1 \in 1..Len(e) BY <3>2
    <3>5. u[1] = e[1] BY <3>3, <3>4
    <3>6. NoMark(u)
      <4> HIDE DEF u
      <4> QED BY <3>1, <3>5 DEF NoMark
    <3> QED BY <3>6, <2>3 DEF e, k
  <2>7. CASE ~p.message
    <3>1. D!Encoded(p) = p.bytes BY <2>7 DEF D!Encoded
    <3>2. NoMark(p.bytes \o f)
      <4> DEFINE b == p.bytes
      <4>1. b \in Seq(D!Bytes) /\ D!IsJunk(b) BY <2>5, <2>7
      <4> HIDE DEF b
      <4>2. NoMark(b \o f) BY <4>1, <2>2, <2>4, JunkMarks
      <4> QED BY <4>2 DEF b
    <3> QED BY <3>1, <3>2, <2>3 DEF k
  <2> QED BY <2>5, <2>6, <2>7
<1>4. \A i \in Nat : i \in T
  <2> HIDE DEF T
  <2> QED BY <1>2, <1>3, SetInduction
<1>5. ASSUME NEW k \in 0..n PROVE NoMark(Following(ps, k))
  <2>1. n - k \in Nat /\ n - k <= n /\ n - (n - k) = k BY <1>1
  <2>2. n - k \in T BY <2>1, <1>4
  <2> QED BY <2>1, <2>2
<1> QED BY <1>5

\* Where nothing is left for the receiver, or there is a header and its mark.
LEMMA EndOrMark ==
  ASSUME NEW ps \in Seq(Parts)
  PROVE  \A k \in 0..Len(ps) :
           \/ Collected(ps, k) = D!Bodies(ps)
           \/ /\ Len(Following(ps, k)) >= 5
              /\ \E i \in 1..Len(Following(ps, k)) : Following(ps, k)[i] = "S"
<1> DEFINE n == Len(ps)
           G(k) == \/ Collected(ps, k) = D!Bodies(ps)
                   \/ /\ Len(Following(ps, k)) >= 5
                      /\ \E i \in 1..Len(Following(ps, k)) : Following(ps, k)[i] = "S"
           T == {i \in Nat : i <= n => G(n - i)}
<1>1. n \in Nat BY LenProperties
<1>2. 0 \in T
  <2>1. n - 0 = n BY <1>1
  <2>2. Collected(ps, n) = D!Bodies(ps) BY FollowingEnds
  <2> QED BY <2>1, <2>2
<1>3. ASSUME NEW i \in Nat, i \in T PROVE i + 1 \in T
  <2> SUFFICES ASSUME i + 1 <= n PROVE G(n - (i + 1))
    <3> HIDE DEF G
    <3> QED OBVIOUS
  <2> DEFINE k == n - (i + 1)
             p == ps[k + 1]
             e == D!Encoded(p)
             f == Following(ps, k + 1)
             u == e \o f
  <2>1. k \in 0..n - 1 /\ k + 1 = n - i /\ i <= n /\ k + 1 \in 0..n /\ k \in 0..n BY <1>1
  <2>2. G(k + 1)
    <3> HIDE DEF G
    <3> QED BY <2>1, <1>3
  <2>3. p \in Parts /\ Following(ps, k) = u /\ Collected(ps, k + 1) = Collected(ps, k) \o D!Received(p)
    <3> HIDE DEF k
    <3> QED BY <2>1, FollowingStep
  <2>4. f \in Seq(D!Bytes) /\ Collected(ps, k) \in Seq(Seq(D!Bytes))
    <3> DEFINE j == k + 1
    <3>1. j \in 0..n /\ k \in 0..n BY <2>1
    <3> HIDE DEF j, k, p, e, u
    <3>2. Following(ps, j) \in Seq(D!Bytes) /\ Collected(ps, k) \in Seq(Seq(D!Bytes))
      BY <3>1, FollowingTypes
    <3> QED BY <3>2 DEF j
  <2>5. e \in Seq(D!Bytes) /\ p.message \in BOOLEAN
    <3> HIDE DEF p
    <3> QED BY <2>3, EncodedProperties, PartTypes
  <2>6. Len(e) \in Nat /\ Len(f) \in Nat BY <2>4, <2>5, LenProperties
  <2>7. /\ Len(u) = Len(e) + Len(f)
        /\ \A j \in 1..Len(e) : u[j] = e[j]
        /\ \A j \in 1..Len(f) : u[Len(e) + j] = f[j]
    <3> HIDE DEF e, f
    <3> QED BY <2>4, <2>5, ConcatElements
  <2>8. CASE p.message
    <3>1. Len(e) >= 5
      <4> HIDE DEF p
      <4> QED BY <2>3, <2>8, EncodedProperties
    <3>2. e[1] = "S"
      <4> HIDE DEF p
      <4> QED BY <2>3, <2>8, EncodedProperties
    <3> HIDE DEF e, f, u
    <3>3. 1 \in 1..Len(e) /\ 1 \in 1..Len(u) /\ Len(u) >= 5 BY <3>1, <2>6, <2>7
    <3>4. u[1] = e[1] BY <3>3, <2>7
    <3> QED BY <3>2, <3>3, <3>4, <2>3 DEF k
  <2>9. CASE ~p.message
    <3>1. Collected(ps, k + 1) = Collected(ps, k)
      <4>1. D!Received(p) = <<>> BY <2>9 DEF D!Received
      <4>2. Collected(ps, k) \o <<>> = Collected(ps, k)
        <5> DEFINE X == Seq(D!Bytes)
                   c == Collected(ps, k)
        <5>1. c \in Seq(X) BY <2>4
        <5> HIDE DEF X, c
        <5>2. c \o <<>> = c BY <5>1, ConcatEmptySeq
        <5> QED BY <5>2 DEF c
      <4> QED BY <4>1, <4>2, <2>3
    <3>2. CASE Collected(ps, k + 1) = D!Bodies(ps) BY <3>1, <3>2
    <3>3. CASE Len(f) >= 5 /\ \E j \in 1..Len(f) : f[j] = "S"
      <4>1. PICK j \in 1..Len(f) : f[j] = "S" BY <3>3
      <4> HIDE DEF e, f, u, k
      <4>2. Len(e) + j \in 1..Len(u) /\ Len(u) >= 5 BY <2>6, <2>7, <3>3
      <4>3. u[Len(e) + j] = f[j] BY <2>7
      <4> QED BY <4>1, <4>2, <4>3, <2>3 DEF k
    <3> QED BY <2>2, <3>2, <3>3
  <2> QED BY <2>5, <2>8, <2>9
<1>4. \A i \in Nat : i \in T
  <2> HIDE DEF T
  <2> QED BY <1>2, <1>3, SetInduction
<1>5. ASSUME NEW k \in 0..n PROVE G(k)
  <2>1. n - k \in Nat /\ n - k <= n /\ n - (n - k) = k BY <1>1
  <2>2. n - k \in T BY <2>1, <1>4
  <2> HIDE DEF G
  <2> QED BY <2>1, <2>2
<1> QED BY <1>5

------------------------------------------------------------------------------
(***************************************************************************)
(* Between two messages: what is before the receiver is what follows a     *)
(* part of the stream, or begins within a part that is junk.               *)
(***************************************************************************)
InJunk(ps, k, i, r) ==
  /\ k \in 0..Len(ps) - 1 /\ ~ps[k + 1].message /\ i \in 1..Len(ps[k + 1].bytes)
  /\ r = D!From(ps[k + 1].bytes, i) \o Following(ps, k + 1)
Between(ps, r, o) ==
  \E k \in 0..Len(ps) :
    o = Collected(ps, k) /\ (r = Following(ps, k) \/ \E i \in Nat : InJunk(ps, k, i, r))
AtMessage(ps, k, o) == k \in 0..Len(ps) - 1 /\ ps[k + 1].message /\ o = Collected(ps, k)
HeaderAt(r) == Len(r) >= 3 /\ r[1] = "S" /\ r[2] = "V" /\ r[3] = "l"

\* Junk adds nothing to what is received, and is there as it is.
LEMMA JunkStep ==
  ASSUME NEW ps \in Seq(Parts), NEW k \in 0..Len(ps) - 1, ~ps[k + 1].message
  PROVE  /\ ps[k + 1].bytes \in Seq(D!Bytes) /\ D!IsJunk(ps[k + 1].bytes) /\ ps[k + 1].bytes # <<>>
         /\ Following(ps, k + 1) \in Seq(D!Bytes)
         /\ Following(ps, k) = ps[k + 1].bytes \o Following(ps, k + 1)
         /\ Collected(ps, k + 1) = Collected(ps, k)
<1> DEFINE p == ps[k + 1]
           j == k + 1
<1>1. /\ p \in Parts /\ k \in 0..Len(ps) /\ j \in 0..Len(ps)
      /\ Following(ps, k) = D!Encoded(p) \o Following(ps, j)
      /\ Collected(ps, j) = Collected(ps, k) \o D!Received(p)
  BY FollowingStep
<1>2. ~p.message OBVIOUS
<1> HIDE DEF p, j
<1>3. p.bytes \in Seq(D!Bytes) /\ D!IsJunk(p.bytes) BY <1>1, <1>2, PartTypes
<1>4. p.bytes # <<>> BY <1>3 DEF D!IsJunk
<1>5. Following(ps, j) \in Seq(D!Bytes) /\ Collected(ps, k) \in Seq(Seq(D!Bytes)) BY <1>1, FollowingTypes
<1>6. D!Encoded(p) = p.bytes /\ D!Received(p) = <<>> BY <1>2 DEF D!Encoded, D!Received
<1>7. Collected(ps, k) \o <<>> = Collected(ps, k)
  <2> DEFINE X == Seq(D!Bytes)
             c == Collected(ps, k)
  <2>1. c \in Seq(X) BY <1>5
  <2> HIDE DEF X, c
  <2>2. c \o <<>> = c BY <2>1, ConcatEmptySeq
  <2> QED BY <2>2 DEF c
<1> QED BY <1>1, <1>3, <1>4, <1>5, <1>6, <1>7 DEF p, j

\* Where a part begins that is junk, one is within it.
LEMMA JunkBegins ==
  ASSUME NEW ps \in Seq(Parts), NEW k \in 0..Len(ps) - 1, ~ps[k + 1].message
  PROVE  InJunk(ps, k, 1, Following(ps, k))
<1> DEFINE b == ps[k + 1].bytes
<1>1. b \in Seq(D!Bytes) /\ b # <<>> /\ Following(ps, k) = b \o Following(ps, k + 1) BY JunkStep
<1> HIDE DEF b
<1>2. D!From(b, 1) = b BY <1>1, EmptySeq, FromWhole
<1>3. 1 \in 1..Len(b)
  <2>1. Len(b) \in Nat \ {0} BY <1>1, EmptySeq
  <2> QED BY <2>1
<1> QED BY <1>1, <1>2, <1>3 DEF InJunk, b

\* Within junk: the next byte is there, drops to what is between two messages, and is
\* not where a header begins.
LEMMA JunkDrops ==
  ASSUME NEW ps \in Seq(Parts), NEW k \in 0..Len(ps) - 1, NEW i \in Nat, NEW r, InJunk(ps, k, i, r)
  PROVE  /\ r \in Seq(D!Bytes) /\ ~HeaderAt(r)
         /\ Between(ps, Tail(r), Collected(ps, k))
<1> DEFINE b == ps[k + 1].bytes
           f == Following(ps, k + 1)
           n == Len(b)
<1>1. /\ ~ps[k + 1].message /\ i \in 1..n /\ r = D!From(b, i) \o f BY DEF InJunk
<1>2. /\ b \in Seq(D!Bytes) /\ f \in Seq(D!Bytes) /\ D!IsJunk(b) /\ Collected(ps, k + 1) = Collected(ps, k)
  BY <1>1, JunkStep
<1>n. n \in Nat /\ k \in 0..Len(ps) /\ k + 1 \in 0..Len(ps) /\ Len(ps) \in Nat
  <2>1. Len(ps) \in Nat /\ n \in Nat BY <1>2, LenProperties
  <2> HIDE DEF n
  <2> QED BY <2>1
<1> DEFINE j == i - 1
           v == D!From(b, j + 1)
<1>3. j \in 0..n - 1 /\ j \in 0..n /\ j + 1 = i /\ j + 2 = i + 1 BY <1>1, <1>n
<1>4. v \in Seq(D!Bytes) /\ v # <<>> /\ Tail(v) = D!From(b, j + 2)
  <2> HIDE DEF b, j
  <2> QED BY <1>2, <1>3, FromProperties, FromTail DEF n
<1>5. r = v \o f BY <1>1, <1>3
<1>6. Tail(r) = D!From(b, i + 1) \o f
  <2>1. Tail(v \o f) = Tail(v) \o f
    <3> HIDE DEF v, f
    <3>1. v \o f \in Seq(D!Bytes) /\ v \o f # <<>> BY <1>2, <1>4, ConcatProperties, ConcatEqualIffEmpty
    <3>2. Tail(v \o f) = D!From(v \o f, 2) /\ Tail(v) = D!From(v, 2) BY <1>4, <3>1, TailIsSubSeq DEF D!From
    <3>3. 1 \in 0..Len(v) /\ 1 + 1 = 2
      <4>1. Len(v) \in Nat \ {0} BY <1>4, EmptySeq
      <4> QED BY <4>1
    <3> DEFINE one == 1
    <3>4. one \in 0..Len(v) BY <3>3
    <3> HIDE DEF one
    <3>5. D!From(v \o f, one + 1) = D!From(v, one + 1) \o f BY <1>2, <1>4, <3>4, FromConcat
    <3> QED BY <3>2, <3>3, <3>5 DEF one
  <2> QED BY <2>1, <1>3, <1>4, <1>5
<1>7. r \in Seq(D!Bytes)
  <2> HIDE DEF v, f
  <2> QED BY <1>2, <1>4, <1>5, ConcatProperties
<1>8. ~HeaderAt(r)
  <2>1. NoMark(f)
    <3> DEFINE m == k + 1
    <3>1. m \in 0..Len(ps) BY <1>n
    <3> HIDE DEF m, f
    <3>2. NoMark(Following(ps, m)) BY <3>1, FollowingMarks
    <3> QED BY <3>2 DEF m, f
  <2>2. LET s == D!From(b, i) \o f
        IN  Len(s) >= 3 => ~(s[1] = "S" /\ s[2] = "V" /\ s[3] = "l")
    <3> HIDE DEF b, f
    <3> QED BY <1>1, <1>2, <2>1, JunkMarks DEF n
  <2> QED BY <1>1, <2>2 DEF HeaderAt
<1>9. CASE i + 1 <= n
  <2>1. i + 1 \in 1..n /\ i + 1 \in Nat BY <1>9, <1>1, <1>n
  <2>2. InJunk(ps, k, i + 1, Tail(r)) BY <1>1, <1>6, <2>1 DEF InJunk
  <2>3. Between(ps, Tail(r), Collected(ps, k)) BY <2>1, <2>2, <1>n DEF Between
  <2> QED BY <1>7, <1>8, <2>3
<1>10. CASE i = n
  <2>1. D!From(b, i + 1) = <<>>
    <3> HIDE DEF b
    <3> QED BY <1>2, <1>10, EmptySeq, FromWhole DEF n
  <2>2. Tail(r) = f
    <3> HIDE DEF f
    <3> QED BY <2>1, <1>2, <1>6, ConcatEmptySeq
  <2>3. Between(ps, Tail(r), Collected(ps, k)) BY <2>2, <1>2, <1>n DEF Between
  <2> QED BY <1>7, <1>8, <2>3
<1> QED BY <1>1, <1>9, <1>10, <1>n

\* At a message there is its header; at the end of the stream there is nothing.
LEMMA MessageStep ==
  ASSUME NEW ps \in Seq(Parts), NEW k \in 0..Len(ps) - 1, ps[k + 1].message
  PROVE  /\ ps[k + 1] \in Parts /\ ps[k + 1].bytes \in Seq(D!Bytes)
         /\ Following(ps, k + 1) \in Seq(D!Bytes)
         /\ D!Header(ps[k + 1].bytes) \in Seq(D!Bytes)
         /\ Following(ps, k) = D!Header(ps[k + 1].bytes) \o (ps[k + 1].bytes \o Following(ps, k + 1))
         /\ Collected(ps, k + 1) = Append(Collected(ps, k), ps[k + 1].bytes)
         /\ HeaderAt(Following(ps, k))
<1> DEFINE p == ps[k + 1]
           j == k + 1
           b == p.bytes
           f == Following(ps, j)
           h == D!Header(b)
           c == Collected(ps, k)
<1>1. /\ p \in Parts /\ k \in 0..Len(ps) /\ j \in 0..Len(ps)
      /\ Following(ps, k) = D!Encoded(p) \o Following(ps, j)
      /\ Collected(ps, j) = Collected(ps, k) \o D!Received(p)
  BY FollowingStep
<1>2. p.message OBVIOUS
<1> HIDE DEF p, j
<1>3. b \in Seq(D!Bytes) BY <1>1, PartTypes
<1>4. f \in Seq(D!Bytes) /\ c \in Seq(Seq(D!Bytes)) BY <1>1, FollowingTypes
<1>5. h \in Seq(D!Bytes)
  <2> HIDE DEF b
  <2> QED BY <1>3, HeaderProperties
<1>6. D!Encoded(p) = h \o b BY <1>1, <1>2, EncodedProperties
<1>7. (h \o b) \o f = h \o (b \o f)
  <2> HIDE DEF h, b, f
  <2> QED BY <1>3, <1>4, <1>5, ConcatAssociative
<1>8. c \o <<b>> = Append(c, b)
  <2> DEFINE X == Seq(D!Bytes)
  <2>1. c \in Seq(X) /\ b \in X BY <1>3, <1>4
  <2> HIDE DEF X, c, b
  <2> QED BY <2>1, AppendIsConcat
<1>9. D!Received(p) = <<b>> BY <1>2 DEF D!Received
<1>10. HeaderAt(Following(ps, k))
  <2> DEFINE e == D!Encoded(p)
             u == e \o f
  <2>1. e \in Seq(D!Bytes) /\ Len(e) >= 5 BY <1>1, <1>2, EncodedProperties
  <2>2. e[1] = "S" /\ e[2] = "V" /\ e[3] = "l" BY <1>1, <1>2, EncodedProperties
  <2> HIDE DEF e, f
  <2>3. Len(u) = Len(e) + Len(f) /\ \A i \in 1..Len(e) : u[i] = e[i] BY <2>1, <1>4, ConcatElements
  <2>4. Len(e) \in Nat /\ Len(f) \in Nat BY <2>1, <1>4, LenProperties
  <2>5. Len(u) >= 3 /\ \A i \in 1..3 : i \in 1..Len(e) BY <2>1, <2>3, <2>4
  <2>6. u[1] = e[1] /\ u[2] = e[2] /\ u[3] = e[3]
    <3>1. \A i \in 1..3 : u[i] = e[i] BY <2>3, <2>5
    <3>2. 1 \in 1..3 /\ 2 \in 1..3 /\ 3 \in 1..3 OBVIOUS
    <3> HIDE DEF u
    <3> QED BY ONLY <3>1, <3>2
  <2>7. HeaderAt(u) BY <2>2, <2>5, <2>6 DEF HeaderAt
  <2> QED BY <2>7, <1>1 DEF e, f
<1> QED BY <1>1, <1>3, <1>4, <1>5, <1>6, <1>7, <1>8, <1>9, <1>10 DEF p, j

\* Between two messages one byte may be dropped, unless it begins a header.
LEMMA SkipOne ==
  ASSUME NEW ps \in Seq(Parts), NEW r, NEW o, Between(ps, r, o)
  PROVE  /\ r \in Seq(D!Bytes)
         /\ r # <<>> /\ ~HeaderAt(r) => Between(ps, Tail(r), o)
         /\ HeaderAt(r) => \E k \in Nat : AtMessage(ps, k, o) /\ r = Following(ps, k)
<1>1. PICK k \in 0..Len(ps) : o = Collected(ps, k) /\ (r = Following(ps, k) \/ \E i \in Nat : InJunk(ps, k, i, r))
  BY DEF Between
<1>2. Len(ps) \in Nat BY LenProperties
<1>3. CASE \E i \in Nat : InJunk(ps, k, i, r)
  <2>1. PICK i \in Nat : InJunk(ps, k, i, r) BY <1>3
  <2>2. k \in 0..Len(ps) - 1 BY <2>1 DEF InJunk
  <2> QED BY <1>1, <2>1, <2>2, JunkDrops
<1>4. CASE r = Following(ps, k) /\ k = Len(ps)
  <2>1. r = <<>> BY <1>4, FollowingEnds
  <2>2. ~HeaderAt(r)
    <3>1. Len(<<>>) = 0 BY EmptySeq
    <3> QED BY <2>1, <3>1 DEF HeaderAt
  <2> QED BY <2>1, <2>2, EmptySeq
<1>5. CASE r = Following(ps, k) /\ k # Len(ps)
  <2>1. k \in 0..Len(ps) - 1 BY <1>2, <1>5
  <2>2. ps[k + 1].message \in BOOLEAN
    <3>1. ps[k + 1] \in Parts BY <2>1, FollowingStep
    <3> QED BY <3>1, PartTypes
  <2>3. CASE ps[k + 1].message
    <3>1. HeaderAt(r) BY <1>5, <2>1, <2>3, MessageStep
    <3>2. r \in Seq(D!Bytes) BY <1>5, FollowingTypes
    <3>3. AtMessage(ps, k, o) BY <1>1, <2>1, <2>3 DEF AtMessage
    <3> QED BY <1>5, <3>1, <3>2, <3>3
  <2>4. CASE ~ps[k + 1].message
    <3>1. InJunk(ps, k, 1, r) BY <1>5, <2>1, <2>4, JunkBegins
    <3> QED BY <1>1, <2>1, <3>1, JunkDrops
  <2> QED BY <2>2, <2>3, <2>4
<1> QED BY <1>1, <1>3, <1>4, <1>5

\* And so may several, as long as none of them is the sync byte.
LEMMA Skip ==
  ASSUME NEW ps \in Seq(Parts), NEW r, NEW o, Between(ps, r, o),
         NEW n \in 0..Len(r), \A i \in 1..n : r[i] # "S"
  PROVE  Between(ps, D!From(r, n + 1), o)
<1> DEFINE T == {m \in Nat : m <= n => Between(ps, D!From(r, m + 1), o)}
<1>1. r \in Seq(D!Bytes) BY SkipOne
<1>2. Len(r) \in Nat BY <1>1, LenProperties
<1>3. 0 \in T
  <2>1. D!From(r, 1) = r BY <1>1, EmptySeq, FromWhole
  <2>2. 0 + 1 = 1 OBVIOUS
  <2> QED BY <2>1, <2>2
<1>4. ASSUME NEW m \in Nat, m \in T PROVE m + 1 \in T
  <2> SUFFICES ASSUME m + 1 <= n PROVE Between(ps, D!From(r, (m + 1) + 1), o) OBVIOUS
  <2> DEFINE t == D!From(r, m + 1)
  <2>1. Between(ps, t, o) BY <1>2, <1>4
  <2>2. m \in 0..Len(r) - 1 /\ m + 1 \in 1..n /\ (m + 1) + 1 = m + 2 BY <1>2
  <2>3. t # <<>> /\ Tail(t) = D!From(r, m + 2) /\ t[1] = r[m + 1] BY <1>1, <2>2, FromTail
  <2>4. t[1] # "S" BY <2>2, <2>3
  <2> HIDE DEF t
  <2>5. Between(ps, Tail(t), o) BY <2>1, <2>3, <2>4, SkipOne DEF HeaderAt
  <2> QED BY <2>2, <2>3, <2>5
<1>5. \A m \in Nat : m \in T
  <2> HIDE DEF T
  <2> QED BY <1>3, <1>4, SetInduction
<1>6. n \in T /\ n \in Nat BY <1>2, <1>5
<1> QED BY <1>6, <1>2

\* Where no header can follow, everything was received.
LEMMA NothingFollows ==
  ASSUME NEW ps \in Seq(Parts), NEW r, NEW o, Between(ps, r, o),
         Len(r) < 5 \/ \A i \in 1..Len(r) : r[i] # "S"
  PROVE  o = D!Bodies(ps)
<1>1. PICK k \in 0..Len(ps) : o = Collected(ps, k) /\ (r = Following(ps, k) \/ \E i \in Nat : InJunk(ps, k, i, r))
  BY DEF Between
<1>2. CASE r = Following(ps, k)
  <2>1. r \in Seq(D!Bytes) BY SkipOne
  <2>2. Len(r) \in Nat BY <2>1, LenProperties
  <2> QED BY <1>1, <1>2, <2>2, EndOrMark
<1>3. CASE \E i \in Nat : InJunk(ps, k, i, r)
  <2>1. PICK i \in Nat : InJunk(ps, k, i, r) BY <1>3
  <2> DEFINE j == k + 1
             f == Following(ps, j)
             v == D!From(ps[k + 1].bytes, i)
             u == v \o f
  <2>2. k \in 0..Len(ps) - 1 /\ ~ps[k + 1].message /\ i \in 1..Len(ps[k + 1].bytes) /\ r = u
    BY <2>1 DEF InJunk
  <2>3. f \in Seq(D!Bytes) /\ Collected(ps, j) = Collected(ps, k) /\ ps[k + 1].bytes \in Seq(D!Bytes)
    BY <2>2, JunkStep
  <2>4. v \in Seq(D!Bytes)
    <3> DEFINE b == ps[k + 1].bytes
               m == i - 1
    <3>1. Len(b) \in Nat BY <2>3, LenProperties
    <3>2. b \in Seq(D!Bytes) /\ m \in 0..Len(b) /\ m + 1 = i BY <2>2, <2>3, <3>1
    <3> HIDE DEF b, m
    <3>3. D!From(b, m + 1) \in Seq(D!Bytes) BY <3>2, FromProperties
    <3> QED BY <3>2, <3>3 DEF b
  <2>5. j \in 0..Len(ps)
    <3>1. Len(ps) \in Nat BY LenProperties
    <3> QED BY <2>2, <3>1
  <2> HIDE DEF v, f, j
  <2>6. Len(u) = Len(v) + Len(f) /\ \A x \in 1..Len(f) : u[Len(v) + x] = f[x] BY <2>3, <2>4, ConcatElements
  <2>7. Len(v) \in Nat /\ Len(f) \in Nat BY <2>3, <2>4, LenProperties
  <2>8. Len(f) < 5 \/ \A x \in 1..Len(f) : f[x] # "S"
    <3>1. CASE Len(r) < 5 BY <3>1, <2>2, <2>6, <2>7
    <3>2. CASE \A x \in 1..Len(r) : r[x] # "S"
      <4> SUFFICES ASSUME NEW x \in 1..Len(f) PROVE f[x] # "S" OBVIOUS
      <4>1. Len(v) + x \in 1..Len(u) BY <2>6, <2>7
      <4> HIDE DEF u
      <4>2. u[Len(v) + x] # "S" BY <3>2, <2>2, <4>1
      <4> QED BY <2>6, <4>2
    <3> QED BY <3>1, <3>2
  <2>9. \/ Collected(ps, j) = D!Bodies(ps)
        \/ Len(f) >= 5 /\ \E x \in 1..Len(f) : f[x] = "S"
    BY <2>5, EndOrMark DEF f
  <2> QED BY <1>1, <2>3, <2>7, <2>8, <2>9
<1> QED BY <1>1, <1>2, <1>3

------------------------------------------------------------------------------
\* What a find returns, if there is what it looks for: its first place.
LEMMA FindFirst ==
  ASSUME NEW X, NEW s \in Seq(X), NEW b, D!Contains(s, b)
  PROVE  /\ D!Find(s, b) \in 1..Len(s) /\ s[D!Find(s, b)] = b
         /\ \A i \in 1..D!Find(s, b) - 1 : s[i] # b
<1> DEFINE I == {i \in 1..Len(s) : s[i] = b}
<1>1. Len(s) \in Nat BY LenProperties
<1>2. I # {} BY <1>1 DEF D!Contains
<1>3. I \in SUBSET Nat BY <1>1
<1>4. \E n \in I : \A m \in I : n <= m
  <2> HIDE DEF I
  <2> QED BY <1>2, <1>3, NatLeast
<1>5. D!Find(s, b) = CHOOSE n \in I : \A m \in I : n <= m BY <1>2 DEF D!Find, D!SelectInSeq, D!Min
<1> DEFINE j == CHOOSE n \in I : \A m \in I : n <= m
<1>6. j \in I /\ \A m \in I : j <= m
  <2> HIDE DEF I
  <2> QED BY <1>4
<1>7. j \in 1..Len(s) /\ s[j] = b BY <1>6
<1>8. ASSUME NEW i \in 1..j - 1 PROVE s[i] # b
  <2> HIDE DEF j
  <2>1. i \in 1..Len(s) /\ ~(j <= i) BY <1>1, <1>7
  <2> QED BY <2>1, <1>6
<1> QED BY <1>5, <1>7, <1>8

LEMMA FindNone ==
  ASSUME NEW X, NEW s \in Seq(X), NEW b, ~D!Contains(s, b)
  PROVE  \A i \in 1..Len(s) : s[i] # b
BY DEF D!Contains

\* What is held comes first in what is to be received.
LEMMA HeldFirst ==
  ASSUME NEW X, NEW b \in Seq(X), NEW s \in Seq(X), NEW r, r = b \o s
  PROVE  /\ r \in Seq(X) /\ Len(b) \in Nat /\ Len(s) \in Nat /\ Len(r) = Len(b) + Len(s)
         /\ \A i \in 1..Len(b) : r[i] = b[i]
         /\ s = <<>> => r = b
         /\ b = <<>> => r = s
<1>1. r \in Seq(X) /\ Len(r) = Len(b) + Len(s) /\ \A i \in 1..Len(b) : r[i] = b[i] BY ConcatElements
<1>2. Len(b) \in Nat /\ Len(s) \in Nat BY LenProperties
<1>3. b \o <<>> = b /\ <<>> \o s = s BY ConcatEmptySeq
<1> QED BY <1>1, <1>2, <1>3

\* The header of a message that is being read: its length field is found, and says what
\* its body is.
LengthRead(data, f, b, s) ==
  /\ ~D!Contains(b, ";") => Len(b) < Len(D!Header(data)) /\ s # <<>>
  /\ D!Contains(b, ";") =>
       LET j == D!Find(b, ";")
           text == SubSeq(b, D!PrefixLen + 1, j - 1)
       IN  /\ D!IsNumber(text) /\ D!Number(text) = Len(data)
           /\ j \in 0..Len(b) /\ D!From(b, j + 1) \o s = data \o f

LEMMA LengthField ==
  ASSUME NEW data \in Seq(D!Bytes), NEW f \in Seq(D!Bytes),
         NEW b \in Seq(D!Bytes), NEW s \in Seq(D!Bytes), b \o s = D!Header(data) \o (data \o f)
  PROVE  LengthRead(data, f, b, s)
<1> DEFINE h == D!Header(data)
           n == D!Numeral[Len(data)]
           t == data \o f
           r == b \o s
           l == Len(h)
<1>1. /\ h \in Seq(D!Bytes) /\ n \in Seq(DigitSet) /\ n # <<>> /\ D!Number(n) = Len(data)
      /\ Len(n) \in Nat /\ Len(n) >= 1 /\ l = Len(n) + 4
  BY HeaderProperties
<1>2. h[1] = "S" /\ h[2] = "V" /\ h[3] = "l" /\ h[l] = ";" BY HeaderProperties
<1>3. \A i \in 1..Len(n) : h[i + 3] = n[i] BY HeaderProperties
<1>r. r = h \o t OBVIOUS
<1> HIDE DEF h, n
<1>4. t \in Seq(D!Bytes) BY ConcatProperties
<1> HIDE DEF t
<1>5. /\ Len(b) \in Nat /\ Len(s) \in Nat /\ Len(r) = Len(b) + Len(s)
      /\ \A i \in 1..Len(b) : r[i] = b[i]
      /\ s = <<>> => r = b
  <2> DEFINE X == D!Bytes
  <2>1. b \in Seq(X) /\ s \in Seq(X) /\ r = b \o s BY DEF r
  <2> HIDE DEF r, X
  <2> QED BY ONLY <2>1, HeldFirst
<1>6. /\ Len(t) \in Nat /\ Len(r) = l + Len(t) /\ \A i \in 1..l : r[i] = h[i]
  <2> DEFINE X == D!Bytes
  <2>1. h \in Seq(X) /\ t \in Seq(X) BY <1>1, <1>4
  <2>2. Len(h) = l OBVIOUS
  <2> HIDE DEF r, X
  <2>3. /\ Len(t) \in Nat /\ Len(r) = Len(h) + Len(t)
        /\ \A i \in 1..Len(h) : r[i] = h[i]
    BY ONLY <1>r, <2>1, HeldFirst
  <2> QED BY <2>3
<1> HIDE DEF l, r
<1>7. ASSUME NEW i \in 1..l, h[i] = ";" PROVE i = l
  <2>1. CASE i <= 3
    <3>1. i \in {1, 2, 3} BY <2>1, <1>1
    <3>2. h[1] # ";" /\ h[2] # ";" /\ h[3] # ";" BY <1>2
    <3> QED BY <3>1, <3>2, <1>7
  <2>2. CASE i > 3 /\ i # l
    <3>1. i - 3 \in 1..Len(n) /\ (i - 3) + 3 = i BY <2>2, <1>1
    <3>2. h[(i - 3) + 3] = n[i - 3] BY <3>1, <1>3
    <3>3. n[i - 3] \in DigitSet BY <3>1, <1>1, ElementOfSeq
    <3>4. n[i - 3] # ";" BY <3>3, DigitBasics
    <3> QED BY <3>1, <3>2, <3>4, <1>7
  <2> QED BY <2>1, <2>2, <1>1
<1>8. CASE ~D!Contains(b, ";")
  <2>1. \A i \in 1..Len(b) : b[i] # ";" BY <1>8, FindNone
  <2>2. Len(b) < l
    <3> SUFFICES ASSUME ~(Len(b) < l) PROVE FALSE OBVIOUS
    <3>1. l \in 1..Len(b) /\ l \in 1..l BY <1>1, <1>5
    <3>2. b[l] = h[l] BY <3>1, <1>5, <1>6
    <3> QED BY <3>1, <3>2, <2>1, <1>2
  <2>3. s # <<>>
    <3>1. s = <<>> => Len(b) = l + Len(t) BY <1>5, <1>6
    <3> QED BY <3>1, <2>2, <1>1, <1>5, <1>6
  <2> QED BY <1>8, <2>2, <2>3 DEF LengthRead, h, l
<1>9. CASE D!Contains(b, ";")
  <2> DEFINE j == D!Find(b, ";")
             text == SubSeq(b, D!PrefixLen + 1, j - 1)
  <2>1. j \in 1..Len(b) BY <1>9, FindFirst
  <2>s. b[j] = ";" /\ \A i \in 1..j - 1 : b[i] # ";" BY <1>9, FindFirst
  <2> HIDE DEF j
  <2>2. j = l
    <3>1. CASE j <= l
      <4>1. j \in 1..l BY <3>1, <2>1, <1>1
      <4>2. h[j] = b[j] BY <4>1, <2>1, <1>5, <1>6
      <4>3. h[j] = ";" BY <4>2, <2>s
      <4> QED BY <4>1, <4>3, <1>7
    <3>2. CASE l < j
      <4>1. l \in 1..j - 1 /\ l \in 1..Len(b) /\ l \in 1..l BY <3>2, <2>1, <1>1, <1>5
      <4>2. b[l] = h[l] BY <4>1, <1>5, <1>6
      <4> QED BY <4>1, <4>2, <2>s, <1>2
    <3> QED BY <3>1, <3>2, <2>1, <1>1, <1>5
  <2>3. text = n
    <3> DEFINE m == 4
               e == j - 1
               x == SubSeq(b, m, e)
    <3>1. m \in Int /\ e \in Int /\ m <= e /\ e - m + 1 = Len(n) BY <2>2, <1>1
    <3>2. \A i \in m..e : b[i] \in D!Bytes
      <4>1. \A i \in m..e : i \in 1..Len(b) BY <2>1, <1>5
      <4> QED BY <4>1, ElementOfSeq
    <3>3. /\ x \in Seq(D!Bytes) /\ Len(x) = IF m <= e THEN e - m + 1 ELSE 0
          /\ \A i \in 1..e - m + 1 : x[i] = b[m + i - 1]
      <4> HIDE DEF m, e
      <4> QED BY <3>1, <3>2, SubSeqProperties
    <3>4. Len(x) = Len(n)
      <4> HIDE DEF x
      <4> QED BY <3>1, <3>3
    <3>5. ASSUME NEW i \in 1..Len(n) PROVE x[i] = n[i]
      <4>1. i \in 1..e - m + 1 BY <3>1, <1>1
      <4>2. x[i] = b[m + i - 1]
        <5> HIDE DEF x, m, e
        <5> QED BY <4>1, <3>3
      <4>3. m + i - 1 = i + 3 /\ i + 3 \in 1..Len(b) /\ i + 3 \in 1..l BY <2>1, <2>2, <1>1, <1>5
      <4>4. b[i + 3] = h[i + 3] BY <4>3, <1>5, <1>6
      <4> HIDE DEF x, m
      <4> QED BY <4>2, <4>3, <4>4, <1>3
    <3>6. n \in Seq(D!Bytes) BY <1>1, DigitsAreBytes, SeqMonotonic
    <3>7. x = n
      <4> HIDE DEF x
      <4> QED BY <3>3, <3>4, <3>5, <3>6, SeqEqual
    <3>8. D!PrefixLen + 1 = m BY DEF D!PrefixLen
    <3> QED BY <3>7, <3>8
  <2>4. D!IsNumber(n)
    <3>1. D!ToSet(n) \subseteq DigitSet
      <4>1. DOMAIN n = 1..Len(n) BY <1>1, LenProperties
      <4>2. \A i \in 1..Len(n) : n[i] \in DigitSet BY <1>1, ElementOfSeq
      <4> QED BY <4>1, <4>2 DEF D!ToSet
    <3>2. D!ToSet(D!Digits) = DigitSet BY DEF DigitSet, D!ToSet, ToSet
    <3> QED BY <3>1, <3>2, <1>1 DEF D!IsNumber
  <2>5. j \in 0..Len(b) BY <2>1, <1>5
  <2>6. D!From(b, j + 1) \o s = t
    <3>1. D!From(r, j + 1) = D!From(b, j + 1) \o s BY <2>5, FromConcat DEF r
    <3>2. D!From(h \o t, l + 1) = t BY <1>1, <1>4, FromWhole DEF l
    <3> QED BY <3>1, <3>2, <2>2, <1>r
  <2> HIDE DEF text
  <2>7. D!IsNumber(text) /\ D!Number(text) = Len(data) BY <2>3, <2>4, <1>1
  <2> QED BY <1>9, <2>5, <2>6, <2>7 DEF LengthRead, text, j, t
<1> QED BY <1>8, <1>9

\* The body of a message that is being read.
BodyRead(data, f, b, s) ==
  /\ Len(b) < Len(data) => s # <<>>
  /\ ~(Len(b) < Len(data)) =>
       /\ SubSeq(b, 1, Len(data)) = data /\ Len(data) \in 0..Len(b)
       /\ D!From(b, Len(data) + 1) \o s = f

LEMMA BodyField ==
  ASSUME NEW data \in Seq(D!Bytes), NEW f \in Seq(D!Bytes),
         NEW b \in Seq(D!Bytes), NEW s \in Seq(D!Bytes), b \o s = data \o f
  PROVE  BodyRead(data, f, b, s)
<1> DEFINE r == b \o s
           n == Len(data)
<1>r. r = data \o f OBVIOUS
<1>1. /\ Len(b) \in Nat /\ Len(s) \in Nat /\ Len(r) = Len(b) + Len(s)
      /\ \A i \in 1..Len(b) : r[i] = b[i]
      /\ s = <<>> => r = b
  <2> DEFINE X == D!Bytes
  <2>1. b \in Seq(X) /\ s \in Seq(X) /\ r = b \o s OBVIOUS
  <2> HIDE DEF r, X
  <2> QED BY ONLY <2>1, HeldFirst
<1>2. n \in Nat /\ Len(f) \in Nat /\ Len(r) = n + Len(f) /\ \A i \in 1..n : r[i] = data[i]
  <2> DEFINE X == D!Bytes
  <2>1. data \in Seq(X) /\ f \in Seq(X) OBVIOUS
  <2> HIDE DEF r, X
  <2> QED BY ONLY <1>r, <2>1, HeldFirst
<1> HIDE DEF r, n
<1>3. ASSUME Len(b) < n PROVE s # <<>>
  <2>1. s = <<>> => Len(b) = n + Len(f) BY <1>1, <1>2
  <2> QED BY <2>1, <1>1, <1>2, <1>3
<1>4. ASSUME ~(Len(b) < n)
      PROVE  SubSeq(b, 1, n) = data /\ n \in 0..Len(b) /\ D!From(b, n + 1) \o s = f
  <2>1. n \in 0..Len(b) BY <1>1, <1>2, <1>4
  <2>2. D!From(b, n + 1) \o s = f
    <3>1. D!From(r, n + 1) = D!From(b, n + 1) \o s BY <2>1, FromConcat DEF r
    <3>2. D!From(data \o f, n + 1) = f BY FromWhole DEF n
    <3> QED BY <3>1, <3>2, <1>r
  <2>3. SubSeq(b, 1, n) = data
    <3> DEFINE x == SubSeq(b, 1, n)
               m == 1
    <3>1. \A i \in m..n : b[i] \in D!Bytes
      <4>1. \A i \in m..n : i \in 1..Len(b) BY <1>1, <2>1
      <4> QED BY <4>1, ElementOfSeq
    <3>2. m \in Int /\ n \in Int BY <1>2
    <3>3. /\ SubSeq(b, m, n) \in Seq(D!Bytes) /\ Len(SubSeq(b, m, n)) = IF m <= n THEN n - m + 1 ELSE 0
          /\ \A i \in 1..n - m + 1 : SubSeq(b, m, n)[i] = b[m + i - 1]
      <4> HIDE DEF m
      <4> QED BY <3>1, <3>2, SubSeqProperties
    <3>4. x \in Seq(D!Bytes) /\ Len(x) = n
      <4> HIDE DEF x
      <4> QED BY <1>2, <3>3 DEF x
    <3>5. ASSUME NEW i \in 1..n PROVE x[i] = data[i]
      <4>1. i \in 1..n - m + 1 /\ m + i - 1 = i /\ i \in 1..Len(b) BY <1>1, <1>2, <2>1
      <4>2. x[i] = b[m + i - 1]
        <5> HIDE DEF x
        <5> QED BY <4>1, <3>3 DEF x
      <4> HIDE DEF x, m
      <4> QED BY <4>1, <4>2, <1>1, <1>2
    <3> HIDE DEF x
    <3>6. x = data BY <3>4, <3>5, SeqEqual DEF n
    <3> QED BY <3>6 DEF x
  <2> QED BY <2>1, <2>2, <2>3
<1> QED BY <1>3, <1>4 DEF BodyRead, n

------------------------------------------------------------------------------
(***************************************************************************)
(* The decoder: its types                                                  *)
(***************************************************************************)
LEMMA DecoderInit == MCInit => D!TypeOK /\ source = D!Stream(parts) /\ buf = <<>> /\ out = <<>> /\ pc = "idle"
<1> SUFFICES ASSUME MCInit
             PROVE  D!TypeOK /\ source = D!Stream(parts) /\ buf = <<>> /\ out = <<>> /\ pc = "idle"
  OBVIOUS
<1>1. /\ parts \in D!BoundedSeq(Parts, MaxParts) /\ source = D!Stream(parts)
      /\ buf = <<>> /\ pc = "idle" /\ need = 0 /\ out = <<>> /\ overrun \in BOOLEAN
  BY DEF MCInit, D!Init
<1>2. parts \in Seq(Parts)
  <2>1. parts \in UNION {[1..n -> Parts] : n \in 0..MaxParts} BY <1>1 DEF D!BoundedSeq, D!SeqOf
  <2> QED BY <2>1
<1>3. source \in Seq(D!Bytes) BY <1>1, <1>2, WireTypes
<1> QED BY <1>1, <1>2, <1>3, EmptySeq DEF D!TypeOK

\* What a read of the source does: a chunk goes from the source to the buffer, or the
\* source has come to its end.
LEMMA ReadMoreMoves ==
  ASSUME NEW held \in Seq(D!Bytes), NEW next, D!ReadMore(held, next), source \in Seq(D!Bytes)
  PROVE  /\ UNCHANGED <<parts, need, out>> /\ buf' \in Seq(D!Bytes) /\ source' \in Seq(D!Bytes)
         /\ buf' \o source' = held \o source
         /\ pc' \in {next, "ended"}
         /\ Len(buf') <= Len(held) + ChunkMax
         /\ \/ source # <<>> /\ pc' = next
            \/ source = <<>> /\ pc' = "ended" /\ buf' = held
<1>0. Len(source) \in Nat /\ Len(held) \in Nat /\ ChunkMax \in Nat \ {0}
  BY LenProperties, MessageDecoderAssumption DEF D!MessageDecoderAssumption
<1>1. CASE /\ source # <<>>
           /\ \E n \in 1..(IF Len(source) < ChunkMax THEN Len(source) ELSE ChunkMax) :
                /\ buf' = held \o SubSeq(source, 1, n)
                /\ source' = D!From(source, n + 1)
           /\ pc' = next
           /\ UNCHANGED <<parts, need, out>>
  <2>1. PICK n \in 1..(IF Len(source) < ChunkMax THEN Len(source) ELSE ChunkMax) :
               buf' = held \o SubSeq(source, 1, n) /\ source' = D!From(source, n + 1)
    BY <1>1
  <2>2. n \in Nat /\ n <= ChunkMax /\ n <= Len(source) /\ n >= 1 BY <2>1, <1>0
  <2> DEFINE a == SubSeq(source, 1, n)
             z == D!From(source, n + 1)
  <2>3. z \in Seq(D!Bytes)
    <3>1. n \in 0..Len(source) BY <2>2, <1>0
    <3> QED BY <3>1, FromProperties
  <2>4. a \in Seq(D!Bytes) /\ Len(a) = n
    <3> DEFINE m == 1
    <3>1. \A i \in m..n : source[i] \in D!Bytes
      <4>1. \A i \in m..n : i \in 1..Len(source) BY <2>2, <1>0
      <4> QED BY <4>1, ElementOfSeq
    <3>2. m \in Int /\ n \in Int /\ m <= n /\ n - m + 1 = n BY <2>2
    <3>3. SubSeq(source, m, n) \in Seq(D!Bytes) /\ Len(SubSeq(source, m, n)) = IF m <= n THEN n - m + 1 ELSE 0
      <4> HIDE DEF m
      <4> QED BY <3>1, <3>2, SubSeqProperties
    <3> DEFINE x == SubSeq(source, m, n)
    <3>4. x \in Seq(D!Bytes) /\ Len(x) = n
      <4> HIDE DEF m, x
      <4> QED BY <3>2, <3>3 DEF x
    <3> QED BY <3>4
  <2>5. a \o z = source
    <3> DEFINE l == Len(source)
               m == 1
    <3>1. m \in 1..Len(source) + 1 /\ n \in m - 1..Len(source) /\ l \in n..Len(source) BY <2>2, <1>0
    <3>2. SubSeq(source, m, n) \o SubSeq(source, n + 1, l) = SubSeq(source, m, l)
      <4> HIDE DEF l, m
      <4> QED BY <3>1, ConcatAdjacentSubSeq
    <3>3. SubSeq(source, 1, Len(source)) = source BY SubSeqFull
    <3> QED BY <3>2, <3>3 DEF D!From
  <2> HIDE DEF a, z
  <2>6. (held \o a) \o z = held \o (a \o z) BY <2>3, <2>4, ConcatAssociative
  <2>7. held \o a \in Seq(D!Bytes) /\ Len(held \o a) = Len(held) + Len(a) BY <2>4, ConcatProperties
  <2>8. buf' = held \o a /\ source' = z BY <2>1 DEF a, z
  <2>9. Len(buf') <= Len(held) + ChunkMax
    <3>1. Len(buf') = Len(held) + n BY <2>4, <2>7, <2>8
    <3> QED BY <3>1, <2>2, <1>0
  <2> QED BY <1>1, <2>3, <2>5, <2>6, <2>7, <2>8, <2>9
<1>2. CASE source = <<>> /\ buf' = held /\ pc' = "ended" /\ UNCHANGED <<parts, source, need, out>>
  <2>1. Len(buf') <= Len(held) + ChunkMax
    <3>1. Len(buf') = Len(held) BY <1>2
    <3> QED BY <3>1, <1>0
  <2> QED BY <1>2, <2>1
<1> QED BY <1>1, <1>2 DEF D!ReadMore

LEMMA TextIsDigits ==
  ASSUME NEW text \in Seq(D!Bytes), D!IsNumber(text)
  PROVE  text \in Seq(DigitSet)
<1>1. Len(text) \in Nat /\ DOMAIN text = 1..Len(text) /\ text \in [1..Len(text) -> D!Bytes] BY LenProperties
<1>2. D!ToSet(D!Digits) = DigitSet BY DEF DigitSet, D!ToSet, ToSet
<1>3. \A i \in 1..Len(text) : text[i] \in DigitSet BY <1>1, <1>2 DEF D!IsNumber, D!ToSet
<1>4. text = [i \in 1..Len(text) |-> text[i]] BY <1>1
<1> QED BY <1>1, <1>3, <1>4

\* What follows a place within a buffer is a sequence of bytes, and not longer.
LEMMA FromIsShorter ==
  ASSUME NEW b \in Seq(D!Bytes), NEW n \in 0..Len(b)
  PROVE  D!From(b, n + 1) \in Seq(D!Bytes) /\ Len(D!From(b, n + 1)) <= Len(b) /\ Len(D!From(b, n + 1)) = Len(b) - n
<1>1. D!From(b, n + 1) \in Seq(D!Bytes) /\ Len(D!From(b, n + 1)) = Len(b) - n BY FromProperties
<1>2. Len(b) \in Nat BY LenProperties
<1> QED BY <1>1, <1>2

LEMMA FindPlace ==
  ASSUME NEW b \in Seq(D!Bytes), NEW x, D!Contains(b, x)
  PROVE  D!Find(b, x) \in 1..Len(b) /\ D!Find(b, x) - 1 \in 0..Len(b) /\ D!Find(b, x) \in 0..Len(b)
         /\ (D!Find(b, x) - 1) + 1 = D!Find(b, x)
<1> DEFINE j == D!Find(b, x)
<1>1. j \in 1..Len(b) BY FindFirst
<1>2. Len(b) \in Nat BY LenProperties
<1> HIDE DEF j
<1>3. j \in 1..Len(b) /\ j - 1 \in 0..Len(b) /\ j \in 0..Len(b) /\ (j - 1) + 1 = j BY <1>1, <1>2
<1> QED BY <1>3 DEF j

DecoderPlaces == {"idle", "synchronize", "prefix", "search", "searching", "body", "ended", "crashed"}

LEMMA DecoderTypes == D!TypeOK /\ [D!Next]_dvars => D!TypeOK'
<1> SUFFICES ASSUME D!TypeOK, [D!Next]_dvars PROVE D!TypeOK' OBVIOUS
<1> DEFINE Quiet == UNCHANGED <<parts, source, buf, need, out>> /\ pc' \in DecoderPlaces
<1>0. /\ parts \in Seq(Parts) /\ source \in Seq(D!Bytes) /\ buf \in Seq(D!Bytes) /\ need \in Nat
      /\ out \in Seq(Seq(D!Bytes)) /\ pc \in DecoderPlaces /\ overrun \in BOOLEAN
  BY DEF D!TypeOK, DecoderPlaces
<1>o. overrun' \in BOOLEAN
  <2>1. CASE D!ReadLength BY <2>1 DEF D!ReadLength
  <2>2. CASE D!Decode \/ D!Synchronize \/ D!ReadPrefix \/ D!ReadBody
    <3>1. UNCHANGED overrun BY <2>2 DEF D!Decode, D!Synchronize, D!ReadPrefix, D!ReadBody
    <3> QED BY <1>0, <3>1
  <2>3. CASE UNCHANGED dvars BY <1>0, <2>3 DEF dvars
  <2> QED BY <2>1, <2>2, <2>3 DEF D!Next
<1>q. ASSUME Quiet PROVE D!TypeOK'
  BY <1>q, <1>0, <1>o DEF D!TypeOK, DecoderPlaces
<1>r. ASSUME NEW held \in Seq(D!Bytes), NEW next \in DecoderPlaces, D!ReadMore(held, next) PROVE D!TypeOK'
  <2>1. /\ UNCHANGED <<parts, need, out>> /\ buf' \in Seq(D!Bytes) /\ source' \in Seq(D!Bytes)
        /\ pc' \in {next, "ended"}
    BY <1>0, <1>r, ReadMoreMoves
  <2> QED BY <2>1, <1>0, <1>o, <1>r DEF D!TypeOK, DecoderPlaces
<1>b. ASSUME buf' \in Seq(D!Bytes), pc' \in DecoderPlaces, need' \in Nat, out' \in Seq(Seq(D!Bytes)), UNCHANGED <<parts, source>>
      PROVE  D!TypeOK'
  BY <1>b, <1>0, <1>o DEF D!TypeOK, DecoderPlaces
<1>e. <<>> \in Seq(D!Bytes) BY EmptySeq
<1>j. ASSUME D!Reject, buf # <<>> PROVE D!TypeOK'
  <2>1. Tail(buf) \in Seq(D!Bytes) BY <1>0, <1>j, HeadTailProperties
  <2> QED BY <1>0, <1>b, <1>j, <2>1 DEF D!Reject, DecoderPlaces
<1>1. CASE D!Decode BY <1>1, <1>q DEF D!Decode, DecoderPlaces
<1>2. CASE D!Synchronize
  <2>1. CASE D!Contains(buf, "S")
    <3>1. D!From(buf, D!Find(buf, "S")) \in Seq(D!Bytes)
      <4> DEFINE j == D!Find(buf, "S") - 1
      <4>1. j \in 0..Len(buf) /\ j + 1 = D!Find(buf, "S") BY <1>0, <2>1, FindPlace
      <4> HIDE DEF j
      <4>2. D!From(buf, j + 1) \in Seq(D!Bytes) BY <1>0, <4>1, FromIsShorter
      <4> QED BY <4>1, <4>2
    <3> QED BY <1>0, <1>2, <1>b, <2>1, <3>1 DEF D!Synchronize, DecoderPlaces
  <2>2. CASE ~D!Contains(buf, "S")
    <3>1. D!ReadMore(<<>>, "synchronize") BY <1>2, <2>2 DEF D!Synchronize
    <3> QED BY <1>e, <1>r, <3>1 DEF DecoderPlaces
  <2> QED BY <2>1, <2>2
<1>3. CASE D!ReadPrefix
  <2>1. CASE Len(buf) < D!PrefixLen
    <3>1. D!ReadMore(buf, "prefix") BY <1>3, <2>1 DEF D!ReadPrefix
    <3> QED BY <1>0, <1>r, <3>1 DEF DecoderPlaces
  <2>2. CASE ~(Len(buf) < D!PrefixLen) /\ SubSeq(buf, 1, D!PrefixLen) # <<"S", "V", "l">>
    <3>1. D!Reject BY <1>3, <2>2 DEF D!ReadPrefix
    <3>2. buf # <<>> BY <1>0, <2>2, EmptySeq DEF D!PrefixLen
    <3> QED BY <1>j, <3>1, <3>2
  <2>3. CASE ~(Len(buf) < D!PrefixLen) /\ ~(SubSeq(buf, 1, D!PrefixLen) # <<"S", "V", "l">>)
    BY <1>3, <1>q, <2>3 DEF D!ReadPrefix, DecoderPlaces
  <2> QED BY <2>1, <2>2, <2>3
<1>4. CASE D!ReadLength
  <2>1. CASE ~(Len(buf) >= Limit) /\ ~D!Contains(buf, ";")
    <3>1. D!ReadMore(buf, "searching") BY <1>4, <2>1 DEF D!ReadLength
    <3> QED BY <1>0, <1>r, <3>1 DEF DecoderPlaces
  <2>2. CASE Len(buf) >= Limit
    <3>1. D!Crash \/ D!Reject BY <1>4, <2>2 DEF D!ReadLength
    <3>2. CASE D!Crash BY <1>q, <3>2 DEF D!Crash, DecoderPlaces
    <3>3. CASE D!Reject /\ buf # <<>> BY <1>j, <3>3
    <3>4. CASE D!Reject /\ buf = <<>>
      <4>1. Tail(buf) = <<>> BY <3>4
      <4> QED BY <1>0, <1>b, <1>e, <3>4, <4>1 DEF D!Reject, DecoderPlaces
    <3> QED BY <3>1, <3>2, <3>3, <3>4
  <2>3. CASE ~(Len(buf) >= Limit) /\ D!Contains(buf, ";")
    <3> DEFINE j == D!Find(buf, ";")
               text == SubSeq(buf, D!PrefixLen + 1, j - 1)
    <3>1. CASE ~D!IsNumber(text)
      <4>1. D!Crash BY <1>4, <2>3, <3>1 DEF D!ReadLength
      <4> QED BY <1>q, <4>1 DEF D!Crash, DecoderPlaces
    <3>2. CASE D!IsNumber(text)
      <4>1. need' = D!Number(text) /\ buf' = D!From(buf, j + 1) /\ pc' = "body" /\ UNCHANGED <<parts, source, out>>
        BY <1>4, <2>3, <3>2 DEF D!ReadLength
      <4>2. j \in 1..Len(buf) /\ j \in 0..Len(buf) BY <1>0, <2>3, FindPlace
      <4>3. D!From(buf, j + 1) \in Seq(D!Bytes)
        <5> HIDE DEF j
        <5> QED BY <1>0, <4>2, FromIsShorter
      <4>4. text \in Seq(D!Bytes)
        <5> DEFINE m == D!PrefixLen + 1
                   e == j - 1
        <5> HIDE DEF j
        <5>0. Len(buf) \in Nat BY <1>0, LenProperties
        <5>1. m \in Int /\ e \in Int BY <4>2, <5>0 DEF D!PrefixLen
        <5>2. \A i \in m..e : buf[i] \in D!Bytes
          <6>1. \A i \in m..e : i \in 1..Len(buf) BY <4>2, <5>0 DEF D!PrefixLen
          <6> QED BY <1>0, <6>1, ElementOfSeq
        <5> HIDE DEF m, e
        <5>3. SubSeq(buf, m, e) \in Seq(D!Bytes) BY <5>1, <5>2, SubSeqProperties
        <5> QED BY <5>3 DEF m, e
      <4>5. D!Number(text) \in Nat
        <5> HIDE DEF text
        <5> QED BY <3>2, <4>4, TextIsDigits, NumberType
      <4> HIDE DEF text, j
      <4> QED BY <1>0, <1>b, <4>1, <4>3, <4>5 DEF DecoderPlaces
    <3> QED BY <3>1, <3>2
  <2> QED BY <2>1, <2>2, <2>3
<1>5. CASE D!ReadBody
  <2>1. CASE Len(buf) < need
    <3>1. D!ReadMore(buf, "body") BY <1>5, <2>1 DEF D!ReadBody
    <3> QED BY <1>0, <1>r, <3>1 DEF DecoderPlaces
  <2>2. CASE ~(Len(buf) < need)
    <3>0. Len(buf) \in Nat BY <1>0, LenProperties
    <3>1. need \in 0..Len(buf) BY <1>0, <2>2, <3>0
    <3>2. D!From(buf, need + 1) \in Seq(D!Bytes) BY <1>0, <3>1, FromIsShorter
    <3>3. SubSeq(buf, 1, need) \in Seq(D!Bytes)
      <4> DEFINE m == 1
      <4>1. \A i \in m..need : buf[i] \in D!Bytes
        <5>1. \A i \in m..need : i \in 1..Len(buf) BY <1>0, <3>0, <3>1
        <5> QED BY <1>0, <5>1, ElementOfSeq
      <4>2. m \in Int /\ need \in Int BY <1>0
      <4> HIDE DEF m
      <4>3. SubSeq(buf, m, need) \in Seq(D!Bytes) BY <4>1, <4>2, SubSeqProperties
      <4> QED BY <4>3 DEF m
    <3>4. Append(out, SubSeq(buf, 1, need)) \in Seq(Seq(D!Bytes))
      <4> DEFINE X == Seq(D!Bytes)
                 e == SubSeq(buf, 1, need)
      <4>1. out \in Seq(X) /\ e \in X BY <1>0, <3>3
      <4> HIDE DEF X, e
      <4>2. Append(out, e) \in Seq(X) BY <4>1, AppendProperties
      <4> QED BY <4>2 DEF X, e
    <3> QED BY <1>0, <1>5, <1>b, <2>2, <3>2, <3>4 DEF D!ReadBody, DecoderPlaces
  <2> QED BY <2>1, <2>2
<1>6. CASE UNCHANGED dvars BY <1>0, <1>6, <1>q DEF dvars
<1> QED BY <1>1, <1>2, <1>3, <1>4, <1>5, <1>6 DEF D!Next

------------------------------------------------------------------------------
(***************************************************************************)
(* The decoder: where it is in the stream                                  *)
(***************************************************************************)
\* What has not yet been consumed, and whether the decoder waits for a body.
Rest == buf \o source
InBody == pc = "body"

\* At the seam of two parts; at the header of a message; at the body of one.
AtSeam(ps, r, o) == \E k \in 0..Len(ps) : r = Following(ps, k) /\ o = Collected(ps, k)
AtHeader(ps, r, o) == \E k \in Nat : AtMessage(ps, k, o) /\ r = Following(ps, k)
AtBody(ps, r, o, n) ==
  \E k \in Nat : /\ AtMessage(ps, k, o) /\ n = Len(ps[k + 1].bytes)
                 /\ r = ps[k + 1].bytes \o Following(ps, k + 1)

\* Where the decoder is, as long as no search has been given up.
DecoderPlace ==
  /\ pc = "idle" => AtSeam(parts, Rest, out)
  /\ pc \in {"synchronize", "prefix"} => Between(parts, Rest, out)
  /\ pc \in {"search", "searching"} => AtHeader(parts, Rest, out)
  /\ pc = "body" => AtBody(parts, Rest, out, need)
  /\ pc = "ended" => out = D!Bodies(parts)
  /\ pc # "crashed"
\* With small chunks, Limit bytes are held only in front of the end of a body.
AnyMessage == \E p \in Parts : p.message
Room == AnyMessage => Len(buf) < Limit \/ (InBody /\ Len(buf) < need + ChunkMax)

\* The inductive invariant of the decoder.
DecoderInv ==
  /\ D!TypeOK
  /\ ~overrun => DecoderPlace
  /\ D!SmallChunks => Room /\ ~overrun

\* What holds before a step of a decoder that is in place, and what is added to it when
\* the chunks are small.
InPlace == D!TypeOK /\ DecoderPlace
Fitting == D!SmallChunks /\ Room

\* What small chunks mean: a chunk fits beside the longest header.
LEMMA Bounds ==
  ASSUME D!SmallChunks, AnyMessage
  PROVE  /\ Limit \in Nat /\ ChunkMax \in Nat \ {0} /\ 5 + ChunkMax <= Limit
         /\ \A p \in Parts : p.message => Len(D!Header(p.bytes)) \in Nat /\ Len(D!Header(p.bytes)) + ChunkMax <= Limit
<1>1. Limit \in Nat /\ ChunkMax \in Nat \ {0} BY MessageDecoderAssumption DEF D!MessageDecoderAssumption
<1>2. ASSUME NEW p \in Parts, p.message
      PROVE  Len(D!Header(p.bytes)) \in Nat /\ Len(D!Header(p.bytes)) >= 5 /\ Len(D!Header(p.bytes)) + ChunkMax <= Limit
  <2> DEFINE n == D!Numeral[Len(p.bytes)]
             h == D!Header(p.bytes)
  <2>1. p.bytes \in Seq(D!Bytes) BY PartTypes
  <2>2. Len(n) \in Nat /\ Len(n) >= 1 /\ Len(h) = Len(n) + 4 BY <2>1, HeaderProperties
  <2>3. Len(h) + ChunkMax <= Limit BY <1>2 DEF D!SmallChunks
  <2> HIDE DEF n, h
  <2>4. Len(h) \in Nat /\ Len(h) >= 5 BY <2>2
  <2> QED BY <2>3, <2>4 DEF h
<1>3. PICK p \in Parts : p.message BY DEF AnyMessage
<1> DEFINE l == Len(D!Header(p.bytes))
<1>4. l \in Nat /\ l >= 5 /\ l + ChunkMax <= Limit BY <1>2, <1>3
<1> HIDE DEF l
<1>5. 5 + ChunkMax <= Limit BY <1>1, <1>4
<1> QED BY <1>1, <1>2, <1>5

\* Held bytes that are a part of the rest.
LEMMA RestTypes ==
  ASSUME D!TypeOK
  PROVE  /\ parts \in Seq(Parts) /\ buf \in Seq(D!Bytes) /\ source \in Seq(D!Bytes) /\ Rest \in Seq(D!Bytes)
         /\ Len(buf) \in Nat /\ Len(source) \in Nat /\ Len(Rest) = Len(buf) + Len(source)
         /\ \A i \in 1..Len(buf) : Rest[i] = buf[i]
         /\ source = <<>> => Rest = buf
         /\ need \in Nat /\ out \in Seq(Seq(D!Bytes))
<1> DEFINE X == D!Bytes
<1>1. /\ parts \in Seq(Parts) /\ buf \in Seq(X) /\ source \in Seq(X) /\ need \in Nat
      /\ out \in Seq(Seq(X))
  BY DEF D!TypeOK
<1> HIDE DEF X
<1>2. /\ Rest \in Seq(X) /\ Len(buf) \in Nat /\ Len(source) \in Nat /\ Len(Rest) = Len(buf) + Len(source)
      /\ \A i \in 1..Len(buf) : Rest[i] = buf[i]
      /\ source = <<>> => Rest = buf
  BY <1>1, HeldFirst DEF Rest
<1> QED BY <1>1, <1>2 DEF X

LEMMA DecodeStep ==
  ASSUME InPlace, D!Decode
  PROVE  DecoderPlace' /\ (Fitting => Room')
<1>1. pc = "idle" /\ pc' = "synchronize" /\ UNCHANGED <<parts, source, buf, need, out>> BY DEF D!Decode
<1>2. Between(parts, Rest, out)
  <2>1. AtSeam(parts, Rest, out) BY <1>1 DEF InPlace, DecoderPlace
  <2> QED BY <2>1 DEF AtSeam, Between
<1>3. Rest' = Rest BY <1>1 DEF Rest
<1>4. DecoderPlace' BY <1>1, <1>2, <1>3 DEF DecoderPlace
<1>5. ASSUME Fitting PROVE Room'
  <2>1. ~InBody BY <1>1 DEF InBody
  <2>2. Room /\ Len(buf') = Len(buf) BY <1>1, <1>5 DEF Fitting
  <2> QED BY <2>1, <2>2 DEF Room, AnyMessage
<1> QED BY <1>4, <1>5

LEMMA SynchronizeStep ==
  ASSUME InPlace, D!Synchronize
  PROVE  DecoderPlace' /\ (Fitting => Room')
<1>1. pc = "synchronize" BY DEF D!Synchronize
<1>2. D!TypeOK /\ Between(parts, Rest, out) BY <1>1 DEF InPlace, DecoderPlace
<1>3. /\ parts \in Seq(Parts) /\ buf \in Seq(D!Bytes) /\ source \in Seq(D!Bytes) /\ Rest \in Seq(D!Bytes)
      /\ Len(buf) \in Nat /\ Len(source) \in Nat /\ Len(Rest) = Len(buf) + Len(source)
      /\ \A i \in 1..Len(buf) : Rest[i] = buf[i]
      /\ source = <<>> => Rest = buf
  BY <1>2, RestTypes
<1>4. Fitting /\ AnyMessage => Len(buf) < Limit
  <2>1. ~InBody BY <1>1 DEF InBody
  <2> QED BY <2>1 DEF Fitting, Room
<1>5. CASE D!Contains(buf, "S")
  <2> DEFINE j == D!Find(buf, "S")
             n == j - 1
  <2>1. buf' = D!From(buf, j) /\ pc' = "prefix" /\ UNCHANGED <<parts, source, need, out>>
    BY <1>5 DEF D!Synchronize
  <2>2. n \in 0..Len(buf) /\ n + 1 = j BY <1>3, <1>5, FindPlace
  <2>3. \A i \in 1..n : buf[i] # "S" BY <1>3, <1>5, FindFirst
  <2> HIDE DEF n, j
  <2>4. Rest' = D!From(Rest, n + 1)
    <3>1. D!From(buf \o source, n + 1) = D!From(buf, n + 1) \o source BY <1>3, <2>2, FromConcat
    <3> QED BY <2>1, <2>2, <3>1 DEF Rest
  <2>5. \A i \in 1..n : Rest[i] # "S"
    <3>1. \A i \in 1..n : i \in 1..Len(buf) BY <1>3, <2>2
    <3> QED BY <1>3, <2>3, <3>1
  <2>6. n \in 0..Len(Rest) BY <1>3, <2>2
  <2>7. Between(parts, D!From(Rest, n + 1), out)
    <3> DEFINE r == Rest
    <3>1. Between(parts, r, out) /\ n \in 0..Len(r) /\ \A i \in 1..n : r[i] # "S" BY <1>2, <2>5, <2>6
    <3> HIDE DEF r
    <3>2. Between(parts, D!From(r, n + 1), out) BY <1>3, <3>1, Skip
    <3> QED BY <3>2 DEF r
  <2>8. DecoderPlace' BY <2>1, <2>4, <2>7 DEF DecoderPlace
  <2>9. ASSUME Fitting PROVE Room'
    <3>1. Len(D!From(buf, n + 1)) <= Len(buf) /\ Len(D!From(buf, n + 1)) = Len(buf) - n
      BY <1>3, <2>2, FromIsShorter
    <3>2. Len(buf') = Len(buf) - n BY <2>1, <2>2, <3>1
    <3>3. AnyMessage => Len(buf') < Limit
      <4> SUFFICES ASSUME AnyMessage PROVE Len(buf') < Limit OBVIOUS
      <4>1. Limit \in Nat BY <2>9, Bounds DEF Fitting
      <4> QED BY <1>3, <1>4, <2>9, <2>2, <3>2, <4>1
    <3> QED BY <3>3 DEF Room, AnyMessage
  <2> QED BY <2>8, <2>9
<1>6. CASE ~D!Contains(buf, "S")
  <2>1. D!ReadMore(<<>>, "synchronize") BY <1>6 DEF D!Synchronize
  <2>2. <<>> \in Seq(D!Bytes) /\ Len(<<>>) = 0 BY EmptySeq
  <2>3. /\ UNCHANGED <<parts, need, out>> /\ Rest' = <<>> \o source /\ buf' \in Seq(D!Bytes)
        /\ \/ source # <<>> /\ pc' = "synchronize"
           \/ source = <<>> /\ pc' = "ended"
    BY <1>3, <2>1, <2>2, ReadMoreMoves DEF Rest
  <2>l. Len(buf') <= 0 + ChunkMax /\ Len(buf') \in Nat
    <3>1. Len(buf') <= Len(<<>>) + ChunkMax BY <1>3, <2>1, <2>2, ReadMoreMoves
    <3>2. Len(buf') \in Nat BY <2>3, LenProperties
    <3> QED BY <2>2, <3>1, <3>2
  <2>4. \A i \in 1..Len(buf) : buf[i] # "S" BY <1>3, <1>6, FindNone
  <2>5. Rest' = D!From(Rest, Len(buf) + 1)
    <3>1. D!From(buf \o source, Len(buf) + 1) = source BY <1>3, FromWhole
    <3>2. <<>> \o source = source BY <1>3, ConcatEmptySeq
    <3> QED BY <2>3, <3>1, <3>2 DEF Rest
  <2>6. Between(parts, D!From(Rest, Len(buf) + 1), out)
    <3> DEFINE r == Rest
               n == Len(buf)
    <3>1. Between(parts, r, out) /\ n \in 0..Len(r) BY <1>2, <1>3
    <3>2. \A i \in 1..n : r[i] # "S" BY <1>3, <2>4
    <3> HIDE DEF r, n
    <3>3. Between(parts, D!From(r, n + 1), out) BY <1>3, <3>1, <3>2, Skip
    <3> QED BY <3>3 DEF r, n
  <2>7. ASSUME pc' = "synchronize" PROVE DecoderPlace' BY <2>3, <2>5, <2>6, <2>7 DEF DecoderPlace
  <2>8. ASSUME source = <<>>, pc' = "ended" PROVE DecoderPlace'
    <3>1. out = D!Bodies(parts)
      <4> DEFINE r == Rest
      <4>1. \A i \in 1..Len(r) : r[i] # "S" BY <1>3, <2>4, <2>8
      <4>2. Between(parts, r, out) BY <1>2
      <4> HIDE DEF r
      <4> QED BY <1>3, <4>1, <4>2, NothingFollows
    <3> QED BY <2>3, <2>8, <3>1 DEF DecoderPlace
  <2>9. ASSUME Fitting PROVE Room'
    <3>1. AnyMessage => Len(buf') < Limit
      <4> SUFFICES ASSUME AnyMessage PROVE Len(buf') < Limit OBVIOUS
      <4>1. Limit \in Nat /\ ChunkMax \in Nat \ {0} /\ 5 + ChunkMax <= Limit BY <2>9, Bounds DEF Fitting
      <4> QED BY <2>l, <4>1
    <3> QED BY <3>1 DEF Room, AnyMessage
  <2> QED BY <2>3, <2>7, <2>8, <2>9
<1> QED BY <1>5, <1>6

LEMMA FirstThree ==
  ASSUME NEW X, NEW s \in Seq(X), ~(Len(s) < 3)
  PROVE  SubSeq(s, 1, 3) = <<s[1], s[2], s[3]>>
<1> DEFINE m == 1
           n == 3
           t == SubSeq(s, m, n)
           u == <<s[1], s[2], s[3]>>
<1>1. Len(s) \in Nat /\ \A i \in m..n : i \in 1..Len(s) BY LenProperties
<1>2. \A i \in m..n : s[i] \in X BY <1>1, ElementOfSeq
<1>3. /\ SubSeq(s, m, n) \in Seq(X) /\ Len(SubSeq(s, m, n)) = IF m <= n THEN n - m + 1 ELSE 0
      /\ \A i \in 1..n - m + 1 : SubSeq(s, m, n)[i] = s[m + i - 1]
  <2>1. m \in Int /\ n \in Int OBVIOUS
  <2> HIDE DEF m, n
  <2> QED BY <1>2, <2>1, SubSeqProperties
<1>4. t \in Seq(X) /\ Len(t) = 3 /\ \A i \in 1..3 : t[i] = s[i]
  <2>1. n - m + 1 = 3 /\ (IF m <= n THEN n - m + 1 ELSE 0) = 3 /\ \A i \in 1..3 : m + i - 1 = i OBVIOUS
  <2> HIDE DEF m, n
  <2> QED BY <1>3, <2>1
<1>5. u \in Seq(X) /\ Len(u) = 3 /\ u[1] = s[1] /\ u[2] = s[2] /\ u[3] = s[3]
  <2>1. s[1] \in X /\ s[2] \in X /\ s[3] \in X BY <1>2
  <2> QED BY <2>1
<1>6. \A i \in 1..Len(t) : t[i] = u[i]
  <2> SUFFICES ASSUME NEW i \in {1, 2, 3} PROVE t[i] = u[i] BY <1>4
  <2> QED BY <1>4, <1>5
<1>7. t = u
  <2> HIDE DEF t, u
  <2> QED BY <1>4, <1>5, <1>6, SeqEqual
<1> QED BY <1>7

LEMMA ReadPrefixStep ==
  ASSUME InPlace, D!ReadPrefix
  PROVE  DecoderPlace' /\ (Fitting => Room')
<1>1. pc = "prefix" BY DEF D!ReadPrefix
<1>2. D!TypeOK /\ Between(parts, Rest, out) BY <1>1 DEF InPlace, DecoderPlace
<1>3. /\ parts \in Seq(Parts) /\ buf \in Seq(D!Bytes) /\ source \in Seq(D!Bytes) /\ Rest \in Seq(D!Bytes)
      /\ Len(buf) \in Nat /\ Len(source) \in Nat /\ Len(Rest) = Len(buf) + Len(source)
      /\ \A i \in 1..Len(buf) : Rest[i] = buf[i]
      /\ source = <<>> => Rest = buf
  BY <1>2, RestTypes
<1>4. Fitting /\ AnyMessage => Len(buf) < Limit
  <2>1. ~InBody BY <1>1 DEF InBody
  <2> QED BY <2>1 DEF Fitting, Room
<1>5. CASE Len(buf) < 3
  <2>1. D!ReadMore(buf, "prefix") BY <1>5 DEF D!ReadPrefix, D!PrefixLen
  <2>3. /\ UNCHANGED <<parts, need, out>> /\ Rest' = Rest /\ buf' \in Seq(D!Bytes)
        /\ \/ source # <<>> /\ pc' = "prefix"
           \/ source = <<>> /\ pc' = "ended"
    BY <1>3, <2>1, ReadMoreMoves DEF Rest
  <2>l. Len(buf') <= Len(buf) + ChunkMax /\ Len(buf') \in Nat
    <3>1. Len(buf') <= Len(buf) + ChunkMax BY <1>3, <2>1, ReadMoreMoves
    <3>2. Len(buf') \in Nat BY <2>3, LenProperties
    <3> QED BY <3>1, <3>2
  <2>4. ASSUME pc' = "prefix" PROVE DecoderPlace' BY <1>2, <2>3, <2>4 DEF DecoderPlace
  <2>5. ASSUME source = <<>>, pc' = "ended" PROVE DecoderPlace'
    <3>1. out = D!Bodies(parts)
      <4> DEFINE r == Rest
      <4>1. Len(r) < 5 BY <1>3, <1>5, <2>5
      <4>2. Between(parts, r, out) BY <1>2
      <4> HIDE DEF r
      <4> QED BY <1>3, <4>1, <4>2, NothingFollows
    <3> QED BY <2>3, <2>5, <3>1 DEF DecoderPlace
  <2>6. ASSUME Fitting PROVE Room'
    <3>1. AnyMessage => Len(buf') < Limit
      <4> SUFFICES ASSUME AnyMessage PROVE Len(buf') < Limit OBVIOUS
      <4>1. Limit \in Nat /\ ChunkMax \in Nat \ {0} /\ 5 + ChunkMax <= Limit BY <2>6, Bounds DEF Fitting
      <4> QED BY <1>3, <1>5, <2>l, <4>1
    <3> QED BY <3>1 DEF Room, AnyMessage
  <2> QED BY <2>3, <2>4, <2>5, <2>6
<1>6. CASE ~(Len(buf) < 3)
  <2> DEFINE head == SubSeq(buf, 1, 3)
             r == Rest
  <2>1. head = <<buf[1], buf[2], buf[3]>> BY <1>3, <1>6, FirstThree
  <2>2. r[1] = buf[1] /\ r[2] = buf[2] /\ r[3] = buf[3] /\ Len(r) >= 3 /\ buf # <<>>
    <3>1. 1 \in 1..Len(buf) /\ 2 \in 1..Len(buf) /\ 3 \in 1..Len(buf) BY <1>3, <1>6
    <3>2. Len(r) >= 3 BY <1>3, <1>6
    <3>3. buf # <<>> BY <1>6, EmptySeq
    <3>4. r[1] = buf[1] /\ r[2] = buf[2] /\ r[3] = buf[3]
      <4> HIDE DEF r
      <4> QED BY <1>3, <3>1 DEF r
    <3> QED BY <3>2, <3>3, <3>4
  <2>3. CASE head # <<"S", "V", "l">>
    <3>1. pc' = "synchronize" /\ buf' = Tail(buf) /\ UNCHANGED <<parts, source, need, out>>
      <4>1. D!Reject BY <1>6, <2>3 DEF D!ReadPrefix, D!PrefixLen
      <4> QED BY <4>1 DEF D!Reject
    <3>2. ~HeaderAt(r)
      <4> HIDE DEF r, head
      <4> QED BY <2>1, <2>2, <2>3 DEF HeaderAt
    <3>3. r # <<>>
      <4> HIDE DEF r
      <4> QED BY <2>2, EmptySeq
    <3>4. Between(parts, Tail(r), out)
      <4>1. Between(parts, r, out) BY <1>2
      <4> HIDE DEF r
      <4> QED BY <1>3, <3>2, <3>3, <4>1, SkipOne
    <3>5. Tail(r) = Tail(buf) \o source
      <4>1. Tail(buf) = D!From(buf, 2) BY <1>3, <2>2, TailIsSubSeq DEF D!From
      <4>2. Tail(r) = D!From(r, 2)
        <5> HIDE DEF r
        <5> QED BY <1>3, <3>3, TailIsSubSeq DEF D!From, r
      <4> DEFINE n == 1
      <4>3. n \in 0..Len(buf) /\ n + 1 = 2 BY <1>3, <1>6
      <4> HIDE DEF n
      <4>4. D!From(buf \o source, n + 1) = D!From(buf, n + 1) \o source BY <1>3, <4>3, FromConcat
      <4> QED BY <4>1, <4>2, <4>3, <4>4 DEF Rest
    <3>6. Rest' = Tail(r)
      <4> HIDE DEF r
      <4> QED BY <3>1, <3>5 DEF Rest
    <3>7. DecoderPlace'
      <4> HIDE DEF r
      <4> QED BY <3>1, <3>4, <3>6 DEF DecoderPlace
    <3>8. ASSUME Fitting PROVE Room'
      <4>1. Len(buf') = Len(buf) - 1 BY <1>3, <2>2, <3>1, HeadTailProperties
      <4>2. AnyMessage => Len(buf') < Limit
        <5> SUFFICES ASSUME AnyMessage PROVE Len(buf') < Limit OBVIOUS
        <5>1. Limit \in Nat BY <3>8, Bounds DEF Fitting
        <5> QED BY <1>3, <1>4, <3>8, <4>1, <5>1
      <4> QED BY <4>2 DEF Room, AnyMessage
    <3> QED BY <3>7, <3>8
  <2>4. CASE head = <<"S", "V", "l">>
    <3>1. pc' = "search" /\ UNCHANGED <<parts, source, buf, need, out>>
      BY <1>6, <2>4 DEF D!ReadPrefix, D!PrefixLen
    <3>2. HeaderAt(r)
      <4> HIDE DEF r, head
      <4> QED BY <2>1, <2>2, <2>4 DEF HeaderAt
    <3>3. AtHeader(parts, r, out)
      <4>1. Between(parts, r, out) BY <1>2
      <4> HIDE DEF r
      <4> QED BY <1>3, <3>2, <4>1, SkipOne DEF AtHeader
    <3>4. Rest' = r BY <3>1 DEF Rest
    <3>5. DecoderPlace'
      <4> HIDE DEF r
      <4> QED BY <3>1, <3>3, <3>4 DEF DecoderPlace
    <3>6. ASSUME Fitting PROVE Room'
      <4>1. Len(buf') = Len(buf) BY <3>1
      <4> QED BY <1>4, <3>6, <4>1 DEF Room, AnyMessage
    <3> QED BY <3>5, <3>6
  <2> QED BY <2>3, <2>4
<1> QED BY <1>5, <1>6

\* The message at which the decoder is: there is one, and if chunks are small its header
\* fits in the buffer together with one of them.
LEMMA MessageBounds ==
  ASSUME parts \in Seq(Parts), NEW k \in Nat, AtMessage(parts, k, out)
  PROVE  /\ AnyMessage /\ k \in 0..Len(parts) - 1 /\ k \in 0..Len(parts) /\ k + 1 \in 0..Len(parts)
         /\ parts[k + 1].bytes \in Seq(D!Bytes) /\ Following(parts, k + 1) \in Seq(D!Bytes)
         /\ Following(parts, k) = D!Header(parts[k + 1].bytes) \o (parts[k + 1].bytes \o Following(parts, k + 1))
         /\ Len(D!Header(parts[k + 1].bytes)) \in Nat
         /\ D!SmallChunks => Len(D!Header(parts[k + 1].bytes)) + ChunkMax <= Limit
         /\ out = Collected(parts, k)
         /\ Collected(parts, k + 1) = Append(out, parts[k + 1].bytes)
<1>1. k \in 0..Len(parts) - 1 /\ parts[k + 1].message /\ out = Collected(parts, k) BY DEF AtMessage
<1>2. parts[k + 1] \in Parts /\ k \in 0..Len(parts) /\ k + 1 \in 0..Len(parts) BY <1>1, FollowingStep
<1>3. AnyMessage BY <1>1, <1>2 DEF AnyMessage
<1>4. Len(D!Header(parts[k + 1].bytes)) \in Nat
  <2> DEFINE b == parts[k + 1].bytes
             n == D!Numeral[Len(b)]
             h == D!Header(b)
  <2>1. b \in Seq(D!Bytes) BY <1>2, PartTypes
  <2>2. Len(n) \in Nat /\ Len(h) = Len(n) + 4
    <3> HIDE DEF b
    <3> QED BY <2>1, HeaderProperties
  <2> HIDE DEF n, h
  <2>3. Len(h) \in Nat BY <2>2
  <2> QED BY <2>3 DEF h
<1>5. D!SmallChunks => Len(D!Header(parts[k + 1].bytes)) + ChunkMax <= Limit
  BY <1>1, <1>2, <1>3, Bounds
<1> QED BY <1>1, <1>2, <1>3, <1>4, <1>5, MessageStep

LEMMA ReadLengthStep ==
  ASSUME InPlace, D!ReadLength, ~(Len(buf) >= Limit)
  PROVE  DecoderPlace' /\ (Fitting => Room')
<1>1. pc \in {"search", "searching"} BY DEF D!ReadLength
<1>2. D!TypeOK /\ AtHeader(parts, Rest, out) BY <1>1 DEF InPlace, DecoderPlace
<1>3. /\ parts \in Seq(Parts) /\ buf \in Seq(D!Bytes) /\ source \in Seq(D!Bytes)
      /\ Len(buf) \in Nat
  BY <1>2, RestTypes
<1>4. PICK k \in Nat : AtMessage(parts, k, out) /\ Rest = Following(parts, k) BY <1>2 DEF AtHeader
<1> DEFINE b == parts[k + 1].bytes
           f == Following(parts, k + 1)
           h == D!Header(b)
<1>5. /\ AnyMessage /\ b \in Seq(D!Bytes) /\ f \in Seq(D!Bytes) /\ Rest = h \o (b \o f)
      /\ Len(h) \in Nat /\ (D!SmallChunks => Len(h) + ChunkMax <= Limit)
  BY <1>3, <1>4, MessageBounds
<1>l. Limit \in Nat /\ ChunkMax \in Nat \ {0} BY MessageDecoderAssumption DEF D!MessageDecoderAssumption
<1>6. Len(buf) < Limit BY <1>3, <1>l
<1> HIDE DEF b, f, h
<1>7. /\ ~D!Contains(buf, ";") => Len(buf) < Len(h) /\ source # <<>>
      /\ D!Contains(buf, ";") =>
           LET j == D!Find(buf, ";")
               text == SubSeq(buf, D!PrefixLen + 1, j - 1)
           IN  /\ D!IsNumber(text) /\ D!Number(text) = Len(b)
               /\ j \in 0..Len(buf) /\ D!From(buf, j + 1) \o source = b \o f
  <2>1. buf \o source = D!Header(b) \o (b \o f) BY <1>5 DEF h, Rest
  <2>2. h = D!Header(b) BY DEF h
  <2>3. b \in Seq(D!Bytes) /\ f \in Seq(D!Bytes) /\ buf \in Seq(D!Bytes) /\ source \in Seq(D!Bytes)
    BY <1>3, <1>5
  <2>4. LengthRead(b, f, buf, source) BY ONLY <2>1, <2>3, LengthField
  <2> QED BY <2>2, <2>4 DEF LengthRead
<1>8. CASE ~D!Contains(buf, ";")
  <2>1. D!ReadMore(buf, "searching") BY <1>8 DEF D!ReadLength
  <2>2. source # <<>> /\ Len(buf) < Len(h) BY <1>7, <1>8
  <2>3. UNCHANGED <<parts, need, out>> /\ Rest' = Rest /\ buf' \in Seq(D!Bytes) /\ pc' = "searching"
    BY <1>3, <2>1, <2>2, ReadMoreMoves DEF Rest
  <2>4. ASSUME Fitting PROVE Len(buf') < Limit
    <3>1. Len(buf') <= Len(buf) + ChunkMax BY <1>3, <2>1, ReadMoreMoves
    <3>2. Len(buf') \in Nat BY <2>3, LenProperties
    <3>3. Len(h) \in Nat /\ Len(h) + ChunkMax <= Limit BY <1>5, <2>4 DEF Fitting
    <3> QED BY <1>3, <1>l, <2>2, <3>1, <3>2, <3>3
  <2>5. DecoderPlace' BY <1>2, <2>3 DEF DecoderPlace
  <2>6. Fitting => Room' BY <2>4 DEF Room
  <2> QED BY <2>5, <2>6
<1>9. CASE D!Contains(buf, ";")
  <2> DEFINE j == D!Find(buf, ";")
             text == SubSeq(buf, D!PrefixLen + 1, j - 1)
  <2>1. /\ D!IsNumber(text) /\ D!Number(text) = Len(b)
        /\ j \in 0..Len(buf) /\ D!From(buf, j + 1) \o source = b \o f
    BY <1>7, <1>9
  <2>2. need' = D!Number(text) /\ buf' = D!From(buf, j + 1) /\ pc' = "body" /\ UNCHANGED <<parts, source, out>>
    BY <1>9, <2>1 DEF D!ReadLength
  <2> HIDE DEF j, text
  <2>3. Rest' = b \o f /\ need' = Len(b) BY <2>1, <2>2 DEF Rest
  <2>4. AtBody(parts, b \o f, out, Len(b)) BY <1>4 DEF AtBody, b, f
  <2>5. DecoderPlace' BY <2>2, <2>3, <2>4 DEF DecoderPlace
  <2>6. ASSUME Fitting PROVE Room'
    <3>1. Len(D!From(buf, j + 1)) = Len(buf) - j BY <1>3, <2>1, FromIsShorter
    <3>2. Len(buf') = Len(buf) - j BY <2>2, <3>1
    <3>3. Len(buf') < Limit BY <1>3, <1>6, <1>l, <2>1, <3>2
    <3> QED BY <3>3 DEF Room
  <2> QED BY <2>5, <2>6
<1> QED BY <1>8, <1>9

LEMMA ReadBodyStep ==
  ASSUME InPlace, D!ReadBody
  PROVE  DecoderPlace' /\ (Fitting => Room')
<1>1. pc = "body" BY DEF D!ReadBody
<1>2. D!TypeOK /\ AtBody(parts, Rest, out, need) BY <1>1 DEF InPlace, DecoderPlace
<1>3. /\ parts \in Seq(Parts) /\ buf \in Seq(D!Bytes) /\ source \in Seq(D!Bytes)
      /\ Len(buf) \in Nat /\ need \in Nat
  BY <1>2, RestTypes
<1>4. PICK k \in Nat : /\ AtMessage(parts, k, out) /\ need = Len(parts[k + 1].bytes)
                       /\ Rest = parts[k + 1].bytes \o Following(parts, k + 1)
  BY <1>2 DEF AtBody
<1> DEFINE b == parts[k + 1].bytes
           f == Following(parts, k + 1)
<1>5. /\ AnyMessage /\ b \in Seq(D!Bytes) /\ f \in Seq(D!Bytes) /\ k + 1 \in 0..Len(parts)
      /\ Collected(parts, k + 1) = Append(out, b)
  BY <1>3, <1>4, MessageBounds
<1>l. Limit \in Nat /\ ChunkMax \in Nat \ {0} /\ (Fitting => 5 + ChunkMax <= Limit)
  BY <1>5, Bounds, MessageDecoderAssumption DEF D!MessageDecoderAssumption, Fitting
<1>6. need = Len(b) /\ buf \o source = b \o f BY <1>4 DEF Rest
<1>7. /\ Len(buf) < need => source # <<>>
      /\ ~(Len(buf) < need) =>
           /\ SubSeq(buf, 1, need) = b /\ need \in 0..Len(buf)
           /\ D!From(buf, need + 1) \o source = f
  <2> HIDE DEF b, f
  <2>1. b \in Seq(D!Bytes) /\ f \in Seq(D!Bytes) /\ buf \in Seq(D!Bytes) /\ source \in Seq(D!Bytes)
    BY <1>3, <1>5
  <2>2. buf \o source = b \o f BY <1>6
  <2>3. BodyRead(b, f, buf, source) BY ONLY <2>1, <2>2, BodyField
  <2> QED BY <1>6, <2>3 DEF BodyRead
<1>8. CASE Len(buf) < need
  <2>1. D!ReadMore(buf, "body") BY <1>8 DEF D!ReadBody
  <2>2. UNCHANGED <<parts, need, out>> /\ Rest' = Rest /\ buf' \in Seq(D!Bytes) /\ pc' = "body"
    BY <1>3, <1>7, <1>8, <2>1, ReadMoreMoves DEF Rest
  <2>3. Len(buf') < need' + ChunkMax
    <3>1. Len(buf') <= Len(buf) + ChunkMax /\ need' = need BY <1>3, <2>1, <2>2, ReadMoreMoves
    <3>2. Len(buf') \in Nat BY <2>2, LenProperties
    <3> QED BY <1>3, <1>8, <1>l, <3>1, <3>2
  <2>4. DecoderPlace' BY <1>2, <2>2 DEF DecoderPlace
  <2>5. InBody' BY <2>2 DEF InBody
  <2> QED BY <2>3, <2>4, <2>5 DEF Room
<1>9. CASE ~(Len(buf) < need)
  <2>1. /\ out' = Append(out, SubSeq(buf, 1, need)) /\ buf' = D!From(buf, need + 1) /\ pc' = "idle"
        /\ UNCHANGED <<parts, source, need>>
    BY <1>9 DEF D!ReadBody
  <2>2. SubSeq(buf, 1, need) = b /\ need \in 0..Len(buf) /\ D!From(buf, need + 1) \o source = f
    BY <1>7, <1>9
  <2>3. out' = Collected(parts, k + 1) /\ Rest' = f BY <1>5, <2>1, <2>2 DEF Rest
  <2>4. AtSeam(parts, f, out') BY <1>5, <2>3 DEF AtSeam
  <2>5. DecoderPlace' BY <2>1, <2>3, <2>4 DEF DecoderPlace
  <2>6. ASSUME Fitting PROVE Room'
    <3>1. Len(D!From(buf, need + 1)) = Len(buf) - need BY <1>3, <2>2, FromIsShorter
    <3>2. Len(buf') = Len(buf) - need BY <2>1, <3>1
    <3>3. Len(buf) < Limit \/ Len(buf) < need + ChunkMax BY <1>5, <2>6 DEF Fitting, Room
    <3>4. Len(buf') < Limit BY <1>3, <1>l, <2>2, <2>6, <3>2, <3>3
    <3> QED BY <3>4 DEF Room
  <2> QED BY <2>5, <2>6
<1> QED BY <1>8, <1>9

\* A step with which a search is not given up.
LEMMA DecoderKeeps ==
  ASSUME InPlace, [D!Next]_dvars, ~overrun, ~overrun'
  PROVE  DecoderPlace' /\ (Fitting => Room')
<1>1. CASE D!Decode BY <1>1, DecodeStep
<1>2. CASE D!Synchronize BY <1>2, SynchronizeStep
<1>3. CASE D!ReadPrefix BY <1>3, ReadPrefixStep
<1>4. CASE D!ReadLength
  <2> DEFINE full == Len(buf) >= Limit
  <2>1. ~full
    <3>1. overrun' = (overrun \/ full) BY <1>4 DEF D!ReadLength
    <3> HIDE DEF full
    <3> QED BY <3>1
  <2> QED BY <1>4, <2>1, ReadLengthStep
<1>5. CASE D!ReadBody BY <1>5, ReadBodyStep
<1>6. CASE UNCHANGED dvars
  <2>1. UNCHANGED <<parts, source, buf, pc, need, out>> BY <1>6 DEF dvars
  <2>2. Rest' = Rest BY <2>1 DEF Rest
  <2>3. DecoderPlace' BY <2>1, <2>2 DEF InPlace, DecoderPlace
  <2>4. InBody' = InBody /\ Len(buf') = Len(buf) /\ need' = need BY <2>1 DEF InBody
  <2>5. Fitting => Room' BY <2>4 DEF Fitting, Room, AnyMessage
  <2> QED BY <2>3, <2>5
<1> QED BY <1>1, <1>2, <1>3, <1>4, <1>5, <1>6 DEF D!Next

\* With small chunks no search is given up.
LEMMA DecoderFits ==
  ASSUME InPlace, Fitting, [D!Next]_dvars, ~overrun
  PROVE  ~overrun'
<1>1. CASE D!ReadLength
  <2>1. pc \in {"search", "searching"} /\ overrun' = (overrun \/ Len(buf) >= Limit) BY <1>1 DEF D!ReadLength
  <2>2. D!TypeOK /\ AtHeader(parts, Rest, out) BY <2>1 DEF InPlace, DecoderPlace
  <2>3. parts \in Seq(Parts) /\ Len(buf) \in Nat BY <2>2, RestTypes
  <2>4. AnyMessage
    <3>1. PICK k \in Nat : AtMessage(parts, k, out) BY <2>2 DEF AtHeader
    <3> QED BY <2>3, <3>1, MessageBounds
  <2>5. Len(buf) < Limit BY <2>1, <2>4 DEF Fitting, Room, InBody
  <2>6. Limit \in Nat BY MessageDecoderAssumption DEF D!MessageDecoderAssumption
  <2> DEFINE full == Len(buf) >= Limit
  <2>7. ~full BY <2>3, <2>5, <2>6
  <2>8. overrun' = (overrun \/ full) BY <2>1
  <2> HIDE DEF full
  <2> QED BY <2>7, <2>8
<1>2. CASE D!Decode \/ D!Synchronize \/ D!ReadPrefix \/ D!ReadBody
  BY <1>2 DEF D!Decode, D!Synchronize, D!ReadPrefix, D!ReadBody
<1>3. CASE UNCHANGED dvars BY <1>3 DEF dvars
<1> QED BY <1>1, <1>2, <1>3 DEF D!Next

LEMMA DecoderSteps ==
  ASSUME DecoderInv, [D!Next]_dvars
  PROVE  DecoderInv'
<1>1. D!TypeOK' BY DecoderTypes DEF DecoderInv
<1>2. overrun => overrun'
  <2>1. D!Next => UNCHANGED overrun \/ overrun' = (overrun \/ Len(buf) >= Limit)
    BY DEF D!Next, D!Decode, D!Synchronize, D!ReadPrefix, D!ReadLength, D!ReadBody
  <2>2. UNCHANGED dvars => UNCHANGED overrun BY DEF dvars
  <2> QED BY <2>1, <2>2
<1>3. ASSUME ~overrun' PROVE DecoderPlace'
  <2>1. ~overrun /\ InPlace BY <1>2, <1>3 DEF DecoderInv, InPlace
  <2> QED BY <1>3, <2>1, DecoderKeeps
<1>4. ASSUME D!SmallChunks PROVE Room' /\ ~overrun'
  <2>1. ~overrun /\ InPlace /\ Fitting BY <1>4 DEF DecoderInv, InPlace, Fitting
  <2>2. ~overrun' BY <2>1, DecoderFits
  <2> QED BY <2>1, <2>2, DecoderKeeps
<1>5. D!SmallChunks' <=> D!SmallChunks BY DEF D!SmallChunks
<1> QED BY <1>1, <1>3, <1>4, <1>5 DEF DecoderInv

LEMMA DecoderAlone == MCSpec => []DecoderInv
<1>1. MCInit => DecoderInv
  <2> SUFFICES ASSUME MCInit PROVE DecoderInv
    OBVIOUS
  <2>1. /\ D!TypeOK /\ source = D!Stream(parts) /\ buf = <<>> /\ out = <<>> /\ pc = "idle"
        /\ ~overrun
    BY DecoderInit DEF MCInit, D!Init
  <2>2. /\ parts \in Seq(Parts) /\ source \in Seq(D!Bytes)
    BY <2>1, RestTypes
  <2>3. Rest = D!Stream(parts)
    BY <2>1, <2>2, ConcatEmptySeq DEF Rest
  <2>4. Len(parts) \in Nat
    BY <2>2, LenProperties
  <2>5. AtSeam(parts, Rest, out)
    BY <2>1, <2>2, <2>3, <2>4, FollowingEnds DEF AtSeam
  <2>6. DecoderPlace
    BY <2>1, <2>5 DEF DecoderPlace
  <2>7. D!SmallChunks => Room
    <3>1. ASSUME D!SmallChunks, AnyMessage PROVE Len(<<>>) < Limit
      <4>1. Limit \in Nat /\ ChunkMax \in Nat \ {0} /\ 5 + ChunkMax <= Limit
        BY <3>1, Bounds
      <4>2. Len(<<>>) = 0
        BY EmptySeq
      <4> QED
        BY <4>1, <4>2
    <3>2. buf = <<>>
      BY <2>1
    <3> QED
      BY <3>1, <3>2 DEF Room
  <2> QED
    BY <2>1, <2>6, <2>7 DEF DecoderInv
<1>2. DecoderInv /\ [MCNext]_allvars => DecoderInv'
  BY PartsStep, DecoderSteps
<1> QED
  BY <1>1, <1>2, PTL DEF MCSpec

\* What was sent arrives, whatever the junk between the messages and however the source
\* cuts the stream into chunks of any size: the bodies in order, none twice and none
\* invented, None only after the last, nothing lost at the seam of two messages, and no
\* exception - as long as no search for the end of a header is given up because 4096
\* bytes are held (msg.py:80-82, 107, 185-187, 223-229, 251-265).
THEOREM MessagesAllArrive == MCSpec => []MessagesArrive
<1>1. ASSUME DecoderInv, ~overrun PROVE MessagesArrive
  <2>1. D!TypeOK /\ DecoderPlace /\ parts \in Seq(Parts)
    BY <1>1, RestTypes DEF DecoderInv
  <2>2. Len(parts) \in Nat
    BY <2>1, LenProperties
  <2>3. \E k \in 0..Len(parts) : out = Collected(parts, k)
    <3>1. CASE pc = "idle"
      BY <2>1, <3>1 DEF DecoderPlace, AtSeam
    <3>2. CASE pc \in {"synchronize", "prefix"}
      BY <2>1, <3>2 DEF DecoderPlace, Between
    <3>3. CASE pc \in {"search", "searching", "body"}
      <4>1. PICK k \in Nat : AtMessage(parts, k, out)
        BY <2>1, <3>3 DEF DecoderPlace, AtHeader, AtBody
      <4>2. k \in 0..Len(parts) - 1 /\ out = Collected(parts, k)
        BY <4>1 DEF AtMessage
      <4>3. k \in 0..Len(parts)
        BY <2>2, <4>2
      <4> QED
        BY <4>2, <4>3
    <3>4. CASE pc = "ended"
      <4>1. out = Collected(parts, Len(parts))
        BY <2>1, <3>4, FollowingEnds DEF DecoderPlace
      <4> QED
        BY <2>2, <4>1
    <3> QED
      BY <2>1, <3>1, <3>2, <3>3, <3>4 DEF D!TypeOK, DecoderPlace
  <2>4. D!MessagesInOrder
    BY <2>1, <2>3, CollectedIsPrefix DEF D!MessagesInOrder
  <2>5. D!NoneMeansEnd /\ D!NeverCrashes
    BY <2>1 DEF DecoderPlace, D!NoneMeansEnd, D!NeverCrashes
  <2>6. D!NothingLostAtTheSeam
    BY <2>1 DEF DecoderPlace, AtSeam, Rest, Following, Collected, D!NothingLostAtTheSeam
  <2> QED
    BY <2>4, <2>5, <2>6 DEF MessagesArrive
<1>2. ASSUME overrun PROVE MessagesArrive
  BY <1>2 DEF MessagesArrive, D!MessagesInOrder, D!NoneMeansEnd, D!NothingLostAtTheSeam, D!NeverCrashes
<1>3. DecoderInv => MessagesArrive
  BY <1>1, <1>2
<1> QED
  BY <1>3, DecoderAlone, PTL

\* No search is ever given up if a chunk fits in 4096 bytes beside the longest header
\* that is sent (msg.py:220-229).  The sources of the package are asked for chunks of 4096
\* bytes, so this is for those who choose smaller ones.
THEOREM SmallChunksFit ==
  ASSUME D!SmallChunks
  PROVE  MCSpec => []~overrun
<1>1. DecoderInv => ~overrun
  BY DEF DecoderInv
<1> QED
  BY <1>1, DecoderAlone, PTL

\* The variables of the server, the session, the client and the decoder keep their types.
THEOREM NetTypes == MCSpec => []MCTypeOK
<1>1. MCInit => Init /\ D!TypeOK
  BY DecoderInit DEF MCInit
<1>2. [MCNext]_allvars => [Next]_vars /\ [D!Next]_dvars
  BY PartsStep
<1>3. ServerInv => TypeOK
  BY DEF ServerInv
<1>4. SessionInv => S!TypeOK
  BY DEF SessionInv
<1>5. ClientInv => C!TypeOK
  BY ClientParts DEF ClientInv
<1>6. MCSpec => []D!TypeOK
  BY <1>1, <1>2, DecoderTypes, PTL DEF MCSpec
<1>7. MCSpec => []ServerInv
  BY <1>1, <1>2, ServerInvariant, PTL DEF MCSpec
<1>8. TypeOK /\ D!TypeOK /\ S!TypeOK /\ C!TypeOK => MCTypeOK
  BY DEF MCTypeOK
<1> QED
  BY <1>3, <1>4, <1>5, <1>6, <1>7, <1>8, SessionAlone, ClientAlone, PTL
==============================================================================
