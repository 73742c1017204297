----------------------------- MODULE ReplServer -----------------------------
(***************************************************************************)
(* The REPL server process (unpythonic/net/server.py): start, stop and the *)
(* main loop that honours halt(); one thread per REPL session; one thread  *)
(* per control connection, which may be paired with a session and passes   *)
(* on the Ctrl+C of its client (async_raise of unpythonic/excutil.py).     *)
(* What goes on inside a session is the subject of ReplSession; here it is *)
(* reduced to its thread and to its place in the registry.                 *)
(***************************************************************************)
EXTENDS Naturals, FiniteSets

CONSTANTS
  Sessions,  \* session ids, in the order _session_counter gives them out
  Controls,  \* control connections
  Idents     \* thread identifiers; the operating system uses them again

ASSUME ReplServerAssumption ==
  /\ Sessions \subseteq Nat \ {0} /\ IsFiniteSet(Sessions)
  /\ 0 \notin Idents

VARIABLES
  listening,  \* which of the two servers accept connections
  instance,   \* _server_instance is set
  shimmed,    \* sys.stdin and its siblings are the shims
  main,       \* the main thread: where it is
  halt,       \* _halt_pending
  st,         \* the thread of each session: where it is
  ident,      \* its identifier, which the Thread object keeps after its end
  pending,    \* the interrupts pending in it, each as the session it was for
  cst,        \* the thread of each control connection: where it is
  paired,     \* self.paired_repl_session_id, or 0
  target,     \* the session whose thread it is about to interrupt, or 0
  reply       \* its last reply

process == <<listening, instance, shimmed, main, halt>>
sessions == <<st, ident, pending>>
controls == <<cst, paired, target, reply>>
vars == <<process, sessions, controls>>

\* _active_sessions: a session is in it from its first step to its last.
Active == {s \in Sessions : st[s] \in {"registered", "known"}}
Alive == {s \in Sessions : st[s] \in {"accepted", "registered", "known", "unregistered"}}
LiveIdents == {ident[s] : s \in Alive}

------------------------------------------------------------------------------
(***************************************************************************)
(* The main thread                                                         *)
(***************************************************************************)
\* start(): stdio is shimmed, then the REPL server begins to listen, which
\* may fail; then the control server, which may fail too.
Start ==
  /\ main = "new"
  /\ shimmed' = TRUE
  /\ \/ listening' = {"repl"} /\ main' = "starting"
     \/ main' = "exiting" /\ UNCHANGED listening
  /\ UNCHANGED <<instance, halt, sessions, controls>>

StartControl ==
  /\ main = "starting"
  /\ \/ listening' = {"repl", "control"} /\ instance' = TRUE /\ main' = "looping"
     \/ main' = "exiting" /\ UNCHANGED <<listening, instance>>
  /\ UNCHANGED <<shimmed, halt, sessions, controls>>

\* Once a second: `if _halt_pending and not _active_sessions: break`; or the
\* server process itself gets Ctrl+C.
Watch ==
  /\ main = "looping"
  /\ halt /\ Active = {}
  /\ main' = "exiting"
  /\ UNCHANGED <<listening, instance, shimmed, halt, sessions, controls>>

CtrlC ==
  /\ main = "looping"
  /\ main' = "exiting"
  /\ UNCHANGED <<listening, instance, shimmed, halt, sessions, controls>>

\* At exit stop() closes the REPL server, then the control server, and
\* restores stdio - if start() has come to its end.
StopRepl ==
  /\ main = "exiting" /\ instance
  /\ main' = "stopping"
  /\ listening' = listening \ {"repl"}
  /\ UNCHANGED <<instance, shimmed, halt, sessions, controls>>

StopControl ==
  /\ main = "stopping"
  /\ main' = "stopped"
  /\ listening' = listening \ {"control"}
  /\ instance' = FALSE
  /\ shimmed' = FALSE
  /\ UNCHANGED <<halt, sessions, controls>>

\* The process ends; its sockets are closed, and the threads, which are daemons,
\* end with it.
Exit ==
  /\ main = "stopped" \/ (main = "exiting" /\ ~instance)
  /\ main' = "exited"
  /\ listening' = {}
  /\ st' = [s \in Sessions |-> IF s \in Alive THEN "killed" ELSE st[s]]
  /\ UNCHANGED <<instance, shimmed, halt, ident, pending, controls>>

------------------------------------------------------------------------------
(***************************************************************************)
(* Sessions                                                                *)
(***************************************************************************)
\* MUTANT of Accept: the session id for the identifier of the thread
Accept_ownId(s) ==
  /\ "repl" \in listening
  /\ st[s] = "none" /\ \A r \in Sessions : r < s => st[r] # "none"
  /\ ident' = [ident EXCEPT ![s] = s]
  /\ st' = [st EXCEPT ![s] = "accepted"]
  /\ UNCHANGED <<process, pending, controls>>

\* A client connects; the session's thread starts, with an identifier that
\* no living thread has.  Session ids are given out in order.
Accept(s) ==
  /\ "repl" \in listening
  /\ st[s] = "none" /\ \A r \in Sessions : r < s => st[r] # "none"
  /\ \E i \in Idents \ LiveIdents : ident' = [ident EXCEPT ![s] = i]
  /\ st' = [st EXCEPT ![s] = "accepted"]
  /\ UNCHANGED <<process, pending, controls>>

\* _active_sessions[self.session_id] = self
Register(s) ==
  /\ st[s] = "accepted"
  /\ st' = [st EXCEPT ![s] = "registered"]
  /\ UNCHANGED <<process, ident, pending, controls>>

\* self.thread = threading.current_thread()
MakeThreadKnown(s) ==
  /\ st[s] = "registered"
  /\ st' = [st EXCEPT ![s] = "known"]
  /\ UNCHANGED <<process, ident, pending, controls>>

\* User code in a session calls halt() or halt(False).
Halt(s, doit) ==
  /\ st[s] = "known"
  /\ halt' = doit
  /\ UNCHANGED <<listening, instance, shimmed, main, sessions, controls>>

\* The pending KeyboardInterrupt is raised in the thread, wherever that is;
\* ReplSession tells what becomes of it.
TakeInterrupt(s) ==
  /\ s \in Alive /\ pending[s] # {}
  /\ pending' = [pending EXCEPT ![s] = {}]
  /\ UNCHANGED <<process, st, ident, controls>>

\* MUTANT of Unregister: a session that failed to start is left behind
Unregister_onlyKnown(s) ==
  /\ st[s] = "known"
  /\ st' = [st EXCEPT ![s] = "unregistered"]
  /\ UNCHANGED <<process, ident, pending, controls>>

\* The session is over, or it has failed to start: the `finally` of handle
Unregister(s) ==
  /\ s \in Active
  /\ st' = [st EXCEPT ![s] = "unregistered"]
  /\ UNCHANGED <<process, ident, pending, controls>>

ThreadEnds(s) ==
  /\ st[s] = "unregistered"
  /\ st' = [st EXCEPT ![s] = "dead"]
  /\ pending' = [pending EXCEPT ![s] = {}]
  /\ UNCHANGED <<process, ident, controls>>

------------------------------------------------------------------------------
(***************************************************************************)
(* Control connections: one request at a time, each answered               *)
(***************************************************************************)
Serving(c) == main # "exited" /\ cst[c] = "idle"

\* PairWithSession
Pair(c, s) ==
  /\ Serving(c)
  /\ IF s \in Active
     THEN paired' = [paired EXCEPT ![c] = s] /\ reply' = [reply EXCEPT ![c] = "ok"]
     ELSE reply' = [reply EXCEPT ![c] = "failed"] /\ UNCHANGED paired
  /\ UNCHANGED <<process, sessions, cst, target>>

\* MUTANT of Lookup: any active session will do
Lookup_anyActive(c) ==
  /\ Serving(c) /\ paired[c] # 0
  /\ \E s \in Active :
       cst' = [cst EXCEPT ![c] = "found"] /\ target' = [target EXCEPT ![c] = s]
  /\ UNCHANGED <<process, sessions, paired, reply>>

\* KeyboardInterrupt: the paired session must still be in the registry and
\* its thread be known.
Lookup(c) ==
  /\ Serving(c)
  /\ IF paired[c] \in Active /\ st[paired[c]] = "known"
     THEN /\ cst' = [cst EXCEPT ![c] = "found"]
          /\ target' = [target EXCEPT ![c] = paired[c]]
          /\ UNCHANGED reply
     ELSE reply' = [reply EXCEPT ![c] = "failed"] /\ UNCHANGED <<cst, target>>
  /\ UNCHANGED <<process, sessions, paired>>

\* async_raise: some living thread must have the identifier
CheckIdent(c) ==
  /\ main # "exited" /\ cst[c] = "found"
  /\ IF ident[target[c]] \in LiveIdents
     THEN cst' = [cst EXCEPT ![c] = "checked"] /\ UNCHANGED <<target, reply>>
     ELSE /\ cst' = [cst EXCEPT ![c] = "idle"]
          /\ target' = [target EXCEPT ![c] = 0]
          /\ reply' = [reply EXCEPT ![c] = "failed"]
  /\ UNCHANGED <<process, sessions, paired>>

\* PyThreadState_SetAsyncExc, on whichever thread has the identifier now
RaiseIn(c) ==
  /\ main # "exited" /\ cst[c] = "checked"
  /\ LET hit == {s \in Alive : ident[s] = ident[target[c]]}
     IN  /\ pending' = [s \in Sessions |->
                          IF s \in hit THEN {paired[c]} ELSE pending[s]]
         /\ reply' = [reply EXCEPT ![c] = IF hit = {} THEN "failed" ELSE "ok"]
  /\ cst' = [cst EXCEPT ![c] = "idle"]
  /\ target' = [target EXCEPT ![c] = 0]
  /\ UNCHANGED <<process, st, ident, paired>>

------------------------------------------------------------------------------
Init ==
  /\ listening = {} /\ instance = FALSE /\ shimmed = FALSE
  /\ main = "new" /\ halt = FALSE
  /\ st = [s \in Sessions |-> "none"]
  /\ ident = [s \in Sessions |-> 0]
  /\ pending = [s \in Sessions |-> {}]
  /\ cst = [c \in Controls |-> "idle"]
  /\ paired = [c \in Controls |-> 0]
  /\ target = [c \in Controls |-> 0]
  /\ reply = [c \in Controls |-> "none"]

Main == Start \/ StartControl \/ Watch \/ StopRepl \/ StopControl \/ Exit
Session(s) == Register(s) \/ Unregister(s) \/ ThreadEnds(s)
Control(c) == Lookup(c) \/ CheckIdent(c) \/ RaiseIn(c)

Next ==
  \/ Main
  \/ CtrlC
  \/ \E s \in Sessions :
       \/ Session(s) \/ Accept(s) \/ MakeThreadKnown(s) \/ TakeInterrupt(s)
       \/ \E doit \in BOOLEAN : Halt(s, doit)
  \/ \E c \in Controls : Control(c) \/ \E s \in Sessions : Pair(c, s)

\* The main thread runs, and every session comes to its end; clients and
\* users promise nothing.
Spec == /\ Init /\ [][Next]_vars /\ WF_vars(Main)
        /\ \A s \in Sessions : WF_vars(Session(s))
------------------------------------------------------------------------------
(***************************************************************************)
(* Properties                                                              *)
(***************************************************************************)
TypeOK ==
  /\ listening \subseteq {"repl", "control"}
  /\ instance \in BOOLEAN /\ shimmed \in BOOLEAN /\ halt \in BOOLEAN
  /\ main \in {"new", "starting", "looping", "exiting", "stopping", "stopped", "exited"}
  /\ st \in [Sessions -> {"none", "accepted", "registered", "known",
                          "unregistered", "dead", "killed"}]
  /\ ident \in [Sessions -> Idents \cup {0}]
  /\ pending \in [Sessions -> SUBSET Sessions]
  /\ cst \in [Controls -> {"idle", "found", "checked"}]
  /\ paired \in [Controls -> Sessions \cup {0}]
  /\ target \in [Controls -> Sessions \cup {0}]
  /\ reply \in [Controls -> {"none", "ok", "failed"}]

\* While a control thread is on its way from the registry to the thread, the
\* session may end.  Even then an interrupt meant for a session reaches
\* another one only when its own thread is dead and the identifier was used
\* again (server.py:392-409, excutil.py:368-372).
MisdirectedOnlyAfterDeath ==
  \A s \in Sessions : \A t \in pending[s] :
    t = s \/ (st[t] = "dead" /\ ident[t] = ident[s])

\* A halt that is not canceled is honoured: when the sessions come to an end
\* so does the server (server.py:655-658).
HaltHonoured == (<>[]halt) => <>(main = "exited")
==============================================================================
