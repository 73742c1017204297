----------------------------- MODULE MCControl -----------------------------
(***************************************************************************)
(* Seven components that direct the control of a program or share objects    *)
(* between its parts, each on its own: a behaviour is one of Interning,    *)
(* Escapes, Fix, Promises, Environments, Continuations or Views, and what  *)
(* it is not about stays in its initial state.                             *)
(*                                                                         *)
(* Interning: two threads make, unpickle and drop a symbol and a           *)
(* singleton.  Escapes: functions that catch one tag, everything, or       *)
(* nothing, with and without a trampoline, and anchors that take turns in  *)
(* two addresses.  Fix: functions a and b under fixtco, a with memo, and c *)
(* under fix, which call or jump to each other in every way.  Promises:    *)
(* two threads force a promise whose thunk returns, raises, or is left by  *)
(* an exception that force does not hold.                                  *)
(* Environments: an env and an assignonce in use, and let, letrec, do and  *)
(* do0 with two bindings or three, one of them twice, whose thunks and     *)
(* body do anything.                                                       *)
(* Continuations: functions that call, jump and resume in every way, with  *)
(* up to MaxMade continuations.                                            *)
(* Views: up to two views of a list that its owner changes.                *)
(***************************************************************************)
EXTENDS Interning, Integers, Sequences, TLC

CONSTANTS Tags, None, Trampolined, Inert, Uids, Lengths, MaxDepth, MaxEcs
CONSTANTS Catchers, Throws, Functions
CONSTANTS FixKeys, Tco, Memo, MaxCalls
CONSTANTS Forcers, Thunks, MaxRuns, MaxForces
CONSTANTS Identifiers, Reserved, Malformed, Values, Mappings, Forms, Unnamed, Do0Result
CONSTANTS MaxMade, MaxNested
CONSTANTS Entries, InitLists, Slices, MaxLen, MaxViews

VARIABLES stack, ecs, mode
VARIABLES body, memo, visited, calls, phase, result
VARIABLES value, normally, forcing, gave, runs, outcome, lazily, overlapped
VARIABLES form, todo, env, finalized, at, last, given, first
VARIABLES conts, running, callers, kept, due, ran, broken
VARIABLES viewed, views
VARIABLE subject

evars == <<stack, ecs, mode>>
fvars == <<body, memo, visited, calls, phase, result>>
pvars == <<value, normally, forcing, gave, runs, outcome, lazily, overlapped>>
nvars == <<form, todo, env, finalized, at, last, given, first>>
kvars == <<conts, running, callers, kept, due, ran, broken>>
wvars == <<viewed, views>>
allvars == <<vars, evars, fvars, pvars, nvars, kvars, wvars, subject>>

E == INSTANCE Escapes
F == INSTANCE Fix WITH Keys <- FixKeys, stack <- calls
P == INSTANCE Promises WITH pc <- forcing
N == INSTANCE Environments
K == INSTANCE Continuations WITH made <- conts
W == INSTANCE Views WITH list <- viewed
ASSUME EscapesAssumption == E!EscapesAssumption
ASSUME FixAssumption == F!FixAssumption
ASSUME PromisesAssumption == P!PromisesAssumption
ASSUME EnvironmentsAssumption == N!EnvironmentsAssumption
ASSUME ContinuationsAssumption == K!ContinuationsAssumption
ASSUME ViewsAssumption == W!ViewsAssumption

CatchAll == [tags |-> None, untagged |-> TRUE]
CatchTag == [tags |-> {"t"}, untagged |-> FALSE]
CatchNothing == [tags |-> None, untagged |-> FALSE]
CatchBoth == [tags |-> {"t"}, untagged |-> TRUE]
MCCatchers == {CatchAll, CatchTag, CatchNothing, CatchBoth}
MCThrows == [tag : {"t", None}, catchall : BOOLEAN]
MCFunctions ==
  {<<Trampolined>>, <<CatchAll, Trampolined>>, <<Trampolined, CatchTag>>, <<CatchNothing>>, <<CatchBoth>>}

Binding(n, r) == [name |-> n, rhs |-> r]
Form(k, c, u, i) == [kind |-> k, cls |-> c, use |-> u, items |-> i]
Plain == {Form("plain", c, "expression", <<>>) : c \in {"env", "assignonce"}}
Lets ==
  {Form(k, "env", u, <<Binding("x", "thunk"), Binding("y", "thunk")>>) :
     k \in {"let", "letrec"}, u \in {"expression", "decorator"}}
LispyLets ==
  {Form(k, "env", "block", <<Binding("x", "value"), Binding("y", r), Binding("x", "thunk")>>) :
     k \in {"lispylet", "lispyletrec"}, r \in {"thunk", "misfit"}}
Dos ==
  {Form(k, "env", "expression", <<i, Binding(Unnamed, "thunk"), Binding("x", "value")>>) :
     k \in {"do", "do0"}, i \in {Binding("x", "thunk"), Binding(Unnamed, "thunk")}}
MCForms == Plain \cup Lets \cup LispyLets \cup Dos
MCMappings == {("x" :> 2), ("y" :> 1 @@ "set" :> 2)}

Slice(from, to, by) == [start |-> from, stop |-> to, step |-> by]
MCSlices ==
  {Slice(<<>>, <<>>, 1), Slice(<<1>>, <<>>, 1), Slice(<<-2>>, <<>>, 1), Slice(<<>>, <<>>, -1)}
MCInitLists == {<<"a", "b">>}

MCInit ==
  /\ subject \in {"interning", "escapes", "fix", "promises", "environments", "continuations", "views"}
  /\ Init /\ E!Init /\ F!Init /\ P!Init /\ N!Init /\ K!Init /\ W!Init
  /\ subject # "environments" => form = CHOOSE f \in Plain : TRUE
  /\ subject # "promises" => \A t \in Forcers : ~ lazily[t]

InterningStep(A) == subject = "interning" /\ A /\ UNCHANGED <<evars, fvars, pvars, nvars, kvars, wvars, subject>>
EscapesStep(A) == subject = "escapes" /\ A /\ UNCHANGED <<vars, fvars, pvars, nvars, kvars, wvars, subject>>
FixStep(A) == subject = "fix" /\ A /\ UNCHANGED <<vars, evars, pvars, nvars, kvars, wvars, subject>>
PromisesStep(A) == subject = "promises" /\ A /\ UNCHANGED <<vars, evars, fvars, nvars, kvars, wvars, subject>>
EnvironmentsStep(A) == subject = "environments" /\ A /\ UNCHANGED <<vars, evars, fvars, pvars, kvars, wvars, subject>>
ContinuationsStep(A) == subject = "continuations" /\ A /\ UNCHANGED <<vars, evars, fvars, pvars, nvars, wvars, subject>>
ViewsStep(A) == subject = "views" /\ A /\ UNCHANGED <<vars, evars, fvars, pvars, nvars, kvars, subject>>

MCNext ==
  \/ InterningStep(Next) \/ EscapesStep(E!Next) \/ FixStep(F!Next)
  \/ PromisesStep(P!Next)
  \/ EnvironmentsStep(N!Next) \/ ContinuationsStep(K!Next)
  \/ ViewsStep(W!ViewsStep)

\* The fairness of Fix: a computation that has been started goes on.
MCSpec == MCInit /\ [][MCNext]_allvars /\ WF_fvars(FixStep(F!Step))

\* The type invariants of the seven modules.
MCTypeOK ==
  /\ subject = "interning" => TypeOK
  /\ subject = "escapes" => E!TypeOK
  /\ subject = "fix" => F!TypeOK
  /\ subject = "promises" => P!TypeOK
  /\ subject = "environments" => N!TypeOK
  /\ subject = "continuations" => K!TypeOK
  /\ subject = "views" => W!TypeOK
\* Escapes: an escape arrives where it is meant to, at any time, and nothing else
\* catches it; the calls of a chain share one trampoline.  Continuations: a return goes
\* to what was promised to run next, in every chain that keeps its promises.
EscapesArrive ==
  /\ E!EscapesArrive /\ [](subject = "escapes" => E!OneTrampoline)
  /\ [](subject = "continuations" => K!RunsWhatIsDue)
\* Fix: visited holds exactly what is going on, and every computation ends.
CyclesAreCut == [](subject = "fix" => F!CyclesAreSeen) /\ F!ComputationsEnd
\* Promises: only one run of the thunk ends with a value or an Exception, and every
\* thread gets the same.
ForcedOnce == subject = "promises" => P!ForcedOnce
\* Views: a view gives what the list holds now.
ViewsAreLive == subject = "views" => W!ViewsAreLive
\* Environments: what a name was given stays, names are fixed once a body runs, and
\* do0 gives its first value.
BindingsAreKept ==
  /\ [](subject = "environments" => N!BindingsAreKept /\ N!FirstIsReturned)
  /\ N!NamesAreFixed
==============================================================================
