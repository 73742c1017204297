----------------------------- MODULE MCExtents -----------------------------
(***************************************************************************)
(* Two components that follow dynamic extents, each on its own: a          *)
(* behaviour is one of Dynassign or one of TestFixtures, and what it is    *)
(* not about stays in its initial state.                                   *)
(*                                                                         *)
(* Dynamic assignment: the main thread and one more; blocks that bind one  *)
(* name or two, which start as 1 and are updated to 2.                     *)
(***************************************************************************)
EXTENDS Dynassign

CONSTANTS MaxDepth, MaxRuns

VARIABLES frames, nesting, postprocs, barrier, count, exc, bad, report, ending
VARIABLE subject

tvars == <<frames, nesting, postprocs, barrier, count, exc, bad, report, ending>>

T == INSTANCE TestFixtures
ASSUME TestFixturesAssumption == T!TestFixturesAssumption

MCLets == {[n \in Names |-> IF n = "x" THEN 1 ELSE Unbound], [n \in Names |-> 1]}
MCUpdates == {<<<<"x", "y">>, [n \in Names |-> 2]>>}
MCDefaults == {<<"x", 1>>}

MCInit == Init /\ T!Init /\ subject \in {"dynvars", "tests"}
MCNext ==
  \/ subject = "dynvars" /\ Next /\ UNCHANGED <<tvars, subject>>
  \/ subject = "tests" /\ T!Next /\ UNCHANGED <<vars, subject>>
MCSpec == MCInit /\ [][MCNext]_<<vars, tvars, subject>>

\* The type invariants of both modules.
MCTypeOK == TypeOK /\ T!TypeOK
\* The properties of TestFixtures: the bookkeeping follows the nesting,
BookkeepingMatchesNesting == T!BookkeepingMatchesNesting
\* and a failing test is heard and reported, and nothing else is.
FailuresAreReported == T!FailuresAreHeard /\ T!ReportsTellTheTruth
==============================================================================
