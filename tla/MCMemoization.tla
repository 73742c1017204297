--------------------------- MODULE MCMemoization ---------------------------
(***************************************************************************)
(* Memoized functions and memoized generators, each on their own: a        *)
(* behaviour is one of Memoize or of GMemoize, and what it is not about    *)
(* stays in its initial state, where no fair step is enabled.              *)
(*                                                                         *)
(* Functions: two that call each other and themselves, two keys of the one *)
(* and one of the other.  Generators: two items and then StopIteration or  *)
(* another exception.  Two threads.                                        *)
(***************************************************************************)
EXTENDS Memoize

CONSTANTS Items, OneIterator, Sharing, MaxNext

VARIABLES memos, gmemo, pulled, owner, ending, instance, gpc, using, place, result, got
VARIABLE subject

gvars == <<memos, gmemo, pulled, owner, ending, instance, gpc, using, place, result, got>>

G == INSTANCE GMemoize WITH memo <- gmemo, pc <- gpc, j <- place
ASSUME GMemoizeAssumption == G!GMemoizeAssumption

MCFunctionOf == [k \in Keys |-> IF k = "g1" THEN "g" ELSE "f"]
MCCalls == [k \in Keys |-> CASE k = "f2" -> {"g1", "f0"} [] k = "g1" -> {"f0"} [] OTHER -> {}]
MCRank == [k \in Keys |-> CASE k = "f2" -> 2 [] k = "g1" -> 1 [] OTHER -> 0]

MCInit ==
  /\ subject \in {"functions", "generators"}
  /\ Init /\ G!Init
  /\ subject # "functions" => \A t \in Threads : key[t] = CHOOSE k \in Keys : TRUE
  /\ subject # "generators" => ending = "stop"

MCNext ==
  \/ subject = "functions" /\ Next /\ UNCHANGED <<gvars, subject>>
  \/ subject = "generators" /\ G!Next /\ UNCHANGED <<vars, subject>>

MCSpec == MCInit /\ [][MCNext]_<<vars, gvars, subject>>
          /\ Fairness /\ G!Fairness

\* The type invariants of both modules.
MCTypeOK == TypeOK /\ G!TypeOK
\* Every instance of a memoized generator gives its items in order (GMemoize).
ItemsInOrder == G!ItemsInOrder
\* Every call of a memoized function returns, unless the locks of two functions are
\* in a deadlock, and so does every call to next of a memoized generator.
CallsAndNextReturn == CallsReturn /\ G!NextReturns
==============================================================================
