-------------------------- MODULE MCSearchPipeline --------------------------
(* Instances of SearchPipeline for TLC. *)
EXTENDS SearchPipeline, TLC

CONSTANTS s1, s2

AllFaults == FaultKinds
PollFaults == {"dispatch", "database", "worker crash"}
AllRegistered == [s \in Subs |-> "registered"]
MixedProviders == [s \in Subs |-> CASE s = s2 -> "unregistered"
                                    [] OTHER -> "registered"]

PollSymmetry ==
  Permutations(Polls) \cup Permutations(Runs) \cup Permutations(Subs \ {s2})
HookSymmetry ==
  Permutations(Hooks) \cup Permutations(Runs) \cup Permutations(Evals)

\* The bound of the callbacks run: two callbacks with two executions, or one
\* callback with three, a redelivered message next to its own retry.
FewProcesses ==
  Cardinality({h \in Hooks : hookPc[h] # "idle"}) +
  Cardinality({x \in Evals : evalPc[x] # "idle"}) <= 4
=============================================================================
