----------------------------- MODULE Processes -----------------------------
(***************************************************************************)
(* What the process monitors have in common: the pids of a machine and the *)
(* program each one runs.                                                  *)
(***************************************************************************)
EXTENDS Naturals, FiniteSets

CONSTANT Pids   \* process ids; one is used again after an exit

ASSUME ProcessesAssumption == IsFiniteSet(Pids)

VARIABLES comm,      \* name of the program each pid runs; <<>>: no process
          pending    \* signal of each process: "none", "SIGSTOP", "SIGKILL"

Live == {p \in Pids : comm[p] # <<>>}
=============================================================================
