---------------------------- MODULE MCSentinels ----------------------------
(***************************************************************************)
(* The process monitors with two pids, a Claude program and one that the   *)
(* list names; and the hooks on every system call with two threads of      *)
(* one process.  The two halves share nothing, so a behaviour is one of    *)
(* the first or one of the second: the states add up, not multiply.         *)
(***************************************************************************)
EXTENDS Sentinels, SyscallOracle

CONSTANT MaxWatchedCalls   \* bound: calls made where two monitors watch

VARIABLE half   \* "processes" or "calls"

OneProcess == [t \in Threads |-> "p"]

Claude == <<"c", "l">>
RemoveFile == <<"r", "m">>

TwoPrograms == {Claude, RemoveFile}
OneClaude == {<<"c">>}

Entry(pattern, exact, severity) ==
    [pattern |-> pattern, exact |-> exact, severity |-> severity, enabled |-> TRUE]

TwoLetters == {"c", "r"}

OneList == {<<Entry(<<"r">>, FALSE, 2)>>}

\* Either the Observer or an exec-time monitor runs beside the shepherd; one
\* Claude session runs when they are loaded.
MCInit ==
    /\ half \in {"processes", "calls"}
    /\ Init /\ OracleInit
    /\ IF half = "processes"
       THEN /\ agent_processes = {} <=> monitor.kind # "none"
            /\ loaded = "counter"
       ELSE agent_processes = {} /\ monitor.kind = "none"
    /\ \E p \in Pids : comm[p] = Claude /\ Live = {p}

\* Where both the Observer and the shepherd watch, fewer calls are made.
ProcessesNext ==
    /\ half = "processes"
    /\ Next
    /\ enabled /\ agent_processes # {} => calls' =< MaxWatchedCalls
    /\ UNCHANGED <<half, oracleVars>>

CallsNext ==
    /\ half = "calls"
    /\ OracleNext
    /\ UNCHANGED <<half, vars>>

MCSpec ==
    /\ MCInit
    /\ [][ProcessesNext \/ CallsNext]_<<half, vars, oracleVars>>
    /\ Fairness /\ OracleFairness

\* What a hook leaves for a daemon is answered: a dangerous call on record ends the
\* process's life, and a reserved record reaches the daemon that counts calls.
RecordsAreAnswered == DangerousIsEnded /\ RecordsReachDaemon
=============================================================================
