----------------------------- MODULE MCKvCommit -----------------------------
(* KvCommit from the second leader of MCKvRaft on. *)
EXTENDS MCKvRaft, KvCommit

\* Every node acknowledged the first leader's noop.
LateCommitInit ==
  /\ SecondLeader
  /\ acked = {<<p, 1, 1>> : p \in Node \ {n1}}
  /\ led = [t \in 1..2 |-> IF t = 1 THEN <<Led(1)>> ELSE <<Led(1), Led(2)>>]

LateCommitSpec == LateCommitInit /\ [][CommitNext]_commitVars

\* LiveView without the spent requests is enough: who led a term, which Elected
\* reads off its requests, is the same in all states here (n1, n2, then n1).
CommitLiveView == <<LiveView, acked, led>>
=============================================================================
