------------------------------ MODULE MCKvRaft ------------------------------
(* Instances of KvRaft for TLC. *)
EXTENDS KvRaft, TLC

CONSTANTS n1, n2, n3

ThreeNodes == {n1, n2, n3}
TwoTickers == {n1, n2}

\* Without a write-ahead log an entry holds what was submitted, or is a noop.
Submitted == Command \union {Noop}

\* Two rivals over three terms.
Rivals == {n1, n2} \X (1..3)

\* The first leader comes back in term 3.
Return == {<<n1, 3>>}

\* Node ids are only compared for equality; n3 never stands.
RivalSymmetry == Permutations({n1, n2})

\* A response that can no longer change its target's state: it neither carries
\* a newer term nor belongs to a candidacy or a leadership of the current one.
\* (Terms only grow, and a term is stood for at its start or not at all.)
SpentResponse(m) ==
  \/ /\ m.type = "RequestVoteResponse"
     /\ m.term <= current_term[m.to]
     /\ m.vote_granted => m.term < current_term[m.to] \/ state[m.to] # "candidate"
  \/ /\ m.type = "AppendEntriesResponse"
     /\ \/ m.term < current_term[m.to]
        \/ m.term = current_term[m.to] /\ state[m.to] = "follower"

\* A request that is no longer delivered in this instance, or that will be
\* refused with a response spent already: its sender has reached the last term
\* of the instance, and leads it no more.
SpentRequest(m) ==
  /\ m.type \in {"RequestVote", "AppendEntries"}
  /\ \/ m.term + MaxStaleness < current_term[m.to]
     \/ /\ m.term < current_term[m.to]
        /\ state[m.from] = "follower"
        /\ \A t \in ElectionTimers : t[2] <= current_term[m.from]

\* States that differ in spent messages only have the same futures.
LiveView == <<nodeVars, applyVars, {m \in msgs : ~SpentResponse(m) /\ ~SpentRequest(m)}>>

\* A later start, for longer logs: n1 led term 1 and every node acknowledged its
\* noop; in term 2 both others voted for n2, which has just become the leader.
Led(term) == [term |-> term, index |-> term, command |-> Noop]

Ballots(n, term, index) ==
  {[type |-> "RequestVote", from |-> n, to |-> p, term |-> term,
    last_log_index |-> index, last_log_term |-> index] : p \in Node \ {n}}
  \union
  {[type |-> "RequestVoteResponse", from |-> p, to |-> n, term |-> term,
    vote_granted |-> TRUE] : p \in Node \ {n}}

FirstHeartbeats(n, term) ==
  {[type |-> "AppendEntries", from |-> n, to |-> p, term |-> term,
    prev_log_index |-> term - 1, prev_log_term |-> term - 1, entries |-> <<Led(term)>>,
    leader_commit |-> 0] : p \in Node \ {n}}

Acks(n, term) ==
  {[type |-> "AppendEntriesResponse", from |-> p, to |-> n, term |-> term, success |-> TRUE,
    conflict_index |-> 0, conflict_term |-> 0] : p \in Node \ {n}}

SecondLeader ==
  /\ current_term = [n \in Node |-> 2]
  /\ voted_for = [n \in Node |-> n2]
  /\ log = [n \in Node |-> IF n = n2 THEN <<Led(1), Led(2)>> ELSE <<Led(1)>>]
  /\ state = [n \in Node |-> IF n = n2 THEN "leader" ELSE "follower"]
  /\ commit_index = [n \in Node |-> 0]
  /\ last_applied = [n \in Node |-> 0]
  /\ peer_states = [n \in Node |->
       CASE n = n1 -> freshPeers(<<>>)
         [] n = n2 -> freshPeers(<<Led(1)>>)
         [] OTHER -> [p \in Node |-> NoPeer]]
  /\ panicked = {}
  /\ applied = [n \in Node |-> {}]
  /\ msgs = Ballots(n1, 1, 0) \union FirstHeartbeats(n1, 1) \union Acks(n1, 1)
              \union Ballots(n2, 2, 1) \union FirstHeartbeats(n2, 2)

LateSpec == SecondLeader /\ [][Next]_vars
=============================================================================
