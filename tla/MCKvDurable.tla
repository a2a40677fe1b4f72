---------------------------- MODULE MCKvDurable ----------------------------
(* Instances of KvDurable for TLC. *)
EXTENDS KvDurable, MCKvRaft

\* With one, also what a restart left of it.
SubmittedOrFreed == Submitted \union {Freed}

\* Rivals in term 3.
ThirdTerm == {n1, n2} \X {3}

\* The voter between the rivals is the one that crashes.
Voter == {n3}

\* n1 has just become the leader of term 1, and there is room for a command.
FirstLeader ==
  /\ current_term = [n \in Node |-> 1]
  /\ voted_for = [n \in Node |-> n1]
  /\ log = [n \in Node |-> IF n = n1 THEN <<Led(1)>> ELSE <<>>]
  /\ state = [n \in Node |-> IF n = n1 THEN "leader" ELSE "follower"]
  /\ commit_index = [n \in Node |-> 0]
  /\ last_applied = [n \in Node |-> 0]
  /\ peer_states = [n \in Node |->
       IF n = n1 THEN freshPeers(<<>>) ELSE [p \in Node |-> NoPeer]]
  /\ panicked = {}
  /\ applied = [n \in Node |-> {}]
  /\ msgs = Ballots(n1, 1, 0) \union FirstHeartbeats(n1, 1)

\* After that, n3 stood in term 2 with an empty log: both others refused and stepped
\* down, which leaves no record.  The answers are lost.
FailedCandidate ==
  /\ current_term = [n \in Node |-> 2]
  /\ voted_for = [n \in Node |-> IF n = n3 THEN n3 ELSE Nil]
  /\ log = [n \in Node |-> IF n = n3 THEN <<>> ELSE <<Led(1)>>]
  /\ state = [n \in Node |-> IF n = n3 THEN "candidate" ELSE "follower"]
  /\ commit_index = [n \in Node |-> 0]
  /\ last_applied = [n \in Node |-> 0]
  /\ peer_states = [n \in Node |->
       IF n = n1 THEN freshPeers(<<>>) ELSE [p \in Node |-> NoPeer]]
  /\ panicked = {}
  /\ applied = [n \in Node |-> {}]
  /\ msgs = Ballots(n1, 1, 0) \union FirstHeartbeats(n1, 1)

\* n3 led term 1, but its entries reached nobody.  n2 stood in vain in term 2, and leads
\* term 3 by the vote of n1; n3, which has heard of neither, will have to cut its log.
\* Each has its noop and a command.
FirstEntry(term) == [term |-> term, index |-> 1, command |-> Noop]
TwoEntries(term) ==
  <<FirstEntry(term), [term |-> term, index |-> 2, command |-> CHOOSE c \in Command : TRUE]>>
DeposedLeader ==
  /\ current_term = [n \in Node |-> IF n = n3 THEN 1 ELSE 3]
  /\ voted_for = [n \in Node |-> IF n = n3 THEN n3 ELSE n2]
  /\ log = [n \in Node |->
       CASE n = n1 -> <<>> [] n = n2 -> TwoEntries(3) [] OTHER -> TwoEntries(1)]
  /\ state = [n \in Node |-> IF n = n1 THEN "follower" ELSE "leader"]
  /\ commit_index = [n \in Node |-> 0]
  /\ last_applied = [n \in Node |-> 0]
  /\ peer_states = [n \in Node |->
       IF n = n1 THEN [p \in Node |-> NoPeer] ELSE freshPeers(<<>>)]
  /\ panicked = {}
  /\ applied = [n \in Node |-> {}]
  /\ msgs = Ballots(n3, 1, 0) \union FirstHeartbeats(n3, 1) \union
       {m \in Ballots(n2, 2, 0) \union Ballots(n2, 3, 0) :
          m.type = "RequestVoteResponse" => m.from = n1 /\ m.term = 3} \union
       {[type |-> "AppendEntries", from |-> n2, to |-> p, term |-> 3, prev_log_index |-> 0,
         prev_log_term |-> 0, entries |-> <<FirstEntry(3)>>, leader_commit |-> 0]
          : p \in {n1, n3}}

\* What the records say: the last vote, and the log entry by entry.
Recorded(term, leader) ==
  /\ wal = [n \in Node |-> [term |-> term[n], voted_for |-> leader[n], entries |-> log[n]]]
  /\ torn = {}
  /\ crashes = 0
  /\ cut = {}
  /\ misread = {}

\* Three later starts: the first leader with a client, the failed candidacy before
\* both others stand in term 3, and the leader that has been replaced.
LateDurableSpec ==
  /\ \/ FirstLeader /\ Recorded(current_term, voted_for)
     \/ /\ FailedCandidate
        /\ Recorded([n \in Node |-> IF n = n3 THEN 2 ELSE 1],
                    [n \in Node |-> IF n = n3 THEN n3 ELSE n1])
     \/ DeposedLeader /\ Recorded(current_term, voted_for)
  /\ [][DurableNext]_durableVars

\* The last term a node may come back to; a node that never crashes stays.
Floor(n) == IF n \in Crashers THEN wal[n].term ELSE current_term[n]

\* As in MCKvRaft, messages that can change nothing any more are left out, but not
\* the votes of term 3, of which a property speaks.  (The node that crashes
\* stands no more, so that no response changes it.)
DurableView ==
  <<nodeVars, applyVars, wal, cut, misread, crashes, torn,
    {m \in msgs :
       /\ m.term + MaxStaleness >= Floor(m.to) \/ m.term = 3
       /\ SpentResponse(m) => m.type = "RequestVoteResponse" /\ m.vote_granted}>>
=============================================================================
