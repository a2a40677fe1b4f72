------------------------------ MODULE KvCommit ------------------------------
(***************************************************************************)
(* KvRaft with the history that its safety argument speaks of.  A success  *)
(* of handleAppendEntries (raft.zig) does not say how far the accepted     *)
(* batch reached, so the leader cannot know: acked records it.  led keeps  *)
(* the log of each term's leader as that leader had it last.               *)
(***************************************************************************)
EXTENDS KvRaft

VARIABLES
  acked,  \* history: <<p, t, k>> when p accepted, in term t, a batch that ends at k
  led     \* history: the log of the leader of each term that has had one

commitVars == <<vars, acked, led>>

\* What HandleAppendEntries(m) acknowledges.
acknowledged(m) == IF accepts(m) THEN {<<m.to, m.term, m.prev_log_index + Len(m.entries)>>} ELSE {}

\* The log n has after its step, if it leads then.
noteLed(n) ==
  led' = IF state'[n] = "leader"
         THEN [t \in DOMAIN led \union {current_term'[n]} |->
                 IF t = current_term'[n] THEN log'[n] ELSE led[t]]
         ELSE led

CommitInit == Init /\ acked = {} /\ led = [t \in {} |-> <<>>]

CommitNext ==
  \/ \E n \in Node : Tick(n) /\ UNCHANGED acked /\ noteLed(n)
  \/ \E n \in Node, command \in Command : Submit(n, command) /\ UNCHANGED acked /\ noteLed(n)
  \/ \E m \in msgs : HandleRequestVote(m) /\ UNCHANGED acked /\ noteLed(m.to)
  \/ \E m \in msgs : HandleRequestVoteResponse(m) /\ UNCHANGED acked /\ noteLed(m.to)
  \/ \E m \in msgs :
       HandleAppendEntries(m) /\ acked' = acked \union acknowledged(m) /\ noteLed(m.to)
  \/ \E m \in msgs : HandleAppendEntriesResponse(m) /\ UNCHANGED acked /\ noteLed(m.to)

CommitSpec == CommitInit /\ [][CommitNext]_commitVars

-----------------------------------------------------------------------------
(* What a majority has accepted is in the logs of all later leaders. *)

\* x has sent heartbeats in term t: it has been its leader.
Elected(x, t) == \E m \in msgs : m.type = "AppendEntries" /\ m.from = x /\ m.term = t

\* The two logs are the same up to k.
SameTo(l, r, k) == k <= Len(l) /\ k <= Len(r) /\ \A j \in 1..k : l[j] = r[j]

\* The leader of term t wrote an entry of its own at k.
Written(k, t) == t \in DOMAIN led /\ k \in 1..Len(led[t]) /\ led[t][k].term = t

\* p led term t, or accepted in that term a batch that reached k.
Acked(p, k, t) == Elected(p, t) \/ \E a \in acked : a[1] = p /\ a[2] = t /\ a[3] >= k

\* A majority has accepted the entry in the term it was written in.
Chosen(k, t) ==
  /\ Written(k, t)
  /\ \E Q \in SUBSET Node : Cardinality(Q) >= quorumSize /\ \A p \in Q : Acked(p, k, t)

Inherited(k, t) == \A u \in DOMAIN led : u > t => SameTo(led[u], led[t], k)

\* An entry that a majority accepted from the leader that wrote it is in the
\* log of every later leader, with all that is before it, whatever messages
\* were lost, late or repeated and whatever commit index was computed.
ChosenInLaterLogs ==
  \A t \in DOMAIN led : \A k \in 1..Len(led[t]) : Chosen(k, t) => Inherited(k, t)

-----------------------------------------------------------------------------
(* What Raft asks for where raft.zig does something else. *)

\* A leader credits a peer with no more than it acknowledged in the leader's
\* term.  HandleAppendEntriesResponse credits a full batch instead.
CreditsEarned ==
  \A n, p \in Node :
    (state[n] = "leader" /\ p # n /\ peer_states[n][p].match_index > 0) =>
      \E a \in acked : /\ a[1] = p /\ a[2] = current_term[n]
                       /\ peer_states[n][p].match_index <= a[3]

\* A request announces no commit index beyond its last entry.  Where it does,
\* HandleAppendEntries takes it over up to the end of the follower's log.
CommitsCarried ==
  \A m \in msgs :
    m.type = "AppendEntries" => m.leader_commit <= m.prev_log_index + Len(m.entries)
=============================================================================
