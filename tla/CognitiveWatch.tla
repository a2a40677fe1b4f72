-------------------------- MODULE CognitiveWatch --------------------------
(***************************************************************************)
(* cognitive-oracle-v2.bpf.c and cognitive-watcher-v2.c: a probe on        *)
(* tty_write puts what Claude writes to its terminal into a ring buffer    *)
(* and a map of latest states; the watcher takes the events out, follows   *)
(* thinking states and stores content in an SQLite table whose             *)
(* content_hash is unique.  Two watchers share this code: the one of       *)
(* cognitive_telemetry_kit tracks thinking states, the older one of        *)
(* chronos_engine stores every frame.                                      *)
(*                                                                         *)
(* The probe runs on several processors at once: each of its accesses to a *)
(* counter, a map or the ring buffer is a step.  Hashes are taken to be    *)
(* collision free: a row is its hash.  failed, dropped, abandoned, ended   *)
(* and stored are history variables.                                       *)
(***************************************************************************)
EXTENDS FrameParse

CONSTANTS
  Thread,       \* threads that write to a terminal
  Claude,       \* those whose comm begins with "claude"
  tgid,         \* thread -> process
  Nil,
  Frames,       \* what is written, as strip_ansi leaves it; <<>> when reading it failed
  RingSize,     \* records the ring buffer holds
  LatestSize,   \* entries of latest_state_by_pid
  MaxWrites, MaxTime, MaxStarts,   \* bounds of the instance
  Tracking      \* which watchers: subset of BOOLEAN

VARIABLES
  tracking,     \* which watcher this is
  phase,        \* "down", "attached", "enabled" or "polling": how far main() is
  stats,        \* cognitive_stats_v2: writes seen, Claude's writes, events emitted
  step,         \* how far each thread's probe is
  probes,       \* the record a thread has reserved and not submitted
  ring,         \* records in order of reservation
  latest,       \* latest_state_by_pid: process -> frame
  count,        \* event_count, events_saved, events_deduped
  last_hash,    \* last_state.content_hash
  tracker,      \* state_tracker
  db,           \* content_hash of the rows; survives the watcher
  now, starts, writes,   \* the clock and the counters the bounds are on
  failed,       \* inserts that failed in this session
  dropped,      \* events that found the ring buffer full
  abandoned,    \* writes without a file or a terminal behind them
  ended,        \* states that ended
  stored        \* hashes the watcher has answered for: saved or skipped as duplicates

probeVars == <<stats, step, probes, ring, latest, dropped, abandoned>>
watcherVars == <<count, last_hash, tracker, db, failed, ended, stored>>
vars == <<tracking, phase, probeVars, watcherVars, now, starts, writes>>

ASSUME WatchAssumption ==
  /\ IsFiniteSet(Thread) /\ Claude \subseteq Thread /\ Thread \subseteq DOMAIN tgid
  /\ Nil \notin Frames /\ \A frame \in Frames : parse_state(frame) # Nil
  /\ RingSize \in Nat \ {0} /\ LatestSize \in Nat \ {0}
  /\ MaxWrites \in Nat /\ MaxTime \in Nat /\ MaxStarts \in Nat
  /\ Tracking \subseteq BOOLEAN

NoState == [current_thinking_state |-> <<>>, state_start_time |-> 0, tool_execution_count |-> 0,
            tool_names |-> <<>>, is_active |-> FALSE]
NoCount == [events |-> 0, saved |-> 0, deduped |-> 0]
NoStats == [seen |-> 0, claude |-> 0, emitted |-> 0]
NoLatest == [p \in {} |-> <<>>]

Init ==
  /\ tracking \in Tracking
  /\ phase = "down"
  /\ stats = NoStats /\ step = [t \in Thread |-> "out"] /\ probes = [t \in Thread |-> Nil]
  /\ ring = <<>> /\ latest = NoLatest
  /\ count = NoCount /\ last_hash = Nil /\ tracker = NoState
  /\ db = {} /\ stored = {}
  /\ now = 0 /\ starts = 0 /\ writes = 0
  /\ failed = 0 /\ dropped = 0 /\ abandoned = 0 /\ ended = 0

-----------------------------------------------------------------------------
(* probe_tty_write. *)

Emits(t) == phase \in {"enabled", "polling"} /\ t \in Claude

Goes(t, to) == step' = [step EXCEPT ![t] = to]

\* Up to increment_stat(1).
Enter(t) ==
  /\ phase # "down" /\ step[t] = "out" /\ writes < MaxWrites
  /\ writes' = writes + 1
  /\ stats' = [stats EXCEPT !.seen = @ + 1, !.claude = IF Emits(t) THEN @ + 1 ELSE @]
  /\ IF Emits(t) THEN Goes(t, "detected") ELSE UNCHANGED step
  /\ UNCHANGED <<tracking, phase, probes, ring, latest, dropped, abandoned, watcherVars, now, starts>>

\* No argument, no file or no terminal: nobody counts that.
Abandon(t) ==
  /\ step[t] = "detected" /\ Goes(t, "out")
  /\ abandoned' = abandoned + 1
  /\ UNCHANGED <<tracking, phase, stats, probes, ring, latest, dropped, watcherVars, now, starts, writes>>

\* bpf_ringbuf_reserve; what is put into the record is the frame.
Reserve(t, frame) ==
  /\ step[t] = "detected"
  /\ IF Len(ring) = RingSize
     THEN dropped' = dropped + 1 /\ Goes(t, "out") /\ UNCHANGED <<probes, ring>>
     ELSE /\ probes' = [probes EXCEPT ![t] = frame]
          /\ ring' = Append(ring, [by |-> t, frame |-> frame, ready |-> FALSE])
          /\ Goes(t, "filling")
          /\ UNCHANGED dropped
  /\ UNCHANGED <<tracking, phase, stats, latest, abandoned, watcherVars, now, starts, writes>>

\* increment_stat(2), before the record is submitted.
CountEmitted(t) ==
  /\ step[t] = "filling" /\ Goes(t, "counted")
  /\ stats' = [stats EXCEPT !.emitted = @ + 1]
  /\ UNCHANGED <<tracking, phase, probes, ring, latest, dropped, abandoned, watcherVars, now, starts, writes>>

\* bpf_map_update_elem fails for a new process once the map is full.
LatestAfter(p, frame) ==
  IF p \in DOMAIN latest \/ Cardinality(DOMAIN latest) < LatestSize
  THEN [q \in DOMAIN latest \union {p} |-> IF q = p THEN frame ELSE latest[q]] ELSE latest

\* bpf_map_update_elem, whose failure is ignored.
UpdateLatest(t) ==
  /\ step[t] = "counted" /\ Goes(t, "latest")
  /\ latest' = LatestAfter(tgid[t], probes[t])
  /\ UNCHANGED <<tracking, phase, stats, probes, ring, dropped, abandoned, watcherVars, now, starts, writes>>

\* The record of t becomes ready.
SubmittedIfRoom(t) ==          \* mutant: a record is not submitted when the map is full
  IF tgid[t] \in DOMAIN latest
  THEN [i \in DOMAIN ring |-> IF ring[i].by = t THEN [ring[i] EXCEPT !.ready = TRUE] ELSE ring[i]]
  ELSE ring
Submitted(t) ==
  [i \in DOMAIN ring |-> IF ring[i].by = t THEN [ring[i] EXCEPT !.ready = TRUE] ELSE ring[i]]

\* bpf_ringbuf_submit.
Submit(t) ==
  /\ step[t] = "latest" /\ Goes(t, "out")
  /\ ring' = Submitted(t)
  /\ probes' = [probes EXCEPT ![t] = Nil]
  /\ UNCHANGED <<tracking, phase, stats, latest, dropped, abandoned, watcherVars, now, starts, writes>>

\* A probe that has begun goes on.
GoesOn(t) ==
  \/ Abandon(t) \/ \E frame \in Frames : Reserve(t, frame)
  \/ CountEmitted(t) \/ UpdateLatest(t) \/ Submit(t)

-----------------------------------------------------------------------------
(* Storing.  INSERT OR IGNORE: a hash that is there already is not an error. *)

Hash(b) == parse_state(b)
SummaryHash(name, duration) == <<<<"*">> \o name, <<"duration">>, [i \in 1..duration |-> "second"]>>
Duration == now - tracker.state_start_time

Inserted(hash, ok) == IF ok THEN db \union {hash} ELSE db
One(b) == IF b THEN 1 ELSE 0

\* The hash that later frames are compared with.
LastAfterEarly(hash, ok) == hash       \* mutant: remembered before the insert is known to have worked
LastAfter(hash, ok) == IF ok THEN hash ELSE last_hash

\* chronos_engine: a frame like the last one counts as a duplicate and is inserted again.
save_frame(b, ok) ==
  /\ db' = Inserted(Hash(b), ok)
  /\ last_hash' = LastAfter(Hash(b), ok)
  /\ stored' = IF ok THEN stored \union {Hash(b)} ELSE stored
  /\ count' = [events |-> count.events + 1, saved |-> count.saved + One(ok),
               deduped |-> count.deduped + One(Hash(b) = last_hash)]
  /\ failed' = failed + One(~ok)
  /\ UNCHANGED <<tracker, ended>>

\* The state that a thinking frame leaves the tracker in.
StartTracking(name) ==
  [current_thinking_state |-> name, state_start_time |-> now, tool_execution_count |-> 0,
   tool_names |-> <<>>, is_active |-> TRUE]

\* The row of a state that ends.
SummaryRowNew(name) == SummaryHash(name, Duration)      \* mutant: names the state that begins
SummaryRow(name) == SummaryHash(tracker.current_thinking_state, Duration)

\* A thinking frame: a new name ends the tracked state, whose summary is stored.
save_thinking(b, ok) ==
  LET name == extract_thinking_state(b)
      starts_new == name # <<>> /\ (~tracker.is_active \/ name # tracker.current_thinking_state)
      ends == starts_new /\ tracker.is_active
  IN /\ tracker' = IF starts_new THEN StartTracking(name) ELSE tracker
     /\ ended' = ended + One(ends)
     /\ db' = IF ends THEN Inserted(SummaryRow(name), ok) ELSE db
     /\ failed' = failed + One(ends /\ ~ok)
     /\ count' = [events |-> count.events + 1, saved |-> count.saved + One(ends /\ ok),
                  deduped |-> count.deduped + 1]
     /\ UNCHANGED <<last_hash, stored>>

\* Any other frame: its tool is counted, then the frame is stored unless it is the
\* last one stored.
CountsAsDuplicateNever(b) == 0          \* mutant: skipped frames are not counted
CountsAsDuplicate(b) == One(Hash(b) = last_hash)

save_content(b, ok) ==
  LET tool == ParseTool(b)
      counted == tool # <<>> /\ tracker.is_active
      duplicate == Hash(b) = last_hash
  IN /\ tracker' = IF counted
                   THEN [tracker EXCEPT !.tool_execution_count = @ + 1,
                                        !.tool_names = add_tool_to_list(@, tool)]
                   ELSE tracker
     /\ db' = IF duplicate THEN db ELSE Inserted(Hash(b), ok)
     /\ last_hash' = IF duplicate THEN last_hash ELSE LastAfter(Hash(b), ok)
     /\ stored' = IF duplicate \/ ok THEN stored \union {Hash(b)} ELSE stored
     /\ count' = [events |-> count.events + 1, saved |-> count.saved + One(~duplicate /\ ok),
                  deduped |-> count.deduped + CountsAsDuplicate(b)]
     /\ failed' = failed + One(~duplicate /\ ~ok)
     /\ UNCHANGED ended

save_state(b, ok) == IF is_thinking_state(b) THEN save_thinking(b, ok) ELSE save_content(b, ok)

\* ok: SQLite takes the row, if there is one to take.  A record that is not ready
\* holds up the ones behind it.
handle_event(ok) ==
  /\ phase = "polling" /\ ring # <<>> /\ Head(ring).ready
  /\ ring' = Tail(ring)
  /\ IF tracking THEN save_state(Head(ring).frame, ok) ELSE save_frame(Head(ring).frame, ok)
  /\ UNCHANGED <<tracking, phase, stats, step, probes, latest, dropped, abandoned, now, starts, writes>>

-----------------------------------------------------------------------------
(* main. *)

\* Database opened, programs loaded, kprobe attached.
Start ==
  /\ phase = "down" /\ starts < MaxStarts
  /\ phase' = "attached" /\ starts' = starts + 1
  /\ UNCHANGED <<tracking, probeVars, watcherVars, now, writes>>

Enable == phase = "attached" /\ phase' = "enabled" /\ UNCHANGED <<tracking, probeVars, watcherVars, now, starts, writes>>
Poll == phase = "enabled" /\ phase' = "polling" /\ UNCHANGED <<tracking, probeVars, watcherVars, now, starts, writes>>

\* A signal, a failed set-up step, a failed poll or a kill: the maps go with the
\* process, what is in the ring buffer and the tracked state with them.
Stop ==
  /\ phase # "down"
  /\ phase' = "down"
  /\ stats' = NoStats /\ step' = [t \in Thread |-> "out"] /\ probes' = [t \in Thread |-> Nil]
  /\ ring' = <<>> /\ latest' = NoLatest
  /\ count' = NoCount /\ last_hash' = Nil /\ tracker' = NoState
  /\ failed' = 0 /\ dropped' = 0 /\ abandoned' = 0 /\ ended' = 0
  /\ UNCHANGED <<tracking, db, stored, now, starts, writes>>

Tick ==
  /\ now < MaxTime /\ tracker.is_active
  /\ now' = now + 1
  /\ UNCHANGED <<tracking, phase, probeVars, watcherVars, starts, writes>>

Handle == \E ok \in BOOLEAN : handle_event(ok)

Next ==
  \/ \E t \in Thread : Enter(t) \/ GoesOn(t)
  \/ Handle
  \/ Start \/ Enable \/ Poll \/ Stop
  \/ Tick

\* A probe that has begun runs to its end, and the loop in main polls.
FairSpec == Init /\ [][Next]_vars /\ WF_vars(Handle) /\ \A t \in Thread : WF_vars(GoesOn(t))

-----------------------------------------------------------------------------
TypeOK ==
  /\ tracking \in BOOLEAN
  /\ phase \in {"down", "attached", "enabled", "polling"}
  /\ \A t \in Thread : /\ step[t] \in {"out", "detected", "filling", "counted", "latest"}
                        /\ probes[t] \in Frames \union {Nil}
  /\ Len(ring) <= RingSize
  /\ Cardinality(DOMAIN latest) <= LatestSize
  /\ Len(tracker.current_thinking_state) < StateNameSize
  /\ Len(tracker.tool_names) < ToolNamesSize
  /\ tracker.state_start_time <= now

\* Nothing falls between the counters of the probe and those of the watcher: what
\* Claude writes is emitted, dropped, without a terminal or in a probe that has not
\* counted it; what is emitted is handled, ready in the buffer or in a probe that has
\* not submitted it; what is handled is saved, skipped or failed.  Probes of several
\* threads are at any of their steps, and a restart begins all counts anew.
EventsAccounted ==
  /\ stats.claude = stats.emitted + dropped + abandoned
                      + Cardinality({t \in Thread : step[t] \in {"detected", "filling"}})
  /\ stats.emitted = count.events + Cardinality({i \in DOMAIN ring : ring[i].ready})
                      + Cardinality({t \in Thread : step[t] \in {"counted", "latest"}})
  /\ tracking => count.events + ended = count.saved + count.deduped + failed
  /\ ~tracking => count.events = count.saved + failed

\* A frame the watcher has answered for is in the table, through failed inserts,
\* skipped duplicates and restarts; so is the one later frames are compared with.
AnsweredIsStored == stored \subseteq db /\ last_hash \in db \union {Nil}

\* When another state takes over, the one that ends is in the table with its name
\* and duration, unless that insert failed.
EndedStateIsStored ==
  [][(tracker.is_active /\ tracker'.is_active
        /\ tracker'.current_thinking_state # tracker.current_thinking_state)
     => \/ SummaryHash(tracker.current_thinking_state, Duration) \in db'
        \/ failed' = failed + 1]_vars

\* What is in the ring buffer is handled in the end, unless the watcher stops.
EventsAreHandled ==
  (phase = "polling" /\ ring # <<>>) ~> (phase = "down" \/ ring = <<>>)

\* A watcher reads a frame by its words: wherever it is drawn, whatever control
\* sequences and unprintable bytes surround it, wherever it is cut off.  The parsing
\* depends on the frame alone, so it is judged for all short frames before the
\* watcher starts.
FramesAreRead == starts = 0 => ThinkingHasName /\ IndentDoesNotMatter /\ TextSurvives
=============================================================================
