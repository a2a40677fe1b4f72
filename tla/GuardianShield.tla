-------------------------- MODULE GuardianShield --------------------------
(***************************************************************************)
(* The kernel side of Guardian Shield v9: process-tree tags kept by the    *)
(* fork, exec and exit tracepoints, and the verdicts of the LSM hooks,     *)
(* while the loader fills the policy, attaches the hooks one by one and    *)
(* flips `ready`.                                                          *)
(*                                                                         *)
(* A process is a thread group: its leader, other threads, or both.        *)
(* Directory entries (at) are tracked for files; what renaming a directory *)
(* does to the entries below it is not.  A hook sees a place as            *)
(* reconstruct_path or bpf_d_path gives it.  lineage, lost, owed, taken    *)
(* and missed are history variables.                                       *)
(***************************************************************************)
EXTENDS ShieldPolicy, DentryWalk

CONSTANTS
  Pid,         \* process identifiers, reused after an exit
  File,        \* files
  Nil,         \* no file
  Rules,       \* the configured protected paths: prefix -> operations guarded
  Entries,     \* the directory entries at the start: path -> file or Nil
  Exes,        \* the programs of the instance, each the set of exe lists it is on
  Configs,     \* configurations of the instance (struct gs_config without ready)
  MemDevices,  \* paths of /dev/mem, /dev/kmem and /dev/port
  place,       \* where a path is: its dentry and the mount it is seen through
  Earlier,     \* pairs of programs, the first before the second in the object file
  MaxEntries,  \* bound on the entries that hold a file
  MaxEarly,    \* the same before enforcement begins and next to threads
  MaxThreaded, \* bound on the processes with other threads than the leader
  FeedSize     \* records the violation ring buffer holds

VARIABLES
  cfg,               \* runtime_cfg
  protected_paths,   \* the LPM trie as filled so far
  attached,          \* programs attached
  agent_pids,        \* tag of each tgid, "NONE" without an entry
  violation_events,  \* records in the ring buffer
  threads,           \* the threads of each process: its leader, others, none
  at,                \* directory entries: path -> file
  refusal,           \* the error of the call that the last step was, "0" for none
  lineage,           \* what a process and its ancestors have executed since the last override
  lost,              \* processes whose tag was deleted, or not stored, while they live
  owed,              \* operations guarded where an entry was last put without restriction
  taken,             \* what the last step did in spite of being owed, and where
  missed             \* a process event came while only some tracepoints were attached

loaderVars == <<cfg, protected_paths, attached>>
processVars == <<agent_pids, threads, lineage, lost, missed>>
fileVars == <<at, owed>>
vars == <<loaderVars, processVars, fileVars, violation_events, refusal, taken>>

Tag == {"AGENT", "EXEMPT", "TRUSTED", "TAINTED", "NONE"}
Thread == {"leader", "other"}
ExeList == {"trusted", "exempt", "agent", "build"}
Tracepoints == {"gs_exec", "gs_fork", "gs_exit"}
Hooks == {"path hooks", "other hooks"}
Programs == Tracepoints \union Hooks

ASSUME ShieldAssumption ==
  /\ Nil \notin File \union Pid
  /\ Rules \in [DOMAIN Rules -> SUBSET Op] /\ DOMAIN Rules \subseteq Seq(Name) \ {<<>>}
  /\ FeedSize \in Nat
  /\ Exes \subseteq SUBSET ExeList
  /\ Entries \in [Path -> File \union {Nil}]
  /\ place \in [Path -> Dentry \X Mount]
  /\ \A q \in Path : AbsolutePath[place[q]] = q
  /\ \A c \in Configs :
       \A f \in {"enforce_fs", "enforce_mem", "enforce_priv", "log_only",
                 "hardening_mode", "enforce_cred_read", "enforce_egress"} : c[f] \in BOOLEAN

\* runtime_cfg's switches.
Settings == [ready : BOOLEAN, enforce_fs : BOOLEAN, enforce_mem : BOOLEAN,
             enforce_priv : BOOLEAN, log_only : BOOLEAN, hardening_mode : BOOLEAN,
             enforce_cred_read : BOOLEAN, enforce_egress : BOOLEAN]

NoRefusal == "0"

\* The step is no call that a hook judges.
Quiet == refusal' = NoRefusal /\ taken' = {}

\* The path that a hook rebuilds for a place.
Seen == [q \in Path |-> reconstruct_path(place[q][1], place[q][2])]

\* bpf_d_path returns the path whole, or an error when the buffer is too short.
bpf_d_path(q) == Len(q) <= MAX_PATH_LEN

\* Byte prefixes of one path are ordered by length, so that of the stored ones
\* that match a path one is the longest.
ASSUME LongestMatchExists ==
  \A stored \in SUBSET DOMAIN Rules, q \in Path \union {Seen[r] : r \in Path} :
    Matches(stored, q) # {} =>
      \E P \in Matches(stored, q) : \A Q \in Matches(stored, q) : P = Q \/ LongerMatch(P, Q)

Init ==
  /\ \E c \in Configs :
       cfg = [ready |-> FALSE, enforce_fs |-> c.enforce_fs, enforce_mem |-> c.enforce_mem,
              enforce_priv |-> c.enforce_priv, log_only |-> c.log_only,
              hardening_mode |-> c.hardening_mode, enforce_cred_read |-> c.enforce_cred_read,
              enforce_egress |-> c.enforce_egress]
  /\ protected_paths = [P \in {} |-> {}]
  /\ attached = {}
  /\ agent_pids = [p \in Pid |-> "NONE"]
  /\ violation_events = 0
  /\ \E p \in Pid : threads = [q \in Pid |-> IF q = p THEN {"leader"} ELSE {}]
  /\ at = Entries
  /\ refusal = NoRefusal
  /\ lineage = [p \in Pid |-> {}]
  /\ lost = {}
  /\ owed = [q \in Path |-> {}]
  /\ taken = {}
  /\ missed = FALSE

-----------------------------------------------------------------------------
(* The loader: populateMaps, attachAndPin, setReady. *)

LoadRule(P) ==
  /\ attached = {} /\ P \in DOMAIN Rules \ DOMAIN protected_paths
  /\ protected_paths' = [Q \in DOMAIN protected_paths \union {P} |-> Rules[Q]]
  /\ Quiet
  /\ UNCHANGED <<cfg, attached, processVars, fileVars, violation_events>>

Attach(g) ==
  /\ DOMAIN protected_paths = DOMAIN Rules
  /\ g \in Programs \ attached /\ \A h \in Programs : <<h, g>> \in Earlier => h \in attached
  /\ attached' = attached \union {g}
  /\ Quiet
  /\ UNCHANGED <<cfg, protected_paths, processVars, fileVars, violation_events>>

\* One program cannot be attached: every link is torn down; the service starts again
\* with maps of its own.
AttachFails ==
  /\ attached # Programs /\ DOMAIN protected_paths = DOMAIN Rules
  /\ attached' = {}
  /\ protected_paths' = [P \in {} |-> {}]
  /\ agent_pids' = [p \in Pid |-> "NONE"]
  /\ lineage' = [p \in Pid |-> {}]
  /\ lost' = {}
  /\ missed' = FALSE
  /\ violation_events' = 0
  /\ Quiet
  /\ UNCHANGED <<cfg, threads, fileVars>>

\* What the hooks guard at a place.
Guards(q) == path_guard_ops(protected_paths, Seen[q])

\* attachAndPin has returned.
AllAttachedAny == attached # {}          \* mutant: ready after the first program
AllAttached == attached = Programs

setReady ==
  /\ AllAttached /\ ~cfg.ready
  /\ cfg' = [cfg EXCEPT !.ready = TRUE]
  /\ owed' = [q \in Path |-> IF at[q] = Nil THEN {} ELSE Guards(q)]
  /\ Quiet
  /\ UNCHANGED <<protected_paths, attached, processVars, at, violation_events>>

handleViolation ==
  /\ cfg.ready /\ violation_events > 0
  /\ violation_events' = violation_events - 1
  /\ Quiet
  /\ UNCHANGED <<loaderVars, processVars, fileVars>>

-----------------------------------------------------------------------------
(* The process-tree tracker. *)

\* Some tracepoints are attached and others not yet.
PartlyAttached == attached \intersect Tracepoints \notin {{}, Tracepoints}

live == {p \in Pid : threads[p] # {}}

\* Lineages and losses are recorded until an event is missed.
Record(l, gone) ==
  /\ missed' = (missed \/ PartlyAttached)
  /\ lineage' = IF missed \/ PartlyAttached THEN [p \in Pid |-> {}] ELSE l
  /\ lost' = IF missed \/ PartlyAttached THEN {} ELSE gone

\* bpf_map_update_elem: a new key needs room, the map holding the processes of the
\* whole machine; the programs ignore a failure.
Refused(p, tag, room) == agent_pids[p] = "NONE" /\ tag # "NONE" /\ ~room
Tagged(p, tag, room) ==
  IF Refused(p, tag, room) THEN agent_pids ELSE [agent_pids EXCEPT ![p] = tag]

\* The lists the new executable is on are looked up in this order.
\* mutant: a build tool takes an agent's tag away
ExecTagBuild(tag, lists) ==
  CASE "trusted" \in lists -> "TRUSTED"
    [] "exempt" \in lists /\ "trusted" \notin lists -> "EXEMPT"
    [] "agent" \in lists /\ lists \intersect {"trusted", "exempt"} = {} -> "AGENT"
    [] lists = {"build"} -> "TAINTED"
    [] OTHER -> tag
ExecTag(tag, lists) ==
  CASE "trusted" \in lists -> "TRUSTED"
    [] "exempt" \in lists /\ "trusted" \notin lists -> "EXEMPT"
    [] "agent" \in lists /\ lists \intersect {"trusted", "exempt"} = {} -> "AGENT"
    [] lists = {"build"} -> IF tag = "AGENT" THEN tag ELSE "TAINTED"
    [] OTHER -> tag

\* What a program adds to its lineage: an override starts a new one, which counts until
\* an agent or a build tool follows.
Lineage(l, lists) ==
  CASE "trusted" \in lists -> {"trusted"}
    [] "exempt" \in lists /\ "trusted" \notin lists -> {"exempt"}
    [] lists # {} /\ lists \intersect {"trusted", "exempt"} = {} -> (l \ {"trusted", "exempt"}) \union lists
    [] lists = {} -> l

\* The kernel has ended the other threads; the one that executes is the leader now.
gs_exec(p, lists) ==
  LET tag == IF "gs_exec" \in attached THEN ExecTag(agent_pids[p], lists) ELSE agent_pids[p]
      settled == "gs_exec" \in attached /\ lists \intersect {"trusted", "exempt", "agent"} # {}
  IN /\ p \in live
     /\ threads' = [threads EXCEPT ![p] = {"leader"}]
     /\ \E room \in BOOLEAN :
          /\ agent_pids' = Tagged(p, tag, room)
          /\ Record([lineage EXCEPT ![p] = IF "gs_exec" \in attached THEN Lineage(@, lists) ELSE @],
                    IF Refused(p, tag, room) THEN lost \union {p}
                    ELSE IF settled THEN lost \ {p} ELSE lost)
     /\ Quiet
     /\ UNCHANGED <<loaderVars, fileVars, violation_events>>

\* A child without a tagged parent gets no entry; none is removed either.
gs_fork(p, child) ==
  LET tag == IF "gs_fork" \in attached /\ agent_pids[p] # "NONE"
             THEN agent_pids[p] ELSE agent_pids[child]
  IN /\ p \in live /\ child \in Pid \ live
     /\ threads' = [threads EXCEPT ![child] = {"leader"}]
     /\ \E room \in BOOLEAN :
          /\ agent_pids' = Tagged(child, tag, room)
          /\ Record([lineage EXCEPT ![child] = lineage[p]],
                    IF p \in lost \/ Refused(child, tag, room) THEN lost \union {child} ELSE lost)
     /\ Quiet
     /\ UNCHANGED <<loaderVars, fileVars, violation_events>>

\* Bounds of the instance.
Held == Cardinality({q \in Path : at[q] # Nil})
threaded == {p \in Pid : "other" \in threads[p]}

\* The fork hook leaves a new thread of the same process alone.
gs_clone(p) ==
  /\ p \in live
  /\ Cardinality(threaded) < MaxThreaded /\ Held <= MaxEarly
  /\ threads' = [threads EXCEPT ![p] = @ \union {"other"}]
  /\ Quiet
  /\ UNCHANGED <<loaderVars, agent_pids, lineage, lost, missed, fileVars, violation_events>>

\* The leader ends, or the last of the other threads; the hook deletes the tag at the
\* leader's end.  The process ends with its last thread.
gs_exit(p, thread) ==
  LET deleted == thread = "leader" /\ "gs_exit" \in attached
  IN /\ thread \in threads[p]
     /\ live # {p} \/ threads[p] # {thread}
     /\ threads' = [threads EXCEPT ![p] = @ \ {thread}]
     /\ agent_pids' = IF deleted THEN [agent_pids EXCEPT ![p] = "NONE"] ELSE agent_pids
     /\ IF threads[p] = {thread} THEN Record([lineage EXCEPT ![p] = {}], lost \ {p})
        ELSE Record(lineage, IF deleted /\ agent_pids[p] # "NONE" THEN lost \union {p} ELSE lost)
     /\ Quiet
     /\ UNCHANGED <<loaderVars, fileVars, violation_events>>

-----------------------------------------------------------------------------
(* Verdicts. *)

current_tag(p) == agent_pids[p]
is_restricted(tag) == IF cfg.hardening_mode THEN tag # "TRUSTED" ELSE tag = "AGENT"
hardening_block(tag) == cfg.hardening_mode /\ tag # "TRUSTED"

\* log_violation: a record that finds no room is dropped.
FeedAfter(reports) ==
  IF violation_events + reports <= FeedSize THEN violation_events + reports ELSE FeedSize

\* A hook finds `reports` violations; it denies unless log_only is set.
Judge(p, reports, errno) ==
  /\ p \in live
  /\ refusal' = IF reports > 0 /\ ~cfg.log_only /\ errno # "0"
                THEN errno ELSE NoRefusal
  /\ violation_events' = FeedAfter(reports)

One(blocked) == IF blocked THEN 1 ELSE 0
Denied(blocked) == blocked /\ ~cfg.log_only

Guarding(p) == cfg.ready /\ cfg.enforce_fs /\ is_restricted(current_tag(p))
PathBlocked(p, op, q) == Guarding(p) /\ Hit(protected_paths, op, Seen[q])
MoveBlocked(p, op, q, r) == Guarding(p) /\ MoveHit(protected_paths, op, Seen[q], Seen[r])

-----------------------------------------------------------------------------
(* Path hooks and what the calls they allow do to the entries. *)

\* What is owed for an entry put at q; one put by a process that is not guarded owes
\* what is guarded at its place.
DueAt(p, q, due) == IF Denied(Guarding(p)) THEN due ELSE Guards(q)

Put(p, q, f, due) ==
  /\ at' = [at EXCEPT ![q] = f]
  /\ owed' = [owed EXCEPT ![q] = DueAt(p, q, due)]

\* The call does op to the entries of these places; what a guarded process should not
\* have done is kept.
Takes(p, op, places) ==
  taken' = {<<op, q>> : q \in {r \in places : Denied(Guarding(p)) /\ op \in owed[r]}}

TakesNothing == taken' = {} /\ UNCHANGED fileVars

gs_path_unlink(p, q) ==
  /\ at[q] # Nil
  /\ Judge(p, One(PathBlocked(p, "UNLINK", q)), "EPERM")
  /\ IF Denied(PathBlocked(p, "UNLINK", q)) THEN TakesNothing
     ELSE /\ at' = [at EXCEPT ![q] = Nil]
          /\ owed' = [owed EXCEPT ![q] = {}]
          /\ Takes(p, "UNLINK", {q})
  /\ UNCHANGED <<loaderVars, processVars>>

SameMount(q, r) == place[q][2] = place[r][2]

\* Memory devices are at their places, which no file takes.
Vacant(q) == at[q] = Nil /\ q \notin MemDevices

\* A file already at r is replaced, or takes the place of the other when the caller
\* exchanges them, which the hook does not look at.  Two links of one file stay.
gs_path_rename(p, q, r, exchange) ==
  /\ at[q] # Nil /\ q # r /\ SameMount(q, r)
  /\ IF exchange THEN at[r] # Nil ELSE r \notin MemDevices
  /\ Judge(p, One(MoveBlocked(p, "RENAME", q, r)), "EPERM")
  /\ IF Denied(MoveBlocked(p, "RENAME", q, r)) \/ at[q] = at[r] THEN TakesNothing
     ELSE /\ at' = [at EXCEPT ![q] = IF exchange THEN at[r] ELSE Nil, ![r] = at[q]]
          /\ owed' = [owed EXCEPT ![q] = IF exchange THEN Guards(q) ELSE {},
                                  ![r] = DueAt(p, r, owed[q])]
          /\ Takes(p, "RENAME", {q, r})
  /\ UNCHANGED <<loaderVars, processVars>>

\* Bound of the instance.
RoomForEntry == Held < IF cfg.ready /\ threaded = {} THEN MaxEntries ELSE MaxEarly

gs_path_link(p, q, r) ==
  /\ SameMount(q, r) /\ at[q] # Nil /\ Vacant(r) /\ RoomForEntry
  /\ Judge(p, One(MoveBlocked(p, "LINK", q, r)), "EPERM")
  /\ IF Denied(MoveBlocked(p, "LINK", q, r)) THEN TakesNothing
     ELSE Put(p, r, at[q], owed[q]) /\ Takes(p, "LINK", {q})
  /\ UNCHANGED <<loaderVars, processVars>>

\* A new entry of a file that has none; nothing is owed for it yet.
gs_path_mknod(p, q) ==
  /\ Vacant(q) /\ RoomForEntry
  /\ \E f \in File :
       /\ \A r \in Path : at[r] # f
       /\ Judge(p, One(PathBlocked(p, "CREATE", q)), "EPERM")
       /\ IF Denied(PathBlocked(p, "CREATE", q)) THEN TakesNothing
          ELSE Put(p, q, f, {}) /\ taken' = {}
  /\ UNCHANGED <<loaderVars, processVars>>

\* chmod of a file; mkdir, rmdir and symlink touch no file's entry.
gs_path_chmod(p, q) ==
  /\ at[q] # Nil
  /\ Judge(p, One(PathBlocked(p, "CHMOD", q)), "EPERM")
  /\ Takes(p, "CHMOD", IF Denied(PathBlocked(p, "CHMOD", q)) THEN {} ELSE {q})
  /\ UNCHANGED <<loaderVars, processVars, fileVars>>

gs_path_dir(p, op, q) ==
  /\ at[q] = Nil
  /\ op \in {"MKDIR", "RMDIR", "SYMLINK"}
  /\ Judge(p, One(PathBlocked(p, op, q)), "EPERM")
  /\ TakesNothing
  /\ UNCHANGED <<loaderVars, processVars>>

\* The hook has no components to look at: free names do not exempt here.
TruncateBlocked(p, q) ==
  Guarding(p) /\ bpf_d_path(q) /\ path_is_protected(protected_paths, q, "TRUNCATE")

gs_path_truncate(p, q) ==
  /\ at[q] # Nil
  /\ Judge(p, One(TruncateBlocked(p, q)), "EPERM")
  /\ Takes(p, "TRUNCATE", IF Denied(TruncateBlocked(p, q)) THEN {} ELSE {q})
  /\ UNCHANGED <<loaderVars, processVars, fileVars>>

\* The three guards of file_open, in their order: credentials, memory devices, writes.
CredentialRead(p, q) ==
  /\ cfg.ready /\ cfg.enforce_cred_read
  /\ current_tag(p) \in {"TAINTED", "AGENT"}
  /\ bpf_d_path(q) /\ cred_is_protected(q)

DeviceOpen(p, q) ==
  /\ cfg.ready /\ is_restricted(current_tag(p))
  /\ cfg.enforce_mem \/ hardening_block(current_tag(p))
  /\ q \in MemDevices

WriteOpen(p, q) ==
  Guarding(p) /\ bpf_d_path(q) /\ path_is_protected(protected_paths, q, "OPEN_WRITE")

\* Without log_only the first violation ends the call; with it all are reported.
gs_file_open(p, q, writing) ==
  LET found == <<CredentialRead(p, q), DeviceOpen(p, q), writing /\ WriteOpen(p, q)>>
      reports == Cardinality({i \in 1..3 : found[i]})
  IN /\ at[q] # Nil \/ q \in MemDevices
     /\ Judge(p, IF cfg.log_only THEN reports ELSE One(reports > 0),
              IF found[1] \/ found[2] THEN "EPERM" ELSE "EACCES")
     /\ Takes(p, "OPEN_WRITE", IF Denied(reports > 0) \/ ~writing THEN {} ELSE {q})
     /\ UNCHANGED <<loaderVars, processVars, fileVars>>

-----------------------------------------------------------------------------
(* Hooks on memory, privilege and connections: they change nothing but the feed. *)

Refuse(p, blocked, errno) ==
  /\ Judge(p, One(cfg.ready /\ blocked), errno)
  /\ TakesNothing
  /\ UNCHANGED <<loaderVars, processVars>>

gs_ptrace(p, target) ==
  /\ target \in live
  /\ Refuse(p, IF cfg.enforce_mem /\ current_tag(p) = "AGENT" THEN TRUE
       ELSE hardening_block(current_tag(p)) /\ current_tag(target) = "TRUSTED", "EPERM")

gs_kernel_read_file(p) ==
  Refuse(p, (cfg.enforce_mem /\ current_tag(p) = "AGENT") \/ hardening_block(current_tag(p)), "EACCES")

gs_bpf(p) == Refuse(p, hardening_block(current_tag(p)), "EPERM")

\* sb_mount and move_mount
gs_mount(p) ==
  Refuse(p, (cfg.enforce_priv /\ current_tag(p) = "AGENT") \/ hardening_block(current_tag(p)), "EPERM")

\* tamper: CAP_BPF; both: CAP_SYS_MODULE; dangerous: the rest of the switch.  Without
\* enforce_priv an agent's use is reported and allowed.
gs_capable(p, cap) ==
  LET hardened == hardening_block(current_tag(p)) /\ cap \in {"tamper", "both"}
      agents == current_tag(p) = "AGENT" /\ cap \in {"dangerous", "both"}
  IN /\ cap \in {"tamper", "both", "dangerous"}
     /\ Judge(p, One(cfg.ready /\ (hardened \/ agents)),
              IF hardened \/ cfg.enforce_priv THEN "EPERM" ELSE "0")
     /\ TakesNothing
     /\ UNCHANGED <<loaderVars, processVars>>

\* privileged: the peer's path is in privileged_sockets.
gs_unix_connect(p, privileged) ==
  Refuse(p, privileged /\ (IF cfg.hardening_mode THEN current_tag(p) # "TRUSTED"
                           ELSE current_tag(p) \in {"AGENT", "TAINTED"}), "EPERM")

\* allowed: in egress_allow, or a local IPv6 address.
gs_socket_connect(p, allowed) ==
  /\ Judge(p, One(cfg.ready /\ current_tag(p) \in {"TAINTED", "AGENT"} /\ ~allowed),
              IF cfg.enforce_egress THEN "EPERM" ELSE "0")
  /\ TakesNothing
  /\ UNCHANGED <<loaderVars, processVars>>

-----------------------------------------------------------------------------
Loader ==
  \/ \E P \in DOMAIN Rules : LoadRule(P)
  \/ \E g \in Programs : Attach(g)
  \/ AttachFails
  \/ setReady
  \/ handleViolation

Process(p) ==
  \/ \E lists \in Exes : gs_exec(p, lists)
  \/ \E child \in Pid : gs_fork(p, child)
  \/ gs_clone(p)
  \/ \E thread \in Thread : gs_exit(p, thread)

PathCall(p, q) ==
  \/ gs_path_unlink(p, q)
  \/ \E r \in Path : \/ \E exchange \in BOOLEAN : gs_path_rename(p, q, r, exchange)
                     \/ gs_path_link(p, q, r)
  \/ gs_path_mknod(p, q)
  \/ gs_path_chmod(p, q)
  \/ \E op \in Op : gs_path_dir(p, op, q)
  \/ gs_path_truncate(p, q)
  \/ \E writing \in BOOLEAN : gs_file_open(p, q, writing)

OtherCall(p) ==
  \/ \E target \in Pid : gs_ptrace(p, target)
  \/ gs_kernel_read_file(p)
  \/ gs_bpf(p)
  \/ gs_mount(p)
  \/ \E cap \in {"tamper", "both", "dangerous"} : gs_capable(p, cap)
  \/ \E privileged \in BOOLEAN : gs_unix_connect(p, privileged)
  \/ \E allowed \in BOOLEAN : gs_socket_connect(p, allowed)

\* Calls made before the LSM programs are attached reach no hook.
Call(p) ==
  \/ "path hooks" \in attached /\ \E q \in Path : PathCall(p, q)
  \/ "other hooks" \in attached /\ OtherCall(p)

Next == Loader \/ \E p \in Pid : Process(p) \/ Call(p)

Spec == Init /\ [][Next]_vars

-----------------------------------------------------------------------------
\* The state has its shape: tags, entries and verdicts are what the maps may hold.
TypeOK ==
  /\ cfg \in Settings
  /\ DOMAIN protected_paths \subseteq DOMAIN Rules
  /\ attached \subseteq Programs
  /\ agent_pids \in [Pid -> Tag]
  /\ violation_events \in 0..FeedSize
  /\ threads \in [Pid -> SUBSET Thread]
  /\ at \in [Path -> File \union {Nil}]
  /\ refusal \in {"0", "EPERM", "EACCES"}
  /\ lineage \in [Pid -> SUBSET ExeList]
  /\ lost \subseteq Pid
  /\ owed \in [Path -> SUBSET Op]
  /\ missed \in BOOLEAN

\* The tag a lineage calls for, in whatever order its programs were executed.
TagOf(l) ==
  CASE "agent" \in l -> "AGENT"
    [] "build" \in l /\ "agent" \notin l -> "TAINTED"
    [] l = {"trusted"} -> "TRUSTED"
    [] l = {"exempt"} -> "EXEMPT"
    [] l = {} -> "NONE"

\* A process carries the tag its own and its ancestors' programs call for, through
\* every order of clone, exec, fork and exit and every reuse of a process identifier;
\* a free identifier carries none.  One whose tag was deleted or not stored, or
\* inherited from such a one, has at most the tag of a build tool until a program
\* settles it.  Events in the middle of the attachment are the exception: a tracepoint
\* that is not there yet cannot see them.
TagIsLineage ==
  missed \/ \A p \in Pid : IF p \in lost THEN agent_pids[p] \in {"NONE", "TAINTED"}
                           ELSE agent_pids[p] = TagOf(lineage[p])

\* Protection does not decrease along any sequence of renames and links by guarded
\* processes: an entry guards at least what was guarded where it was last put freely,
\* by a process that is not guarded or as the other side of an exchange.
GuardTravels ==
  cfg.ready => \A q \in Path : at[q] # Nil => owed[q] \subseteq Guards(q)

\* No sequence of calls lets a guarded process do to a file what the place it came
\* from guards against: unlink, rename, link, chmod, truncate or open for writing.
\* Truncations and opens are the exception where the two ways to a path differ.
OwedIsKept ==
  \A t \in taken : /\ t[1] \in {"TRUNCATE", "OPEN_WRITE"}
                   /\ ~(bpf_d_path(t[2]) /\ Seen[t[2]] = t[2])

\* A stored prefix never guards a sibling whose name merely begins alike, and where
\* no stored prefix ends inside a component the lookup means what the rules say;
\* the same for the scopes of free names as long as scopes are not nested.  (The trie
\* changes before the first hook is attached.)
MatchIsComponentwise ==
  attached = {} => \A q \in Path :
    /\ \A op \in Op : path_is_protected(protected_paths, q, op) => op \in Meaning(protected_paths, q)
    /\ EndsAtComponents(DOMAIN protected_paths, q) =>
         \A op \in Op : path_is_protected(protected_paths, q, op) <=> op \in Meaning(protected_paths, q)
    /\ (/\ EndsAtComponents(DOMAIN FreeScopes, q)
        /\ Cardinality(Matches(DOMAIN FreeScopes, q)) <= 1) => (Freed(q) <=> MeansFree(q))

\* A call is refused only under the complete policy with every hook in place, and
\* never in a dry run.
RefusesUnderFullPolicy ==
  [][refusal' # NoRefusal => /\ protected_paths' = Rules /\ attached' = Programs
                           /\ ~cfg'.log_only]_vars

\* The path a hook matches is the absolute one, across mount points.  The walk reads
\* the dentries alone, so it is judged once, before the loader's first step.
PathsAreAbsolute == (attached = {} /\ DOMAIN protected_paths = {}) => WalkIsPath
=============================================================================
