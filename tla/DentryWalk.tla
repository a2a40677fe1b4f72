---------------------------- MODULE DentryWalk ----------------------------
(***************************************************************************)
(* reconstruct_path of guardian_shield.bpf.c: the absolute path of a       *)
(* dentry, by a walk of at most MAX_DENTRY_DEPTH steps that climbs from    *)
(* the leaf and crosses mount points, and a second pass that emits the     *)
(* components found from the root down until the buffer is full.           *)
(*                                                                         *)
(* The buffer is counted in components: one that would be cut is left out. *)
(***************************************************************************)
EXTENDS Sequences, Naturals, FiniteSets

CONSTANTS
  Dentry, Mount,
  d_parent,          \* parent of a dentry; the root of a file system is its own
  d_name,            \* last component
  mnt_root,          \* root dentry of a mount
  mnt_parent,        \* the mount a mount sits in; the global one sits in itself
  mnt_mountpoint,    \* the dentry a mount covers
  MAX_DENTRY_DEPTH,
  MAX_PATH_LEN       \* components that the buffer of a path holds

ASSUME DentryAssumption ==
  /\ d_parent \in [Dentry -> Dentry]
  /\ DOMAIN d_name = Dentry
  /\ mnt_root \in [Mount -> Dentry]
  /\ mnt_parent \in [Mount -> Mount]
  /\ mnt_mountpoint \in [Mount -> Dentry]
  /\ MAX_DENTRY_DEPTH \in Nat /\ MAX_PATH_LEN \in Nat
  /\ IsFiniteSet(Mount)
  /\ \A D \in (SUBSET Dentry) \ {{}} : \E d \in D : d_parent[d] = d \/ d_parent[d] \notin D
  /\ \A M \in (SUBSET Mount) \ {{}} : \E m \in M : mnt_parent[m] = m \/ mnt_parent[m] \notin M

\* collect_cb: one step of the walk.  dstack holds the components leaf first.
collect_cb_root_only(c) ==          \* mutant: the root of any mount ends the walk
  IF c.done \/ c.d = mnt_root[c.mnt] THEN [c EXCEPT !.done = TRUE]
  ELSE [c EXCEPT !.dstack = Append(@, c.d), !.d = d_parent[c.d]]
collect_cb(c) ==
  CASE c.done -> c
    [] ~c.done /\ c.d = mnt_root[c.mnt] ->
         IF mnt_parent[c.mnt] = c.mnt THEN [c EXCEPT !.done = TRUE]
         ELSE [c EXCEPT !.d = mnt_mountpoint[c.mnt], !.mnt = mnt_parent[c.mnt]]
    [] ~c.done /\ c.d # mnt_root[c.mnt] ->
         IF d_parent[c.d] = c.d THEN [c EXCEPT !.done = TRUE]
         ELSE [c EXCEPT !.dstack = Append(@, c.d), !.d = d_parent[c.d]]

\* bpf_loop: the walk after so many steps.
Walk(d, m) ==
  LET after[i \in 0..MAX_DENTRY_DEPTH] ==
        IF i = 0 THEN [d |-> d, mnt |-> m, dstack |-> <<>>, done |-> FALSE]
        ELSE collect_cb(after[i - 1])
  IN after[MAX_DENTRY_DEPTH]

\* emit_cb: the components root first, as many as the buffer holds.
Cut(path) == SubSeq(path, 1, IF Len(path) <= MAX_PATH_LEN THEN Len(path) ELSE MAX_PATH_LEN)
emit(dstack) == Cut([i \in 1..Len(dstack) |-> d_name[dstack[Len(dstack) + 1 - i]]])

reconstruct_path(d, m) == emit(Walk(d, m).dstack)

-----------------------------------------------------------------------------
\* The absolute path of a dentry seen through a mount, and the steps up to the root.
AbsolutePath[at \in Dentry \X Mount] ==
  LET d == at[1]  m == at[2] IN
  IF d = mnt_root[m]
  THEN IF mnt_parent[m] = m THEN <<>> ELSE AbsolutePath[<<mnt_mountpoint[m], mnt_parent[m]>>]
  ELSE IF d_parent[d] = d THEN <<>> ELSE Append(AbsolutePath[<<d_parent[d], m>>], d_name[d])

\* What is left of a path without its first k components.
Below(path, k) == SubSeq(path, k + 1, Len(path))

\* The walk finds the absolute path of every dentry that it can climb from in its
\* budget of steps, mount points included, and of any other the end of that path;
\* the hook sees as much of it as the buffer holds.
WalkEndsAtRoot ==
  \A d \in Dentry, m \in Mount :
    Len(AbsolutePath[<<d, m>>]) + Cardinality(Mount) <= MAX_DENTRY_DEPTH => Walk(d, m).done
WalkYieldsPath ==
  \A d \in Dentry, m \in Mount :
    LET path == AbsolutePath[<<d, m>>] IN
    /\ \E k \in 0..Len(path) : reconstruct_path(d, m) = Cut(Below(path, k))
    /\ Walk(d, m).done => reconstruct_path(d, m) = Cut(path)
WalkIsPath == WalkEndsAtRoot /\ WalkYieldsPath
=============================================================================
