------------------------- MODULE MCGuardianShield -------------------------
(* An instance of GuardianShield for TLC. *)
EXTENDS GuardianShield, TLC

CONSTANTS p1, p2, f1, f2, home, homes, dist, src, tmp, note

\* home/ is guarded, home/src more so, home/tmp is a hole in the guard; dist is
\* regenerable output below home; homes/ has a name that begins like home/.  The path
\* of four components is too long for the buffer, that of five is out of the walk's
\* reach as well.
MCPath == {<<home, note>>, <<home, tmp>>, <<home, dist, note>>, <<homes, note>>,
           <<home, src, tmp, note>>, <<home, src, tmp, src, note>>}
MCOp == {"UNLINK", "RENAME", "CHMOD", "TRUNCATE", "LINK", "SYMLINK", "MKDIR", "RMDIR",
         "OPEN_WRITE", "CREATE"}
MCRules == [P \in {<<home>>, <<home, src>>, <<home, tmp>>} |->
             CASE P = <<home>> -> {"UNLINK", "RMDIR", "CHMOD", "TRUNCATE", "OPEN_WRITE"}
               [] P = <<home, src>> -> MCOp \ {"SYMLINK", "CHMOD"}
               [] P = <<home, tmp>> -> {}]
\* No file at the start: the processes create them while the hooks are attached or
\* after an attachment has failed, so that the two files are interchangeable.
MCEntries == [q \in MCPath |-> Nil]
MCBytePrefix == {<<home, homes>>}
MCCredentials == {<<home, note>>}
MCDevices == {<<homes, note>>}

MCExes == {{}, {"trusted", "agent"}, {"agent", "build"}, {"build"}}

MCFreeNames == [n \in {dist} |-> {"s0"}]
MCFreeScopes == [P \in {<<home>>} |-> "s0"]
\* Their order in the source.
MCEarlier == {<<"gs_exec", "gs_fork">>, <<"gs_fork", "gs_exit">>,
              <<"gs_exit", "path hooks">>, <<"path hooks", "other hooks">>}
\* No step reads the last refusal, and only RefusesUnderFullPolicy, judged at every
\* step, speaks of it.
ShieldView == <<loaderVars, processVars, fileVars, violation_events, taken>>

ShieldSymmetry == Permutations({p1, p2}) \union Permutations({f1, f2})

\* The root file system holds homes/note and home, on which the other is mounted: note,
\* tmp, dist/note and src/tmp/{note, src/note}.
MCDentry == {"r0", "home", "homes", "homes/note", "r1", "note", "tmp", "dist", "dist/note",
             "src", "src/tmp", "src/tmp/note", "src/tmp/src", "src/tmp/src/note"}
MCParent == [d \in MCDentry |->
  CASE d \in {"r0", "home", "homes"} -> "r0"
    [] d = "homes/note" -> "homes"
    [] d \in {"r1", "note", "tmp", "dist", "src"} -> "r1"
    [] d = "dist/note" -> "dist"
    [] d = "src/tmp" -> "src"
    [] d \in {"src/tmp/note", "src/tmp/src"} -> "src/tmp"
    [] d = "src/tmp/src/note" -> "src/tmp/src"]
MCNames == [d \in MCDentry |->
  CASE d \in {"r0", "r1", "home"} -> home
    [] d = "homes" -> homes
    [] d = "dist" -> dist
    [] d \in {"src", "src/tmp/src"} -> src
    [] d \in {"tmp", "src/tmp"} -> tmp
    [] OTHER -> note]
MCMount == {"host", "inner"}
MCMntRoot == [m \in MCMount |-> IF m = "host" THEN "r0" ELSE "r1"]
MCMntParent == [m \in MCMount |-> "host"]
MCMountpoint == [m \in MCMount |-> IF m = "host" THEN "r0" ELSE "home"]
MCPlace == [q \in MCPath |->
  IF q = <<homes, note>> THEN <<"homes/note", "host">>
  ELSE <<CASE q = <<home, note>> -> "note"
           [] q = <<home, tmp>> -> "tmp"
           [] q = <<home, dist, note>> -> "dist/note"
           [] q = <<home, src, tmp, note>> -> "src/tmp/note"
           [] q = <<home, src, tmp, src, note>> -> "src/tmp/src/note",
         "inner">>]

Config(fs, dry, hard) ==
  [enforce_fs |-> fs, enforce_mem |-> TRUE, enforce_priv |-> FALSE, log_only |-> dry,
   hardening_mode |-> hard, enforce_cred_read |-> TRUE, enforce_egress |-> TRUE]
MCConfigs == {Config(TRUE, FALSE, FALSE), Config(TRUE, TRUE, FALSE), Config(TRUE, FALSE, TRUE)}
=============================================================================
