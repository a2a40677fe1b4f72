\* Two processes and two files under three rules, two of them nested.
SPECIFICATION Spec
CONSTANTS
  p1 = p1
  p2 = p2
  f1 = f1
  f2 = f2
  home = home
  homes = homes
  dist = dist
  src = src
  tmp = tmp
  note = note
  Name = {home, homes, dist, src, tmp, note}
  Path <- MCPath
  BytePrefix <- MCBytePrefix
  Op <- MCOp
  CredentialPaths <- MCCredentials
  FreeNames <- MCFreeNames
  FreeScopes <- MCFreeScopes
  GlobalScope = "global"
  Pid = {p1, p2}
  File = {f1, f2}
  Nil = Nil
  Rules <- MCRules
  Entries <- MCEntries
  Exes <- MCExes
  Configs <- MCConfigs
  MemDevices <- MCDevices
  FeedSize = 1
  MaxEntries = 2
  MaxEarly = 1
  MaxThreaded = 1
  Dentry <- MCDentry
  Mount <- MCMount
  d_parent <- MCParent
  d_name <- MCNames
  mnt_root <- MCMntRoot
  mnt_parent <- MCMntParent
  mnt_mountpoint <- MCMountpoint
  MAX_DENTRY_DEPTH = 5
  MAX_PATH_LEN = 3
  place <- MCPlace
  Earlier <- MCEarlier
SYMMETRY ShieldSymmetry
VIEW ShieldView
INVARIANTS
  TagIsLineage
  GuardTravels
  OwedIsKept
  MatchIsComponentwise
  PathsAreAbsolute
PROPERTIES
  RefusesUnderFullPolicy
