\* Two sessions of Claude and a shell; the watcher is started twice.
SPECIFICATION FairSpec
CONSTANTS
  Thread = {t1, t2, other}
  Claude = {t1, t2}
  tgid <- MCTgid
  Nil = Nil
  Frames <- MCFrames
  RingSize = 2
  LatestSize = 1
  MaxWrites = 3
  MaxTime = 1
  MaxStarts = 2
  Tracking = {TRUE, FALSE}
  StateNameSize = 3
  ToolNameSize = 4
  StatusSize = 3
  ToolNamesSize = 4
  ParseGlyphs = {"Cap", "low", "sp", "tab", "nl", "(", ")", "*", "esc", "brand"}
  FrameLength = 4
  Pieces <- MCPieces
  Cuts <- MCCuts
INVARIANTS
  EventsAccounted
  AnsweredIsStored
  FramesAreRead
PROPERTIES
  EndedStateIsStored
  EventsAreHandled
CHECK_DEADLOCK FALSE
