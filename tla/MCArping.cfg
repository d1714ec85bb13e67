CONSTANTS
  Platforms = {"bpf", "linux"}
  Header = 4
  Align = 2
  EINTR = 2
  Lengths = {1, 4}
  Buflens = {4}
  QueueMax = 2
  MaxFrames = 8
  MaxOthers = 2
  Tools = {"arping", "arping2"}
  Replies = 2
  Buflen = 4
  KindLen <- MCKindLen
SPECIFICATION FairToolSpec
INVARIANTS ToolTypeOK CountEarned Paced
PROPERTIES Finishes
CHECK_DEADLOCK FALSE
