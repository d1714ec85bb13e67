CONSTANTS
  Cell <- MCCell
  Sticky = {FALSE}
  Chunk = 5
  SHB = 10
  IDB = 1
  SPB = 3
  EPB = 6
  Align = 2
  TmpSize = 9
  Sends <- MCSends
  Fills <- MCFills
  Options <- MCOptions
  Buflens = {1}
  Files <- MCFiles
  MaxLog = 2
  MaxTotal = 9
SPECIFICATION FairSpec
INVARIANTS TypeOK ReadsBack EndAfterAll
PROPERTIES RecvFillsBuffer KeepsLog Drained
