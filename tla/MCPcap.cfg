CONSTANTS
  Cell <- MCCell
  Sticky = {TRUE, FALSE}
  Chunk = 1
  Magic = 3
  Payloads <- MCPayloads
  Buflens = {1, 3}
  MaxLog = 2
SPECIFICATION FairSpec
INVARIANTS TypeOK NothingInvented EndAfterAll
PROPERTIES KeepsLog Drained
