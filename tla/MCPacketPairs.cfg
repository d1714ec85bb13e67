CONSTANTS
  a = a
  b = b
  Octet <- MCOctet
  Hton <- Swap16
  Fixed <- MinLength
  Word = 1
  MinHlen = 5
  MaxHlen = 7
  WriteAs <- Written
  ReadAs <- ReadBack
  Obj = {a, b}
  Programs <- Pairs
  Pivot = 21
  Cleared <- ClearedMembers
  Frames <- PairFrames
  Payloads <- PairPayloads
  Options <- PairOptions
  Edits <- PairEdits
  Garbage = {"unknown"}
SPECIFICATION Spec
INVARIANTS HeadersOwned RawIsWireImage
PROPERTIES OthersUntouched CheckSucceeds ReceiveRestoresMembers
