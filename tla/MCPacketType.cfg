CONSTANTS
  a = a
  b = b
  Octet <- MCOctet
  Hton <- Swap16
  Fixed <- MinLength
  Word = 1
  MinHlen = 5
  MaxHlen = 7
  WriteAs <- Written
  ReadAs <- ReadBack
  Obj = {a}
  Programs <- UdpOnly
  Pivot = 21
  Cleared <- ClearedMembers
  Frames <- MCFrames
  Payloads <- MCPayloads
  Options <- MCOptions
  Edits <- MCEdits
  Garbage = {"unknown", "udp"}
SPECIFICATION Spec
INVARIANT TypeNamesClass
