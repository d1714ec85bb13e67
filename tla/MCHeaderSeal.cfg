CONSTANTS
  Base = 3
  Ntohs <- MCNtohs
  Given <- MCGiven
  Indices = {0, 2, 7}
  Numbers <- MCNumbers
  Kinds = {"ethernet", "ipv4", "ipv6", "udp"}
  IpWords = {3, 7}
  UdpLength = 4
  UdpWords = 2
  Datas <- MCDatas
  Garbage = {0, 40}
  None = None
SPECIFICATION Spec
INVARIANTS TypeOK TextMakesEqual Verifies TamperSeen
