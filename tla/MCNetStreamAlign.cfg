CONSTANTS
  Platforms = {"bpf"}
  Header = 4
  Align = 2
  EINTR = 2
  Lengths = {1, 2, 4}
  Buflens = {1, 2, 4}
  QueueMax = 2
  MaxFrames = 3
SPECIFICATION Spec
INVARIANT FindsHeader
