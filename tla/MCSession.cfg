\* Two players; any message, or two of some.
CONSTANTS
  c1 = c1  c2 = c2
  Conn = {c1, c2}
  Versions <- MCVersions
  Samples <- MCSamples
  ReadOf <- MCReadOf
  Actions <- MCActions
  WrittenOf <- MCWrittenOf
  CleanOf <- MCCleanOf
  Followers = {"ping", "chat", "chatGrows", "delete", "car"}
  MaxSent = 2
  MaxEnds = 1
SPECIFICATION Spec
INVARIANTS TypeOK StreamShape InStep RelayExact TypeGate PanicOnlyGrown CodecFaithful
CHECK_DEADLOCK FALSE
