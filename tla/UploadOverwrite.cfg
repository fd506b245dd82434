\* One session of one host whose client reconnects; no kill, no failing file operation.
CONSTANTS
  n1 = n1
  n2 = n2
  c1 = c1
  c2 = c2
  c3 = c3
  NoWrite = NoWrite
  Nodes <- OneNode
  Hashes <- OneHash
  Writes <- ThreeWrites
  Seconds <- MCSeconds
  NodeOf <- OneNodeOf
  HashOf <- OneHashOf
  SecondsOf <- OneSecondsOf
  HeaderSize <- MCHeaderSize
  EntrySize <- OneEntrySize
  Conns <- TwoConns
  ConnNode <- TwoConnNode
  MaxExits = 0
  MaxFaults = 0
SPECIFICATION Spec
INVARIANT AckedNeverLost
CHECK_DEADLOCK FALSE
