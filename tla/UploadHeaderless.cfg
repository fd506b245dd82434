\* Two hosts with a session each; no kill, no failing file operation.
CONSTANTS
  n1 = n1
  n2 = n2
  c1 = c1
  c2 = c2
  c3 = c3
  NoWrite = NoWrite
  Nodes <- TwoNodes
  Hashes <- TwoHashes
  Writes <- ThreeWrites
  Seconds <- MCSeconds
  NodeOf <- TwoNodeOf
  HashOf <- TwoHashOf
  SecondsOf <- OneSecondsOf
  HeaderSize <- MCHeaderSize
  EntrySize <- OneEntrySize
  Conns <- ThreeConns
  ConnNode <- TwoHostsConn
  MaxExits = 0
  MaxFaults = 0
SPECIFICATION Spec
INVARIANT CastHasHeader
CHECK_DEADLOCK FALSE
