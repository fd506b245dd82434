\* One session of one host, over two connections of its client.
CONSTANTS
  n1 = n1
  n2 = n2
  c1 = c1
  c2 = c2
  c3 = c3
  NoWrite = NoWrite
  Nodes <- OneNode
  Hashes <- OneHash
  Writes <- ThreeWrites
  Seconds <- MCSeconds
  NodeOf <- OneNodeOf
  HashOf <- OneHashOf
  SecondsOf <- OneSecondsOf
  HeaderSize <- MCHeaderSize
  EntrySize <- OneEntrySize
  Conns <- TwoConns
  ConnNode <- TwoConnNode
  MaxExits = 1
  MaxFaults = 1
SPECIFICATION FairSpec
INVARIANT TypeOK
INVARIANT LabelsBeforeCast
INVARIANT AckedIntact
INVARIANT HeaderAgrees
INVARIANT RecordedInOrder
INVARIANT ExitHasCause
PROPERTY SentIsRecorded
PROPERTY EndedConnIsReleased
CHECK_DEADLOCK FALSE
