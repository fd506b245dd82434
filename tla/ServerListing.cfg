\* Two sessions of one host, two connections of its client, one browser.
CONSTANTS
  n1 = n1
  c1 = c1
  c2 = c2
  v1 = v1
  NoWrite = NoWrite
  Nodes <- MCNodes
  Hashes <- MCHashes
  Writes <- MCWrites
  Seconds <- MCSeconds
  NodeOf <- MCNodeOf
  HashOf <- MCHashOf
  SecondsOf <- MCSecondsOf
  HeaderSize <- MCHeaderSize
  EntrySize <- MCEntrySize
  Conns <- MCConns
  ConnNode <- MCConnNode
  Viewers <- MCViewers
  MaxExits = 1
  MaxFaults = 1
SPECIFICATION ServerSpec
INVARIANT ListerFindsLabels
INVARIANT CacheIsCurrent
PROPERTY ListOnlyGrows
CHECK_DEADLOCK FALSE
