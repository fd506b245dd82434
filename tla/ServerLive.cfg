\* One session of one host, two connections of its client, one browser.
CONSTANTS
  n1 = n1
  c1 = c1
  c2 = c2
  v1 = v1
  NoWrite = NoWrite
  Nodes <- MCNodes
  Hashes <- LiveHashes
  Writes <- LiveWrites
  Seconds <- LiveSeconds
  NodeOf <- LiveNodeOf
  HashOf <- LiveHashOf
  SecondsOf <- LiveSecondsOf
  HeaderSize <- LiveHeaderSize
  EntrySize <- LiveEntrySize
  Conns <- MCConns
  ConnNode <- MCConnNode
  Viewers <- MCViewers
  MaxExits = 1
  MaxFaults = 1
SPECIFICATION FairServerSpec
PROPERTY RecordingIsListed
PROPERTY ImplementsLog
CHECK_DEADLOCK FALSE
