\* An even last generation: every active generation can still be stopped.
CONSTANTS
  ListenerRequired = TRUE
  MaxGeneration = 2
  MaxHops = 1
  JournalLimit = 1
  c1 = c1
  c2 = c2
  Clients = {c1, c2}
  MaxActive = 1
  Bytes <- MCBytes
  BufferBytes = 2
SPECIFICATION WorkerSpec
INVARIANTS
  SocketMatchesMachine
  StreamsAreFaithful
  SuccessMeansChannel
  RequestsNeverBlock
PROPERTIES
  ClientsAreServed
  ReleaseEnds
