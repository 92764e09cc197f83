CONSTANTS
  Nodes <- MCNodes
  Engines <- MCEngines
  Mode <- MCMode
  AdversaryFrames <- MCAdversaryFrames
  DEFAULT_CREDIT = 2
  ReceiveWindow = 3
  MaxBufferSize = 2
  MaxNumStreams = 1
  WindowUpdateMode <- MCOnReceive
  SplitSendSize = 1
  MAX_COMMAND_BACKLOG = 1
  SocketCapacity = 1
  IdBits = 2
  MaxWritten <- MCMaxWritten
  MaxInjected = 2
  TransportFaults = TRUE
  CreditBits = 2
  Closers <- MCEngines

SPECIFICATION Spec
PROPERTY InboundAccepted

\* A Closed connection on both ends does nothing more.
CHECK_DEADLOCK FALSE
