CONSTANTS
  Nodes <- MCNodes
  Engines <- MCEngines
  Mode <- MCMode
  AdversaryFrames <- MCAdversaryFrames
  DEFAULT_CREDIT = 2
  ReceiveWindow = 2
  MaxBufferSize = 2
  MaxNumStreams = 1
  WindowUpdateMode <- MCMixedModes
  SplitSendSize = 1
  MAX_COMMAND_BACKLOG = 1
  SocketCapacity = 1
  IdBits = 2
  MaxWritten <- MCMaxWritten
  MaxInjected = 0
  TransportFaults = FALSE
  CreditBits = 2
  Closers <- MCCloserA

SPECIFICATION Spec
INVARIANT NoProtocolError
INVARIANT NoLostWakeup
PROPERTY FlowRefinement

\* A Closed connection on both ends does nothing more.
CHECK_DEADLOCK FALSE
