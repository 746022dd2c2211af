SPECIFICATION FairSpec
CONSTANTS
  c1 = c1
  c2 = c2
  s1 = s1
  Clients <- MCClients
  Streams <- MCStreams
  NoStream = NoStream
  NoClient = NoClient
  QueueCap = 1
  ByteBudget = 4
  BatchBytes = 2
  Envelope = 1
  ChannelCap = 1
  Sizes = {2, 6}
  MaxEvents = 3
PROPERTIES
  EveryCallReturns
  BatchIsWritten
INVARIANTS
  JournalInOrder
  BarrierDurable
  AckedNotLost
  PublishedAfterStored
  PermitsConserved
  CleanStop
CHECK_DEADLOCK FALSE
