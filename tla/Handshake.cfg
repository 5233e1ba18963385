SPECIFICATION HSpec
CONSTANTS
  B = 2
  W = 1
  Xor <- MCXor
  Endian = "big"
  Cpus = {c1}
  Idle = Idle
  gw = gw
  eth0 = eth0
  Macs <- MCMacs
  Frames <- MCFrames
  Garbage = {}
  StackKeys <- MCStackKeys
  MaxEntries = 2
  Clients <- MCClients
  Older <- MCOlder
  StackIsn <- MCStackIsn
  Verify = FALSE
CHECK_DEADLOCK FALSE
INVARIANT EstablishedAckAccepted
PROPERTY SynIsAnswered
