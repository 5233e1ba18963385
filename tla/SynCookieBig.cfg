SPECIFICATION Spec
SYMMETRY Symmetry
CONSTANTS
  B = 2
  W = 1
  Xor <- MCXor
  Endian = "big"
  Cpus = {c1, c2}
  Idle = Idle
  gw = gw
  eth0 = eth0
  Macs <- MCMacs
  Frames <- MCFrames
  Garbage <- MCGarbage
  StackKeys <- MCStackKeys
  MaxEntries = 2
INVARIANT TypeOK
INVARIANT PassedOnlyAfterCookie
INVARIANT AnsweredSynCanComplete
INVARIANT OneSequenceSpace
