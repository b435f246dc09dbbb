SPECIFICATION FairSpec
CONSTANTS
  a1 = a1
  a2 = a2
  k1 = k1
  k2 = k2
  None = None
  Node = {a1, a2}
  Key = {k1, k2}
  Peers <- MCPeers
  Hashes <- MCHashes
  Cmds <- MCCmds
  PoolSize = 1
  Slot = {1, 2, 3, 4, 5, 6}
  MaxCmd = 2
  MaxWide = 1
  MaxFail = 1
CHECK_DEADLOCK FALSE
INVARIANTS
  TypeOK
  KeysAtHome
  OneHop
  OnceIfOk
  BroadcastsFail
PROPERTIES
  Settled
