SPECIFICATION FairSpec
CONSTANTS
  c1 = c1
  c2 = c2
  Clients = {c1, c2}
  Leaders = {l1, l2}
  Inodes = {i1, i2, i3, i4}
  None = None
  VersionOf <- MCVersionOf
  OldVersions = {0, 1}
  Legacy = {0}
  ZombieRounds = 1
  MaxZombieEvictAttempts = 1
  MaxSelfSpawnAttempts = 2
  MaxFaults = 1
INVARIANTS TypeOK OneLeader NobodyUnderLock
CHECK_DEADLOCK FALSE
PROPERTIES ClientsReturn
