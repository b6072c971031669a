CONSTANTS
  paste = paste
  sync = sync
  c1 = c1
  c2 = c2
  Clients <- MCClients
  Modes <- MCModes
  Transient <- MCTransient
  Chunks <- MCChunks
  MaxOut = 3
  RingLimit = 2
  QueueLimit = 4
SPECIFICATION FairSpec
INVARIANTS NoGapNoDuplicate ReplayStartsClean EndedMeansComplete ModesCurrent
 
CHECK_DEADLOCK FALSE
