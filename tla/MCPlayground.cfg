SPECIFICATION Spec
CONSTANTS
  Kind = {"pieces", "snapshots", "chat", "video"}
  Char = {"a", "b"}
  MaxSends = 2
  MaxChunks = 3
  Later = {"pieces", "chat", "video"}
  History <- ShortHistory
CHECK_DEADLOCK FALSE
INVARIANTS TypeOK ChunksBelong StreamsAreWanted NothingStuck 
PROPERTIES GenerationEnds
