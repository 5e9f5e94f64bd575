\* Two clients that ask the same agent of three: one proposer.
SPECIFICATION Spec
CONSTANTS
  Agent = {"n0", "n1", "n2"}
  Client = {"A", "B"}
  Target <- OneTarget
  MaxSeq = 3
INVARIANTS
  TypeOK
  ClientFollows
  
  
CHECK_DEADLOCK FALSE

  
