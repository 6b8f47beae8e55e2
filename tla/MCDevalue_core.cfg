SPECIFICATION Spec
CONSTANTS
  Nodes <- ThreeNodes
  Buffers <- OneBuffer
  Leaves = {x}
  Undefined = Undefined
  Hole = Hole
  Sizes <- TwoSizes
  SparseLengths <- Thirty
CHECK_DEADLOCK FALSE
INVARIANTS ParseRestores ProgramRestores
