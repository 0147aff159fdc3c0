SPECIFICATION Spec
CONSTANTS
  ns = ns
  nd = nd
  na = na
  nb = nb
  Request = {q1}
  WorkflowId = {w1, w2}
  Place <- PlaceSet
  Snapshot = {"hot", "cold"}
  Design <- Designs
  MaxRecords = 2
  MaxSaves = 3
  MaxDepth = 2
  OrmPath = FALSE
  NoNode = NoNode
  NoWorkflow = NoWorkflow
INVARIANTS
  NoActionTwice
  RunsOneDesign
PROPERTIES
  UndisturbedRunsAreComplete
  EveryRequestIsAnswered
CHECK_DEADLOCK FALSE
