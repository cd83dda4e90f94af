SPECIFICATION Spec
CONSTANTS
  MaxLength = 6
  Requests <- UpToSix
  Behind <- NoneOrOne
INVARIANTS
  BufferHoldsRequest
  DetectionIgnoresPieces
CHECK_DEADLOCK FALSE
