CONSTANTS
  Bases = 4
  Unit = 2
  Masks = 2
  Dense = 2
  Sizes = 8
  Frame = 2
  Planes = 2
  Line = 4
  Cap = 2
  Narrow = 3
  Longest = 3
  Deepest = 2
  Thin = 2
  UNARY <- MCUnary
  BINARY_OPERATIONS <- MCBinary
  RUNTIME_BINARY <- MCRuntime
  Inputs <- MCInputs
SPECIFICATION Spec
INVARIANTS StreamExact TablesAnswer WeightsOnce ReferenceExact ProbesEvaluate
