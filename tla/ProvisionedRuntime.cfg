SPECIFICATION Spec
CONSTANTS
  Ids = {"x", "t", "y", "w", "s"}
  Layouts = {"plain", "short", "unsound"}
  SoundLayouts = {"plain", "short"}
  Bundles <- MCBundles
  Buffers = {Own, Other}
  OwnBuffer = Own
  NoBuffer = NoBuffer
  MaxLoads = 2
  MaxEvaluations = 2
INVARIANTS
  ModelsResident
  NoLeak
PROPERTIES
  EvaluationExact
  ProfileAllOrNothing
  CallsReturn
