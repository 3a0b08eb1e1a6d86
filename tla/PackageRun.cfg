CONSTANTS
  Lane = 2
  Row = 4
  NoName = "no name"
  Packages <- MCPackages
SPECIFICATION Spec
INVARIANTS RaisesExplained OutputsExact DmaBacked
