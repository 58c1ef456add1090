SPECIFICATION Spec
CONSTANTS
  Int64Max = 9
  MaxJsonDepth = 2
  ExponentFrom = 5
  UuidOf <- MCUuidOf
  BlankTexts = {" ", ""}
  Inputs <- MCInputs
  LeafEdits <- MCLeafEdits
  VersionEdits <- MCVersionEdits
  MaxEdits = 1
CONSTRAINT EndsWithImport
INVARIANTS
  RoundTripIsExact
  PortableFormIsCanonical
  StoredRowsHydrate
PROPERTY
  SameIdentityIsCompared
CHECK_DEADLOCK FALSE
