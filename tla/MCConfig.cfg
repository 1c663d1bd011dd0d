SPECIFICATION FairSpec
CONSTANTS
  Inputs <- AllInputs
  Modes = {"file", "str", "test"}
  KeyMax = 4
  Slack = 2
  MaxDirectives = 3
  MaxRaw = 4
  MaxDigits = 3
  IntMod = 64
INVARIANTS
  TypeOK
  LoadsMeaning
  LineOfError
  MapWhole
  OverrunsMeant
  TestFits
  GettersRead
PROPERTIES
  LoadEnds
CHECK_DEADLOCK FALSE
