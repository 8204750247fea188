CONSTANTS
  MaxLen = 5
  Texts <- MCTexts
  Arrays <- MCArrays
  Gaps <- MCGaps
  MaxParams = 2
  ParamSize = 3
SPECIFICATION Spec
INVARIANTS ScanStaysInside 
PROPERTY ScanEnds
CHECK_DEADLOCK FALSE
