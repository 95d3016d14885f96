CONSTANTS
  Lines <- UsualLines
  Says <- Usual
  MaxLines = 5
  LineSize = 7
SPECIFICATION Spec
INVARIANTS TypeOK ReadsWellFormed
CHECK_DEADLOCK FALSE
