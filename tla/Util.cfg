\* Every text of up to six bytes over end of line, colon, a letter and a byte
\* beyond ASCII; every minute of arc.
SPECIFICATION Spec
CONSTANTS
  Bytes = {10, 13, 58, 97, 255}
  MaxLen = 6
  Farthest = 10800
INVARIANTS EncodesBits AdmitsIffEqual LinesKept ChecksumGuards PositionExact
CHECK_DEADLOCK FALSE
