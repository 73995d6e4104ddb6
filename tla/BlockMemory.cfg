SPECIFICATION Spec
CONSTANTS
  Span = 6
  Size = 5
  BlockSize = 2
  ConfigSizes = {2, 3}
  Widths = {1, 4}
  Bytes = {0, 1}
INVARIANTS
  TypeOK
  InBounds
PROPERTIES
  ImplementsFlat
