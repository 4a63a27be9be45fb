CONSTANTS
  Size = 5
  Header = 2
  NumberAt = 1
  MaxNumber = 3
  Widths = {1, 2}
  Bytes = {a, b}
  MaxCount = 2
SPECIFICATION Spec
INVARIANT TypeOK
PROPERTY StreamSpec
