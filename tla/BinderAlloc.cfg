SPECIFICATION Spec
CONSTANTS
  PageSize = 20
  Pages = 3
  HeaderSize = 8
  Word = 4
  SizeMax = 128
  DataSizes = {0, 3, 8, 20, 125}
  OffsetsSizes = {0, 120}
INVARIANTS Tiled PagesExact AsyncExact
PROPERTY IsPool
