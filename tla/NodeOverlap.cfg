SPECIFICATION LayoutSpec
CONSTANTS
  Keys = {1, 2, 3, 4, 5, 6}
  Lengths = {4, 9, 14}
  PAGE_SIZE = 90
  LongerValues = TRUE
INVARIANT MustNotOverlap
