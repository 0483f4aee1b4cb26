CONSTANTS
  Images = {a}
  Zero = zero
  Blank = blank
  Capacity = 2
  MaxPages = 3
  MaxPins = 2
SPECIFICATION PoolSpec
INVARIANTS PoolTypeOK TableMatchesFrames CleanMatchesFile
PROPERTIES PinnedStays ImplementsPageStore
