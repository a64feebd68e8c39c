CONSTANTS
  Platforms = {"linux", "macos"}
  MaxMoves = 2
SPECIFICATION PlanningSpec
INVARIANTS
  WritesOnlyToItsOwn
  FallbackStaysPut
  PreviewIsKept
