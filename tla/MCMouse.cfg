SPECIFICATION Spec
CONSTANTS
  Controls <- MCControls
  Released <- MCReleased
  MaxFrame = 3
  Axes = {"x"}
  Buttons = {"left"}
  MaxSteps = 5
  Bounds <- MCBounds
  Places <- MCPlaces
  Scales <- MCScales
  ExtraProbes = FALSE
INVARIANTS
  FrameExact
CHECK_DEADLOCK FALSE
