SPECIFICATION Spec
CONSTANTS
  Controls <- MCControls
  Released <- MCReleased
  MaxFrame = 5
  Typed <- MCTyped
  Characters <- MCCharacters
  QueueSize = 2
  PageTimeout = 2
  Nothing = Nothing
INVARIANTS
  ShowsTwoFrames
  NotedInItsFrame
  GlyphOfRead
PROPERTIES
  ImplementsKeyEvents
  ExtraProbeHarmless
CHECK_DEADLOCK FALSE
