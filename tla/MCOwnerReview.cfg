\* Two bots, two callbacks and up to three generations of one card.
CONSTANTS
  Deliverers = {d1, d2}
  Presses = {p1, p2}
  Decisions = {"APPROVE", "HOLD"}
  None = None
  MaxGenerations = 3
  MaxPresses = 2
  MaxFailures = 2
SPECIFICATION Spec
INVARIANTS
  OneGenerationOpen
  PublishedCardIsLive
  OneButtonDecides
PROPERTIES
  EventuallyHandled
\* A handled event and a decided withdrawal leave nothing to do.
CHECK_DEADLOCK FALSE
