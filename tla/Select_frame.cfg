CONSTANTS
  Channels = {1, 2}
  Selectors = {s}
  Receivers = {r}
  Tasks = {s}
  Lists <- MCTwice
  MaxItems = 1
  None = None
SPECIFICATION Spec
INVARIANTS
  HandOffInFrame
