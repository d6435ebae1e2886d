SPECIFICATION Spec
CONSTANTS
  VGA_SCREEN_WIDTH = 4
  VGA_SCREEN_HEIGHT = 2
  Sessions <- MCSessions
  Movements <- MCMovements
INVARIANTS
  TypeOK
  ModifiersAgree
  PrefixApplies
  TypedAsHeld
  CursorOnScreen
  PointerAlone
  PacketsSlip
PROPERTIES
  PrintsExactly
CHECK_DEADLOCK FALSE
