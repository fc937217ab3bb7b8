SPECIFICATION Spec
CONSTANTS
  Names <- MCNames
  Values <- MCValues
  Null <- MCNull
  None = None
  Value <- MCValue
  Bodies <- MCBodies
  SetVals <- MCSetVals
  Dicts <- MCDicts
  Amends <- MCAmends
  Hooks <- MCHooks
  MaxFrames = 4
  Radix = 3
INVARIANTS
  MarksClosed
  Fresh
