SPECIFICATION Spec
CONSTANTS
  moved  = moved
  copied = copied
  Files     <- MCFiles
  Moved     <- MCMoved
  LongNames <- MCLongNames
  MaxLists  = 1
  BufferUnits = 256
PROPERTY
  PluginLoaded
CHECK_DEADLOCK FALSE
