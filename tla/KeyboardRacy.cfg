SPECIFICATION Spec
CONSTANTS
  KbdElements   = 3
  MouseBuffSize = 8
  QSize         = 5
  PacketSize    = 3
  KeyCommands   = {}
  MouseCommands = {}
  Racy          = TRUE
  MaxInputs     = 4
INVARIANTS
  BufferTellsSource
CHECK_DEADLOCK FALSE
