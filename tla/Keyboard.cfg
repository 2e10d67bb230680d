SPECIFICATION Spec
CONSTANTS
  KbdElements   = 3
  MouseBuffSize = 8
  QSize         = 5
  PacketSize    = 3
  KeyCommands   = {"ack", "param", "led", "resend", "identify", "scan on", "scan off", "defaults", "reset"}
  MouseCommands = {"ack", "param", "enable", "disable", "remote", "stream", "id", "info", "reset", "defaults", "read", "ignored"}
  Racy          = FALSE
  MaxInputs     = 4
INVARIANTS
  TypeOK
  NothingStranded
  BufferTellsSource
PROPERTIES
  StreamsKeepOrder
  InterruptsDrain
CHECK_DEADLOCK FALSE
