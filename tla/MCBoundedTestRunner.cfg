SPECIFICATION TestFairSpec
CONSTANTS
  Modes = {"plain", "stdin", "http"}
  MaxOutputBytes = 1
  Retries = 1
  PipeSize = 2
  InputRoom = 1
  InputSize = 2
  Closable = {"stdin"}
  MaxWritten = 2
CHECK_DEADLOCK FALSE
INVARIANTS CapturesTheLimit ReportIsTrue
PROPERTY EndsUnlessHeld
