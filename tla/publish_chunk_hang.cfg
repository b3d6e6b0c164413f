CONSTANTS
  MaxRecords = 4
  PipeCap = 2
SPECIFICATION HangSpec
PROPERTIES
  PublishWaitIsBounded
\* A chunk ends when publish_chunk returns.
CHECK_DEADLOCK FALSE
