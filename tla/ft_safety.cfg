CONSTANTS
  WINDOW_LEN = 3
  SEQ_LEN = 4
  NCHUNKS = 7
  DATA_CAP = 3
  ACK_CAP = 2
  FINAL_ACKS = 2
  SEND_FAULTS = TRUE
  OPEN_FAULTS = TRUE
SPECIFICATION Spec
INVARIANTS IInv TypeOK InOrderPrefix AckedIsWritten CompletedIsWritten QueueMatchesAlarms BufferedInPlace NoReadPastEnd
PROPERTY Reliable
