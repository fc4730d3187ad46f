CONSTANTS
  WINDOW_LEN = 2
  SEQ_LEN = 3
  NCHUNKS = 4
  DATA_CAP = 4
  ACK_CAP = 1
  FINAL_ACKS = 2
  SEND_FAULTS = FALSE
  OPEN_FAULTS = FALSE
SPECIFICATION Spec
INVARIANT AllWrittenCloses
