CONSTANTS
  WINDOW_LEN = 2
  SEQ_LEN = 3
  NCHUNKS = 5
  DATA_CAP = 6
  ACK_CAP = 1
  FINAL_ACKS = 2
  SEND_FAULTS = FALSE
  OPEN_FAULTS = FALSE
SPECIFICATION FairSpec
INVARIANT AllWrittenCloses
PROPERTIES EventuallyWritten ReceiverExits
