\* The exchange with two tries and up to two answers.
CONSTANTS
  b1 = b1
  b2 = b2
  b3 = b3
  b4 = b4
  Null = Null
  Buffer <- Buffers
  MinRemaining = 2
  Retries = 2
  MaxAnswers = 2
SPECIFICATION MmeSpec
INVARIANT NoBufferLost
PROPERTY InitialisationEnds
