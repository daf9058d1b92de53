SPECIFICATION SpeechSpec
CONSTANTS
  Calls <- MCDistinctCalls
  Answers <- MCAnswers
  MaxFrames = 3
INVARIANTS
  CompleteAudio
  TaskProtocol
PROPERTIES
  SpeechEnds
CHECK_DEADLOCK FALSE
