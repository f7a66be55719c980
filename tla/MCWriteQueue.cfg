SPECIFICATION Spec
CONSTANTS
  Accounts = {"a"}
  Nobody = "nobody"
  MaxPending = 2
  MaxWrites = 2
  MaxEvents = 2
INVARIANTS
  TypeOK
  AssertionsHold
  PipelineIsPrefix
  AnswersMatchPipeline
  WritesGoOutAsAuthor
  CallbacksFindBatches
  AnswersAreTrue
  WritesHaveNextStep
PROPERTIES
  LogSpec
  QueueDrains
CHECK_DEADLOCK FALSE
