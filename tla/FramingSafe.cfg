\* Texts and answers of the largest sizes that fit the buffers, and of sizes
\* that are cut: by the payload, by a read of the PC, by the receive.
SPECIFICATION FairSpec
CONSTANTS
  LastWord = 1
  Levels = {0, 3}
  MaxCalls = 3
  TextSizes = {2, 490, 491, 498, 600}
  AnswerSizes = {1, 488}
  Configs <- MCConfigs
  Merges = {TRUE, FALSE}
INVARIANTS
  TypeOK
  TextsArrive
  WordsFit
  DispatchTrue
  RequestKept
PROPERTIES
  CallReturns
  ImplementsRpc
CHECK_DEADLOCK FALSE
