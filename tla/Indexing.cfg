\* Every page of up to two paragraphs of three sentences.
SPECIFICATION Spec
CONSTANTS
  MaxWords = 3
  Corpora <- AllCorpora
  Disturbed <- FewCorpora
  Sizes <- AllSizes
  PageBatch = 2
  CancelEvery = 2
  MaxTexts = 3
  MaxTokens = 6
  MaxFailures = 1
INVARIANTS
  TypeOK
  ChunksCoverPages
  VectorsMatchTexts
  CountersTellTheTruth
  OneBatchOutlivesTenant
PROPERTIES
  RunEnds
CHECK_DEADLOCK FALSE
