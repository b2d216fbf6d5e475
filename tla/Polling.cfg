CONSTANTS
  Configured <- MCConfigured
  Root <- MCRoot
  Probes <- MCProbes
  MaxRepetitions = 3
  Chunk = 25
  MaxInFlight = 2
  MaxAsked = 40
  MaxRetries = 2
SPECIFICATION FairSpec
INVARIANT TypeOK
INVARIANT AnswersMatch
INVARIANT ReadsInOrder
INVARIANT AnswersTrue
INVARIANT RecordsWhole
INVARIANT LinksTrue
PROPERTY PollEnds
CHECK_DEADLOCK FALSE
