SPECIFICATION FairSpec
CONSTANTS
  Keys = {k1}
  Workers = {w1, w2}
  NoKey = NoKey
  NoWorker = NoWorker
  MaxAttempts = 2
  MaxSubmits = 1
  MaxLost = 1
  HandlersOutliveLease = FALSE
PROPERTIES OrphansReleased
