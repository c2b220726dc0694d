SPECIFICATION FairSpec
CONSTANTS
  Keys = {k1, k2}
  Workers = {w1, w2}
  NoKey = NoKey
  NoWorker = NoWorker
  MaxAttempts = 2
  MaxSubmits = 3
  MaxLost = 1
  HandlersOutliveLease = FALSE
INVARIANTS TypeOK OwnerHoldsRow AttemptsPaidFor
PROPERTIES ImplementsContract QueuedIsHandled
