SPECIFICATION RegistrySpec
CONSTANTS
  r1 = r1
  r2 = r2
  r3 = r3
  None = None
  Reports = {r1, r2, r3}
  Conservative = {r3}
  Streets <- StreetSet
  Zips = {"z"}
  Apns = {"X", "Y"}
  Cities = {"c"}
  Counties = {"f"}
  Houses = {"1", "2"}
  Evidence <- Carried
  House <- HouseOf
  Closeness <- Similarity
  MaxEdits = 4
  Pastes = {p1, p2, p3}
  Texts = {"t"}
  TextOf <- OneText
  MaxLosses = 1
  Uploaders = {"both", "reversed", "single"}
  Files = {"f", "g"}
  FilesOf <- SameFiles
  MaxDeaths = 1
  Nobody = Nobody
  OwnerIds = {o1, o2, o3}
  Names = {"n"}
  Mails = {"m"}
  NoMail = NoMail
  Details = {"d1", "d2"}
  Documents = {doc1, doc2}
  Homes = {h1}
  MaxLiens = 3
  Issues = {"lien"}
  Conflict = "identity"
  Prints = {A, B}
  MaxEvents = 2
  MaxRows = 2
  Absent = Absent
  Listed = {1, 2}
  Cases <- FoundCases
  Qualities <- SomeQualities
  Mergeable = {2}
  MaxRankings = 3
  Unscored = Unscored
SYMMETRY Symmetric
INVARIANTS RegistryTypeOK BatchesAttended InsertedOncePerQueueing OneHome UndoneInReverse
  LinkLosesNothing StaleOnlyIfLost ConfidenceNeverHurts RankingIsHonest
PROPERTIES AttachedForCause FindingsSurface HumanDecisionKept
CHECK_DEADLOCK FALSE
