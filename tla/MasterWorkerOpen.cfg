\* No secret: two good nodes and one of another build compete for two places.
CONSTANTS
  n1 = n1
  n2 = n2
  n3 = n3
  n4 = n4
  s1 = s1
  s2 = s2
  NoSecret = NoSecret
  Node = {n1, n2, n3}
  ExpectWorkers = 2
  MasterSecret = NoSecret
  NodeSecret <- OpenSecrets
  NodeNonce <- FreshNonces
  NoHttp2 = {}
  Foreign = {n3}
  ForeignReplies = {"malformed", "other", "nonobject"}
  AllowPartial = FALSE
  MaxProgress = 1
SPECIFICATION FairSpec
INVARIANTS
  TypeOK
  ExitZeroMeansWholeLoad
  CountedIsReported
  SharesAreDisjoint
PROPERTIES
  MasterEndsUnlessHeldUp
  ImplementsClusterRun
\* The run ends: the master exits and every node stops.
CHECK_DEADLOCK FALSE
