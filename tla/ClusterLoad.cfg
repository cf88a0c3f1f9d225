\* Two good nodes; the first is looked at from the inside.
CONSTANTS
  n1 = n1
  n2 = n2
  w1 = w1
  w2 = w2
  NoSecret = NoSecret
  Node = {n1, n2}
  ExpectWorkers = 2
  MasterSecret = NoSecret
  NodeSecret <- OpenSecrets
  NodeNonce <- FreshNonces
  NoHttp2 = {}
  Foreign = {}
  ForeignReplies = {}
  AllowPartial = FALSE
  MaxProgress = 0
  Inside = n1
  Worker = {w1, w2}
  Requests = 2
  MaxRequests = 1
SPECIFICATION ClusterSpec
INVARIANT ZeroMeansLoadWasMade
CHECK_DEADLOCK FALSE
