\* A secret on the master and one place: a node of this release, one of an older one
\* that lacks HTTP/2, one with another secret, one whose nonce is no hex string.
CONSTANTS
  n1 = n1
  n2 = n2
  n3 = n3
  n4 = n4
  s1 = s1
  s2 = s2
  NoSecret = NoSecret
  Node = {n1, n2, n3, n4}
  ExpectWorkers = 1
  MasterSecret = s1
  NodeSecret <- MixedSecrets
  NodeNonce <- MixedNonces
  NoHttp2 = {n2}
  Foreign = {}
  ForeignReplies = {}
  AllowPartial = TRUE
  MaxProgress = 0
SPECIFICATION Spec
\* The run ends: the master exits and every node stops.
CHECK_DEADLOCK FALSE
INVARIANTS
  OnlyPeersShareSecret
  LateNodesStandAside
