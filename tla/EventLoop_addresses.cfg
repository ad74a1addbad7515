\* Two peers, a connection, every kind of address, two own addresses, one of
\* them suffixed and one private, times 0 to 3.
CONSTANTS
  p1 = p1
  p2 = p2
  c1 = c1
  c2 = c2
  c3 = c3
  c4 = c4
  Local = local
  Peer = {p1, p2}
  ConnId = {c1}
  Addr <- Occurring
  IdentifyInfo <- Identified
  AnnounceAddrs <- AnnouncedAs
  MdnsAddr <- DiscoveredAt
  OwnAddr <- Reported
  DialCooldown = 2
  AnnounceCooldown = 2
  MaxTime = 3
SYMMETRY Interchangeable
SPECIFICATION Spec
INVARIANTS DialsRespectCooldown AnnouncesRespectCooldown AnnouncesArePublic
PROPERTY HeardIsDialed
