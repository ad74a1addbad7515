\* Two peers, four connections of either kind, no addresses. No symmetry,
\* since a liveness property is checked.
CONSTANTS
  p1 = p1
  p2 = p2
  c1 = c1
  c2 = c2
  c3 = c3
  c4 = c4
  Local = local
  Peer = {p1, p2}
  ConnId = {c1, c2, c3, c4}
  Addr <- NoAddr
  IdentifyInfo <- NoAddr
  AnnounceAddrs <- NoAddr
  MdnsAddr <- NoAddr
  OwnAddr <- NoAddr
  DialCooldown = 1
  AnnounceCooldown = 1
  MaxTime = 0
SPECIFICATION FairSpec
INVARIANTS TypeOK NoRelayBesideDirect DirectNeverClosed
PROPERTIES RelayGivesWay ImplementsPathPolicy
