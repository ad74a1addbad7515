\* One peer, a direct connection that dies and a relayed one after it.
CONSTANTS
  p1 = p1
  p2 = p2
  c1 = c1
  c2 = c2
  c3 = c3
  c4 = c4
  Local = local
  Peer = {p1}
  ConnId = {c1, c2}
  Addr <- NoAddr
  IdentifyInfo <- NoAddr
  AnnounceAddrs <- NoAddr
  MdnsAddr <- NoAddr
  OwnAddr <- NoAddr
  DialCooldown = 1
  AnnounceCooldown = 1
  MaxTime = 0
SPECIFICATION Spec
PROPERTY NeverCutsLastPath
