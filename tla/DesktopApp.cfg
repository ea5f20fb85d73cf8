SPECIFICATION FairSpec
CONSTANTS
  a1 = a1
  a2 = a2
  p1 = p1
  p2 = p2
  v1 = v1
  v2 = v2
  work = work
  home = home
  None = None
  Address = {a1, a2}
  Probed = {a1}
  Peer = {p1, p2}
  Viewer = {v1, v2}
  Name = {work, home}
  Bounds <- MCBounds
INVARIANTS
  TrustIsTheUsers
  SavedOnce
  ShownPeerIsServed
CHECK_DEADLOCK FALSE
PROPERTY StatusSettles
