SPECIFICATION HeartbeatSpec
CONSTANTS
  w1 = w1
  w2 = w2
  r1 = r1
  r2 = r2
  None = None
  Workers = {w1}
  Runs = {r1, r2}
  Prefetch = 2
  Ttl = 2
  Faults = 2
PROPERTY OutageOnlyDelays
PROPERTY PanelSettles
