SPECIFICATION Spec
CONSTANTS
  Workers = {w1, w2}
  Nobody = Nobody
  TTL = 6
  DANGER = 4
  INTERVAL = 3
  GRACE = 1
  MaxAnswer = 1
  MaxEpoch = 3
INVARIANT OneConnection
