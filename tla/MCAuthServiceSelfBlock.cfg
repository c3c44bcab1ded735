CONSTANTS
  Requests = {r1, r2}
  Clients = {c1}
  Users = {alice, bob}
  Passwords = {p1, p2}
  Limit = 1
  None = None
  MaxTokens = 2
  MaxEpoch = 1
SYMMETRY Symmetry
SPECIFICATION Spec
PROPERTY NobodyBlocksThemselves
