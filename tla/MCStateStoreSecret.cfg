CONSTANTS
  admin = admin
  alice = alice
  Users = {admin}
  Admin = admin
  strong = strong
  other = other
  short = short
  Passwords = {strong, other}
  Weak = {}
  None = None
  MaxRevision = 3
  MaxStops = 2
SPECIFICATION Spec
PROPERTY BootstrapCredentialStored
