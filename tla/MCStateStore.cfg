CONSTANTS
  admin = admin
  alice = alice
  Users = {admin, alice}
  Admin = admin
  strong = strong
  other = other
  short = short
  Passwords = {strong, other, short}
  Weak = {short}
  None = None
  MaxRevision = 5
  MaxStops = 1
SPECIFICATION FairSpec
INVARIANTS
  TypeOK
  AckedNotLost
  ActiveAdminRemains
  NoUserWithoutCredential
  BootstrapSecretUsable
PROPERTIES
  ImplementsDurableDocument
  ServerComesBack
