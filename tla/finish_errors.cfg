CONSTANTS
  None = None
  EmptyString = EmptyString
  TooLong = {l1}
  Suite = "TripleDh"
  Registrations = {r1}
  Clients = {c1}
  Servers = {h1}
  Setups = {g1}
  FirstSetup = g1
  Passwords = {p1}
  CredentialIds = {u1}
  ClientIdentifiers = {None}
  ServerIdentifiers = {None}
  Contexts = {None, l1}
  Ksfs = {k1, k2}
  RemoteSeed = FALSE
  Reflecting = FALSE
  BlindRefuses = {}
  FinalizeRefuses = {}
  KsfRefuses = {k2}
SPECIFICATION Spec
INVARIANTS
  FinishFailsAsInvalidLogin
CHECK_DEADLOCK FALSE
