CONSTANTS
  None = None
  EmptyString = EmptyString
  TooLong = {l1}
  Suite = "TripleDh"
  Registrations = {r1}
  Clients = {c1}
  Servers = {h1}
  Setups = {g1}
  FirstSetup = g1
  Passwords = {p1, p2}
  CredentialIds = {u1}
  ClientIdentifiers = {None, l1}
  ServerIdentifiers = {None, EmptyString}
  Contexts = {None, EmptyString, x1, l1}
  Ksfs = {k1, k2}
  RemoteSeed = FALSE
  Reflecting = TRUE
  BlindRefuses = {p2}
  FinalizeRefuses = {p2}
  KsfRefuses = {k2}
SPECIFICATION Spec
INVARIANTS
  ClientAgreement
  FailuresExplained
CHECK_DEADLOCK FALSE
