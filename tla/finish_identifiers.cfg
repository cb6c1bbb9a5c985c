CONSTANTS
  None = None
  EmptyString = EmptyString
  TooLong = {}
  Suite = "TripleDh"
  Registrations = {r1}
  Clients = {c1}
  Servers = {h1}
  Setups = {g1}
  FirstSetup = g1
  Passwords = {p1}
  CredentialIds = {u1}
  ClientIdentifiers = {None, i1}
  ServerIdentifiers = {None}
  Contexts = {None}
  Ksfs = {k1}
  RemoteSeed = FALSE
  Reflecting = FALSE
  BlindRefuses = {}
  FinalizeRefuses = {}
  KsfRefuses = {}
SPECIFICATION Spec
INVARIANTS
  FinishChecksIdentifiers
CHECK_DEADLOCK FALSE
