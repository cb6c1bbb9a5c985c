CONSTANTS
  None = None
  EmptyString = EmptyString
  TooLong = {}
  Suite = "TripleDh"
  Registrations = {r1, r2}
  Clients = {c1}
  Servers = {h1, h2}
  Setups = {g1}
  FirstSetup = g1
  Passwords = {p1, p2}
  CredentialIds = {u1}
  ClientIdentifiers = {None}
  ServerIdentifiers = {None}
  Contexts = {None}
  Ksfs = {k1}
  RemoteSeed = FALSE
  Reflecting = FALSE
  BlindRefuses = {}
  FinalizeRefuses = {}
  KsfRefuses = {}
SPECIFICATION Spec
SYMMETRY Symmetry
INVARIANTS
  TypeOK
  FailuresExplained
  ServerAgreement
  LoginNeedsRegistration
CHECK_DEADLOCK FALSE
