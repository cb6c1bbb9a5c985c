CONSTANTS
  None = None
  EmptyString = EmptyString
  TooLong = {}
  Suite = "TripleDh"
  Registrations = {r1}
  Clients = {c1}
  Servers = {h1}
  Setups = {g1, g2}
  FirstSetup = g1
  Passwords = {p1}
  CredentialIds = {u1, u2}
  ClientIdentifiers = {None}
  ServerIdentifiers = {None}
  Contexts = {None}
  Ksfs = {k1}
  RemoteSeed = TRUE
  Reflecting = FALSE
  BlindRefuses = {}
  FinalizeRefuses = {}
  KsfRefuses = {}
SPECIFICATION Spec
SYMMETRY Symmetry
INVARIANTS
  MatchingLoginNotRefused
  LoginNeedsRegistration
CHECK_DEADLOCK FALSE
