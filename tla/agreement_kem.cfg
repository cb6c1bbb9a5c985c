CONSTANTS
  None = None
  EmptyString = EmptyString
  TooLong = {}
  Suite = "TripleDhKem"
  Registrations = {r1}
  Clients = {c1, c2}
  Servers = {h1, h2}
  Setups = {g1}
  FirstSetup = g1
  Passwords = {p1}
  CredentialIds = {u1}
  ClientIdentifiers = {None}
  ServerIdentifiers = {None}
  Contexts = {None}
  Ksfs = {k1}
  RemoteSeed = FALSE
  Reflecting = FALSE
  BlindRefuses = {}
  FinalizeRefuses = {}
  KsfRefuses = {}
SPECIFICATION Spec
INVARIANTS
  ClientAgreement
  ServerAgreement
  MatchingLoginNotRefused
PROPERTIES
  ImplementsLogin
CHECK_DEADLOCK FALSE
