CONSTANTS
  None = None
  EmptyString = EmptyString
  TooLong = {}
  Suite = "PreHash"
  Registrations = {r1}
  Clients = {c1, c2}
  Servers = {h1, h2}
  Setups = {g1}
  FirstSetup = g1
  Passwords = {p1}
  CredentialIds = {u1}
  ClientIdentifiers = {None}
  ServerIdentifiers = {None}
  Contexts = {None}
  Ksfs = {k1}
  RemoteSeed = FALSE
  Reflecting = FALSE
  BlindRefuses = {}
  FinalizeRefuses = {}
  KsfRefuses = {}
SPECIFICATION ConfirmingSpec
INVARIANTS
  ServerAgreement
  RemoteKeyBound
  MatchingFinalizationNotRefused
  SessionKeysPair
PROPERTIES
  ServerConfirms
CHECK_DEADLOCK FALSE
