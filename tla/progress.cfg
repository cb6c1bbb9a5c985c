CONSTANTS
  None = None
  EmptyString = EmptyString
  TooLong = {}
  Suite = "PureEddsa"
  Registrations = {r1}
  Clients = {c1}
  Servers = {h1, h2}
  Setups = {g1}
  FirstSetup = g1
  Passwords = {p1, p2}
  CredentialIds = {u1}
  ClientIdentifiers = {None}
  ServerIdentifiers = {None}
  Contexts = {None}
  Ksfs = {k1}
  RemoteSeed = FALSE
  Reflecting = FALSE
  BlindRefuses = {}
  FinalizeRefuses = {}
  KsfRefuses = {}
SPECIFICATION FairSpec
PROPERTIES
  ClientCompletes
  BuilderAnswers
CHECK_DEADLOCK FALSE
