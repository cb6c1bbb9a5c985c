CONSTANTS
  None = None
  EmptyString = EmptyString
  TooLong = {l1}
  Suite = "PureEddsa"
  Registrations = {r1}
  Clients = {c1}
  Servers = {h1}
  Setups = {g1}
  FirstSetup = g1
  Passwords = {p1}
  CredentialIds = {u1}
  ClientIdentifiers = {None, EmptyString, l1}
  ServerIdentifiers = {None, i2}
  Contexts = {None, EmptyString, x1, l1}
  Ksfs = {k1}
  RemoteSeed = FALSE
  Reflecting = FALSE
  BlindRefuses = {}
  FinalizeRefuses = {}
  KsfRefuses = {}
SPECIFICATION ConfirmingSpec
INVARIANTS
  FinishChecksClient
  LoginNeedsRegistration
PROPERTIES
  ServerConfirms
CHECK_DEADLOCK FALSE
