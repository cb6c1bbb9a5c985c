CONSTANTS
  None = None
  Base = 4
  Width <- MCWidth
  Suites = {"TripleDh", "TripleDhKem", "PureEddsa", "PreHash"}
  Salts = {0, 1, 2}
  Extras <- MCExtras
  Ids <- MCIds
  Contexts <- MCContexts
  Content <- MCContent
  Pad <- MCPad
  XorByte <- MCXorByte
SPECIFICATION Spec
INVARIANTS
  ReadBack
  ShortInputRefused
  ResponseUnderstood
  HashedUnambiguous
CHECK_DEADLOCK FALSE
