CONSTANTS
  None = None
  Order = 13
  Bytes = 32
  Groups = {"Ed25519"}
  Stores <- Ed25519Serde
  Owners = {d1, d2}
  Seeds <- MCSeeds
  Texts <- MCTexts
  Digest <- MCDigest
  MaxSignatures = 2
SPECIFICATION Spec
INVARIANTS
  KeysSurvive
CHECK_DEADLOCK FALSE
