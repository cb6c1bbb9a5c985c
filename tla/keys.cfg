CONSTANTS
  None = None
  Order = 13
  Bytes = 32
  Groups = {"Ristretto255", "EllipticCurve", "Curve25519", "Ed25519"}
  Stores <- MCStores
  Owners = {d1, d2}
  Seeds <- MCSeeds
  Texts <- MCTexts
  Digest <- MCDigest
  MaxSignatures = 2
SPECIFICATION Spec
INVARIANTS
  KeysSurvive
  LoadedAsGiven
  SecretsAgree
  SignaturesVerify
CHECK_DEADLOCK FALSE
