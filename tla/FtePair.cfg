SPECIFICATION Spec
CONSTANTS
  Objects = {a, b}
  ProcessOf <- MCAlone
  Languages = {"one", "empty"}
  Lang <- MCLang
  HexKeys = {"k1", "k2"}
  OddKeys = {}
  BadKeys = {}
  Ciphers <- MCOneCipher
  ByteBits = 2
  Nothing = Nothing
INVARIANTS
  EncryptDelivers
  RoundTrip
  KeyInUse
  RabbitNeverWalks
SYMMETRY ObjectSymmetry
