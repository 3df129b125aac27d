SPECIFICATION Spec
CONSTANTS
  Objects = {a, b}
  ProcessOf <- MCTogether
  Languages = {"four"}
  Lang <- MCLang
  HexKeys = {"k1", "k2"}
  OddKeys = {}
  BadKeys = {}
  Ciphers <- MCOneCipher
  ByteBits = 2
  Nothing = Nothing
INVARIANT
  RoundTrip
