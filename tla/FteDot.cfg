SPECIFICATION Spec
CONSTANTS
  Objects = {a}
  ProcessOf <- MCAlone
  Languages = {"star"}
  Lang <- MCDotLang
  HexKeys = {"k1", "k2"}
  OddKeys = {}
  BadKeys = {}
  Ciphers <- MCOneCipher
  ByteBits = 2
  Nothing = Nothing
INVARIANT
  RabbitKnowsNoWalk
