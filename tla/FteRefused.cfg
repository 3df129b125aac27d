SPECIFICATION Spec
CONSTANTS
  Objects = {a}
  ProcessOf <- MCAlone
  Languages = {"two", "three"}
  Lang <- MCLang
  HexKeys = {"k1", "k2"}
  OddKeys = {}
  BadKeys = {}
  Ciphers <- MCOneCipher
  ByteBits = 2
  Nothing = Nothing
INVARIANT
  LanguagesFit
