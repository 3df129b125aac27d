SPECIFICATION FairSpec
CONSTANTS
  Objects = {a}
  ProcessOf <- MCAlone
  Languages = {"two", "three"}
  Lang <- MCLang
  HexKeys = {"k1", "k2"}
  OddKeys = {}
  BadKeys = {}
  Ciphers <- MCAllCiphers
  ByteBits = 2
  Nothing = Nothing
PROPERTY
  AnyDecryptEnds
