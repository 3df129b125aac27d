SPECIFICATION FairSpec
CONSTANTS
  Objects = {"a"}
  ProcessOf <- MCAlone
  Languages = {"one", "two", "none"}
  Lang <- MCLang
  HexKeys = {"k1"}
  OddKeys = {"odd"}
  BadKeys = {"", "short"}
  Ciphers <- MCAllCiphers
  ByteBits = 2
  Nothing = Nothing
INVARIANTS
  TypeOK
  EncryptDelivers
  RoundTrip
  KeyInUse
PROPERTIES
  EncryptEnds
  DecryptEnds
