SPECIFICATION RabbitSpec
CONSTANTS
  B = 4
  Xor <- MCXor
  Add <- MCAdd
  Keys <- MCKeys
  Ivs <- MCIvs
  Stream <- MCStream
  Plain <- MCPlain
  MaxBytes = 37
  Lengths = {5, 16, 17, 32}
  Garbage <- MCGarbage
  NoKey = NoKey
  ByteBits = 2
  BitLengths = {1, 3, 4, 5}
  Inputs <- MCInputs
INVARIANTS
  TypeOK
  KeystreamInOrder
  MessageRecovered
PROPERTIES
  CountersAdd
  IsEncrypter
