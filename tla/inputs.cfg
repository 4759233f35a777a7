SPECIFICATION Spec
CONSTANTS
  Bytes = {0, 10, 34, 65, 92, 128, 143, 144, 159, 160, 191, 193, 194, 223, 224, 237, 239, 240, 244, 245}
  Units = {0, 65, 127, 128, 2047, 2048, 55295, 55296, 56319, 56320, 57343, 57344, 65535}
  MaxBytes = 4
  MaxElements = 2
  Keys = {"k1", "k2", "bad"}
  Strings = {"s", "bad"}
  Numbers = {"1", "2", "nan"}
  Broken = {"bad", "nan"}
  Stored <- MCStored
  Sorted <- MCSorted
  BlockSize = 64
  LengthSize = 8
  FileSizes = {0, 1, 54, 55, 56, 57, 62, 63, 64, 65, 119, 120, 127, 128, 129}
  NoDigest = NoDigest
INVARIANTS
  ValidatorExact
  EscapesReversible
  SurrogatesPair
  RoundTrip
  TruncationRefused
  NothingDropped
  DigestCoversFile
CHECK_DEADLOCK FALSE
