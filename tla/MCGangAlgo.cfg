SPECIFICATION CheckSpec
CONSTANTS
  BlockSize = 2
  SizeMod = 16
  Lanes = {2, 4}
  Rows = 3
  LaneMod = 4
  InMods = {3, 4}
  OutMod = 4
  ZeroTypes <- MCZeroTypes
  Operations <- MCOperations
  MaxLength = 5
  MaxBits = 12
  Addresses = {0, 1, 2, 3}
  MaxEnd = 14
  MaxGranular = 5
  MaxNum = 5
INVARIANTS ReduceIsSerial ScanIsSerial CountExact PackIsSerial RangesTile RangesFair CutIsBegins
