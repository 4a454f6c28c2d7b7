SPECIFICATION Spec
CONSTANTS
  Bits <- MCBits
  Weight <- MCWeight
  Byte = 3
  Modulus = 9
  ProgRows = 6
  EraseRows = 2
  Download <- MCDownload
  Old <- MCOld
  MaxLost = 1
  MaxShort = 1
  MaxFail = 1
  MaxPower = 1
INVARIANTS OkMeansProgrammed AppIsWhole
PROPERTIES OthersKept EventuallyRuns
