SPECIFICATION FairSpec
CONSTANTS
  Numbers = {258, 0}
  NV1Values = {9, 129}
  CanIds = {5}
  NVCells = {"macRest", "portnum"}
  SW_DEBOUNCE_COUNT = 1
  MaxLosses = 1
INVARIANTS NumberSurvives OneNumberPerOffer InUseIsStored DefaultsComplete ButtonRestores
PROPERTIES BootIsReached
CHECK_DEADLOCK FALSE
