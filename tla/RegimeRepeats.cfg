SPECIFICATION Spec
CONSTANTS
  Scan = {"timer"}
  Market <- Signals
  ConfirmCount = 3
PROPERTY
  SwitchesOnRepeats
