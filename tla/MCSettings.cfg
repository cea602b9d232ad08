CONSTANTS
  Unset <- MCUnset
  Starts <- MCStarts
SPECIFICATION Spec
INVARIANTS TypeOK SettingIsDeclared ReadyIsUsable
CHECK_DEADLOCK FALSE
