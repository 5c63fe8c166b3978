SPECIFICATION SettingsSpec
CONSTANTS
  Groups = {{}}
  Amounts = {0, 1}
  Apps = {"a"}
  MaxOthers = 0
  MaxDialogs = 1
  MaxJobs = 1
PROPERTY
  SavingFlagsKeepsTheRest
CHECK_DEADLOCK FALSE
