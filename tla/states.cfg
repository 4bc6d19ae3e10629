SPECIFICATION StatesFairSpec
CONSTANTS
  Letter <- MCLetter
  Wanted <- MCWanted
  MaxStates = 2
INVARIANTS StatesTypeOK
PROPERTIES SettlesOnTruth StaysOnTruth
