CONSTANTS
  Ids = {1, 2, 3}
  Titles = {desktop, steam}
  ConfigApp = steam
  MaxApps = 3
  MenuSize = 2
SPECIFICATION ChoiceSpec
CHECK_DEADLOCK FALSE
INVARIANT ChosenAppStarts
