CONSTANTS
  Apps = {1, 2}
  Ids = {1, 2}
  Titles = {desktop, steam}
  ConfigApp = steam
  MaxApps = 3
  MenuSize = 2
SPECIFICATION StreamStartSpec
INVARIANT PairingKnown
INVARIANT GameRunsAsKnown
INVARIANT ConfiguredAppOtherwise
PROPERTY PairedOnlyByHost
