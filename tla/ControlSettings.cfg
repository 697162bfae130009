SPECIFICATION FairSpec
CONSTANTS
    Stores = {w1}
    Prefs = {light}
    MaxOps = 0
    MaxCrashes = 1
    MaxFaults = 0
    MaxRestores = 1
    None = None
PROPERTIES SettingsArrive
