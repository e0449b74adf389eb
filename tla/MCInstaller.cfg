CONSTANTS
  Upgradable = {"containerd"}
  Mishaps = 3
  None = None
  Broken = Broken
SPECIFICATION FairSpec
INVARIANTS UninstallRestores InstallLoads SameCA
PROPERTIES RestartsLoadable Heals
CHECK_DEADLOCK FALSE
