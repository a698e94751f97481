SPECIFICATION Spec
CONSTANTS
  p = p
  forged = forged
  bad = bad
  short = short
  top = top
  img = img
  name = name
  Chunks = 2
  Packages <- MCPackages
  Signed <- MCSigned
  Malformed = {bad}
  Short = {short}
  Files <- MCFiles
  SubFiles = {img}
  Intervals = {3, 6}
  MachineNames = {name}
  MaxFaults = 2
  MaxCuts = 1
  NoValue = NoValue
INVARIANTS
  NeverTorn OneCopy OneChunkOverdue SettingsReturn OneTheme InstallIsWhole
