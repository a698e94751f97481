SPECIFICATION FairSpec
CONSTANTS
  Pages = 5
  ImagePages = 4
  VectorPage = 1
  SectorOf <- Sectors
  Faults <- AllFaults
INVARIANTS RunsDisarmed WholeUnlessCut
PROPERTIES BootEnds
