SPECIFICATION FairSpec
CONSTANTS
  MaxVersion = 5
  Class2 = TRUE
  Etags = TRUE
  Faults = TRUE
  Signals = TRUE
INVARIANTS TypeOK LockedUploadMatches CleanedUp WorkKept
PROPERTIES ImplementsUpdate EditEnds
