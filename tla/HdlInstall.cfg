SPECIFICATION FairSpec
CONSTANTS
  iso1 = iso1
  iso2 = iso2
  iso3 = iso3
  None = None
  Torn = Torn
  Images <- MCImages
  Targets <- MCTargets
  TargetOf <- MCTargetOf
  Fingerprint <- MCFingerprint
  Startup <- MCStartup
  Identity <- MCIdentity
  StaleMeta <- MCStaleMeta
  TotalSectors = 2
  PartCount = 2
  JournalInterval = 2
INVARIANTS ExposedIsWhole JournalNeverAhead CleanupNotTrapped
PROPERTIES JournalMonotone OnlyOwnedRemoved PublishesAtomically RunTerminates
