SPECIFICATION Spec
CONSTANTS
  iso1 = iso1
  iso2 = iso2
  iso3 = iso3
  None = None
  Torn = Torn
  Images <- MCImages
  Targets <- MCTargets
  TargetOf <- MCTargetOf
  Fingerprint <- MCFingerprint
  Startup <- MCStartup
  Identity <- MCIdentity
  StaleMeta <- MCStaleMeta
  TotalSectors = 1
  PartCount = 1
  JournalInterval = 1
PROPERTY ValidGameRefused
