SPECIFICATION Spec
CHECK_DEADLOCK FALSE
CONSTANTS
    MaxSerial = 3
    MaxFaults = 3
INVARIANTS
    NothingLost
    AdmittedVolumeStays
    NamesOnUsedClusters
    CacheMirrorsDevice
