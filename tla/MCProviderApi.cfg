CONSTANTS
  None = None
  MaxSide = 3
  MaxStart = 255
  MaxFreeBytes = 3
  Int64Max = 1073741823
  POINTCLOUD_MAX_POINTS = 4
  MaxNumber = 1
  MaxDeviceNumber = 2
  MaxTimeouts = 1
  Documents <- MCDocuments
  Requests <- MCRequests
SPECIFICATION Spec
INVARIANTS
  AcceptedConfigStarts
  AdvertisedIsServed
  NoInternalError
  QueriesMatchReference
  CloudRoundTrips
CHECK_DEADLOCK FALSE
