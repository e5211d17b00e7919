\* The server, one child of it at a time, add.c and a device, whose second lookup
\* that finds nothing fails for want of a descriptor.  Two records and a half of
\* another fit on the disk.
SPECIFICATION RegistrySpec
CONSTANTS
  Servers = {"server"}
  Tools = {"add"}
  Devices = {"device"}
  Children = {"child"}
  Peers = {"friend"}
  MaxRuns <- FewRuns
  MaxFds = 1
  MaxUnits = 5
CHECK_DEADLOCK FALSE
INVARIANTS
  RegistryTypeOK
  NotFoundMeansAbsent
  FoundIsOwn
PROPERTIES
  SettledKept
