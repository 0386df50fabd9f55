SPECIFICATION FairSpec
CONSTANTS
  Items = {i1, i2}
  Devices = {d1, d2}
  Tenants = {t1}
  Syncs = {c1, c2}
  NoTenant = NoTenant
  NoDevice = NoDevice
  BatchLimit = 1
  Disturbances = {"fault", "reload"}
  MaxDisturbances = 2
PROPERTIES UploadedUnlessBlocked
