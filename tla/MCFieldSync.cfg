SPECIFICATION Spec
CONSTANTS
  Items = {i1, i2}
  Devices = {d1, d2}
  Tenants = {t1, t2}
  Syncs = {c1, c2}
  NoTenant = NoTenant
  NoDevice = NoDevice
  BatchLimit = 2
  Disturbances = {"fault", "reload", "wipe", "switch"}
  MaxDisturbances = 2
INVARIANTS SyncedIsStored
PROPERTIES WipedStaysWiped
SYMMETRY Symmetry
