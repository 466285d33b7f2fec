\* Screen 2 may be selected.
CONSTANTS
  GX_ZONE_COUNT = 1
  MODBUS_QUEUE_DEPTH = 2
  Screens = {2}
  Fires <- Bitmaps
  MaxArrivals = 3
SPECIFICATION FairSpecPanel
PROPERTIES PointLeaves
CHECK_DEADLOCK FALSE
