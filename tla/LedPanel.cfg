\* The panel rotates its screens, or shows screen 2 for a while or for good.
CONSTANTS
  GX_ZONE_COUNT = 1
  MODBUS_QUEUE_DEPTH = 2
  Screens = {0, 2}
  Fires <- Bitmaps
  MaxArrivals = 3
SPECIFICATION FairSpecPanel
INVARIANTS NoStalePicture
PROPERTIES PanelFollows
CHECK_DEADLOCK FALSE
