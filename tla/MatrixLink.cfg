\* Two publications of the bitmap, one of the others, any two faults.
CONSTANTS
  GX_ZONE_COUNT = 1
  MODBUS_QUEUE_DEPTH = 2
  MATRIX_RETRIES = 1
  Fires <- Bitmaps
  MaxPosts <- Posts
  MaxFaults = 2
SPECIFICATION FairSpec
PROPERTIES NeverBackwards RegistersSettle TrackClears
CHECK_DEADLOCK FALSE
