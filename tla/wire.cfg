CONSTANTS
  Enumerations <- Found
  Unnamed = {{}, {1}}
  Replies <- Lasts
  Drives = {300}
  Apps <- App
  Features = {18}
  Garbage <- Rests
  Counts = {65533}
  MaxPackets = 3
SPECIFICATION WSpec
INVARIANTS WTypeOK ReadableByAll AdvertisesActive MapAgrees
CHECK_DEADLOCK FALSE
