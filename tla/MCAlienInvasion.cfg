SPECIFICATION GameFairSpec
CONSTANTS
  Window <- Small
  Full <- Large
  AlienW = 1
  AlienH = 1
  ShipW = 1
  ShipH = 1
  BulletW = 1
  BulletH = 5
  ShipSpeed = 30
  BulletSpeed = 60
  AlienSpeed = 10
  DropSpeed = 1
  ShipLimit = 1
  BulletAllowed = 2
  MaxLevel = 1
  Scale <- PowersOfSpeedup
INVARIANTS
  FleetOnScreen
PROPERTIES
  OneShipPerFrame
  UnattendedGameEnds
CHECK_DEADLOCK FALSE
