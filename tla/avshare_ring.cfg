SPECIFICATION Spec
CONSTANTS
  Slots = 3
  MaxUnits = 14
  MaxVisits = 2
INVARIANTS
  StartsDecodable
  SettledInOrder
  GapsAtKeys
PROPERTIES
  DeliveredOnce
  ImplementsFeed
