SPECIFICATION FairSpec
CONSTANTS
  Producers = {t1}
  Capacity = 4
  Items = {e1, e2}
  Garbage = Garbage
  Empty = Empty
INVARIANTS TypeOK NoDataRace
PROPERTIES ImplementsFifo FullQueueDrains
