SPECIFICATION Spec
CONSTANTS
  Producers = {p1, p2}
  Consumers = {main}
  Items = {i1, i2, i3}
  NoItem = NoItem
  NoThread = NoThread
  MaxUnderflow = 1
INVARIANTS TypeOK PopsNonEmpty NoLostWakeup
PROPERTY ImplementsFifo
