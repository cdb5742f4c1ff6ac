CONSTANTS
    Items = {a, b}
    NoItem = NoItem
    Capacity = 4
    CounterMod = 3
SPECIFICATION Spec
INVARIANTS
    TypeOK
    ExclusiveSlot
    NoLossNoHole
    StatsAccount
PROPERTIES
    RefinesFifo
    ItemsAreDelivered
