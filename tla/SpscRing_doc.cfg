CONSTANTS
    Items = {a, b}
    NoItem = NoItem
    Capacity = 4
    CounterMod = 3
SPECIFICATION Spec
PROPERTY OldestIsDiscarded
