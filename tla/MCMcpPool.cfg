SPECIFICATION Spec
CONSTANTS
    t1 = t1
    t2 = t2
    t3 = t3
    alice = alice
    bob = bob
    Turns = {t1, t2, t3}
    Keys = {alice, bob}
    KeyOf <- MCKeyOf
    Owners = {o1, o2, o3}
    None = None
    MaxAbandoned = 1
INVARIANTS
    NoLeak
    TableIsOpen
PROPERTY KeepsSessions
SYMMETRY Symmetry
CHECK_DEADLOCK FALSE
