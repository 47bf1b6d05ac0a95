SPECIFICATION Spec
CONSTANTS
    Accounts = {a1, a2}
    NoAccount = NoAccount
    Names = {n1, n2}
    NoName = NoName
    Goods = {}
    Sessions = {s1, s2}
    Tasks = {}
    Absent = Absent
    Torn = Torn
    Faults = {"open", "rename", "remove"}
    Seeds <- MCSeeds
SYMMETRY MCSymmetry
INVARIANTS
    NicknamesAreUnique
    ABookIsOnDisk
    PromisesAreKept
    NamesTellSessionsApart
    EditsAreSeen
PROPERTIES
    ImplementsBook
