\* Every request about goods, two sessions, writes that may be cut short.
SPECIFICATION Spec
CONSTANTS
    Accounts = {a1}
    NoAccount = NoAccount
    Names = {}
    NoName = NoName
    Goods = {g1, g2}
    Sessions = {s1, s2}
    Tasks = {"buy", "buy_skill", "repair", "remove", "equip", "quickslot"}
    Absent = Absent
    Torn = Torn
    Faults = {"cut", "rename"}
    Seeds <- MCTwoSeeds
SYMMETRY MCSymmetry
INVARIANTS
    NothingComesFree
