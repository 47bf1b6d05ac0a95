SPECIFICATION Spec
CONSTANTS
    None = None
    clothes = clothes  hats = hats
    NoName = NoName
    LowerKey <- MCLowerKey
    ItemTable <- MCItemTable
    PackageTable <- MCPackageTable
    SkillTable <- MCSkillTable
    CharacterTable <- MCCharacterTable
    TypeNames <- MCTypeNames
    WornKeys <- MCWornKeys
    OwnedKeys <- MCOwnedKeys
    OperatorFile <- MCOperatorFile
    MaxOf <- MCMaxOf
    Items <- MCItems
    Known <- KnownFrom
    Slots = {clothes, hats}
    Characters <- CharactersFrom
    Mine <- MineFrom
    SlotOf <- MCSlotOf
    WearerOf <- MCWearerOf
    Contents <- MCContents
    Prices <- MCPrices
    Hero = 1
    LegacyIn <- MCLegacyIn
    SpareIn <- MCSpareIn
    Bags <- BagsFrom
    ShortIds = {5000}
    SkillRows <- SkillRowsFrom
    QuickslotCount = 1
    BaseSlots = 0
    BagCap = 1
    MaxCount = 2
    CountFields = {1, 2}
    FirstInventories <- InventoriesFrom
    FirstPurses <- PursesFrom
    MaxRequests = 4
INVARIANTS
    TypeOK
    WornIsOwned
    ReloadChangesNothing
PROPERTIES
    ChargesDeliver
    NothingVanishes
    OldTroublesFade
CHECK_DEADLOCK FALSE
