--------------------------- MODULE InventoryFile ---------------------------
(***************************************************************************)
(* Inventory between its sources and its file: the catalog it runs on      *)
(* comes from the client's tables (GameData), the inventory from the       *)
(* account database file, and what its requests store goes back into that  *)
(* file (AccountFile).  Item and character ids are numbers here, None is 0.*)
(***************************************************************************)
EXTENDS Inventory, AccountFile, GameData

CONSTANTS
    ItemTable, PackageTable, SkillTable, CharacterTable,
    TypeNames,      \* TypeNames[s]: the item type of slot s
    WornKeys,       \* WornKeys[s], OwnedKeys[s]: its members in a
    OwnedKeys,      \* CharacterInventory
    OperatorFile    \* the account database file the server starts with

-----------------------------------------------------------------------------
\* The catalog.

Catalog == ItemsById(ItemTable)
SoldSkills == SkillsById(SkillTable)
Names == CharacterNames(CharacterTable)

ItemOf(id) == IF id = 0 THEN None ELSE id

KnownFrom == DOMAIN Catalog
CharactersFrom == DOMAIN Names

SlotsFrom ==
    [i \in Items |->
        IF i \in DOMAIN Catalog /\ Catalog[i].equipment_like
        THEN CHOOSE s \in Slots : TypeNames[s] = Catalog[i].item_type_name
        ELSE None]

\* A name is nobody's where its key is empty or no character has it.
WearersFrom ==
    [i \in Items |->
        LET wanted == IF i \in DOMAIN Catalog THEN Key(Catalog[i].character_name) ELSE ""
            named == {c \in DOMAIN Names : wanted # "" /\ Key(Names[c]) = wanted}
        IN  IF named = {} THEN None ELSE Min(named)]

ContentsFrom == [i \in Items |-> ToSet(PackageContents(PackageTable, i))]

PricesFrom ==
    [i \in Items |->
        IF i \in DOMAIN Catalog
        THEN [luna |-> Catalog[i].luna_price, cash |-> Catalog[i].cash_price]
        ELSE [luna |-> 0, cash |-> 0]]

BagsFrom ==
    {i \in DOMAIN Catalog :
        Catalog[i].item_type_name = "Bag" \/ Catalog[i].equip_slot_name = "Bag"}

SkillRowsFrom ==
    {[base |-> ItemOf(SoldSkills[k].base_skill_id), luna |-> SoldSkills[k].luna_price,
      cash |-> SoldSkills[k].cash_price, minutes |-> SoldSkills[k].duration_minutes] :
        k \in DOMAIN SoldSkills}

-----------------------------------------------------------------------------
\* The records of the account, and the inventory in them.

Account == (CHOOSE book \in BooksIn(OperatorFile) : TRUE)[1]

Sorted(ids) == SetToSortSeq(ids, LAMBDA a, b : a < b)
Id(i) == IF i = None THEN 0 ELSE i

StackRows(stacks) ==
    LET ids == Sorted(DOMAIN stacks)
    IN  [n \in DOMAIN ids |-> [item_id |-> ids[n], owned_count |-> stacks[ids[n]]]]

SkillRowsOf(minutes) ==
    LET ids == Sorted(DOMAIN minutes)
    IN  [n \in DOMAIN ids |->
            [skill_item_id |-> ids[n], duration_minutes |-> minutes[ids[n]]]]

CharacterRow(row) ==
    LET c == row.character_id
        With(s, r) ==
            [r EXCEPT ![WornKeys[s]] = Id(inv.worn[c][s]),
                      ![OwnedKeys[s]] = Sorted({i \in inv.owned[c] : SlotOf[i] = s})]
    IN  FoldSet(With, row, Slots)

InventoryRecord ==
    [shared_item_stacks |-> StackRows(inv.stacks),
     owned_skills |-> SkillRowsOf(skills),
     characters |->
        [n \in DOMAIN Account.profile["inventory"].characters |->
            CharacterRow(Account.profile["inventory"].characters[n])]]

QuickslotRow(n, entry) ==
    [entry_key |-> Id(entry.key), slot_index |-> n, quickslot_entry_id |-> Id(entry.key),
     slot_state |-> CASE entry.state = "open" -> 0 [] entry.state = "item" -> 1 [] OTHER -> 3,
     display_lookup_key |-> Id(entry.key), duration_minutes |-> 0]

\* Assigning a quickslot stores the list, also where the file had none; a
\* purchase of a skill drops the skill list of the file.
ProfileRecord ==
    [part \in (DOMAIN Account.profile \ (IF DOMAIN skills = {} THEN {} ELSE {"skill_list"}))
                \cup (IF DOMAIN quick = {} THEN {} ELSE {"quickslot_list"}) |->
        CASE part = "inventory" -> InventoryRecord
          [] part = "account_info" ->
                [Account.profile[part] EXCEPT !.luna = purse.luna, !.cash = purse.cash]
          [] part = "quickslot_list" ->
                LET slots == Sorted(DOMAIN quick)
                IN  [n \in DOMAIN slots |-> QuickslotRow(slots[n], quick[slots[n]])]
          [] OTHER -> Account.profile[part]]

Book == <<[Account EXCEPT !.profile = ProfileRecord]>>

\* The inventory a record stands for.
StacksIn(record) ==
    LET rows == record.shared_item_stacks
    IN  [i \in {rows[n].item_id : n \in DOMAIN rows} |->
            (CHOOSE r \in ToSet(rows) : r.item_id = i).owned_count]

RowOf(record, c) == CHOOSE r \in ToSet(record.characters) : r.character_id = c

InventoryIn(record) ==
    [stacks |-> StacksIn(record),
     owned |-> [c \in Mine |->
        UNION {ToSet(RowOf(record, c)[OwnedKeys[s]]) : s \in Slots}],
     worn |-> [c \in Mine |->
        [s \in Slots |-> ItemOf(RowOf(record, c)[WornKeys[s]])]]]

InventoriesFrom == {InventoryIn(Account.profile["inventory"])}
PursesFrom ==
    {[luna |-> Account.profile["account_info"].luna,
      cash |-> Account.profile["account_info"].cash]}
MineFrom ==
    {Account.profile["inventory"].characters[n].character_id :
        n \in DOMAIN Account.profile["inventory"].characters}

-----------------------------------------------------------------------------
\* Whatever the requests make of the account, a server that reads the file
\* it was stored in finds the account as it was: counts of zero, lists that
\* became empty, what was read under the keys of an older file, names that
\* need escapes, and which lists there were at all.
ReloadChangesNothing ==
    LET books == BooksIn(Written(Book))
    IN  books # {} /\ \A book \in books :
            book = Book /\ InventoryIn(book[1].profile["inventory"]) = inv
=============================================================================
