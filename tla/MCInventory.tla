---------------------------- MODULE MCInventory ----------------------------
(***************************************************************************)
(* Tables of ten items, two slots and three characters, one of which the   *)
(* account lacks, and an operator's file of an earlier server: old keys,   *)
(* counts left out, boxes on the stacks, the misexpanded swimsuit.         *)
(***************************************************************************)
EXTENDS InventoryFile

CONSTANTS clothes, hats

Vest == 8090        \* 8090 and 8099 of the swimsuit's four legacy pieces
Hat == 8099
Shirt == 8000
Straw == 8004
Spear == 8200
Swimsuit == 20000
Uniform == 20001
Lute == 9001
Cape == 9002        \* in a package, but not in item.csv
Bag == 5000
Elina == 2
Juru == 3

MCItems == {Vest, Hat, Shirt, Straw, Spear, Swimsuit, Uniform, Lute, Cape, Bag}
MCLowerKey ==
    [n \in {"Baek-Ho", "Elina", "Kirious", "Kirius", "All", ""} |->
        CASE n = "Baek-Ho" -> "baekho" [] n = "Elina" -> "elina"
          [] n = "Kirious" -> "kirious" [] n = "Kirius" -> "kirius"
          [] n = "All" -> "all" [] OTHER -> ""]
MCTypeNames == [s \in {clothes, hats} |->
    IF s = clothes THEN "Main Clothes" ELSE "Accessories (1)"]
MCWornKeys == [s \in {clothes, hats} |->
    IF s = clothes THEN "clothes_item_id" ELSE "accessory_1_item_id"]
MCOwnedKeys == [s \in {clothes, hats} |->
    IF s = clothes THEN "owned_clothes_item_ids" ELSE "owned_accessory_1_item_ids"]

\* item.csv: the price of a column, who wears it, what it is.
ItemLine(id, price, wearer, type, slot) ==
    Line(47, (0 :> Number(id)) @@ price @@ (16 :> Text(wearer))
                @@ (17 :> Text(type)) @@ (18 :> Text(slot)))
Free == 8 :> Number(0)
MCItemTable == <<
    ItemLine(Bag, 6 :> Number(1), "All", "Bag", "Bag"),
    ItemLine(Shirt, 6 :> Number(3), "Baek-Ho", "Main Clothes", "Clothes"),
    ItemLine(Vest, 44 :> Number(1), "Baek-Ho", "Main Clothes", "Clothes"),
    ItemLine(Hat, Free, "Baek-Ho", "Accessories (1)", "Accessories"),
    ItemLine(Straw, Free, "Baek-Ho", "Accessories (1)", "Accessories"),
    ItemLine(Spear, 29 :> Number(1), "Elina", "Main Clothes", "Clothes"),
    ItemLine(Lute, Free, "Kirious", "Main Clothes", "Clothes"),
    ItemLine(Swimsuit, (45 :> Number(2)) @@ (38 :> Number(1)), "Baek-Ho", "Package", ""),
    ItemLine(Uniform, 6 :> Number(1), "All", "Package", ""),
    \* A later line of the same item.
    ItemLine(Shirt, Free, "Baek-Ho", "Main Clothes", "Clothes")>>

Holds(package, item) == Line(4, (0 :> Number(package)) @@ (1 :> Number(item)))
MCPackageTable == <<
    Holds(Swimsuit, Shirt), Holds(Swimsuit, Straw),
    Holds(Uniform, Lute), Holds(Uniform, Cape)>>

SkillLine(id, price, period) ==
    Line(52, (0 :> Number(id)) @@ (2 :> Number(Juru)) @@ price @@ period)
MCSkillTable == <<
    SkillLine(314, 4 :> Number(1), 51 :> Duration(NoNumber, "permanent")),
    SkillLine(110314, 33 :> Number(1), 41 :> Duration(1, "day"))>>

CharacterLine(id, name) == Line(19, (1 :> Number(id)) @@ (11 :> Text(name)))
MCCharacterTable == <<
    CharacterLine(0, "All"), CharacterLine(Hero, "Baek-Ho"),
    CharacterLine(Elina, "Elina"), CharacterLine(Juru, "Kirius")>>

MCLegacyIn == [s \in {clothes, hats} |-> IF s = clothes THEN Vest ELSE Hat]
MCSpareIn == [s \in {clothes, hats} |-> IF s = clothes THEN Shirt ELSE Straw]
\* The catalog as tables: TLC would look a function up in the files each time.
Tabled(f) == f @@ f
MCSlotOf == Tabled(SlotsFrom)
MCWearerOf == Tabled(WearersFrom)
MCContents == Tabled(ContentsFrom)
MCPrices == Tabled(PricesFrom)

MCMaxOf == ("u8" :> 255) @@ ("u16" :> 65535) @@ ("u32" :> 2147483647)

Numbered(members) == [k \in DOMAIN members |-> Integer(members[k])]
Ids(list) == Array([n \in DOMAIN list |-> Integer(list[n])])

\* The name is "Ana\" between two spaces and a tab; one stack does not say
\* how many it is; the skill list and an empty item list are of the file.
MCOperatorFile == Object("accounts" :> Array(<<Object(
    ("login_id" :> String(<<110, 47>>)) @@ ("password" :> String(<<92, 117, 48, 48, 101, 57>>))
    @@ ("nickname" :> String(<<32, 32, 65, 110, 97, 92, 92, 92, 116>>))
    @@ ("profile" :> Object(
        ("packet_70" :> Object(Numbered([luna |-> 2, cash |-> 1, level_raw |-> 50])
                                @@ ("clan_name" :> String(<<92, 34>>))))
        @@ ("packet_6b_entries" :> Array(<<Object(Numbered(
                [character_id |-> 1, room_config_slot_0 |-> 8007, clothes_item_id |-> Vest]))>>))
        @@ ("packet_3f_entries" :> Array(<<>>))
        @@ ("packet_73_entries" :> Array(<<Object(Numbered([skill_item_id |-> 314]))>>))
        @@ ("inventory" :> Object(
            ("shared_item_stacks" :> Array(<<
                Object(Numbered([item_id |-> Swimsuit])),
                Object(Numbered([item_id |-> Lute])),
                Object(Numbered([item_id |-> Uniform, owned_count |-> 2]))>>))
            @@ ("characters" :> Array(<<
                Object(Numbered([character_id |-> Hero, clothes_item_id |-> Vest,
                                 accessory_1_item_id |-> Hat])
                        @@ ("owned_clothes_item_ids" :> Ids(<<Vest>>))
                        @@ ("owned_accessory_1_item_ids" :> Ids(<<Hat>>))),
                Object(Numbered([character_id |-> Elina]))>>)))))))>>))
=============================================================================
