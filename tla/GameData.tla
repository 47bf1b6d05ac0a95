------------------------------ MODULE GameData ------------------------------
(***************************************************************************)
(* What GameDataCatalog makes of the client's tables item_skill_v2.csv,    *)
(* item.csv, package_contents.csv, character.csv, mission.csv and of the   *)
(* mission layouts, as far as the server asks for it.  A table is the      *)
(* sequence of its lines below the header, a line a function from column   *)
(* numbers to cells.                                                       *)
(***************************************************************************)
EXTENDS Integers, SequencesExt

CONSTANTS
    LowerKey        \* LowerKey[name]: its letters and digits in lower case

\* What the parsers tell of a cell: its text, the number it is if all of it
\* is digits, the number its digits make, the words of a duration in it, and
\* whether it reads as a coordinate.
NoNumber == -1
Number(n) ==
    [text |-> "#", number |-> n, digits |-> n, words |-> {}, real |-> TRUE]
Text(s) ==
    [text |-> s, number |-> NoNumber, digits |-> NoNumber, words |-> {}, real |-> FALSE]
Duration(n, word) == [Text("#") EXCEPT !.digits = n, !.words = {word}]
Coordinate == [Text("#") EXCEPT !.real = TRUE]
Empty == Text("")

\* A line of so many columns, empty but for some cells.
Line(width, cells) ==
    [c \in 0 .. width - 1 |-> IF c \in DOMAIN cells THEN cells[c] ELSE Empty]

Has(line, c) == c \in DOMAIN line
IsNumber(line, c) == Has(line, c) /\ line[c].number # NoNumber
NumberUpTo(most, line, c) ==
    IF IsNumber(line, c) /\ line[c].number <= most THEN line[c].number ELSE 0
NumberAt(line, c) == IF IsNumber(line, c) THEN line[c].number ELSE 0
TextAt(line, c) == IF Has(line, c) THEN line[c].text ELSE ""

\* The first column with a price in it.
PriceIn(line, columns) ==
    LET priced == {i \in DOMAIN columns : NumberAt(line, columns[i]) # 0}
    IN  IF priced = {} THEN 0 ELSE NumberAt(line, columns[Min(priced)])

\* A later line with the same id replaces an earlier one.
LatestBy(Id(_), lines) ==
    [id \in {Id(lines[i]) : i \in DOMAIN lines} |->
        lines[Max({i \in DOMAIN lines : Id(lines[i]) = id})]]

-----------------------------------------------------------------------------
\* Skills.

\* A rental of skill 314 is sold as 110314, 120314, ...
CanonicalSkill(id) == IF id >= 100000 THEN id % 10000 ELSE id

MinutesIn(cell) ==
    IF "permanent" \in cell.words \/ cell.digits = NoNumber \/ "day" \notin cell.words
    THEN 0 ELSE cell.digits * 24 * 60

\* The English text, or the Korean one where that says nothing.
SkillMinutes(line) ==
    IF Has(line, 51) /\ (MinutesIn(line[51]) # 0 \/ "permanent" \in line[51].words)
    THEN MinutesIn(line[51])
    ELSE IF Has(line, 41) THEN MinutesIn(line[41]) ELSE 0

Skill(line) ==
    [skill_id |-> line[0].number,
     base_skill_id |-> CanonicalSkill(line[0].number),
     character_id |-> line[2].number,
     cash_price |-> PriceIn(line, <<3, 29, 31, 33>>),
     luna_price |-> PriceIn(line, <<4, 30, 32, 34>>),
     equipable |-> NumberAt(line, 36) # 0,
     cooltime_ms |-> NumberAt(line, 37),
     duration_minutes |-> SkillMinutes(line)]

SkillLines(table) ==
    SelectSeq(table, LAMBDA l : Has(l, 37) /\ IsNumber(l, 0) /\ IsNumber(l, 2))

\* find_skill
SkillsById(table) ==
    LET latest == LatestBy(LAMBDA l : l[0].number, SkillLines(table))
    IN  [id \in DOMAIN latest |-> Skill(latest[id])]

-----------------------------------------------------------------------------
\* Items, packages, characters.

EquipmentTypes ==
    {"Weapon", "Main Clothes", "Accessories (1)", "Accessories (2)", "Accessories (3)"}

Key(name) == IF LowerKey[name] = "kirious" THEN "kirius" ELSE LowerKey[name]

Item(line) ==
    [item_id |-> line[0].number,
     luna_price |-> PriceIn(line, <<6, 44, 45, 46>>),
     cash_price |-> PriceIn(line, <<7, 29, 31, 38>>),
     display_name |-> TextAt(line, 15),
     character_name |-> TextAt(line, 16),
     item_type_name |-> TextAt(line, 17),
     equip_slot_name |-> TextAt(line, 18),
     equipment_like |-> TextAt(line, 17) \in EquipmentTypes]

ItemLines(table) == SelectSeq(table, LAMBDA l : IsNumber(l, 0))

\* find_item
ItemsById(table) ==
    LET latest == LatestBy(LAMBDA l : l[0].number, ItemLines(table))
    IN  [id \in DOMAIN latest |-> Item(latest[id])]

\* package_contents: in the order of the file.
PackageContents(table, package) ==
    LET lines == SelectSeq(table, LAMBDA l :
                    /\ IsNumber(l, 0) /\ l[0].number = package
                    /\ IsNumber(l, 1))
    IN  [n \in DOMAIN lines |-> lines[n][1].number]

CharacterLines(table) ==
    SelectSeq(table, LAMBDA l : NumberAt(l, 1) # 0 /\ TextAt(l, 11) # "")

\* character_name_for_id
CharacterNames(table) ==
    LET latest == LatestBy(LAMBDA l : l[1].number, CharacterLines(table))
    IN  [id \in DOMAIN latest |-> latest[id][11].text]

\* character_asset_key_for_id: an earlier line may have one where a later
\* has none.
AssetKeyIn(line) == IF TextAt(line, 18) # "" THEN line[18].text ELSE TextAt(line, 2)
AssetKeys(table) ==
    LET latest == LatestBy(LAMBDA l : l[1].number,
                    SelectSeq(CharacterLines(table), LAMBDA l : AssetKeyIn(l) # ""))
    IN  [id \in DOMAIN latest |-> AssetKeyIn(latest[id])]

-----------------------------------------------------------------------------
\* Missions.

ConfirmedScene(rule) ==
    CASE rule = 10000 -> "mission_hakansexam"
      [] rule = 10001 -> "mission_0_2"
      [] rule = 10002 -> "mission_0_3"
      [] rule = 10004 -> "mission_0_5"
      [] rule = 10005 -> "mission_0_6"
      [] rule = 10006 -> "mission_0_7"
      [] rule = 10007 -> "mission_0_8"
      [] rule = 100 -> "mission01"
      [] OTHER -> ""

HasConfirmedSpawn(rule) == rule = 10005

\* load_mission_entity_definitions: a line without an object id, a place or a
\* resource is no entity.  Where the category is none, the object id decides.
EntityLines(table) ==
    SelectSeq(table, LAMBDA l :
        /\ Has(l, 17)
        /\ NumberUpTo(65535, l, 1) # 0
        /\ l[14].real /\ l[15].real /\ l[16].real
        /\ l[17].text # "")

Entities(table) ==
    LET lines == EntityLines(table)
    IN  [n \in DOMAIN lines |->
            [object |-> lines[n][1].number,
             field |-> NumberUpTo(255, lines[n], 2),
             category |-> IF lines[n][3].number <= 255 THEN lines[n][3].number ELSE NoNumber,
             names |-> <<TextAt(lines[n], 17), TextAt(lines[n], 18), TextAt(lines[n], 19)>>]]

\* find_mission.  A scene that is not confirmed has no layout.
Missions(table, titleColumn, layouts) ==
    LET lines == SelectSeq(table, LAMBDA l : Has(l, 34) /\ IsNumber(l, 0))
        latest == LatestBy(LAMBDA l : l[0].number, lines)
    IN  [rule \in DOMAIN latest |->
            [mission_ui_key |-> latest[rule][33].text,
             scene_key |-> ConfirmedScene(rule),
             spawn |-> HasConfirmedSpawn(rule),
             time_limit_seconds |-> NumberAt(latest[rule], 12),
             max_players |-> NumberUpTo(255, latest[rule], 34),
             english_room_title |-> TextAt(latest[rule], titleColumn),
             entity_definitions |->
                IF ConfirmedScene(rule) \in DOMAIN layouts
                THEN Entities(layouts[ConfirmedScene(rule)]) ELSE <<>>]]

=============================================================================
