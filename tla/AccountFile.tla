---------------------------- MODULE AccountFile ----------------------------
(***************************************************************************)
(* The account database file (AccountDatabase::load_locked and             *)
(* store_locked) over the JSON reader of Json.cpp: what a file says of the *)
(* accounts, and the file that is written for them.                        *)
(*                                                                         *)
(* A file is a JSON value, a string in it the bytes between its quotes.    *)
(* What reads one returns the set of what it may make of it: one value, or *)
(* none where the code throws, which leaves the whole file unread.         *)
(* Indentation and the order of keys are left out: an object is a map.     *)
(***************************************************************************)
EXTENDS Integers, SequencesExt, TLC

CONSTANTS
    MaxOf,      \* the largest value of "u8", "u16" and "u32"
    NoName      \* a nickname that is not there

ASSUME WidthsGrow ==
    /\ MaxOf \in [{"u8", "u16", "u32"} -> Nat]
    /\ MaxOf["u8"] <= MaxOf["u16"] /\ MaxOf["u16"] <= MaxOf["u32"]

Integer(n) == [is |-> "integer", value |-> n]
String(raw) == [is |-> "string", value |-> raw]
Array(values) == [is |-> "array", value |-> values]
Object(members) == [is |-> "object", value |-> members]
Null == [is |-> "null"]

\* Every member of f read, or nothing.
Each(f) ==
    IF \E x \in DOMAIN f : f[x] = {} THEN {}
    ELSE {[x \in DOMAIN f |-> CHOOSE v \in f[x] : TRUE]}

-----------------------------------------------------------------------------
Quote == 34
Backslash == 92
LetterU == 117
Zero == 48

\* \" \\ \b \f \n \r \t, by the byte they stand for.
Letters ==
    [b \in {34, 92, 8, 12, 10, 13, 9} |->
        CASE b = 8 -> 98 [] b = 12 -> 102 [] b = 10 -> 110
          [] b = 13 -> 114 [] b = 9 -> 116 [] OTHER -> b]

HexDigit(n) == IF n < 10 THEN Zero + n ELSE 97 + n - 10
HexValues(b) ==
    CASE b \in 48 .. 57 -> {b - 48}
      [] b \in 97 .. 102 -> {b - 87}
      [] b \in 65 .. 70 -> {b - 55}
      [] OTHER -> {}

EscapedByte(b) ==
    IF b \in DOMAIN Letters THEN <<Backslash, Letters[b]>>
    ELSE IF b < 32
    THEN <<Backslash, LetterU, Zero, Zero, HexDigit(b \div 16), HexDigit(b % 16)>>
    ELSE <<b>>

Escaped(text) == FlattenSeq([i \in DOMAIN text |-> EscapedByte(text[i])])

\* A code unit in UTF-8; the halves of a surrogate pair are not joined.
Utf8(u) ==
    CASE u <= 127 -> <<u>>
      [] u \in 128 .. 2047 -> <<192 + u \div 64, 128 + (u % 64)>>
      [] OTHER -> <<224 + u \div 4096, 128 + ((u \div 64) % 64), 128 + (u % 64)>>

\* The escape a string begins with: what it stands for.
EscapesAt(raw) ==
    IF Len(raw) < 2 THEN {}
    ELSE IF raw[2] # LetterU
    THEN {<<b>> : b \in {c \in DOMAIN Letters : Letters[c] = raw[2]}}
         \cup (IF raw[2] = 47 THEN {<<47>>} ELSE {})
    ELSE IF Len(raw) < 6 THEN {}
    ELSE {Utf8(((d[1] * 16 + d[2]) * 16 + d[3]) * 16 + d[4]) :
            d \in Each([i \in 1 .. 4 |-> HexValues(raw[2 + i])])}

RECURSIVE Unescaped(_)
Unescaped(raw) ==
    IF raw = <<>> THEN {<<>>}
    ELSE IF raw[1] # Backslash
    THEN {<<raw[1]>> \o rest : rest \in Unescaped(Tail(raw))}
    ELSE LET width == IF Len(raw) > 1 /\ raw[2] = LetterU THEN 6 ELSE 2
         IN  {byte \o rest : byte \in EscapesAt(raw),
                             rest \in Unescaped(SubSeq(raw, width + 1, Len(raw)))}

IsSpace(b) == b = 32 \/ b \in 9 .. 13

\* The text without the space around it.
Trimmed(text) ==
    LET solid == {i \in DOMAIN text : ~IsSpace(text[i])}
    IN  IF solid = {} THEN <<>> ELSE SubSeq(text, Min(solid), Max(solid))

-----------------------------------------------------------------------------
\* A member of a row is read from its key or, where that is missing, from
\* the key older files have for it; it is written under its key.
Field(key, older, kind, default) ==
    [key |-> key, older |-> older, kind |-> kind, default |-> default]
Numbers(kind, keys) == [k \in keys |-> Field(k, k, kind, 0)]
Texts(keys) == [k \in keys |-> Field(k, k, "text", <<>>)]
Lists(keys) == [k \in keys |-> Field(k, k, "list", <<>>)]

AccountInfoFields ==
    Numbers("u8", {"level_raw"}) @@ Texts({"string0_display_label", "clan_name"})
    @@ Numbers("u32",
        {"exp_current", "field_04_unknown", "field_09_unknown", "luna", "cash",
         "event_cash", "total_kill_count", "profile_flags", "indicator_max_or_limit",
         "field_25_unknown", "deploy_slot_0_id", "deploy_slot_1_id",
         "deploy_slot_2_id", "deploy_slot_3_id", "bp", "clan_contribution"})

CharacterListFields ==
    Numbers("u32", {"character_id", "room_config_slot_1", "room_config_slot_2"})
    @@ [m \in {"room_config_slot_0", "room_config_slot_3", "room_config_slot_4",
               "room_config_slot_5", "room_config_slot_6"} |->
            Field(CASE m = "room_config_slot_0" -> "equipped_weapon_item_id"
                    [] m = "room_config_slot_3" -> "clothes_item_id"
                    [] m = "room_config_slot_4" -> "accessory_1_item_id"
                    [] m = "room_config_slot_5" -> "accessory_2_item_id"
                    [] OTHER -> "accessory_3_item_id", m, "u32", 0)]

ItemListFields ==
    Numbers("u16", {"field_28"}) @@ Numbers("u8", {"field_32"})
    @@ Numbers("u32",
        {"field_00", "field_04", "field_08", "field_0c", "field_10", "field_14",
         "field_18", "field_1c", "field_20", "field_24", "field_2a", "field_2e"})

QuickslotFields ==
    Numbers("u8", {"slot_index", "slot_state"})
    @@ Numbers("u16", {"display_lookup_key"})
    @@ Numbers("u32", {"entry_key", "quickslot_entry_id", "duration_minutes"})

SkillListFields ==
    Numbers("u8", {"update_existing_flag"})
    @@ Numbers("u32", {"field_00", "field_04", "skill_item_id", "duration_minutes"})

GuardListFields ==
    Texts({"guard_nickname"})
    @@ Numbers("u32", {"guard_instance_id", "guard_kind_id", "selectable_flag",
                       "equipped_item_slot_0_id", "equipped_item_slot_1_id"})

\* An entry that does not say how many means one.
StackFields ==
    Numbers("u32", {"item_id"})
    @@ [m \in {"owned_count"} |-> Field(m, m, "u16", 1)]

OwnedSkillFields == Numbers("u32", {"skill_item_id", "duration_minutes"})

CharacterFields ==
    Numbers("u32",
        {"character_id", "equipped_weapon_item_id", "clothes_item_id",
         "accessory_1_item_id", "accessory_2_item_id", "accessory_3_item_id"})
    @@ Lists({"owned_weapon_item_ids", "owned_clothes_item_ids",
              "owned_accessory_1_item_ids", "owned_accessory_2_item_ids",
              "owned_accessory_3_item_ids"})

InventoryLists ==
    [m \in {"shared_item_stacks", "owned_skills", "characters"} |->
        CASE m = "shared_item_stacks" -> StackFields
          [] m = "owned_skills" -> OwnedSkillFields
          [] m = "characters" -> CharacterFields]

\* The parts of a profile, each of which may be missing.
Parts ==
    {"account_info", "character_list", "item_list", "quickslot_list",
     "skill_list", "guard_list", "inventory"}
KeyOf(part) ==
    CASE part = "account_info" -> "packet_70"
      [] part = "character_list" -> "packet_6b_entries"
      [] part = "item_list" -> "packet_3f_entries"
      [] part = "quickslot_list" -> "packet_44_entries"
      [] part = "skill_list" -> "packet_73_entries"
      [] part = "guard_list" -> "packet_6e_entries"
      [] part = "inventory" -> "inventory"
FieldsOf(part) ==
    CASE part = "account_info" -> AccountInfoFields
      [] part = "character_list" -> CharacterListFields
      [] part = "item_list" -> ItemListFields
      [] part = "quickslot_list" -> QuickslotFields
      [] part = "skill_list" -> SkillListFields
      [] part = "guard_list" -> GuardListFields

-----------------------------------------------------------------------------
\* Reading.
NumbersIn(kind, json) ==
    IF json.is = "integer" /\ json.value \in 0 .. MaxOf[kind] THEN {json.value} ELSE {}

ArraysIn(json) == IF json.is = "array" THEN {json.value} ELSE {}

ValuesIn(kind, json) ==
    CASE kind = "text" -> IF json.is = "string" THEN Unescaped(json.value) ELSE {}
      [] kind = "list" ->
            UNION {Each([i \in DOMAIN a |-> NumbersIn("u32", a[i])]) : a \in ArraysIn(json)}
      [] OTHER -> NumbersIn(kind, json)

\* Mutant: a zero is taken for a member that is not there.
MembersInNonzero(field, object) ==
    LET k == IF field.key \in DOMAIN object THEN field.key ELSE field.older
        zero == k \in DOMAIN object /\ object[k].is = "integer" /\ object[k].value = 0
    IN  IF k \in DOMAIN object /\ ~zero
        THEN ValuesIn(field.kind, object[k]) ELSE {field.default}

MembersIn(field, object) ==
    LET k == IF field.key \in DOMAIN object THEN field.key ELSE field.older
    IN  IF k \in DOMAIN object THEN ValuesIn(field.kind, object[k]) ELSE {field.default}

RowsIn(fields, json) ==
    IF json.is = "object"
    THEN Each([m \in DOMAIN fields |-> MembersIn(fields[m], json.value)]) ELSE {}

RowListsIn(fields, json) ==
    UNION {Each([i \in DOMAIN a |-> RowsIn(fields, a[i])]) : a \in ArraysIn(json)}

\* A list the inventory does not name is empty.
InventoriesIn(json) ==
    IF json.is # "object" THEN {}
    ELSE Each([m \in DOMAIN InventoryLists |->
            IF m \in DOMAIN json.value
            THEN RowListsIn(InventoryLists[m], json.value[m]) ELSE {<<>>}])

PartsIn(part, json) ==
    CASE part = "account_info" -> RowsIn(AccountInfoFields, json)
      [] part = "inventory" -> InventoriesIn(json)
      [] OTHER -> RowListsIn(FieldsOf(part), json)

ProfilesIn(json) ==
    IF json.is # "object" THEN {}
    ELSE Each([part \in {p \in Parts : KeyOf(p) \in DOMAIN json.value} |->
                PartsIn(part, json.value[KeyOf(part)])])

NamesIn(json) ==
    CASE json.is = "null" -> {NoName}
      [] json.is = "string" ->
            {IF Trimmed(t) = <<>> THEN NoName ELSE Trimmed(t) : t \in Unescaped(json.value)}
      [] OTHER -> {}

AccountsIn(json) ==
    IF json.is # "object" \/ ~{"login_id", "password"} \subseteq DOMAIN json.value THEN {}
    ELSE LET object == json.value
         IN  Each([m \in {"login_id", "password", "nickname", "profile"} |->
                CASE m = "nickname" ->
                        IF m \in DOMAIN object THEN NamesIn(object[m]) ELSE {NoName}
                  [] m = "profile" ->
                        IF m \in DOMAIN object THEN ProfilesIn(object[m])
                        ELSE ProfilesIn(Object([k \in {} |-> Null]))
                  [] OTHER -> ValuesIn("text", object[m])])

\* load_locked: the accounts of a file.
BooksIn(json) ==
    IF json.is # "object" THEN {}
    ELSE IF "accounts" \notin DOMAIN json.value THEN {<<>>}
    ELSE UNION {Each([i \in DOMAIN a |-> AccountsIn(a[i])]) :
                    a \in ArraysIn(json.value["accounts"])}

-----------------------------------------------------------------------------
\* Writing.
ValueJson(kind, value) ==
    CASE kind = "text" -> String(Escaped(value))
      [] kind = "list" -> Array([i \in DOMAIN value |-> Integer(value[i])])
      [] OTHER -> Integer(value)

RowJson(fields, row) ==
    Object([k \in {fields[m].key : m \in DOMAIN fields} |->
        LET m == CHOOSE m \in DOMAIN fields : fields[m].key = k
        IN  ValueJson(fields[m].kind, row[m])])

RowListJson(fields, rows) == Array([i \in DOMAIN rows |-> RowJson(fields, rows[i])])

InventoryJson(record) ==
    Object([m \in DOMAIN InventoryLists |-> RowListJson(InventoryLists[m], record[m])])

PartJson(part, value) ==
    CASE part = "account_info" -> RowJson(AccountInfoFields, value)
      [] part = "inventory" -> InventoryJson(value)
      [] OTHER -> RowListJson(FieldsOf(part), value)

ProfileJson(profile) ==
    Object([k \in {KeyOf(p) : p \in DOMAIN profile} |->
        LET part == CHOOSE p \in DOMAIN profile : KeyOf(p) = k
        IN  PartJson(part, profile[part])])

\* A profile without parts is not written.
AccountJson(account) ==
    Object([m \in {"login_id", "password", "nickname"}
                    \cup (IF DOMAIN account.profile = {} THEN {} ELSE {"profile"}) |->
        CASE m = "profile" -> ProfileJson(account.profile)
          [] m = "nickname" /\ account.nickname = NoName -> Null
          [] OTHER -> String(Escaped(account[m]))])

\* store_locked: the file for the accounts.
Written(book) ==
    Object([m \in {"accounts"} |-> Array([i \in DOMAIN book |-> AccountJson(book[i])])])
=============================================================================
