----------------------------- MODULE Inventory -----------------------------
(***************************************************************************)
(* What the shops, the item list, the equipment screen, the waste bin and  *)
(* the quickslot bar do to one account (InventoryService.cpp and the       *)
(* handlers of TcpShopHandlers, TcpSkillShopHandlers, TcpListHandlers,     *)
(* TcpEquipmentHandlers, TcpItemRemovalHandlers, TcpQuickslotHandlers),    *)
(* over the catalog GameDataCatalog reads.                                 *)
(*                                                                         *)
(* A request is one step: it reads the account, changes its copy and       *)
(* stores it, and storing may fail.  How the steps of several sessions and *)
(* of the file system interleave is the subject of AccountStore.  The      *)
(* inventory may come from a file of an earlier server, with packages      *)
(* still in their boxes and with the pieces a swimsuit package was once    *)
(* expanded to by mistake.                                                 *)
(***************************************************************************)
EXTENDS Integers, FiniteSetsExt

CONSTANTS
    None,           \* item id 0, character id 0, skill id 0
    Items,          \* item ids clients name and packages hold
    Known,          \* the items of item.csv
    Slots,          \* weapon, clothes, accessories
    Characters,     \* the characters of character.csv
    Mine,           \* those the account has a row for
    SlotOf,         \* SlotOf[i]: where an equipment_like item goes, or None
    WearerOf,       \* WearerOf[i]: the character its name belongs to, or None
    Contents,       \* Contents[i]: what a package holds
    Prices,         \* Prices[i]: luna_price and cash_price
    Hero,           \* character 1, whose swimsuit package was misexpanded
    LegacyIn,       \* LegacyIn[s]: what it was expanded to, in some slots
    SpareIn,        \* SpareIn[s]: what it holds, in every slot
    Bags,           \* items that open quickslots
    ShortIds,       \* items whose id fits the 16 bits of 0x47
    SkillRows,      \* rows of the skill shop
    QuickslotCount, BaseSlots, BagCap,
    MaxCount,       \* 0xffff, the largest 16-bit count
    CountFields,    \* the values of field_04 clients send
    FirstInventories, FirstPurses,
    MaxRequests     \* a bound on the requests of a behaviour

ASSUME CatalogIsTyped ==
    /\ Known \subseteq Items /\ Bags \cup ShortIds \subseteq Items /\ Mine \subseteq Characters
    /\ None \notin Items \cup Characters \cup Slots
    /\ SlotOf \in [Items -> Slots \cup {None}]
    /\ WearerOf \in [Items -> Characters \cup {None}]
    /\ Contents \in [Items -> SUBSET Items]
    /\ Prices \in [Items -> [luna : Nat, cash : Nat]]
    /\ LegacyIn \in UNION {[S -> Items] : S \in SUBSET Slots}
    /\ SpareIn \in [Slots -> Items]
    /\ MaxCount \in Nat \ {0} /\ CountFields \subseteq 0 .. MaxCount
    /\ IsFiniteSet(Items)
    /\ \A row \in SkillRows : {row.luna, row.cash, row.minutes} \subseteq Nat
    /\ \A i \in Items, n \in 0 .. MaxCount : <<i, n>> # None
\* package_contents.csv puts no package into a package.
ASSUME PackagesAreFlat ==
    \A p \in Items : \A i \in Contents[p] : Contents[i] = {}
\* item.csv has no price for some of the legacy pieces.
ASSUME LegacyIsNotSold ==
    /\ \E s \in DOMAIN LegacyIn : Prices[LegacyIn[s]] = [luna |-> 0, cash |-> 0]
    /\ \A s \in DOMAIN LegacyIn, p \in Items : LegacyIn[s] \notin Contents[p]

\* No skill's id, nor a rental's without its first digits, is 0.
ASSUME SkillsHaveIds == \A row \in SkillRows : row.base # None

\* The pieces of both swimsuits are of character 1 and in the slots that the
\* repair names, and none is of both.
ASSUME SwimsuitIsHeros ==
    /\ \A s \in DOMAIN LegacyIn :
        LegacyIn[s] \in Known /\ SlotOf[LegacyIn[s]] = s /\ WearerOf[LegacyIn[s]] = Hero
    /\ \A s \in Slots :
        /\ SpareIn[s] \notin {LegacyIn[z] : z \in DOMAIN LegacyIn}
        /\ SpareIn[s] \in Known /\ SlotOf[SpareIn[s]] = s /\ WearerOf[SpareIn[s]] = Hero

VARIABLES
    inv,        \* shared_item_stacks, the owned lists and what is worn
    purse,      \* luna and cash of account_info
    skills,     \* owned_skills: minutes by base skill id
    quick,      \* the stored quickslot list, by slot_index
    observed,   \* observed_equipment_character_id, of the session
    requests,   \* history: requests so far, at most MaxRequests
    sale,       \* history: the item and count this step charged for, or None
    asked       \* history: what this step's request was for

vars == <<inv, purse, skills, quick, observed, requests, sale, asked>>

Wearable == {i \in Known : SlotOf[i] # None /\ WearerOf[i] \in Mine}
AtLeastOne(n) == IF n = 0 THEN 1 ELSE n
\* Mutant: the count is not saturated.
CappedNever(n) == n
Capped(n) == IF n > MaxCount THEN MaxCount ELSE n
CountOf(in, i) == IF i \in DOMAIN in.stacks THEN in.stacks[i] ELSE 0

\* What a purchase of n pieces of i brings, piece by piece.
Gift(i, n) ==
    IF Contents[i] = {} THEN [j \in {i} |-> n]
                        ELSE [j \in Contents[i] |-> AtLeastOne(n)]

\* Equipment joins the owned list of its character, once; the rest is stacked.
Put(in, gift) ==
    LET loose == DOMAIN gift \ Wearable
    IN  [in EXCEPT
            !.stacks = [i \in DOMAIN @ \cup loose |->
                IF i \in loose THEN Capped(CountOf(in, i) + gift[i]) ELSE @[i]],
            !.owned = [c \in Mine |->
                @[c] \cup {i \in DOMAIN gift \cap Wearable : WearerOf[i] = c}]]

\* Mutant: equipment that is there already counts as changed too.
ChangesAlways(in, gift) == gift # [i \in {} |-> 0]

\* A stack always counts as changed, even one that is full.
Changes(in, gift) ==
    \E i \in DOMAIN gift : i \in Wearable => i \notin in.owned[WearerOf[i]]

LegacyPieces == {LegacyIn[s] : s \in DOMAIN LegacyIn}
SparePieces == {SpareIn[s] : s \in Slots}

Misexpanded(in) == Hero \in Mine /\ LegacyPieces \subseteq in.owned[Hero]

\* The owned lists are set right; what the character wears is not looked at.
Repair(in) ==
    IF ~Misexpanded(in) THEN in
    ELSE [in EXCEPT !.owned[Hero] = (@ \ LegacyPieces) \cup SparePieces]

Tokens(in) == {i \in DOMAIN in.stacks : Contents[i] # {}}

\* Mutant: a stack of boxes is opened as if it were one box.
CopiesOfOne(in, T, i) == {<<p, 1>> : p \in {q \in T : i \in Contents[q]}}

\* The pieces of i in the boxes T, box by box.
Copies(in, T, i) ==
    {x \in T \X (1 .. MaxCount) :
        i \in Contents[x[1]] /\ x[2] <= AtLeastOne(in.stacks[x[1]])}

\* The contents of the boxes T are put in.  A stack saturates at the same
\* count whether the boxes are opened one by one or together, since none is
\* in another.
Opened(in, T) ==
    Put(in, [i \in UNION {Contents[p] : p \in T} |-> Cardinality(Copies(in, T, i))])
Without(in, gone) == [in EXCEPT !.stacks = [i \in DOMAIN @ \ gone |-> @[i]]]

\* Stacks that a box adds beyond the one it frees move the vector away
\* under the iterator of ExpandStoredPackageTokens.
Overruns(in) ==
    \E p \in Tokens(in) :
        Cardinality((Contents[p] \ Wearable) \ DOMAIN in.stacks) > 1

\* The loop takes every box off and opens it.  When it overruns, it reads
\* and erases through an iterator of freed memory: it opens some boxes, of
\* which it may take any off, and may erase other stacks instead, or the
\* process ends (see Crash).
Expansions(in) ==
    IF ~Overruns(in) THEN {Without(Opened(in, Tokens(in)), Tokens(in))}
    ELSE UNION {LET full == Opened(in, T)
                IN  {Without(full, gone) : gone \in SUBSET DOMAIN full.stacks} :
                    T \in SUBSET Tokens(in)}

Tidied == Expansions(Repair(inv))
NeedsTidying == Misexpanded(inv) \/ Tokens(inv) # {}

\* The money a row is paid in: the only one it has a price in, or the
\* client's choice, of luna (2) or cash (1); another choice buys only what
\* has one price, like either of these.
Money(row, choice) ==
    IF row.luna # 0 /\ row.cash = 0 THEN "luna"
    ELSE IF row.cash # 0 /\ row.luna = 0 THEN "cash"
    ELSE choice

\* Mutant: no price means free of charge.
PaysNothing(row, choice, n) ==
    purse[Money(row, choice)] >= row[Money(row, choice)] * AtLeastOne(n)

Pays(row, choice, n) ==
    LET m == Money(row, choice)
    IN  /\ row[m] # 0
        /\ purse[m] >= row[m] * AtLeastOne(n)

Charged(row, choice, n) ==
    LET m == Money(row, choice)
    IN  [purse EXCEPT ![m] = @ - row[m] * AtLeastOne(n)]

PurchaseCount(field) == (field + 1) % (MaxCount + 1)

\* 0x36.  A refused purchase throws the tidied copy away as well; a request
\* for what is already there keeps it.
BuyItem(i, field, choice) ==
    /\ i \in Known
    /\ LET n == PurchaseCount(field)
       IN  \E tidy \in Tidied :
             \/ /\ Changes(tidy, Gift(i, n))
                /\ Pays(Prices[i], choice, n)
                /\ inv' = Put(tidy, Gift(i, n))
                /\ purse' = Charged(Prices[i], choice, n)
                /\ sale' = <<i, n>>
             \/ /\ ~Changes(tidy, Gift(i, n))
                /\ inv' = tidy
                /\ sale' = None
                /\ UNCHANGED purse
    /\ UNCHANGED <<skills, quick, observed>>

\* 0x75.  The minutes of a skill are set, not added to.  A row without a
\* base skill is charged all the same.
BuySkill(row, choice) ==
    /\ Pays(row, choice, 1)
    /\ purse' = Charged(row, choice, 1)
    /\ skills' = [s \in DOMAIN skills \cup ({row.base} \ {None}) |->
                    IF s = row.base THEN row.minutes ELSE skills[s]]
    /\ sale' = None
    /\ UNCHANGED <<inv, quick, observed>>

\* 0x3F.  The item list is tidied before it is sent.
ListItems ==
    /\ NeedsTidying
    /\ inv' \in Tidied
    /\ sale' = None
    /\ UNCHANGED <<purse, skills, quick, observed>>

\* The expansion of boxes ran into freed memory: the process ends, and with
\* it the session.
Crash ==
    /\ Overruns(Repair(inv))
    /\ observed' = None
    /\ sale' = None
    /\ UNCHANGED <<inv, purse, skills, quick>>

\* 0x6D: any character, also one the account has no row for.
Observe(c) ==
    /\ observed' = c
    /\ sale' = None
    /\ UNCHANGED <<inv, purse, skills, quick>>

Fits(c, s, i) ==
    i = None \/ inv.worn[c][s] = i \/ (i \in inv.owned[c] /\ SlotOf[i] = s)
Wears(bundle) == {c \in Mine : \A s \in Slots : Fits(c, s, bundle[s])}

\* The character on the screen if the bundle fits it, or the only one it fits.
Target(bundle) ==
    IF observed \in Wears(bundle) THEN {observed}
    ELSE {c \in Wears(bundle) : Wears(bundle) = {c}}

\* A bundle with a piece nobody owns or wears fits nobody and is refused.
Pieces(in) ==
    (UNION {in.owned[c] : c \in Mine}) \cup {in.worn[c][s] : c \in Mine, s \in Slots}

Naked == [s \in Slots |-> None]

\* 0x48 with something in it; what it may have in field_00 and field_08 is
\* not stored, so that a bundle may also be empty here.  The session
\* remembers the character whether or not the store succeeds.
Equip(bundle, stored) ==
    /\ \E c \in Target(bundle) :
          /\ observed' = c
          /\ inv' = IF stored THEN [inv EXCEPT !.worn[c] = bundle] ELSE inv
    /\ sale' = None
    /\ UNCHANGED <<purse, skills, quick>>

\* 0x48 with nothing in it undresses the character on the screen.
Undress ==
    /\ observed \in Mine
    /\ inv' = [inv EXCEPT !.worn[observed] = Naked]
    /\ sale' = None
    /\ UNCHANGED <<purse, skills, quick, observed>>

Owners(i) == {c \in Mine : i \in inv.owned[c] \/ \E s \in Slots : inv.worn[c][s] = i}

\* Mutant: what is thrown away stays on the character who wears it.
RemoveOwnedOnly(i) ==
    /\ Owners(i) # {}
    /\ inv' = [inv EXCEPT !.owned = [c \in Mine |-> @[c] \ {i}]]
    /\ sale' = None
    /\ UNCHANGED <<purse, skills, quick, observed>>

\* 0x39.  An item goes from every character that has it or, when none has
\* it, one piece goes off its stack.
RemoveItem(i) ==
    /\ \/ /\ Owners(i) # {}
          /\ inv' = [inv EXCEPT
                !.owned = [c \in Mine |-> @[c] \ {i}],
                !.worn = [c \in Mine |->
                    [s \in Slots |-> IF @[c][s] = i THEN None ELSE @[c][s]]]]
       \/ /\ Owners(i) = {}
          /\ i \in DOMAIN inv.stacks
          /\ inv' = IF inv.stacks[i] > 1
                    THEN [inv EXCEPT !.stacks[i] = @ - 1]
                    ELSE [inv EXCEPT !.stacks = [j \in DOMAIN @ \ {i} |-> @[j]]]
    /\ sale' = None
    /\ UNCHANGED <<purse, skills, quick, observed>>

Open == [state |-> "open", key |-> None]
Locked == [state |-> "locked", key |-> None]
Holding(i) == [state |-> "item", key |-> i]

OpenSlots ==
    LET bags == {i \in DOMAIN inv.stacks \cap Bags \cap Known : inv.stacks[i] # 0}
        pieces == FoldSet(LAMBDA i, n : n + inv.stacks[i], 0, bags)
    IN  BaseSlots + (IF pieces > BagCap THEN BagCap ELSE pieces)

BuiltQuickslots ==
    [n \in 1 .. QuickslotCount |-> IF n <= OpenSlots THEN Open ELSE Locked]

\* A stored list that says nothing is built from the bags instead.
Quickslots ==
    IF \A n \in DOMAIN quick : quick[n] = Open THEN BuiltQuickslots ELSE quick

\* 0x47 with kind 1 needs a piece of the item; with kind 0 it clears a slot.
\* Neither asks whether the slot is locked.
AssignQuickslot(n, entry) ==
    /\ entry # Open => entry.key \in DOMAIN inv.stacks /\ inv.stacks[entry.key] # 0
    /\ quick' = [m \in DOMAIN Quickslots \cup {n} |->
                    IF m = n THEN entry ELSE Quickslots[m]]
    /\ sale' = None
    /\ UNCHANGED <<inv, purse, skills, observed>>

\* What a request is for: the shop and the item list also tidy up.
For(what, i) == [what |-> what, item |-> i]

\* An inventory as the account database reads it.
IsInventory(in) ==
    /\ in \in [stacks : {in.stacks}, owned : [Mine -> SUBSET Items],
               worn : [Mine -> [Slots -> Items \cup {None}]]]
    /\ DOMAIN in.stacks \subseteq Items
    /\ in.stacks \in [DOMAIN in.stacks -> 0 .. MaxCount]

\* The owned lists have equipment of their characters.
OwnsItsWear(in) ==
    \A c \in Mine : \A i \in in.owned[c] : i \in Wearable /\ WearerOf[i] = c

\* What is worn is owned, or a piece that the repair took off the list.
WearsItsOwn(in) ==
    \A c \in Mine, s \in Slots :
        LET i == in.worn[c][s]
        IN  \/ i = None
            \/ i \in in.owned[c] /\ SlotOf[i] = s
            \/ c = Hero /\ s \in DOMAIN LegacyIn /\ i = LegacyIn[s]

\* What is shown of an account that is not in order to begin with is not
\* said here.
ASSUME FirstAccountsAreInOrder ==
    /\ \A in \in FirstInventories : IsInventory(in) /\ OwnsItsWear(in) /\ WearsItsOwn(in)
    /\ FirstPurses \subseteq [luna : Nat, cash : Nat]

Init ==
    /\ inv \in FirstInventories
    /\ purse \in FirstPurses
    /\ skills = [s \in {} |-> 0]
    /\ quick = [n \in {} |-> Open]
    /\ observed = None
    /\ requests = 0
    /\ sale = None
    /\ asked = For("other", None)

Request ==
    \/ /\ asked' = For("tidy", None)
       /\ \/ \E i \in Items, f \in CountFields, m \in {"luna", "cash"} : BuyItem(i, f, m)
          \/ ListItems
          \/ Crash
    \/ /\ asked' = For("dress", None)
       /\ \/ \E bundle \in [Slots -> Pieces(inv) \cup {None}], stored \in BOOLEAN :
                Equip(bundle, stored)
          \/ Undress
    \/ \E i \in Items : asked' = For("discard", i) /\ RemoveItem(i)
    \/ /\ asked' = For("other", None)
       /\ \/ \E row \in SkillRows, m \in {"luna", "cash"} : BuySkill(row, m)
          \/ \E c \in Characters : Observe(c)
          \/ \E n \in 1 .. QuickslotCount,
                entry \in {Open} \cup {Holding(i) : i \in ShortIds} :
                AssignQuickslot(n, entry)

Next ==
    /\ requests < MaxRequests
    /\ requests' = requests + 1
    /\ Request

Spec == Init /\ [][Next]_vars

-----------------------------------------------------------------------------
\* What the item list shows of an inventory: a stack with its count, a piece
\* that is owned or worn as one.
ItemList(in) ==
    [i \in DOMAIN in.stacks \cup (Pieces(in) \ {None}) |->
        IF i \in DOMAIN in.stacks THEN in.stacks[i] ELSE 1]

Shown(in, i) == IF i \in DOMAIN ItemList(in) THEN ItemList(in)[i] ELSE 0

\* Counts stay within 16 bits, money never goes below zero and quickslots are
\* numbered from one.
TypeOK ==
    /\ IsInventory(inv)
    /\ purse \in [luna : Nat, cash : Nat]
    /\ \A s \in DOMAIN skills : \E row \in SkillRows : s = row.base /\ skills[s] \in Nat
    /\ DOMAIN quick \subseteq 1 .. QuickslotCount
    /\ \A n \in DOMAIN quick : quick[n] \in {Open, Locked} \cup {Holding(i) : i \in Items}
    /\ observed \in Characters \cup {None}

\* What a character wears, on the slot it wears it, is on its owned list or
\* is a piece the repair of the swimsuit has taken off that list: neither
\* the bundles of 0x48, which say nothing of their character, nor removal
\* from several lists at once, nor the repair dress anybody in what is not
\* theirs.
WornIsOwned == WearsItsOwn(inv)

\* Money goes only for minutes of a skill or for what was asked: as many
\* pieces on a stack as were charged for, up to the 0xffff a stack can hold,
\* a piece of equipment the character did not own, or a package with
\* something new in it, on top of an inventory that was tidied first.  The
\* count itself is what the code makes of field_04: 0xffff asks for no
\* pieces and is charged for one.
ChargesDeliver ==
    [][purse' # purse =>
        \/ /\ sale' = None /\ inv' = inv
           /\ \E row \in SkillRows :
                row.base \in DOMAIN skills' /\ skills'[row.base] = row.minutes
        \/ /\ sale' # None
           /\ \E tidy \in Tidied :
                LET i == sale'[1]
                    n == sale'[2]
                    New(j) ==
                        IF j \in Wearable
                        THEN j \in inv'.owned[WearerOf[j]] \ tidy.owned[WearerOf[j]]
                        ELSE CountOf(inv', j) >= Capped(CountOf(tidy, j) + n)
                IN  IF Contents[i] = {} THEN New(i) ELSE \E j \in Contents[i] : New(j)]_vars

\* One piece less of i, and of nothing else.
OneLess(i) ==
    /\ Shown(inv', i) = Shown(inv, i) - 1
    /\ \A j \in Items \ {i} : Shown(inv', j) = Shown(inv, j)

Unboxed(p) ==
    \A i \in Contents[p] :
        IF i \in Wearable THEN i \in inv'.owned[WearerOf[i]]
        ELSE CountOf(inv', i) >= Capped(CountOf(inv, i) + AtLeastOne(inv.stacks[p]))

\* Hero still wears it, and the repair has taken it off the list.
Outworn(i) ==
    \E s \in DOMAIN LegacyIn :
        i = LegacyIn[s] /\ i = inv.worn[Hero][s] /\ i \notin inv.owned[Hero]

\* What the item list shows goes only so: the waste bin takes the one piece
\* it was asked to take; the shop and the item list open a box, and all it
\* holds comes, in the numbers of the box, or take the misexpanded swimsuit;
\* and a piece of that swimsuit which was worn on goes when its character
\* dresses.  Where the opening of boxes runs into freed memory nothing is
\* promised of the stacks in that step.
NothingVanishes ==
    [][\A i \in Items : Shown(inv', i) < Shown(inv, i) =>
            \/ asked' = For("discard", i) /\ OneLess(i)
            \/ /\ asked' = For("tidy", None)
               /\ \/ i \in Tokens(inv) /\ Unboxed(i)
                  \/ i \in LegacyPieces /\ Misexpanded(inv)
                  \/ i \in DOMAIN inv.stacks /\ Overruns(Repair(inv))
            \/ asked' = For("dress", None) /\ Outworn(i)]_vars

\* What the server cleans up does not come back: no request puts a box on
\* the stacks, and the misexpanded pieces no shop has a price for stay away
\* once they are gone, so that only an account of an earlier server can be
\* repaired.  (Such an account may lose a piece it has bought since: the
\* repair does not tell a vest from a vest.)
OldTroublesFade ==
    [][/\ Tokens(inv') \subseteq Tokens(inv)
       /\ Hero \in Mine =>
            \A i \in LegacyPieces \cap inv'.owned[Hero] :
                Prices[i] = [luna |-> 0, cash |-> 0] => i \in inv.owned[Hero]]_vars
=============================================================================
