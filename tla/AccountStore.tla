---------------------------- MODULE AccountStore ----------------------------
(***************************************************************************)
(* Accounts: the JSON file they are kept in, the copy AccountDatabase      *)
(* caches of it, and the handlers of the TCP sessions that read and change *)
(* them (AccountDatabase.cpp; TcpAuthHandlers, TcpNicknameHandlers,        *)
(* TcpShopHandlers, TcpSkillShopHandlers, TcpItemRemovalHandlers,          *)
(* TcpEquipmentHandlers, TcpQuickslotHandlers, TcpListHandlers).           *)
(*                                                                         *)
(* Each session has a thread.  A call of the database holds its mutex; a   *)
(* handler makes several calls and keeps what it read in between.  The     *)
(* replacement of the file is several steps of the file system, any of     *)
(* which may fail (CONSTANT Faults), between which the server may crash    *)
(* and an operator may put another file in place ("git restore             *)
(* account_database.json", README.md).  Times are fine enough to tell an   *)
(* operator's file from the one before; flushing to the disk itself is not *)
(* modelled: a crash is one of the process.                                *)
(*                                                                         *)
(* Of a record the module keeps the nickname, the goods of the inventory,  *)
(* and the purchases account_info has been charged for.                    *)
(***************************************************************************)
EXTENDS FiniteSets

CONSTANTS
    Accounts,       \* login ids
    NoAccount,      \* authenticated_login_id without a value
    Names,          \* valid nicknames
    NoName,         \* a nickname without a value
    Goods,          \* what the shops sell
    Sessions,       \* client sessions
    Tasks,          \* the requests about goods that clients make
    Seeds,          \* the files an operator puts in place
    Absent, Torn,   \* no file, and one that does not parse
    Faults          \* what the file system may do to the server

Fields == [nickname : Names \cup {NoName}, paid : SUBSET Goods, owned : SUBSET Goods]
Books == UNION {[A -> Fields] : A \in SUBSET Accounts}
EmptyBook == [a \in {} |-> {}]

\* No two accounts of a book go by one name.
Distinct(book) ==
    \A a, b \in DOMAIN book :
        book[a].nickname = book[b].nickname => a = b \/ book[a].nickname = NoName

\* Nothing in a book has come without being charged for.
PaidFor(book, A) == \A a \in DOMAIN book \cap A : book[a].owned \subseteq book[a].paid

ASSUME NothingIsNot ==
    /\ NoAccount \notin Accounts
    /\ NoName \notin Names \cup Goods
    /\ Names \cap Goods = {}
    /\ Absent # Torn
    /\ {Absent, Torn} \cap Books = {}
ASSUME SeedsAreSound ==
    Seeds \subseteq {book \in Books : Distinct(book) /\ PaidFor(book, Accounts)}
ASSUME TasksAreKnown ==
    Tasks \subseteq {"buy", "buy_skill", "repair", "remove", "equip", "quickslot"}
ASSUME FaultsAreKnown == Faults \subseteq {"open", "cut", "rename", "remove", "stat"}

VARIABLES
    file,           \* what path_ holds
    tmp,            \* what path_ with ".tmp" holds
    mem,            \* accounts_
    cached,         \* loaded_ and cached_mtime_ against the time of the file
    store,          \* where the thread in store_locked is
    login,          \* login[s]: authenticated_login_id
    nick,           \* nick[s]: authenticated_nickname
    work,           \* work[s]: where s's handler is, between two calls
    owed,           \* history: what the reply to the call that stores will promise
    promised,       \* history: <<account, name or good>> promised to a client
    mixed,          \* history: accounts of which a copy that had grown old was
                    \* stored without its account_info
    edited,         \* history: an operator's file came while the server ran
    unseen          \* history: ... while no store ran, and is not loaded yet

diskVars == <<file, tmp>>
memVars == <<mem, cached>>
sessionVars == <<login, nick>>
promiseVars == <<owed, promised>>
editVars == <<edited, unseen>>
vars == <<diskVars, memVars, store, sessionVars, work, promiseVars, mixed, editVars>>

Idle == [at |-> "idle"]
Free == store = Idle
Storing(s) == store # Idle /\ store.session = s

Places == {"open", "write", "rename", "remove", "again", "stamp"}
Works ==
    {Idle}
        \cup [at : {"bind"}, account : Accounts, nickname : Names \cup {NoName}]
        \cup [at : {"name"}, nickname : Names]
        \cup [at : {"copied"}, task : Tasks, good : Goods, copy : Fields]

Init ==
    /\ file \in Seeds
    /\ tmp = Absent
    /\ mem = EmptyBook
    /\ cached = "never"
    /\ store = Idle
    /\ login = [s \in Sessions |-> NoAccount]
    /\ nick = [s \in Sessions |-> NoName]
    /\ work = [s \in Sessions |-> Idle]
    /\ owed = {}
    /\ promised = {}
    /\ mixed = {}
    /\ edited = FALSE
    /\ unseen = FALSE
-----------------------------------------------------------------------------
(* ensure_loaded_locked *)

\* What the time of the file is found to be: none without a file, or when it
\* cannot be read.
Times ==
    IF file = Absent THEN {"none"}
    ELSE {"this"} \cup (IF "stat" \in Faults THEN {"none"} ELSE {})

\* Mutant of Loads: loaded_ is all that is looked at.
LoadsOnce ==
    IF cached # "never" THEN [book : {mem}, time : {cached}]
    ELSE [book : {file} \cap Books, time : Times]

\* What accounts_ and cached_mtime_ may be when ensure_loaded_locked returns:
\* as they were when the times agree, as load_locked leaves them otherwise.
Loads ==
    [book : {mem}, time : Times \cap {cached}]
        \cup [book : CASE file = Absent -> {EmptyBook}
                       [] file = Torn -> {}
                       [] OTHER -> {file},
              time : Times \ {cached}]

\* A call of the database that gets as far as l.
Loaded(l) ==
    /\ Free
    /\ cached' = l.time
    /\ unseen' = (unseen /\ l.time = cached)

\* load_locked clears accounts_ before it finds that the file does not parse.
\* The caller's handler answers with an error.
LoadFails(s) ==
    /\ Free
    /\ file = Torn /\ Times \ {cached} # {}
    /\ work[s] = Idle \/ work[s].at = "copied"
    /\ mem' = EmptyBook
    /\ work' = [work EXCEPT ![s] = Idle]
    /\ UNCHANGED <<diskVars, cached, store, sessionVars, promiseVars, mixed, editVars>>

\* find_*, and every call that finds no reason to change anything.
LookUp(l) ==
    /\ Loaded(l)
    /\ mem' = l.book
    /\ UNCHANGED <<diskVars, store, sessionVars, work, promiseVars, mixed, edited>>
-----------------------------------------------------------------------------
(* store_locked *)

StoreAt(place) == store # Idle /\ store.at = place
GoTo(place) == store' = [store EXCEPT !.at = place]

\* store_locked throws: the handler answers with an error and promises
\* nothing.  The change stays in accounts_.
StoreFails ==
    /\ store' = Idle
    /\ work' = [work EXCEPT ![store.session] = Idle]
    /\ owed' = {}
    /\ UNCHANGED <<memVars, sessionVars, promised, mixed, editVars>>

OpenTemp ==
    /\ StoreAt("open")
    /\ tmp' = Torn
    /\ GoTo("write")
    /\ UNCHANGED <<file, memVars, sessionVars, work, promiseVars, mixed, editVars>>

\* Mutant of OpenFails: nobody looks at the stream.
OpenFailsQuietly ==
    /\ StoreAt("open")
    /\ "open" \in Faults
    /\ GoTo("stamp")
    /\ UNCHANGED <<diskVars, memVars, sessionVars, work, promiseVars, mixed, editVars>>

OpenFails ==
    /\ StoreAt("open")
    /\ "open" \in Faults
    /\ StoreFails
    /\ UNCHANGED diskVars

\* Nobody looks at the stream after the text has gone into it.
WriteTemp ==
    /\ StoreAt("write")
    /\ \/ tmp' = mem
       \/ "cut" \in Faults /\ tmp' = Torn
    /\ GoTo("rename")
    /\ UNCHANGED <<file, memVars, sessionVars, work, promiseVars, mixed, editVars>>

\* The time of the file path_ now names is not the cached one.
FileIs(content) ==
    /\ file' = content
    /\ cached' = IF cached = "this" THEN "other" ELSE cached

Install(place) ==
    /\ StoreAt(place)
    /\ FileIs(tmp)
    /\ tmp' = Absent
    /\ GoTo("stamp")
    /\ UNCHANGED <<mem, sessionVars, work, promiseVars, mixed, editVars>>

Rename == Install("rename")

RenameFails ==
    /\ StoreAt("rename")
    /\ "rename" \in Faults
    /\ GoTo("remove")
    /\ UNCHANGED <<diskVars, memVars, sessionVars, work, promiseVars, mixed, editVars>>

RemoveFile ==
    /\ StoreAt("remove")
    /\ \/ FileIs(Absent)
       \/ "remove" \in Faults /\ UNCHANGED <<file, cached>>
    /\ GoTo("again")
    /\ UNCHANGED <<tmp, mem, sessionVars, work, promiseVars, mixed, editVars>>

RenameAgain == Install("again")

\* Mutant of RenameAgainFails: the ".tmp" is cleaned up.
RenameAgainFailsTidily ==
    /\ StoreAt("again")
    /\ "rename" \in Faults
    /\ StoreFails
    /\ tmp' = Absent
    /\ UNCHANGED file

RenameAgainFails ==
    /\ StoreAt("again")
    /\ "rename" \in Faults
    /\ StoreFails
    /\ UNCHANGED diskVars

\* The time of the new file is cached, the mutex released and the client told.
Stamp ==
    /\ StoreAt("stamp")
    /\ cached' \in Times
    /\ store' = Idle
    /\ promised' = promised \cup owed
    /\ owed' = {}
    /\ UNCHANGED <<diskVars, mem, sessionVars, work, mixed, editVars>>

StoreStep ==
    \/ OpenTemp \/ OpenFails \/ WriteTemp
    \/ Rename \/ RenameFails \/ RemoveFile \/ RenameAgain \/ RenameAgainFails
    \/ Stamp
-----------------------------------------------------------------------------
(* Logins and nicknames *)

\* handle_login_challenge, handle_connect_lobby: the record is read ...
Login(s, a, l) ==
    /\ work[s] = Idle
    /\ ~Storing(s)
    /\ Loaded(l)
    /\ mem' = l.book
    /\ a \in DOMAIN l.book
    /\ work' = [work EXCEPT ![s] =
                    [at |-> "bind", account |-> a, nickname |-> l.book[a].nickname]]
    /\ UNCHANGED <<diskVars, store, sessionVars, promiseVars, mixed, edited>>

\* Mutant of Bind: a record without a nickname leaves the session its own.
BindKeepsNickname(s) ==
    /\ work[s].at = "bind"
    /\ login' = [login EXCEPT ![s] = work[s].account]
    /\ nick' = [nick EXCEPT ![s] =
                    IF work[s].nickname = NoName THEN @ ELSE work[s].nickname]
    /\ work' = [work EXCEPT ![s] = Idle]
    /\ UNCHANGED <<diskVars, memVars, store, promiseVars, mixed, editVars>>

\* ... and bound to the session under another lock.
Bind(s) ==
    /\ work[s].at = "bind"
    /\ login' = [login EXCEPT ![s] = work[s].account]
    /\ nick' = [nick EXCEPT ![s] = work[s].nickname]
    /\ work' = [work EXCEPT ![s] = Idle]
    /\ UNCHANGED <<diskVars, memVars, store, promiseVars, mixed, editVars>>

\* client_loop ends: the next client's session starts without a login.
Leave(s) ==
    /\ work[s] = Idle
    /\ ~Storing(s)
    /\ login' = [login EXCEPT ![s] = NoAccount]
    /\ nick' = [nick EXCEPT ![s] = NoName]
    /\ UNCHANGED <<diskVars, memVars, store, work, promiseVars, mixed, editVars>>

\* accounts_ is changed and store_locked entered.
Change(s, book, promises) ==
    /\ mem' = book
    /\ store' = [at |-> "open", session |-> s]
    /\ owed' = promises

\* Mutant of NameTaken: the names on the disk are looked at.
NameTakenOnDisk(book, a, n) ==
    file \in Books /\ \E b \in DOMAIN file \ {a} : file[b].nickname = n

NameTaken(book, a, n) == \E b \in DOMAIN book \ {a} : book[b].nickname = n

\* resolve_character_name, for an account that has a nickname ...
FindName(s, l) ==
    LET a == login[s] IN
    /\ work[s] = Idle
    /\ ~Storing(s)
    /\ Loaded(l)
    /\ mem' = l.book
    /\ a \in DOMAIN l.book
    /\ l.book[a].nickname # NoName
    /\ work' = [work EXCEPT ![s] = [at |-> "name", nickname |-> l.book[a].nickname]]
    /\ UNCHANGED <<diskVars, store, sessionVars, promiseVars, mixed, edited>>

\* ... and for one that has none yet.
GiveName(s, n, l) ==
    LET a == login[s] IN
    /\ work[s] = Idle
    /\ ~Storing(s)
    /\ Loaded(l)
    /\ a \in DOMAIN l.book
    /\ l.book[a].nickname = NoName
    /\ ~NameTaken(l.book, a, n)
    /\ Change(s, [l.book EXCEPT ![a] = [@ EXCEPT !.nickname = n]], {<<a, n>>})
    /\ work' = [work EXCEPT ![s] = [at |-> "name", nickname |-> n]]
    /\ UNCHANGED <<diskVars, sessionVars, promised, mixed, edited>>

\* The rest of handle_character_name, once the name is resolved.
SetNickname(s) ==
    /\ work[s].at = "name"
    /\ ~Storing(s)
    /\ nick' = [nick EXCEPT ![s] = work[s].nickname]
    /\ work' = [work EXCEPT ![s] = Idle]
    /\ UNCHANGED <<diskVars, memVars, store, login, promiseVars, mixed, editVars>>
-----------------------------------------------------------------------------
(* Purchases and the inventory *)

\* Whether the handler of a task goes on to write what it copied.  "buy" is
\* of equipment, which is sold once; "buy_skill" stands for what can be had
\* again and is charged again, the stacks of handle_buy_item too; "equip" also
\* for a removal that leaves some of a stack.  A request for which the money
\* is missing, say, ends as a LookUp does.
Allows(task, good, copy) ==
    /\ task = "buy" => good \notin copy.owned
    /\ task = "remove" => good \in copy.owned

\* The first call of a handler: find_packet_profile or find_inventory.
Copy(s, task, good, l) ==
    /\ work[s] = Idle
    /\ ~Storing(s)
    /\ Loaded(l)
    /\ mem' = l.book
    /\ login[s] \in DOMAIN l.book
    /\ Allows(task, good, l.book[login[s]])
    /\ work' = [work EXCEPT ![s] =
                    [at |-> "copied", task |-> task, good |-> good,
                     copy |-> l.book[login[s]]]]
    /\ UNCHANGED <<diskVars, store, sessionVars, promiseVars, mixed, edited>>

\* Mutant of Written: a purchase is stored with set_inventory.
WrittenUncharged(w, now) ==
    CASE w.task \in {"buy", "buy_skill"} -> [now EXCEPT !.owned = w.copy.owned \cup {w.good}]
      [] w.task \in {"repair", "equip"} -> [now EXCEPT !.owned = w.copy.owned]
      [] w.task = "remove" -> [now EXCEPT !.owned = w.copy.owned \ {w.good}]
      [] w.task = "quickslot" -> now

\* set_packet_profile replaces account_info and inventory with those of the
\* copy as the purchase changed it, set_inventory the inventory only, and
\* set_quickslot_list neither.
Written(w, now) ==
    CASE w.task \in {"buy", "buy_skill"} ->
            [now EXCEPT !.paid = w.copy.paid \cup {w.good},
                        !.owned = w.copy.owned \cup {w.good}]
      [] w.task = "repair" ->
            [now EXCEPT !.paid = w.copy.paid, !.owned = w.copy.owned]
      [] w.task = "remove" -> [now EXCEPT !.owned = w.copy.owned \ {w.good}]
      [] w.task = "equip" -> [now EXCEPT !.owned = w.copy.owned]
      [] w.task = "quickslot" -> now

\* The goods of an account, or what it was charged for, have changed since a
\* handler copied them.
IsOld(copy, now) == copy.paid # now.paid \/ copy.owned # now.owned

\* The second: set_packet_profile, set_inventory or set_quickslot_list.  A
\* promise ends with a removal, and with a copy that is older than it.
Write(s, l) ==
    LET a == login[s]
        w == work[s]
        new == Written(w, l.book[a])
    IN
    /\ w.at = "copied"
    /\ Loaded(l)
    /\ a \in DOMAIN l.book
    /\ Change(s, [l.book EXCEPT ![a] = new],
              IF w.task \in {"buy", "buy_skill"} THEN {<<a, w.good>>} ELSE {})
    /\ promised' = {p \in promised : p[1] = a => p[2] \in Names \cup new.owned}
    /\ mixed' = IF w.task \in {"remove", "equip"} /\ IsOld(w.copy, l.book[a])
                THEN mixed \cup {a}
                ELSE mixed
    /\ work' = [work EXCEPT ![s] = Idle]
    /\ UNCHANGED <<diskVars, sessionVars, edited>>

\* The account is gone: set_* returns false and the client gets an error.
WriteMisses(s, l) ==
    /\ work[s].at = "copied"
    /\ Loaded(l)
    /\ login[s] \notin DOMAIN l.book
    /\ mem' = l.book
    /\ work' = [work EXCEPT ![s] = Idle]
    /\ UNCHANGED <<diskVars, store, sessionVars, promiseVars, mixed, edited>>
-----------------------------------------------------------------------------
(* The operator and the end of the process *)

\* An operator puts a file in place.
Edit(seed) ==
    /\ FileIs(seed)
    /\ promised' = {}
    /\ owed' = {}
    /\ edited' = TRUE
    /\ unseen' = Free
    /\ UNCHANGED <<tmp, mem, store, sessionVars, work, mixed>>

\* The process ends, anywhere, and is started again.
Crash ==
    /\ mem' = EmptyBook
    /\ cached' = "never"
    /\ store' = Idle
    /\ login' = [s \in Sessions |-> NoAccount]
    /\ nick' = [s \in Sessions |-> NoName]
    /\ work' = [s \in Sessions |-> Idle]
    /\ owed' = {}
    /\ edited' = FALSE
    /\ unseen' = FALSE
    /\ UNCHANGED <<diskVars, promised, mixed>>

SessionStep(s) ==
    \/ LoadFails(s)
    \/ Bind(s)
    \/ Leave(s)
    \/ SetNickname(s)
    \/ \E l \in Loads :
        \/ \E a \in Accounts : Login(s, a, l)
        \/ FindName(s, l)
        \/ \E n \in Names : GiveName(s, n, l)
        \/ \E task \in Tasks, good \in Goods : Copy(s, task, good, l)
        \/ Write(s, l)
        \/ WriteMisses(s, l)

Next ==
    \/ \E s \in Sessions : SessionStep(s)
    \/ \E l \in Loads : LookUp(l)
    \/ StoreStep
    \/ \E seed \in Seeds : Edit(seed)
    \/ Crash

Spec == Init /\ [][Next]_vars
-----------------------------------------------------------------------------
(* Properties *)

ReliableTimes == "stat" \notin Faults
WholeWrites == "cut" \notin Faults

TypeOK ==
    /\ {file, tmp} \subseteq Books \cup {Absent, Torn}
    /\ mem \in Books
    /\ cached \in {"never", "none", "this", "other"}
    /\ store \in {Idle} \cup [at : Places, session : Sessions]
    /\ login \in [Sessions -> Accounts \cup {NoAccount}]
    /\ nick \in [Sessions -> Names \cup {NoName}]
    /\ work \in [Sessions -> Works]
    /\ \A s \in Sessions :
        /\ work[s].at \in {"copied", "name"} => login[s] \in Accounts
        /\ Storing(s) => work[s].at \in {"idle", "name"}
    /\ owed \subseteq Accounts \X (Names \cup Goods)
    /\ promised \subseteq Accounts \X (Names \cup Goods)
    /\ mixed \subseteq Accounts
    /\ edited \in BOOLEAN /\ unseen \in BOOLEAN

\* No book, in memory or in a file, gives two accounts one nickname, whatever
\* fails: a name is checked and set under one lock, and a book that a failed
\* store left ahead of the file is the one the next name is checked against.
NicknamesAreUnique ==
    \A book \in {mem, file, tmp} \ {Absent, Torn} : Distinct(book)

\* Where the accounts can be read back from: path_, or the ".tmp" next to it
\* after a replacement that went wrong.
Disk == IF file = Absent THEN tmp ELSE file

Kept(book, p) ==
    /\ book \notin {Absent, Torn}
    /\ p[1] \in DOMAIN book
    /\ p[2] \in book[p[1]].owned \cup {book[p[1]].nickname}

\* However a store fails and whenever the process ends in it, a whole book is
\* left: store_locked removes the old file only with the new one written, and
\* the memory emptied by a missing file is never stored over the ".tmp".
ABookIsOnDisk ==
    WholeWrites /\ ReliableTimes => Disk \notin {Absent, Torn}

\* What a client has been told it bought, and the name it has been told it
\* has, is on the disk from then on, over failed stores and crashes, whatever
\* the sessions of other accounts store.  (A reply that no store preceded is
\* no promise: "already present", or a name found in memory.)
PromisesAreKept ==
    WholeWrites /\ ReliableTimes => \A p \in promised : Kept(Disk, p)

\* While the operator leaves the file alone, two sessions that go by one
\* nickname are sessions of one account, although a session gets its nickname
\* some time after it was read or resolved, and one whose store failed may
\* get it without a store.
NamesTellSessionsApart ==
    ReliableTimes /\ ~edited =>
        \A s, t \in Sessions :
            nick[s] = nick[t] /\ nick[s] # NoName => login[s] = login[t]

\* Nothing comes free: in every book, what an account owns it has been charged
\* for, whatever purchases, repairs and quickslots of several sessions of the
\* account overwrite each other, stores fail or an operator replaces between a
\* copy and its write: set_packet_profile writes what was bought with what was
\* charged.  Only set_inventory (of a removal or an equip) can give something
\* away, when the account has changed since its copy was read: from then on
\* the account is left out.  (Goods as a set: what is bought again is charged
\* again, and a purchase that is overwritten is lost with its charge.)
NothingComesFree ==
    \A book \in {mem, file, tmp} \ {Absent, Torn} : PaidFor(book, Accounts \ mixed)

\* A store never replaces a file that the operator put in place while no
\* store was running and that the server has not read.
EditsAreSeen == ReliableTimes /\ ~Free => ~unseen

\* What memory is to the file: a store is on its way, or the time of the file
\* is the cached one, or the next call reads it.
Phase ==
    IF Free THEN IF cached = "this" THEN "warm" ELSE "cold"
    ELSE IF store.at = "stamp" THEN "stored" ELSE "storing"

Book == INSTANCE AccountBook WITH saved <- Disk, memory <- mem, phase <- Phase

\* Every store is atomic: it leaves the old book or the new one, whatever
\* fails and wherever the process ends, in one step that no reader sees half
\* of; no store starts from a memory that is behind the file, and no client
\* is told before.  (Under WholeWrites and ReliableTimes.)
ImplementsBook == Book!BookSpec
=============================================================================
