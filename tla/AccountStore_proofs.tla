------------------------- MODULE AccountStore_proofs -------------------------
(***************************************************************************)
(* Proofs about AccountStore, for all accounts, names, goods, sessions,    *)
(* tasks and faults: what its files keep, and that it is the atomic store  *)
(* of AccountBook where writes are whole and times can be read.            *)
(***************************************************************************)
EXTENDS AccountStore, TLAPS

\* A book is a function from some of the accounts to records of fields.
LEMMA BooksAre ==
    \A b : b \in Books <=>
        /\ b = [a \in DOMAIN b |-> b[a]]
        /\ DOMAIN b \subseteq Accounts
        /\ \A a \in DOMAIN b : b[a] \in Fields
BY DEF Books

\* The empty book is one of them, without an account.
LEMMA EmptyBookIsEmpty == EmptyBook \in Books /\ DOMAIN EmptyBook = {}
BY DEF Books, EmptyBook

\* Replacing a record leaves a book of the same accounts.
LEMMA Replaced ==
    ASSUME NEW b \in Books, NEW a \in DOMAIN b, NEW r \in Fields
    PROVE  /\ [b EXCEPT ![a] = r] \in Books
           /\ DOMAIN [b EXCEPT ![a] = r] = DOMAIN b
           /\ [b EXCEPT ![a] = r][a] = r
           /\ \A c \in DOMAIN b \ {a} : [b EXCEPT ![a] = r][c] = b[c]
BY BooksAre

\* No book is a missing or a torn file.
LEMMA FilesDiffer ==
    Absent # Torn /\ Absent \notin Books /\ Torn \notin Books
BY NothingIsNot
-----------------------------------------------------------------------------
(* What a call of the database starts from *)

\* ensure_loaded_locked returns with the book it had cached, with the empty
\* book of a missing file, or with the file's.
LEMMA LoadsAre ==
    ASSUME TypeOK, NEW l \in Loads
    PROVE  /\ l.book \in Books
           /\ l.time \in Times
           /\ l.time \in {"none", "this"}
           /\ \/ l.time = cached /\ l.book = mem
              \/ l.time # cached /\ file = Absent /\ l.book = EmptyBook
              \/ l.time # cached /\ file \in Books /\ l.book = file
<1>1. l \in [book : {mem}, time : Times \cap {cached}]
        \/ l \in [book : CASE file = Absent -> {EmptyBook}
                           [] file = Torn -> {}
                           [] OTHER -> {file},
                  time : Times \ {cached}]
  BY DEF Loads
<1>2. l.time \in Times /\ Times \subseteq {"none", "this"}
  BY <1>1 DEF Times
<1>3. CASE l \in [book : {mem}, time : Times \cap {cached}]
  BY <1>2, <1>3 DEF TypeOK
<1>4. CASE l \in [book : CASE file = Absent -> {EmptyBook}
                           [] file = Torn -> {}
                           [] OTHER -> {file},
                  time : Times \ {cached}]
  <2>1. CASE file = Absent
    BY <1>2, <1>4, <2>1, EmptyBookIsEmpty
  <2>2. CASE file = Torn
    BY <1>4, <2>2, FilesDiffer
  <2>3. CASE file # Absent /\ file # Torn
    BY <1>2, <1>4, <2>3, EmptyBookIsEmpty DEF TypeOK
  <2> QED  BY <2>1, <2>2, <2>3
<1> QED  BY <1>1, <1>3, <1>4

\* A call that changes nothing leaves accounts_ as ensure_loaded_locked did.
CallFrom(l) == Loaded(l) /\ mem' = l.book /\ UNCHANGED <<diskVars, store>>

\* A call that changes a record enters store_locked.
ChangeFrom(s, a, r, l) ==
    /\ Loaded(l)
    /\ a \in DOMAIN l.book
    /\ mem' = [l.book EXCEPT ![a] = r]
    /\ store' = [at |-> "open", session |-> s]
    /\ UNCHANGED diskVars

\* What set_* writes is a record with the nickname of the one it replaces.
LEMMA WrittenIs ==
    ASSUME NEW w \in [at : {"copied"}, task : Tasks, good : Goods, copy : Fields],
           NEW now \in Fields
    PROVE  /\ Written(w, now) \in Fields
           /\ Written(w, now).nickname = now.nickname
<1>1. /\ w.task \in {"buy", "buy_skill", "repair", "remove", "equip", "quickslot"}
      /\ w.good \in Goods /\ w.copy \in Fields
  BY TasksAreKnown
<1>2. /\ w.copy.paid \subseteq Goods /\ w.copy.owned \subseteq Goods
      /\ now.nickname \in Names \cup {NoName}
      /\ now.paid \subseteq Goods /\ now.owned \subseteq Goods
  BY <1>1 DEF Fields
<1>3. CASE w.task \in {"buy", "buy_skill"}
  BY <1>1, <1>2, <1>3 DEF Written, Fields
<1>4. CASE w.task = "repair"
  BY <1>1, <1>2, <1>4 DEF Written, Fields
<1>5. CASE w.task = "remove"
  BY <1>1, <1>2, <1>5 DEF Written, Fields
<1>6. CASE w.task = "equip"
  BY <1>1, <1>2, <1>6 DEF Written, Fields
<1>7. CASE w.task = "quickslot"
  BY <1>1, <1>2, <1>7 DEF Written, Fields
<1> QED  BY <1>1, <1>3, <1>4, <1>5, <1>6, <1>7

\* A record that is given a nickname.
LEMMA NamedIs ==
    ASSUME NEW r \in Fields, NEW n \in Names
    PROVE  /\ [r EXCEPT !.nickname = n] \in Fields
           /\ [r EXCEPT !.nickname = n].nickname = n
           /\ [r EXCEPT !.nickname = n].owned = r.owned
           /\ [r EXCEPT !.nickname = n].paid = r.paid
BY DEF Fields

\* What a handler has in hand.
LEMMA WorksAre ==
    ASSUME TypeOK, NEW s \in Sessions
    PROVE  /\ work[s] \in Works
           /\ work[s].at = "copied" =>
                work[s] \in [at : {"copied"}, task : Tasks, good : Goods, copy : Fields]
           /\ work[s].at = "bind" =>
                work[s] \in [at : {"bind"}, account : Accounts, nickname : Names \cup {NoName}]
           /\ work[s].at = "name" => work[s] \in [at : {"name"}, nickname : Names]
           /\ login[s] \in Accounts \cup {NoAccount}
BY DEF TypeOK, Works, Idle

\* The account of a session that is in a book is not NoAccount.
LEMMA InBook ==
    ASSUME NEW b \in Books, NEW a \in DOMAIN b
    PROVE  a \in Accounts /\ b[a] \in Fields
BY BooksAre
-----------------------------------------------------------------------------
(* Types *)

\* A load keeps the types of what it changes.
LEMMA LoadedTyped ==
    ASSUME TypeOK, NEW l \in Loads, Loaded(l)
    PROVE  /\ Free
           /\ cached' \in {"none", "this"}
           /\ unseen' \in BOOLEAN
BY LoadsAre DEF Loaded, TypeOK

\* Every step keeps the types.
LEMMA TypeStep == TypeOK /\ [Next]_vars => TypeOK'
<1> SUFFICES ASSUME TypeOK, [Next]_vars  PROVE TypeOK'
  OBVIOUS
<1> USE DEF sessionVars, diskVars, memVars, promiseVars, editVars
<1>1. ASSUME NEW s \in Sessions, LoadFails(s)  PROVE TypeOK'
  BY <1>1, EmptyBookIsEmpty DEF LoadFails, TypeOK, Works, Idle, Free, Storing
<1>2. ASSUME NEW l \in Loads, LookUp(l)  PROVE TypeOK'
  BY <1>2, LoadsAre, LoadedTyped DEF LookUp, TypeOK, Idle, Storing
<1>3. ASSUME NEW s \in Sessions, NEW a \in Accounts, NEW l \in Loads, Login(s, a, l)
      PROVE  TypeOK'
  <2>1. l.book \in Books /\ l.book[a].nickname \in Names \cup {NoName}
    BY <1>3, LoadsAre, InBook DEF Login, Fields
  <2> QED  BY <1>3, <2>1, LoadedTyped DEF Login, TypeOK, Works, Idle, Storing, Free
<1>4. ASSUME NEW s \in Sessions, Bind(s)  PROVE TypeOK'
  <2>1. work[s].account \in Accounts /\ work[s].nickname \in Names \cup {NoName}
    BY <1>4, WorksAre DEF Bind
  <2> QED  BY <1>4, <2>1 DEF Bind, TypeOK, Works, Idle, Storing
<1>5. ASSUME NEW s \in Sessions, NEW l \in Loads, FindName(s, l)  PROVE TypeOK'
  <2>1. /\ l.book \in Books /\ l.book[login[s]].nickname \in Names
        /\ login[s] \in Accounts
    BY <1>5, LoadsAre, InBook DEF FindName, Fields
  <2> QED  BY <1>5, <2>1, LoadedTyped DEF FindName, TypeOK, Works, Idle, Storing, Free
<1>6. ASSUME NEW s \in Sessions, NEW n \in Names, NEW l \in Loads, GiveName(s, n, l)
      PROVE  TypeOK'
  <2>1. l.book \in Books /\ login[s] \in Accounts /\ mem' \in Books
    BY <1>6, LoadsAre, InBook, NamedIs, Replaced DEF GiveName, Change
  <2>2. store' = [at |-> "open", session |-> s] /\ owed' = {<<login[s], n>>}
    BY <1>6 DEF GiveName, Change
  <2> QED
    BY <1>6, <2>1, <2>2, LoadedTyped DEF GiveName, TypeOK, Works, Idle, Storing, Free, Places
<1>7. ASSUME NEW s \in Sessions, SetNickname(s)  PROVE TypeOK'
  <2>1. work[s].nickname \in Names
    BY <1>7, WorksAre DEF SetNickname
  <2> QED  BY <1>7, <2>1 DEF SetNickname, TypeOK, Works, Idle, Storing
<1>8. ASSUME NEW s \in Sessions, NEW task \in Tasks, NEW good \in Goods, NEW l \in Loads,
             Copy(s, task, good, l)
      PROVE  TypeOK'
  <2>1. l.book \in Books /\ l.book[login[s]] \in Fields /\ login[s] \in Accounts
    BY <1>8, LoadsAre, InBook DEF Copy
  <2> QED  BY <1>8, <2>1, LoadedTyped DEF Copy, TypeOK, Works, Idle, Storing, Free
<1>9. ASSUME NEW s \in Sessions, NEW l \in Loads, Write(s, l)  PROVE TypeOK'
  <2> DEFINE r == Written(work[s], l.book[login[s]])
  <2>1. /\ work[s] \in [at : {"copied"}, task : Tasks, good : Goods, copy : Fields]
        /\ login[s] \in DOMAIN l.book /\ login[s] \in Accounts
        /\ l.book \in Books /\ l.book[login[s]] \in Fields
    BY <1>9, LoadsAre, InBook, WorksAre DEF Write
  <2>2. r \in Fields
    BY <2>1, WrittenIs
  <2>3. /\ mem' = [l.book EXCEPT ![login[s]] = r]
        /\ store' = [at |-> "open", session |-> s]
        /\ owed' \subseteq {<<login[s], work[s].good>>}
        /\ promised' \subseteq promised
    BY <1>9 DEF Write, Change
  <2>4. mem' \in Books
    BY <2>1, <2>2, <2>3, Replaced
  <2>5. owed' \subseteq Accounts \X (Names \cup Goods)
    BY <2>1, <2>3
  <2> HIDE DEF r
  <2> QED
    BY <1>9, <2>3, <2>4, <2>5, LoadedTyped DEF Write, TypeOK, Works, Idle, Storing, Free, Places
<1>10. ASSUME NEW s \in Sessions, NEW l \in Loads, WriteMisses(s, l)  PROVE TypeOK'
  BY <1>10, LoadsAre, LoadedTyped DEF WriteMisses, TypeOK, Works, Idle, Storing, Free
<1>11. ASSUME StoreStep  PROVE TypeOK'
  <2> USE DEF StoreAt, GoTo
  <2>1. CASE store # Idle
    <3>1. store \in [at : Places, session : Sessions]
      BY <2>1 DEF TypeOK
    <3>2. \A p \in Places : [store EXCEPT !.at = p] \in [at : Places, session : Sessions]
                            /\ [store EXCEPT !.at = p].session = store.session
                            /\ [store EXCEPT !.at = p] # Idle
      BY <3>1 DEF Idle
    <3>3. CASE StoreFails
      BY <3>1, <3>3, <1>11 DEF StoreFails, StoreStep, TypeOK, Works, Idle, Storing,
        OpenTemp, OpenFails, WriteTemp, Rename, RenameFails, RemoveFile, RenameAgain,
        RenameAgainFails, Stamp, Install, FileIs, Places
    <3>4. CASE OpenTemp
      BY <3>1, <3>2, <3>4 DEF OpenTemp, TypeOK, Storing, Places
    <3>5. CASE OpenFails
      BY <3>3, <3>5 DEF OpenFails
    <3>6. CASE WriteTemp
      BY <3>1, <3>2, <3>6 DEF WriteTemp, TypeOK, Storing, Places
    <3>7. CASE Install("rename") \/ Install("again")
      BY <3>1, <3>2, <3>7 DEF Install, FileIs, TypeOK, Storing, Places
    <3>8. CASE RenameFails
      BY <3>1, <3>2, <3>8 DEF RenameFails, TypeOK, Storing, Places
    <3>9. CASE RemoveFile
      BY <3>1, <3>2, <3>9 DEF RemoveFile, FileIs, TypeOK, Storing, Places
    <3>10. CASE RenameAgainFails
      BY <3>3, <3>10 DEF RenameAgainFails
    <3>11. CASE Stamp
      BY <3>1, <3>11 DEF Stamp, Times, TypeOK, Storing, Idle
    <3> QED
      BY <1>11, <3>4, <3>5, <3>6, <3>7, <3>8, <3>9, <3>10, <3>11
         DEF StoreStep, Rename, RenameAgain
  <2>2. CASE store = Idle
    BY <1>11, <2>2 DEF StoreStep, OpenTemp, OpenFails, WriteTemp, Rename, RenameFails,
      RemoveFile, RenameAgain, RenameAgainFails, Stamp, Install
  <2> QED  BY <2>1, <2>2
<1>12. ASSUME NEW seed \in Seeds, Edit(seed)  PROVE TypeOK'
  <2>1. seed \in Books
    BY SeedsAreSound
  <2> QED  BY <1>12, <2>1 DEF Edit, FileIs, TypeOK, Storing, Free
<1>13. ASSUME Crash  PROVE TypeOK'
  BY <1>13, EmptyBookIsEmpty DEF Crash, TypeOK, Works, Idle, Storing
<1>14. ASSUME NEW s \in Sessions, Leave(s)  PROVE TypeOK'
  BY <1>14 DEF Leave, TypeOK, Works, Idle, Storing
<1>15. CASE UNCHANGED vars
  BY <1>15 DEF vars, TypeOK, Storing
<1> QED
  BY <1>1, <1>2, <1>3, <1>4, <1>5, <1>6, <1>7, <1>8, <1>9, <1>10, <1>11, <1>12, <1>13, <1>14,
     <1>15
     DEF Next, SessionStep
-----------------------------------------------------------------------------
(* The kinds of steps, as far as the files and accounts_ are concerned *)

\* A call that finds nothing to change, in whatever handler.
Calls == \E l \in Loads : CallFrom(l) /\ UNCHANGED promiseVars

\* Who has a name in one book has it in the other.
NamesStay(old, new) ==
    \A a \in DOMAIN old :
        old[a].nickname # NoName => a \in DOMAIN new /\ new[a].nickname = old[a].nickname

\* A change keeps names, keeps them distinct, and keeps every promise it does
\* not end.
Changes ==
    \E s \in Sessions, l \in Loads, r \in Fields :
        /\ ChangeFrom(s, login[s], r, l)
        /\ Distinct(l.book) => Distinct(mem')
        /\ NamesStay(l.book, mem')
        /\ promised' \subseteq promised
        /\ \A p \in promised' : Kept(l.book, p) => Kept(mem', p)
        /\ \A p \in owed' : Kept(mem', p)

\* A load that throws.
Throws ==
    /\ Free /\ file = Torn /\ Times \ {cached} # {}
    /\ mem' = EmptyBook
    /\ UNCHANGED <<diskVars, cached, store, promiseVars, unseen>>

\* A step of a session that does not touch the database.
Elsewhere == UNCHANGED <<diskVars, memVars, store, promiseVars, unseen>>

\* The name that GiveName writes is nobody else's.
LEMMA GiveNameChanges ==
    ASSUME TypeOK, NEW s \in Sessions, NEW n \in Names, NEW l \in Loads, GiveName(s, n, l)
    PROVE  Changes
<1> DEFINE a == login[s]
           r == [l.book[a] EXCEPT !.nickname = n]
<1>1. /\ l.book \in Books /\ a \in DOMAIN l.book /\ l.book[a] \in Fields
      /\ a \in Accounts
  BY LoadsAre, InBook DEF GiveName
<1>2. /\ r \in Fields /\ r.nickname = n /\ r.owned = l.book[a].owned
  BY <1>1, NamedIs
<1>3. /\ mem' = [l.book EXCEPT ![a] = r]
      /\ owed' = {<<a, n>>} /\ promised' = promised
      /\ l.book[a].nickname = NoName
      /\ ~NameTaken(l.book, a, n)
      /\ ChangeFrom(s, a, r, l)
  BY DEF GiveName, Change, ChangeFrom
<1>4. /\ mem' \in Books /\ DOMAIN mem' = DOMAIN l.book /\ mem'[a] = r
      /\ \A c \in DOMAIN l.book \ {a} : mem'[c] = l.book[c]
  BY <1>1, <1>2, <1>3, Replaced
<1>5. /\ Distinct(l.book) => Distinct(mem')
      /\ NamesStay(l.book, mem')
  BY <1>2, <1>3, <1>4 DEF Distinct, NameTaken, NamesStay
<1>6. ASSUME NEW p \in promised', Kept(l.book, p)  PROVE Kept(mem', p)
  <2>1. p[2] # NoName
    BY <1>3, <1>6, NothingIsNot DEF TypeOK
  <2>2. p[1] = a => p[2] \in r.owned
    BY <1>2, <1>3, <1>6, <2>1 DEF Kept
  <2> QED  BY <1>4, <1>6, <2>2, FilesDiffer DEF Kept
<1>7. \A p \in owed' : Kept(mem', p)
  BY <1>1, <1>2, <1>3, <1>4, FilesDiffer DEF Kept
<1> HIDE DEF r
<1> QED  BY <1>2, <1>3, <1>5, <1>6, <1>7 DEF Changes

\* What set_* writes keeps the nickname, and every promise about a good that
\* the new record does not have has been taken back.
LEMMA WriteChanges ==
    ASSUME TypeOK, NEW s \in Sessions, NEW l \in Loads, Write(s, l)
    PROVE  Changes
<1> DEFINE a == login[s]
           r == Written(work[s], l.book[a])
<1>1. /\ l.book \in Books /\ a \in DOMAIN l.book /\ l.book[a] \in Fields
      /\ a \in Accounts
      /\ work[s] \in [at : {"copied"}, task : Tasks, good : Goods, copy : Fields]
  BY LoadsAre, InBook, WorksAre DEF Write
<1>2. r \in Fields /\ r.nickname = l.book[a].nickname
  BY <1>1, WrittenIs
<1>3. /\ mem' = [l.book EXCEPT ![a] = r]
      /\ owed' = IF work[s].task \in {"buy", "buy_skill"} THEN {<<a, work[s].good>>} ELSE {}
      /\ promised' = {p \in promised : p[1] = a => p[2] \in Names \cup r.owned}
      /\ ChangeFrom(s, a, r, l)
  BY DEF Write, Change, ChangeFrom
<1>4. /\ mem' \in Books /\ DOMAIN mem' = DOMAIN l.book /\ mem'[a] = r
      /\ \A c \in DOMAIN l.book \ {a} : mem'[c] = l.book[c]
  BY <1>1, <1>2, <1>3, Replaced
<1>5. /\ Distinct(l.book) => Distinct(mem')
      /\ NamesStay(l.book, mem')
  BY <1>1, <1>2, <1>4 DEF Distinct, NamesStay
<1>6. ASSUME NEW p \in promised', Kept(l.book, p)  PROVE Kept(mem', p)
  <2>1. p[1] = a => p[2] \in Names \cup r.owned
    BY <1>3, <1>6
  <2>2. l.book[a].owned \subseteq Goods
    BY <1>1 DEF Fields
  <2>3. p[1] = a => p[2] \in r.owned \cup {r.nickname}
    BY <1>2, <1>6, <2>1, <2>2, NothingIsNot DEF Kept
  <2> QED  BY <1>4, <1>6, <2>3, FilesDiffer DEF Kept
<1>7. \A p \in owed' : Kept(mem', p)
  <2>1. work[s].task \in {"buy", "buy_skill"} => work[s].good \in r.owned
    <3>1. l.book[a] \in [nickname : Names \cup {NoName}, paid : SUBSET Goods,
                         owned : SUBSET Goods]
      BY <1>1 DEF Fields
    <3> QED  BY <3>1 DEF Written
  <2> QED  BY <1>1, <1>3, <1>4, <2>1, FilesDiffer DEF Kept
<1> HIDE DEF r
<1> QED  BY <1>2, <1>3, <1>5, <1>6, <1>7 DEF Changes

\* Every step is one of these kinds, a step of store_locked, an operator's or
\* the end of the process ...
LEMMA ActionKinds ==
    ASSUME [Next]_vars
    PROVE  \/ Calls \/ Throws \/ Elsewhere \/ StoreStep
           \/ \E s \in Sessions, n \in Names, l \in Loads : GiveName(s, n, l)
           \/ \E s \in Sessions, l \in Loads : Write(s, l)
           \/ \E seed \in Seeds : Edit(seed)
           \/ Crash
<1> USE DEF sessionVars, diskVars, memVars, promiseVars, editVars
<1>1. ASSUME NEW s \in Sessions, LoadFails(s)  PROVE Throws
  BY <1>1 DEF LoadFails, Throws
<1>2. ASSUME NEW l \in Loads,
             \/ LookUp(l)
             \/ \E s \in Sessions, a \in Accounts : Login(s, a, l)
             \/ \E s \in Sessions : FindName(s, l)
             \/ \E s \in Sessions, task \in Tasks, good \in Goods : Copy(s, task, good, l)
             \/ \E s \in Sessions : WriteMisses(s, l)
      PROVE  Calls
  BY <1>2 DEF LookUp, Login, FindName, Copy, WriteMisses, Calls, CallFrom
<1>3. ASSUME NEW s \in Sessions, Bind(s) \/ Leave(s) \/ SetNickname(s)  PROVE Elsewhere
  BY <1>3 DEF Bind, Leave, SetNickname, Elsewhere
<1>4. CASE UNCHANGED vars
  BY <1>4 DEF vars, Elsewhere
<1> QED  BY <1>1, <1>2, <1>3, <1>4 DEF Next, SessionStep

\* ... where a change is of a nickname or of what set_* writes.
LEMMA Kinds ==
    ASSUME TypeOK, [Next]_vars
    PROVE  \/ Calls \/ Changes \/ Throws \/ Elsewhere \/ StoreStep
           \/ \E seed \in Seeds : Edit(seed)
           \/ Crash
BY ActionKinds, GiveNameChanges, WriteChanges
-----------------------------------------------------------------------------
(* Nicknames *)

\* The empty book gives nobody a name.
LEMMA EmptyBookIsDistinct == Distinct(EmptyBook)
BY EmptyBookIsEmpty DEF Distinct

\* A load reads a distinct book if memory and file hold such books.
LEMMA LoadsDistinct ==
    ASSUME TypeOK, NicknamesAreUnique, NEW l \in Loads
    PROVE  Distinct(l.book)
BY LoadsAre, EmptyBookIsDistinct, FilesDiffer DEF NicknamesAreUnique, TypeOK

\* Every step keeps the nicknames of all books distinct.
LEMMA UniqueStep == TypeOK /\ NicknamesAreUnique /\ [Next]_vars => NicknamesAreUnique'
<1> SUFFICES ASSUME TypeOK, NicknamesAreUnique, [Next]_vars  PROVE NicknamesAreUnique'
  OBVIOUS
<1> USE DEF diskVars, memVars
<1>1. CASE Calls
  BY <1>1, LoadsDistinct DEF Calls, CallFrom, NicknamesAreUnique
<1>2. CASE Changes
  BY <1>2, LoadsDistinct DEF Changes, ChangeFrom, NicknamesAreUnique
<1>3. CASE Throws
  BY <1>3, EmptyBookIsDistinct DEF Throws, NicknamesAreUnique
<1>4. CASE Elsewhere
  BY <1>4 DEF Elsewhere, NicknamesAreUnique
<1>5. CASE StoreStep
  BY <1>5 DEF NicknamesAreUnique, StoreStep, OpenTemp, OpenFails, WriteTemp, Rename,
    RenameFails, RemoveFile, RenameAgain, RenameAgainFails, Stamp, Install, FileIs, StoreFails
<1>6. CASE \E seed \in Seeds : Edit(seed)
  BY <1>6, SeedsAreSound DEF NicknamesAreUnique, Edit, FileIs
<1>7. CASE Crash
  BY <1>7, EmptyBookIsDistinct DEF NicknamesAreUnique, Crash
<1> QED  BY <1>1, <1>2, <1>3, <1>4, <1>5, <1>6, <1>7, Kinds
-----------------------------------------------------------------------------
(* The file, the ".tmp" and the time *)

StoreIn(places) == store # Idle /\ store.at \in places

\* What a store in progress finds: outside of it nothing is owed; the text it
\* has written is that of accounts_, when none is cut.
StoreInv ==
    /\ store = Idle => owed = {}
    /\ StoreIn({"rename", "remove", "again"}) => tmp # Absent
    /\ WholeWrites =>
        /\ file # Torn
        /\ StoreIn({"rename", "remove", "again"}) => tmp = mem

\* What a cached time tells, when times can be read: the file it is the time
\* of is there; a store goes on only with that or with a file that came since,
\* and with a file to replace until it has removed it; an operator's file that
\* has not been read has another time.
TimeInv ==
    ReliableTimes =>
        /\ cached = "this" => file # Absent
        /\ cached = "none" /\ file = Absent => mem = EmptyBook
        /\ store # Idle => cached \in {"this", "other"}
        /\ StoreIn(Places \ {"again"}) => file # Absent
        /\ unseen => store = Idle /\ cached # "this" /\ file # Absent

\* A book is on the disk and holds every promise, and so does the book in
\* memory whenever it may be the next to be stored.
PromiseInv ==
    WholeWrites /\ ReliableTimes =>
        /\ file = Absent => tmp \in Books
        /\ \A p \in promised : Kept(Disk, p)
        /\ cached = "this" \/ store # Idle => \A p \in promised \cup owed : Kept(mem, p)
        /\ StoreIn({"stamp"}) => \A p \in owed : Kept(file, p)

DiskInv == TypeOK /\ StoreInv /\ TimeInv /\ PromiseInv

\* The store, when there is one, is at one of its places.
LEMMA StoreIs ==
    ASSUME TypeOK, store # Idle
    PROVE  /\ store.at \in Places /\ store.session \in Sessions
           /\ \A p \in Places : /\ [store EXCEPT !.at = p].at = p
                                /\ [store EXCEPT !.at = p].session = store.session
                                /\ [store EXCEPT !.at = p] # Idle
<1>1. store \in [at : Places, session : Sessions]
  BY DEF TypeOK
<1> QED  BY <1>1 DEF Idle

\* With reliable times, a call that finds the account uses a book that a file
\* holds or that is newer than it, and has the file's time.
LEMMA LoadsWithTimes ==
    ASSUME DiskInv, ReliableTimes, NEW l \in Loads
    PROVE  /\ file = Absent => l.time = "none"
           /\ file # Absent => l.time = "this"
           /\ file = Absent => l.book = EmptyBook
<1>1. TypeOK /\ TimeInv
  BY DEF DiskInv
<1>2. Times = IF file = Absent THEN {"none"} ELSE {"this"}
  BY DEF Times, ReliableTimes
<1>3. l.time \in Times
  BY <1>1, LoadsAre
<1> QED  BY <1>1, <1>2, <1>3, LoadsAre, FilesDiffer DEF TimeInv

\* A call that finds nothing to change brings memory up with the file.
LEMMA DiskCalls ==
    ASSUME DiskInv, TypeOK', Calls
    PROVE  DiskInv'
<1> USE DEF diskVars, promiseVars
<1>1. PICK l \in Loads : CallFrom(l) /\ UNCHANGED promiseVars
  BY DEF Calls
<1>2. /\ store = Idle /\ UNCHANGED <<file, tmp, store, owed, promised>>
      /\ cached' = l.time /\ mem' = l.book
      /\ unseen' = (unseen /\ l.time = cached)
  BY <1>1 DEF CallFrom, Loaded, Free
<1>3. /\ TypeOK
      /\ \/ l.time = cached /\ l.book = mem
         \/ l.time # cached /\ file = Absent /\ l.book = EmptyBook
         \/ l.time # cached /\ file \in Books /\ l.book = file
  BY LoadsAre DEF DiskInv
<1>4. StoreInv'
  BY <1>2 DEF DiskInv, StoreInv, StoreIn
<1>5. TimeInv'
  <2> SUFFICES ASSUME ReliableTimes  PROVE TimeInv'
    BY DEF TimeInv, ReliableTimes
  <2> QED
    BY <1>2, <1>3, LoadsWithTimes DEF DiskInv, TimeInv, StoreIn
<1>6. PromiseInv'
  <2> SUFFICES ASSUME WholeWrites, ReliableTimes  PROVE PromiseInv'
    BY DEF PromiseInv, ReliableTimes, WholeWrites
  <2>1. \A p \in promised : Kept(Disk, p)'
    BY <1>2 DEF DiskInv, PromiseInv, Disk, Kept
  <2>2. owed = {}
    BY <1>2 DEF DiskInv, StoreInv
  <2>3. cached' = "this" => \A p \in promised : Kept(l.book, p)
    BY <1>2, <1>3, LoadsWithTimes, FilesDiffer DEF DiskInv, PromiseInv, Disk
  <2> QED
    BY <1>2, <2>1, <2>2, <2>3 DEF DiskInv, PromiseInv, StoreIn, Kept
<1> QED  BY <1>4, <1>5, <1>6 DEF DiskInv

\* A change begins from a book that keeps every promise on the disk.
LEMMA DiskChanges ==
    ASSUME DiskInv, TypeOK', Changes
    PROVE  DiskInv'
<1> USE DEF diskVars, promiseVars
<1>1. PICK s \in Sessions, l \in Loads, r \in Fields :
        /\ ChangeFrom(s, login[s], r, l)
        /\ promised' \subseteq promised
        /\ \A p \in promised' : Kept(l.book, p) => Kept(mem', p)
        /\ \A p \in owed' : Kept(mem', p)
  BY DEF Changes
<1>2. /\ store = Idle /\ UNCHANGED <<file, tmp>>
      /\ store' = [at |-> "open", session |-> s]
      /\ cached' = l.time
      /\ unseen' = (unseen /\ l.time = cached)
      /\ login[s] \in DOMAIN l.book
  BY <1>1 DEF ChangeFrom, Loaded, Free
<1>3. /\ TypeOK
      /\ \/ l.time = cached /\ l.book = mem
         \/ l.time # cached /\ file = Absent /\ l.book = EmptyBook
         \/ l.time # cached /\ file \in Books /\ l.book = file
  BY LoadsAre DEF DiskInv
<1>4. store' # Idle /\ store'.at = "open"
  BY <1>2 DEF Idle
<1>5. StoreInv'
  BY <1>2, <1>4 DEF DiskInv, StoreInv, StoreIn
<1>6. ReliableTimes => file # Absent /\ cached' = "this"
  BY <1>2, LoadsWithTimes, EmptyBookIsEmpty
<1>7. TimeInv'
  BY <1>2, <1>3, <1>4, <1>6 DEF DiskInv, TimeInv, StoreIn
<1>8. PromiseInv'
  <2> SUFFICES ASSUME WholeWrites, ReliableTimes  PROVE PromiseInv'
    BY DEF PromiseInv, ReliableTimes, WholeWrites
  <2>1. \A p \in promised' : Kept(Disk, p)'
    BY <1>1, <1>2 DEF DiskInv, PromiseInv, Disk, Kept
  <2>2. \A p \in promised : Kept(l.book, p)
    BY <1>2, <1>3, <1>6, FilesDiffer DEF DiskInv, PromiseInv, Disk
  <2>3. \A p \in promised' \cup owed' : Kept(mem, p)'
    BY <1>1, <2>2 DEF Kept
  <2> QED
    BY <1>2, <1>4, <1>6, <2>1, <2>3 DEF PromiseInv, StoreIn
<1> QED  BY <1>5, <1>7, <1>8 DEF DiskInv

\* Neither a load that throws, an operator nor the end of the process breaks
\* what the files and the time are to each other.
LEMMA DiskOthers ==
    ASSUME DiskInv, TypeOK',
           Throws \/ Elsewhere \/ (\E seed \in Seeds : Edit(seed)) \/ Crash
    PROVE  DiskInv'
<1> USE DEF diskVars, memVars, promiseVars
<1>1. CASE Throws
  <2>1. /\ UNCHANGED <<file, tmp, cached, store, owed, promised, unseen>>
        /\ mem' = EmptyBook /\ store = Idle /\ file = Torn
    BY <1>1 DEF Throws, Free
  <2>2. StoreInv' /\ TimeInv'
    BY <2>1, FilesDiffer DEF DiskInv, StoreInv, TimeInv, StoreIn
  <2>3. PromiseInv'
    BY <2>1 DEF DiskInv, StoreInv, PromiseInv
  <2> QED  BY <2>2, <2>3 DEF DiskInv
<1>2. CASE Elsewhere
  BY <1>2 DEF Elsewhere, DiskInv, StoreInv, TimeInv, PromiseInv, StoreIn, Disk, Kept
<1>3. ASSUME NEW seed \in Seeds, Edit(seed)  PROVE DiskInv'
  <2>1. seed \in Books /\ seed # Absent /\ seed # Torn
    BY SeedsAreSound, FilesDiffer
  <2>2. /\ file' = seed /\ UNCHANGED <<tmp, mem, store>>
        /\ cached' = IF cached = "this" THEN "other" ELSE cached
        /\ promised' = {} /\ owed' = {}
        /\ unseen' = (store = Idle)
    BY <1>3 DEF Edit, FileIs, Free
  <2>3. StoreInv'
    BY <2>1, <2>2 DEF DiskInv, StoreInv, StoreIn
  <2>4. TimeInv'
    BY <2>1, <2>2 DEF DiskInv, TimeInv, StoreIn
  <2>5. PromiseInv'
    BY <2>1, <2>2 DEF DiskInv, PromiseInv, StoreIn
  <2> QED  BY <2>3, <2>4, <2>5 DEF DiskInv
<1>4. CASE Crash
  <2>1. /\ UNCHANGED <<file, tmp, promised>>
        /\ mem' = EmptyBook /\ cached' = "never" /\ store' = Idle
        /\ owed' = {} /\ unseen' = FALSE
    BY <1>4 DEF Crash
  <2>2. StoreInv' /\ TimeInv'
    BY <2>1 DEF DiskInv, StoreInv, TimeInv, StoreIn
  <2>3. PromiseInv'
    BY <2>1 DEF DiskInv, PromiseInv, StoreIn, Disk, Kept
  <2> QED  BY <2>2, <2>3 DEF DiskInv
<1> QED  BY <1>1, <1>2, <1>3, <1>4

\* The steps of store_locked, that fail and that do not.
LEMMA DiskStores ==
    ASSUME DiskInv, TypeOK', StoreStep
    PROVE  DiskInv'
<1> USE DEF diskVars, memVars, promiseVars, editVars
<1> DEFINE At(p) == store # Idle /\ store.at = p
           Goes(p) == store' # Idle /\ store'.at = p
<1>1. /\ TypeOK
      /\ \A p, q \in Places : StoreAt(p) /\ GoTo(q) => At(p) /\ Goes(q)
  BY StoreIs DEF StoreAt, GoTo, DiskInv
<1> HIDE DEF At, Goes
<1>2. CASE OpenTemp
  <2>1. At("open") /\ Goes("write") /\ tmp' # Absent
        /\ UNCHANGED <<file, mem, cached, owed, promised, unseen>>
    BY <1>1, <1>2, FilesDiffer DEF OpenTemp, Places
  <2>2. StoreInv' /\ TimeInv'
    BY <2>1 DEF DiskInv, StoreInv, TimeInv, StoreIn, At, Goes, Places
  <2>3. ReliableTimes => file # Absent
    BY <2>1 DEF DiskInv, TimeInv, StoreIn, At, Places
  <2>4. PromiseInv'
    BY <2>1, <2>3 DEF DiskInv, PromiseInv, StoreIn, Disk, Kept, At, Goes
  <2> QED  BY <2>2, <2>4 DEF DiskInv
<1>3. CASE WriteTemp
  <2>1. At("write") /\ Goes("rename") /\ tmp' # Absent /\ (WholeWrites => tmp' = mem)
        /\ UNCHANGED <<file, mem, cached, owed, promised, unseen>>
    BY <1>1, <1>3, FilesDiffer DEF WriteTemp, Places, WholeWrites, TypeOK
  <2>2. StoreInv' /\ TimeInv'
    BY <2>1 DEF DiskInv, StoreInv, TimeInv, StoreIn, At, Goes, Places
  <2>3. ReliableTimes => file # Absent
    BY <2>1 DEF DiskInv, TimeInv, StoreIn, At, Places
  <2>4. PromiseInv'
    BY <2>1, <2>3 DEF DiskInv, PromiseInv, StoreIn, Disk, Kept, At, Goes
  <2> QED  BY <2>2, <2>4 DEF DiskInv
<1>4. CASE RenameFails
  <2>1. At("rename") /\ Goes("remove")
        /\ UNCHANGED <<file, tmp, mem, cached, owed, promised, unseen>>
    BY <1>1, <1>4 DEF RenameFails, Places
  <2>2. StoreInv' /\ TimeInv'
    BY <2>1 DEF DiskInv, StoreInv, TimeInv, StoreIn, At, Goes, Places
  <2>3. PromiseInv'
    BY <2>1 DEF DiskInv, PromiseInv, StoreIn, Disk, Kept, At, Goes
  <2> QED  BY <2>2, <2>3 DEF DiskInv
<1>5. CASE RemoveFile
  <2>1. /\ At("remove") /\ Goes("again")
        /\ UNCHANGED <<tmp, mem, owed, promised, unseen>>
        /\ \/ /\ file' = Absent
              /\ cached' = IF cached = "this" THEN "other" ELSE cached
           \/ UNCHANGED <<file, cached>>
    BY <1>1, <1>5 DEF RemoveFile, FileIs, Places
  <2>2. StoreInv'
    BY <2>1, FilesDiffer DEF DiskInv, StoreInv, StoreIn, At, Goes
  <2>3. TimeInv'
    BY <2>1 DEF DiskInv, TimeInv, StoreIn, At, Goes, Places
  <2>4. WholeWrites => tmp = mem /\ mem \in Books
    BY <2>1 DEF DiskInv, StoreInv, StoreIn, At, TypeOK
  <2>5. PromiseInv'
    BY <2>1, <2>4 DEF DiskInv, PromiseInv, StoreIn, Disk, Kept, At, Goes
  <2> QED  BY <2>2, <2>3, <2>5 DEF DiskInv
<1>6. CASE Install("rename") \/ Install("again")
  <2>1. /\ At("rename") \/ At("again")
        /\ Goes("stamp")
        /\ file' = tmp /\ tmp' = Absent
        /\ cached' = IF cached = "this" THEN "other" ELSE cached
        /\ UNCHANGED <<mem, owed, promised, unseen>>
    BY <1>1, <1>6 DEF Install, FileIs, Places
  <2>2. WholeWrites => tmp = mem /\ mem \in Books
    BY <2>1 DEF DiskInv, StoreInv, StoreIn, At, TypeOK
  <2>3. StoreInv'
    BY <2>1, <2>2, FilesDiffer DEF StoreInv, StoreIn, Goes, WholeWrites
  <2>4. file' # Absent
    BY <2>1 DEF DiskInv, StoreInv, StoreIn, At
  <2>5. TimeInv'
    BY <2>1, <2>4 DEF DiskInv, TimeInv, StoreIn, At, Goes, Places, ReliableTimes
  <2>6. PromiseInv'
    <3> SUFFICES ASSUME WholeWrites, ReliableTimes  PROVE PromiseInv'
      BY DEF PromiseInv, ReliableTimes, WholeWrites
    <3>1. file' = mem /\ \A p \in promised \cup owed : Kept(mem, p)
      BY <2>1, <2>2 DEF DiskInv, PromiseInv, At
    <3> QED  BY <2>1, <2>4, <3>1 DEF PromiseInv, StoreIn, Disk, Kept
  <2> QED  BY <2>3, <2>5, <2>6 DEF DiskInv
<1>7. CASE Stamp
  <2>1. /\ At("stamp") /\ store' = Idle
        /\ cached' \in Times
        /\ promised' = promised \cup owed /\ owed' = {}
        /\ UNCHANGED <<file, tmp, mem, unseen>>
    BY <1>7 DEF Stamp, StoreAt, At
  <2>2. StoreInv'
    BY <2>1 DEF DiskInv, StoreInv, StoreIn
  <2>3. ReliableTimes => file # Absent /\ cached' = "this" /\ ~unseen
    BY <2>1 DEF DiskInv, TimeInv, StoreIn, At, Places, Times, ReliableTimes
  <2>4. TimeInv'
    BY <2>1, <2>3 DEF TimeInv, StoreIn, ReliableTimes
  <2>5. PromiseInv'
    BY <2>1, <2>3 DEF DiskInv, PromiseInv, StoreIn, Disk, Kept, At, WholeWrites, ReliableTimes
  <2> QED  BY <2>2, <2>4, <2>5 DEF DiskInv
<1>8. CASE OpenFails \/ RenameAgainFails
  <2>1. /\ At("open") \/ At("again")
        /\ store' = Idle /\ owed' = {}
        /\ UNCHANGED <<file, tmp, mem, cached, promised, unseen>>
    BY <1>8 DEF OpenFails, RenameAgainFails, StoreFails, StoreAt, At
  <2>2. StoreInv' /\ TimeInv'
    BY <2>1 DEF DiskInv, StoreInv, TimeInv, StoreIn, At
  <2>3. PromiseInv'
    BY <2>1 DEF DiskInv, PromiseInv, StoreIn, Disk, Kept
  <2> QED  BY <2>2, <2>3 DEF DiskInv
<1> QED
  BY <1>2, <1>3, <1>4, <1>5, <1>6, <1>7, <1>8 DEF StoreStep, Rename, RenameAgain

\* The server starts with an operator's file and nothing in memory.
LEMMA DiskInit == Init => DiskInv /\ NicknamesAreUnique
<1> SUFFICES ASSUME Init  PROVE DiskInv /\ NicknamesAreUnique
  OBVIOUS
<1>1. file \in Books /\ Distinct(file) /\ file # Absent /\ file # Torn
  BY SeedsAreSound, FilesDiffer DEF Init
<1>2. TypeOK
  BY <1>1, EmptyBookIsEmpty DEF Init, TypeOK, Works, Idle, Storing
<1>3. StoreInv /\ TimeInv /\ PromiseInv
  BY <1>1 DEF Init, StoreInv, TimeInv, PromiseInv, StoreIn
<1>4. NicknamesAreUnique
  BY <1>1, EmptyBookIsDistinct DEF Init, NicknamesAreUnique
<1> QED  BY <1>2, <1>3, <1>4 DEF DiskInv

\* Every step keeps the invariant.
LEMMA DiskStep ==
    DiskInv /\ NicknamesAreUnique /\ [Next]_vars => (DiskInv /\ NicknamesAreUnique)'
<1> SUFFICES ASSUME DiskInv, NicknamesAreUnique, [Next]_vars
             PROVE  (DiskInv /\ NicknamesAreUnique)'
  OBVIOUS
<1>1. TypeOK /\ TypeOK' /\ NicknamesAreUnique'
  BY TypeStep, UniqueStep DEF DiskInv
<1>2. DiskInv'
  BY <1>1, Kinds, DiskCalls, DiskChanges, DiskOthers, DiskStores
<1> QED  BY <1>1, <1>2

\* The invariant the theorems follow from.
LEMMA DiskAlways == Spec => [](DiskInv /\ NicknamesAreUnique)
BY DiskInit, DiskStep, PTL DEF Spec
-----------------------------------------------------------------------------
(* The atomic store *)

\* Where it is implemented.
Whole == WholeWrites /\ ReliableTimes

\* What the disk and the time say of the book that is saved.
LEMMA BookFacts ==
    ASSUME DiskInv, Whole
    PROVE  /\ TypeOK /\ Disk \in Books
           /\ file # Torn
           /\ store = Idle => owed = {}
           /\ StoreIn({"rename", "remove", "again"}) => tmp = mem
           /\ StoreIn(Places \ {"again"}) => file # Absent
           /\ cached = "this" => file # Absent
           /\ \A p \in promised : Kept(Disk, p)
<1>1. TypeOK /\ StoreInv /\ TimeInv /\ PromiseInv /\ WholeWrites /\ ReliableTimes
  BY DEF DiskInv, Whole
<1>2. /\ file # Torn
      /\ store = Idle => owed = {}
      /\ StoreIn({"rename", "remove", "again"}) => tmp = mem
  BY <1>1 DEF StoreInv
<1>3. /\ StoreIn(Places \ {"again"}) => file # Absent
      /\ cached = "this" => file # Absent
  BY <1>1 DEF TimeInv
<1>4. /\ file = Absent => tmp \in Books
      /\ \A p \in promised : Kept(Disk, p)
  BY <1>1 DEF PromiseInv
<1>5. Disk \in Books
  BY <1>1, <1>2, <1>4 DEF Disk, TypeOK
<1> QED  BY <1>1, <1>2, <1>3, <1>4, <1>5

\* A call leaves the book alone when the time is the cached one, recalls it
\* when it is not, and forgets it when there is no file.
LEMMA BookCalls ==
    ASSUME DiskInv, Whole, Calls
    PROVE  Book!BookNext \/ UNCHANGED Book!bookVars
<1>1. PICK l \in Loads : CallFrom(l) /\ UNCHANGED promiseVars
  BY DEF Calls
<1>2. /\ store = Idle /\ store' = Idle /\ owed = {} /\ owed' = {}
      /\ UNCHANGED <<file, tmp, promised>>
      /\ cached' = l.time /\ mem' = l.book
  BY <1>1, BookFacts DEF CallFrom, Loaded, Free, diskVars, promiseVars
<1>3. Disk' = Disk
  BY <1>2 DEF Disk
<1>4. CASE file = Absent
  <2>1. mem' = EmptyBook /\ Phase' = "cold"
    BY <1>2, <1>4, LoadsWithTimes DEF Phase, Free, Whole
  <2>2. Book!Forget
    BY <1>2, <1>3, <2>1 DEF Book!Forget
  <2> QED  BY <2>2 DEF Book!BookNext
<1>5. CASE file # Absent /\ cached = "this"
  <2>1. mem' = mem /\ Phase' = Phase
    BY <1>2, <1>5, BookFacts, LoadsAre, LoadsWithTimes DEF Phase, Free, Whole
  <2> QED  BY <1>2, <1>3, <2>1 DEF Book!bookVars
<1>6. CASE file # Absent /\ cached # "this"
  <2>1. mem' = file /\ Disk = file /\ Phase = "cold" /\ Phase' = "warm"
    BY <1>2, <1>6, BookFacts, LoadsAre, LoadsWithTimes DEF Phase, Free, Disk, Whole
  <2>2. Book!Recall
    BY <1>2, <1>3, <2>1 DEF Book!Recall
  <2> QED  BY <2>2 DEF Book!BookNext
<1> QED  BY <1>4, <1>5, <1>6

\* A change is made to the file's book or to the one in memory that is up
\* with it or ahead of it.
LEMMA BookAlters ==
    ASSUME DiskInv, Whole,
           NEW s \in Sessions, NEW a, NEW record \in Fields, NEW l \in Loads,
           ChangeFrom(s, a, record, l),
           Book!Permitted(l.book, a, record),
           \A p \in owed' : p[1] = a /\ Book!Holds(record, p[2]),
           promised' = {p \in promised : p[1] = a => Book!Holds(record, p[2])}
    PROVE  Book!BookNext
<1>1. /\ store = Idle /\ store' = [at |-> "open", session |-> s]
      /\ UNCHANGED <<file, tmp>>
      /\ a \in DOMAIN l.book /\ mem' = [l.book EXCEPT ![a] = record]
  BY DEF ChangeFrom, Loaded, Free, diskVars
<1>2. file # Absent /\ l.time = "this"
  BY <1>1, LoadsWithTimes, EmptyBookIsEmpty DEF Whole
<1>3. l.book = IF cached = "this" THEN mem ELSE file
  BY <1>2, BookFacts, LoadsAre
<1>4. Disk = file /\ Disk' = Disk
  BY <1>1, <1>2 DEF Disk
<1>5. store' # Idle /\ store'.at = "open"
  BY <1>1 DEF Idle
<1>6. /\ Phase = IF cached = "this" THEN "warm" ELSE "cold"
      /\ Phase' = "storing"
  BY <1>1, <1>5 DEF Phase, Free
<1>7. l.book = IF Phase = "warm" THEN mem ELSE Disk
  BY <1>3, <1>4, <1>6
<1>8. Book!Alter(a, record)
  BY <1>1, <1>4, <1>6, <1>7 DEF Book!Alter
<1> QED  BY <1>1, <1>7, <1>8 DEF Book!BookNext

\* With reliable times, what is promised is in the book a change begins from.
LEMMA LoadsKeep ==
    ASSUME DiskInv, Whole, NEW l \in Loads, Free, DOMAIN l.book # {}
    PROVE  \A p \in promised : Kept(l.book, p)
<1>1. file # Absent
  BY LoadsWithTimes, EmptyBookIsEmpty DEF Whole
<1>2. cached # "this" => l.book = Disk
  BY <1>1, BookFacts, LoadsAre, LoadsWithTimes DEF Disk, Whole
<1>3. cached = "this" => l.book = mem
  BY <1>1, BookFacts, LoadsAre, LoadsWithTimes DEF Whole
<1>4. cached = "this" => \A p \in promised : Kept(mem, p)
  BY DEF DiskInv, PromiseInv, Whole
<1> QED  BY <1>2, <1>3, <1>4, BookFacts

\* resolve_character_name gives a name to an account that has none, and the
\* name to no other.
LEMMA BookGivesName ==
    ASSUME DiskInv, Whole,
           NEW s \in Sessions, NEW n \in Names, NEW l \in Loads, GiveName(s, n, l)
    PROVE  Book!BookNext
<1> DEFINE a == login[s]
           r == [l.book[a] EXCEPT !.nickname = n]
<1>1. /\ TypeOK /\ Free /\ l.book \in Books /\ a \in DOMAIN l.book
      /\ l.book[a] \in Fields
  BY LoadsAre, InBook DEF GiveName, DiskInv, Loaded
<1>2. /\ r \in Fields /\ r.nickname = n /\ r.owned = l.book[a].owned
  BY <1>1, NamedIs
<1>3. /\ l.book[a].nickname = NoName /\ ~NameTaken(l.book, a, n)
      /\ owed' = {<<a, n>>} /\ promised' = promised
      /\ ChangeFrom(s, a, r, l)
  BY DEF GiveName, Change, ChangeFrom
<1>4. Book!Permitted(l.book, a, r)
  BY <1>2, <1>3 DEF Book!Permitted, NameTaken
<1>5. ASSUME NEW p \in promised, p[1] = a  PROVE Book!Holds(r, p[2])
  <2>1. p[2] \in l.book[a].owned \cup {NoName}
    BY <1>1, <1>3, <1>5, LoadsKeep DEF Kept
  <2>2. p[2] # NoName
    BY <1>1, <1>5, NothingIsNot DEF TypeOK
  <2> QED  BY <1>2, <2>1, <2>2 DEF Book!Holds
<1>6. \A p \in owed' : p[1] = a /\ Book!Holds(r, p[2])
  BY <1>2, <1>3 DEF Book!Holds
<1>7. promised' = {p \in promised : p[1] = a => Book!Holds(r, p[2])}
  BY <1>3, <1>5
<1> HIDE DEF r
<1> QED  BY <1>2, <1>3, <1>4, <1>6, <1>7, BookAlters

\* set_* leaves the nickname and takes back what the record no longer has.
LEMMA BookTakesWrites ==
    ASSUME DiskInv, Whole, NicknamesAreUnique,
           NEW s \in Sessions, NEW l \in Loads, Write(s, l)
    PROVE  Book!BookNext
<1> DEFINE a == login[s]
           r == Written(work[s], l.book[a])
<1>1. /\ TypeOK /\ Free /\ l.book \in Books /\ a \in DOMAIN l.book
      /\ l.book[a] \in Fields
      /\ work[s] \in [at : {"copied"}, task : Tasks, good : Goods, copy : Fields]
  BY LoadsAre, InBook, WorksAre DEF Write, DiskInv, Loaded
<1>2. r \in Fields /\ r.nickname = l.book[a].nickname
  BY <1>1, WrittenIs
<1>3. /\ owed' = IF work[s].task \in {"buy", "buy_skill"} THEN {<<a, work[s].good>>} ELSE {}
      /\ promised' = {p \in promised : p[1] = a => p[2] \in Names \cup r.owned}
      /\ ChangeFrom(s, a, r, l)
  BY DEF Write, Change, ChangeFrom
<1>4. Book!Permitted(l.book, a, r)
  <2>1. Distinct(l.book)
    BY <1>1, LoadsDistinct
  <2> QED  BY <1>1, <1>2, <2>1 DEF Book!Permitted, Distinct
<1>5. ASSUME NEW p \in promised, p[1] = a
      PROVE  p[2] \in Names \cup r.owned <=> Book!Holds(r, p[2])
  <2>1. p[2] \in l.book[a].owned \cup {r.nickname}
    BY <1>1, <1>2, <1>5, LoadsKeep DEF Kept
  <2>2. p[2] # NoName /\ l.book[a].owned \subseteq Goods
    BY <1>1, <1>5, NothingIsNot DEF TypeOK, Fields
  <2>3. r.nickname \in Names \cup {NoName}
    BY <1>2 DEF Fields
  <2> QED  BY <2>1, <2>2, <2>3, NothingIsNot DEF Book!Holds
<1>6. \A p \in owed' : p[1] = a /\ Book!Holds(r, p[2])
  <2>1. work[s].task \in {"buy", "buy_skill"} => work[s].good \in r.owned
    <3>1. l.book[a] \in [nickname : Names \cup {NoName}, paid : SUBSET Goods,
                         owned : SUBSET Goods]
      BY <1>1 DEF Fields
    <3> QED  BY <3>1 DEF Written
  <2> HIDE DEF r
  <2> QED  BY <1>3, <2>1 DEF Book!Holds
<1> HIDE DEF r
<1>7. promised' = {p \in promised : p[1] = a => Book!Holds(r, p[2])}
  BY <1>3, <1>5
<1> QED  BY <1>2, <1>3, <1>4, <1>6, <1>7, BookAlters

\* The steps of store_locked save the book once: when the new file is in
\* place, or when the old one is gone and the ".tmp" is what is left.
LEMMA BookStores ==
    ASSUME DiskInv, Whole, StoreStep
    PROVE  Book!BookNext \/ UNCHANGED Book!bookVars
<1> USE BookFacts
<1> DEFINE At(p) == store # Idle /\ store.at = p
           Goes(p) == store' # Idle /\ store'.at = p
<1>1. \A p, q \in Places : StoreAt(p) /\ GoTo(q) => At(p) /\ Goes(q)
  BY StoreIs DEF StoreAt, GoTo
<1> HIDE DEF At, Goes
<1>2. CASE OpenTemp \/ WriteTemp \/ RenameFails
  <2>1. /\ At("open") \/ At("write") \/ At("rename")
        /\ Goes("write") \/ Goes("rename") \/ Goes("remove")
        /\ UNCHANGED <<file, mem, cached, owed, promised>>
    BY <1>1, <1>2 DEF OpenTemp, WriteTemp, RenameFails, Places, diskVars, memVars,
      promiseVars
  <2>2. file # Absent
    BY <2>1 DEF At, StoreIn, Places
  <2>3. Disk' = Disk /\ Phase' = Phase
    BY <2>1, <2>2 DEF Disk, Phase, Free, At, Goes
  <2> QED  BY <2>1, <2>3 DEF Book!bookVars
<1>3. CASE RemoveFile
  <2>1. /\ At("remove") /\ Goes("again")
        /\ UNCHANGED <<tmp, mem, owed, promised>>
        /\ file' = Absent \/ UNCHANGED <<file, cached>>
    BY <1>1, <1>3 DEF RemoveFile, FileIs, Places, promiseVars
  <2>2. tmp = mem /\ Phase = "storing" /\ Phase' = "storing"
    BY <2>1 DEF At, Goes, StoreIn, Phase, Free
  <2>3. CASE file' = Absent
    <3>1. Disk' = mem
      BY <2>1, <2>2, <2>3 DEF Disk
    <3>2. Book!Save
      BY <2>1, <2>2, <3>1 DEF Book!Save
    <3> QED  BY <3>2 DEF Book!BookNext
  <2>4. CASE file' = file
    BY <2>1, <2>2, <2>4 DEF Disk, Book!bookVars
  <2> QED  BY <2>1, <2>3, <2>4
<1>4. CASE Install("rename") \/ Install("again")
  <2>1. /\ At("rename") \/ At("again")
        /\ Goes("stamp")
        /\ file' = tmp
        /\ UNCHANGED <<mem, owed, promised>>
    BY <1>1, <1>4 DEF Install, FileIs, Places, promiseVars
  <2>2. tmp = mem /\ Phase = "storing" /\ Phase' = "stored"
    BY <2>1 DEF At, Goes, StoreIn, Phase, Free
  <2>3. Disk' = mem
    BY <2>1, <2>2, FilesDiffer DEF Disk, TypeOK
  <2>4. Book!Save
    BY <2>1, <2>2, <2>3 DEF Book!Save
  <2> QED  BY <2>4 DEF Book!BookNext
<1>5. CASE Stamp
  <2>1. /\ At("stamp") /\ store' = Idle
        /\ cached' \in Times
        /\ promised' = promised \cup owed /\ owed' = {}
        /\ UNCHANGED <<file, tmp, mem>>
    BY <1>5 DEF Stamp, StoreAt, At, diskVars
  <2>2. file # Absent
    BY <2>1 DEF At, StoreIn, Places
  <2>3. cached' = "this"
    BY <2>1, <2>2 DEF Times, Whole, ReliableTimes
  <2>4. Phase = "stored" /\ Phase' = "warm" /\ Disk' = Disk
    BY <2>1, <2>3 DEF At, Phase, Free, Disk
  <2>5. Book!Tell
    BY <2>1, <2>4 DEF Book!Tell
  <2> QED  BY <2>5 DEF Book!BookNext
<1>6. CASE OpenFails \/ RenameAgainFails
  <2>1. /\ At("open") \/ At("again")
        /\ store' = Idle /\ owed' = {}
        /\ UNCHANGED <<file, tmp, mem, promised>>
    BY <1>6 DEF OpenFails, RenameAgainFails, StoreFails, StoreAt, At, diskVars, memVars
  <2>2. Phase = "storing" /\ Phase' \in {"warm", "cold"} /\ Disk' = Disk
    BY <2>1 DEF At, Phase, Free, Disk
  <2>3. Book!Fail
    BY <2>1, <2>2 DEF Book!Fail
  <2> QED  BY <2>3 DEF Book!BookNext
<1> QED  BY <1>2, <1>3, <1>4, <1>5, <1>6 DEF StoreStep, Rename, RenameAgain

\* An operator replaces the book, the end of the process forgets it, and
\* nothing else but a call touches it.
LEMMA BookOthers ==
    ASSUME DiskInv, Whole,
           Throws \/ Elsewhere \/ (\E seed \in Seeds : Edit(seed)) \/ Crash
    PROVE  Book!BookNext \/ UNCHANGED Book!bookVars
<1>1. ~Throws
  BY BookFacts DEF Throws
<1>2. CASE Elsewhere
  BY <1>2 DEF Elsewhere, diskVars, memVars, promiseVars, Book!bookVars, Disk, Phase, Free
<1>3. ASSUME NEW seed \in Seeds, Edit(seed)  PROVE Book!BookNext
  <2>1. /\ file' = seed /\ UNCHANGED <<tmp, mem, store>>
        /\ cached' = IF cached = "this" THEN "other" ELSE cached
        /\ promised' = {} /\ owed' = {}
    BY <1>3 DEF Edit, FileIs
  <2>2. Disk' = seed
    BY <2>1, SeedsAreSound, FilesDiffer DEF Disk
  <2>3. Phase' = IF Phase = "warm" THEN "cold" ELSE Phase
    BY <2>1 DEF Phase, Free
  <2>4. Book!Replace(seed)
    BY <2>1, <2>2, <2>3 DEF Book!Replace
  <2> QED  BY <2>4 DEF Book!BookNext
<1>4. CASE Crash
  <2>1. /\ UNCHANGED <<file, tmp, promised>>
        /\ mem' = EmptyBook /\ cached' = "never" /\ store' = Idle /\ owed' = {}
    BY <1>4 DEF Crash, diskVars
  <2>2. Phase' = "cold" /\ Disk' = Disk
    BY <2>1 DEF Phase, Free, Disk
  <2>3. Book!Forget
    BY <2>1, <2>2 DEF Book!Forget
  <2> QED  BY <2>3 DEF Book!BookNext
<1> QED  BY <1>1, <1>2, <1>3, <1>4

\* Every step is a step of the atomic store, or none.
LEMMA BookStep ==
    ASSUME DiskInv, NicknamesAreUnique, Whole, [Next]_vars
    PROVE  [Book!BookNext]_(Book!bookVars)
BY ActionKinds, BookCalls, BookGivesName, BookTakesWrites, BookStores, BookOthers

\* The server starts as the atomic store does.
LEMMA BookStart == Init => Book!BookInit
<1> SUFFICES ASSUME Init  PROVE Book!BookInit
  OBVIOUS
<1>1. file # Absent
  BY SeedsAreSound, FilesDiffer DEF Init
<1>2. Disk = file /\ Phase = "cold"
  BY <1>1 DEF Init, Disk, Phase, Free
<1> QED  BY <1>2 DEF Init, Book!BookInit
-----------------------------------------------------------------------------
(* Theorems *)

\* Files, memory, handlers and promises are of the declared kinds, and no
\* handler works on an account without a login.
THEOREM AccountsAreTyped == Spec => []TypeOK
<1>1. DiskInv => TypeOK
  BY DEF DiskInv
<1> QED  BY <1>1, DiskAlways, PTL

\* No book the server holds or writes gives two accounts one nickname,
\* whichever of its file operations fail.
THEOREM NamesStayUnique == Spec => []NicknamesAreUnique
BY DiskAlways, PTL

\* However a store fails and wherever the process ends in it, a whole book
\* can be read back, unless a write is cut short or times cannot be read.
THEOREM BooksSurvive == Spec => []ABookIsOnDisk
<1>1. DiskInv => ABookIsOnDisk
  BY FilesDiffer DEF DiskInv, StoreInv, PromiseInv, ABookIsOnDisk, Disk
<1> QED  BY <1>1, DiskAlways, PTL

\* What a client was told after a store is on the disk until it gives it
\* away, a write from an older copy of the same account or an operator's file.
THEOREM PromisesSurvive == Spec => []PromisesAreKept
<1>1. DiskInv => PromisesAreKept
  BY DEF DiskInv, PromiseInv, PromisesAreKept
<1> QED  BY <1>1, DiskAlways, PTL

\* An operator's file that came while no store ran is read before the next
\* store replaces it.
THEOREM EditsAreRead == Spec => []EditsAreSeen
<1>1. DiskInv => EditsAreSeen
  BY DEF DiskInv, TimeInv, EditsAreSeen, Free
<1> QED  BY <1>1, DiskAlways, PTL

\* Where writes are whole and times can be read, the database is an atomic
\* store of the accounts: however the file system fails, whoever replaces the
\* file and wherever the process ends, each change is saved as a whole or not
\* at all, from a memory that was up with the file, before its client is told.
THEOREM AccountsAreAtomic == WholeWrites /\ ReliableTimes => (Spec => ImplementsBook)
<1>1. WholeWrites /\ ReliableTimes <=> Whole
  BY DEF Whole
<1>2. Whole => Whole'
  BY DEF Whole, WholeWrites, ReliableTimes
<1>3. DiskInv /\ NicknamesAreUnique /\ Whole /\ [Next]_vars
          => [Book!BookNext]_(Book!bookVars)
  BY BookStep
<1> QED
  BY <1>1, <1>2, <1>3, BookStart, DiskAlways, PTL DEF Spec, ImplementsBook, Book!BookSpec
=============================================================================
