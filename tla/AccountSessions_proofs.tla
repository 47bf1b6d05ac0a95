----------------------- MODULE AccountSessions_proofs -----------------------
(***************************************************************************)
(* Proofs about what the sessions of AccountStore keep of the accounts     *)
(* between two calls of the database: nicknames and copies of records.     *)
(***************************************************************************)
EXTENDS AccountStore_proofs

-----------------------------------------------------------------------------
(* The book the next call will use *)

\* As long as no operator's file comes, the cached time is that of the file
\* whenever a call may begin, or there is no file.
Steady ==
    /\ store = Idle \/ StoreIn({"again"}) => cached = "this" \/ file = Absent
    /\ StoreIn({"open", "write", "rename", "remove"}) => cached = "this"

\* The book in memory is the one the next call or the running store uses.
Current == cached = "this" \/ store # Idle

\* A process that has loaded nothing has served nobody.
Fresh ==
    /\ store = Idle
    /\ \A s \in Sessions : work[s] = Idle /\ login[s] = NoAccount /\ nick[s] = NoName
FreshInv == cached = "never" => Fresh

\* A step of the threads, which are not the operator nor the end.
ThreadStep == Calls \/ Changes \/ Throws \/ Elsewhere \/ StoreStep

\* Without a "stat" fault there is a time exactly when there is a file.
LEMMA ReliableTimesAre ==
    ASSUME ReliableTimes
    PROVE  Times = IF file = Absent THEN {"none"} ELSE {"this"}
BY DEF Times, ReliableTimes

\* A call uses the book in memory, the first book the process loads, or finds
\* no file.
LEMMA SteadyLoads ==
    ASSUME DiskInv, ReliableTimes, Steady \/ cached = "never", store = Idle, NEW l \in Loads
    PROVE  \/ l.time = "this" /\ l.book = mem /\ cached = "this"
           \/ l.time = "this" /\ l.book = file /\ cached = "never"
           \/ l.time = "none" /\ l.book = EmptyBook
<1>1. TypeOK
  BY DEF DiskInv
<1> QED  BY <1>1, LoadsAre, LoadsWithTimes, FilesDiffer DEF Steady

\* After a call, with or without a change, the cached time is that of the
\* file, or there is none.
LEMMA CallsSteady ==
    ASSUME DiskInv, ReliableTimes, Calls \/ Changes
    PROVE  Steady' /\ cached' # "never"
<1> USE DEF diskVars
<1>1. CASE Calls
  <2>1. PICK l \in Loads : CallFrom(l)
    BY <1>1 DEF Calls
  <2>2. cached' = l.time /\ store' = Idle /\ file' = file
    BY <2>1 DEF CallFrom, Loaded, Free
  <2>3. l.time = "this" \/ (l.time = "none" /\ file = Absent)
    BY LoadsWithTimes
  <2> QED  BY <2>2, <2>3 DEF Steady, StoreIn
<1>2. CASE Changes
  <2>1. PICK s \in Sessions, l \in Loads, r \in Fields : ChangeFrom(s, login[s], r, l)
    BY <1>2 DEF Changes
  <2>2. cached' = l.time /\ file' = file /\ store' = [at |-> "open", session |-> s]
    BY <2>1 DEF ChangeFrom, Loaded
  <2>3. l.book # EmptyBook
    BY <2>1, EmptyBookIsEmpty DEF ChangeFrom
  <2>4. cached' = "this"
    BY <2>2, <2>3, LoadsWithTimes
  <2>5. store' # Idle /\ store'.at = "open"
    BY <2>2 DEF Idle
  <2> QED  BY <2>4, <2>5 DEF Steady, StoreIn
<1> QED  BY <1>1, <1>2

\* No step of the threads leaves the steady states.
LEMMA SteadyStep ==
    ASSUME DiskInv, ReliableTimes, Steady, ThreadStep
    PROVE  Steady'
<1> USE DEF diskVars, memVars
<1>1. CASE Calls \/ Changes
  BY <1>1, CallsSteady
<1>2. CASE Throws
  <2>1. UNCHANGED <<file, cached, store>>
    BY <1>2 DEF Throws
  <2> QED  BY <2>1 DEF Steady, StoreIn
<1>3. CASE Elsewhere
  <2>1. UNCHANGED <<file, cached, store>>
    BY <1>3 DEF Elsewhere
  <2> QED  BY <2>1 DEF Steady, StoreIn
<1>4. CASE StoreStep
  <2>1. store # Idle /\ TypeOK
    BY <1>4 DEF StoreStep, OpenTemp, OpenFails, WriteTemp, Rename, RenameFails, RemoveFile,
      RenameAgain, RenameAgainFails, Stamp, Install, StoreAt, DiskInv
  <2>2. \A p, q \in Places : StoreAt(p) /\ GoTo(q) =>
            store.at = p /\ store' # Idle /\ store'.at = q
    BY <2>1, StoreIs DEF StoreAt, GoTo
  <2>3. CASE OpenTemp \/ WriteTemp \/ RenameFails
    <3>1. /\ UNCHANGED <<file, cached>>
          /\ store.at \in {"open", "write", "rename"}
          /\ store' # Idle /\ store'.at \in {"write", "rename", "remove"}
      BY <2>2, <2>3 DEF OpenTemp, WriteTemp, RenameFails, Places
    <3> QED  BY <2>1, <3>1 DEF Steady, StoreIn
  <2>4. CASE RemoveFile
    <3>1. /\ store.at = "remove" /\ store' # Idle /\ store'.at = "again"
          /\ file' = Absent \/ UNCHANGED <<file, cached>>
      BY <2>2, <2>4 DEF RemoveFile, FileIs, Places
    <3> QED  BY <2>1, <3>1 DEF Steady, StoreIn
  <2>5. CASE Install("rename") \/ Install("again")
    <3>1. store' # Idle /\ store'.at = "stamp"
      BY <2>2, <2>5 DEF Install, Places
    <3> QED  BY <3>1 DEF Steady, StoreIn
  <2>6. CASE Stamp
    <3>1. store' = Idle /\ cached' \in Times /\ file' = file /\ store.at = "stamp"
      BY <2>6 DEF Stamp, StoreAt
    <3>2. file # Absent
      BY <2>1, <3>1 DEF DiskInv, TimeInv, StoreIn, Places
    <3> QED  BY <3>1, <3>2, ReliableTimesAre DEF Steady, StoreIn
  <2>7. CASE OpenFails \/ RenameAgainFails
    <3>1. store' = Idle /\ UNCHANGED <<file, cached>> /\ store.at \in {"open", "again"}
      BY <2>7 DEF OpenFails, RenameAgainFails, StoreFails, StoreAt
    <3> QED  BY <2>1, <3>1 DEF Steady, StoreIn
  <2> QED
    BY <1>4, <2>3, <2>4, <2>5, <2>6, <2>7 DEF StoreStep, Rename, RenameAgain
<1> QED  BY <1>1, <1>2, <1>3, <1>4 DEF ThreadStep

\* Nor does one that is the first to load.
LEMMA NeverStep ==
    ASSUME DiskInv, ReliableTimes, FreshInv, cached = "never", ThreadStep
    PROVE  Steady' \/ cached' = "never"
<1>1. store = Idle
  BY DEF FreshInv, Fresh
<1>2. ~StoreStep
  BY <1>1 DEF StoreStep, OpenTemp, OpenFails, WriteTemp, Rename, RenameFails, RemoveFile,
    RenameAgain, RenameAgainFails, Stamp, Install, StoreAt
<1>3. Throws \/ Elsewhere => cached' = "never"
  BY DEF Throws, Elsewhere, memVars
<1> QED  BY <1>2, <1>3, CallsSteady DEF ThreadStep
-----------------------------------------------------------------------------
(* A process that has loaded nothing *)

\* Nobody has a login, a nickname or a copy before the first load.
LEMMA FreshStep == TypeOK /\ FreshInv /\ [Next]_vars => FreshInv'
<1> SUFFICES ASSUME TypeOK, FreshInv, [Next]_vars  PROVE FreshInv'
  OBVIOUS
<1> USE DEF diskVars, memVars, sessionVars
<1>1. \A l \in Loads : Loaded(l) => cached' # "never"
  BY LoadsAre DEF Loaded
<1>2. ASSUME NEW s \in Sessions, SessionStep(s)  PROVE FreshInv'
  <2>1. CASE LoadFails(s)
    BY <2>1 DEF LoadFails, FreshInv, Fresh, TypeOK
  <2>2. CASE Bind(s) \/ SetNickname(s)
    BY <2>2 DEF Bind, SetNickname, FreshInv, Fresh, Idle
  <2>3. CASE Leave(s)
    BY <2>3 DEF Leave, FreshInv, Fresh, TypeOK
  <2> QED
    BY <1>1, <1>2, <2>1, <2>2, <2>3
       DEF SessionStep, Login, FindName, GiveName, Copy, Write, WriteMisses, FreshInv
<1>3. ASSUME NEW l \in Loads, LookUp(l)  PROVE FreshInv'
  BY <1>1, <1>3 DEF LookUp, FreshInv
<1>4. CASE StoreStep
  BY <1>4 DEF FreshInv, Fresh, StoreStep, OpenTemp, OpenFails, WriteTemp, Rename,
    RenameFails, RemoveFile, RenameAgain, RenameAgainFails, Stamp, Install, FileIs,
    StoreFails, StoreAt, Times
<1>5. ASSUME NEW seed \in Seeds, Edit(seed)  PROVE FreshInv'
  BY <1>5 DEF Edit, FileIs, FreshInv, Fresh
<1>6. CASE Crash
  BY <1>6 DEF Crash, FreshInv, Fresh
<1>7. CASE UNCHANGED vars
  BY <1>7 DEF vars, FreshInv, Fresh
<1> QED  BY <1>2, <1>3, <1>4, <1>5, <1>6, <1>7 DEF Next
-----------------------------------------------------------------------------
(* Nicknames *)

\* Session s goes by the name n of account a, or is about to.
HasName(s, a, n) ==
    \/ login[s] = a /\ nick[s] = n
    \/ login[s] = a /\ work[s] = [at |-> "name", nickname |-> n]
    \/ work[s] = [at |-> "bind", account |-> a, nickname |-> n]

\* Who has a nickname has a login.
NickInv == \A s \in Sessions : nick[s] # NoName => login[s] \in Accounts

\* A book in use gives the account every name its sessions go by, and a name
\* is of one account even when the file has gone.
NamesInBook ==
    \A s \in Sessions, a \in Accounts, n \in Names :
        HasName(s, a, n) => a \in DOMAIN mem /\ mem[a].nickname = n
NamesOfOne ==
    \A s, t \in Sessions, a, b \in Accounts, n \in Names :
        HasName(s, a, n) /\ HasName(t, b, n) => a = b
NameInv ==
    ReliableTimes /\ ~edited =>
        /\ Steady \/ cached = "never"
        /\ Current => NamesInBook
        /\ NamesOfOne

\* Where a name comes from that the session did not have: a call that read it
\* in its book, or that wrote it.
NewName(a, n) ==
    /\ Calls \/ Changes
    /\ store = Idle
    /\ a \in DOMAIN mem' /\ mem'[a].nickname = n

\* A session goes by a name it had, or by a new one.
LEMMA ClaimStep ==
    ASSUME TypeOK, [Next]_vars,
           NEW s \in Sessions, NEW a \in Accounts, NEW n \in Names, HasName(s, a, n)'
    PROVE  HasName(s, a, n) \/ NewName(a, n)
<1> USE DEF diskVars, memVars, sessionVars, promiseVars
<1>1. n # NoName /\ a # NoAccount
  BY NothingIsNot
<1>2. ASSUME NEW t \in Sessions,
             \/ LoadFails(t)
             \/ Leave(t)
             \/ \E l \in Loads : Write(t, l) \/ WriteMisses(t, l)
             \/ \E l \in Loads, task \in Tasks, good \in Goods : Copy(t, task, good, l)
      PROVE  HasName(s, a, n)
  <2>1. CASE Leave(t)
    <3>1. /\ work' = work
          /\ login[s]' \in {login[s], NoAccount} /\ nick[s]' \in {nick[s], NoName}
      BY <2>1 DEF Leave, TypeOK
    <3> QED  BY <1>1, <3>1 DEF HasName
  <2>2. CASE ~Leave(t)
    <3>1. UNCHANGED <<login, nick>>
      BY <1>2, <2>2 DEF LoadFails, Write, WriteMisses, Copy
    <3>2. work[s]' = work[s] \/ work[s]' = Idle \/ work[s]'.at = "copied"
      <4>1. CASE LoadFails(t)
        BY <4>1 DEF LoadFails, TypeOK
      <4>2. CASE \E l \in Loads : Write(t, l) \/ WriteMisses(t, l)
        BY <4>2 DEF Write, WriteMisses, TypeOK
      <4>3. CASE \E l \in Loads, task \in Tasks, good \in Goods : Copy(t, task, good, l)
        BY <4>3 DEF Copy, TypeOK
      <4> QED  BY <1>2, <2>2, <4>1, <4>2, <4>3
    <3> QED  BY <3>1, <3>2 DEF HasName, Idle
  <2> QED  BY <2>1, <2>2
<1>3. ASSUME NEW t \in Sessions, Bind(t)  PROVE HasName(s, a, n)
  <2>1. work[t] \in [at : {"bind"}, account : Accounts, nickname : Names \cup {NoName}]
    BY <1>3, WorksAre DEF Bind
  <2>2. CASE s = t
    <3>1. login[s]' = work[s].account /\ nick[s]' = work[s].nickname /\ work[s]' = Idle
      BY <1>3, <2>2 DEF Bind, TypeOK
    <3>2. work[s].account = a /\ work[s].nickname = n
      BY <3>1 DEF HasName, Idle
    <3> QED  BY <2>1, <2>2, <3>2 DEF HasName
  <2>3. CASE s # t
    BY <1>3, <2>3 DEF Bind, TypeOK, HasName
  <2> QED  BY <2>2, <2>3
<1>4. ASSUME NEW t \in Sessions, SetNickname(t)  PROVE HasName(s, a, n)
  <2>1. work[t] \in [at : {"name"}, nickname : Names]
    BY <1>4, WorksAre DEF SetNickname
  <2>2. CASE s = t
    <3>1. login[s]' = login[s] /\ nick[s]' = work[s].nickname /\ work[s]' = Idle
      BY <1>4, <2>2 DEF SetNickname, TypeOK
    <3>2. login[s] = a /\ work[s].nickname = n
      BY <3>1 DEF HasName, Idle
    <3> QED  BY <2>1, <2>2, <3>2 DEF HasName
  <2>3. CASE s # t
    BY <1>4, <2>3 DEF SetNickname, TypeOK, HasName
  <2> QED  BY <2>2, <2>3
<1>5. ASSUME NEW t \in Sessions, NEW b \in Accounts, NEW l \in Loads, Login(t, b, l)
      PROVE  HasName(s, a, n) \/ NewName(a, n)
  <2>1. Calls /\ store = Idle
    BY <1>5 DEF Calls, CallFrom, Login, Loaded, Free
  <2>2. CASE work[s]' = work[s]
    BY <1>5, <2>2 DEF Login, HasName
  <2>3. CASE s = t
    <3>1. /\ work[s]' = [at |-> "bind", account |-> b, nickname |-> mem'[b].nickname]
          /\ login' = login /\ nick' = nick /\ b \in DOMAIN mem'
      BY <1>5, <2>3 DEF Login, TypeOK
    <3>2. HasName(s, a, n) \/ (b = a /\ mem'[b].nickname = n)
      BY <3>1 DEF HasName
    <3> QED  BY <2>1, <3>1, <3>2 DEF NewName
  <2> QED  BY <1>5, <2>2, <2>3 DEF Login, TypeOK
<1>6. ASSUME NEW t \in Sessions, NEW l \in Loads, FindName(t, l)
      PROVE  HasName(s, a, n) \/ NewName(a, n)
  <2>1. Calls /\ store = Idle
    BY <1>6 DEF Calls, CallFrom, FindName, Loaded, Free
  <2>2. CASE s # t
    BY <1>6, <2>2 DEF FindName, HasName, TypeOK
  <2>3. CASE s = t
    <3>1. /\ work[s]' = [at |-> "name", nickname |-> mem'[login[s]].nickname]
          /\ login' = login /\ nick' = nick /\ login[s] \in DOMAIN mem'
      BY <1>6, <2>3 DEF FindName, TypeOK
    <3>2. HasName(s, a, n) \/ (login[s] = a /\ mem'[a].nickname = n)
      BY <3>1 DEF HasName
    <3> QED  BY <2>1, <3>1, <3>2 DEF NewName
  <2> QED  BY <2>2, <2>3
<1>7. ASSUME NEW t \in Sessions, NEW m \in Names, NEW l \in Loads, GiveName(t, m, l)
      PROVE  HasName(s, a, n) \/ NewName(a, n)
  <2>1. Changes /\ store = Idle
    BY <1>7, GiveNameChanges DEF GiveName, Loaded, Free
  <2>2. CASE s # t
    BY <1>7, <2>2 DEF GiveName, HasName, TypeOK
  <2>3. CASE s = t
    <3>1. /\ work[s]' = [at |-> "name", nickname |-> m]
          /\ login' = login /\ nick' = nick
          /\ login[s] \in DOMAIN mem' /\ mem'[login[s]].nickname = m
      <4>1. /\ login[s] \in DOMAIN l.book /\ l.book \in Books
            /\ mem' = [l.book EXCEPT ![login[s]] = [@ EXCEPT !.nickname = m]]
        BY <1>7, <2>3, LoadsAre DEF GiveName, Change
      <4>2. l.book[login[s]] \in Fields
        BY <4>1, InBook
      <4>3. mem'[login[s]].nickname = m /\ login[s] \in DOMAIN mem'
        <5> DEFINE named == [l.book[login[s]] EXCEPT !.nickname = m]
        <5>1. named \in Fields /\ named.nickname = m
          BY <4>2, NamedIs
        <5>2. mem' = [l.book EXCEPT ![login[s]] = named]
          BY <4>1
        <5> HIDE DEF named
        <5> QED  BY <4>1, <5>1, <5>2, Replaced
      <4>4. /\ work' = [work EXCEPT ![s] = [at |-> "name", nickname |-> m]]
            /\ login' = login /\ nick' = nick
        BY <1>7, <2>3 DEF GiveName, sessionVars
      <4> QED  BY <4>3, <4>4 DEF TypeOK
    <3>2. HasName(s, a, n) \/ (login[s] = a /\ m = n)
      BY <3>1 DEF HasName
    <3> QED  BY <2>1, <3>1, <3>2 DEF NewName
  <2> QED  BY <2>2, <2>3
<1>8. CASE StoreStep
  <2>1. /\ login' = login /\ nick' = nick
        /\ work[s]' = work[s] \/ work[s]' = Idle
    BY <1>8 DEF StoreStep, OpenTemp, OpenFails, WriteTemp, Rename, RenameFails, RemoveFile,
      RenameAgain, RenameAgainFails, Stamp, Install, StoreFails, TypeOK
  <2> QED  BY <2>1 DEF HasName, Idle
<1>9. CASE (\E l \in Loads : LookUp(l)) \/ (\E seed \in Seeds : Edit(seed)) \/ UNCHANGED vars
  <2>1. UNCHANGED <<login, nick, work>>
    BY <1>9 DEF LookUp, Edit, vars
  <2> QED  BY <2>1 DEF HasName
<1>10. CASE Crash
  BY <1>1, <1>10 DEF Crash, HasName, Idle
<1> QED
  BY <1>2, <1>3, <1>4, <1>5, <1>6, <1>7, <1>8, <1>9, <1>10 DEF Next, SessionStep

\* Who has been served nothing has no name.
LEMMA FreshHasNoName ==
    ASSUME Fresh, NEW s \in Sessions, NEW a \in Accounts, NEW n \in Names
    PROVE  ~HasName(s, a, n)
<1>1. n # NoName /\ a # NoAccount
  BY NothingIsNot
<1> QED  BY <1>1 DEF Fresh, HasName, Idle

\* A call that found the account found a file.
LEMMA NewNameIsCurrent ==
    ASSUME DiskInv, ReliableTimes, NEW a \in Accounts, NEW n \in Names, NewName(a, n)
    PROVE  Current'
<1>1. mem' # EmptyBook
  BY EmptyBookIsEmpty DEF NewName
<1>2. CASE Calls
  <2>1. PICK l \in Loads : mem' = l.book /\ cached' = l.time
    BY <1>2 DEF Calls, CallFrom, Loaded
  <2>2. l.time = "this"
    BY <1>1, <2>1, LoadsWithTimes
  <2> QED  BY <2>1, <2>2 DEF Current
<1>3. CASE Changes
  BY <1>3 DEF Changes, ChangeFrom, Current, Idle
<1> QED  BY <1>2, <1>3 DEF NewName

\* Only the operator and the end of the process concern whether his file came.
LEMMA EditedStays ==
    ASSUME [Next]_vars
    PROVE  (\E seed \in Seeds : Edit(seed)) \/ Crash \/ edited' = edited
<1> USE DEF editVars
<1>1. ASSUME NEW s \in Sessions, SessionStep(s)  PROVE edited' = edited
  BY <1>1 DEF SessionStep, LoadFails, Login, Bind, Leave, FindName, GiveName, SetNickname, Copy,
    Write, WriteMisses
<1>2. CASE StoreStep
  BY <1>2 DEF StoreStep, OpenTemp, OpenFails, WriteTemp, Rename, RenameFails, RemoveFile,
    RenameAgain, RenameAgainFails, Stamp, Install, StoreFails
<1>3. CASE (\E l \in Loads : LookUp(l)) \/ UNCHANGED vars
  BY <1>3 DEF LookUp, vars
<1> QED  BY <1>1, <1>2, <1>3 DEF Next

\* The names that sessions keep are in the book that is used next.
LEMMA OldNamesStay ==
    ASSUME DiskInv, ReliableTimes, FreshInv, ThreadStep, Steady \/ cached = "never",
           Current => NamesInBook, Current',
           NEW s \in Sessions, NEW a \in Accounts, NEW n \in Names, HasName(s, a, n)
    PROVE  a \in DOMAIN mem' /\ mem'[a].nickname = n
<1> USE DEF diskVars, memVars
<1>1. cached # "never"
  BY FreshHasNoName DEF FreshInv
<1>2. Current => a \in DOMAIN mem /\ mem[a].nickname = n
  BY DEF NamesInBook
<1>3. ASSUME NEW l \in Loads, store = Idle, l.time = "this"
      PROVE  a \in DOMAIN l.book /\ l.book[a].nickname = n
  BY <1>1, <1>2, <1>3, SteadyLoads DEF Current
<1>4. CASE Calls
  <2>1. PICK l \in Loads : /\ mem' = l.book /\ cached' = l.time
                           /\ store = Idle /\ store' = Idle
    BY <1>4 DEF Calls, CallFrom, Loaded, Free
  <2> QED  BY <1>3, <2>1 DEF Current
<1>5. CASE Changes
  <2>1. PICK l \in Loads : /\ store = Idle /\ l.book # EmptyBook
                           /\ NamesStay(l.book, mem')
    BY <1>5, EmptyBookIsEmpty DEF Changes, ChangeFrom, Loaded, Free
  <2>2. l.time = "this"
    BY <2>1, LoadsWithTimes
  <2>3. a \in DOMAIN l.book /\ l.book[a].nickname = n /\ n # NoName
    BY <1>3, <2>1, <2>2, NothingIsNot
  <2> QED  BY <2>1, <2>3 DEF NamesStay
<1>6. CASE Throws
  <2>1. cached' = cached /\ store' = Idle /\ Times = {"this"} /\ Times \ {cached} # {}
    BY <1>6, ReliableTimesAre, FilesDiffer DEF Throws, Free
  <2> QED  BY <2>1 DEF Current
<1>7. CASE Elsewhere
  BY <1>2, <1>7 DEF Elsewhere, Current
<1>8. CASE StoreStep
  <2>1. store # Idle /\ mem' = mem
    BY <1>8 DEF StoreStep, OpenTemp, OpenFails, WriteTemp, Rename, RenameFails, RemoveFile,
      RenameAgain, RenameAgainFails, Stamp, Install, StoreFails, StoreAt
  <2> QED  BY <1>2, <2>1 DEF Current
<1> QED  BY <1>4, <1>5, <1>6, <1>7, <1>8 DEF ThreadStep

\* Every step keeps what is known of names.
LEMMA NameStep ==
    ASSUME DiskInv, FreshInv, NameInv, [Next]_vars, TypeOK', NicknamesAreUnique'
    PROVE  NameInv'
<1> SUFFICES ASSUME ReliableTimes, ~edited'
             PROVE  NameInv'
  BY DEF NameInv, ReliableTimes
<1>1. TypeOK
  BY DEF DiskInv
<1>2. CASE Crash
  <2>1. Fresh' /\ cached' = "never"
    BY <1>2 DEF Crash, Fresh
  <2>2. \A s \in Sessions, a \in Accounts, n \in Names : ~HasName(s, a, n)'
    BY <2>1, NothingIsNot DEF Fresh, HasName, Idle
  <2> QED  BY <2>1, <2>2 DEF NameInv, NamesInBook, NamesOfOne
<1>3. CASE ThreadStep /\ edited' = edited
  <2>1. /\ Steady \/ cached = "never"
        /\ Current => NamesInBook
        /\ NamesOfOne
    BY <1>3 DEF NameInv
  <2>2. (Steady \/ cached = "never")'
    BY <1>3, <2>1, SteadyStep, NeverStep
  <2>3. ASSUME Current'  PROVE NamesInBook'
    <3> SUFFICES ASSUME NEW s \in Sessions, NEW a \in Accounts, NEW n \in Names,
                        HasName(s, a, n)'
                 PROVE  a \in DOMAIN mem' /\ mem'[a].nickname = n
      BY DEF NamesInBook
    <3>1. HasName(s, a, n) \/ NewName(a, n)
      BY <1>1, ClaimStep
    <3> QED  BY <1>3, <2>1, <2>3, <3>1, OldNamesStay DEF NewName
  <2>4. NamesOfOne'
    <3> SUFFICES ASSUME NEW s \in Sessions, NEW t \in Sessions,
                        NEW a \in Accounts, NEW b \in Accounts, NEW n \in Names,
                        HasName(s, a, n)', HasName(t, b, n)'
                 PROVE  a = b
      BY DEF NamesOfOne
    <3>1. CASE Current'
      <4>1. /\ a \in DOMAIN mem' /\ mem'[a].nickname = n
            /\ b \in DOMAIN mem' /\ mem'[b].nickname = n
        BY <2>3, <3>1 DEF NamesInBook
      <4>2. Distinct(mem') /\ n # NoName
        BY FilesDiffer, NothingIsNot DEF NicknamesAreUnique, TypeOK
      <4> QED  BY <4>1, <4>2 DEF Distinct
    <3>2. CASE ~Current'
      <4>1. HasName(s, a, n) /\ HasName(t, b, n)
        BY <1>1, <3>2, ClaimStep, NewNameIsCurrent
      <4> QED  BY <2>1, <4>1 DEF NamesOfOne
    <3> QED  BY <3>1, <3>2
  <2> QED  BY <2>2, <2>3, <2>4 DEF NameInv
<1>4. ~\E seed \in Seeds : Edit(seed)
  BY DEF Edit
<1>5. ThreadStep \/ Crash
  BY <1>1, <1>4, Kinds DEF ThreadStep
<1> QED  BY <1>2, <1>3, <1>4, <1>5, EditedStays

\* Nicknames come with a login.
LEMMA NickStep == TypeOK /\ NickInv /\ [Next]_vars => NickInv'
<1> SUFFICES ASSUME TypeOK, NickInv, [Next]_vars, NEW s \in Sessions, nick[s]' # NoName
             PROVE  login[s]' \in Accounts
  BY DEF NickInv
<1> USE DEF sessionVars
<1>1. ASSUME NEW t \in Sessions, Bind(t)  PROVE login[s]' \in Accounts
  <2>1. work[t].account \in Accounts
    BY <1>1, WorksAre DEF Bind
  <2> QED  BY <1>1, <2>1 DEF Bind, TypeOK, NickInv
<1>2. ASSUME NEW t \in Sessions, Leave(t)  PROVE login[s]' \in Accounts
  BY <1>2 DEF Leave, TypeOK, NickInv
<1>3. ASSUME NEW t \in Sessions, SetNickname(t)  PROVE login[s]' \in Accounts
  <2>1. login[t] \in Accounts
    BY <1>3 DEF SetNickname, TypeOK
  <2> QED  BY <1>3, <2>1 DEF SetNickname, TypeOK, NickInv
<1>4. CASE Crash
  BY <1>4 DEF Crash
<1>5. CASE UNCHANGED <<login, nick>>
  BY <1>5 DEF NickInv
<1>6. ASSUME NEW t \in Sessions, SessionStep(t)  PROVE login[s]' \in Accounts
  <2>1. Bind(t) \/ Leave(t) \/ SetNickname(t) \/ UNCHANGED <<login, nick>>
    BY <1>6 DEF SessionStep, LoadFails, Login, FindName, GiveName, Copy, Write, WriteMisses
  <2> QED  BY <1>1, <1>2, <1>3, <1>5, <2>1
<1>7. CASE StoreStep
  <2>1. UNCHANGED <<login, nick>>
    BY <1>7 DEF StoreStep, OpenTemp, OpenFails, WriteTemp, Rename, RenameFails, RemoveFile,
      RenameAgain, RenameAgainFails, Stamp, Install, StoreFails
  <2> QED  BY <1>5, <2>1
<1>8. CASE (\E l \in Loads : LookUp(l)) \/ (\E seed \in Seeds : Edit(seed)) \/ UNCHANGED vars
  <2>1. UNCHANGED <<login, nick>>
    BY <1>8 DEF LookUp, Edit, vars
  <2> QED  BY <1>5, <2>1
<1> QED  BY <1>4, <1>6, <1>7, <1>8 DEF Next
-----------------------------------------------------------------------------
(* Goods *)

\* A copy in a handler's hand has nothing free in it, unless its account was
\* written without its account_info from a copy that had grown old.
CopyInv ==
    \A s \in Sessions :
        work[s].at = "copied" /\ login[s] \notin mixed =>
            work[s].copy.owned \subseteq work[s].copy.paid

\* An account that is mixed once stays so.
LEMMA MixedGrows ==
    ASSUME [Next]_vars
    PROVE  mixed \subseteq mixed'
<1>1. ASSUME NEW s \in Sessions, SessionStep(s)  PROVE mixed \subseteq mixed'
  BY <1>1 DEF SessionStep, LoadFails, Login, Bind, Leave, FindName, GiveName, SetNickname, Copy,
    Write, WriteMisses
<1>2. CASE StoreStep
  BY <1>2 DEF StoreStep, OpenTemp, OpenFails, WriteTemp, Rename, RenameFails, RemoveFile,
    RenameAgain, RenameAgainFails, Stamp, Install, StoreFails
<1>3. CASE (\E l \in Loads : LookUp(l)) \/ (\E seed \in Seeds : Edit(seed)) \/ Crash
           \/ UNCHANGED vars
  BY <1>3 DEF LookUp, Edit, Crash, vars
<1> QED  BY <1>1, <1>2, <1>3 DEF Next

\* A copy has just been taken, or is the one the handler had.
LEMMA CopyFrom ==
    ASSUME TypeOK, [Next]_vars, NEW s \in Sessions, work[s]'.at = "copied"
    PROVE  \/ work[s]' = work[s] /\ login[s]' = login[s]
           \/ /\ login[s]' = login[s]
              /\ \E l \in Loads, task \in Tasks, good \in Goods : Copy(s, task, good, l)
<1> USE DEF sessionVars
<1>1. ASSUME NEW t \in Sessions, SessionStep(t), t # s
      PROVE  work[s]' = work[s] /\ login[s]' = login[s]
  BY <1>1 DEF TypeOK, SessionStep, LoadFails, Login, Bind, Leave, FindName, GiveName, SetNickname,
    Copy, Write, WriteMisses
<1>2. ASSUME SessionStep(s)
      PROVE  \/ work[s]' = work[s] /\ login[s]' = login[s]
             \/ /\ login[s]' = login[s]
                /\ \E l \in Loads, task \in Tasks, good \in Goods : Copy(s, task, good, l)
  <2>1. CASE LoadFails(s) \/ Bind(s) \/ SetNickname(s)
    <3>1. work[s]' = Idle
      BY <2>1 DEF TypeOK, LoadFails, Bind, SetNickname
    <3> QED  BY <3>1 DEF Idle
  <2>2. CASE \E l \in Loads : Write(s, l) \/ WriteMisses(s, l)
    <3>1. work' = [work EXCEPT ![s] = Idle] /\ s \in DOMAIN work
      BY <2>2 DEF TypeOK, Write, WriteMisses
    <3> QED  BY <3>1 DEF Idle
  <2>3. CASE Leave(s)
    <3>1. work[s]' = Idle
      BY <2>3 DEF Leave
    <3> QED  BY <3>1 DEF Idle
  <2>4. CASE \E l \in Loads, a \in Accounts : Login(s, a, l)
    <3>1. work[s]'.at = "bind"
      BY <2>4 DEF TypeOK, Login
    <3> QED  BY <3>1
  <2>5. CASE \E l \in Loads : FindName(s, l) \/ \E n \in Names : GiveName(s, n, l)
    <3>1. work[s]'.at = "name"
      <4>1. CASE \E l \in Loads : FindName(s, l)
        BY <4>1 DEF TypeOK, FindName
      <4>2. CASE \E l \in Loads, n \in Names : GiveName(s, n, l)
        BY <4>2 DEF TypeOK, GiveName
      <4> QED  BY <2>5, <4>1, <4>2
    <3> QED  BY <3>1
  <2>6. CASE \E l \in Loads, task \in Tasks, good \in Goods : Copy(s, task, good, l)
    BY <2>6 DEF Copy
  <2> QED  BY <1>2, <2>1, <2>2, <2>3, <2>4, <2>5, <2>6 DEF SessionStep
<1>3. CASE StoreStep
  <2>1. /\ login' = login
        /\ work[s]' = work[s] \/ work[s]' = Idle
    BY <1>3 DEF StoreStep, OpenTemp, OpenFails, WriteTemp, Rename, RenameFails, RemoveFile,
      RenameAgain, RenameAgainFails, Stamp, Install, StoreFails, TypeOK
  <2> QED  BY <2>1 DEF Idle
<1>4. CASE (\E l \in Loads : LookUp(l)) \/ (\E seed \in Seeds : Edit(seed)) \/ UNCHANGED vars
  BY <1>4 DEF LookUp, Edit, vars
<1>5. CASE Crash
  <2>1. work[s]' = Idle
    BY <1>5 DEF Crash
  <2> QED  BY <2>1 DEF Idle
<1> QED  BY <1>1, <1>2, <1>3, <1>4, <1>5 DEF Next

\* The books hold nothing free of the accounts that are not mixed.
LEMMA LoadsPaid ==
    ASSUME TypeOK, NothingComesFree, NEW l \in Loads
    PROVE  PaidFor(l.book, Accounts \ mixed)
<1>1. PaidFor(EmptyBook, Accounts \ mixed)
  BY EmptyBookIsEmpty DEF PaidFor
<1>2. \A b \in {mem, file} : b \in Books => PaidFor(b, Accounts \ mixed)
  BY FilesDiffer DEF NothingComesFree
<1>3. mem \in Books
  BY DEF TypeOK
<1> QED  BY <1>1, <1>2, <1>3, LoadsAre


\* A nickname changes nothing else of the book.
LEMMA NamedBook ==
    ASSUME NEW b \in Books, NEW a \in DOMAIN b, NEW n \in Names
    PROVE  LET new == [b EXCEPT ![a] = [@ EXCEPT !.nickname = n]] IN
           /\ DOMAIN new = DOMAIN b
           /\ \A c \in DOMAIN b : new[c].paid = b[c].paid /\ new[c].owned = b[c].owned
<1> DEFINE r == [b[a] EXCEPT !.nickname = n]
<1>1. r \in Fields /\ r.owned = b[a].owned /\ r.paid = b[a].paid
  BY InBook, NamedIs
<1>2. [b EXCEPT ![a] = [@ EXCEPT !.nickname = n]] = [b EXCEPT ![a] = r]
  OBVIOUS
<1> HIDE DEF r
<1>3. /\ DOMAIN [b EXCEPT ![a] = r] = DOMAIN b
      /\ [b EXCEPT ![a] = r][a] = r
      /\ \A c \in DOMAIN b \ {a} : [b EXCEPT ![a] = r][c] = b[c]
  BY <1>1, Replaced
<1> QED  BY <1>1, <1>2, <1>3

\* Every step keeps what is known of copies: a new one is of a book without
\* free goods.
LEMMA CopyStep ==
    ASSUME TypeOK, CopyInv, NothingComesFree, [Next]_vars
    PROVE  CopyInv'
<1> SUFFICES ASSUME NEW s \in Sessions, work[s]'.at = "copied", login[s]' \notin mixed'
             PROVE  work[s]'.copy.owned \subseteq work[s]'.copy.paid
  BY DEF CopyInv
<1>1. mixed \subseteq mixed'
  BY MixedGrows
<1>2. CASE work[s]' = work[s] /\ login[s]' = login[s]
  BY <1>1, <1>2 DEF CopyInv
<1>3. ASSUME NEW l \in Loads, NEW task \in Tasks, NEW good \in Goods,
             Copy(s, task, good, l), login[s]' = login[s]
      PROVE  work[s]'.copy.owned \subseteq work[s]'.copy.paid
  <2>1. login[s] \in DOMAIN l.book /\ work'[s].copy = l.book[login[s]]
    BY <1>3 DEF Copy, TypeOK
  <2>2. login[s] \in Accounts /\ login[s] \notin mixed
    BY <1>1, <1>3, <2>1, LoadsAre, InBook
  <2>3. l.book[login[s]].owned \subseteq l.book[login[s]].paid
    BY <2>1, <2>2, LoadsPaid DEF PaidFor
  <2> QED  BY <2>1, <2>3
<1> QED  BY <1>2, <1>3, CopyFrom

\* What set_* writes has nothing free in it, when neither the copy nor the
\* record has, and set_inventory writes a copy that is not old.
LEMMA WrittenPaid ==
    ASSUME NEW w \in [at : {"copied"}, task : Tasks, good : Goods, copy : Fields],
           NEW now \in Fields,
           w.copy.owned \subseteq w.copy.paid, now.owned \subseteq now.paid,
           w.task \in {"remove", "equip"} => ~IsOld(w.copy, now)
    PROVE  Written(w, now).owned \subseteq Written(w, now).paid
<1>1. /\ w.task \in {"buy", "buy_skill", "repair", "remove", "equip", "quickslot"}
      /\ w.good \in Goods /\ w.copy \in Fields
  BY TasksAreKnown
<1>2. now \in [nickname : Names \cup {NoName}, paid : SUBSET Goods, owned : SUBSET Goods]
  BY DEF Fields
<1>3. CASE w.task \in {"buy", "buy_skill"}
  BY <1>1, <1>2, <1>3 DEF Written
<1>4. CASE w.task = "repair"
  BY <1>1, <1>2, <1>4 DEF Written
<1>5. CASE w.task = "remove"
  BY <1>1, <1>2, <1>5 DEF Written, IsOld
<1>6. CASE w.task = "equip"
  BY <1>1, <1>2, <1>6 DEF Written, IsOld
<1>7. CASE w.task = "quickslot"
  BY <1>1, <1>2, <1>7 DEF Written
<1> QED  BY <1>1, <1>3, <1>4, <1>5, <1>6, <1>7

\* What is paid for by some accounts is by fewer.
LEMMA FewerPaid ==
    ASSUME NEW book, NEW A, NEW B \in SUBSET A, PaidFor(book, A)
    PROVE  PaidFor(book, B)
BY DEF PaidFor

\* The book a write leaves in memory has nothing free in it.
LEMMA WritePaid ==
    ASSUME TypeOK, CopyInv, NothingComesFree,
           NEW t \in Sessions, NEW l \in Loads, Write(t, l)
    PROVE  PaidFor(mem', Accounts \ mixed')
<1> DEFINE a == login[t]
           r == Written(work[t], l.book[a])
<1>1. PaidFor(l.book, Accounts \ mixed)
  BY LoadsPaid
<1>2. /\ l.book \in Books /\ a \in DOMAIN l.book /\ a \in Accounts /\ l.book[a] \in Fields
      /\ work[t] \in [at : {"copied"}, task : Tasks, good : Goods, copy : Fields]
  BY LoadsAre, InBook, WorksAre DEF Write
<1>3. /\ mem' = [l.book EXCEPT ![a] = r]
      /\ mixed' = IF work[t].task \in {"remove", "equip"} /\ IsOld(work[t].copy, l.book[a])
                  THEN mixed \cup {a}
                  ELSE mixed
  BY DEF Write, Change
<1>4. r \in Fields
  BY <1>2, WrittenIs
<1>5. /\ DOMAIN mem' = DOMAIN l.book /\ mem'[a] = r
      /\ \A c \in DOMAIN l.book \ {a} : mem'[c] = l.book[c]
  BY <1>2, <1>3, <1>4, Replaced
<1>6. ASSUME a \notin mixed'  PROVE r.owned \subseteq r.paid
  <2>1. /\ a \notin mixed
        /\ work[t].task \in {"remove", "equip"} => ~IsOld(work[t].copy, l.book[a])
    BY <1>3, <1>6
  <2>2. work[t].copy.owned \subseteq work[t].copy.paid
    BY <1>2, <2>1 DEF CopyInv
  <2>3. l.book[a].owned \subseteq l.book[a].paid
    BY <1>1, <1>2, <2>1 DEF PaidFor
  <2> QED  BY <1>2, <2>1, <2>2, <2>3, WrittenPaid
<1>7. mixed \subseteq mixed'
  BY <1>3
<1> HIDE DEF r
<1> QED  BY <1>1, <1>5, <1>6, <1>7 DEF PaidFor

\* Every step keeps the books paid for.
LEMMA PaidStep ==
    ASSUME TypeOK, CopyInv, NothingComesFree, [Next]_vars
    PROVE  NothingComesFree'
<1> SUFFICES ASSUME NEW book \in {mem', file', tmp'} \ {Absent, Torn}
             PROVE  PaidFor(book, Accounts \ mixed')
  BY DEF NothingComesFree
<1> USE DEF diskVars, memVars
<1>1. Accounts \ mixed' \subseteq Accounts \ mixed
  BY MixedGrows
<1>2. ASSUME PaidFor(book, Accounts \ mixed)  PROVE PaidFor(book, Accounts \ mixed')
  BY <1>1, <1>2, FewerPaid
<1>3. /\ PaidFor(EmptyBook, Accounts \ mixed)
      /\ \A b \in {mem, file, tmp} \ {Absent, Torn} : PaidFor(b, Accounts \ mixed)
  BY EmptyBookIsEmpty DEF PaidFor, NothingComesFree
<1>4. CASE Calls
  <2>1. PICK l \in Loads : mem' = l.book /\ UNCHANGED <<file, tmp>>
    BY <1>4 DEF Calls, CallFrom
  <2> QED  BY <1>2, <1>3, <2>1, LoadsPaid
<1>5. CASE Throws \/ Crash
  <2>1. mem' = EmptyBook /\ UNCHANGED <<file, tmp>>
    BY <1>5 DEF Throws, Crash
  <2> QED  BY <1>2, <1>3, <2>1
<1>6. CASE Elsewhere
  BY <1>2, <1>3, <1>6 DEF Elsewhere
<1>7. CASE StoreStep
  <2>1. mem' = mem /\ {file', tmp'} \subseteq {file, tmp, mem, Absent, Torn}
    BY <1>7 DEF StoreStep, OpenTemp, OpenFails, WriteTemp, Rename, RenameFails, RemoveFile,
      RenameAgain, RenameAgainFails, Stamp, Install, StoreFails, FileIs
  <2> QED  BY <1>2, <1>3, <2>1
<1>8. ASSUME NEW t \in Sessions, NEW n \in Names, NEW l \in Loads, GiveName(t, n, l)
      PROVE  PaidFor(book, Accounts \ mixed')
  <2>1. /\ login[t] \in DOMAIN l.book /\ UNCHANGED <<file, tmp>>
        /\ mem' = [l.book EXCEPT ![login[t]] = [@ EXCEPT !.nickname = n]]
    BY <1>8 DEF GiveName, Change
  <2>2. l.book \in Books
    BY LoadsAre
  <2>3. /\ DOMAIN mem' = DOMAIN l.book
        /\ \A c \in DOMAIN l.book :
             mem'[c].paid = l.book[c].paid /\ mem'[c].owned = l.book[c].owned
    BY <2>1, <2>2, NamedBook
  <2>4. PaidFor(l.book, Accounts \ mixed)
    BY LoadsPaid
  <2>5. PaidFor(mem', Accounts \ mixed)
    BY <2>3, <2>4 DEF PaidFor
  <2> QED  BY <1>2, <1>3, <2>1, <2>5
<1>9. ASSUME NEW t \in Sessions, NEW l \in Loads, Write(t, l)
      PROVE  PaidFor(book, Accounts \ mixed')
  <2>1. UNCHANGED <<file, tmp>>
    BY <1>9 DEF Write
  <2>2. PaidFor(mem', Accounts \ mixed')
    BY <1>9, WritePaid
  <2> QED  BY <1>2, <1>3, <2>1, <2>2
<1>10. ASSUME NEW seed \in Seeds, Edit(seed)  PROVE PaidFor(book, Accounts \ mixed')
  <2>1. file' = seed /\ UNCHANGED <<mem, tmp>>
    BY <1>10 DEF Edit, FileIs
  <2>2. PaidFor(seed, Accounts \ mixed)
    BY SeedsAreSound DEF PaidFor
  <2> QED  BY <1>2, <1>3, <2>1, <2>2
<1> QED  BY <1>4, <1>5, <1>6, <1>7, <1>8, <1>9, <1>10, ActionKinds
-----------------------------------------------------------------------------
(* Theorems *)

\* What the two theorems follow from, besides the invariant of the files.
SessionInv ==
    FreshInv /\ NickInv /\ NameInv /\ CopyInv /\ NothingComesFree

\* At the start nobody is logged in and an operator's file is there.
LEMMA SessionInit == Init => SessionInv
<1> SUFFICES ASSUME Init  PROVE SessionInv
  OBVIOUS
<1>1. FreshInv /\ Fresh /\ cached = "never" /\ store = Idle
  BY DEF Init, FreshInv, Fresh
<1>2. NickInv
  BY DEF Init, NickInv
<1>3. NameInv
  BY <1>1, FreshHasNoName DEF NameInv, NamesInBook, NamesOfOne
<1>4. CopyInv
  BY <1>1 DEF CopyInv, Fresh, Idle
<1>5. PaidFor(EmptyBook, Accounts) /\ PaidFor(file, Accounts)
  BY EmptyBookIsEmpty, SeedsAreSound DEF Init, PaidFor
<1>6. mem = EmptyBook /\ tmp = Absent /\ mixed = {}
  BY DEF Init
<1>7. NothingComesFree
  BY <1>5, <1>6, FewerPaid DEF NothingComesFree
<1> QED  BY <1>1, <1>2, <1>3, <1>4, <1>7 DEF SessionInv

\* Every step keeps it.
LEMMA SessionInvStep ==
    DiskInv /\ NicknamesAreUnique' /\ TypeOK' /\ SessionInv /\ [Next]_vars => SessionInv'
<1> SUFFICES ASSUME DiskInv, NicknamesAreUnique', TypeOK', SessionInv, [Next]_vars
             PROVE  SessionInv'
  OBVIOUS
<1>1. TypeOK /\ FreshInv /\ NickInv /\ NameInv /\ CopyInv /\ NothingComesFree
  BY DEF SessionInv, DiskInv
<1>2. FreshInv' /\ NickInv'
  BY <1>1, FreshStep, NickStep
<1>3. NameInv'
  BY <1>1, NameStep
<1>4. CopyInv' /\ NothingComesFree'
  BY <1>1, CopyStep, PaidStep
<1> QED  BY <1>2, <1>3, <1>4 DEF SessionInv

\* The invariant of the files makes that of the sessions inductive.
LEMMA SessionsAlways == Spec => [](DiskInv /\ SessionInv)
<1>1. DiskInv => TypeOK
  BY DEF DiskInv
<1> QED  BY <1>1, DiskAlways, SessionInit, SessionInvStep, PTL DEF Spec

\* While no operator's file comes, a nickname belongs to the sessions of one
\* account, with names resolved in one call and set in another, stores that
\* fail and crashes.
THEOREM NicknamesIdentify == Spec => []NamesTellSessionsApart
<1>1. DiskInv /\ SessionInv => NamesTellSessionsApart
  <2> SUFFICES ASSUME DiskInv, SessionInv, ReliableTimes, ~edited,
                      NEW s \in Sessions, NEW t \in Sessions,
                      nick[s] = nick[t], nick[s] # NoName
               PROVE  login[s] = login[t]
    BY DEF NamesTellSessionsApart
  <2>1. nick[s] \in Names /\ login[s] \in Accounts /\ login[t] \in Accounts
    BY DEF DiskInv, TypeOK, SessionInv, NickInv
  <2>2. HasName(s, login[s], nick[s]) /\ HasName(t, login[t], nick[s])
    BY DEF HasName
  <2>3. NamesOfOne
    BY DEF SessionInv, NameInv
  <2> QED  BY <2>1, <2>2, <2>3 DEF NamesOfOne
<1> QED  BY <1>1, SessionsAlways, PTL

\* Every book charges for all that it gives to an account, whatever sessions of
\* the account, in turn or together, buy, repair, remove and overwrite,
\* whatever stores fail and whenever an operator's file comes, until an
\* inventory alone is stored from a copy that had grown old.
THEOREM GoodsArePaidFor == Spec => []NothingComesFree
<1>1. SessionInv => NothingComesFree
  BY DEF SessionInv
<1> QED  BY <1>1, SessionsAlways, PTL
=============================================================================
