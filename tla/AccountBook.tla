---------------------------- MODULE AccountBook ----------------------------
(***************************************************************************)
(* What the accounts promise, without sessions, handlers, times or the     *)
(* steps of the file system: one saved book and one in memory.  A change   *)
(* is of one record, made to a memory that is up with the saved book; the  *)
(* memory replaces the saved book at once and as a whole; what a client is *)
(* promised is saved before it is told; the memory may be forgotten at any *)
(* time and is then never saved.  AccountStore implements it where writes  *)
(* are whole and times can be read.                                        *)
(***************************************************************************)
CONSTANTS
    Fields,     \* what a record may hold
    NoName,     \* a nickname without a value
    Seeds,      \* the books an operator puts in place
    EmptyBook   \* the book without accounts

VARIABLES
    saved,      \* the book that outlives the process
    memory,     \* the book that calls read and change
    phase,      \* what memory is to saved, and how far a store has come
    owed,       \* what the store in progress is to promise
    promised    \* <<account, name or good>> promised to a client

bookVars == <<saved, memory, phase, owed, promised>>

Holds(record, thing) == thing \in record.owned \cup {record.nickname}

\* A nickname is given once, and to one account.
Permitted(book, a, record) ==
    /\ book[a].nickname # NoName => record.nickname = book[a].nickname
    /\ record.nickname # NoName =>
        \A b \in DOMAIN book \ {a} : book[b].nickname # record.nickname

BookInit ==
    /\ saved \in Seeds
    /\ memory = EmptyBook
    /\ phase = "cold"
    /\ owed = {}
    /\ promised = {}

Recall ==
    /\ phase = "cold"
    /\ memory' = saved
    /\ phase' = "warm"
    /\ UNCHANGED <<saved, owed, promised>>

Forget ==
    /\ memory' = EmptyBook
    /\ phase' = "cold"
    /\ owed' = {}
    /\ UNCHANGED <<saved, promised>>

\* A promise ends when the thing is given away.
Alter(a, record) ==
    LET book == IF phase = "warm" THEN memory ELSE saved IN
    /\ phase \in {"cold", "warm"}
    /\ a \in DOMAIN book
    /\ Permitted(book, a, record)
    /\ memory' = [book EXCEPT ![a] = record]
    /\ phase' = "storing"
    /\ \A p \in owed' : p[1] = a /\ Holds(record, p[2])
    /\ promised' = {p \in promised : p[1] = a => Holds(record, p[2])}
    /\ UNCHANGED saved

\* The memory is saved; the store may take note of it later, or never.
Save ==
    /\ phase = "storing"
    /\ saved' = memory
    /\ phase' \in {"storing", "stored"}
    /\ UNCHANGED <<memory, owed, promised>>

Tell ==
    /\ phase = "stored"
    /\ phase' = "warm"
    /\ promised' = promised \cup owed
    /\ owed' = {}
    /\ UNCHANGED <<saved, memory>>

\* The change stays in memory, for the next store.
Fail ==
    /\ phase = "storing"
    /\ phase' \in {"warm", "cold"}
    /\ owed' = {}
    /\ UNCHANGED <<saved, memory, promised>>

\* A memory that is not being stored is read again before it is used.
Replace(seed) ==
    /\ saved' = seed
    /\ phase' = IF phase = "warm" THEN "cold" ELSE phase
    /\ owed' = {}
    /\ promised' = {}
    /\ UNCHANGED memory

BookNext ==
    \/ Recall \/ Forget \/ Save \/ Tell \/ Fail
    \/ \E a \in DOMAIN saved \cup DOMAIN memory, record \in Fields : Alter(a, record)
    \/ \E seed \in Seeds : Replace(seed)

BookSpec == BookInit /\ [][BookNext]_bookVars
=============================================================================
