---------------------------- MODULE RoomRegistry ----------------------------
(***************************************************************************)
(* The runtime room registry (src/src/server/RoomRegistry.cpp): the vector *)
(* of rooms created over TCP, shared by every session thread and guarded   *)
(* by one mutex, so that each operation below is one atomic step.          *)
(*                                                                         *)
(* rooms_ only ever grows at its end and erase keeps the order, so the     *)
(* vector is represented by the set of its rooms, each stamped with the    *)
(* ticket of its creation: the vector order is the ticket order.  The      *)
(* client sees id, which is a uint16_t and wraps; it never sees ticket.    *)
(***************************************************************************)
EXTENDS Integers

CONSTANTS
    Clients,        \* client ids: the accept loop counts from 1
    Logins,         \* account login ids
    NoLogin,        \* a session that has not authenticated
    Missions,       \* mission rule ids a room can be created with
    RoomIdSpace     \* 2^16 in the code: the width of next_room_id_

ASSUME ClientsAreNumbers == Clients \subseteq Nat \ {0}
ASSUME NoLoginIsNone == NoLogin \notin Logins
ASSUME RoomIdSpaceIsWidth == RoomIdSpace \in Nat \ {0, 1}

VARIABLES
    rooms,          \* rooms_: the listed rooms
    nextTicket,     \* number of rooms created so far
    nextRoomId      \* next_room_id_

registryVars == <<rooms, nextTicket, nextRoomId>>

Room == [ticket : Nat, id : 0..(RoomIdSpace - 1), host : Clients,
         login : Logins \cup {NoLogin}, mission : Missions]

\* Mutant of MatchesHost: two sessions without a login count as one account.
MatchesWithoutLogin(room, c, l) == room.host = c \/ room.login = l

\* matches_host: the same client, or the same account on both sides.
MatchesHost(room, c, l) ==
    \/ room.host = c
    \/ l # NoLogin /\ room.login = l

Matches(c, l) == {r \in rooms : MatchesHost(r, c, l)}

\* std::find_if from the front: the match that was created first.
IsFirstMatch(r, c, l) ==
    /\ r \in Matches(c, l)
    /\ \A s \in Matches(c, l) : r.ticket <= s.ticket

RegistryInit ==
    /\ rooms = {}
    /\ nextTicket = 0
    /\ nextRoomId = 1

\* Mutant of InsertRoom: next_room_id_ is not incremented.
InsertSameId(c, l, m) ==
    /\ Matches(c, l) = {}
    /\ rooms' = rooms \cup {[ticket |-> nextTicket, id |-> nextRoomId,
                             host |-> c, login |-> l, mission |-> m]}
    /\ nextTicket' = nextTicket + 1
    /\ UNCHANGED nextRoomId

\* upsert, no room of this host yet: push_back under the next id.
InsertRoom(c, l, m) ==
    /\ Matches(c, l) = {}
    /\ rooms' = rooms \cup {[ticket |-> nextTicket, id |-> nextRoomId,
                             host |-> c, login |-> l, mission |-> m]}
    /\ nextTicket' = nextTicket + 1
    /\ nextRoomId' = (nextRoomId + 1) % RoomIdSpace

\* Mutant of OverwriteRoom: the room that is there is not looked for.
OverwriteAppends(c, l, m) ==
    /\ Matches(c, l) # {}
    /\ rooms' = rooms \cup {[ticket |-> nextTicket, id |-> nextRoomId,
                             host |-> c, login |-> l, mission |-> m]}
    /\ nextTicket' = nextTicket + 1
    /\ nextRoomId' = (nextRoomId + 1) % RoomIdSpace

\* upsert, first match found: host, login and entry are overwritten in place
\* and the id is kept.
OverwriteRoom(c, l, m) ==
    /\ \E r \in rooms :
        /\ IsFirstMatch(r, c, l)
        /\ rooms' = (rooms \ {r})
                        \cup {[r EXCEPT !.host = c, !.login = l, !.mission = m]}
    /\ UNCHANGED <<nextTicket, nextRoomId>>

UpsertRoom(c, l, m) ==
    \/ InsertRoom(c, l, m)
    \/ OverwriteRoom(c, l, m)

\* remove_for_host: every match goes, not only the first.
RemoveForHost(c, l) ==
    /\ rooms' = rooms \ Matches(c, l)
    /\ UNCHANGED <<nextTicket, nextRoomId>>

-----------------------------------------------------------------------------

RegistryTypeOK ==
    /\ rooms \subseteq Room
    /\ nextTicket \in Nat
    /\ nextRoomId \in 0..(RoomIdSpace - 1)

\* The ids on the list tell rooms apart: two different rooms carry the same
\* id only when the 16-bit counter has gone all the way round between their
\* creations (RoomRegistry::upsert, next_room_id_++).
RoomIdsTellApart ==
    \A r, s \in rooms :
        r # s /\ r.id = s.id =>
            \/ r.ticket - s.ticket >= RoomIdSpace
            \/ s.ticket - r.ticket >= RoomIdSpace
=============================================================================
