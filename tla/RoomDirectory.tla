--------------------------- MODULE RoomDirectory ---------------------------
(***************************************************************************)
(* What the lobby promises about its room list, without threads, locks,    *)
(* sockets or room ids: members come and go, a member publishes rooms      *)
(* under its own name and account, only somebody of the same name or       *)
(* account takes a room off the list or takes it over, and nobody goes     *)
(* and leaves a room behind.  LobbySessions implements it.                 *)
(***************************************************************************)
EXTENDS Integers

CONSTANTS Clients, Logins, NoLogin, Missions

VARIABLES
    members,    \* clients that are connected
    account,    \* account[c]: the login c goes by, or NoLogin
    listing     \* the listed rooms, by order of creation

dirVars == <<members, account, listing>>

ListedRoom == [ticket : Nat, host : Clients, login : Logins \cup {NoLogin},
               mission : Missions]

OwnedBy(c) ==
    {r \in listing :
        r.host = c \/ (account[c] # NoLogin /\ r.login = account[c])}

HostedBy(c) == {r \in listing : r.host = c}

DirInit ==
    /\ members = {}
    /\ account = [c \in Clients |-> NoLogin]
    /\ listing = {}

Join(c) ==
    /\ c \notin members
    /\ members' = members \cup {c}
    /\ UNCHANGED <<account, listing>>

\* A member goes only when nothing it hosts is listed any more.
Part(c) ==
    /\ c \in members
    /\ HostedBy(c) = {}
    /\ members' = members \ {c}
    /\ UNCHANGED <<account, listing>>

GoBy(c, l) ==
    /\ c \in members
    /\ account' = [account EXCEPT ![c] = l]
    /\ UNCHANGED <<members, listing>>

\* A first room goes to the end of the list.
Open(c, m) ==
    /\ c \in members
    /\ OwnedBy(c) = {}
    /\ \E r \in listing' :
        /\ r \in ListedRoom
        /\ r.host = c /\ r.login = account[c] /\ r.mission = m
        /\ \A s \in listing : s.ticket < r.ticket
        /\ listing' = listing \cup {r}
    /\ UNCHANGED <<members, account>>

\* A room that is already there is renamed in place.
Renew(c, m) ==
    /\ c \in members
    /\ \E r \in OwnedBy(c) :
        listing' = (listing \ {r})
                       \cup {[ticket |-> r.ticket, host |-> c,
                              login |-> account[c], mission |-> m]}
    /\ UNCHANGED <<members, account>>

Withdraw(c) ==
    /\ c \in members
    /\ listing' = listing \ OwnedBy(c)
    /\ UNCHANGED <<members, account>>

DirNext ==
    \E c \in Clients :
        \/ Join(c) \/ Part(c) \/ Withdraw(c)
        \/ \E l \in Logins : GoBy(c, l)
        \/ \E m \in Missions : Open(c, m) \/ Renew(c, m)

DirSpec == DirInit /\ [][DirNext]_dirVars
=============================================================================
