--------------------------- MODULE MissionLedger ---------------------------
(***************************************************************************)
(* What the servers promise about missions, without datagrams, threads,    *)
(* combat or the pending client: a mission gets one owner, who is there;   *)
(* it is lost once and for all, or its time runs out; the first of these   *)
(* to be judged is its only outcome, a loss in the very step in which it   *)
(* is lost; and one notice of the outcome goes to the owner, if it has not *)
(* gone.  UdpMission implements it.                                        *)
(***************************************************************************)
CONSTANTS
    Peers,          \* who plays missions
    Clients,        \* who is told of them
    NoClient        \* a mission without an owner

VARIABLES
    standing,       \* standing[c]: "new", "up" or "gone"
    owner,          \* owner[p]: the client of p's mission
    lost,           \* the peers whose missions are lost
    timeUp,         \* timeUp[p]: its time has run out
    outcome,        \* outcome[p]: "none" until it is judged
    notices,        \* outcomes on their way to their owners
    told            \* outcomes that owners have got

ledgerVars == <<standing, owner, lost, timeUp, outcome, notices, told>>

LedgerInit ==
    /\ standing = [c \in Clients |-> "new"]
    /\ owner = [p \in Peers |-> NoClient]
    /\ lost = {}
    /\ timeUp = [p \in Peers |-> FALSE]
    /\ outcome = [p \in Peers |-> "none"]
    /\ notices = {}
    /\ told = {}

Arrive(c) ==
    /\ standing[c] = "new"
    /\ standing' = [standing EXCEPT ![c] = "up"]
    /\ UNCHANGED <<owner, lost, timeUp, outcome, notices, told>>

Depart(c) ==
    /\ standing[c] = "up"
    /\ standing' = [standing EXCEPT ![c] = "gone"]
    /\ UNCHANGED <<owner, lost, timeUp, outcome, notices, told>>

\* Nothing of a mission has happened before it has an owner.
Assign(p, c) ==
    /\ owner[p] = NoClient
    /\ p \notin lost /\ ~timeUp[p] /\ outcome[p] = "none"
    /\ standing[c] = "up"
    /\ owner' = [owner EXCEPT ![p] = c]
    /\ UNCHANGED <<standing, lost, timeUp, outcome, notices, told>>

Judge(p, v) ==
    /\ outcome[p] = "none"
    /\ outcome' = [outcome EXCEPT ![p] = v]
    /\ notices' = IF standing[owner[p]] = "up"
                  THEN notices \cup {[peer |-> p, client |-> owner[p], verdict |-> v]}
                  ELSE notices

Lose(p) ==
    /\ owner[p] # NoClient
    /\ p \notin lost
    /\ lost' = lost \cup {p}
    /\ \/ Judge(p, "failure")
       \/ outcome[p] = "success" /\ UNCHANGED <<outcome, notices>>
    /\ UNCHANGED <<standing, owner, timeUp, told>>

RunOut(p) ==
    /\ owner[p] # NoClient
    /\ ~timeUp[p]
    /\ timeUp' = [timeUp EXCEPT ![p] = TRUE]
    /\ UNCHANGED <<standing, owner, lost, outcome, notices, told>>

\* A mission that is lost cannot be won any more.
Win(p) ==
    /\ owner[p] # NoClient
    /\ timeUp[p] /\ p \notin lost
    /\ Judge(p, "success")
    /\ UNCHANGED <<standing, owner, lost, timeUp, told>>

Deliver(notice) ==
    /\ notice \in notices
    /\ notices' = notices \ {notice}
    /\ told' = IF standing[notice.client] = "up" THEN told \cup {notice} ELSE told
    /\ UNCHANGED <<standing, owner, lost, timeUp, outcome>>

LedgerNext ==
    \/ \E c \in Clients : Arrive(c) \/ Depart(c)
    \/ \E p \in Peers :
        \/ Lose(p) \/ RunOut(p) \/ Win(p)
        \/ \E c \in Clients : Assign(p, c)
    \/ \E notice \in notices : Deliver(notice)

LedgerSpec == LedgerInit /\ [][LedgerNext]_ledgerVars
=============================================================================
