---------------------------- MODULE ServerRoster ----------------------------
(***************************************************************************)
(* What the server promises about its connections and threads, without     *)
(* locks, sockets that are read twice or the order of a shutdown: each     *)
(* client gets one number and one thread, once; a connection is doomed     *)
(* once, while its session is listed, and only then is its number free for *)
(* somebody else; its thread leaves after that, and takes the session off  *)
(* the list; and the server is over when everybody has gone, after which   *)
(* nothing happens any more.  ServerLifecycle implements it.               *)
(***************************************************************************)
CONSTANTS
    Clients,        \* connections that clients make
    Descriptors,    \* numbers of connections
    Nobody,         \* a number that is free
    Actions         \* what is done later, by a thread of its own

VARIABLES
    phase,          \* "open", "closing" or "over"
    helpers,        \* "acceptor" and "udp", while they run
    stage,          \* stage[c]: "new", "admitted", "served", "gone"
    table,          \* table[f]: the client that has number f
    listed,         \* clients with a session
    doomed,         \* clients whose connection is given up
    task            \* task[i]: "new", "due", "done"

rosterVars == <<phase, helpers, stage, table, listed, doomed, task>>

RosterInit ==
    /\ phase = "open"
    /\ helpers = {"acceptor", "udp"}
    /\ stage = [c \in Clients |-> "new"]
    /\ table = [f \in Descriptors |-> Nobody]
    /\ listed = {}
    /\ doomed = {}
    /\ task = [i \in Actions |-> "new"]

\* One client at a time, under a number that is free.
Admit(c, f) ==
    /\ "acceptor" \in helpers
    /\ stage[c] = "new"
    /\ \A d \in Clients : stage[d] # "admitted"
    /\ table[f] = Nobody
    /\ stage' = [stage EXCEPT ![c] = "admitted"]
    /\ table' = [table EXCEPT ![f] = c]
    /\ UNCHANGED <<phase, helpers, listed, doomed, task>>

List(c) ==
    /\ stage[c] = "admitted" /\ c \notin listed
    /\ listed' = listed \cup {c}
    /\ UNCHANGED <<phase, helpers, stage, table, doomed, task>>

Serve(c) ==
    /\ stage[c] = "admitted" /\ c \in listed
    /\ stage' = [stage EXCEPT ![c] = "served"]
    /\ UNCHANGED <<phase, helpers, table, listed, doomed, task>>

\* Whoever comes later finds it done.
Doom(c) ==
    /\ c \in listed \ doomed
    /\ doomed' = doomed \cup {c}
    /\ UNCHANGED <<phase, helpers, stage, table, listed, task>>

Release(f) ==
    /\ table[f] \in doomed
    /\ table' = [table EXCEPT ![f] = Nobody]
    /\ UNCHANGED <<phase, helpers, stage, listed, doomed, task>>

Leave(c) ==
    /\ stage[c] = "served" /\ c \in doomed
    /\ stage' = [stage EXCEPT ![c] = "gone"]
    /\ listed' = listed \ {c}
    /\ UNCHANGED <<phase, helpers, table, doomed, task>>

\* A session's thread puts something off, or the helper of missions does.
PutOff(i) ==
    /\ "udp" \in helpers \/ \E c \in listed : stage[c] = "served"
    /\ task[i] = "new"
    /\ task' = [task EXCEPT ![i] = "due"]
    /\ UNCHANGED <<phase, helpers, stage, table, listed, doomed>>

Finish(i) ==
    /\ task[i] = "due"
    /\ task' = [task EXCEPT ![i] = "done"]
    /\ UNCHANGED <<phase, helpers, stage, table, listed, doomed>>

\* Nobody is left between the door and a thread of its own.
DismissAcceptor ==
    /\ "acceptor" \in helpers
    /\ \A c \in Clients : stage[c] # "admitted"
    /\ helpers' = helpers \ {"acceptor"}
    /\ UNCHANGED <<phase, stage, table, listed, doomed, task>>

\* The helper of missions is needed as long as the server is open.
DismissUdp ==
    /\ phase = "closing"
    /\ "udp" \in helpers
    /\ helpers' = helpers \ {"udp"}
    /\ UNCHANGED <<phase, stage, table, listed, doomed, task>>

Shut ==
    /\ phase = "open"
    /\ phase' = "closing"
    /\ UNCHANGED <<helpers, stage, table, listed, doomed, task>>

End ==
    /\ phase = "closing"
    /\ helpers = {} /\ listed = {}
    /\ \A c \in Clients : stage[c] \in {"new", "gone"}
    /\ \A f \in Descriptors : table[f] = Nobody
    /\ \A i \in Actions : task[i] # "due"
    /\ phase' = "over"
    /\ UNCHANGED <<helpers, stage, table, listed, doomed, task>>

RosterNext ==
    \/ Shut \/ End \/ DismissAcceptor \/ DismissUdp
    \/ \E c \in Clients :
        \/ List(c) \/ Serve(c) \/ Doom(c) \/ Leave(c)
        \/ \E f \in Descriptors : Admit(c, f)
    \/ \E f \in Descriptors : Release(f)
    \/ \E i \in Actions : PutOff(i) \/ Finish(i)

RosterSpec == RosterInit /\ [][RosterNext]_rosterVars
=============================================================================
