----------------------------- MODULE UdpMission -----------------------------
(***************************************************************************)
(* Missions played over UDP: the game server's only thread                 *)
(* (GameServer::loop, UdpGameServer.cpp) and the peers it keeps, the       *)
(* combat it mirrors (HandleClientCombatEvent, UdpCombat.cpp), and the     *)
(* bridge by which it asks the TCP server for a room and reports a         *)
(* mission's result to it (TcpUdpBridge.cpp, TcpRoomStartHandlers.cpp).    *)
(*                                                                         *)
(* The server runs with --experimental-game-udp-sync; without it the code  *)
(* below answers no frame.  Datagrams come in any order and number: UDP    *)
(* loses, repeats and reorders them and the server tells no two of a kind  *)
(* apart, so a frame may be handled whenever the thread is idle.  What is  *)
(* only logged or sent (native session state, sequence bases, hit chains,  *)
(* motions) is left out.                                                   *)
(***************************************************************************)
EXTENDS Integers, FiniteSets

CONSTANTS
    Peers,          \* UDP endpoints, keys of peers_
    Clients,        \* TCP client ids
    NoClient,       \* 0: no TCP client
    Player,         \* object id of the player (0x0040)
    Objectives,     \* objects of category 2
    Hostiles,       \* objects of category 3
    PlayerLife, ObjectiveLife, HostileLife,     \* 600, 1200, 400 in the code
    MaxSpirit       \* kMaxSpiritualStrength, 100 in the code

ASSUME NoClientIsNone == NoClient \notin Clients
ASSUME ObjectsDiffer ==
    /\ Objectives \cap Hostiles = {}
    /\ Player \notin Objectives \cup Hostiles
ASSUME LivesArePositive ==
    /\ {PlayerLife, ObjectiveLife, HostileLife} \subseteq Nat \ {0}
    /\ MaxSpirit \in Nat

VARIABLES
    tcp,            \* tcp[c]: "new", "up" or "gone"
    pending,        \* game_udp_pending_client_id_
    thread,         \* where the UDP thread is, and with which locals
    synced,         \* synced[p]: sent_initial_room_sync
    started,        \* started[p]: sent_start_elapsed
    client,         \* client[p]: client_id, set together with the mission
    laidOut,        \* laidOut[p]: combat state and clock have been set
    expired,        \* expired[p]: the mission's time is up
    tickDue,        \* tickDue[p]: no tick within the last three seconds
    life,           \* life[p][o]: life_force_current
    spirit,         \* spirit[p][o]: spiritual_strength_current
    dead,           \* dead[p]: dead_combat_entities
    verdict,        \* verdict[p]: what mission_result_sent stands for
    outbox,         \* delayed 0x29 actions of the packet scheduler
    received        \* history: the 0x29 results that clients got

tcpVars == <<tcp, pending, received>>
flagVars == <<synced, started, client, laidOut, expired>>
combatVars == <<life, spirit, dead>>
verdictVars == <<verdict, outbox>>
vars == <<tcpVars, thread, flagVars, tickDue, combatVars, verdictVars>>

Entities == Objectives \cup Hostiles
Objects == {Player} \cup Entities
Verdicts == {"success", "failure"}
Result == [peer : Peers, client : Clients, verdict : Verdicts]

PlayerAttackDamage == 6
NpcAttackDamage == 5
PlayerSpiritGain == 1
MinTargetSpiritGain == 4
NpcSpiritGain == 3

Smaller(a, b) == IF a <= b THEN a ELSE b
Larger(a, b) == IF a <= b THEN b ELSE a

InitialLife(o) ==
    CASE o = Player -> PlayerLife
      [] o \in Objectives -> ObjectiveLife
      [] OTHER -> HostileLife

Idle == [at |-> "idle"]
At(place, p) == [at |-> place, peer |-> p]

Threads ==
    {Idle}
        \cup [at : {"packets", "sync", "tick"}, peer : Peers]
        \cup [at : {"bind"}, peer : Peers, client : Clients \cup {NoClient}]

Init ==
    /\ tcp = [c \in Clients |-> "new"]
    /\ pending = NoClient
    /\ thread = Idle
    /\ synced = [p \in Peers |-> FALSE]
    /\ started = [p \in Peers |-> FALSE]
    /\ client = [p \in Peers |-> NoClient]
    /\ laidOut = [p \in Peers |-> FALSE]
    /\ expired = [p \in Peers |-> FALSE]
    /\ tickDue = [p \in Peers |-> TRUE]
    /\ life = [p \in Peers |-> [o \in Objects |-> 0]]
    /\ spirit = [p \in Peers |-> [o \in Objects |-> 0]]
    /\ dead = [p \in Peers |-> {}]
    /\ verdict = [p \in Peers |-> "none"]
    /\ outbox = {}
    /\ received = {}
-----------------------------------------------------------------------------
(* The end of a mission *)

\* maybe_queue_terminal_mission_result without the time: the player or an
\* objective has no life left.  Before the combat state is laid out the
\* player has no maximum either, and there are no entities.
Lost(p, lives) ==
    /\ laidOut[p]
    /\ \E o \in {Player} \cup Objectives : lives[o] = 0

MayEnd(p) == verdict[p] = "none" /\ client[p] # NoClient

\* Mutant of QueueResult: the result counts as sent when it is on its way.
QueueUnmarked(p, v) ==
    IF tcp[client[p]] = "up"
       THEN /\ verdict' = [verdict EXCEPT ![p] = v]
            /\ outbox' = outbox \cup {[peer |-> p, client |-> client[p],
                                      verdict |-> v]}
       ELSE UNCHANGED verdictVars

\* queue_mission_result and send_mission_result_from_udp: the result is
\* marked as sent, and dropped if its TCP session is not there any more.
QueueResult(p, v) ==
    /\ verdict' = [verdict EXCEPT ![p] = v]
    /\ outbox' = IF tcp[client[p]] = "up"
                    THEN outbox \cup {[peer |-> p, client |-> client[p],
                                       verdict |-> v]}
                    ELSE outbox

\* Mutant of JudgeCombat: the objectives are forgotten.
JudgePlayerOnly(p) ==
    IF MayEnd(p) /\ laidOut[p] /\ life'[p][Player] = 0
       THEN QueueResult(p, "failure")
       ELSE UNCHANGED verdictVars

\* The check that handle_client_combat_event ends with.
JudgeCombat(p) ==
    IF MayEnd(p) /\ Lost(p, life'[p])
       THEN QueueResult(p, "failure")
       ELSE UNCHANGED verdictVars
-----------------------------------------------------------------------------
(* Combat events, by the frames that carry them *)

Gain(s, delta) == Smaller(MaxSpirit, s + delta)

\* TargetSpiritGainForDamage
TargetGain(damage) == Larger(MinTargetSpiritGain, (damage \div 2) + 1)

\* Mutant of SetLife: an objective's death is not recorded.
SetLifeOfHostile(p, o, n) ==
    /\ life' = [life EXCEPT ![p][o] = n]
    /\ dead' = [dead EXCEPT ![p] = IF n = 0 /\ o \in Hostiles THEN @ \cup {o}
                                                              ELSE @]

SetLife(p, o, n) ==
    /\ life' = [life EXCEPT ![p][o] = n]
    /\ dead' = [dead EXCEPT ![p] = IF n = 0 /\ o # Player THEN @ \cup {o}
                                                         ELSE @]

\* 0x07: an object is cleared.
ClearObject(p, o) ==
    /\ life[p][o] # 0 \/ spirit[p][o] # 0
    /\ SetLife(p, o, 0)
    /\ spirit' = [spirit EXCEPT ![p][o] = 0]

\* 0x3C: the player spends its spirit, whatever the target.
SpendSpirit(p) ==
    /\ spirit' = [spirit EXCEPT ![p][Player] = 0]
    /\ UNCHANGED <<life, dead>>

\* 0x03 from the player, who need not be alive: only hostiles are hurt.
PlayerStrikes(p, o) ==
    /\ o \in Hostiles
    /\ life[p][o] # 0
    /\ LET damage == Smaller(life[p][o], PlayerAttackDamage)
       IN /\ SetLife(p, o, life[p][o] - damage)
          /\ spirit' = [spirit EXCEPT
                            ![p][o] = Gain(@, TargetGain(damage)),
                            ![p][Player] = Gain(@, PlayerSpiritGain)]

\* 0x03 from a living entity: it gains spirit whether it hits or not, and
\* hurts only the player and objectives.
NpcStrikes(p, s, o) ==
    /\ s \in Entities
    /\ life[p][s] # 0
    /\ spirit' = [spirit EXCEPT ![p][s] = Gain(@, NpcSpiritGain)]
    /\ IF o \in {Player} \cup Objectives /\ life[p][o] # 0
          THEN SetLife(p, o, life[p][o] - Smaller(life[p][o], NpcAttackDamage))
          ELSE UNCHANGED <<life, dead>>

\* HandleClientCombatEvent: whichever of these the packet says, or nothing
\* for any other opcode and for objects that are not there.
HandleCombat(p) ==
    \/ \E o \in Objects : ClearObject(p, o) \/ PlayerStrikes(p, o)
    \/ \E s \in Entities, o \in Objects : NpcStrikes(p, s, o)
    \/ SpendSpirit(p)
    \/ UNCHANGED combatVars

CombatEvent(p) == HandleCombat(p) /\ JudgeCombat(p)
-----------------------------------------------------------------------------
(* Datagrams: every one of them ends in maybe_send_game_state_tick *)

\* A kind-1 datagram carries any number of packets.
SequencedDatagram(p) ==
    /\ thread = Idle
    /\ thread' = At("packets", p)
    /\ UNCHANGED <<tcpVars, flagVars, tickDue, combatVars, verdictVars>>

SequencedPacket(p) ==
    /\ thread = At("packets", p)
    /\ CombatEvent(p)
    /\ UNCHANGED <<tcpVars, thread, flagVars, tickDue>>

EndOfPackets(p) ==
    /\ thread = At("packets", p)
    /\ thread' = At("tick", p)
    /\ UNCHANGED <<tcpVars, flagVars, tickDue, combatVars, verdictVars>>

\* A kind-2 frame with a combat opcode.
ReliableCombat(p) ==
    /\ thread = Idle
    /\ CombatEvent(p)
    /\ thread' = At("tick", p)
    /\ UNCHANGED <<tcpVars, flagVars, tickDue>>

\* Mutant of Handshake: a repeated handshake is synced again.
HandshakeAgain(p) ==
    /\ thread = Idle
    /\ UNCHANGED combatVars
    /\ JudgeCombat(p)
    /\ thread' = At("sync", p)
    /\ UNCHANGED <<tcpVars, flagVars, tickDue>>

\* Kind 2, opcode 0x00: the handshake, repeated as often as the client likes.
Handshake(p) ==
    /\ thread = Idle
    /\ UNCHANGED combatVars
    /\ JudgeCombat(p)
    /\ thread' = At(IF synced[p] THEN "tick" ELSE "sync", p)
    /\ UNCHANGED <<tcpVars, flagVars, tickDue>>

\* game_udp_initial_sync_context first loads the pending client ...
LoadPending(p) ==
    /\ thread = At("sync", p)
    /\ thread' = [at |-> "bind", peer |-> p, client |-> pending]
    /\ UNCHANGED <<tcpVars, flagVars, tickDue, combatVars, verdictVars>>

\* ... and then finds no session, room, mission or character for it: the sync
\* is withheld, and counts as sent.
WithholdSync(p) ==
    /\ thread.at = "bind" /\ thread.peer = p
    /\ synced' = [synced EXCEPT ![p] = TRUE]
    /\ thread' = At("tick", p)
    /\ UNCHANGED <<tcpVars, started, client, laidOut, expired, tickDue,
                   combatVars, verdictVars>>

\* ... or finds them, and the peer is bound to the client for good.  A
\* payload that cannot be built throws half-way: the peer is bound, but has
\* neither combat state nor clock.
SendSync(p) ==
    /\ thread.at = "bind" /\ thread.peer = p
    /\ thread.client \in Clients
    /\ tcp[thread.client] = "up"
    /\ synced' = [synced EXCEPT ![p] = TRUE]
    /\ client' = [client EXCEPT ![p] = thread.client]
    /\ verdict' = [verdict EXCEPT ![p] = "none"]
    /\ \/ /\ laidOut' = [laidOut EXCEPT ![p] = TRUE]
          /\ life' = [life EXCEPT ![p] = [o \in Objects |-> InitialLife(o)]]
          /\ spirit' = [spirit EXCEPT ![p] = [o \in Objects |-> 0]]
          /\ dead' = [dead EXCEPT ![p] = {}]
       \/ UNCHANGED <<laidOut, combatVars>>
    /\ thread' = At("tick", p)
    /\ UNCHANGED <<tcpVars, started, expired, tickDue, outbox>>

\* Kind 2, opcode 0x01: the client is ready.  Before the sync this does
\* nothing, after it the mission starts and a tick is due.
ClientReady(p) ==
    /\ thread = Idle
    /\ UNCHANGED combatVars
    /\ JudgeCombat(p)
    /\ IF synced[p] /\ ~started[p]
          THEN /\ started' = [started EXCEPT ![p] = TRUE]
               /\ tickDue' = [tickDue EXCEPT ![p] = TRUE]
          ELSE UNCHANGED <<started, tickDue>>
    /\ thread' = At("tick", p)
    /\ UNCHANGED <<tcpVars, synced, client, laidOut, expired>>

\* Probes, acknowledgements, unsequenced frames, frames whose inner packet is
\* damaged: nothing but the tick.
OtherDatagram(p) ==
    /\ thread = Idle
    /\ thread' = At("tick", p)
    /\ UNCHANGED <<tcpVars, flagVars, tickDue, combatVars, verdictVars>>

\* Mutant of Tick: the remaining time is not compared.
TickWithoutClock(p) ==
    /\ thread = At("tick", p)
    /\ thread' = Idle
    /\ IF started[p] /\ verdict[p] = "none" /\ tickDue[p]
          THEN /\ tickDue' = [tickDue EXCEPT ![p] = FALSE]
               /\ IF MayEnd(p) THEN QueueResult(p, "success")
                               ELSE UNCHANGED verdictVars
          ELSE UNCHANGED <<tickDue, verdictVars>>
    /\ UNCHANGED <<tcpVars, flagVars, combatVars>>

\* Mutant of Tick: the tick is sent, the terminal check forgotten.
TickOnly(p) ==
    /\ thread = At("tick", p)
    /\ thread' = Idle
    /\ tickDue' = [tickDue EXCEPT
                      ![p] = @ /\ ~(started[p] /\ verdict[p] = "none")]
    /\ UNCHANGED <<tcpVars, flagVars, combatVars, verdictVars>>

\* maybe_send_game_state_tick: the time is looked at nowhere else.
Tick(p) ==
    /\ thread = At("tick", p)
    /\ thread' = Idle
    /\ IF started[p] /\ verdict[p] = "none" /\ tickDue[p]
          THEN /\ tickDue' = [tickDue EXCEPT ![p] = FALSE]
               /\ CASE MayEnd(p) /\ expired[p] -> QueueResult(p, "success")
                    [] MayEnd(p) /\ ~expired[p] /\ Lost(p, life[p]) ->
                            QueueResult(p, "failure")
                    [] OTHER -> UNCHANGED verdictVars
          ELSE UNCHANGED <<tickDue, verdictVars>>
    /\ UNCHANGED <<tcpVars, flagVars, combatVars>>
-----------------------------------------------------------------------------
(* Time *)

TimeRunsOut(p) ==
    /\ laidOut[p] /\ ~expired[p]
    /\ expired' = [expired EXCEPT ![p] = TRUE]
    /\ UNCHANGED <<tcpVars, thread, synced, started, client, laidOut, tickDue,
                   combatVars, verdictVars>>

TickFallsDue(p) ==
    /\ started[p] /\ ~tickDue[p]
    /\ tickDue' = [tickDue EXCEPT ![p] = TRUE]
    /\ UNCHANGED <<tcpVars, thread, flagVars, combatVars, verdictVars>>
-----------------------------------------------------------------------------
(* The TCP side *)

Connect(c) ==
    /\ tcp[c] = "new"
    /\ tcp' = [tcp EXCEPT ![c] = "up"]
    /\ UNCHANGED <<pending, received, thread, flagVars, tickDue, combatVars,
                   verdictVars>>

\* handle_room_start_request: the last client that asks is the pending one.
RoomStart(c) ==
    /\ tcp[c] = "up"
    /\ pending' = c
    /\ UNCHANGED <<tcp, received, thread, flagVars, tickDue, combatVars,
                   verdictVars>>

\* The session is closed; ids are not used again.
Disconnect(c) ==
    /\ tcp[c] = "up"
    /\ tcp' = [tcp EXCEPT ![c] = "gone"]
    /\ UNCHANGED <<pending, received, thread, flagVars, tickDue, combatVars,
                   verdictVars>>

\* The delay of a 0x29 is over: sent, or dropped with a closed session.
DeliverResult(r) ==
    /\ r \in outbox
    /\ outbox' = outbox \ {r}
    /\ received' = IF tcp[r.client] = "up" THEN received \cup {r}
                                           ELSE received
    /\ UNCHANGED <<tcp, pending, thread, flagVars, tickDue, combatVars,
                   verdict>>
-----------------------------------------------------------------------------

ThreadSteps(p) ==
    \/ EndOfPackets(p) \/ LoadPending(p) \/ WithholdSync(p) \/ SendSync(p)
    \/ Tick(p)

Datagrams(p) ==
    \/ SequencedDatagram(p) \/ ReliableCombat(p) \/ Handshake(p)
    \/ ClientReady(p) \/ OtherDatagram(p)

Next ==
    \/ \E p \in Peers :
        \/ ThreadSteps(p) \/ SequencedPacket(p) \/ Datagrams(p)
        \/ TimeRunsOut(p) \/ TickFallsDue(p)
    \/ \E c \in Clients : Connect(c) \/ RoomStart(c) \/ Disconnect(c)
    \/ \E r \in outbox : DeliverResult(r)

Spec == Init /\ [][Next]_vars

\* The thread works through the datagram it has, time passes, the scheduler
\* runs what it was given, and every client keeps sending something: the
\* socket queues datagrams, so they are received however busy the thread is.
FairSpec ==
    /\ Spec
    /\ \A p \in Peers :
        /\ WF_vars(ThreadSteps(p))
        /\ WF_vars(TimeRunsOut(p)) /\ WF_vars(TickFallsDue(p))
        /\ SF_vars(OtherDatagram(p))
    /\ WF_vars(\E r \in outbox : DeliverResult(r))
-----------------------------------------------------------------------------
(* Properties *)

TypeOK ==
    /\ tcp \in [Clients -> {"new", "up", "gone"}]
    /\ pending \in Clients \cup {NoClient}
    /\ thread \in Threads
    /\ synced \in [Peers -> BOOLEAN]
    /\ started \in [Peers -> BOOLEAN]
    /\ client \in [Peers -> Clients \cup {NoClient}]
    /\ laidOut \in [Peers -> BOOLEAN]
    /\ expired \in [Peers -> BOOLEAN]
    /\ tickDue \in [Peers -> BOOLEAN]
    /\ life \in [Peers -> [Objects -> Nat]]
    /\ spirit \in [Peers -> [Objects -> 0..MaxSpirit]]
    /\ dead \in [Peers -> SUBSET Entities]
    /\ verdict \in [Peers -> Verdicts \cup {"none"}]
    /\ outbox \subseteq Result
    /\ received \subseteq Result

\* A mission that is lost has been reported: no combat event takes the
\* player's or an objective's last life without the terminal check after it
\* (handle_client_combat_event), whether the mission has started or not.
LostMissionsAreReported ==
    \A p \in Peers :
        client[p] # NoClient /\ Lost(p, life[p]) => verdict[p] # "none"

\* A verdict keeps being true: who lost the mission is not alive again, and a
\* success was not reported before the time was up.
VerdictsStand ==
    \A p \in Peers :
        /\ verdict[p] = "failure" => Lost(p, life[p])
        /\ verdict[p] = "success" => expired[p]

\* dead_combat_entities is exactly the entities without life.
DeadAreLifeless ==
    \A p \in Peers :
        dead[p] = {o \in Entities : laidOut[p] /\ life[p][o] = 0}

\* Once laid out, no life of a mission rises and none of its dead come back,
\* whatever the client repeats, the handshake included.
LivesOnlyFall ==
    [][\A p \in Peers : laidOut[p] =>
          /\ \A o \in Objects : life'[p][o] <= life[p][o]
          /\ dead[p] \subseteq dead'[p]]_vars

\* A mission has one result: after the first verdict there is neither another
\* nor a second report of it, although the sync resets mission_result_sent.
ResultIsFinal ==
    [][\A p \in Peers : verdict[p] # "none" =>
          /\ verdict'[p] = verdict[p]
          /\ {r \in outbox' : r.peer = p} \subseteq outbox]_vars

\* A result on its way or received is the verdict of its peer's mission, for
\* the client that peer is still bound to: no handshake rebinds a peer to the
\* client that happens to be pending later.
ResultsMatchMissions ==
    \A r \in outbox \cup received :
        r.client = client[r.peer] /\ r.verdict = verdict[r.peer]

LostMissions == {p \in Peers : Lost(p, life[p])}

Ledger == INSTANCE MissionLedger WITH
    standing <- tcp, owner <- client, lost <- LostMissions, timeUp <- expired,
    outcome <- verdict, notices <- outbox, told <- received

\* Whatever the datagrams, the combat and the bridge do, a mission has one
\* owner and one outcome: a loss is judged in the step that brings it and can
\* never be won afterwards, a win is never before its time, and one notice
\* goes to the owner of the mission, who gets it unless it has gone.
ImplementsLedger == Ledger!LedgerSpec

\* A started mission that was laid out ends, and the client it is bound to is
\* told, unless it has gone: by what the combat does or when the time is up.
StartedMissionsEnd ==
    \A p \in Peers :
        laidOut[p] /\ started[p] ~>
            \/ \E r \in received : r.peer = p /\ r.verdict = verdict[p]
            \/ client[p] \in Clients /\ tcp[client[p]] = "gone"
=============================================================================
