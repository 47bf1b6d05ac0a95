------------------------------- MODULE UdpWire -------------------------------
(***************************************************************************)
(* One client and the game server over UDP, datagram by datagram           *)
(* (GameServer::loop, UdpGameServer.cpp; UdpGamePackets.cpp; the replies   *)
(* of UdpCombat.cpp).  The client frames packets; the network loses,       *)
(* repeats, reorders and damages what was framed; the server takes what    *)
(* passes its checks and replies on a reliable, a sequenced and an         *)
(* unsequenced channel.  Replies are followed to the point where they are  *)
(* sent: the server keeps none of them to send it again.                   *)
(*                                                                         *)
(* The server runs with --experimental-game-udp-sync.  Ticks and mission   *)
(* results are in UdpMission; hit indexes, motion names and positions,     *)
(* which nothing here depends on, are zero bytes.                          *)
(***************************************************************************)
EXTENDS UdpCodec, SequencesExt

CONSTANTS
    Streams,        \* what the client may put into a kind-1 or kind-0 frame
    ReliablePackets,    \* ... and into a kind-2 frame
    Contexts,       \* what game_udp_initial_sync_context may return
    NoContext,
    MaxFrames,      \* bound: frames of the client
    MaxReceipts,    \* bound: datagrams that arrive
    BaseSpan,       \* 65536 in the code: sequence bases are 16 bits wide
    PlayerLife, ObjectiveLife, HostileLife,     \* 600, 1200, 400 in the code
    MaxSpirit       \* 100 in the code

ASSUME BasesStepByEight == BaseSpan % 8 = 0

VARIABLES
    frames,         \* history: frames of the client, with their contents
    peer,           \* the server's state of this client (PeerState)
    heard           \* history: what the replies tell a client that gets all

vars == <<frames, peer, heard>>

Player == 64
Objective == 2
Hostile == 3

Init ==
    /\ frames = {}
    /\ peer = [reliable |-> 0, sequenced |-> 0, session |-> "initial",
               token |-> 0, synced |-> FALSE, started |-> FALSE,
               stats |-> FALSE,
               combat |-> Player :> [life |-> 0, most |-> 0, spirit |-> 0,
                                     category |-> 0]]
    /\ heard = [reliable |-> 0, sequenced |-> 0, entry |-> <<>>,
                shown |-> [o \in {} |-> <<>>], acks |-> {}, acted |-> {},
                received |-> 0]

-----------------------------------------------------------------------------
\* The client.

\* Bases count up per kind; a probe's word is arbitrary, here base 0.
NextBase(kind) == 8 * Cardinality({f \in frames : f.kind = kind})

Send(kind, stream) ==
    /\ Cardinality(frames) < MaxFrames
    /\ frames' = frames \cup {[kind |-> kind, base |-> NextBase(kind) % BaseSpan,
                               stream |-> stream]}
    /\ UNCHANGED <<peer, heard>>

Bytes(f) ==
    Frame(f.kind, f.base, FlattenSeq([i \in DOMAIN f.stream |->
                                        EncodeInnerPacket(f.stream[i])]))

-----------------------------------------------------------------------------
\* What a client makes of a reply: it takes frames of the two ordered
\* channels in the order of their bases, without a gap.

Stat(payload) == <<ReadU16(payload, 3), ReadU16(payload, 7)>>

\* Statistics (0x10) are kept by object, the rest of the reliable channel in
\* its order.
TakeReliable(h, packet) ==
    IF packet.opcode = 16
       THEN [h EXCEPT !.shown = (ReadU16(packet.payload, 1) :>
                                    Stat(packet.payload)) @@ @]
       ELSE [h EXCEPT !.entry = Append(@, packet.opcode)]

Hear(h, bytes) ==
    LET kind == Kind(bytes)
    IN  CASE ~TransportChecksumOk(bytes) -> h
          [] kind = 2 /\ Base(bytes) = h.reliable ->
                [TakeReliable(h, DecodeInnerPacket(Inner(bytes)))
                    EXCEPT !.reliable = (@ + 8) % BaseSpan]
          [] kind = 1 /\ Base(bytes) = h.sequenced ->
                [h EXCEPT !.sequenced = (@ + 8) % BaseSpan]
          [] kind \in {4, 5} -> [h EXCEPT !.acks = @ \cup {<<kind, AckBase(bytes)>>}]
          [] kind = 6 -> [h EXCEPT !.acks = @ \cup {<<kind, Base(bytes)>>}]
          [] OTHER -> h

-----------------------------------------------------------------------------
\* Replies: operators on s = [peer, heard].

Reply(s, bytes) == [s EXCEPT !.heard = Hear(@, bytes)]

\* Mutant of SendReliable: the base is taken before the packet is encoded.
SendReliableBaseFirst(s, packet) ==
    LET base == s.peer.reliable
        t == [s EXCEPT !.peer.reliable = (@ + 8) % BaseSpan]
    IN  IF Encodable(packet)
           THEN Reply(t, Frame(2, base, EncodeInnerPacket(packet)))
           ELSE t

\* send_udp_reliable_inner: a packet that is too long throws, which is logged.
SendReliable(s, packet) ==
    IF Encodable(packet)
       THEN [Reply(s, Frame(2, s.peer.reliable, EncodeInnerPacket(packet)))
                EXCEPT !.peer.reliable = (@ + 8) % BaseSpan]
       ELSE s

\* send_udp_sequenced_inner
SendSequenced(s, packet) ==
    IF Encodable(packet)
       THEN [Reply(s, Frame(1, s.peer.sequenced, EncodeInnerPacket(packet)))
                EXCEPT !.peer.sequenced = (@ + 8) % BaseSpan]
       ELSE s

\* send_udp_unsequenced_inner
SendUnsequenced(s, packet) ==
    IF Encodable(packet) THEN Reply(s, Frame(0, 0, EncodeInnerPacket(packet)))
                         ELSE s

SendAllReliable(s, packets) == FoldLeft(SendReliable, s, packets)

Packet(opcode, payload) == [opcode |-> opcode, payload |-> payload]
Zeros(n) == [i \in 1..n |-> 0]

-----------------------------------------------------------------------------
\* Combat (HandleClientCombatEvent).

\* BuildCombatStatUpdatePayload
StatUpdate(o, c) ==
    Packet(16, U16(o) \o U16(c.life) \o U16(c.most) \o U16(c.spirit)
                    \o U16(100) \o <<0>>)

\* Mutant of ShowStat: nothing is sent for the player.
ShowStatOfOthers(s, o) ==
    IF o = Player THEN s ELSE SendReliable(s, StatUpdate(o, s.peer.combat[o]))

\* AddCombatStatUpdate
ShowStat(s, o) == SendReliable(s, StatUpdate(o, s.peer.combat[o]))

\* AddNativeLikeHitPackets: damage notice, relation, motion of the target and
\* motion event; the motions are as long as the client's.
ShowHit(s, source, target, damage, motion) ==
    LET s1 == SendSequenced(s, Packet(30, U16(source) \o U16(damage)))
        s2 == SendSequenced(s1, Packet(17, U16(source) \o U16(target) \o U16(0)
                                        \o U16(damage) \o <<0, 1, 0, 0, 0>>))
        s3 == SendUnsequenced(s2, Packet(23, U16(target) \o Zeros(2 + motion)))
    IN  SendSequenced(s3, Packet(8, U16(source) \o U16(target)
                                        \o Zeros(16 + motion)))

Smallest(a, b) == Min({a, b})
Gain(spirit, n) == Smallest(MaxSpirit, spirit + n)
TargetGain(damage) == Max({4, (damage \div 2) + 1})

\* 0x07: life and spirit of an object go to 0.
Clear(s, o) ==
    LET c == s.peer.combat[o]
    IN  IF o \in DOMAIN s.peer.combat /\ (c.life # 0 \/ c.spirit # 0)
           THEN ShowStat([s EXCEPT !.peer.combat[o].life = 0,
                                   !.peer.combat[o].spirit = 0], o)
           ELSE s

\* 0x3C: the player spends its spirit.
Spend(s, o) ==
    IF o = Player
       THEN ShowStat([s EXCEPT !.peer.combat[Player].spirit = 0], Player)
       ELSE s

\* 0x03 from the player
PlayerStrikes(s, o, motion) ==
    LET c == s.peer.combat[o]
        damage == Smallest(c.life, 6)
        hit == [s EXCEPT !.peer.combat[o].life = c.life - damage,
                         !.peer.combat[o].spirit = Gain(@, TargetGain(damage)),
                         !.peer.combat[Player].spirit = Gain(@, 1)]
    IN  IF /\ o \in DOMAIN s.peer.combat \ {Player}
           /\ c.life # 0 /\ c.category = Hostile
           THEN ShowHit(ShowStat(ShowStat(hit, o), Player),
                        Player, o, damage, motion)
           ELSE s

\* 0x03 from a living entity: it gains spirit whether it hits or not.
EntityStrikes(s, source, o, motion) ==
    LET c == s.peer.combat[o]
        damage == Smallest(c.life, 5)
        gained == ShowStat([s EXCEPT !.peer.combat[source].spirit = Gain(@, 3)],
                           source)
        hit == [gained EXCEPT !.peer.combat[o].life = @ - damage]
        mayHit == /\ o \in DOMAIN s.peer.combat
                  /\ c.life # 0
                  /\ o = Player \/ c.category = Objective
    IN  CASE ~(source \in DOMAIN s.peer.combat /\ s.peer.combat[source].life # 0)
                -> s
          [] mayHit -> ShowHit(ShowStat(hit, o), source, o, damage, motion)
          [] OTHER -> gained

\* A strike ends with the name of a motion (DecodeUtf16Tail): two bytes a
\* letter, and more than the zero that may end it.
NamesMotion(p) ==
    /\ Len(p) > 24 /\ Len(p) % 2 = 0
    /\ Len(p) = 26 => ReadU16(p, 25) # 0

\* HandleClientCombatEvent
Combat(s, packet) ==
    LET p == packet.payload
        motion == Len(p) - 24
    IN  CASE packet.opcode = 7 /\ Len(p) >= 2 -> Clear(s, ReadU16(p, 1))
          [] packet.opcode = 60 /\ Len(p) >= 4 -> Spend(s, ReadU16(p, 3))
          [] packet.opcode = 3 /\ NamesMotion(p) /\ ReadU16(p, 3) # 65535 ->
                IF ReadU16(p, 1) = Player
                   THEN PlayerStrikes(s, ReadU16(p, 3), motion)
                   ELSE EntityStrikes(s, ReadU16(p, 1), ReadU16(p, 3), motion)
          [] OTHER -> s

Acted(s, packets) == [s EXCEPT !.heard.acted = @ \cup packets]

-----------------------------------------------------------------------------
\* Entering a mission.

\* EntityCategory: a mission may leave the category to the object id.
CategoryOf(o) ==
    CASE o < 1004 -> 1
      [] 2004 <= o /\ o <= 4003 -> Objective
      [] 5004 <= o /\ o <= 7003 -> Hostile
      [] 8004 <= o /\ o < 10000 -> 4
      [] OTHER -> 0

\* BuildWorldSnapshot: the player, then what the mission lays out.  Names are
\* told by their bytes and by whether they are valid UTF-8, the player's tail
\* is seven pieces of equipment, a zero and its skills.  It throws without a
\* key or byte-sized id of the character.  (The trainers of rule 3 are left
\* out: that rule has no confirmed scene.)
CanBuild(c) == c.hasKey /\ c.character < ByteSpan

PlayerEntity(c) ==
    [object |-> Player, field |-> c.character, category |-> 1,
     names |-> c.names, valid |-> c.valid, tail |-> 4 * 7 + 4 + 2 * c.skills]

World(c) ==
    <<PlayerEntity(c)>>
        \o [i \in DOMAIN c.layout |->
                LET d == c.layout[i]
                IN  [object |-> d.object, field |-> d.field,
                     category |-> IF d.category >= 0 THEN d.category
                                                      ELSE CategoryOf(d.object),
                     names |-> d.names, valid |-> d.valid, tail |-> 0]]

\* BuildRoomHeaderPayload
RoomHeader(c, world) ==
    Packet(2, <<Smallest(Len(world), 255)>> \o U16(c.rule) \o Zeros(c.scene))

\* BuildControl23Payload: slots 1 and 2 of the player.
Control(slot) == Packet(35, U16(Player) \o <<slot, 1>> \o Zeros(9))

\* BuildEntityPayload
EntityPacket(token, e) ==
    Packet(3, U32(token) \o U16(e.object) \o <<e.field, e.category>>
                \o Zeros(22 + e.names + e.tail))

CombatState(world) ==
    LET Life(e) == IF e.category = Objective THEN ObjectiveLife ELSE HostileLife
        State(life, category) == [life |-> life, most |-> life, spirit |-> 0,
                                  category |-> category]
        fighters == {i \in 2..Len(world) :
                        world[i].category \in {Objective, Hostile}}
        Fighter(o) == CHOOSE i \in fighters : world[i].object = o
    IN  [o \in {Player} \cup {world[i].object : i \in fighters} |->
            IF o = Player THEN State(PlayerLife, 1)
            ELSE State(Life(world[Fighter(o)]), world[Fighter(o)].category)]

\* BuildEntityPayload throws at the first entity with a name that is not
\* valid UTF-8: those before it have been sent.
Built(world) ==
    LET torn == {i \in DOMAIN world : ~world[i].valid}
    IN  IF torn = {} THEN world ELSE SubSeq(world, 1, Min(torn) - 1)

\* The sync of the first handshake: header, controls, entities, completion.
\* A scene whose name is too long throws before anything is sent; an entity
\* that cannot be built leaves the combat state as it was and ends the sync
\* without its completion.
SendWorld(s, c) ==
    LET world == World(c)
        token == IF s.peer.token # 0 THEN s.peer.token ELSE c.player
        sent == SendAllReliable(s, <<RoomHeader(c, world), Control(1), Control(2)>>
                    \o [i \in DOMAIN Built(world) |-> EntityPacket(token, world[i])])
        reset == [sent EXCEPT !.peer.combat = CombatState(world),
                              !.peer.stats = FALSE]
    IN  CASE ~(CanBuild(c) /\ c.scene <= 250) -> s
          [] Built(world) # world -> sent
          [] OTHER -> SendReliable(reset, Packet(4, <<>>))

\* It counts as sent also if the TCP side gave no context or if it threw.
InitialSync(s, c) ==
    LET t == IF c = NoContext THEN s ELSE SendWorld(s, c)
    IN  [t EXCEPT !.peer.synced = TRUE,
                  !.peer.session = IF @ = "accepted" THEN "syncSent" ELSE @]

\* send_initial_combat_stats: the player's, then the others' in the order of
\* an unordered map.
InitialStats(s) ==
    LET others == SetToSeq(DOMAIN s.peer.combat \ {Player})
    IN  IF s.peer.stats THEN s
        ELSE [FoldLeft(ShowStat, s, <<Player>> \o others) EXCEPT !.peer.stats = TRUE]

StartElapsed(s) ==
    [SendReliable(InitialStats(s), Packet(5, Zeros(4)))
        EXCEPT !.peer.started = TRUE, !.peer.session = "elapsedSent"]

-----------------------------------------------------------------------------
\* The server receives a datagram.

Server == [peer |-> peer, heard |-> heard]

\* Kind 0: the client asks for the current packet, and is told there is none.
Unsequenced(bytes) ==
    LET asks == SelectSeq(DecodeInnerStream(Inner(bytes)),
                          LAMBDA p : p.opcode = 2 /\ Len(p.payload) = 4)
    IN  FoldLeft(LAMBDA s, p : SendUnsequenced(s, Packet(6, Zeros(4))),
                 Acted(Server, Range(asks)), asks)

\* Kind 1: any number of combat events, whatever their own check bytes say.
Sequenced(bytes) ==
    LET packets == DecodeInnerStream(Inner(bytes))
    IN  Reply(FoldLeft(Combat, Acted(Server, Range(packets)), packets),
              AckList(Base(bytes), 4))

\* Mutant of MustSync: a repeated handshake is synced again.
IsHandshake(s, packet) == packet.opcode = 0 /\ Len(packet.payload) = 10

MustSync(s, packet) == IsHandshake(s, packet) /\ ~s.peer.synced

MustStart(s, packet) ==
    packet.opcode = 1 /\ packet.payload = <<>> /\ s.peer.synced /\ ~s.peer.started

\* What a kind-2 packet says of the session.
Session(s, packet) ==
    CASE IsHandshake(s, packet) ->
            [s EXCEPT !.peer.token = ReadU16(packet.payload, 1)
                                        + 65536 * ReadU16(packet.payload, 3),
                      !.peer.session = "accepted"]
      [] packet.opcode = 1 /\ packet.payload = <<>> ->
            [s EXCEPT !.peer.session = "ready"]
      [] packet.opcode = 10 -> [s EXCEPT !.peer.session = "started"]
      [] OTHER -> s

Readable(bytes) == Fits(Inner(bytes)) /\ InnerChecksumOk(Inner(bytes))

\* Kind 2: one packet, acknowledged also if it cannot be read; then the sync
\* or the start that it asks for.
Reliable(bytes, context) ==
    LET packet == DecodeInnerPacket(Inner(bytes))
        Acknowledged(s) == Reply(s, AckList(Base(bytes), 5))
        s1 == Acknowledged(Combat(Session(Acted(Server, {packet}), packet), packet))
    IN  CASE ~Readable(bytes) -> Acknowledged(Server)
          [] Readable(bytes) /\ MustSync(Server, packet) -> InitialSync(s1, context)
          [] Readable(bytes) /\ MustStart(Server, packet) -> StartElapsed(s1)
          [] OTHER -> s1

\* Only a sync asks for a context.
ContextsOf(bytes) ==
    IF /\ Kind(bytes) = 2 /\ Readable(bytes)
       /\ MustSync(Server, DecodeInnerPacket(Inner(bytes)))
       THEN Contexts \cup {NoContext}
       ELSE {NoContext}

Receive(bytes) ==
    /\ heard.received < MaxReceipts
    /\ \E context \in ContextsOf(bytes) :
        LET s == CASE Kind(bytes) = 0 -> Unsequenced(bytes)
                   [] Kind(bytes) = 1 -> Sequenced(bytes)
                   [] Kind(bytes) = 2 -> Reliable(bytes, context)
                   [] Kind(bytes) = 3 -> Reply(Server, ProbeReply(bytes))
                   [] OTHER -> Server
        IN  peer' = s.peer /\ heard' = [s.heard EXCEPT !.received = @ + 1]
    /\ UNCHANGED frames

-----------------------------------------------------------------------------
\* The network: nothing is taken from frames, so that a frame may arrive
\* never, again and after later ones.

\* One byte is another, or the end is missing.
Damaged(bytes) ==
    {[bytes EXCEPT ![i] = (@ + 1) % ByteSpan] : i \in DOMAIN bytes}
        \cup {SubSeq(bytes, 1, n) : n \in 1..Len(bytes) - 1}

PossibleFrames ==
    LET bases == {8 * n : n \in 0..MaxFrames - 1}
    IN  [kind : {2}, base : bases, stream : {<<p>> : p \in ReliablePackets}]
            \cup [kind : {0, 1}, base : bases, stream : Streams]
            \cup [kind : {3}, base : bases, stream : {<<>>}]

\* What may arrive of a frame and is not dropped for its check byte.
Arriving ==
    [f \in PossibleFrames |->
        {bytes \in {Bytes(f)} \cup Damaged(Bytes(f)) : TransportChecksumOk(bytes)}]

Arrive(f) == \E bytes \in Arriving[f] : Receive(bytes)

Next ==
    \/ \E packet \in ReliablePackets : Send(2, <<packet>>)
    \/ \E kind \in {0, 1}, stream \in Streams : Send(kind, stream)
    \/ Send(3, <<>>)
    \/ \E f \in frames : Arrive(f)

Spec == Init /\ [][Next]_vars

-----------------------------------------------------------------------------
(* Properties *)

\* What the server acts on is what the client framed, and what it
\* acknowledges is a frame of that kind and base: however a datagram was
\* damaged, cut, repeated or overtaken, no packet and no acknowledgement is
\* invented by the check bytes, the stream decoder or the scrambled headers.
NothingIsInvented ==
    /\ heard.acted \subseteq UNION {Range(f.stream) : f \in frames}
    /\ \A ack \in heard.acks :
        \E f \in frames : /\ ack[2] = f.base
                          /\ ack[1] = CASE f.kind = 1 -> 4
                                        [] f.kind = 2 -> 5
                                        [] OTHER -> 6

\* The order in which a mission is entered (UdpGameServer.cpp:555-699), as a
\* client hears it that takes the ordered channels without gaps, whatever it
\* repeats: header, controls and entities at most once, then the completion
\* or, after an entity that could not be built, nothing more of the sync; the
\* start at most once and never before that.  The client is told that the
\* world is complete exactly when the server fights with all of it; and a
\* packet that could not be encoded leaves no hole in the bases, behind which
\* the client would wait forever.
SyncIsInOrder ==
    /\ heard.reliable = peer.reliable /\ heard.sequenced = peer.sequenced
    /\ LET world == SelectSeq(heard.entry, LAMBDA o : o # 5)
           entities == SelectSeq(world, LAMBDA o : o = 3)
           whole == peer.combat[Player].most # 0
       IN  /\ world \in {<<>>, <<2, 35, 35>> \o entities,
                         <<2, 35, 35>> \o entities \o <<4>>}
           /\ 4 \in Range(world) <=> whole
           /\ heard.entry \in {world, Append(world, 5)}
           /\ (world # <<>> \/ peer.started) => peer.synced

\* Once a mission has started, the life and spirit that the client was last
\* shown for an object (0x10) are those that the server fights with, for
\* every object there is: no combat event may change the one without the
\* other, and no earlier value may be sent after a later one.
StatsAreShown ==
    peer.started =>
        \A o \in DOMAIN peer.combat :
            /\ o \in DOMAIN heard.shown
            /\ heard.shown[o] = <<peer.combat[o].life, peer.combat[o].spirit>>
=============================================================================
