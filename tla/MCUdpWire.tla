------------------------------ MODULE MCUdpWire ------------------------------
(* A client of one mission: packets of real size with few contents.  The     *)
(* last byte of the handshake and of the entity's strike is 1 on the wire:    *)
(* without it a datagram still passes the transport check.                    *)
EXTENDS UdpWire

MCPlayer == 64
MCHostile == 5068
MCObjective == 2004

Handshake == Packet(0, U32(7) \o U32(0) \o U16(38149))
Ready == Packet(1, <<>>)
Started == Packet(10, <<>>)
Current == Packet(2, U32(1))
Cleared(o) == Packet(7, U16(o))
Ultimate == Packet(60, U16(MCHostile) \o U16(MCPlayer))
Strike(source, target) ==
    Packet(3, U16(source) \o U16(target) \o Zeros(20) \o U16(17249))

MCReliablePackets ==
    {Handshake, Ready, Started, Ultimate, Cleared(MCObjective)}

MCStreams ==
    {<<Strike(MCPlayer, MCHostile), Strike(MCHostile, MCPlayer)>>,
     <<Strike(MCHostile, MCObjective), Current>>}

\* Two lines of mission_0_6.csv, the second of which leaves the category to
\* the object id, and two that are no entities.
D == INSTANCE GameData WITH LowerKey <- <<>>

LayoutLine(object, category, place, resource, names) ==
    D!Line(20, (1 :> D!Number(object)) @@ (3 :> category)
                @@ (14 :> place) @@ (15 :> place) @@ (16 :> place)
                @@ (17 :> D!Text(resource)) @@ (18 :> D!Text(names)))

MCLayout == <<
    LayoutLine(MCObjective, D!Number(2), D!Coordinate, "macha_key", "Transport"),
    LayoutLine(MCHostile, D!Empty, D!Number(0), "green_key", "Ramuel"),
    LayoutLine(MCHostile + 8, D!Empty, D!Empty, "green_key", "Ramuel"),
    LayoutLine(70000, D!Empty, D!Number(0), "green_key", "Ramuel")>>

Mission ==
    D!Missions(<<D!Line(35, 0 :> D!Number(10005))>>, 30,
               "mission_0_6" :> MCLayout)[10005]

Laid(e) ==
    [object |-> e.object, category |-> e.category, field |-> e.field, valid |-> TRUE,
     names |-> Len(e.names[1]) + Len(e.names[2]) + Len(e.names[3])]
Layout ==
    [i \in DOMAIN Mission.entity_definitions |-> Laid(Mission.entity_definitions[i])]

CharacterLine(id, key) ==
    D!Line(19, (1 :> D!Number(id)) @@ (11 :> D!Text("Baek-Ho")) @@ (18 :> D!Text(key)))
AssetKeys == D!AssetKeys(<<CharacterLine(1, "asia_beakho_key"), CharacterLine(1, ""),
                           CharacterLine(2, "")>>)

\* With an entity whose names are too long for a packet; with one whose names
\* are no UTF-8; with a scene name that is too long; and a character without
\* asset key.
Playing(character) ==
    [rule |-> 10005, scene |-> 24, player |-> 3, character |-> character,
     hasKey |-> character \in DOMAIN AssetKeys, names |-> 12, skills |-> 2, valid |-> TRUE,
     layout |-> Layout @@ <<>>]

MCContexts ==
    {Playing(1),
     [Playing(1) EXCEPT !.layout[1].names = 240],
     [Playing(1) EXCEPT !.layout[2].valid = FALSE],
     [Playing(1) EXCEPT !.scene = 252],
     Playing(2)}

MCNoContext == [rule |-> 0]
=============================================================================
