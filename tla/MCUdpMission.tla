---------------------------- MODULE MCUdpMission ----------------------------
EXTENDS UdpMission

MCObjective == {"objective"}
MCTwoHostiles == {"hostile1", "hostile2"}
MCNoHostiles == {}
MCOneClient == {1}
MCClients == {1, 2}
=============================================================================
