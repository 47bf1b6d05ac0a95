-------------------------- MODULE MCLobbySessions --------------------------
EXTENDS LobbySessions

MCClients == 1..2
MCTwoLogins == {"player", "empty"}
MCMissions == {101}
=============================================================================
