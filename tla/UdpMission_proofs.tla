------------------------- MODULE UdpMission_proofs -------------------------
(***************************************************************************)
(* Theorems about UdpMission, for any number of peers, clients and         *)
(* objects and any lives: missions are typed, lives only fall, the dead    *)
(* are known, and results are true, final and addressed to the right       *)
(* client, and every step is one of the mission ledger's or a stutter.     *)
(* Combat is treated once, by what any packet can do to a peer             *)
(* (CombatStep); everything else about a mission is when its peer is       *)
(* bound (Bound).                                                          *)
(***************************************************************************)
EXTENDS UdpMission, TLAPS

CombatTypeOK ==
    /\ life \in [Peers -> [Objects -> Nat]]
    /\ spirit \in [Peers -> [Objects -> 0..MaxSpirit]]
    /\ dead \in [Peers -> SUBSET Entities]

\* What one packet can do to the lives, the spirits and the dead.
CombatStep(p) ==
    /\ life' \in [Peers -> [Objects -> Nat]]
    /\ spirit' \in [Peers -> [Objects -> 0..MaxSpirit]]
    /\ dead' \in [Peers -> SUBSET Entities]
    /\ \A q \in Peers \ {p} :
        life'[q] = life[q] /\ spirit'[q] = spirit[q] /\ dead'[q] = dead[q]
    /\ \A o \in Objects : life'[p][o] <= life[p][o]
    /\ (\A o \in Objects : life[p][o] = 0 /\ spirit[p][o] = 0) =>
            \A o \in Objects : life'[p][o] = 0 /\ spirit'[p][o] = 0
    /\ dead[p] = {o \in Entities : life[p][o] = 0} =>
            dead'[p] = {o \in Entities : life'[p][o] = 0}
    /\ (\A o \in Objects : life[p][o] = 0 /\ spirit[p][o] = 0) /\ dead[p] = {} =>
            dead'[p] = {}

\* Spirit stays in its range, however much is gained.
LEMMA GainIsClamped ==
    ASSUME NEW s \in 0..MaxSpirit, NEW delta \in Nat
    PROVE  Gain(s, delta) \in 0..MaxSpirit
BY LivesArePositive DEF Gain, Smaller

\* What is gained is a number.
LEMMA TargetGainIsNatural ==
    ASSUME NEW damage \in Nat
    PROVE  TargetGain(damage) \in Nat
BY DEF TargetGain, Larger, MinTargetSpiritGain

\* Setting a life that does not rise keeps lives and deaths in step.
LEMMA SetLifeStep ==
    ASSUME CombatTypeOK, NEW p \in Peers, NEW o \in Objects, NEW n \in Nat,
           n <= life[p][o], SetLife(p, o, n)
    PROVE  /\ life' \in [Peers -> [Objects -> Nat]]
           /\ dead' \in [Peers -> SUBSET Entities]
           /\ \A q \in Peers \ {p} : life'[q] = life[q] /\ dead'[q] = dead[q]
           /\ life'[p][o] = n
           /\ \A x \in Objects \ {o} : life'[p][x] = life[p][x]
           /\ dead[p] = {x \in Entities : life[p][x] = 0} =>
                    dead'[p] = {x \in Entities : life'[p][x] = 0}
<1>1. /\ life' \in [Peers -> [Objects -> Nat]]
      /\ \A q \in Peers \ {p} : life'[q] = life[q]
      /\ life'[p][o] = n
      /\ \A x \in Objects \ {o} : life'[p][x] = life[p][x]
  BY DEF SetLife, CombatTypeOK
<1>2. dead'[p] = IF n = 0 /\ o # Player THEN dead[p] \cup {o} ELSE dead[p]
  BY DEF SetLife, CombatTypeOK
<1>3. \A q \in Peers \ {p} : dead'[q] = dead[q]
  BY DEF SetLife, CombatTypeOK
<1>4. dead' \in [Peers -> SUBSET Entities]
  <2>1. o # Player => o \in Entities
    BY DEF Objects
  <2> QED BY <2>1 DEF SetLife, CombatTypeOK
<1>5. ASSUME dead[p] = {x \in Entities : life[p][x] = 0}
      PROVE  dead'[p] = {x \in Entities : life'[p][x] = 0}
  <2>1. Player \notin Entities
    BY ObjectsDiffer DEF Entities
  <2>2. Entities \subseteq Objects
    BY DEF Objects
  <2>3. CASE n = 0
    BY <1>1, <1>2, <1>5, <2>1, <2>2, <2>3 DEF Objects
  <2>4. CASE n # 0
    <3>1. life[p][o] # 0
      BY <2>4 DEF CombatTypeOK
    <3> QED BY <1>1, <1>2, <1>5, <2>2, <2>4, <3>1
  <2> QED BY <2>3, <2>4
<1> QED BY <1>1, <1>3, <1>4, <1>5

\* A cleared object steps.
LEMMA ClearObjectSteps ==
    ASSUME CombatTypeOK, NEW p \in Peers, NEW o \in Objects, ClearObject(p, o)
    PROVE  CombatStep(p)
<1>1. life[p][o] \in Nat
  BY DEF CombatTypeOK
<1>2. SetLife(p, o, 0)
  BY DEF ClearObject
<1>3. /\ life' \in [Peers -> [Objects -> Nat]]
      /\ dead' \in [Peers -> SUBSET Entities]
      /\ \A q \in Peers \ {p} : life'[q] = life[q] /\ dead'[q] = dead[q]
      /\ life'[p][o] = 0
      /\ \A x \in Objects \ {o} : life'[p][x] = life[p][x]
      /\ dead[p] = {x \in Entities : life[p][x] = 0} =>
               dead'[p] = {x \in Entities : life'[p][x] = 0}
  BY <1>1, <1>2, SetLifeStep
<1>4. /\ spirit' \in [Peers -> [Objects -> 0..MaxSpirit]]
      /\ \A q \in Peers \ {p} : spirit'[q] = spirit[q]
  BY LivesArePositive DEF ClearObject, CombatTypeOK
<1>5. ~ \A x \in Objects : life[p][x] = 0 /\ spirit[p][x] = 0
  BY DEF ClearObject
<1>6. \A x \in Objects : life'[p][x] <= life[p][x]
  BY <1>3 DEF CombatTypeOK
<1> QED BY <1>3, <1>4, <1>5, <1>6 DEF CombatStep

\* A blow of the player steps.
LEMMA PlayerStrikesSteps ==
    ASSUME CombatTypeOK, NEW p \in Peers, NEW o \in Objects,
           PlayerStrikes(p, o)
    PROVE  CombatStep(p)
<1> DEFINE damage == Smaller(life[p][o], PlayerAttackDamage)
<1>1. life[p][o] \in Nat
  BY DEF CombatTypeOK
<1>2. /\ damage \in Nat
      /\ life[p][o] - damage \in Nat
      /\ life[p][o] - damage <= life[p][o]
  BY <1>1 DEF Smaller, PlayerAttackDamage
<1>3. SetLife(p, o, life[p][o] - damage)
  BY DEF PlayerStrikes
<1>4. /\ life' \in [Peers -> [Objects -> Nat]]
      /\ dead' \in [Peers -> SUBSET Entities]
      /\ \A q \in Peers \ {p} : life'[q] = life[q] /\ dead'[q] = dead[q]
      /\ life'[p][o] = life[p][o] - damage
      /\ \A x \in Objects \ {o} : life'[p][x] = life[p][x]
      /\ dead[p] = {x \in Entities : life[p][x] = 0} =>
               dead'[p] = {x \in Entities : life'[p][x] = 0}
  BY <1>2, <1>3, SetLifeStep
<1>5. /\ spirit' \in [Peers -> [Objects -> 0..MaxSpirit]]
      /\ \A q \in Peers \ {p} : spirit'[q] = spirit[q]
  <2> DEFINE hurt == Gain(spirit[p][o], TargetGain(damage))
             keen == Gain(spirit[p][Player], PlayerSpiritGain)
  <2>1. Player \in Objects /\ o # Player
    BY ObjectsDiffer DEF PlayerStrikes, Objects
  <2>2. hurt \in 0..MaxSpirit
    BY <1>2, GainIsClamped, TargetGainIsNatural DEF CombatTypeOK
  <2>3. keen \in 0..MaxSpirit
    BY <2>1, GainIsClamped DEF CombatTypeOK, PlayerSpiritGain
  <2>4. spirit' = [spirit EXCEPT ![p][o] = hurt, ![p][Player] = keen]
    BY <2>1 DEF PlayerStrikes, CombatTypeOK
  <2> HIDE DEF hurt, keen
  <2> QED BY <2>1, <2>2, <2>3, <2>4 DEF CombatTypeOK
<1>6. ~ \A x \in Objects : life[p][x] = 0 /\ spirit[p][x] = 0
  BY DEF PlayerStrikes
<1>7. \A x \in Objects : life'[p][x] <= life[p][x]
  BY <1>2, <1>4 DEF CombatTypeOK
<1> QED BY <1>4, <1>5, <1>6, <1>7 DEF CombatStep

\* A blow of an entity steps.
LEMMA NpcStrikesSteps ==
    ASSUME CombatTypeOK, NEW p \in Peers, NEW s \in Entities,
           NEW o \in Objects, NpcStrikes(p, s, o)
    PROVE  CombatStep(p)
<1>1. life[p][o] \in Nat
  BY DEF CombatTypeOK
<1>2. s \in Objects
  BY DEF Objects
<1>3. /\ spirit' \in [Peers -> [Objects -> 0..MaxSpirit]]
      /\ \A q \in Peers \ {p} : spirit'[q] = spirit[q]
  <2> DEFINE keen == Gain(spirit[p][s], NpcSpiritGain)
  <2>1. keen \in 0..MaxSpirit
    BY <1>2, GainIsClamped DEF CombatTypeOK, NpcSpiritGain
  <2>2. spirit' = [spirit EXCEPT ![p][s] = keen]
    BY DEF NpcStrikes
  <2> HIDE DEF keen
  <2> QED BY <1>2, <2>1, <2>2 DEF CombatTypeOK
<1>4. ~ \A x \in Objects : life[p][x] = 0 /\ spirit[p][x] = 0
  BY <1>2 DEF NpcStrikes
<1>5. CASE o \in {Player} \cup Objectives /\ life[p][o] # 0
  <2> DEFINE damage == Smaller(life[p][o], NpcAttackDamage)
  <2>1. /\ life[p][o] - damage \in Nat
        /\ life[p][o] - damage <= life[p][o]
    BY <1>1 DEF Smaller, NpcAttackDamage
  <2>2. SetLife(p, o, life[p][o] - damage)
    BY <1>5 DEF NpcStrikes
  <2>3. /\ life' \in [Peers -> [Objects -> Nat]]
        /\ dead' \in [Peers -> SUBSET Entities]
        /\ \A q \in Peers \ {p} : life'[q] = life[q] /\ dead'[q] = dead[q]
        /\ life'[p][o] = life[p][o] - damage
        /\ \A x \in Objects \ {o} : life'[p][x] = life[p][x]
        /\ dead[p] = {x \in Entities : life[p][x] = 0} =>
                 dead'[p] = {x \in Entities : life'[p][x] = 0}
    BY <2>1, <2>2, SetLifeStep
  <2>4. \A x \in Objects : life'[p][x] <= life[p][x]
    BY <2>1, <2>3 DEF CombatTypeOK
  <2> QED BY <1>3, <1>4, <2>3, <2>4 DEF CombatStep
<1>6. CASE ~ (o \in {Player} \cup Objectives /\ life[p][o] # 0)
  <2>1. life' = life /\ dead' = dead
    BY <1>6 DEF NpcStrikes
  <2> QED BY <1>3, <1>4, <2>1 DEF CombatStep, CombatTypeOK
<1> QED BY <1>5, <1>6

\* Whatever a packet says, it makes a combat step of its peer.
LEMMA CombatSteps ==
    ASSUME CombatTypeOK, NEW p \in Peers, HandleCombat(p)
    PROVE  CombatStep(p)
<1>1. CASE \E o \in Objects : ClearObject(p, o) \/ PlayerStrikes(p, o)
  BY <1>1, ClearObjectSteps, PlayerStrikesSteps
<1>2. CASE \E s \in Entities, o \in Objects : NpcStrikes(p, s, o)
  BY <1>2, NpcStrikesSteps
<1>3. CASE SpendSpirit(p)
  <2>1. /\ life' = life /\ dead' = dead
        /\ spirit' = [spirit EXCEPT ![p][Player] = 0]
    BY <1>3 DEF SpendSpirit
  <2>2. 0 \in 0..MaxSpirit /\ Player \in Objects
    BY LivesArePositive DEF Objects
  <2> QED BY <2>1, <2>2 DEF CombatStep, CombatTypeOK
<1>4. CASE UNCHANGED combatVars
  BY <1>4 DEF combatVars, CombatStep, CombatTypeOK
<1> QED BY <1>1, <1>2, <1>3, <1>4 DEF HandleCombat
-----------------------------------------------------------------------------
(* Types *)

\* The verdict and the outbox have their types after a judgement.
VerdictTypeOK ==
    /\ verdict \in [Peers -> Verdicts \cup {"none"}]
    /\ outbox \subseteq Result

\* A result is queued for a client that the peer is bound to.
LEMMA QueueResultTyped ==
    ASSUME TypeOK, NEW p \in Peers, NEW v \in Verdicts, MayEnd(p),
           QueueResult(p, v)
    PROVE  VerdictTypeOK'
<1>1. client[p] \in Clients
  BY DEF TypeOK, MayEnd
<1> QED BY <1>1 DEF TypeOK, VerdictTypeOK, QueueResult, Result

\* So the check after a packet types them.
LEMMA JudgeCombatTyped ==
    ASSUME TypeOK, NEW p \in Peers, JudgeCombat(p)
    PROVE  VerdictTypeOK'
<1>1. CASE MayEnd(p) /\ QueueResult(p, "failure")
  BY <1>1, QueueResultTyped DEF Verdicts
<1>2. CASE UNCHANGED verdictVars
  BY <1>2 DEF TypeOK, VerdictTypeOK, verdictVars
<1> QED BY <1>1, <1>2 DEF JudgeCombat

\* And the check of a tick.
LEMMA TickTyped ==
    ASSUME TypeOK, NEW p \in Peers, Tick(p)
    PROVE  VerdictTypeOK'
<1>1. CASE UNCHANGED verdictVars
  BY <1>1 DEF TypeOK, VerdictTypeOK, verdictVars
<1>2. CASE MayEnd(p) /\ \E v \in Verdicts : QueueResult(p, v)
  BY <1>2, QueueResultTyped
<1> QED BY <1>1, <1>2 DEF Tick, Verdicts, verdictVars

\* A datagram that fights, and what it leaves alone.
LEMMA CombatTyped ==
    ASSUME TypeOK, NEW p \in Peers,
           HandleCombat(p) \/ UNCHANGED combatVars, JudgeCombat(p)
    PROVE  CombatTypeOK' /\ VerdictTypeOK'
<1>1. CombatTypeOK
  BY DEF TypeOK, CombatTypeOK
<1>2. HandleCombat(p)
  BY DEF HandleCombat
<1>3. CombatTypeOK'
  BY <1>1, <1>2, CombatSteps DEF CombatStep, CombatTypeOK
<1> QED BY <1>3, JudgeCombatTyped

\* TypeOK is inductive by itself.
LEMMA TypeStep == TypeOK /\ [Next]_vars => TypeOK'
<1> SUFFICES ASSUME TypeOK, [Next]_vars PROVE TypeOK'
  OBVIOUS
<1>a. CASE UNCHANGED vars
  BY <1>a DEF vars, tcpVars, flagVars, combatVars, verdictVars, TypeOK
<1>b. ASSUME NEW p \in Peers,
             \/ SequencedDatagram(p) \/ EndOfPackets(p)
             \/ OtherDatagram(p) \/ LoadPending(p)
      PROVE  TypeOK'
  <2>1. thread' \in Threads
    BY <1>b DEF SequencedDatagram, EndOfPackets, OtherDatagram, LoadPending,
       At, Threads, TypeOK
  <2>2. UNCHANGED <<tcpVars, flagVars, tickDue, combatVars, verdictVars>>
    BY <1>b DEF SequencedDatagram, EndOfPackets, OtherDatagram, LoadPending
  <2> QED BY <2>1, <2>2 DEF tcpVars, flagVars, combatVars, verdictVars, TypeOK
<1>c. ASSUME NEW p \in Peers,
             \/ SequencedPacket(p) \/ ReliableCombat(p)
             \/ Handshake(p) \/ ClientReady(p)
      PROVE  TypeOK'
  <2>1. CombatTypeOK' /\ VerdictTypeOK'
    BY <1>c, CombatTyped DEF SequencedPacket, ReliableCombat, Handshake,
       ClientReady, CombatEvent
  <2>2. thread' \in Threads
    BY <1>c DEF SequencedPacket, ReliableCombat, Handshake, ClientReady,
       At, Threads, TypeOK
  <2>3. started' \in [Peers -> BOOLEAN] /\ tickDue' \in [Peers -> BOOLEAN]
    BY <1>c DEF SequencedPacket, ReliableCombat, Handshake, ClientReady,
       flagVars, TypeOK
  <2>4. UNCHANGED <<tcpVars, synced, client, laidOut, expired>>
    BY <1>c DEF SequencedPacket, ReliableCombat, Handshake, ClientReady,
       flagVars
  <2> QED BY <2>1, <2>2, <2>3, <2>4
          DEF TypeOK, CombatTypeOK, VerdictTypeOK, tcpVars
<1>d. ASSUME NEW p \in Peers, WithholdSync(p)
      PROVE  TypeOK'
  BY <1>d DEF WithholdSync, At, Threads, tcpVars, combatVars, verdictVars,
     TypeOK
<1>e. ASSUME NEW p \in Peers, SendSync(p)
      PROVE  TypeOK'
  <2>1. CombatTypeOK' /\ laidOut' \in [Peers -> BOOLEAN]
    <3>1. CASE UNCHANGED <<laidOut, combatVars>>
      BY <3>1 DEF TypeOK, CombatTypeOK, combatVars
    <3>2. CASE /\ laidOut' = [laidOut EXCEPT ![p] = TRUE]
               /\ life' = [life EXCEPT ![p] = [o \in Objects |-> InitialLife(o)]]
               /\ spirit' = [spirit EXCEPT ![p] = [o \in Objects |-> 0]]
               /\ dead' = [dead EXCEPT ![p] = {}]
      <4>1. \A o \in Objects : InitialLife(o) \in Nat /\ 0 \in 0..MaxSpirit
        BY LivesArePositive DEF InitialLife
      <4> QED BY <3>2, <4>1 DEF TypeOK, CombatTypeOK
    <3> QED BY <1>e, <3>1, <3>2 DEF SendSync
  <2>2. /\ synced' \in [Peers -> BOOLEAN]
        /\ client' \in [Peers -> Clients \cup {NoClient}]
        /\ verdict' \in [Peers -> Verdicts \cup {"none"}]
        /\ thread' \in Threads
    BY <1>e DEF SendSync, TypeOK, At, Threads
  <2>3. UNCHANGED <<tcpVars, started, expired, tickDue, outbox>>
    BY <1>e DEF SendSync
  <2> QED BY <2>1, <2>2, <2>3 DEF TypeOK, CombatTypeOK, tcpVars
<1>f. ASSUME NEW p \in Peers, Tick(p)
      PROVE  TypeOK'
  <2>1. VerdictTypeOK'
    BY <1>f, TickTyped
  <2>2. /\ thread' \in Threads
        /\ tickDue' \in [Peers -> BOOLEAN]
    BY <1>f DEF Tick, Threads, TypeOK
  <2>3. UNCHANGED <<tcpVars, flagVars, combatVars>>
    BY <1>f DEF Tick
  <2> QED BY <2>1, <2>2, <2>3
          DEF TypeOK, VerdictTypeOK, tcpVars, flagVars, combatVars
<1>g. ASSUME NEW p \in Peers, TimeRunsOut(p) \/ TickFallsDue(p)
      PROVE  TypeOK'
  BY <1>g DEF TimeRunsOut, TickFallsDue, tcpVars, flagVars, combatVars,
     verdictVars, TypeOK
<1>h. ASSUME NEW c \in Clients, Connect(c) \/ RoomStart(c) \/ Disconnect(c)
      PROVE  TypeOK'
  BY <1>h DEF Connect, RoomStart, Disconnect, flagVars, combatVars,
     verdictVars, TypeOK
<1>i. ASSUME NEW r \in outbox, DeliverResult(r)
      PROVE  TypeOK'
  BY <1>i DEF DeliverResult, flagVars, combatVars, TypeOK
<1> QED BY <1>a, <1>b, <1>c, <1>d, <1>e, <1>f, <1>g, <1>h, <1>i
        DEF Next, ThreadSteps, Datagrams

\* It holds at the start: nobody has anything.
LEMMA TypeInit == Init => TypeOK
BY LivesArePositive
   DEF Init, TypeOK, Idle, Threads, Verdicts, Result

\* Missions are well typed: lives and spirits stay in their ranges and the
\* thread has its locals, for any peers, clients, objects and lives.
THEOREM MissionsAreTyped == Spec => []TypeOK
BY TypeInit, TypeStep, PTL DEF Spec
-----------------------------------------------------------------------------
(* Missions *)

\* A sync is under way only for a peer that has had none.
Fresh ==
    \A p \in Peers :
        thread.at \in {"sync", "bind"} /\ thread.peer = p => ~synced[p]

\* Combat state and verdicts are those of a bound peer, and a peer that has
\* been bound has been synced.
Bound(p) ==
    /\ laidOut[p] => client[p] # NoClient
    /\ client[p] # NoClient => synced[p]
    /\ verdict[p] # "none" => client[p] # NoClient

\* Before it is laid out there is nothing to fight with.
Blank(p) ==
    ~laidOut[p] => \A o \in Objects : life[p][o] = 0 /\ spirit[p][o] = 0

\* The properties of the runs, of one peer.
Reported(p) == client[p] # NoClient /\ Lost(p, life[p]) => verdict[p] # "none"

Stands(p) ==
    /\ verdict[p] = "failure" => Lost(p, life[p])
    /\ verdict[p] = "success" => expired[p]

KnowsDead(p) == dead[p] = {o \in Entities : laidOut[p] /\ life[p][o] = 0}

Mission(p) ==
    Bound(p) /\ Blank(p) /\ Reported(p) /\ Stands(p) /\ KnowsDead(p)

MissionInv == Fresh /\ \A p \in Peers : Mission(p)

\* A step that passes a mission by.
Passes(q) ==
    /\ life'[q] = life[q] /\ spirit'[q] = spirit[q] /\ dead'[q] = dead[q]
    /\ laidOut'[q] = laidOut[q] /\ client'[q] = client[q]
    /\ verdict'[q] = verdict[q]
    /\ synced[q] => synced'[q]
    /\ expired[q] => expired'[q]

\* What it passes by stays as it is.
LEMMA PassedMission ==
    ASSUME NEW q \in Peers, Mission(q), Passes(q)
    PROVE  Mission(q)'
BY DEF Mission, Bound, Blank, Reported, Stands, KnowsDead, Lost, Passes

\* A judgement of one peer leaves the verdicts of the others.
LEMMA QueueResultSets ==
    ASSUME TypeOK, NEW p \in Peers, NEW v \in Verdicts, QueueResult(p, v)
    PROVE  /\ verdict'[p] = v
           /\ \A q \in Peers \ {p} : verdict'[q] = verdict[q]
BY DEF TypeOK, QueueResult

\* Combat in one mission passes the others by.
LEMMA CombatPasses ==
    ASSUME TypeOK, NEW p \in Peers, HandleCombat(p), JudgeCombat(p),
           UNCHANGED <<synced, client, laidOut, expired>>
    PROVE  \A q \in Peers \ {p} : Passes(q)
<1>1. CombatStep(p)
  BY CombatSteps DEF TypeOK, CombatTypeOK
<1>2. \A q \in Peers \ {p} : verdict'[q] = verdict[q]
  BY QueueResultSets DEF JudgeCombat, Verdicts, verdictVars
<1> QED BY <1>1, <1>2 DEF CombatStep, Passes

\* Who is lost stays lost: lives only fall.
LEMMA LostStays ==
    ASSUME TypeOK, NEW p \in Peers, CombatStep(p), laidOut' = laidOut,
           Lost(p, life[p])
    PROVE  Lost(p, life'[p])
<1>1. PICK o \in {Player} \cup Objectives : life[p][o] = 0
  BY DEF Lost
<1>2. o \in Objects
  BY DEF Objects, Entities
<1>3. life'[p][o] \in Nat /\ life'[p][o] <= life[p][o]
  BY <1>2 DEF CombatStep
<1>4. life'[p][o] = 0
  BY <1>1, <1>3
<1> QED BY <1>1, <1>4 DEF Lost

\* Combat and the check after it keep the mission they belong to.
LEMMA CombatMission ==
    ASSUME TypeOK, NEW p \in Peers, Mission(p), HandleCombat(p),
           JudgeCombat(p), UNCHANGED <<synced, client, laidOut, expired>>
    PROVE  Mission(p)'
<1>1. CombatStep(p)
  BY CombatSteps DEF TypeOK, CombatTypeOK
<1>2. Blank(p)'
  BY <1>1 DEF Mission, Blank, CombatStep
<1>3. KnowsDead(p)'
  <2>1. CASE laidOut[p]
    <3>1. dead[p] = {o \in Entities : life[p][o] = 0}
      BY <2>1 DEF Mission, KnowsDead
    <3>2. dead'[p] = {o \in Entities : life'[p][o] = 0}
      BY <1>1, <3>1 DEF CombatStep
    <3> QED BY <2>1, <3>2 DEF KnowsDead
  <2>2. CASE ~laidOut[p]
    <3>1. dead[p] = {} /\ \A o \in Objects : life[p][o] = 0 /\ spirit[p][o] = 0
      BY <2>2 DEF Mission, KnowsDead, Blank
    <3>2. dead'[p] = {}
      BY <1>1, <3>1 DEF CombatStep
    <3> QED BY <2>2, <3>2 DEF KnowsDead
  <2> QED BY <2>1, <2>2
<1>4. CASE MayEnd(p) /\ Lost(p, life'[p])
  <2>1. verdict'[p] = "failure"
    BY <1>4, QueueResultSets DEF JudgeCombat, Verdicts
  <2>2. Lost(p, life[p])'
    BY <1>4 DEF Lost
  <2>3. Bound(p)'
    BY <1>4 DEF Mission, Bound, MayEnd
  <2>4. Reported(p)' /\ Stands(p)'
    BY <2>1, <2>2 DEF Reported, Stands
  <2> QED BY <1>2, <1>3, <2>3, <2>4 DEF Mission
<1>5. CASE ~ (MayEnd(p) /\ Lost(p, life'[p]))
  <2>1. verdict' = verdict
    BY <1>5 DEF JudgeCombat, verdictVars
  <2>2. Lost(p, life[p])' <=> Lost(p, life'[p])
    BY DEF Lost
  <2>3. Bound(p)'
    BY <2>1 DEF Mission, Bound
  <2>4. Reported(p)'
    BY <1>5, <2>1, <2>2 DEF Reported, MayEnd
  <2>5. Stands(p)'
    BY <1>1, <2>1, <2>2, LostStays DEF Mission, Stands
  <2> QED BY <1>2, <1>3, <2>3, <2>4, <2>5 DEF Mission
<1> QED BY <1>4, <1>5

\* A tick ends a mission for a true reason, or leaves it alone.
LEMMA TickMission ==
    ASSUME TypeOK, NEW p \in Peers, Mission(p), Tick(p)
    PROVE  Mission(p)' /\ \A q \in Peers \ {p} : Passes(q)
<1>1. UNCHANGED <<tcpVars, flagVars, combatVars>>
  BY DEF Tick
<1>2. CASE MayEnd(p) /\ expired[p] /\ QueueResult(p, "success")
  BY <1>1, <1>2, QueueResultSets
     DEF Mission, Bound, Blank, Reported, Stands, KnowsDead, Lost, MayEnd,
         Passes, Verdicts, flagVars, combatVars
<1>3. CASE MayEnd(p) /\ Lost(p, life[p]) /\ QueueResult(p, "failure")
  BY <1>1, <1>3, QueueResultSets
     DEF Mission, Bound, Blank, Reported, Stands, KnowsDead, Lost, MayEnd,
         Passes, Verdicts, flagVars, combatVars
<1>4. CASE UNCHANGED verdictVars
  BY <1>1, <1>4, PassedMission DEF Passes, flagVars, combatVars, verdictVars
<1> QED BY <1>2, <1>3, <1>4 DEF Tick, verdictVars

\* A sync, complete or torn, begins a mission that nobody has lost.
LEMMA SyncMission ==
    ASSUME TypeOK, NEW p \in Peers, Mission(p), ~synced[p], SendSync(p)
    PROVE  Mission(p)' /\ \A q \in Peers \ {p} : Passes(q)
<1>1. client[p] = NoClient /\ ~laidOut[p]
  BY DEF Mission, Bound
<1>2. /\ client'[p] # NoClient /\ synced'[p] /\ verdict'[p] = "none"
      /\ UNCHANGED expired
      /\ \A q \in Peers \ {p} :
            /\ client'[q] = client[q] /\ synced'[q] = synced[q]
            /\ verdict'[q] = verdict[q]
  BY NoClientIsNone DEF SendSync, TypeOK
<1>3. CASE UNCHANGED <<laidOut, combatVars>>
  BY <1>1, <1>2, <1>3
     DEF Mission, Bound, Blank, Reported, Stands, KnowsDead, Lost, Passes,
         combatVars
<1>4. CASE /\ laidOut' = [laidOut EXCEPT ![p] = TRUE]
           /\ life' = [life EXCEPT ![p] = [o \in Objects |-> InitialLife(o)]]
           /\ spirit' = [spirit EXCEPT ![p] = [o \in Objects |-> 0]]
           /\ dead' = [dead EXCEPT ![p] = {}]
  <2>1. \A o \in Objects : life'[p][o] = InitialLife(o) /\ InitialLife(o) # 0
    BY <1>4, LivesArePositive DEF TypeOK, InitialLife
  <2>2. laidOut'[p] /\ dead'[p] = {}
    BY <1>4 DEF TypeOK
  <2>3. ~ Lost(p, life[p])'
    BY <2>1 DEF Lost, Objects, Entities
  <2>4. KnowsDead(p)'
    BY <2>1, <2>2 DEF KnowsDead, Objects
  <2>5. Mission(p)'
    BY <1>2, <2>2, <2>3, <2>4 DEF Mission, Bound, Blank, Reported, Stands
  <2>6. \A q \in Peers \ {p} : Passes(q)
    BY <1>2, <1>4 DEF Passes, TypeOK
  <2> QED BY <2>5, <2>6
<1> QED BY <1>3, <1>4 DEF SendSync

\* Every step keeps every mission.
LEMMA MissionStep ==
    ASSUME TypeOK, MissionInv, [Next]_vars
    PROVE  MissionInv'
<1>1. \A p \in Peers : Mission(p)
  BY DEF MissionInv
<1>a. CASE UNCHANGED vars
  BY <1>a DEF vars, tcpVars, flagVars, combatVars, verdictVars, MissionInv,
     Fresh, Mission, Bound, Blank, Reported, Stands, KnowsDead, Lost
<1>b. ASSUME NEW p \in Peers,
             \/ SequencedDatagram(p) \/ EndOfPackets(p)
             \/ OtherDatagram(p) \/ LoadPending(p)
      PROVE  MissionInv'
  <2>1. UNCHANGED <<tcpVars, flagVars, tickDue, combatVars, verdictVars>>
    BY <1>b DEF SequencedDatagram, EndOfPackets, OtherDatagram, LoadPending
  <2>2. \A q \in Peers : Passes(q)
    BY <2>1 DEF Passes, flagVars, combatVars, verdictVars
  <2>3. Fresh'
    BY <1>b, <2>1 DEF SequencedDatagram, EndOfPackets, OtherDatagram,
       LoadPending, At, Fresh, MissionInv, flagVars
  <2> QED BY <1>1, <2>2, <2>3, PassedMission DEF MissionInv
<1>c. ASSUME NEW p \in Peers,
             \/ SequencedPacket(p) \/ ReliableCombat(p)
             \/ Handshake(p) \/ ClientReady(p)
      PROVE  MissionInv'
  <2>1. HandleCombat(p) /\ JudgeCombat(p)
    BY <1>c DEF SequencedPacket, ReliableCombat, Handshake, ClientReady,
       CombatEvent, HandleCombat
  <2>2. UNCHANGED <<synced, client, laidOut, expired>>
    BY <1>c DEF SequencedPacket, ReliableCombat, Handshake, ClientReady,
       flagVars
  <2>3. Mission(p)' /\ \A q \in Peers \ {p} : Passes(q)
    BY <1>1, <2>1, <2>2, CombatMission, CombatPasses
  <2>4. Fresh'
    BY <1>c, <2>2 DEF SequencedPacket, ReliableCombat, Handshake,
       ClientReady, At, Fresh, MissionInv
  <2> QED BY <1>1, <2>3, <2>4, PassedMission DEF MissionInv
<1>d. ASSUME NEW p \in Peers, WithholdSync(p)
      PROVE  MissionInv'
  <2>1. \A q \in Peers : Passes(q)
    BY <1>d DEF WithholdSync, Passes, TypeOK, combatVars, verdictVars
  <2>2. Fresh'
    BY <1>d DEF WithholdSync, At, Fresh
  <2> QED BY <1>1, <2>1, <2>2, PassedMission DEF MissionInv
<1>e. ASSUME NEW p \in Peers, SendSync(p)
      PROVE  MissionInv'
  <2>1. ~synced[p]
    BY <1>e DEF SendSync, MissionInv, Fresh
  <2>2. Mission(p)' /\ \A q \in Peers \ {p} : Passes(q)
    BY <1>1, <1>e, <2>1, SyncMission
  <2>3. Fresh'
    BY <1>e DEF SendSync, At, Fresh
  <2> QED BY <1>1, <2>2, <2>3, PassedMission DEF MissionInv
<1>f. ASSUME NEW p \in Peers, Tick(p)
      PROVE  MissionInv'
  <2>1. Mission(p)' /\ \A q \in Peers \ {p} : Passes(q)
    BY <1>1, <1>f, TickMission
  <2>2. Fresh'
    BY <1>f DEF Tick, Idle, Fresh
  <2> QED BY <1>1, <2>1, <2>2, PassedMission DEF MissionInv
<1>g. ASSUME NEW p \in Peers, TimeRunsOut(p) \/ TickFallsDue(p)
      PROVE  MissionInv'
  <2>1. /\ \A q \in Peers : Passes(q)
        /\ UNCHANGED <<thread, synced>>
    BY <1>g DEF TimeRunsOut, TickFallsDue, Passes, TypeOK, flagVars,
       combatVars, verdictVars
  <2> QED BY <1>1, <2>1, PassedMission DEF MissionInv, Fresh
<1>h. CASE \/ \E c \in Clients : Connect(c) \/ RoomStart(c) \/ Disconnect(c)
           \/ \E r \in outbox : DeliverResult(r)
  <2>1. /\ \A q \in Peers : Passes(q)
        /\ UNCHANGED <<thread, synced>>
    BY <1>h DEF Connect, RoomStart, Disconnect, DeliverResult, Passes,
       flagVars, combatVars, verdictVars
  <2> QED BY <1>1, <2>1, PassedMission DEF MissionInv, Fresh
<1> QED BY <1>a, <1>b, <1>c, <1>d, <1>e, <1>f, <1>g, <1>h
        DEF Next, ThreadSteps, Datagrams

\* No peer has a mission at the start.
LEMMA MissionInit == Init => MissionInv
BY DEF Init, Idle, MissionInv, Fresh, Mission, Bound, Blank, Reported, Stands,
   KnowsDead, Lost

\* The inductive invariant that the theorems below are read off.
LEMMA MissionsAreSound == Spec => [](TypeOK /\ MissionInv)
BY TypeInit, TypeStep, MissionInit, MissionStep, PTL DEF Spec

\* A mission that is lost has been reported: no packet takes the last life
\* of the player or an objective and escapes the check.
THEOREM LossesAreReported == Spec => []LostMissionsAreReported
<1>1. MissionInv => LostMissionsAreReported
  BY DEF MissionInv, Mission, Reported, LostMissionsAreReported
<1> QED BY <1>1, MissionsAreSound, PTL

\* A verdict once reported keeps being true.
THEOREM VerdictsAreTrue == Spec => []VerdictsStand
<1>1. MissionInv => VerdictsStand
  BY DEF MissionInv, Mission, Stands, VerdictsStand
<1> QED BY <1>1, MissionsAreSound, PTL

\* dead_combat_entities and the lives record the same deaths.
THEOREM DeathsAreKnown == Spec => []DeadAreLifeless
<1>1. MissionInv => DeadAreLifeless
  BY DEF MissionInv, Mission, KnowsDead, DeadAreLifeless
<1> QED BY <1>1, MissionsAreSound, PTL
-----------------------------------------------------------------------------
(* What a step may not do, and the results on their way *)

Falls(q) ==
    laidOut[q] => /\ \A o \in Objects : life'[q][o] <= life[q][o]
                  /\ dead[q] \subseteq dead'[q]

Final(q) ==
    verdict[q] # "none" => /\ verdict'[q] = verdict[q]
                           /\ {r \in outbox' : r.peer = q} \subseteq outbox

\* A step that leaves combat alone brings nobody back.
LEMMA StillFalls ==
    ASSUME TypeOK, NEW q \in Peers, life'[q] = life[q], dead'[q] = dead[q]
    PROVE  Falls(q)
BY DEF Falls, TypeOK

\* The entities that are dead stay dead: no life rises.
LEMMA CombatFalls ==
    ASSUME TypeOK, MissionInv, NEW p \in Peers, HandleCombat(p),
           laidOut' = laidOut
    PROVE  \A q \in Peers : Falls(q)
<1>1. CombatStep(p)
  BY CombatSteps DEF TypeOK, CombatTypeOK
<1>2. ASSUME NEW q \in Peers \ {p} PROVE Falls(q)
  BY <1>1, <1>2, StillFalls DEF CombatStep
<1>3. Falls(p)
  <2> SUFFICES ASSUME laidOut[p] PROVE Falls(p)
    BY DEF Falls
  <2>1. dead[p] = {o \in Entities : life[p][o] = 0}
    BY DEF MissionInv, Mission, KnowsDead
  <2>2. dead'[p] = {o \in Entities : life'[p][o] = 0}
    BY <1>1, <2>1 DEF CombatStep
  <2>3. \A o \in Objects : /\ life'[p][o] \in Nat /\ life[p][o] \in Nat
                           /\ life'[p][o] <= life[p][o]
    BY <1>1 DEF CombatStep, TypeOK
  <2>4. \A o \in Entities : life[p][o] = 0 => life'[p][o] = 0
    BY <2>3 DEF Objects
  <2> QED BY <2>1, <2>2, <2>3, <2>4 DEF Falls
<1> QED BY <1>2, <1>3

\* No step lets a life rise or brings an entity back.
LEMMA FallsStep ==
    ASSUME TypeOK, MissionInv, [Next]_vars
    PROVE  \A q \in Peers : Falls(q)
<1>a. CASE UNCHANGED combatVars
  BY <1>a, StillFalls DEF combatVars
<1>b. ASSUME NEW p \in Peers,
             \/ SequencedPacket(p) \/ ReliableCombat(p)
             \/ Handshake(p) \/ ClientReady(p)
      PROVE  \A q \in Peers : Falls(q)
  <2>1. HandleCombat(p) /\ laidOut' = laidOut
    BY <1>b DEF SequencedPacket, ReliableCombat, Handshake, ClientReady,
       CombatEvent, HandleCombat, flagVars
  <2> QED BY <2>1, CombatFalls
<1>c. ASSUME NEW p \in Peers, SendSync(p)
      PROVE  \A q \in Peers : Falls(q)
  <2>1. ~laidOut[p]
    BY <1>c DEF SendSync, MissionInv, Fresh, Mission, Bound
  <2>2. \A q \in Peers \ {p} : life'[q] = life[q] /\ dead'[q] = dead[q]
    BY <1>c DEF SendSync, combatVars, TypeOK
  <2> QED BY <2>1, <2>2, StillFalls DEF Falls
<1>d. ASSUME NEW p \in Peers,
             \/ ThreadSteps(p) \/ SequencedPacket(p) \/ Datagrams(p)
             \/ TimeRunsOut(p) \/ TickFallsDue(p),
             ~SendSync(p),
             ~ (\/ SequencedPacket(p) \/ ReliableCombat(p)
                \/ Handshake(p) \/ ClientReady(p))
      PROVE  UNCHANGED combatVars
  BY <1>d DEF ThreadSteps, Datagrams, EndOfPackets, LoadPending, WithholdSync,
     Tick, SequencedDatagram, OtherDatagram, TimeRunsOut, TickFallsDue
<1>e. CASE \/ \E c \in Clients : Connect(c) \/ RoomStart(c) \/ Disconnect(c)
           \/ \E r \in outbox : DeliverResult(r)
           \/ UNCHANGED vars
  <2>1. UNCHANGED combatVars
    BY <1>e DEF Connect, RoomStart, Disconnect, DeliverResult, vars
  <2> QED BY <2>1, <1>a
<1> QED BY <1>a, <1>b, <1>c, <1>d, <1>e DEF Next

\* Once laid out, no life of a mission rises and none of its dead come back,
\* however often the client repeats its handshake.
THEOREM LivesNeverRise == Spec => LivesOnlyFall
<1>1. TypeOK /\ MissionInv /\ [Next]_vars =>
        [\A p \in Peers : laidOut[p] =>
            /\ \A o \in Objects : life'[p][o] <= life[p][o]
            /\ dead[p] \subseteq dead'[p]]_vars
  BY FallsStep DEF Falls
<1> QED BY <1>1, MissionsAreSound, PTL DEF Spec, LivesOnlyFall

\* A judgement, after a packet or by a tick, of a mission that has a verdict
\* leaves it at that.
LEMMA QueueIsFinal ==
    ASSUME TypeOK, NEW p \in Peers, NEW v \in Verdicts, MayEnd(p),
           QueueResult(p, v)
    PROVE  \A q \in Peers : Final(q)
<1>1. \A q \in Peers \ {p} : verdict'[q] = verdict[q]
  BY QueueResultSets
<1>2. \A r \in outbox' : r \in outbox \/ r.peer = p
  BY DEF QueueResult
<1> QED BY <1>1, <1>2 DEF Final, MayEnd

\* No step changes a verdict or reports it again.
LEMMA FinalStep ==
    ASSUME TypeOK, MissionInv, [Next]_vars
    PROVE  \A q \in Peers : Final(q)
<1>a. CASE verdict' = verdict /\ outbox' \subseteq outbox
  BY <1>a DEF Final
<1>b. ASSUME NEW p \in Peers, JudgeCombat(p) \/ Tick(p)
      PROVE  \A q \in Peers : Final(q)
  <2>1. \/ UNCHANGED verdictVars
        \/ MayEnd(p) /\ \E v \in Verdicts : QueueResult(p, v)
    BY <1>b DEF JudgeCombat, Tick, Verdicts, verdictVars
  <2> QED BY <2>1, <1>a, QueueIsFinal DEF verdictVars
<1>c. ASSUME NEW p \in Peers, SendSync(p)
      PROVE  \A q \in Peers : Final(q)
  <2>1. verdict[p] = "none"
    BY <1>c DEF SendSync, MissionInv, Fresh, Mission, Bound
  <2>2. outbox' = outbox /\ \A q \in Peers \ {p} : verdict'[q] = verdict[q]
    BY <1>c DEF SendSync, TypeOK
  <2> QED BY <2>1, <2>2 DEF Final
<1>d. ASSUME NEW p \in Peers,
             \/ ThreadSteps(p) \/ SequencedPacket(p) \/ Datagrams(p)
             \/ TimeRunsOut(p) \/ TickFallsDue(p)
      PROVE  \/ UNCHANGED verdictVars \/ SendSync(p)
             \/ JudgeCombat(p) \/ Tick(p)
  BY <1>d DEF ThreadSteps, Datagrams, EndOfPackets, LoadPending, WithholdSync,
     SequencedDatagram, SequencedPacket, ReliableCombat, Handshake,
     ClientReady, CombatEvent, OtherDatagram, TimeRunsOut, TickFallsDue
<1>e. CASE \/ \E c \in Clients : Connect(c) \/ RoomStart(c) \/ Disconnect(c)
           \/ \E r \in outbox : DeliverResult(r)
           \/ UNCHANGED vars
  BY <1>a, <1>e DEF Connect, RoomStart, Disconnect, DeliverResult, vars,
     verdictVars
<1> QED BY <1>a, <1>b, <1>c, <1>d, <1>e DEF Next, verdictVars

\* A mission has one verdict, and reports it once.
THEOREM VerdictsAreFinal == Spec => ResultIsFinal
<1>1. TypeOK /\ MissionInv /\ [Next]_vars =>
        [\A p \in Peers : verdict[p] # "none" =>
            /\ verdict'[p] = verdict[p]
            /\ {r \in outbox' : r.peer = p} \subseteq outbox]_vars
  BY FinalStep DEF Final
<1> QED BY <1>1, MissionsAreSound, PTL DEF Spec, ResultIsFinal

\* A result that is added is the verdict of the mission; before, there was
\* neither a verdict nor a result.
LEMMA QueueMatches ==
    ASSUME TypeOK, ResultsMatchMissions, NEW p \in Peers, NEW v \in Verdicts,
           MayEnd(p), QueueResult(p, v), UNCHANGED <<client, received>>
    PROVE  ResultsMatchMissions'
<1> SUFFICES ASSUME NEW r \in outbox' \cup received'
             PROVE  r.client = client[r.peer] /\ r.verdict = verdict'[r.peer]
  BY DEF ResultsMatchMissions
<1>1. CASE r \in outbox \cup received
  <2>1. r \in Result /\ r.client = client[r.peer] /\ r.verdict = verdict[r.peer]
    BY <1>1 DEF TypeOK, ResultsMatchMissions
  <2>2. r.peer # p
    BY <2>1 DEF Result, Verdicts, MayEnd
  <2>3. r.peer \in Peers
    BY <2>1 DEF Result
  <2> QED BY <2>1, <2>2, <2>3, QueueResultSets
<1>2. CASE r = [peer |-> p, client |-> client[p], verdict |-> v]
  BY <1>2, QueueResultSets
<1> QED BY <1>1, <1>2 DEF QueueResult

\* Every step keeps results and missions together.
LEMMA MatchStep ==
    ASSUME TypeOK, MissionInv, ResultsMatchMissions, [Next]_vars
    PROVE  ResultsMatchMissions'
<1>a. CASE /\ UNCHANGED <<client, verdict>>
           /\ outbox' \cup received' \subseteq outbox \cup received
  BY <1>a DEF ResultsMatchMissions
<1>b. ASSUME NEW p \in Peers, JudgeCombat(p) \/ Tick(p),
             UNCHANGED <<client, received>>
      PROVE  ResultsMatchMissions'
  <2>1. \/ UNCHANGED verdictVars
        \/ MayEnd(p) /\ \E v \in Verdicts : QueueResult(p, v)
    BY <1>b DEF JudgeCombat, Tick, Verdicts, verdictVars
  <2>2. CASE UNCHANGED verdictVars
    BY <1>a, <1>b, <2>2 DEF verdictVars
  <2> QED BY <1>b, <2>1, <2>2, QueueMatches
<1>c. ASSUME NEW p \in Peers, SendSync(p)
      PROVE  ResultsMatchMissions'
  <2>1. verdict[p] = "none"
    BY <1>c DEF SendSync, MissionInv, Fresh, Mission, Bound
  <2>2. \A q \in Peers \ {p} : verdict'[q] = verdict[q] /\ client'[q] = client[q]
    BY <1>c DEF SendSync, TypeOK
  <2>3. \A r \in outbox \cup received : r.peer \in Peers \ {p}
    BY <2>1 DEF TypeOK, Result, Verdicts, ResultsMatchMissions
  <2>4. UNCHANGED <<outbox, received>>
    BY <1>c DEF SendSync, tcpVars
  <2> QED BY <2>2, <2>3, <2>4 DEF ResultsMatchMissions
<1>d. ASSUME NEW p \in Peers,
             \/ ThreadSteps(p) \/ SequencedPacket(p) \/ Datagrams(p)
             \/ TimeRunsOut(p) \/ TickFallsDue(p),
             ~SendSync(p)
      PROVE  /\ UNCHANGED <<client, received>>
             /\ UNCHANGED verdictVars \/ JudgeCombat(p) \/ Tick(p)
  BY <1>d DEF ThreadSteps, Datagrams, EndOfPackets, LoadPending, WithholdSync,
     Tick, SequencedDatagram, SequencedPacket, ReliableCombat, Handshake,
     ClientReady, CombatEvent, OtherDatagram, TimeRunsOut, TickFallsDue,
     tcpVars, flagVars
<1>e. CASE \E c \in Clients : Connect(c) \/ RoomStart(c) \/ Disconnect(c)
  BY <1>a, <1>e DEF Connect, RoomStart, Disconnect, flagVars, verdictVars
<1>f. CASE \E r \in outbox : DeliverResult(r)
  BY <1>a, <1>f DEF DeliverResult, flagVars
<1>g. CASE UNCHANGED vars
  BY <1>a, <1>g DEF vars, tcpVars, flagVars, verdictVars
<1> QED BY <1>a, <1>b, <1>c, <1>d, <1>e, <1>f, <1>g DEF Next, verdictVars

\* Results, waiting or received, are the verdicts of the missions they are
\* about and go to the clients those missions are bound to.
THEOREM ResultsAreTheirs == Spec => []ResultsMatchMissions
<1>1. Init => ResultsMatchMissions
  BY DEF Init, ResultsMatchMissions
<1>2. TypeOK /\ MissionInv /\ ResultsMatchMissions /\ [Next]_vars =>
        ResultsMatchMissions'
  BY MatchStep
<1> QED BY <1>1, <1>2, MissionsAreSound, PTL DEF Spec
-----------------------------------------------------------------------------
(* The ledger of missions *)

\* Only a mission that is laid out has a clock.
Clocked == \A p \in Peers : expired[p] => laidOut[p]

\* The clock starts with the combat state, which is never taken away.
LEMMA ClockedStep ==
    ASSUME TypeOK, Clocked, [Next]_vars
    PROVE  Clocked'
<1>1. CASE UNCHANGED <<expired, laidOut>>
  BY <1>1 DEF Clocked
<1>2. ASSUME NEW p \in Peers, SendSync(p) \/ TimeRunsOut(p)
      PROVE  Clocked'
  <2>1. \A q \in Peers : laidOut[q] => laidOut'[q]
    BY <1>2 DEF SendSync, TimeRunsOut, TypeOK
  <2>2. \A q \in Peers : expired'[q] => expired[q] \/ laidOut[q]
    BY <1>2 DEF SendSync, TimeRunsOut, TypeOK
  <2> QED BY <2>1, <2>2 DEF Clocked
<1>3. ASSUME NEW p \in Peers,
             \/ ThreadSteps(p) \/ SequencedPacket(p) \/ Datagrams(p)
             \/ TickFallsDue(p),
             ~SendSync(p)
      PROVE  UNCHANGED <<expired, laidOut>>
  BY <1>3 DEF ThreadSteps, Datagrams, EndOfPackets, LoadPending, WithholdSync,
     Tick, SequencedDatagram, SequencedPacket, ReliableCombat, Handshake,
     ClientReady, OtherDatagram, TickFallsDue, flagVars
<1>4. CASE \/ \E c \in Clients : Connect(c) \/ RoomStart(c) \/ Disconnect(c)
           \/ \E r \in outbox : DeliverResult(r)
           \/ UNCHANGED vars
  <2>1. UNCHANGED <<expired, laidOut>>
    BY <1>4 DEF Connect, RoomStart, Disconnect, DeliverResult, vars, flagVars
  <2> QED BY <1>1, <2>1
<1> QED BY <1>1, <1>2, <1>3, <1>4 DEF Next

\* What the ledger rests on.
Booked == TypeOK /\ MissionInv /\ Clocked

\* All of it holds in every reachable state.
LEMMA BookedAlways == Spec => []Booked
<1>1. Init => Clocked
  BY DEF Init, Clocked
<1>2. TypeOK /\ Clocked /\ [Next]_vars => Clocked'
  BY ClockedStep
<1>3. Booked <=> TypeOK /\ MissionInv /\ Clocked
  BY DEF Booked
<1> QED BY <1>1, <1>2, <1>3, MissionsAreSound, PTL DEF Spec

\* A step that leaves alone what the ledger knows.
LEMMA LedgerRests ==
    ASSUME UNCHANGED <<tcp, client, laidOut, life, expired, verdict, outbox, received>>
    PROVE  UNCHANGED Ledger!ledgerVars
BY DEF Ledger!ledgerVars, LostMissions, Lost

\* The missions that are lost after a step in one of them.
LEMMA LostAfter ==
    ASSUME NEW p \in Peers, \A q \in Peers \ {p} : UNCHANGED <<life[q], laidOut[q]>>
    PROVE  /\ p \in LostMissions <=> Lost(p, life[p])
           /\ LostMissions' = IF Lost(p, life[p])' THEN LostMissions \cup {p}
                                                 ELSE LostMissions \ {p}
<1>1. \A q \in Peers \ {p} : Lost(q, life[q])' <=> Lost(q, life[q])
  BY DEF Lost
<1> QED BY <1>1 DEF LostMissions

\* A judgement of the code is one of the ledger.
LEMMA LedgerJudges ==
    ASSUME NEW p \in Peers, NEW v \in Verdicts, MayEnd(p), QueueResult(p, v)
    PROVE  Ledger!Judge(p, v)
BY DEF MayEnd, QueueResult, Ledger!Judge

\* A packet may lose its mission, and the check that follows judges it unless
\* it has been won: nothing is lost before, and what is lost stays lost.
LEMMA LedgerCombat ==
    ASSUME Booked, NEW p \in Peers, HandleCombat(p), JudgeCombat(p),
           UNCHANGED <<tcp, received, client, laidOut, expired>>
    PROVE  Ledger!LedgerNext \/ UNCHANGED Ledger!ledgerVars
<1> DEFINE was == Lost(p, life[p])
           is == Lost(p, life'[p])
<1>1. TypeOK /\ Mission(p)
  BY DEF Booked, MissionInv
<1>2. CombatStep(p)
  BY <1>1, CombatSteps DEF TypeOK, CombatTypeOK
<1>3. /\ p \in LostMissions <=> was
      /\ LostMissions' = IF is THEN LostMissions \cup {p} ELSE LostMissions \ {p}
  <2>1. Lost(p, life[p])' = is
    BY DEF Lost
  <2> QED BY <1>2, <2>1, LostAfter DEF CombatStep
<1>4. was => is
  BY <1>1, <1>2, LostStays
<1>5. is => client[p] # NoClient
  BY <1>1 DEF Lost, Mission, Bound
<1>6. was /\ client[p] # NoClient => verdict[p] # "none"
  BY <1>1 DEF Mission, Reported
<1>7. verdict[p] = "failure" => was
  BY <1>1 DEF Mission, Stands
<1>8. verdict[p] \in {"none", "success", "failure"}
  BY <1>1 DEF TypeOK, Verdicts
<1> HIDE DEF was
<1>9. CASE MayEnd(p) /\ is
  <2>1. Ledger!Judge(p, "failure")
    BY <1>9, LedgerJudges DEF JudgeCombat, Verdicts
  <2>2. ~was /\ client[p] # NoClient
    BY <1>6, <1>9 DEF MayEnd
  <2>3. Ledger!Lose(p)
    BY <1>3, <1>9, <2>1, <2>2 DEF Ledger!Lose
  <2> QED BY <2>3 DEF Ledger!LedgerNext
<1>10. CASE ~ (MayEnd(p) /\ is)
  <2>1. UNCHANGED <<verdict, outbox>>
    BY <1>10 DEF JudgeCombat, verdictVars
  <2>2. CASE ~was /\ is
    <3>1. verdict[p] = "success" /\ client[p] # NoClient
      BY <1>5, <1>7, <1>8, <1>10, <2>2 DEF MayEnd
    <3>2. Ledger!Lose(p)
      BY <1>3, <2>1, <2>2, <3>1 DEF Ledger!Lose
    <3> QED BY <3>2 DEF Ledger!LedgerNext
  <2>3. CASE was <=> is
    <3>1. LostMissions' = LostMissions
      BY <1>3, <2>3
    <3> QED BY <2>1, <3>1 DEF Ledger!ledgerVars
  <2> QED BY <1>4, <2>2, <2>3
<1> QED BY <1>9, <1>10

\* A tick wins a mission whose time is up, and never finds one lost that has
\* not been judged.
LEMMA LedgerTicks ==
    ASSUME Booked, NEW p \in Peers, Tick(p)
    PROVE  Ledger!LedgerNext \/ UNCHANGED Ledger!ledgerVars
<1>1. TypeOK /\ Mission(p)
  BY DEF Booked, MissionInv
<1>2. UNCHANGED <<tcp, received, client, laidOut, expired, life>>
  BY DEF Tick, tcpVars, flagVars, combatVars
<1>3. MayEnd(p) => ~Lost(p, life[p])
  BY <1>1 DEF MayEnd, Mission, Reported
<1>4. (p \in LostMissions <=> Lost(p, life[p])) /\ LostMissions' = LostMissions
  BY <1>2 DEF LostMissions, Lost
<1>5. CASE MayEnd(p) /\ expired[p] /\ QueueResult(p, "success")
  <2>1. Ledger!Judge(p, "success")
    BY <1>5, LedgerJudges DEF Verdicts
  <2>2. Ledger!Win(p)
    BY <1>2, <1>3, <1>4, <1>5, <2>1 DEF Ledger!Win, MayEnd
  <2> QED BY <2>2 DEF Ledger!LedgerNext
<1>6. CASE UNCHANGED verdictVars
  BY <1>2, <1>6, LedgerRests DEF verdictVars
<1> QED BY <1>3, <1>5, <1>6 DEF Tick, verdictVars

\* A sync, complete or torn, gives a mission its owner before anything of it
\* has happened.
LEMMA LedgerSyncs ==
    ASSUME Booked, NEW p \in Peers, SendSync(p)
    PROVE  Ledger!LedgerNext
<1>1. TypeOK /\ Mission(p) /\ ~synced[p]
  BY DEF Booked, MissionInv, Fresh, SendSync
<1>2. /\ client[p] = NoClient /\ ~laidOut[p] /\ verdict[p] = "none"
      /\ ~expired[p]
  BY <1>1 DEF Mission, Bound, Booked, Clocked
<1>3. /\ thread.client \in Clients /\ tcp[thread.client] = "up"
      /\ client' = [client EXCEPT ![p] = thread.client]
      /\ verdict' = [verdict EXCEPT ![p] = "none"]
      /\ UNCHANGED <<tcp, received, expired, outbox>>
  BY DEF SendSync, tcpVars
<1>4. verdict' = verdict
  BY <1>1, <1>2, <1>3 DEF TypeOK
<1>5. \A q \in Peers \ {p} : UNCHANGED <<life[q], laidOut[q]>>
  BY <1>1 DEF SendSync, combatVars, TypeOK
<1>6. ~Lost(p, life[p])
  BY <1>2 DEF Lost
<1>7. ~Lost(p, life[p])'
  <2>1. CASE UNCHANGED <<laidOut, combatVars>>
    BY <1>2, <2>1 DEF Lost
  <2>2. CASE life' = [life EXCEPT ![p] = [o \in Objects |-> InitialLife(o)]]
    <3>1. \A o \in Objects : life'[p][o] = InitialLife(o) /\ InitialLife(o) # 0
      BY <1>1, <2>2, LivesArePositive DEF TypeOK, InitialLife
    <3> QED BY <3>1 DEF Lost, Objects, Entities
  <2> QED BY <2>1, <2>2 DEF SendSync
<1>8. LostMissions' = LostMissions /\ p \notin LostMissions
  BY <1>5, <1>6, <1>7, LostAfter
<1>9. Ledger!Assign(p, thread.client)
  BY <1>2, <1>3, <1>4, <1>8 DEF Ledger!Assign
<1> QED BY <1>3, <1>9 DEF Ledger!LedgerNext

\* Clients, time and the scheduler.
LEMMA LedgerOthers ==
    ASSUME Booked,
           \/ \E p \in Peers : TimeRunsOut(p)
           \/ \E c \in Clients : Connect(c) \/ Disconnect(c)
           \/ \E r \in outbox : DeliverResult(r)
    PROVE  Ledger!LedgerNext
<1>1. ASSUME NEW p \in Peers, TimeRunsOut(p)  PROVE Ledger!LedgerNext
  <2>1. client[p] # NoClient
    BY <1>1 DEF TimeRunsOut, Booked, MissionInv, Mission, Bound
  <2>2. LostMissions' = LostMissions
    BY <1>1 DEF TimeRunsOut, LostMissions, Lost, combatVars
  <2>3. Ledger!RunOut(p)
    BY <1>1, <2>1, <2>2 DEF TimeRunsOut, Ledger!RunOut, tcpVars, verdictVars
  <2> QED BY <2>3 DEF Ledger!LedgerNext
<1>2. ASSUME NEW c \in Clients, Connect(c) \/ Disconnect(c)  PROVE Ledger!LedgerNext
  <2>1. LostMissions' = LostMissions
    BY <1>2 DEF Connect, Disconnect, LostMissions, Lost, combatVars, flagVars
  <2>2. Ledger!Arrive(c) \/ Ledger!Depart(c)
    BY <1>2, <2>1 DEF Connect, Disconnect, Ledger!Arrive, Ledger!Depart, flagVars,
       verdictVars
  <2> QED BY <2>2 DEF Ledger!LedgerNext
<1>3. ASSUME NEW r \in outbox, DeliverResult(r)  PROVE Ledger!LedgerNext
  <2>1. LostMissions' = LostMissions
    BY <1>3 DEF DeliverResult, LostMissions, Lost, combatVars, flagVars
  <2>2. Ledger!Deliver(r)
    BY <1>3, <2>1 DEF DeliverResult, Ledger!Deliver, flagVars
  <2> QED BY <2>2 DEF Ledger!LedgerNext
<1> QED BY <1>1, <1>2, <1>3

\* Every step is a step of the ledger, or none.
LEMMA LedgerStep ==
    ASSUME Booked, [Next]_vars
    PROVE  [Ledger!LedgerNext]_(Ledger!ledgerVars)
<1>1. ASSUME NEW p \in Peers,
             \/ SequencedPacket(p) \/ ReliableCombat(p)
             \/ Handshake(p) \/ ClientReady(p)
      PROVE  Ledger!LedgerNext \/ UNCHANGED Ledger!ledgerVars
  <2>1. /\ HandleCombat(p) /\ JudgeCombat(p)
        /\ UNCHANGED <<tcp, received, client, laidOut, expired>>
    BY <1>1 DEF SequencedPacket, ReliableCombat, Handshake, ClientReady,
       CombatEvent, HandleCombat, flagVars, tcpVars
  <2> QED BY <2>1, LedgerCombat
<1>2. ASSUME NEW p \in Peers,
             \/ SequencedDatagram(p) \/ EndOfPackets(p) \/ OtherDatagram(p)
             \/ LoadPending(p) \/ WithholdSync(p) \/ TickFallsDue(p)
      PROVE  UNCHANGED Ledger!ledgerVars
  <2>1. UNCHANGED <<tcp, client, laidOut, life, expired, verdict, outbox, received>>
    BY <1>2 DEF SequencedDatagram, EndOfPackets, OtherDatagram, LoadPending,
       WithholdSync, TickFallsDue, tcpVars, flagVars, combatVars, verdictVars
  <2> QED BY <2>1, LedgerRests
<1>3. ASSUME NEW c \in Clients, RoomStart(c)  PROVE UNCHANGED Ledger!ledgerVars
  <2>1. UNCHANGED <<tcp, client, laidOut, life, expired, verdict, outbox, received>>
    BY <1>3 DEF RoomStart, flagVars, combatVars, verdictVars
  <2> QED BY <2>1, LedgerRests
<1>4. CASE UNCHANGED vars
  <2>1. UNCHANGED <<tcp, client, laidOut, life, expired, verdict, outbox, received>>
    BY <1>4 DEF vars, tcpVars, flagVars, combatVars, verdictVars
  <2> QED BY <2>1, LedgerRests
<1> QED BY <1>1, <1>2, <1>3, <1>4, LedgerTicks, LedgerSyncs, LedgerOthers
        DEF Next, ThreadSteps, Datagrams

\* Missions are booked as the ledger says: one owner, one outcome, a loss
\* judged in the step that brings it and never won afterwards, a win never
\* before its time, and one notice, to the owner, unless it has gone.
THEOREM MissionsAreBooked == Spec => ImplementsLedger
<1>1. Init => Ledger!LedgerInit
  BY DEF Init, Ledger!LedgerInit, LostMissions, Lost
<1>2. Booked /\ [Next]_vars => [Ledger!LedgerNext]_(Ledger!ledgerVars)
  BY LedgerStep
<1> QED BY <1>1, <1>2, BookedAlways, PTL
        DEF Spec, ImplementsLedger, Ledger!LedgerSpec
=============================================================================
