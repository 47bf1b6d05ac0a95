------------------------------ MODULE SendPath ------------------------------
(***************************************************************************)
(* How a session's packets reach its client.  Threads that have something  *)
(* to say (the session's receive loop, delayed actions of the scheduler,   *)
(* the operator) call send_logical_bytes (ClientSession.cpp): each runs    *)
(* the session's one encoder outside any lock and then writes the result   *)
(* to the socket under send_mutex (SendAll, SocketPlatform.h).  The wire   *)
(* is a stream of bytes; the other end feeds whatever a recv returns to a  *)
(* decoder and takes logical packets off its output (client_loop and       *)
(* drain_logical_packets, TcpConnectionLoop.cpp, the server's own receive  *)
(* path).                                                                  *)
(***************************************************************************)
EXTENDS LzssCodec, SequencesExt

CONSTANTS
    Senders,        \* threads
    Operators,      \* those that run the command loop: they may send raw bytes
    Packets,        \* serialised logical packets: opcode, length, payload
    Nobody,         \* no thread
    MaxSends        \* bound: packets sent in all

ASSUME OperatorsSend == Operators \subseteq Senders
ASSUME PacketsAreSerialized ==
    \A p \in Packets : Len(p) >= 2 /\ p[2] = Len(p) - 2

VARIABLES
    encoder,        \* window of session->encoder
    task,           \* task[t]: what thread t is sending, or how far it is
    mutex,          \* owner of send_mutex
    broken,         \* the connection has failed
    wire,           \* bytes sent and not received
    decoder,        \* the receiver's LzssDecoder
    logical,        \* its logical_buffer
    order,          \* history: packets in the order of send_mutex
    arrived         \* packets that have been taken off logical

sendVars == <<encoder, task, mutex, broken, order>>
receiveVars == <<decoder, logical, arrived>>
vars == <<sendVars, wire, receiveVars>>

\* A task: the packet, what encode() has not read yet and what it has
\* written and SendAll has not sent.
Resting == [at |-> "rest", packet |-> <<>>, rest |-> <<>>, bytes |-> <<>>]

Init ==
    /\ encoder = NewWindow
    /\ task = [t \in Senders |-> Resting]
    /\ mutex = Nobody
    /\ broken = FALSE
    /\ wire = <<>>
    /\ decoder = NewDecoder
    /\ logical = <<>>
    /\ order = <<>>
    /\ arrived = <<>>

Waiting == {t \in Senders : task[t].at = "encode"}
Sent == Len(order) + Cardinality(Waiting)

-----------------------------------------------------------------------------
\* Senders.

\* send_logical_bytes is called with a serialised packet.
Call(t, p) ==
    /\ task[t].at = "rest"
    /\ Sent < MaxSends
    /\ task' = [task EXCEPT ![t] = [at |-> "encode", packet |-> p,
                                    rest |-> p, bytes |-> <<>>]]
    /\ UNCHANGED <<encoder, mutex, broken, order, wire, receiveVars>>

\* Increments of window_pos_ that another thread in encode() may undo.
Undone(t, n) ==
    IF \E s \in Senders \ {t} : task[s].at = "encode" THEN 0..n ELSE {0}

\* One group of encode(), without a lock.
Encode(t) ==
    LET e == EncodeGroup(encoder, task[t].rest)
    IN  /\ task[t].at = "encode"
        /\ task[t].rest # <<>>
        /\ task' = [task EXCEPT ![t].rest = e.rest, ![t].bytes = @ \o e.group]
        /\ \E n \in Undone(t, e.window.pos - encoder.pos) :
               encoder' = [e.window EXCEPT !.pos = @ - n]
        /\ UNCHANGED <<mutex, broken, order, wire, receiveVars>>

\* send_raw_lzss: the operator's bytes are written as they are.  He has packed
\* a packet by hand, in groups of literals.
Literals(p) ==
    LET groups == Len(p) \div GroupSize
        whole(n) == <<0>> \o SubSeq(p, n * GroupSize + 1, (n + 1) * GroupSize)
        rest == SubSeq(p, groups * GroupSize + 1, Len(p))
    IN  FlattenSeq([n \in 1..groups |-> whole(n - 1)])
        \o IF rest = <<>> THEN <<>>
           ELSE <<2 ^ Len(rest)>> \o rest \o TokenBytes(EndOfGroup)

CallRaw(t, p) ==
    /\ t \in Operators
    /\ task[t].at = "rest"
    /\ Sent < MaxSends
    /\ task' = [task EXCEPT ![t] = [at |-> "encode", packet |-> p,
                                    rest |-> <<>>, bytes |-> Literals(p)]]
    /\ UNCHANGED <<encoder, mutex, broken, order, wire, receiveVars>>

\* Mutant of Lock: the socket is written to without send_mutex.
LockNothing(t) ==
    /\ task[t].at = "encode"
    /\ task[t].rest = <<>>
    /\ task' = [task EXCEPT ![t].at = "send"]
    /\ order' = Append(order, task[t].packet)
    /\ UNCHANGED <<encoder, mutex, broken, wire, receiveVars>>

Lock(t) ==
    /\ task[t].at = "encode"
    /\ task[t].rest = <<>>
    /\ mutex = Nobody
    /\ mutex' = t
    /\ task' = [task EXCEPT ![t].at = "send"]
    /\ order' = Append(order, task[t].packet)
    /\ UNCHANGED <<encoder, broken, wire, receiveVars>>

\* One send() of SendAll: the socket takes some of the bytes.  The call
\* returns, and the mutex is released, with the last of them.
SendSome(t) ==
    /\ task[t].at = "send"
    /\ ~broken
    /\ \E n \in 1..Len(task[t].bytes) :
        /\ wire' = wire \o SubSeq(task[t].bytes, 1, n)
        /\ IF n = Len(task[t].bytes)
           THEN task' = [task EXCEPT ![t] = Resting] /\ mutex' = Nobody
           ELSE /\ task' = [task EXCEPT ![t].bytes = SubSeq(@, n + 1, Len(@))]
                /\ UNCHANGED mutex
    /\ UNCHANGED <<encoder, broken, order, receiveVars>>

\* send() fails, SendAll throws and the lock goes.  The client has gone or
\* the session was closed: what follows fails too.
SendFails(t) ==
    /\ task[t].at = "send"
    /\ broken' = TRUE
    /\ task' = [task EXCEPT ![t] = Resting]
    /\ mutex' = Nobody
    /\ UNCHANGED <<encoder, order, wire, receiveVars>>

-----------------------------------------------------------------------------
\* The receiver.

\* TryPopLogicalPacket until it returns nothing: the packets that are whole
\* and the bytes left over.
Pops(s) ==
    LET whole(b) == Len(b) >= 2 /\ Len(b) >= 2 + b[2]
        after[n \in 0..Len(s)] ==
            IF n = 0 THEN [packets |-> <<>>, rest |-> s]
            ELSE LET a == after[n - 1]
                     size == 2 + a.rest[2]
                 IN  IF whole(a.rest)
                     THEN [packets |-> Append(a.packets, SubSeq(a.rest, 1, size)),
                           rest |-> SubSeq(a.rest, size + 1, Len(a.rest))]
                     ELSE a
    IN  after[Len(s)]

\* A recv returns the next n bytes of the stream.
Receive(n) ==
    LET fed == Feed(decoder, SubSeq(wire, 1, n))
        pops == Pops(logical \o fed.out)
    IN  /\ wire' = SubSeq(wire, n + 1, Len(wire))
        /\ decoder' = [k \in DOMAIN decoder |-> fed[k]]
        /\ logical' = pops.rest
        /\ arrived' = arrived \o pops.packets
        /\ UNCHANGED sendVars

Next ==
    \/ \E t \in Senders :
        \/ \E p \in Packets : Call(t, p) \/ CallRaw(t, p)
        \/ Encode(t) \/ Lock(t) \/ SendSome(t) \/ SendFails(t)
    \/ \E n \in 1..Len(wire) : Receive(n)

Spec == Init /\ [][Next]_vars

-----------------------------------------------------------------------------
\* Packets that leave no room for a match: less than MinMatch bytes over
\* whole groups.
LeavesNoMatch(p) == Len(p) % GroupSize < MinMatch

\* send_logical_bytes is a channel of packets.  Senders race for the encoder and
\* the socket takes and delivers the stream in pieces, yet the packets arrive
\* whole, once and in the order of send_mutex: the state of the encoder does
\* not show in packets that leave no room for a match.
Channel == INSTANCE FrameChannel WITH sent <- order
ImplementsChannel == Channel!Spec

\* Nothing waits in the decoder or the logical buffer for a later packet: when
\* no sender holds the socket and everything has been received, every packet
\* has arrived.  A group that is cut short must say so.
NothingIsHeldBack ==
    mutex = Nobody /\ wire = <<>> /\ ~broken => arrived = order /\ logical = <<>>

\* The packets arrive as they were sent, whatever is in them: what encode()
\* writes, feed() reads.
PacketsArriveIntact == IsPrefix(arrived, order)
=============================================================================
