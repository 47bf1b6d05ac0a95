------------------------------ MODULE LzssCodec ------------------------------
(***************************************************************************)
(* The stream codec of the TCP sessions (LzssCodec.cpp) as functions on    *)
(* sequences of bytes.  Encoder and decoder keep a window of the last      *)
(* WindowSize bytes between calls.  A group on the wire is a byte of flags *)
(* and up to GroupSize items: a flag 0 is a literal byte, a flag 1 a token *)
(* of two bytes that copies part of the window, and the token 0 ends the   *)
(* group.  The encoder writes whole groups of literals and looks for       *)
(* matches only in what is left of a packet, less than GroupSize bytes.    *)
(***************************************************************************)
EXTENDS Integers, Sequences

CONSTANTS
    GroupSize,      \* 8: flags in a byte
    MinMatch,       \* kMinMatch, 4
    MaxMatch,       \* kMaxMatch, 0x12
    WindowSize      \* kWindowSize, 0x1000

ASSUME CodecSizes ==
    /\ {GroupSize, MinMatch, MaxMatch, WindowSize} \subseteq Nat \ {0}
    /\ MinMatch <= MaxMatch

ByteSize == 256

\* window_ and window_pos_ of either side.
NewWindow == [bytes |-> [i \in 0..WindowSize - 1 |-> 0], pos |-> 0]

Put(w, v) == [bytes |-> [w.bytes EXCEPT ![w.pos % WindowSize] = v],
              pos   |-> w.pos + 1]

PutAll(w, s) ==
    LET after[n \in 0..Len(s)] == IF n = 0 THEN w ELSE Put(after[n - 1], s[n])
    IN  after[Len(s)]

At(w, i) == w.bytes[i % WindowSize]

\* Tokens: the length above MinMatch and the distance less one.
Token(m) == (m.length - MinMatch) * WindowSize + (m.distance - 1)
TokenBytes(t) == <<t % ByteSize, t \div ByteSize>>
TokenOf(s) == s[1] + s[2] * ByteSize
Distance(t) == (t % WindowSize) + 1
Length(t) == (t \div WindowSize) + MinMatch
EndOfGroup == 0

-----------------------------------------------------------------------------
\* The encoder.

\* n bytes at distance d in the window are those that rest begins with.
Agrees(w, rest, d, n) ==
    \A k \in 0..n - 1 : At(w, w.pos - d + k) = rest[k + 1]

Matches(w, rest) ==
    {m \in [distance : 1..WindowSize, length : MinMatch..MaxMatch] :
        /\ m.distance <= w.pos
        /\ m.length <= Len(rest)
        /\ Agrees(w, rest, m.distance, m.length)}

\* find_best_match: the longest, and of those the nearest.
IsBestMatch(m, ms) ==
    \A o \in ms : \/ o.length < m.length
                  \/ o.length = m.length /\ o.distance >= m.distance

BestMatch(ms) == CHOOSE m \in ms : IsBestMatch(m, ms)

\* Mutant of GroupItem: a short group of literals has no end.
GroupItemUnended(g, bit) ==
    IF g.rest = <<>> THEN [g EXCEPT !.ended = TRUE]
    ELSE [g EXCEPT !.items = Append(@, Head(g.rest)),
                   !.window = Put(@, Head(g.rest)),
                   !.rest = Tail(@)]

\* One flag of the last group, with what is left of the packet in g.rest.
GroupItem(g, bit) ==
    LET ms == Matches(g.window, g.rest)
        m == BestMatch(ms)
    IN  CASE g.ended -> g
          [] ~g.ended /\ g.rest = <<>> ->
                [g EXCEPT !.flags = @ + 2 ^ bit,
                          !.items = @ \o TokenBytes(EndOfGroup),
                          !.ended = TRUE]
          [] ~g.ended /\ g.rest # <<>> /\ ms # {} ->
                [g EXCEPT !.flags = @ + 2 ^ bit,
                          !.items = @ \o TokenBytes(Token(m)),
                          !.window = PutAll(@, SubSeq(g.rest, 1, m.length)),
                          !.rest = SubSeq(@, m.length + 1, Len(@))]
          [] ~g.ended /\ g.rest # <<>> /\ ms = {} ->
                [g EXCEPT !.items = Append(@, Head(g.rest)),
                          !.window = Put(@, Head(g.rest)),
                          !.rest = Tail(@)]

LastGroup(w, rest) ==
    LET start == [window |-> w, rest |-> rest, flags |-> 0, items |-> <<>>,
                  ended |-> FALSE]
        after[n \in 0..GroupSize] ==
            IF n = 0 THEN start ELSE GroupItem(after[n - 1], n - 1)
    IN  after[GroupSize]

\* One turn of the loop of encode(): a group for the beginning of rest.
EncodeGroup(w, rest) ==
    IF Len(rest) >= GroupSize
    THEN LET raw == SubSeq(rest, 1, GroupSize)
         IN  [window |-> PutAll(w, raw), group |-> <<0>> \o raw,
              rest |-> SubSeq(rest, GroupSize + 1, Len(rest))]
    ELSE LET g == LastGroup(w, rest)
         IN  [window |-> g.window, group |-> <<g.flags>> \o g.items,
              rest |-> g.rest]

-----------------------------------------------------------------------------
\* The decoder: window, bytes that wait for the rest of their item, the flags
\* of the group and the next of them.  out is what feed() returns.

NewDecoder == [window |-> NewWindow, pending |-> <<>>, flags |-> 0,
               bit |-> GroupSize]

\* length bytes one by one: a copy may run over bytes it has just written.
Copied(w, distance, length) ==
    LET after[n \in 0..length] ==
            IF n = 0 THEN w
            ELSE Put(after[n - 1], At(after[n - 1], w.pos - distance + n - 1))
    IN  after[length]

CopiedBytes(w, distance, length) ==
    LET last == Copied(w, distance, length)
    IN  [n \in 1..length |-> At(last, w.pos + n - 1)]

FlagOf(d) == (d.flags \div 2 ^ d.bit) % 2

\* One turn of the loop of feed(), or d itself when its bytes do not do.
DecodeItem(d) ==
    LET token == TokenOf(d.pending)
        rest == SubSeq(d.pending, 3, Len(d.pending))
        value == Head(d.pending)
    IN  CASE d.pending = <<>> -> d
          [] d.pending # <<>> /\ d.bit >= GroupSize ->
                [d EXCEPT !.flags = value, !.bit = 0, !.pending = Tail(@)]
          [] d.pending # <<>> /\ d.bit < GroupSize /\ FlagOf(d) = 0 ->
                [d EXCEPT !.out = Append(@, value), !.bit = @ + 1,
                          !.window = Put(@, value), !.pending = Tail(@)]
          [] d.bit < GroupSize /\ FlagOf(d) = 1 /\ Len(d.pending) = 1 -> d
          [] d.bit < GroupSize /\ FlagOf(d) = 1 /\ Len(d.pending) > 1 ->
                IF token = EndOfGroup
                THEN [d EXCEPT !.bit = GroupSize, !.pending = rest]
                ELSE [d EXCEPT
                        !.out = @ \o CopiedBytes(d.window, Distance(token), Length(token)),
                        !.window = Copied(@, Distance(token), Length(token)),
                        !.bit = @ + 1, !.pending = rest]

\* feed(): the decoder after it, with its output in out.
Feed(d, chunk) ==
    LET start == [window |-> d.window, pending |-> d.pending \o chunk,
                  flags |-> d.flags, bit |-> d.bit, out |-> <<>>]
        after[n \in 0..Len(start.pending)] ==
            IF n = 0 THEN start ELSE DecodeItem(after[n - 1])
    IN  after[Len(start.pending)]
=============================================================================
