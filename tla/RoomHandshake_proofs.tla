------------------------ MODULE RoomHandshake_proofs ------------------------
(***************************************************************************)
(* Theorems about RoomHandshake, for any number of frames and tokens.      *)
(***************************************************************************)
EXTENDS RoomHandshake, TLAPS

\* TypeOK in the form the provers can use.
Typed ==
    /\ place \in Places
    /\ peerUp \in BOOLEAN /\ closed \in BOOLEAN /\ hasRoom \in BOOLEAN
    /\ awaitCreate \in BOOLEAN /\ awaitEnter \in BOOLEAN /\ leaving \in BOOLEAN
    /\ frame \in 0 .. MaxFrames
    /\ replies \subseteq Reply
    /\ armed \in Nat /\ completions \in Nat /\ tokens \in Nat /\ infos \in Nat
    /\ owed \in BOOLEAN /\ lateReply \in BOOLEAN

LEMMA TypedIsTypeOK == TypeOK <=> Typed
  BY DEF TypeOK, Typed

\* A flag that is up has been armed and not been answered yet.
Budgets ==
    /\ infos <= tokens /\ (awaitEnter => infos < tokens)
    /\ completions <= armed /\ (awaitCreate => completions < armed)

\* Together with OwedIsOnItsWay, what every step keeps.
Handshake == Typed /\ Budgets /\ OwedIsOnItsWay

LEMMA ScheduledIsReply ==
    ASSUME NEW kind \in Kinds, frame \in 0 .. MaxFrames
    PROVE  Scheduled(kind) \in Reply /\ Scheduled(kind).kind = kind
  BY DEF Scheduled, Reply

LEMMA InitHandshake == Init => Handshake
<1> SUFFICES ASSUME Init PROVE Handshake
  OBVIOUS
<1>1. Typed
  <2>1. frame \in 0 .. MaxFrames
    BY BoundsAreNumbers DEF Init
  <2> QED
    BY <2>1 DEF Init, Typed, Places
<1>2. Budgets /\ OwedIsOnItsWay
  BY DEF Init, Budgets, OwedIsOnItsWay
<1> QED
  BY <1>1, <1>2 DEF Handshake

\* The replies of AnswerInfo.
LEMMA InfoReplies ==
    ASSUME NEW r \in Reply, NEW n \in 0 .. MaxFrames
    PROVE  [r EXCEPT !.n = n] \in Reply
  BY DEF Reply

\* How the frames of the client, the operator and the replies move the flag
\* of the room-info reply and its counts: infos <= tokens.
LEMMA EnterMoves ==
    ASSUME [Next]_vars
    PROVE  \/ infos' = infos /\ tokens' = tokens /\ (awaitEnter' => awaitEnter)
           \/ infos' = infos /\ tokens' = tokens + 1
           \/ infos' = infos + 1 /\ tokens' = tokens /\ awaitEnter /\ ~awaitEnter'
<1>1. ASSUME \/ CaptureSelect \/ CaptureCreate \/ BeginLeave \/ ClearRoom \/ AnswerList
      PROVE  infos' = infos /\ tokens' = tokens /\ (awaitEnter' => awaitEnter)
  BY <1>1 DEF CaptureSelect, CaptureCreate, BeginLeave, ClearRoom, AnswerList, historyVars
<1>2. ASSUME \/ AnswerSelect \/ ShortCreate \/ AnswerCreate \/ AckLeave
             \/ HangUp \/ PeerGone \/ CloseByOther \/ ReplySteps \/ UNCHANGED vars
      PROVE  UNCHANGED <<infos, tokens, awaitEnter>>
  BY <1>2 DEF AnswerSelect, ShortCreate, AnswerCreate, AckLeave, HangUp, PeerGone,
              CloseByOther, ReplySteps, WakeReply, SendReply, vars, threadVars, historyVars
<1>3. ASSUME AnswerInfo
      PROVE  \/ UNCHANGED <<infos, tokens, awaitEnter>>
             \/ infos' = infos + 1 /\ tokens' = tokens /\ awaitEnter /\ ~awaitEnter'
  BY <1>3 DEF AnswerInfo
<1>4. ASSUME SendToken PROVE infos' = infos /\ tokens' = tokens + 1
  BY <1>4 DEF SendToken
<1> QED
  BY <1>1, <1>2, <1>3, <1>4 DEF Next, HandlerSteps, FrameSteps

\* The same of the completion: completions <= armed.
LEMMA CreateMoves ==
    ASSUME [Next]_vars
    PROVE  \/ completions' = completions /\ armed' = armed /\ (awaitCreate' => awaitCreate)
           \/ completions' = completions /\ armed' = armed + 1
           \/ completions' = completions + 1 /\ armed' = armed /\ awaitCreate /\ ~awaitCreate'
<1>1. ASSUME CaptureSelect
      PROVE  \/ completions' = completions /\ armed' = armed /\ ~awaitCreate'
             \/ completions' = completions /\ armed' = armed + 1
  BY <1>1 DEF CaptureSelect
<1>2. ASSUME BeginLeave \/ ClearRoom \/ AnswerList
      PROVE  completions' = completions /\ armed' = armed /\ (awaitCreate' => awaitCreate)
  BY <1>2 DEF BeginLeave, ClearRoom, AnswerList, historyVars
<1>3. ASSUME \/ AnswerSelect \/ ShortCreate \/ AnswerInfo \/ AckLeave \/ SendToken
             \/ HangUp \/ PeerGone \/ CloseByOther \/ ReplySteps \/ UNCHANGED vars
      PROVE  UNCHANGED <<completions, armed, awaitCreate>>
  BY <1>3 DEF AnswerSelect, ShortCreate, AnswerInfo, AckLeave, SendToken, HangUp, PeerGone,
              CloseByOther, ReplySteps, WakeReply, SendReply, vars, threadVars, historyVars
<1>4. ASSUME CaptureCreate PROVE completions' = completions /\ armed' = armed + 1
  BY <1>4 DEF CaptureCreate
<1>5. ASSUME AnswerCreate
      PROVE  \/ UNCHANGED <<completions, armed, awaitCreate>>
             \/ completions' = completions + 1 /\ armed' = armed /\ awaitCreate /\ ~awaitCreate'
  BY <1>5 DEF AnswerCreate
<1> QED
  BY <1>1, <1>2, <1>3, <1>4, <1>5 DEF Next, HandlerSteps, FrameSteps

LEMMA NextBudgets ==
    ASSUME Typed, Budgets, [Next]_vars
    PROVE  Budgets'
<1>1. (infos <= tokens /\ (awaitEnter => infos < tokens))'
  BY EnterMoves DEF Typed, Budgets
<1>2. (completions <= armed /\ (awaitCreate => completions < armed))'
  BY CreateMoves DEF Typed, Budgets
<1> QED
  BY <1>1, <1>2 DEF Budgets

\* A reply that is there stays, marked or not, until it is sent, skipped or
\* dropped with a closed session.
Kept == \A r \in replies : \E z \in replies' : z.kind = r.kind

LEMMA RepliesAdded ==
    ASSUME Typed,
           \/ CaptureSelect \/ AnswerSelect \/ CaptureCreate \/ ShortCreate \/ AnswerCreate
           \/ AnswerInfo \/ AnswerList \/ BeginLeave \/ AckLeave \/ HangUp
           \/ PeerGone \/ CloseByOther \/ SendToken \/ UNCHANGED vars
    PROVE  replies' \subseteq Reply /\ Kept
<1>1. ASSUME \/ CaptureSelect \/ CaptureCreate \/ ShortCreate \/ AnswerList \/ BeginLeave
             \/ AckLeave \/ HangUp \/ PeerGone \/ CloseByOther \/ SendToken \/ UNCHANGED vars
      PROVE  replies' = replies
  BY <1>1 DEF CaptureSelect, CaptureCreate, ShortCreate, AnswerList, BeginLeave, AckLeave,
              HangUp, PeerGone, CloseByOther, SendToken, vars
<1>2. ASSUME AnswerSelect \/ AnswerCreate
      PROVE  \/ replies' = replies
             \/ \E kind \in Kinds : replies' = replies \cup {Scheduled(kind)}
  BY <1>2 DEF AnswerSelect, AnswerCreate, Kinds
<1>3. ASSUME AnswerInfo
      PROVE  replies \subseteq replies' /\ replies' \subseteq Reply
  <2>1. frame' \in 0 .. MaxFrames
    BY <1>3, BoundsAreNumbers DEF AnswerInfo, TakeFrame, Typed
  <2>2. \A k \in {"info", "reseed"} : [Scheduled(k) EXCEPT !.n = frame'] \in Reply
    BY <2>1, ScheduledIsReply, InfoReplies DEF Typed, Kinds
  <2> QED
    BY <1>3, <2>2 DEF AnswerInfo, Typed
<1>4. replies \subseteq Reply /\ frame \in 0 .. MaxFrames
  BY DEF Typed
<1>5. replies \subseteq replies' /\ replies' \subseteq Reply
  BY <1>1, <1>2, <1>3, <1>4, ScheduledIsReply
<1> QED
  BY <1>5 DEF Kept

LEMMA RepliesMarked ==
    ASSUME Typed, ClearRoom
    PROVE  replies' \subseteq Reply /\ Kept
<1>1. replies' = {[r EXCEPT !.left = TRUE] : r \in replies}
  BY DEF ClearRoom
<1>2. \A r \in replies :
         [r EXCEPT !.left = TRUE] \in Reply /\ [r EXCEPT !.left = TRUE].kind = r.kind
  BY DEF Typed, Reply
<1> QED
  BY <1>1, <1>2 DEF Kept

LEMMA RepliesEnd ==
    ASSUME Typed, NEW r \in replies, WakeReply(r) \/ SendReply(r)
    PROVE  /\ replies' \subseteq Reply
           /\ UNCHANGED threadVars
           /\ \/ WakeReply(r) /\ owed' = owed /\ (closed \/ r.kind # "create" \/ Kept)
              \/ SendReply(r) /\ (owed' => owed /\ r.kind # "create")
           /\ \A z \in replies \ {r} : z \in replies'
<1>1. [r EXCEPT !.sending = TRUE] \in Reply /\ [r EXCEPT !.sending = TRUE].kind = r.kind
  BY DEF Typed, Reply
<1>2. replies \subseteq Reply
  BY DEF Typed
<1>3. CASE WakeReply(r)
  <2>1. \/ replies' = replies \ {r} /\ (closed \/ r.kind # "create")
        \/ replies' = (replies \ {r}) \cup {[r EXCEPT !.sending = TRUE]}
    BY <1>3 DEF WakeReply, SkipsReply
  <2>2. owed' = owed /\ UNCHANGED threadVars
    BY <1>3 DEF WakeReply, historyVars
  <2> QED
    BY <1>1, <1>2, <1>3, <2>1, <2>2 DEF Kept
<1>4. CASE SendReply(r)
  BY <1>2, <1>4 DEF SendReply
<1> QED
  BY <1>3, <1>4

LEMMA NextTyped ==
    ASSUME Typed, [Next]_vars
    PROVE  Typed'
<1> USE DEF Typed
<1>1. place' \in Places
  BY DEF Next, HandlerSteps, FrameSteps, ReplySteps, CaptureSelect, AnswerSelect,
         CaptureCreate, ShortCreate, AnswerCreate, AnswerInfo, AnswerList, BeginLeave,
         AckLeave, ClearRoom, HangUp, PeerGone, CloseByOther, SendToken, WakeReply,
         SendReply, vars, threadVars, Places
<1>2. frame' \in 0 .. MaxFrames
  <2>1. frame' = frame \/ TakeFrame
    BY DEF Next, HandlerSteps, FrameSteps, ReplySteps, CaptureSelect, AnswerSelect,
           CaptureCreate, ShortCreate, AnswerCreate, AnswerInfo, AnswerList, BeginLeave,
           AckLeave, ClearRoom, HangUp, PeerGone, CloseByOther, SendToken, WakeReply,
           SendReply, vars, threadVars
  <2> QED
    BY <2>1, BoundsAreNumbers DEF TakeFrame
<1>3. /\ peerUp' \in BOOLEAN /\ closed' \in BOOLEAN /\ hasRoom' \in BOOLEAN
      /\ awaitCreate' \in BOOLEAN /\ awaitEnter' \in BOOLEAN /\ leaving' \in BOOLEAN
  <2>1. CASE FrameSteps
    BY <2>1 DEF FrameSteps, CaptureSelect, CaptureCreate, ShortCreate, AnswerInfo,
                AnswerList, BeginLeave, InRoom
  <2>2. CASE HandlerSteps
    BY <2>2 DEF HandlerSteps, AnswerSelect, AnswerCreate, AckLeave, ClearRoom
  <2>3. CASE HangUp \/ PeerGone \/ CloseByOther \/ SendToken \/ ReplySteps \/ UNCHANGED vars
    BY <2>3 DEF HangUp, PeerGone, CloseByOther, SendToken, ReplySteps, WakeReply,
                SendReply, vars, threadVars
  <2> QED
    BY <2>1, <2>2, <2>3 DEF Next
<1>4. replies' \subseteq Reply
  BY RepliesAdded, RepliesMarked, RepliesEnd DEF Next, HandlerSteps, FrameSteps, ReplySteps
<1>5. armed' \in Nat /\ completions' \in Nat /\ tokens' \in Nat /\ infos' \in Nat
  BY EnterMoves, CreateMoves
<1>6. owed' \in BOOLEAN /\ lateReply' \in BOOLEAN
  BY DEF Next, HandlerSteps, FrameSteps, ReplySteps, CaptureSelect, AnswerSelect,
         CaptureCreate, ShortCreate, AnswerCreate, AnswerInfo, AnswerList, BeginLeave,
         AckLeave, ClearRoom, HangUp, PeerGone, CloseByOther, SendToken, WakeReply,
         SendReply, vars, historyVars
<1> QED
  BY <1>1, <1>2, <1>3, <1>4, <1>5, <1>6

LEMMA NextOwed ==
    ASSUME Typed, OwedIsOnItsWay, [Next]_vars
    PROVE  OwedIsOnItsWay'
<1>1. CASE CaptureCreate
  BY <1>1 DEF CaptureCreate, OwedIsOnItsWay
<1>2. CASE AnswerCreate /\ awaitCreate
  <2>1. frame \in 0 .. MaxFrames /\ replies' = replies \cup {Scheduled("create")}
    BY <1>2 DEF AnswerCreate, Typed
  <2>2. Scheduled("create").kind = "create"
    BY <2>1, ScheduledIsReply DEF Kinds
  <2> QED
    BY <2>1, <2>2 DEF OwedIsOnItsWay
<1>3. CASE /\ Kept /\ owed' = owed /\ (closed => closed')
           /\ place # "create" \/ ~awaitCreate \/ UNCHANGED <<place, awaitCreate>>
  BY <1>3 DEF Kept, OwedIsOnItsWay
<1>4. ASSUME \/ CaptureSelect \/ AnswerSelect \/ ShortCreate \/ (AnswerCreate /\ ~awaitCreate)
             \/ AnswerInfo \/ AnswerList \/ BeginLeave \/ AckLeave \/ ClearRoom \/ HangUp
             \/ PeerGone \/ CloseByOther \/ SendToken \/ UNCHANGED vars
      PROVE  /\ Kept /\ owed' = owed /\ (closed => closed')
             /\ place # "create" \/ ~awaitCreate \/ UNCHANGED <<place, awaitCreate>>
  <2>1. Kept
    BY <1>4, RepliesAdded, RepliesMarked
  <2>2. owed' = owed /\ (closed => closed')
    BY <1>4 DEF CaptureSelect, AnswerSelect, ShortCreate, AnswerCreate, AnswerInfo,
                AnswerList, BeginLeave, AckLeave, ClearRoom, HangUp, PeerGone, CloseByOther,
                SendToken, vars, threadVars, historyVars
  <2>3. place # "create" \/ ~awaitCreate \/ UNCHANGED <<place, awaitCreate>>
    BY <1>4 DEF CaptureSelect, AnswerSelect, ShortCreate, AnswerInfo, TakeFrame,
                AnswerList, BeginLeave, AckLeave, ClearRoom, HangUp, PeerGone, CloseByOther,
                SendToken, vars, threadVars
  <2> QED
    BY <2>1, <2>2, <2>3
<1>5. ASSUME NEW r \in replies, WakeReply(r) \/ SendReply(r) PROVE OwedIsOnItsWay'
  <2>1. /\ UNCHANGED <<closed, place, awaitCreate>>
        /\ \/ owed' = owed /\ (closed \/ r.kind # "create" \/ Kept)
           \/ owed' => owed /\ r.kind # "create"
        /\ \A z \in replies \ {r} : z \in replies'
    BY <1>5, RepliesEnd DEF threadVars
  <2> QED
    BY <2>1 DEF OwedIsOnItsWay, Kept
<1> QED
  BY <1>1, <1>2, <1>3, <1>4, <1>5 DEF Next, HandlerSteps, FrameSteps, ReplySteps

LEMMA NextHandshake == Handshake /\ [Next]_vars => Handshake'
  BY NextTyped, NextBudgets, NextOwed DEF Handshake

LEMMA AlwaysHandshake == Spec => []Handshake
  BY InitHandshake, NextHandshake, PTL DEF Spec

\* Flags, frames, replies and counts are what they should be.
THEOREM ConversationIsTyped == Spec => []TypeOK
<1>1. Handshake => TypeOK
  BY TypedIsTypeOK DEF Handshake
<1> QED
  BY <1>1, AlwaysHandshake, PTL

\* Each room-info reply has used an 0x8D of its own and each completion an
\* arming of its own: a flag that is up stands for one that is left.
THEOREM AnswersAreAlwaysArmed == Spec => []AnswersAreArmed
<1>1. Handshake => AnswersAreArmed
  BY DEF Handshake, Budgets, AnswersAreArmed
<1> QED
  BY <1>1, AlwaysHandshake, PTL

\* The completion of a created room is never lost while the session is open.
THEOREM CompletionsAreNotLost == Spec => []OwedIsOnItsWay
<1>1. Handshake => OwedIsOnItsWay
  BY DEF Handshake
<1> QED
  BY <1>1, AlwaysHandshake, PTL
=============================================================================
