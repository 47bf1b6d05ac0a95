--------------------------- MODULE RoomHandshake ---------------------------
(***************************************************************************)
(* The room conversation of one TCP session: the flags that decide whether *)
(* a room packet is answered (ClientSession.h), the handlers that set and  *)
(* consume them on the session's own thread, the delayed replies, each of  *)
(* which sleeps and then runs on a thread of its own (PacketScheduler.cpp),*)
(* and the operator's thread, which sends 0x8D.                            *)
(*                                                                         *)
(* One step is what a thread does under one state_mutex lock.  Which rooms *)
(* are listed is module LobbySessions; a reply's contents are left out.    *)
(***************************************************************************)
EXTENDS Integers, FiniteSets

CONSTANTS
    MaxFrames,      \* bound: frames the client sends
    MaxTokens       \* bound: 0x8D packets the operator sends

ASSUME BoundsAreNumbers == MaxFrames \in Nat /\ MaxTokens \in Nat

VARIABLES
    place,          \* where the session's thread is
    peerUp,         \* the client's end of the connection is open
    closed,         \* ClientSession::closed
    hasRoom,        \* HasCreatedRoomContext
    awaitCreate,    \* awaiting_room_create_completion
    awaitEnter,     \* awaiting_room_enter_token
    leaving,        \* pending_room_leave_request
    frame,          \* number of frames handled so far
    replies,        \* delayed replies that have not run to their end
    \* history
    armed,          \* times awaitCreate has been set
    completions,    \* create completions scheduled
    tokens,         \* 0x8D packets sent
    infos,          \* room-info replies scheduled
    owed,           \* a room was created and its completion not yet sent
    lateReply       \* a room-info reply went out after a leave it predates

threadVars == <<place, peerUp, closed, hasRoom, awaitCreate, awaitEnter,
                leaving, frame>>
historyVars == <<armed, completions, tokens, infos, owed, lateReply>>
vars == <<threadVars, replies, historyVars>>

Places == {"run", "select", "create", "ack", "clear", "done"}
Kinds == {"create", "info", "reseed", "select"}

\* n: the frame the reply answers.  left: history, the session has completed
\* a leave since the reply was scheduled.
Reply == [kind : Kinds, n : 0..MaxFrames, sending : BOOLEAN, left : BOOLEAN]

Scheduled(kind) == [kind |-> kind, n |-> frame, sending |-> FALSE,
                    left |-> FALSE]

Init ==
    /\ place = "run" /\ peerUp = TRUE /\ closed = FALSE
    /\ hasRoom = FALSE /\ awaitCreate = FALSE /\ awaitEnter = FALSE
    /\ leaving = FALSE
    /\ frame = 0
    /\ replies = {}
    /\ armed = 0 /\ completions = 0 /\ tokens = 0 /\ infos = 0
    /\ owed = FALSE /\ lateReply = FALSE

TakeFrame ==
    /\ place = "run"
    /\ frame < MaxFrames
    /\ frame' = frame + 1

InRoom == hasRoom /\ ~awaitCreate /\ ~leaving
-----------------------------------------------------------------------------
(* The session's own thread *)

\* capture_dynamic_room_state, 0x6D: outside a room it arms the completion.
CaptureSelect ==
    /\ TakeFrame
    /\ place' = "select"
    /\ awaitCreate' = ~InRoom
    /\ awaitEnter' = FALSE
    /\ leaving' = FALSE
    /\ armed' = IF InRoom THEN armed ELSE armed + 1
    /\ UNCHANGED <<peerUp, closed, hasRoom, replies, completions, tokens,
                   infos, owed, lateReply>>

\* auto_send_room_character_select_state
AnswerSelect ==
    /\ place = "select"
    /\ place' = "run"
    /\ replies' = IF InRoom THEN replies \cup {Scheduled("select")}
                            ELSE replies
    /\ UNCHANGED <<peerUp, closed, hasRoom, awaitCreate, awaitEnter, leaving,
                   frame, historyVars>>

\* capture_dynamic_room_state, 0x0C with room metadata.
CaptureCreate ==
    /\ TakeFrame
    /\ place' = "create"
    /\ awaitCreate' = TRUE
    /\ awaitEnter' = FALSE
    /\ leaving' = FALSE
    /\ hasRoom' = TRUE
    /\ armed' = armed + 1
    /\ owed' = TRUE
    /\ UNCHANGED <<peerUp, closed, replies, completions, tokens, infos,
                   lateReply>>

\* 0x0C with a payload too short to carry metadata: nothing is captured.
ShortCreate ==
    /\ TakeFrame
    /\ place' = "create"
    /\ UNCHANGED <<peerUp, closed, hasRoom, awaitCreate, awaitEnter, leaving,
                   replies, historyVars>>

\* auto_send_room_create_completion
AnswerCreate ==
    /\ place = "create"
    /\ place' = "run"
    /\ IF awaitCreate
          THEN /\ awaitCreate' = FALSE
               /\ replies' = replies \cup {Scheduled("create")}
               /\ completions' = completions + 1
          ELSE UNCHANGED <<awaitCreate, replies, completions>>
    /\ UNCHANGED <<peerUp, closed, hasRoom, awaitEnter, leaving, frame, armed,
                   tokens, infos, owed, lateReply>>

\* Mutant of AnswerInfo: the token is not used up.
AnswerInfoAgain ==
    /\ TakeFrame
    /\ IF awaitEnter
          THEN /\ replies' = replies \cup
                    {[Scheduled(k) EXCEPT !.n = frame'] :
                        k \in {"info", "reseed"}}
               /\ infos' = infos + 1
          ELSE UNCHANGED <<replies, infos>>
    /\ UNCHANGED <<place, peerUp, closed, hasRoom, awaitCreate, awaitEnter,
                   leaving, armed, completions, tokens, owed, lateReply>>

\* auto_send_room_info (0x0D): one token buys the reply and its reseed.
AnswerInfo ==
    /\ TakeFrame
    /\ IF awaitEnter
          THEN /\ awaitEnter' = FALSE
               /\ replies' = replies \cup
                    {[Scheduled(k) EXCEPT !.n = frame'] :
                        k \in {"info", "reseed"}}
               /\ infos' = infos + 1
          ELSE UNCHANGED <<awaitEnter, replies, infos>>
    /\ UNCHANGED <<place, peerUp, closed, hasRoom, awaitCreate, leaving, armed,
                   completions, tokens, owed, lateReply>>

\* auto_send_room_list (0x0E): it would finish a leave that is still pending.
AnswerList ==
    /\ TakeFrame
    /\ hasRoom' = (hasRoom /\ ~leaving)
    /\ awaitCreate' = (awaitCreate /\ ~leaving)
    /\ awaitEnter' = (awaitEnter /\ ~leaving)
    /\ leaving' = FALSE
    /\ UNCHANGED <<place, peerUp, closed, replies, historyVars>>

\* handle_room_leave_request (0x12): the mark that delayed replies look for ...
BeginLeave ==
    /\ TakeFrame
    /\ place' = "ack"
    /\ leaving' = TRUE
    /\ awaitCreate' = FALSE
    /\ awaitEnter' = FALSE
    /\ UNCHANGED <<peerUp, closed, hasRoom, replies, historyVars>>

\* ... the acknowledgement, sent inline; on a broken socket it throws and
\* client_loop ends the session ...
AckLeave ==
    /\ place = "ack"
    /\ \/ place' = "clear" /\ UNCHANGED closed
       \/ /\ closed \/ ~peerUp
          /\ place' = "done" /\ closed' = TRUE
    /\ UNCHANGED <<peerUp, hasRoom, awaitCreate, awaitEnter, leaving, frame,
                   replies, historyVars>>

\* ... and clear_created_room_state_for_session, which takes the mark away.
ClearRoom ==
    /\ place = "clear"
    /\ place' = "run"
    /\ hasRoom' = FALSE /\ awaitCreate' = FALSE /\ awaitEnter' = FALSE
    /\ leaving' = FALSE
    /\ replies' = {[r EXCEPT !.left = TRUE] : r \in replies}
    /\ UNCHANGED <<peerUp, closed, frame, historyVars>>

\* recv fails, returns 0, or the loop sees closed; client_loop ends.
HangUp ==
    /\ place = "run"
    /\ closed \/ ~peerUp
    /\ place' = "done"
    /\ closed' = TRUE
    /\ UNCHANGED <<peerUp, hasRoom, awaitCreate, awaitEnter, leaving, frame,
                   replies, historyVars>>
-----------------------------------------------------------------------------
(* Other threads *)

\* The client disconnects.
PeerGone ==
    /\ peerUp
    /\ peerUp' = FALSE
    /\ UNCHANGED <<place, closed, hasRoom, awaitCreate, awaitEnter, leaving,
                   frame, replies, historyVars>>

\* ClientSession::close() by a forced login or by the operator.
CloseByOther ==
    /\ ~closed
    /\ closed' = TRUE
    /\ UNCHANGED <<place, peerUp, hasRoom, awaitCreate, awaitEnter, leaving,
                   frame, replies, historyVars>>

\* send_logical_to_active of 0x8D: ApplySentPacketSideEffects sets the flag
\* before the packet is sent, whatever the session's thread is doing.
SendToken ==
    /\ tokens < MaxTokens
    /\ awaitEnter' = TRUE
    /\ tokens' = tokens + 1
    /\ UNCHANGED <<place, peerUp, closed, hasRoom, awaitCreate, leaving, frame,
                   replies, armed, completions, infos, owed, lateReply>>

\* Mutant of SkipsReply: a completion is skipped during a leave as well.
SkipsEveryReply(kind) ==
    \/ leaving
    \/ kind = "select" /\ awaitCreate

\* What a delayed action checks under state_mutex before it sends.  The
\* create completion checks nothing.
SkipsReply(kind) ==
    \/ kind \in {"info", "reseed", "select"} /\ leaving
    \/ kind = "select" /\ awaitCreate

\* The sleep is over: dropped with a closed session, skipped, or on to send.
\* Equal and even different delays fix no order between threads.
WakeReply(r) ==
    /\ ~r.sending
    /\ replies' = IF closed \/ SkipsReply(r.kind)
                     THEN replies \ {r}
                     ELSE (replies \ {r}) \cup {[r EXCEPT !.sending = TRUE]}
    /\ UNCHANGED <<threadVars, historyVars>>

\* The lock is released before the frames go out.  A send that throws is
\* logged by the scheduler and the action is over.
SendReply(r) ==
    /\ r.sending
    /\ replies' = replies \ {r}
    /\ lateReply' = \/ lateReply
                    \/ r.kind \in {"info", "reseed"} /\ r.left /\ peerUp /\ ~closed
    /\ owed' = (owed /\ r.kind # "create")
    /\ UNCHANGED <<threadVars, armed, completions, tokens, infos>>
-----------------------------------------------------------------------------

HandlerSteps == AnswerSelect \/ AnswerCreate \/ AckLeave \/ ClearRoom

FrameSteps ==
    \/ CaptureSelect \/ CaptureCreate \/ ShortCreate
    \/ AnswerInfo \/ AnswerList \/ BeginLeave

ReplySteps == \E r \in replies : WakeReply(r) \/ SendReply(r)

Next ==
    \/ HandlerSteps \/ FrameSteps \/ HangUp
    \/ PeerGone \/ CloseByOther \/ SendToken
    \/ ReplySteps

Spec == Init /\ [][Next]_vars

\* Threads keep running: a handler that has begun finishes, recv on a dead
\* connection returns, and a sleeping thread wakes up.
FairSpec ==
    /\ Spec
    /\ WF_vars(HandlerSteps)
    /\ WF_vars(HangUp)
    /\ WF_vars(ReplySteps)
-----------------------------------------------------------------------------
(* Properties *)

TypeOK ==
    /\ place \in Places
    /\ {peerUp, closed, hasRoom, awaitCreate, awaitEnter, leaving} \subseteq BOOLEAN
    /\ frame \in 0..MaxFrames
    /\ replies \subseteq Reply
    /\ {armed, completions, tokens, infos} \subseteq Nat
    /\ {owed, lateReply} \subseteq BOOLEAN

\* Nothing is answered twice: each room-info reply has consumed an 0x8D of
\* its own and each create completion an arming of its own, although the
\* operator sets the flag from another thread.
AnswersAreArmed ==
    /\ infos <= tokens
    /\ completions <= armed

\* The completion of a created room is never lost: it is about to be
\* scheduled or waits in a thread of its own, whatever leaves, room changes
\* and tokens of the operator come in between, as long as the session is open.
OwedIsOnItsWay ==
    owed => \/ place = "create" /\ awaitCreate
            \/ \E r \in replies : r.kind = "create"
            \/ closed

\* A created room is answered: once its 0x0C is captured, the completion goes
\* out or the session ends.
CreateIsAnswered == owed ~> (~owed \/ place = "done" \/ closed)

\* A room-info reply or reseed that is still waiting when the client leaves
\* the room is not sent afterwards: what auto_send_room_info logs of it,
\* "skipped delayed room-info reply after room leave".
NoReplyAfterLeave == ~lateReply
=============================================================================
