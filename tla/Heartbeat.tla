----------------------------- MODULE Heartbeat -----------------------------
(***************************************************************************)
(* A heartbeat_sender and the heartbeat_receiver it watches (heartbeat.cpp)*)
(* in discrete time.                                                       *)
(*                                                                         *)
(* The sender asks for a heartbeat every Pulse ticks and gives the answer  *)
(* timeout ticks; after N misses in a row it reports and quits.  The       *)
(* receiver ends itself, and the runner with it, when no heartbeat reaches *)
(* it for ReceiverTimeout ticks.  So a runner that is given up ends itself *)
(* and need not be told.                                                   *)
(*                                                                         *)
(* Time passes in Tick, which is urgent: it waits for a timer that is due, *)
(* for a message the sender has left lying for MaxLag ticks, and for a     *)
(* heartbeat that is as late as it may be.                                 *)
(***************************************************************************)
EXTENDS Naturals, FiniteSets, Sequences

CONSTANTS Pulse,            \* pulseDuration
          Timeouts,         \* values of timeout of the heartbeat_sender
          N,                \* n; 0 would do as 1 does
          ReceiverTimeout,  \* timeout of the heartbeat_receiver, not 0
          MaxLag,           \* how long the sender may leave a message lying
          MaxDelay,         \* how long a heartbeat may be under way
          IndexRange,       \* currentMessageIndex is counted modulo this
          Off               \* a timer that does not run

\* The constructor asserts pulseDuration > timeout, but without assertions
\* make_behavior accepts timeout = pulseDuration.  An index is compared with
\* the latest one only, so a small range does.
ASSUME HeartbeatAssumption ==
    /\ Pulse \in Nat /\ Timeouts \subseteq 1 .. Pulse
    /\ N \in Nat \ {0} /\ ReceiverTimeout \in Nat \ {0}
    /\ MaxLag \in Nat /\ MaxDelay \in Nat
    /\ IndexRange \in Nat /\ IndexRange > N + 1
    /\ Off \notin Nat

Index == 0 .. IndexRange - 1

Messages ==
    [type : {"start"}] \cup [type : {"reply", "error"}, index : Index]

VARIABLES running,              \* the sender has not quit
          mailbox,              \* mailbox of the sender
          lag,                  \* how long the sender has left its mailbox alone
          restart,              \* timer of the delayed start_atom
          outstanding,          \* requests without a response, and their timers
          currentMessageIndex, numberOfPastTimeouts,
          underWay,             \* heartbeats sent and not yet taken, and their age
          receiver,             \* "up", "cut" off from the sender, "dead", or "ended"
          idle,                 \* timer of the receiver
          timeout,              \* of the heartbeat_sender
          punctual,             \* whether heartbeats arrive within timeout
          missed,               \* history: latest requests not answered in time
          gone,                 \* history: ticks since the receiver was up
          sinceQuit             \* history: ticks since the sender quit

senderVars == <<running, restart, currentMessageIndex, numberOfPastTimeouts>>
setting    == <<timeout, punctual>>
history    == <<missed, gone, sinceQuit>>
vars == <<senderVars, mailbox, lag, outstanding, underWay, receiver, idle, setting, history>>

-----------------------------------------------------------------------------
\* The constructors and make_behavior of both: the sender starts after one pulse.
Init ==
    /\ running = TRUE
    /\ mailbox = <<>>
    /\ lag = 0
    /\ restart = Pulse
    /\ outstanding = {}
    /\ currentMessageIndex = 1
    /\ numberOfPastTimeouts = 0
    /\ underWay = <<>>
    /\ receiver = "up"
    /\ idle = ReceiverTimeout
    /\ timeout \in Timeouts
    /\ punctual \in BOOLEAN
    /\ missed = 0
    /\ gone = 0
    /\ sinceQuit = 0

Receives(type) == running /\ mailbox # <<>> /\ Head(mailbox).type = type

\* A request to an actor that is down is answered with an error at once.
IsDown == receiver \in {"dead", "ended"}

\* Deliberately wrong variant: the timeout is one tick short.
RequestTimerShort == timeout - 1

\* The timeout of the request the sender makes.
RequestTimer == timeout

\* The start_atom handler.
StartHandler ==
    LET index == (currentMessageIndex + 1) % IndexRange
        error == [type |-> "error", index |-> index]
    IN  /\ Receives("start")
        /\ currentMessageIndex' = index
        /\ restart' = Pulse
        /\ IF IsDown
           THEN /\ mailbox' = Append(Tail(mailbox), error)
                /\ missed' = missed + 1
                /\ UNCHANGED <<outstanding, underWay>>
           ELSE /\ mailbox' = Tail(mailbox)
                /\ outstanding' = outstanding \cup {[index |-> index, left |-> RequestTimer]}
                /\ underWay' = IF receiver = "up"
                               THEN Append(underWay, [index |-> index, age |-> 0])
                               ELSE underWay
                /\ UNCHANGED missed
        /\ lag' = 0
        /\ UNCHANGED <<running, numberOfPastTimeouts, receiver, idle, setting, gone, sinceQuit>>

\* Deliberately wrong variant: a reply does not reset the count.
ReplyHandlerCountingOn ==
    /\ Receives("reply")
    /\ mailbox' = Tail(mailbox)
    /\ lag' = 0
    /\ UNCHANGED <<senderVars, outstanding, underWay, receiver, idle, setting, history>>

\* The reply handler: a reply to an older heartbeat is ignored.
ReplyHandler ==
    /\ Receives("reply")
    /\ mailbox' = Tail(mailbox)
    /\ numberOfPastTimeouts' = IF Head(mailbox).index = currentMessageIndex
                               THEN 0 ELSE numberOfPastTimeouts
    /\ lag' = 0
    /\ UNCHANGED <<running, restart, currentMessageIndex, outstanding, underWay, receiver,
                   idle, setting, history>>

\* Deliberately wrong variant: one more error is allowed.
TooMany(count) == count > N

Enough(count) == count >= N

\* The error handler: onNTimeouts and quit after N errors in a row.
ErrorHandler ==
    /\ Receives("error")
    /\ numberOfPastTimeouts' = numberOfPastTimeouts + 1
    /\ lag' = 0
    /\ IF Enough(numberOfPastTimeouts')
       THEN /\ running' = FALSE
            /\ restart' = Off
            /\ mailbox' = <<>>
            /\ outstanding' = {}
       ELSE /\ mailbox' = Tail(mailbox)
            /\ UNCHANGED <<running, restart, outstanding>>
    /\ UNCHANGED <<currentMessageIndex, underWay, receiver, idle, setting, history>>

-----------------------------------------------------------------------------
\* The clock: delayed_send, the timeout of a request, after(timeout).
RestartFires ==
    /\ restart = 0
    /\ restart' = Off
    /\ mailbox' = Append(mailbox, [type |-> "start"])
    /\ UNCHANGED <<running, lag, currentMessageIndex, numberOfPastTimeouts, outstanding,
                   underWay, receiver, idle, setting, history>>

RequestTimesOut(request) ==
    /\ request.left = 0
    /\ outstanding' = outstanding \ {request}
    /\ mailbox' = Append(mailbox, [type |-> "error", index |-> request.index])
    /\ missed' = missed + 1
    /\ UNCHANGED <<senderVars, lag, underWay, receiver, idle, setting, gone, sinceQuit>>

\* What is not answered yet when the receiver goes down is answered an error.
GoesDown ==
    /\ idle' = Off
    /\ underWay' = <<>>
    /\ \E errors \in [1 .. Cardinality(outstanding) -> {r.index : r \in outstanding}] :
          /\ \A i, j \in DOMAIN errors : errors[i] = errors[j] => i = j
          /\ mailbox' = mailbox \o
                [i \in DOMAIN errors |-> [type |-> "error", index |-> errors[i]]]
    /\ outstanding' = {}
    /\ missed' = missed + Cardinality(outstanding)
    /\ UNCHANGED <<senderVars, lag, setting, gone, sinceQuit>>

\* afterTimeout and quit of the receiver.
ReceiverTimesOut ==
    /\ idle = 0
    /\ receiver' = "ended"
    /\ GoesDown

\* Deliberately wrong variants: a heartbeat leaves the timer alone, or stops it.
TimerNotRestarted == idle
TimerStopped == Off

\* after(timeout) starts anew with every message.
TimerAfterHeartbeat == ReceiverTimeout

\* The request a reply answers.  A reply to a request that has timed out finds
\* no handler any more and is dropped.
Answers(index) == {r \in outstanding : r.index = index}

\* The heartbeat_atom handler of the receiver.
HeartbeatHandler ==
    LET index == Head(underWay).index
    IN  /\ receiver = "up" /\ underWay # <<>>
        /\ underWay' = Tail(underWay)
        /\ idle' = TimerAfterHeartbeat
        /\ outstanding' = outstanding \ Answers(index)
        /\ IF Answers(index) # {}
           THEN /\ mailbox' = Append(mailbox, [type |-> "reply", index |-> index])
                /\ missed' = 0
           ELSE UNCHANGED <<mailbox, missed>>
        /\ UNCHANGED <<senderVars, lag, receiver, setting, gone, sinceQuit>>

-----------------------------------------------------------------------------
(***************************************************************************)
(* The environment                                                         *)
(***************************************************************************)
ReceiverDies ==
    /\ ~ IsDown
    /\ receiver' = "dead"
    /\ GoesDown

\* Heartbeats no longer reach the receiver and are lost: the connection is gone,
\* or the runner that passes them on hangs.
ReceiverIsCutOff ==
    /\ receiver = "up"
    /\ receiver' = "cut"
    /\ underWay' = <<>>
    /\ UNCHANGED <<senderVars, mailbox, lag, outstanding, idle, setting, history>>

Down(timer) == IF timer = Off THEN Off ELSE timer - 1

\* A punctual heartbeat is answered before its timer is due.
Delay == IF punctual THEN timeout - 1 ELSE MaxDelay

\* History counters stop at this value, beyond all bounds below.
Far == 2 * (N + 1) * (Pulse + MaxLag) + ReceiverTimeout + MaxDelay
Count(counter, condition) == IF condition /\ counter < Far THEN counter + 1 ELSE counter

Tick ==
    /\ restart # 0 /\ idle # 0
    /\ \A r \in outstanding : r.left # 0
    /\ mailbox # <<>> => lag < MaxLag
    /\ \A i \in DOMAIN underWay : underWay[i].age < Delay
    /\ restart' = Down(restart)
    /\ idle' = Down(idle)
    /\ outstanding' = {[r EXCEPT !.left = @ - 1] : r \in outstanding}
    /\ underWay' = [i \in DOMAIN underWay |-> [underWay[i] EXCEPT !.age = @ + 1]]
    /\ lag' = IF mailbox # <<>> THEN lag + 1 ELSE 0
    /\ gone' = Count(gone, receiver # "up" /\ running)
    /\ sinceQuit' = Count(sinceQuit, ~ running /\ ~ IsDown)
    /\ UNCHANGED <<running, currentMessageIndex, numberOfPastTimeouts, mailbox, receiver,
                   setting, missed>>

Next ==
    \/ StartHandler
    \/ ReplyHandler
    \/ ErrorHandler
    \/ RestartFires
    \/ \E request \in outstanding : RequestTimesOut(request)
    \/ ReceiverTimesOut
    \/ HeartbeatHandler
    \/ ReceiverDies
    \/ ReceiverIsCutOff
    \/ Tick

Spec == Init /\ [][Next]_vars

-----------------------------------------------------------------------------
(***************************************************************************)
(* Properties                                                              *)
(***************************************************************************)
Timer(limit) == (0 .. limit) \cup {Off}

\* The type invariant: also, a sender whose timeout is less than a pulse never
\* waits for two responses.
TypeOK ==
    /\ running \in BOOLEAN
    /\ mailbox \in Seq(Messages)
    /\ lag \in 0 .. MaxLag
    /\ restart \in Timer(Pulse)
    /\ outstanding \subseteq [index : Index, left : 0 .. timeout]
    /\ timeout < Pulse => Cardinality(outstanding) <= 1
    /\ currentMessageIndex \in Index
    /\ numberOfPastTimeouts \in 0 .. N
    /\ underWay \in Seq([index : Index, age : 0 .. Delay])
    /\ receiver \in {"up", "cut", "dead", "ended"}
    /\ idle \in Timer(ReceiverTimeout)
    /\ timeout \in Timeouts
    /\ punctual \in BOOLEAN
    /\ missed \in Nat
    /\ gone \in 0 .. Far
    /\ sinceQuit \in 0 .. Far

\* The count of misses once a mailbox is worked off: the errors in it that no
\* reply follows, and what was counted before if it holds no reply.
Unreplied(box) ==
    {i \in DOMAIN box : /\ box[i].type = "error"
                        /\ \A j \in DOMAIN box : i < j => box[j].type # "reply"}

WorkedOff(box, count) ==
    Cardinality(Unreplied(box)) +
    IF \E i \in DOMAIN box : box[i].type = "reply" THEN 0 ELSE count

\* "N consecutive timeouts": whatever the order in which timers, replies and
\* errors arrive and however late the sender takes them, numberOfPastTimeouts,
\* once the mailbox is worked off, is how many requests in a row were missed.
\* With a timeout as long as a pulse a reply in the last moment finds the next
\* index and does not count.
CountsMisses ==
    running /\ timeout < Pulse => WorkedOff(mailbox, numberOfPastTimeouts) = missed

\* A receiver that is up and whose answers take less than timeout is not given
\* up, however the sender is delayed.
NoFalseAlarm == punctual /\ receiver = "up" => running

\* The longest time from one start_atom to the next: the answer to the heartbeat
\* in between may be in the mailbox ahead of it.
Turn == (IF Pulse > timeout + MaxLag THEN Pulse ELSE timeout + MaxLag) + MaxLag

\* A receiver that died or was cut off is given up within this time.  (A sender
\* whose timeout is a pulse may be slower if MaxLag exceeds a pulse.)
DetectionBound == N * Turn + timeout + MaxLag
DetectedInTime == running => gone <= DetectionBound

\* A receiver that hears the sender ends itself only after it was given up,
\* when ReceiverTimeout exceeds a pulse with its delays.
EndsOnlyWhenGivenUp == [][receiver = "up" /\ receiver' = "ended" => ~ running]_vars

\* A receiver that was given up ends itself in time, a false alarm included:
\* both ends agree in the end although the sender tells the receiver nothing.
\* The last heartbeat is one timeout old then, or has just been sent if the
\* timeout is as long as a pulse.
GivenUpEnds ==
    ~ running /\ ~ IsDown =>
       sinceQuit + (IF timeout < Pulse THEN timeout ELSE 0) <= ReceiverTimeout + MaxDelay
=============================================================================
