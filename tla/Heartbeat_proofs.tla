-------------------------- MODULE Heartbeat_proofs --------------------------
(***************************************************************************)
(* Proofs about the heartbeat, for any pulse, timeouts, number of misses,  *)
(* delays and index range.                                                 *)
(***************************************************************************)
EXTENDS Heartbeat, FiniteSetTheorems, SequenceTheorems, TLAPS

-----------------------------------------------------------------------------
(***************************************************************************)
(* Type correctness                                                        *)
(*                                                                         *)
(* That a sender with a timeout below its pulse never waits for two        *)
(* responses follows from its timers: the request is always due before the *)
(* next start_atom, of which there is only one.                            *)
(***************************************************************************)
Starts(box) == {i \in DOMAIN box : box[i].type = "start"}

\* At most one start_atom exists: under way as a timer or in the mailbox.
OneStart ==
    /\ restart # Off => Starts(mailbox) = {}
    /\ \A i, j \in Starts(mailbox) : i = j

\* A request is due before the next start_atom.
DueFirst ==
    timeout < Pulse =>
       /\ \A r \in outstanding : restart # Off /\ r.left < restart
       /\ \A r1, r2 \in outstanding : r1 = r2

\* What TypeOK does not say of the sender's own count.
Counting == running => numberOfPastTimeouts < N

\* TypeOK without the cardinality, which follows from DueFirst.
Types ==
    /\ running \in BOOLEAN
    /\ mailbox \in Seq(Messages)
    /\ lag \in 0 .. MaxLag
    /\ restart \in Timer(Pulse)
    /\ outstanding \subseteq [index : Index, left : 0 .. timeout]
    /\ IsFiniteSet(outstanding)
    /\ currentMessageIndex \in Index
    /\ numberOfPastTimeouts \in 0 .. N
    /\ underWay \in Seq([index : Index, age : 0 .. Delay])
    /\ receiver \in {"up", "cut", "dead", "ended"}
    /\ idle \in Timer(ReceiverTimeout)
    /\ timeout \in Timeouts
    /\ punctual \in BOOLEAN
    /\ missed \in Nat
    /\ gone \in 0 .. Far
    /\ sinceQuit \in 0 .. Far

TypeInv == Types /\ OneStart /\ DueFirst /\ Counting

\* The constants and the bounds made of them are natural numbers.
LEMMA Bounds ==
    ASSUME timeout \in Timeouts, punctual \in BOOLEAN
    PROVE  /\ timeout \in 1 .. Pulse /\ Pulse \in Nat \ {0}
           /\ N \in Nat \ {0} /\ MaxLag \in Nat /\ ReceiverTimeout \in Nat \ {0}
           /\ Delay \in Nat
           /\ Far \in Nat
           /\ Off \notin Nat
           /\ IndexRange \in Nat \ {0}
<1>1. /\ timeout \in 1 .. Pulse /\ Pulse \in Nat \ {0}
      /\ N \in Nat \ {0} /\ MaxLag \in Nat /\ ReceiverTimeout \in Nat \ {0}
      /\ Delay \in Nat /\ Off \notin Nat /\ IndexRange \in Nat \ {0}
  BY HeartbeatAssumption DEF Delay
<1>2. Far \in Nat
  <2>1. 2 * (N + 1) \in Nat /\ Pulse + MaxLag \in Nat
    BY <1>1
  <2>2. 2 * (N + 1) * (Pulse + MaxLag) \in Nat
    BY <2>1
  <2>3. QED
    BY <2>2, HeartbeatAssumption DEF Far
<1>3. QED
  BY <1>1, <1>2

\* Appending to a mailbox, and taking its first message.
LEMMA StartsAppend ==
    ASSUME NEW box \in Seq(Messages), NEW msg \in Messages
    PROVE  /\ Append(box, msg) \in Seq(Messages)
           /\ msg.type # "start" => Starts(Append(box, msg)) = Starts(box)
           /\ msg.type = "start" => Starts(Append(box, msg)) = Starts(box) \cup {Len(box) + 1}
<1>1. /\ Append(box, msg) \in Seq(Messages)
      /\ DOMAIN Append(box, msg) = 1 .. Len(box) + 1
      /\ Append(box, msg)[Len(box) + 1] = msg
      /\ \A i \in 1 .. Len(box) : Append(box, msg)[i] = box[i]
      /\ DOMAIN box = 1 .. Len(box) /\ Len(box) \in Nat
  OBVIOUS
<1> DEFINE longer == Append(box, msg)
<1> HIDE DEF longer
<1>2. QED
  BY <1>1 DEF Starts, longer

LEMMA StartsTail ==
    ASSUME NEW box \in Seq(Messages), box # <<>>,
           \A i, j \in Starts(box) : i = j
    PROVE  /\ Tail(box) \in Seq(Messages)
           /\ \A i, j \in Starts(Tail(box)) : i = j
           /\ Starts(box) = {} => Starts(Tail(box)) = {}
           /\ Head(box).type = "start" => Starts(Tail(box)) = {}
           /\ Head(box) \in Messages
<1>1. /\ Tail(box) \in Seq(Messages) /\ Head(box) = box[1] /\ box[1] \in Messages
      /\ DOMAIN Tail(box) = 1 .. Len(box) - 1
      /\ \A i \in 1 .. Len(box) - 1 : Tail(box)[i] = box[i + 1]
      /\ DOMAIN box = 1 .. Len(box) /\ Len(box) \in Nat \ {0}
  OBVIOUS
<1>2. ASSUME NEW i \in Starts(Tail(box))
      PROVE  i \in Nat \ {0} /\ i + 1 \in Starts(box)
  <2>1. i \in 1 .. Len(box) - 1 /\ Tail(box)[i].type = "start"
    BY <1>1, <1>2 DEF Starts
  <2>2. i + 1 \in 1 .. Len(box) /\ box[i + 1].type = "start"
    BY <1>1, <2>1
  <2>3. QED
    BY <1>1, <2>1, <2>2 DEF Starts
<1>3. ASSUME NEW i \in Starts(Tail(box)), NEW j \in Starts(Tail(box))
      PROVE  i = j
  BY <1>2
<1>4. Starts(box) = {} => Starts(Tail(box)) = {}
  BY <1>2
<1>5. ASSUME Head(box).type = "start"
      PROVE  Starts(Tail(box)) = {}
  <2>1. 1 \in Starts(box)
    BY <1>1, <1>5 DEF Starts
  <2>2. QED
    BY <1>2, <2>1
<1>6. QED
  BY <1>1, <1>3, <1>4, <1>5

LEMMA TypeInvInit == Init => TypeInv
<1> SUFFICES ASSUME Init
             PROVE  TypeInv
  OBVIOUS
<1>1. timeout \in Timeouts /\ punctual \in BOOLEAN
  BY DEF Init
<1>2. /\ Far \in Nat /\ MaxLag \in Nat /\ N \in Nat \ {0}
      /\ Pulse \in Nat \ {0} /\ ReceiverTimeout \in Nat \ {0}
  BY <1>1, Bounds
<1>3. IsFiniteSet(outstanding)
  BY FS_EmptySet DEF Init
<1>4. currentMessageIndex \in Index
  BY HeartbeatAssumption DEF Init, Index
<1>5. Types
  BY <1>1, <1>2, <1>3, <1>4 DEF Init, Types, Timer
<1>6. OneStart /\ DueFirst /\ Counting
  BY <1>2 DEF Init, OneStart, Starts, DueFirst, Counting
<1>7. QED
  BY <1>5, <1>6 DEF TypeInv

LEMMA TypeInvStart == TypeInv /\ StartHandler => TypeInv'
<1> SUFFICES ASSUME TypeInv, StartHandler
             PROVE  TypeInv'
  OBVIOUS
<1> USE DEF TypeInv
<1> DEFINE index == (currentMessageIndex + 1) % IndexRange
           new   == [index |-> index, left |-> timeout]
           error == [type |-> "error", index |-> index]
<1>1. /\ timeout \in 1 .. Pulse /\ Pulse \in Nat \ {0} /\ IndexRange \in Nat \ {0}
      /\ Delay \in Nat /\ Delay' = Delay /\ Off \notin Nat /\ MaxLag \in Nat
  BY Bounds DEF Types, StartHandler, setting, Delay
<1>2. index \in Index
  BY <1>1 DEF Types, Index
<1>3. /\ mailbox # <<>> /\ Head(mailbox).type = "start" /\ mailbox \in Seq(Messages)
      /\ \A i, j \in Starts(mailbox) : i = j
  BY DEF StartHandler, Receives, Types, OneStart
<1>4. Tail(mailbox) \in Seq(Messages) /\ Starts(Tail(mailbox)) = {}
  BY <1>3, StartsTail
<1>5. error \in Messages /\ error.type # "start"
  BY <1>2 DEF Messages
<1>6. restart = Off
  <2>1. 1 \in Starts(mailbox)
    BY <1>3 DEF Starts
  <2>2. QED
    BY <2>1 DEF OneStart
<1>7. timeout < Pulse => outstanding = {}
  BY <1>6 DEF DueFirst
<1>8. /\ restart' = Pulse /\ currentMessageIndex' = index /\ lag' = 0
      /\ UNCHANGED <<running, numberOfPastTimeouts, receiver, idle, timeout, punctual,
                     gone, sinceQuit>>
  BY DEF StartHandler, setting
<1>9. /\ mailbox' \in Seq(Messages) /\ Starts(mailbox') = {}
  <2>1. mailbox' = Tail(mailbox) \/ mailbox' = Append(Tail(mailbox), error)
    BY DEF StartHandler
  <2> HIDE DEF error
  <2>2. QED
    BY <1>4, <1>5, <2>1, StartsAppend
<1>10. outstanding' = outstanding \/ outstanding' = outstanding \cup {new}
  BY DEF StartHandler, RequestTimer
<1>11. new \in [index : Index, left : 0 .. timeout]
  BY <1>1, <1>2
<1>12. IsFiniteSet(outstanding') /\ outstanding' \subseteq [index : Index, left : 0 .. timeout']
  <2> HIDE DEF new
  <2>1. QED
    BY <1>8, <1>10, <1>11, FS_AddElement DEF Types
<1>13. DueFirst'
  BY <1>1, <1>7, <1>8, <1>10 DEF DueFirst
<1>14. underWay' \in Seq([index : Index, age : 0 .. Delay])
  <2>1. [index |-> index, age |-> 0] \in [index : Index, age : 0 .. Delay]
    BY <1>1, <1>2
  <2>2. underWay' = underWay \/ underWay' = Append(underWay, [index |-> index, age |-> 0])
    BY DEF StartHandler
  <2>3. underWay \in Seq([index : Index, age : 0 .. Delay])
    BY DEF Types
  <2> DEFINE Heartbeats == [index : Index, age : 0 .. Delay]
             heartbeat  == [index |-> index, age |-> 0]
  <2> HIDE DEF Heartbeats, heartbeat
  <2>4. heartbeat \in Heartbeats /\ underWay \in Seq(Heartbeats)
    BY <2>1, <2>3 DEF Heartbeats, heartbeat
  <2>5. underWay' \in Seq(Heartbeats)
    BY <2>2, <2>4 DEF heartbeat
  <2>6. QED
    BY <2>5 DEF Heartbeats
<1>15. missed' \in Nat
  BY DEF StartHandler, Types
<1>16. Types'
  BY <1>1, <1>2, <1>8, <1>9, <1>12, <1>14, <1>15 DEF Types, Timer, Far
<1>17. OneStart' /\ Counting'
  BY <1>8, <1>9 DEF OneStart, Counting
<1>18. QED
  BY <1>13, <1>16, <1>17

LEMMA TypeInvReply == TypeInv /\ ReplyHandler => TypeInv'
<1> SUFFICES ASSUME TypeInv, ReplyHandler
             PROVE  TypeInv'
  OBVIOUS
<1> USE DEF TypeInv
<1>1. N \in Nat \ {0} /\ MaxLag \in Nat
  BY Bounds DEF Types
<1>2. /\ mailbox # <<>> /\ mailbox \in Seq(Messages)
      /\ \A i, j \in Starts(mailbox) : i = j
      /\ mailbox' = Tail(mailbox)
  BY DEF ReplyHandler, Receives, Types, OneStart
<1>3. /\ mailbox' \in Seq(Messages)
      /\ \A i, j \in Starts(mailbox') : i = j
      /\ Starts(mailbox) = {} => Starts(mailbox') = {}
  BY <1>2, StartsTail
<1>4. /\ UNCHANGED <<running, restart, currentMessageIndex, outstanding, underWay,
                     receiver, idle, timeout, punctual, missed, gone, sinceQuit>>
      /\ lag' = 0 /\ numberOfPastTimeouts' \in {0, numberOfPastTimeouts}
  BY DEF ReplyHandler, setting, history
<1>5. Types'
  BY <1>1, <1>3, <1>4 DEF Types, Delay, Far
<1>6. OneStart' /\ DueFirst' /\ Counting'
  BY <1>1, <1>3, <1>4 DEF OneStart, DueFirst, Counting
<1>7. QED
  BY <1>5, <1>6

LEMMA TypeInvError == TypeInv /\ ErrorHandler => TypeInv'
<1> SUFFICES ASSUME TypeInv, ErrorHandler
             PROVE  TypeInv'
  OBVIOUS
<1> USE DEF TypeInv
<1>1. N \in Nat \ {0} /\ MaxLag \in Nat
  BY Bounds DEF Types
<1>2. /\ mailbox # <<>> /\ mailbox \in Seq(Messages) /\ running
      /\ \A i, j \in Starts(mailbox) : i = j
      /\ numberOfPastTimeouts \in 0 .. N - 1
  BY <1>1 DEF ErrorHandler, Receives, Types, OneStart, Counting
<1>3. /\ UNCHANGED <<currentMessageIndex, underWay, receiver, idle, timeout, punctual,
                     missed, gone, sinceQuit>>
      /\ lag' = 0 /\ numberOfPastTimeouts' = numberOfPastTimeouts + 1
  BY DEF ErrorHandler, setting, history
<1>4. CASE numberOfPastTimeouts' >= N
  <2>1. running' = FALSE /\ restart' = Off /\ mailbox' = <<>> /\ outstanding' = {}
    BY <1>4 DEF ErrorHandler, Enough
  <2>2. numberOfPastTimeouts' \in 0 .. N /\ mailbox' \in Seq(Messages)
    BY <1>1, <1>2, <1>3, <2>1
  <2>3. IsFiniteSet(outstanding') /\ restart' \in Timer(Pulse) /\ running' \in BOOLEAN
    BY <2>1, FS_EmptySet DEF Timer
  <2>4. Types'
    BY <1>1, <1>3, <2>1, <2>2, <2>3 DEF Types, Delay, Far
  <2>5. OneStart' /\ DueFirst' /\ Counting'
    BY <2>1 DEF OneStart, Starts, DueFirst, Counting
  <2>6. QED
    BY <2>4, <2>5
<1>5. CASE ~ numberOfPastTimeouts' >= N
  <2>1. mailbox' = Tail(mailbox) /\ UNCHANGED <<running, restart, outstanding>>
    BY <1>5 DEF ErrorHandler, Enough
  <2>2. /\ mailbox' \in Seq(Messages)
        /\ \A i, j \in Starts(mailbox') : i = j
        /\ Starts(mailbox) = {} => Starts(mailbox') = {}
    BY <1>2, <2>1, StartsTail
  <2>3. numberOfPastTimeouts' \in 0 .. N - 1
    BY <1>1, <1>2, <1>3, <1>5
  <2>4. Types'
    BY <1>1, <1>3, <2>1, <2>2, <2>3 DEF Types, Delay, Far
  <2>5. OneStart' /\ DueFirst' /\ Counting'
    BY <1>1, <1>3, <2>1, <2>2, <2>3 DEF OneStart, DueFirst, Counting
  <2>6. QED
    BY <2>4, <2>5
<1>6. QED
  BY <1>4, <1>5

LEMMA TypeInvRestart == TypeInv /\ RestartFires => TypeInv'
<1> SUFFICES ASSUME TypeInv, RestartFires
             PROVE  TypeInv'
  OBVIOUS
<1> USE DEF TypeInv
<1> DEFINE start == [type |-> "start"]
<1>1. start \in Messages /\ start.type = "start" /\ mailbox \in Seq(Messages)
  BY DEF Messages, Types
<1>2. Off \notin Nat /\ Starts(mailbox) = {}
  BY HeartbeatAssumption DEF RestartFires, OneStart
<1>3. /\ mailbox' = Append(mailbox, start) /\ restart' = Off
      /\ UNCHANGED <<running, lag, currentMessageIndex, numberOfPastTimeouts, outstanding,
                     underWay, receiver, idle, timeout, punctual, missed, gone, sinceQuit>>
  BY DEF RestartFires, setting, history
<1> HIDE DEF start
<1>4. mailbox' \in Seq(Messages) /\ \A i, j \in Starts(mailbox') : i = j
  BY <1>1, <1>2, <1>3, StartsAppend
<1>5. timeout < Pulse => outstanding = {}
  <2>1. ASSUME timeout < Pulse, NEW r \in outstanding
        PROVE  FALSE
    BY <2>1 DEF DueFirst, RestartFires, Types
  <2>2. QED
    BY <2>1
<1>6. Types'
  BY <1>3, <1>4 DEF Types, Timer, Delay, Far
<1>7. OneStart' /\ DueFirst' /\ Counting'
  BY <1>3, <1>4, <1>5 DEF OneStart, DueFirst, Counting
<1>8. QED
  BY <1>6, <1>7

LEMMA TypeInvRequestTimesOut ==
    ASSUME TypeInv, NEW request \in outstanding, RequestTimesOut(request)
    PROVE  TypeInv'
<1> USE DEF TypeInv
<1> DEFINE error == [type |-> "error", index |-> request.index]
<1>1. error \in Messages /\ error.type # "start" /\ mailbox \in Seq(Messages)
  BY DEF Messages, Types
<1>2. /\ mailbox' = Append(mailbox, error) /\ missed' = missed + 1
      /\ outstanding' = outstanding \ {request}
      /\ UNCHANGED <<running, restart, lag, currentMessageIndex, numberOfPastTimeouts,
                     underWay, receiver, idle, timeout, punctual, gone, sinceQuit>>
  BY DEF RequestTimesOut, senderVars, setting
<1> HIDE DEF error
<1>3. mailbox' \in Seq(Messages) /\ Starts(mailbox') = Starts(mailbox)
  BY <1>1, <1>2, StartsAppend
<1>4. IsFiniteSet(outstanding')
  BY <1>2, FS_RemoveElement DEF Types
<1>5. Types'
  BY <1>2, <1>3, <1>4 DEF Types, Timer, Delay, Far
<1>6. OneStart' /\ DueFirst' /\ Counting'
  BY <1>2, <1>3 DEF OneStart, DueFirst, Counting
<1>7. QED
  BY <1>5, <1>6

\* The errors that answer what is outstanding go behind the mailbox.
LEMMA ErrorsOfOutstanding ==
    ASSUME TypeInv, GoesDown
    PROVE  \E errors \in Seq(Messages) :
              /\ mailbox' = mailbox \o errors
              /\ Len(errors) = Cardinality(outstanding)
              /\ \A i \in DOMAIN errors : errors[i].type = "error"
<1> DEFINE c == Cardinality(outstanding)
           indices == {r.index : r \in outstanding}
<1>1. c \in Nat /\ indices \subseteq Index
  BY FS_CardinalityType DEF TypeInv, Types
<1>2. PICK ids \in [1 .. c -> indices] :
         mailbox' = mailbox \o [i \in DOMAIN ids |-> [type |-> "error", index |-> ids[i]]]
  BY DEF GoesDown
<1> DEFINE errors == [i \in 1 .. c |-> [type |-> "error", index |-> ids[i]]]
<1> HIDE DEF c, indices
<1>3. errors \in [1 .. c -> Messages]
  BY <1>1 DEF Messages
<1>4. errors \in Seq(Messages) /\ Len(errors) = c
  BY <1>1, <1>3
<1>5. mailbox' = mailbox \o errors
  BY <1>2
<1>6. \A i \in DOMAIN errors : errors[i].type = "error"
  OBVIOUS
<1> HIDE DEF errors
<1>7. QED
  BY <1>4, <1>5, <1>6 DEF c

LEMMA StartsConcat ==
    ASSUME NEW box \in Seq(Messages), NEW errors \in Seq(Messages),
           \A i \in DOMAIN errors : errors[i].type = "error"
    PROVE  box \o errors \in Seq(Messages) /\ Starts(box \o errors) = Starts(box)
<1> DEFINE longer == box \o errors
<1>1. /\ longer \in Seq(Messages)
      /\ DOMAIN longer = 1 .. Len(box) + Len(errors)
      /\ \A i \in 1 .. Len(box) : longer[i] = box[i]
      /\ \A i \in DOMAIN longer : i > Len(box) => longer[i] = errors[i - Len(box)]
      /\ DOMAIN box = 1 .. Len(box) /\ Len(box) \in Nat
      /\ DOMAIN errors = 1 .. Len(errors) /\ Len(errors) \in Nat
  OBVIOUS
<1> HIDE DEF longer
<1>2. ASSUME NEW i \in DOMAIN longer, i > Len(box)
      PROVE  longer[i].type = "error"
  <2>1. i - Len(box) \in DOMAIN errors
    BY <1>1, <1>2
  <2>2. QED
    BY <1>1, <1>2, <2>1
<1>3. Starts(longer) = Starts(box)
  BY <1>1, <1>2 DEF Starts
<1>4. QED
  BY <1>1, <1>3 DEF longer

LEMMA TypeInvGoesDown ==
    ASSUME TypeInv, GoesDown, receiver' \in {"dead", "ended"}
    PROVE  TypeInv'
<1> USE DEF TypeInv
<1>1. mailbox' \in Seq(Messages) /\ Starts(mailbox') = Starts(mailbox)
  BY ErrorsOfOutstanding, StartsConcat DEF Types
<1>2. Cardinality(outstanding) \in Nat /\ IsFiniteSet({})
  BY FS_CardinalityType, FS_EmptySet DEF Types
<1>3. /\ idle' = Off /\ underWay' = <<>> /\ outstanding' = {} /\ missed' \in Nat
      /\ UNCHANGED <<running, restart, currentMessageIndex, numberOfPastTimeouts, lag,
                     timeout, punctual, gone, sinceQuit>>
  BY <1>2 DEF GoesDown, senderVars, setting, Types
<1>4. Types'
  BY <1>1, <1>2, <1>3 DEF Types, Timer, Delay, Far
<1>5. OneStart' /\ DueFirst' /\ Counting'
  BY <1>1, <1>3 DEF OneStart, DueFirst, Counting
<1>6. QED
  BY <1>4, <1>5

LEMMA TypeInvHeartbeat == TypeInv /\ HeartbeatHandler => TypeInv'
<1> SUFFICES ASSUME TypeInv, HeartbeatHandler
             PROVE  TypeInv'
  OBVIOUS
<1> USE DEF TypeInv
<1> DEFINE index == Head(underWay).index
           reply == [type |-> "reply", index |-> index]
<1>1. ReceiverTimeout \in Nat
  BY HeartbeatAssumption
<1>2. /\ underWay \in Seq([index : Index, age : 0 .. Delay]) /\ underWay # <<>>
      /\ underWay' = Tail(underWay)
  BY DEF Types, HeartbeatHandler
<1>3. /\ underWay' \in Seq([index : Index, age : 0 .. Delay])
      /\ index \in Index
  <2> DEFINE Heartbeats == [index : Index, age : 0 .. Delay]
  <2>1. Head(underWay) \in Heartbeats => index \in Index
    OBVIOUS
  <2> HIDE DEF Heartbeats
  <2>2. underWay \in Seq(Heartbeats)
    BY <1>2 DEF Heartbeats
  <2>3. Head(underWay) \in Heartbeats /\ Tail(underWay) \in Seq(Heartbeats)
    BY <1>2, <2>2
  <2>4. QED
    BY <1>2, <2>1, <2>3 DEF Heartbeats
<1>4. reply \in Messages /\ reply.type # "start"
  BY <1>3 DEF Messages
<1>5. /\ outstanding' = outstanding \ Answers(index)
      /\ mailbox' \in {mailbox, Append(mailbox, reply)}
      /\ missed' \in {0, missed} /\ idle' = ReceiverTimeout
      /\ UNCHANGED <<running, restart, currentMessageIndex, numberOfPastTimeouts, lag,
                     receiver, timeout, punctual, gone, sinceQuit>>
  BY DEF HeartbeatHandler, senderVars, setting, TimerAfterHeartbeat
<1> HIDE DEF reply, index
<1>6. mailbox' \in Seq(Messages) /\ Starts(mailbox') = Starts(mailbox)
  BY <1>4, <1>5, StartsAppend DEF Types
<1>7. IsFiniteSet(outstanding') /\ outstanding' \subseteq outstanding
  BY <1>5, FS_Subset DEF Types
<1>8. Types'
  BY <1>1, <1>3, <1>5, <1>6, <1>7 DEF Types, Timer, Delay, Far
<1>9. OneStart' /\ DueFirst' /\ Counting'
  BY <1>5, <1>6, <1>7 DEF OneStart, DueFirst, Counting
<1>10. QED
  BY <1>8, <1>9

LEMMA TypeInvCutOff == TypeInv /\ ReceiverIsCutOff => TypeInv'
<1> SUFFICES ASSUME TypeInv, ReceiverIsCutOff
             PROVE  TypeInv'
  OBVIOUS
<1>1. /\ receiver' = "cut" /\ underWay' = <<>>
      /\ UNCHANGED <<running, restart, currentMessageIndex, numberOfPastTimeouts, mailbox,
                     lag, outstanding, idle, timeout, punctual, missed, gone, sinceQuit>>
  BY DEF ReceiverIsCutOff, senderVars, setting, history
<1>2. QED
  BY <1>1 DEF TypeInv, Types, OneStart, Starts, DueFirst, Counting, Delay, Far

\* The clock takes one from every timer and adds one to every age.
LEMMA TypeInvTick == TypeInv /\ Tick => TypeInv'
<1> SUFFICES ASSUME TypeInv, Tick
             PROVE  TypeInv'
  OBVIOUS
<1> USE DEF TypeInv
<1>1. /\ Delay \in Nat /\ Far \in Nat /\ MaxLag \in Nat /\ Off \notin Nat
      /\ timeout \in Nat /\ Pulse \in Nat /\ ReceiverTimeout \in Nat
  BY Bounds DEF Types
<1>2. /\ UNCHANGED <<running, currentMessageIndex, numberOfPastTimeouts, mailbox, receiver,
                     timeout, punctual, missed>>
      /\ Delay' = Delay
  BY DEF Tick, setting, Delay
<1>3. restart' \in Timer(Pulse) /\ idle' \in Timer(ReceiverTimeout)
  BY <1>1 DEF Tick, Types, Timer, Down
<1>4. lag' \in 0 .. MaxLag
  BY <1>1 DEF Tick, Types
<1>5. gone' \in 0 .. Far /\ sinceQuit' \in 0 .. Far
  BY <1>1 DEF Tick, Types, Count
<1>6. outstanding' = {[r EXCEPT !.left = @ - 1] : r \in outstanding}
  BY DEF Tick
<1>7. outstanding' \subseteq [index : Index, left : 0 .. timeout]
  <2>1. ASSUME NEW r \in outstanding
        PROVE  [r EXCEPT !.left = @ - 1] \in [index : Index, left : 0 .. timeout]
    <3>1. r \in [index : Index, left : 0 .. timeout] /\ r.left # 0
      BY DEF Tick, Types
    <3>2. QED
      BY <1>1, <3>1
  <2>2. QED
    BY <1>6, <2>1
<1>8. IsFiniteSet(outstanding')
  <2> DEFINE aged == [r \in outstanding |-> [r EXCEPT !.left = @ - 1]]
  <2>1. outstanding' = {aged[r] : r \in outstanding}
    BY <1>6
  <2>2. IsFiniteSet(outstanding)
    BY DEF Types
  <2>3. aged \in [outstanding -> outstanding']
    BY <2>1
  <2> HIDE DEF aged
  <2>4. aged \in Surjection(outstanding, outstanding')
    BY <2>1, <2>3 DEF Surjection
  <2>5. QED
    BY <2>2, <2>4, FS_Surjection
<1>9. underWay' \in Seq([index : Index, age : 0 .. Delay])
  <2>1. /\ underWay \in Seq([index : Index, age : 0 .. Delay])
        /\ Len(underWay) \in Nat /\ DOMAIN underWay = 1 .. Len(underWay)
    BY DEF Types
  <2>2. ASSUME NEW i \in 1 .. Len(underWay)
        PROVE  [underWay[i] EXCEPT !.age = @ + 1] \in [index : Index, age : 0 .. Delay]
    <3>1. underWay[i] \in [index : Index, age : 0 .. Delay]
      <4> DEFINE Heartbeats == [index : Index, age : 0 .. Delay]
      <4> HIDE DEF Heartbeats
      <4>1. underWay \in Seq(Heartbeats)
        BY <2>1 DEF Heartbeats
      <4>2. underWay[i] \in Heartbeats
        BY <4>1
      <4>3. QED
        BY <4>2 DEF Heartbeats
    <3>2. underWay[i].age < Delay
      BY <2>1 DEF Tick
    <3>3. QED
      BY <1>1, <3>1, <3>2
  <2>3. underWay' = [i \in 1 .. Len(underWay) |-> [underWay[i] EXCEPT !.age = @ + 1]]
    BY <2>1 DEF Tick
  <2>4. underWay' \in [1 .. Len(underWay) -> [index : Index, age : 0 .. Delay]]
    BY <2>2, <2>3
  <2>5. QED
    BY <2>1, <2>4
<1>10. DueFirst'
  <2>1. ASSUME timeout < Pulse
        PROVE  /\ \A r \in outstanding' : restart' # Off /\ r.left < restart'
               /\ \A r1, r2 \in outstanding' : r1 = r2
    <3>1. ASSUME NEW r \in outstanding
          PROVE  /\ restart' # Off /\ [r EXCEPT !.left = @ - 1].left < restart'
      BY <1>1, <2>1 DEF DueFirst, Tick, Down, Types, Timer
    <3>2. \A r1, r2 \in outstanding : r1 = r2
      BY <2>1 DEF DueFirst
    <3>3. QED
      BY <1>6, <3>1, <3>2
  <2>2. QED
    BY <1>2, <2>1 DEF DueFirst
<1>11. OneStart' /\ Counting'
  BY <1>1, <1>2 DEF OneStart, Starts, Counting, Tick, Down
<1>12. Types'
  BY <1>2, <1>3, <1>4, <1>5, <1>7, <1>8, <1>9 DEF Types, Far
<1>13. QED
  BY <1>10, <1>11, <1>12

LEMMA TypeInvNext == TypeInv /\ [Next]_vars => TypeInv'
<1> SUFFICES ASSUME TypeInv, [Next]_vars
             PROVE  TypeInv'
  OBVIOUS
<1>1. CASE StartHandler
  BY <1>1, TypeInvStart
<1>2. CASE ReplyHandler
  BY <1>2, TypeInvReply
<1>3. CASE ErrorHandler
  BY <1>3, TypeInvError
<1>4. CASE RestartFires
  BY <1>4, TypeInvRestart
<1>5. ASSUME NEW request \in outstanding, RequestTimesOut(request)
      PROVE  TypeInv'
  BY <1>5, TypeInvRequestTimesOut
<1>6. CASE ReceiverTimesOut
  BY <1>6, TypeInvGoesDown DEF ReceiverTimesOut
<1>7. CASE HeartbeatHandler
  BY <1>7, TypeInvHeartbeat
<1>8. CASE ReceiverDies
  BY <1>8, TypeInvGoesDown DEF ReceiverDies
<1>9. CASE ReceiverIsCutOff
  BY <1>9, TypeInvCutOff
<1>10. CASE Tick
  BY <1>10, TypeInvTick
<1>11. CASE UNCHANGED vars
  BY <1>11 DEF vars, senderVars, setting, history, TypeInv, Types, OneStart, Starts,
               DueFirst, Counting, Delay, Far
<1>12. QED
  BY <1>1, <1>2, <1>3, <1>4, <1>5, <1>6, <1>7, <1>8, <1>9, <1>10, <1>11 DEF Next

LEMMA TypeInvHolds == Spec => []TypeInv
  BY TypeInvInit, TypeInvNext, PTL DEF Spec

\* Whatever the pulse, the timeouts and the delays are, a sender whose timeout is
\* less than its pulse waits for one response only, and never counts beyond N.
THEOREM HeartbeatTypeCorrect == Spec => []TypeOK
<1>1. TypeInv => TypeOK
  <2> SUFFICES ASSUME TypeInv
               PROVE  TypeOK
    OBVIOUS
  <2>1. ASSUME timeout < Pulse
        PROVE  Cardinality(outstanding) <= 1
    <3>1. CASE outstanding = {}
      BY <3>1, FS_EmptySet
    <3>2. CASE outstanding # {}
      <4>1. PICK r \in outstanding : TRUE
        BY <3>2
      <4>2. outstanding = {r}
        BY <2>1 DEF TypeInv, DueFirst
      <4>3. QED
        BY <4>2, FS_Singleton
    <3>3. QED
      BY <3>1, <3>2
  <2>2. QED
    BY <2>1 DEF TypeInv, Types, TypeOK
<1>2. QED
  BY <1>1, TypeInvHolds, PTL

-----------------------------------------------------------------------------
(***************************************************************************)
(* No false alarm                                                          *)
(*                                                                         *)
(* A receiver that is up answers: every request still has its heartbeat    *)
(* under way, and what the heartbeat has of age its timer has lost.  As a  *)
(* punctual heartbeat is never timeout old, no timer is ever due, so no    *)
(* error comes into being and nothing is ever counted.                     *)
(***************************************************************************)
HasNoError(box) == \A i \in DOMAIN box : box[i].type # "error"

IsUnderWay(r) ==
    \E i \in DOMAIN underWay : /\ underWay[i].index = r.index
                               /\ underWay[i].age + r.left = timeout

AllWell ==
    punctual /\ receiver = "up" =>
       /\ running
       /\ numberOfPastTimeouts = 0
       /\ HasNoError(mailbox)
       /\ \A r \in outstanding : IsUnderWay(r)

LEMMA NoErrorTail ==
    ASSUME NEW box \in Seq(Messages), box # <<>>, HasNoError(box)
    PROVE  HasNoError(Tail(box)) /\ Head(box).type # "error"
<1>1. /\ Head(box) = box[1] /\ 1 \in DOMAIN box
      /\ DOMAIN Tail(box) = 1 .. Len(box) - 1
      /\ \A i \in 1 .. Len(box) - 1 : Tail(box)[i] = box[i + 1] /\ i + 1 \in DOMAIN box
  OBVIOUS
<1>2. QED
  BY <1>1 DEF HasNoError

LEMMA NoErrorAppend ==
    ASSUME NEW box \in Seq(Messages), NEW msg \in Messages, HasNoError(box),
           msg.type # "error"
    PROVE  HasNoError(Append(box, msg))
<1> DEFINE longer == Append(box, msg)
<1>1. /\ DOMAIN longer = 1 .. Len(box) + 1 /\ DOMAIN box = 1 .. Len(box)
      /\ longer[Len(box) + 1] = msg
      /\ \A i \in 1 .. Len(box) : longer[i] = box[i]
      /\ Len(box) \in Nat
  OBVIOUS
<1> HIDE DEF longer
<1>2. HasNoError(longer)
  BY <1>1 DEF HasNoError
<1>3. QED
  BY <1>2 DEF longer

\* A punctual request is never due.
LEMMA NeverDue ==
    ASSUME TypeInv, AllWell, punctual, receiver = "up", NEW r \in outstanding
    PROVE  r.left # 0
<1>1. PICK i \in DOMAIN underWay : underWay[i].age + r.left = timeout
  BY DEF AllWell, IsUnderWay
<1>2. underWay[i].age \in 0 .. timeout - 1
  <2> DEFINE Heartbeats == [index : Index, age : 0 .. timeout - 1]
  <2>1. \A h \in Heartbeats : h.age \in 0 .. timeout - 1
    OBVIOUS
  <2>2. underWay \in Seq(Heartbeats)
    BY DEF TypeInv, Types, Delay
  <2> HIDE DEF Heartbeats
  <2>3. QED
    BY <2>1, <2>2
<1>3. timeout \in Nat /\ r.left \in Nat
  BY Bounds DEF TypeInv, Types
<1>4. QED
  BY <1>1, <1>2, <1>3

LEMMA AllWellStart == TypeInv /\ AllWell /\ StartHandler => AllWell'
<1> SUFFICES ASSUME TypeInv, AllWell, StartHandler, punctual', receiver' = "up"
             PROVE  /\ running' /\ numberOfPastTimeouts' = 0
                    /\ HasNoError(mailbox')
                    /\ \A r \in outstanding' : IsUnderWay(r)'
  BY DEF AllWell
<1> DEFINE index == (currentMessageIndex + 1) % IndexRange
           new   == [index |-> index, left |-> timeout]
           sent  == [index |-> index, age |-> 0]
<1>1. /\ punctual /\ receiver = "up" /\ ~ IsDown
      /\ UNCHANGED <<running, numberOfPastTimeouts, timeout>>
  BY DEF StartHandler, setting, IsDown
<1>2. /\ mailbox' = Tail(mailbox) /\ mailbox # <<>>
      /\ outstanding' = outstanding \cup {new}
      /\ underWay' = Append(underWay, sent)
  BY <1>1 DEF StartHandler, Receives, RequestTimer
<1>3. HasNoError(mailbox')
  BY <1>1, <1>2, NoErrorTail DEF AllWell, TypeInv, Types
<1>4. /\ DOMAIN underWay' = 1 .. Len(underWay) + 1 /\ DOMAIN underWay = 1 .. Len(underWay)
      /\ underWay'[Len(underWay) + 1] = sent /\ Len(underWay) \in Nat
      /\ \A i \in 1 .. Len(underWay) : underWay'[i] = underWay[i]
  <2> DEFINE Heartbeats == [index : Index, age : 0 .. Delay]
  <2>1. sent.index = index
    OBVIOUS
  <2> HIDE DEF Heartbeats, sent
  <2>2. underWay \in Seq(Heartbeats)
    BY DEF TypeInv, Types, Heartbeats
  <2>3. QED
    BY <1>2, <2>2
<1>5. ASSUME NEW r, r = new
      PROVE  IsUnderWay(r)'
  <2>1. timeout \in Nat
    BY Bounds DEF TypeInv, Types
  <2>2. sent.index = new.index /\ sent.age + new.left = timeout
    BY <2>1
  <2> HIDE DEF sent, new
  <2>3. QED
    BY <1>1, <1>4, <1>5, <2>2 DEF IsUnderWay
<1>6. ASSUME NEW r \in outstanding
      PROVE  IsUnderWay(r)'
  <2>1. PICK i \in DOMAIN underWay : /\ underWay[i].index = r.index
                                     /\ underWay[i].age + r.left = timeout
    BY <1>1 DEF AllWell, IsUnderWay
  <2>2. QED
    BY <1>1, <1>4, <2>1 DEF IsUnderWay
<1>7. QED
  BY <1>1, <1>2, <1>3, <1>5, <1>6 DEF AllWell

LEMMA AllWellHeartbeat == TypeInv /\ AllWell /\ HeartbeatHandler => AllWell'
<1> SUFFICES ASSUME TypeInv, AllWell, HeartbeatHandler, punctual', receiver' = "up"
             PROVE  /\ running' /\ numberOfPastTimeouts' = 0
                    /\ HasNoError(mailbox')
                    /\ \A r \in outstanding' : IsUnderWay(r)'
  BY DEF AllWell
<1> DEFINE index == Head(underWay).index
           reply == [type |-> "reply", index |-> index]
<1>1. /\ punctual /\ receiver = "up"
      /\ UNCHANGED <<running, numberOfPastTimeouts, timeout>>
      /\ outstanding' = outstanding \ Answers(index)
      /\ mailbox' \in {mailbox, Append(mailbox, reply)}
      /\ underWay # <<>> /\ underWay' = Tail(underWay)
  BY DEF HeartbeatHandler, senderVars, setting
<1>2. /\ Head(underWay) = underWay[1] /\ index \in Index
      /\ DOMAIN underWay = 1 .. Len(underWay) /\ Len(underWay) \in Nat
      /\ DOMAIN underWay' = 1 .. Len(underWay) - 1
      /\ \A i \in 1 .. Len(underWay) - 1 : underWay'[i] = underWay[i + 1]
  <2> DEFINE Heartbeats == [index : Index, age : 0 .. Delay]
  <2>1. Head(underWay) \in Heartbeats => index \in Index
    OBVIOUS
  <2> HIDE DEF Heartbeats
  <2>2. underWay \in Seq(Heartbeats)
    BY DEF TypeInv, Types, Heartbeats
  <2> HIDE DEF index
  <2>3. QED
    BY <1>1, <2>1, <2>2
<1>3. HasNoError(mailbox')
  <2>1. reply \in Messages /\ reply.type # "error"
    BY <1>2 DEF Messages
  <2> HIDE DEF reply
  <2>2. QED
    BY <1>1, <2>1, NoErrorAppend DEF AllWell, TypeInv, Types
<1>4. ASSUME NEW r \in outstanding'
      PROVE  IsUnderWay(r)'
  <2>1. r \in outstanding /\ r.index # index
    BY <1>1, <1>4 DEF Answers
  <2>2. PICK i \in DOMAIN underWay : /\ underWay[i].index = r.index
                                     /\ underWay[i].age + r.left = timeout
    BY <1>1, <2>1 DEF AllWell, IsUnderWay
  <2>3. i # 1
    BY <1>2, <2>1, <2>2
  <2>4. i - 1 \in 1 .. Len(underWay) - 1 /\ (i - 1) + 1 = i
    BY <1>2, <2>3
  <2>5. i - 1 \in DOMAIN underWay' /\ underWay'[i - 1] = underWay[i]
    BY <1>2, <2>4
  <2>6. QED
    BY <1>1, <2>2, <2>5 DEF IsUnderWay
<1>5. QED
  BY <1>1, <1>3, <1>4 DEF AllWell

LEMMA AllWellTick == TypeInv /\ AllWell /\ Tick => AllWell'
<1> SUFFICES ASSUME TypeInv, AllWell, Tick, punctual', receiver' = "up"
             PROVE  /\ running' /\ numberOfPastTimeouts' = 0
                    /\ HasNoError(mailbox')
                    /\ \A r \in outstanding' : IsUnderWay(r)'
  BY DEF AllWell
<1>1. /\ punctual /\ receiver = "up"
      /\ UNCHANGED <<running, numberOfPastTimeouts, mailbox, timeout>>
  BY DEF Tick, setting
<1>2. ASSUME NEW r \in outstanding
      PROVE  IsUnderWay([r EXCEPT !.left = @ - 1])'
  <2>1. PICK i \in DOMAIN underWay : /\ underWay[i].index = r.index
                                     /\ underWay[i].age + r.left = timeout
    BY <1>1 DEF AllWell, IsUnderWay
  <2>2. underWay[i] \in [index : Index, age : 0 .. Delay]
    <3> DEFINE Heartbeats == [index : Index, age : 0 .. Delay]
    <3> HIDE DEF Heartbeats
    <3>1. underWay \in Seq(Heartbeats)
      BY DEF TypeInv, Types, Heartbeats
    <3>2. underWay[i] \in Heartbeats
      BY <3>1
    <3>3. QED
      BY <3>2 DEF Heartbeats
  <2>3. /\ i \in DOMAIN underWay'
        /\ underWay'[i] = [underWay[i] EXCEPT !.age = @ + 1]
    BY DEF Tick
  <2>4. /\ r \in [index : Index, left : 0 .. timeout]
        /\ Delay \in Nat /\ timeout \in Nat
    BY Bounds DEF TypeInv, Types
  <2>5. /\ underWay'[i].index = [r EXCEPT !.left = @ - 1].index
        /\ underWay'[i].age + [r EXCEPT !.left = @ - 1].left = timeout
    BY <2>1, <2>2, <2>3, <2>4
  <2>6. QED
    BY <1>1, <2>3, <2>5 DEF IsUnderWay
<1>3. outstanding' = {[r EXCEPT !.left = @ - 1] : r \in outstanding}
  BY DEF Tick
<1>4. \A r \in outstanding' : IsUnderWay(r)'
  BY <1>2, <1>3
<1>5. QED
  BY <1>1, <1>4 DEF AllWell

LEMMA AllWellNext == TypeInv /\ AllWell /\ [Next]_vars => AllWell'
<1> SUFFICES ASSUME TypeInv, AllWell, [Next]_vars
             PROVE  AllWell'
  OBVIOUS
<1>1. CASE StartHandler
  BY <1>1, AllWellStart
<1>2. CASE ReplyHandler
  <2>1. /\ mailbox # <<>> /\ mailbox' = Tail(mailbox)
        /\ numberOfPastTimeouts' \in {0, numberOfPastTimeouts}
        /\ UNCHANGED <<running, outstanding, underWay, receiver, timeout, punctual>>
    BY <1>2 DEF ReplyHandler, Receives, setting
  <2>2. QED
    BY <2>1, NoErrorTail DEF AllWell, IsUnderWay, TypeInv, Types
<1>3. CASE ErrorHandler
  <2>1. /\ mailbox # <<>> /\ Head(mailbox).type = "error"
        /\ UNCHANGED <<receiver, punctual>>
    BY <1>3 DEF ErrorHandler, Receives, setting
  <2>2. QED
    BY <2>1, NoErrorTail DEF AllWell, TypeInv, Types
<1>4. CASE RestartFires
  <2>1. [type |-> "start"] \in Messages /\ [type |-> "start"].type # "error"
    BY DEF Messages
  <2>2. /\ mailbox' = Append(mailbox, [type |-> "start"])
        /\ UNCHANGED <<running, numberOfPastTimeouts, outstanding, underWay, receiver,
                       timeout, punctual>>
    BY <1>4 DEF RestartFires, setting
  <2>3. QED
    BY <2>1, <2>2, NoErrorAppend DEF AllWell, IsUnderWay, TypeInv, Types
<1>5. ASSUME NEW request \in outstanding, RequestTimesOut(request)
      PROVE  AllWell'
  <2>1. request.left = 0 /\ UNCHANGED <<receiver, punctual>>
    BY <1>5 DEF RequestTimesOut, setting
  <2>2. QED
    BY <2>1, NeverDue DEF AllWell
<1>6. CASE ReceiverTimesOut
  BY <1>6 DEF ReceiverTimesOut, AllWell
<1>7. CASE HeartbeatHandler
  BY <1>7, AllWellHeartbeat
<1>8. CASE ReceiverDies
  BY <1>8 DEF ReceiverDies, AllWell
<1>9. CASE ReceiverIsCutOff
  BY <1>9 DEF ReceiverIsCutOff, AllWell
<1>10. CASE Tick
  BY <1>10, AllWellTick
<1>11. CASE UNCHANGED vars
  BY <1>11 DEF vars, senderVars, setting, AllWell, IsUnderWay
<1>12. QED
  BY <1>1, <1>2, <1>3, <1>4, <1>5, <1>6, <1>7, <1>8, <1>9, <1>10, <1>11 DEF Next

LEMMA AllWellHolds == Spec => []AllWell
<1>1. Init => AllWell
  BY DEF Init, AllWell, HasNoError
<1>2. QED
  BY <1>1, AllWellNext, TypeInvHolds, PTL DEF Spec

\* A receiver that is up and whose answers take less than the timeout is never
\* given up: with any pulse, any timeout up to it and any N, and however late
\* the sender handles its messages.
THEOREM NoFalseAlarmHolds == Spec => []NoFalseAlarm
<1>1. AllWell => NoFalseAlarm
  BY DEF AllWell, NoFalseAlarm
<1>2. QED
  BY <1>1, AllWellHolds, PTL

-----------------------------------------------------------------------------
(***************************************************************************)
(* The count of misses                                                     *)
(*                                                                         *)
(* CountsMisses looks at the whole mailbox, so it survives every way in    *)
(* which the sender is late.  That a reply in the mailbox counts needs the *)
(* timers: its index is still the current one because the next start_atom  *)
(* comes behind it.                                                        *)
(***************************************************************************)
HasReply(box) == \E i \in DOMAIN box : box[i].type = "reply"

RepliesCurrent(box, index) ==
    \A i \in DOMAIN box : box[i].type = "reply" => box[i].index = index

StartsLast(box) ==
    \A i \in Starts(box), j \in DOMAIN box : i < j => box[j].type # "reply"

Tally ==
    running /\ timeout < Pulse =>
       /\ WorkedOff(mailbox, numberOfPastTimeouts) = missed
       /\ RepliesCurrent(mailbox, currentMessageIndex)
       /\ \A r \in outstanding : r.index = currentMessageIndex
       /\ StartsLast(mailbox)

LEMMA UnrepliedFinite ==
    ASSUME NEW box \in Seq(Messages)
    PROVE  /\ IsFiniteSet(Unreplied(box))
           /\ Cardinality(Unreplied(box)) \in Nat
           /\ Unreplied(box) \subseteq 1 .. Len(box)
<1>1. Unreplied(box) \subseteq 1 .. Len(box) /\ Len(box) \in Nat
  BY DEF Unreplied
<1>2. IsFiniteSet(1 .. Len(box))
  BY <1>1, FS_Interval
<1>3. IsFiniteSet(Unreplied(box))
  BY <1>1, <1>2, FS_Subset
<1>4. QED
  BY <1>1, <1>3, FS_CardinalityType

\* What a message behind the mailbox does to the count.
LEMMA WorkedOffAppend ==
    ASSUME NEW box \in Seq(Messages), NEW msg \in Messages, NEW count \in Nat
    PROVE  /\ msg.type = "error" =>
                 WorkedOff(Append(box, msg), count) = WorkedOff(box, count) + 1
           /\ msg.type = "reply" => WorkedOff(Append(box, msg), count) = 0
           /\ msg.type = "start" =>
                 WorkedOff(Append(box, msg), count) = WorkedOff(box, count)
<1> DEFINE longer == Append(box, msg)
<1>1. /\ longer \in Seq(Messages)
      /\ DOMAIN longer = 1 .. Len(box) + 1 /\ DOMAIN box = 1 .. Len(box)
      /\ longer[Len(box) + 1] = msg
      /\ \A i \in 1 .. Len(box) : longer[i] = box[i]
      /\ Len(box) \in Nat
  OBVIOUS
<1>2. /\ IsFiniteSet(Unreplied(box)) /\ Cardinality(Unreplied(box)) \in Nat
      /\ Unreplied(box) \subseteq 1 .. Len(box)
  BY UnrepliedFinite
<1> HIDE DEF longer
<1>3. HasReply(longer) <=> HasReply(box) \/ msg.type = "reply"
  BY <1>1 DEF HasReply
<1>4. CASE msg.type = "error"
  <2>1. Unreplied(longer) = Unreplied(box) \cup {Len(box) + 1}
    BY <1>1, <1>4 DEF Unreplied
  <2>2. Len(box) + 1 \notin Unreplied(box)
    BY <1>1, <1>2
  <2>3. Cardinality(Unreplied(longer)) = Cardinality(Unreplied(box)) + 1
    BY <1>2, <2>1, <2>2, FS_AddElement
  <2>4. QED
    BY <1>2, <1>3, <1>4, <2>3 DEF WorkedOff, HasReply, longer
<1>5. CASE msg.type = "reply"
  <2>1. Unreplied(longer) = {}
    BY <1>1, <1>5 DEF Unreplied
  <2>2. Cardinality(Unreplied(longer)) = 0
    BY <2>1, FS_EmptySet
  <2>3. QED
    BY <1>3, <1>5, <2>2 DEF WorkedOff, HasReply, longer
<1>6. CASE msg.type = "start"
  <2>1. Unreplied(longer) = Unreplied(box)
    BY <1>1, <1>6 DEF Unreplied
  <2>2. QED
    BY <1>3, <1>6, <2>1 DEF WorkedOff, HasReply, longer
<1>7. QED
  BY <1>4, <1>5, <1>6

\* Working off the first message.
CountedAfter(msg, count) ==
    CASE msg.type = "reply" -> 0
      [] msg.type = "error" -> count + 1
      [] msg.type = "start" -> count

LEMMA WorkedOffTail ==
    ASSUME NEW box \in Seq(Messages), box # <<>>, NEW count \in Nat
    PROVE  WorkedOff(Tail(box), CountedAfter(Head(box), count)) = WorkedOff(box, count)
<1> DEFINE rest == Tail(box)
           n    == Len(box)
<1>1. /\ rest \in Seq(Messages) /\ Head(box) = box[1] /\ box[1] \in Messages
      /\ n \in Nat \ {0} /\ DOMAIN box = 1 .. n /\ DOMAIN rest = 1 .. n - 1
      /\ \A i \in 1 .. n - 1 : rest[i] = box[i + 1]
  OBVIOUS
<1>2. box[1].type \in {"start", "reply", "error"}
  BY <1>1 DEF Messages
<1> HIDE DEF rest, n
<1>3. HasReply(box) <=> box[1].type = "reply" \/ HasReply(rest)
  <2>1. ASSUME NEW i \in DOMAIN box, box[i].type = "reply", i # 1
        PROVE  HasReply(rest)
    <3>1. i - 1 \in 1 .. n - 1 /\ rest[i - 1] = box[i]
      BY <1>1, <2>1
    <3>2. QED
      BY <1>1, <2>1, <3>1 DEF HasReply
  <2>2. ASSUME NEW i \in DOMAIN rest, rest[i].type = "reply"
        PROVE  HasReply(box)
    <3>1. i + 1 \in DOMAIN box /\ box[i + 1].type = "reply"
      BY <1>1, <2>2
    <3>2. QED
      BY <3>1 DEF HasReply
  <2>3. box[1].type = "reply" => HasReply(box)
    BY <1>1 DEF HasReply
  <2>4. QED
    BY <2>1, <2>2, <2>3 DEF HasReply
<1>4. ASSUME NEW i \in 1 .. n - 1
      PROVE  i \in Unreplied(rest) <=> i + 1 \in Unreplied(box)
  <2>1. ASSUME \A j \in DOMAIN rest : i < j => rest[j].type # "reply",
               NEW k \in DOMAIN box, i + 1 < k
        PROVE  box[k].type # "reply"
    <3>1. k - 1 \in 1 .. n - 1 /\ i < k - 1 /\ rest[k - 1] = box[k]
      BY <1>1, <2>1
    <3>2. QED
      BY <1>1, <2>1, <3>1
  <2>2. ASSUME \A k \in DOMAIN box : i + 1 < k => box[k].type # "reply",
               NEW j \in DOMAIN rest, i < j
        PROVE  rest[j].type # "reply"
    <3>1. j + 1 \in 1 .. n /\ i + 1 < j + 1 /\ rest[j] = box[j + 1]
      BY <1>1, <2>2
    <3>2. QED
      BY <1>1, <2>2, <3>1
  <2>3. i \in DOMAIN rest /\ i + 1 \in DOMAIN box /\ rest[i] = box[i + 1]
    BY <1>1
  <2>4. QED
    BY <2>1, <2>2, <2>3 DEF Unreplied
<1>5. 1 \in Unreplied(box) <=> box[1].type = "error" /\ ~ HasReply(rest)
  <2>1. ASSUME NEW j \in DOMAIN box, 1 < j, box[j].type = "reply"
        PROVE  HasReply(rest)
    <3>1. j - 1 \in DOMAIN rest /\ rest[j - 1] = box[j]
      BY <1>1, <2>1
    <3>2. QED
      BY <2>1, <3>1 DEF HasReply
  <2>2. ASSUME NEW i \in DOMAIN rest, rest[i].type = "reply"
        PROVE  i + 1 \in DOMAIN box /\ 1 < i + 1 /\ box[i + 1].type = "reply"
    BY <1>1, <2>2
  <2>3. QED
    BY <1>1, <2>1, <2>2 DEF Unreplied, HasReply
<1> DEFINE later == Unreplied(box) \ {1}
           shift == [i \in Unreplied(rest) |-> i + 1]
<1>6. /\ IsFiniteSet(Unreplied(rest)) /\ Cardinality(Unreplied(rest)) \in Nat
      /\ Unreplied(rest) \subseteq 1 .. n - 1
      /\ IsFiniteSet(Unreplied(box)) /\ Cardinality(Unreplied(box)) \in Nat
      /\ Unreplied(box) \subseteq 1 .. n
  <2>1. Len(rest) = n - 1
    BY <1>1
  <2>2. QED
    BY <1>1, <2>1, UnrepliedFinite DEF n
<1>7. shift \in Bijection(Unreplied(rest), later)
  <2>1. shift \in [Unreplied(rest) -> later]
    BY <1>1, <1>4, <1>6
  <2>2. \A i, j \in Unreplied(rest) : shift[i] = shift[j] => i = j
    BY <1>1, <1>6
  <2>3. ASSUME NEW k \in later
        PROVE  \E i \in Unreplied(rest) : shift[i] = k
    <3>1. k - 1 \in 1 .. n - 1 /\ (k - 1) + 1 = k
      BY <1>1, <1>6
    <3>2. k - 1 \in Unreplied(rest)
      BY <1>4, <3>1
    <3>3. QED
      BY <3>1, <3>2
  <2> HIDE DEF later, shift
  <2>4. QED
    BY <2>1, <2>2, <2>3 DEF Bijection, Injection, Surjection, IsInjective
<1>8. Cardinality(later) = Cardinality(Unreplied(rest))
  BY <1>6, <1>7, FS_Bijection DEF ExistsBijection
<1>9. /\ 1 \in Unreplied(box) => Cardinality(Unreplied(box)) = Cardinality(later) + 1
      /\ 1 \notin Unreplied(box) => later = Unreplied(box)
  <2>1. ASSUME 1 \in Unreplied(box)
        PROVE  Cardinality(Unreplied(box)) = Cardinality(later) + 1
    <3>1. Cardinality(later) = Cardinality(Unreplied(box)) - 1
      BY <1>6, <2>1, FS_RemoveElement
    <3>2. QED
      BY <1>6, <3>1
  <2>2. QED
    BY <2>1
<1> HIDE DEF later, shift
<1>10. QED
  BY <1>1, <1>2, <1>3, <1>5, <1>6, <1>8, <1>9 DEF WorkedOff, HasReply, CountedAfter, rest

LEMMA RepliesTail ==
    ASSUME NEW box \in Seq(Messages), box # <<>>, NEW index,
           RepliesCurrent(box, index), StartsLast(box)
    PROVE  /\ RepliesCurrent(Tail(box), index) /\ StartsLast(Tail(box))
           /\ Head(box).type = "reply" => Head(box).index = index
           /\ Head(box).type = "start" => ~ HasReply(Tail(box))
<1> DEFINE rest == Tail(box)
           n    == Len(box)
<1>1. /\ Head(box) = box[1]
      /\ n \in Nat \ {0} /\ DOMAIN box = 1 .. n /\ DOMAIN rest = 1 .. n - 1
      /\ \A i \in 1 .. n - 1 : rest[i] = box[i + 1]
  OBVIOUS
<1> HIDE DEF rest, n
<1>2. RepliesCurrent(rest, index)
  <2>1. ASSUME NEW i \in DOMAIN rest
        PROVE  i + 1 \in DOMAIN box /\ rest[i] = box[i + 1]
    BY <1>1
  <2>2. QED
    BY <2>1 DEF RepliesCurrent
<1>3. StartsLast(rest)
  <2>1. ASSUME NEW i \in Starts(rest), NEW j \in DOMAIN rest, i < j
        PROVE  rest[j].type # "reply"
    <3>1. /\ i + 1 \in DOMAIN box /\ j + 1 \in DOMAIN box /\ i + 1 < j + 1
          /\ rest[i] = box[i + 1] /\ rest[j] = box[j + 1] /\ rest[i].type = "start"
      BY <1>1, <2>1 DEF Starts
    <3>2. i + 1 \in Starts(box)
      BY <3>1 DEF Starts
    <3>3. QED
      BY <3>1, <3>2 DEF StartsLast
  <2>2. QED
    BY <2>1 DEF StartsLast
<1>4. Head(box).type = "reply" => Head(box).index = index
  BY <1>1 DEF RepliesCurrent
<1>5. ASSUME Head(box).type = "start", NEW i \in DOMAIN rest
      PROVE  rest[i].type # "reply"
  <2>1. 1 \in Starts(box) /\ i + 1 \in DOMAIN box /\ 1 < i + 1 /\ rest[i] = box[i + 1]
    BY <1>1, <1>5 DEF Starts
  <2>2. QED
    BY <2>1 DEF StartsLast
<1>6. QED
  BY <1>2, <1>3, <1>4, <1>5 DEF rest, HasReply

LEMMA RepliesAppend ==
    ASSUME NEW box \in Seq(Messages), NEW msg \in Messages, NEW index,
           RepliesCurrent(box, index), StartsLast(box),
           msg.type = "reply" => msg.index = index /\ Starts(box) = {}
    PROVE  RepliesCurrent(Append(box, msg), index) /\ StartsLast(Append(box, msg))
<1> DEFINE longer == Append(box, msg)
<1>1. /\ DOMAIN longer = 1 .. Len(box) + 1 /\ DOMAIN box = 1 .. Len(box)
      /\ longer[Len(box) + 1] = msg
      /\ \A i \in 1 .. Len(box) : longer[i] = box[i]
      /\ Len(box) \in Nat
  OBVIOUS
<1> HIDE DEF longer
<1>2. RepliesCurrent(longer, index)
  BY <1>1 DEF RepliesCurrent
<1>3. ASSUME NEW i \in Starts(longer), NEW j \in DOMAIN longer, i < j
      PROVE  longer[j].type # "reply"
  <2>1. i \in DOMAIN box /\ i \in Starts(box)
    BY <1>1, <1>3 DEF Starts
  <2>2. CASE j \in DOMAIN box
    BY <1>1, <1>3, <2>1, <2>2 DEF StartsLast
  <2>3. CASE j \notin DOMAIN box
    BY <1>1, <2>1, <2>3
  <2>4. QED
    BY <2>2, <2>3
<1>4. QED
  BY <1>2, <1>3 DEF StartsLast, longer

LEMMA TallyStart == TypeInv /\ Tally /\ StartHandler => Tally'
<1> SUFFICES ASSUME TypeInv, Tally, StartHandler, running', timeout' < Pulse
             PROVE  /\ WorkedOff(mailbox, numberOfPastTimeouts)' = missed'
                    /\ RepliesCurrent(mailbox, currentMessageIndex)'
                    /\ \A r \in outstanding' : r.index = currentMessageIndex'
                    /\ StartsLast(mailbox)'
  BY DEF Tally
<1> DEFINE index == (currentMessageIndex + 1) % IndexRange
           error == [type |-> "error", index |-> index]
           count == numberOfPastTimeouts
           rest  == Tail(mailbox)
<1>1. /\ running /\ timeout < Pulse /\ mailbox # <<>> /\ Head(mailbox).type = "start"
      /\ mailbox \in Seq(Messages) /\ count \in Nat /\ missed \in Nat
      /\ numberOfPastTimeouts' = count /\ currentMessageIndex' = index
      /\ \A i, j \in Starts(mailbox) : i = j
  BY DEF StartHandler, Receives, setting, TypeInv, Types, OneStart
<1>2. /\ WorkedOff(mailbox, count) = missed
      /\ RepliesCurrent(mailbox, currentMessageIndex) /\ StartsLast(mailbox)
  BY <1>1 DEF Tally
<1>3. rest \in Seq(Messages) /\ WorkedOff(rest, count) = missed
  <2>1. CountedAfter(Head(mailbox), count) = count
    BY <1>1 DEF CountedAfter
  <2>2. QED
    BY <1>1, <1>2, <2>1, WorkedOffTail
<1>4. ~ HasReply(rest)
  BY <1>1, <1>2, RepliesTail
<1>5. Starts(rest) = {}
  BY <1>1, StartsTail
<1>6. RepliesCurrent(rest, index) /\ StartsLast(rest)
  BY <1>4, <1>5 DEF RepliesCurrent, HasReply, StartsLast
<1>7. outstanding = {}
  <2>1. 1 \in Starts(mailbox)
    BY <1>1 DEF Starts
  <2>2. restart = Off
    BY <2>1 DEF TypeInv, OneStart
  <2>3. QED
    BY <1>1, <2>2 DEF TypeInv, DueFirst
<1>8. error \in Messages
  <2>1. index \in Index
    BY HeartbeatAssumption DEF TypeInv, Types, Index
  <2>2. QED
    BY <2>1 DEF Messages
<1>9. CASE IsDown
  <2>1. mailbox' = Append(rest, error) /\ missed' = missed + 1 /\ outstanding' = {}
    BY <1>7, <1>9 DEF StartHandler
  <2>2. error.type = "error"
    OBVIOUS
  <2> HIDE DEF error, rest, count, index
  <2>3. /\ WorkedOff(Append(rest, error), count) = missed + 1
        /\ RepliesCurrent(Append(rest, error), index) /\ StartsLast(Append(rest, error))
    BY <1>1, <1>3, <1>6, <1>8, <2>2, WorkedOffAppend, RepliesAppend
  <2>4. QED
    BY <1>1, <2>1, <2>3
<1>10. CASE ~ IsDown
  <2>1. /\ mailbox' = rest /\ missed' = missed
        /\ outstanding' = {[index |-> index, left |-> timeout]}
    BY <1>7, <1>10 DEF StartHandler, RequestTimer
  <2> HIDE DEF error, rest, count, index
  <2>2. QED
    BY <1>1, <1>3, <1>6, <2>1
<1>11. QED
  BY <1>9, <1>10

LEMMA TallyHeartbeat == TypeInv /\ Tally /\ HeartbeatHandler => Tally'
<1> SUFFICES ASSUME TypeInv, Tally, HeartbeatHandler, running', timeout' < Pulse
             PROVE  /\ WorkedOff(mailbox, numberOfPastTimeouts)' = missed'
                    /\ RepliesCurrent(mailbox, currentMessageIndex)'
                    /\ \A r \in outstanding' : r.index = currentMessageIndex'
                    /\ StartsLast(mailbox)'
  BY DEF Tally
<1> DEFINE index == Head(underWay).index
           reply == [type |-> "reply", index |-> index]
           count == numberOfPastTimeouts
<1>1. /\ running /\ timeout < Pulse
      /\ mailbox \in Seq(Messages) /\ count \in Nat
      /\ UNCHANGED <<numberOfPastTimeouts, currentMessageIndex>>
      /\ outstanding' = outstanding \ Answers(index)
      /\ WorkedOff(mailbox, count) = missed
      /\ RepliesCurrent(mailbox, currentMessageIndex) /\ StartsLast(mailbox)
      /\ \A r \in outstanding : r.index = currentMessageIndex
  BY DEF HeartbeatHandler, senderVars, setting, TypeInv, Types, Tally
<1>2. CASE Answers(index) = {}
  <2>1. UNCHANGED <<mailbox, missed>>
    BY <1>2 DEF HeartbeatHandler
  <2>2. QED
    BY <1>1, <2>1
<1>3. CASE Answers(index) # {}
  <2>1. mailbox' = Append(mailbox, reply) /\ missed' = 0
    BY <1>3 DEF HeartbeatHandler
  <2>2. PICK r \in outstanding : r.index = index
    BY <1>3 DEF Answers
  <2>3. index = currentMessageIndex
    BY <1>1, <2>2
  <2>4. reply \in Messages /\ reply.type = "reply" /\ reply.index = currentMessageIndex
    BY <2>3 DEF Messages, TypeInv, Types
  <2>5. Starts(mailbox) = {}
    BY <1>1, <2>2 DEF TypeInv, DueFirst, OneStart
  <2> HIDE DEF reply, count, index
  <2>6. /\ WorkedOff(mailbox', count) = 0
        /\ RepliesCurrent(mailbox', currentMessageIndex) /\ StartsLast(mailbox')
    BY <1>1, <2>1, <2>4, <2>5, WorkedOffAppend, RepliesAppend
  <2>7. QED
    BY <1>1, <2>1, <2>6 DEF count
<1>4. QED
  BY <1>2, <1>3

\* The three ways to append a message that is not a reply.
LEMMA TallyAppend ==
    ASSUME TypeInv, Tally, NEW msg \in Messages, msg.type # "reply",
           mailbox' = Append(mailbox, msg),
           missed' = IF msg.type = "error" THEN missed + 1 ELSE missed,
           outstanding' \subseteq outstanding,
           UNCHANGED <<running, timeout, numberOfPastTimeouts, currentMessageIndex>>
    PROVE  Tally'
<1> SUFFICES ASSUME running, timeout < Pulse
             PROVE  Tally'
  BY DEF Tally
<1>1. /\ mailbox \in Seq(Messages) /\ numberOfPastTimeouts \in Nat
      /\ msg.type \in {"start", "error"}
  BY DEF TypeInv, Types, Messages
<1>2. /\ RepliesCurrent(mailbox', currentMessageIndex) /\ StartsLast(mailbox')
      /\ \A r \in outstanding' : r.index = currentMessageIndex
  BY <1>1, RepliesAppend DEF Tally
<1>3. WorkedOff(mailbox', numberOfPastTimeouts) = missed'
  BY <1>1, WorkedOffAppend DEF Tally
<1>4. QED
  BY <1>2, <1>3 DEF Tally

LEMMA TallyGoesDown ==
    ASSUME TypeInv, Tally, GoesDown
    PROVE  Tally'
<1>1. /\ UNCHANGED <<running, timeout, numberOfPastTimeouts, currentMessageIndex>>
      /\ outstanding' = {} /\ missed' = missed + Cardinality(outstanding)
      /\ mailbox \in Seq(Messages) /\ missed \in Nat
  BY DEF GoesDown, senderVars, setting, TypeInv, Types
<1> SUFFICES ASSUME running, timeout < Pulse
             PROVE  Tally'
  BY <1>1 DEF Tally
<1>2. PICK errors \in Seq(Messages) :
         /\ mailbox' = mailbox \o errors
         /\ Len(errors) = Cardinality(outstanding)
         /\ \A i \in DOMAIN errors : errors[i].type = "error"
  BY ErrorsOfOutstanding
<1>3. CASE outstanding = {}
  <2>1. Len(errors) = 0 /\ missed' = missed
    BY <1>1, <1>2, <1>3, FS_EmptySet
  <2>2. mailbox' = mailbox
    BY <1>1, <1>2, <2>1
  <2>3. QED
    BY <1>1, <2>1, <2>2 DEF Tally
<1>4. CASE outstanding # {}
  <2>1. PICK r \in outstanding : TRUE
    BY <1>4
  <2>2. outstanding = {r}
    BY DEF TypeInv, DueFirst
  <2>3. Len(errors) = 1 /\ missed' = missed + 1
    BY <1>1, <1>2, <2>2, FS_Singleton
  <2>4. 1 \in DOMAIN errors
    BY <2>3
  <2>5. errors[1] \in Messages /\ errors[1].type = "error"
    BY <1>2, <2>4
  <2>6. mailbox' = Append(mailbox, errors[1])
    <3>1. errors = <<errors[1]>>
      BY <2>3, <2>4
    <3>2. Append(mailbox, errors[1]) = mailbox \o <<errors[1]>>
      BY <1>1, <2>5, AppendIsConcat
    <3>3. QED
      BY <1>2, <3>1, <3>2
  <2>7. QED
    BY <1>1, <2>3, <2>5, <2>6, TallyAppend
<1>5. QED
  BY <1>3, <1>4

\* The two ways to take a message that leave the sender running.
LEMMA TallyTake ==
    ASSUME TypeInv, Tally, mailbox # <<>>, Head(mailbox).type # "start",
           mailbox' = Tail(mailbox), numberOfPastTimeouts' =
              (IF Head(mailbox).type = "reply"
               THEN IF Head(mailbox).index = currentMessageIndex
                    THEN 0 ELSE numberOfPastTimeouts
               ELSE numberOfPastTimeouts + 1),
           UNCHANGED <<running, timeout, currentMessageIndex, outstanding, missed>>
    PROVE  Tally'
<1> SUFFICES ASSUME running, timeout < Pulse
             PROVE  Tally'
  BY DEF Tally
<1>1. /\ mailbox \in Seq(Messages) /\ numberOfPastTimeouts \in Nat
      /\ Head(mailbox).type \in {"reply", "error"}
  <2>1. mailbox \in Seq(Messages) /\ numberOfPastTimeouts \in Nat
    BY DEF TypeInv, Types
  <2>2. Head(mailbox) \in Messages
    BY <2>1
  <2>3. QED
    BY <2>1, <2>2 DEF Messages
<1>2. /\ WorkedOff(mailbox, numberOfPastTimeouts) = missed
      /\ RepliesCurrent(mailbox, currentMessageIndex) /\ StartsLast(mailbox)
      /\ \A r \in outstanding : r.index = currentMessageIndex
  BY DEF Tally
<1>3. /\ RepliesCurrent(mailbox', currentMessageIndex) /\ StartsLast(mailbox')
      /\ Head(mailbox).type = "reply" => Head(mailbox).index = currentMessageIndex
  BY <1>1, <1>2, RepliesTail
<1>4. numberOfPastTimeouts' = CountedAfter(Head(mailbox), numberOfPastTimeouts)
  BY <1>1, <1>3 DEF CountedAfter
<1>5. WorkedOff(mailbox', numberOfPastTimeouts') = missed
  BY <1>1, <1>2, <1>4, WorkedOffTail
<1>6. QED
  BY <1>2, <1>3, <1>5 DEF Tally

LEMMA TallyNext == TypeInv /\ Tally /\ [Next]_vars => Tally'
<1> SUFFICES ASSUME TypeInv, Tally, [Next]_vars
             PROVE  Tally'
  OBVIOUS
<1>1. CASE StartHandler
  BY <1>1, TallyStart
<1>2. CASE ReplyHandler
  BY <1>2, TallyTake DEF ReplyHandler, Receives, setting, history
<1>3. CASE ErrorHandler
  <2>1. CASE running'
    BY <1>3, <2>1, TallyTake DEF ErrorHandler, Receives, setting, history
  <2>2. CASE ~ running'
    BY <2>2 DEF Tally
  <2>3. QED
    BY <2>1, <2>2
<1>4. CASE RestartFires
  <2> DEFINE start == [type |-> "start"]
  <2>1. start \in Messages /\ start.type = "start"
    BY DEF Messages
  <2>2. /\ mailbox' = Append(mailbox, start) /\ missed' = missed
        /\ UNCHANGED <<running, timeout, numberOfPastTimeouts, currentMessageIndex,
                       outstanding>>
    BY <1>4 DEF RestartFires, setting, history
  <2> HIDE DEF start
  <2>3. QED
    BY <2>1, <2>2, TallyAppend
<1>5. ASSUME NEW request \in outstanding, RequestTimesOut(request)
      PROVE  Tally'
  <2> DEFINE error == [type |-> "error", index |-> request.index]
  <2>1. error \in Messages /\ error.type = "error"
    BY DEF Messages, TypeInv, Types
  <2>2. /\ mailbox' = Append(mailbox, error) /\ missed' = missed + 1
        /\ outstanding' \subseteq outstanding
        /\ UNCHANGED <<running, timeout, numberOfPastTimeouts, currentMessageIndex>>
    BY <1>5 DEF RequestTimesOut, senderVars, setting
  <2> HIDE DEF error
  <2>3. QED
    BY <2>1, <2>2, TallyAppend
<1>6. CASE ReceiverTimesOut \/ ReceiverDies
  BY <1>6, TallyGoesDown DEF ReceiverTimesOut, ReceiverDies
<1>7. CASE HeartbeatHandler
  BY <1>7, TallyHeartbeat
<1>8. CASE ReceiverIsCutOff
  BY <1>8 DEF ReceiverIsCutOff, senderVars, setting, history, Tally
<1>9. CASE Tick
  <2>1. /\ UNCHANGED <<running, timeout, currentMessageIndex, numberOfPastTimeouts,
                       mailbox, missed>>
        /\ outstanding' = {[r EXCEPT !.left = @ - 1] : r \in outstanding}
    BY <1>9 DEF Tick, setting
  <2>2. \A r \in outstanding : [r EXCEPT !.left = @ - 1].index = r.index
    BY DEF TypeInv, Types
  <2>3. QED
    BY <2>1, <2>2 DEF Tally
<1>10. CASE UNCHANGED vars
  BY <1>10 DEF vars, senderVars, setting, history, Tally
<1>11. QED
  BY <1>1, <1>2, <1>3, <1>4, <1>5, <1>6, <1>7, <1>8, <1>9, <1>10 DEF Next

LEMMA TallyHolds == Spec => []Tally
<1>1. Init => Tally
  <2> SUFFICES ASSUME Init
               PROVE  Tally
    OBVIOUS
  <2>1. mailbox = <<>> /\ outstanding = {} /\ missed = 0 /\ numberOfPastTimeouts = 0
    BY DEF Init
  <2>2. Unreplied(mailbox) = {} /\ ~ HasReply(mailbox)
    BY <2>1 DEF Unreplied, HasReply
  <2>3. WorkedOff(mailbox, numberOfPastTimeouts) = missed
    BY <2>1, <2>2, FS_EmptySet DEF WorkedOff, HasReply
  <2>4. QED
    BY <2>1, <2>3 DEF Tally, RepliesCurrent, StartsLast, Starts
<1>2. QED
  BY <1>1, TallyNext, TypeInvHolds, PTL DEF Spec

\* numberOfPastTimeouts counts misses in a row, whatever is in the mailbox and
\* however late it is handled, if the timeout is less than the pulse.
THEOREM CountsMissesHolds == Spec => []CountsMisses
<1>1. Tally => CountsMisses
  BY DEF Tally, CountsMisses
<1>2. QED
  BY <1>1, TallyHolds, PTL

-----------------------------------------------------------------------------
(***************************************************************************)
(* The steps of a sender whose timeout is less than its pulse              *)
(*                                                                         *)
(* Its mailbox holds at most the answer to the latest heartbeat and, behind*)
(* it, one start_atom: what is in it is never older than the latest        *)
(* start_atom, so the sender is late by two messages at most.  This is what*)
(* the bounds on time rest on.                                             *)
(***************************************************************************)
HasTypeAt(box, i, type) == i \in DOMAIN box /\ box[i].type = type

EndsWithStart(box) == HasTypeAt(box, Len(box), "start")

Shape ==
    running /\ timeout < Pulse =>
       /\ Len(mailbox) <= 2
       /\ mailbox = <<>> => lag = 0
       /\ mailbox # <<>> => outstanding = {}
       /\ Len(mailbox) = 2 => mailbox[1].type # "start" /\ mailbox[2].type = "start"
       /\ restart = Off <=> EndsWithStart(mailbox)
       /\ \A r \in outstanding : r.left + Pulse = restart + timeout

\* The start_atom handler.
Sends ==
    /\ restart = Off /\ Len(mailbox) = 1 /\ outstanding = {}
    /\ restart' = Pulse /\ lag' = 0 /\ receiver' = receiver
    /\ \/ /\ ~ IsDown /\ mailbox' = <<>> /\ missed' = missed
          /\ \E r : outstanding' = {r} /\ r.left = timeout
       \/ /\ IsDown /\ Len(mailbox') = 1 /\ mailbox'[1].type = "error"
          /\ outstanding' = {} /\ missed' = missed + 1

\* The reply handler, and the error handler when it does not quit: the sender has
\* not missed N by then.
Hears ==
    /\ Len(mailbox) \in {1, 2} /\ mailbox[1].type # "start"
    /\ Len(mailbox') = Len(mailbox) - 1 /\ lag' = 0
    /\ \A i \in DOMAIN mailbox' : mailbox'[i] = mailbox[i + 1]
    /\ missed < N
    /\ UNCHANGED <<restart, outstanding, missed, receiver>>

\* The delayed start_atom arrives.
Wakes ==
    /\ restart = 0 /\ restart' = Off /\ outstanding = {} /\ outstanding' = {}
    /\ Len(mailbox) \in {0, 1} /\ ~ EndsWithStart(mailbox)
    /\ Len(mailbox') = Len(mailbox) + 1 /\ mailbox'[Len(mailbox) + 1].type = "start"
    /\ \A i \in DOMAIN mailbox : mailbox'[i] = mailbox[i]
    /\ UNCHANGED <<lag, missed, receiver>>

\* The request is answered.
IsAnswered(type) ==
    /\ outstanding # {} /\ outstanding' = {}
    /\ mailbox = <<>> /\ Len(mailbox') = 1 /\ mailbox'[1].type = type
    /\ UNCHANGED <<lag, restart>>

\* Neither.
Rests == UNCHANGED <<mailbox, lag, restart, outstanding, missed>>

\* What the mailbox of a running sender looks like, message by message.
LEMMA ShapeFacts ==
    ASSUME TypeInv, Shape, running, timeout < Pulse
    PROVE  /\ mailbox \in Seq(Messages) /\ Len(mailbox) \in {0, 1, 2}
           /\ DOMAIN mailbox = 1 .. Len(mailbox)
           /\ Len(mailbox) = 0 <=> mailbox = <<>>
           /\ restart # Off => restart \in 0 .. Pulse
           /\ restart # Off => \A i \in DOMAIN mailbox : mailbox[i].type # "start"
           /\ restart = Off => Len(mailbox) > 0 /\ mailbox[Len(mailbox)].type = "start"
           /\ restart = Off => outstanding = {}
           /\ Len(mailbox) = 2 => restart = Off
           /\ outstanding = {} \/ \E r : outstanding = {r}
           /\ Off \notin Nat
<1>1. /\ mailbox \in Seq(Messages) /\ Len(mailbox) \in Nat
      /\ DOMAIN mailbox = 1 .. Len(mailbox)
  BY DEF TypeInv, Types
<1>2. Len(mailbox) \in {0, 1, 2} /\ (Len(mailbox) = 0 <=> mailbox = <<>>)
  BY <1>1 DEF Shape
<1>3. restart \in Timer(Pulse) /\ Off \notin Nat
  BY HeartbeatAssumption DEF TypeInv, Types
<1>4. restart # Off => \A i \in DOMAIN mailbox : mailbox[i].type # "start"
  BY DEF TypeInv, OneStart, Starts
<1>5. restart = Off => Len(mailbox) > 0 /\ mailbox[Len(mailbox)].type = "start"
  BY <1>1 DEF Shape, EndsWithStart, HasTypeAt
<1>6. Len(mailbox) = 2 => restart = Off
  BY <1>1 DEF Shape, EndsWithStart, HasTypeAt
<1>7. (\A r1, r2 \in outstanding : r1 = r2) /\ (restart = Off => outstanding = {})
  BY DEF TypeInv, DueFirst
<1>8. outstanding = {} \/ \E r : outstanding = {r}
  BY <1>7
<1>9. QED
  BY <1>1, <1>2, <1>3, <1>4, <1>5, <1>6, <1>7, <1>8 DEF Timer

LEMMA SenderStarts ==
    ASSUME TypeInv, Shape, running, timeout < Pulse, StartHandler
    PROVE  Sends
<1> DEFINE index == (currentMessageIndex + 1) % IndexRange
           error == [type |-> "error", index |-> index]
<1>1. mailbox # <<>> /\ Head(mailbox).type = "start"
  BY DEF StartHandler, Receives
<1>2. Len(mailbox) = 1 /\ restart = Off /\ outstanding = {} /\ Tail(mailbox) = <<>>
  BY <1>1, ShapeFacts DEF Shape
<1>3. restart' = Pulse /\ lag' = 0 /\ receiver' = receiver
  BY DEF StartHandler
<1>4. CASE IsDown
  <2>1. mailbox' = Append(<<>>, error) /\ missed' = missed + 1 /\ outstanding' = outstanding
    BY <1>2, <1>4 DEF StartHandler
  <2>2. Len(mailbox') = 1 /\ mailbox'[1].type = "error"
    BY <2>1
  <2>3. QED
    BY <1>2, <1>3, <1>4, <2>1, <2>2 DEF Sends
<1>5. CASE ~ IsDown
  <2>1. /\ mailbox' = <<>> /\ missed' = missed
        /\ outstanding' = {[index |-> index, left |-> timeout]}
    BY <1>2, <1>5 DEF StartHandler, RequestTimer
  <2> DEFINE request == [index |-> index, left |-> timeout]
  <2>2. outstanding' = {request} /\ request.left = timeout
    BY <2>1
  <2> HIDE DEF request
  <2>4. \E r : outstanding' = {r} /\ r.left = timeout
    BY <2>2
  <2>3. QED
    BY <1>2, <1>3, <1>5, <2>1, <2>4 DEF Sends
<1>6. QED
  BY <1>4, <1>5

\* Working off a mailbox in which only start_atoms follow the first message.
LEMMA WorkedOffFirst ==
    ASSUME NEW box \in Seq(Messages), NEW count \in Nat,
           \A i \in DOMAIN box : i # 1 => box[i].type = "start"
    PROVE  /\ Len(box) = 0 => WorkedOff(box, count) = count
           /\ Len(box) > 0 => WorkedOff(box, count) = CountedAfter(box[1], count)
<1>1. DOMAIN box = 1 .. Len(box) /\ Len(box) \in Nat
  OBVIOUS
<1>2. CASE Len(box) = 0
  <2>1. Unreplied(box) = {} /\ ~ HasReply(box)
    BY <1>1, <1>2 DEF Unreplied, HasReply
  <2>2. QED
    BY <1>2, <2>1, FS_EmptySet DEF WorkedOff, HasReply
<1>3. CASE Len(box) > 0
  <2>1. 1 \in DOMAIN box /\ box[1].type \in {"start", "reply", "error"}
    BY <1>1, <1>3 DEF Messages
  <2>2. HasReply(box) <=> box[1].type = "reply"
    BY <2>1 DEF HasReply
  <2>3. CASE box[1].type = "error"
    <3>1. Unreplied(box) = {1}
      BY <1>1, <2>1, <2>3 DEF Unreplied
    <3>2. Cardinality(Unreplied(box)) = 1
      BY <3>1, FS_Singleton
    <3>3. QED
      BY <1>3, <2>2, <2>3, <3>2 DEF WorkedOff, HasReply, CountedAfter
  <2>4. CASE box[1].type # "error"
    <3>1. Unreplied(box) = {}
      BY <1>1, <2>1, <2>4 DEF Unreplied
    <3>2. Cardinality(Unreplied(box)) = 0
      BY <3>1, FS_EmptySet
    <3>3. QED
      BY <1>3, <2>1, <2>2, <2>4, <3>2 DEF WorkedOff, HasReply, CountedAfter
  <2>5. QED
    BY <2>3, <2>4
<1>4. QED
  BY <1>1, <1>2, <1>3

\* The sender has counted the misses, but for the error it takes next.
LEMMA MissedNow ==
    ASSUME TypeInv, Tally, Shape, running, timeout < Pulse
    PROVE  /\ Len(mailbox) = 0 => missed = numberOfPastTimeouts
           /\ Len(mailbox) > 0 => missed = CountedAfter(mailbox[1], numberOfPastTimeouts)
           /\ Len(mailbox) > 0 => mailbox[1].type \in {"start", "reply", "error"}
           /\ numberOfPastTimeouts \in 0 .. N - 1 /\ missed \in 0 .. N
<1>1. WorkedOff(mailbox, numberOfPastTimeouts) = missed
  BY DEF Tally
<1>2. numberOfPastTimeouts \in 0 .. N - 1 /\ N \in Nat \ {0}
  BY HeartbeatAssumption DEF TypeInv, Types, Counting
<1>3. /\ mailbox \in Seq(Messages) /\ Len(mailbox) \in {0, 1, 2}
      /\ DOMAIN mailbox = 1 .. Len(mailbox)
  BY ShapeFacts
<1>4. \A i \in DOMAIN mailbox : i # 1 => mailbox[i].type = "start"
  BY <1>3 DEF Shape
<1>5. /\ Len(mailbox) = 0 => missed = numberOfPastTimeouts
      /\ Len(mailbox) > 0 => missed = CountedAfter(mailbox[1], numberOfPastTimeouts)
  BY <1>1, <1>2, <1>3, <1>4, WorkedOffFirst
<1>6. Len(mailbox) > 0 => mailbox[1].type \in {"start", "reply", "error"}
  BY <1>3 DEF Messages
<1>7. missed \in 0 .. N
  BY <1>2, <1>3, <1>5, <1>6 DEF CountedAfter
<1>8. QED
  BY <1>2, <1>5, <1>6, <1>7

LEMMA SenderHears ==
    ASSUME TypeInv, Tally, Shape, running, running', timeout < Pulse,
           ReplyHandler \/ ErrorHandler
    PROVE  Hears
<1>1. /\ mailbox # <<>> /\ Head(mailbox).type # "start" /\ mailbox' = Tail(mailbox)
      /\ lag' = 0 /\ UNCHANGED <<restart, outstanding, missed, receiver>>
  BY DEF ReplyHandler, ErrorHandler, Receives, history
<1>2. Len(mailbox) \in {1, 2} /\ mailbox \in Seq(Messages)
  BY <1>1, ShapeFacts
<1>3. /\ Len(mailbox') = Len(mailbox) - 1 /\ mailbox[1].type # "start"
      /\ \A i \in DOMAIN mailbox' : mailbox'[i] = mailbox[i + 1]
  BY <1>1, <1>2
<1>4. missed < N
  <2>1. /\ missed = CountedAfter(mailbox[1], numberOfPastTimeouts)
        /\ numberOfPastTimeouts \in 0 .. N - 1 /\ N \in Nat \ {0}
    BY <1>2, MissedNow, HeartbeatAssumption
  <2>2. CASE ReplyHandler
    <3>1. missed = 0
      BY <1>2, <2>1, <2>2 DEF ReplyHandler, Receives, CountedAfter
    <3>2. QED
      BY <2>1, <3>1
  <2>3. CASE ErrorHandler
    <3>1. missed = numberOfPastTimeouts + 1
      BY <1>2, <2>1, <2>3 DEF ErrorHandler, Receives, CountedAfter
    <3>2. ~ Enough(numberOfPastTimeouts + 1)
      BY <2>3 DEF ErrorHandler
    <3>3. QED
      BY <2>1, <3>1, <3>2 DEF Enough
  <2>4. QED
    BY <2>2, <2>3
<1>5. QED
  BY <1>1, <1>2, <1>3, <1>4 DEF Hears

LEMMA SenderWakes ==
    ASSUME TypeInv, Shape, running, timeout < Pulse, RestartFires
    PROVE  Wakes
<1>1. /\ mailbox' = Append(mailbox, [type |-> "start"]) /\ restart = 0 /\ restart' = Off
      /\ UNCHANGED <<lag, missed, receiver, outstanding>>
  BY DEF RestartFires, history
<1>2. mailbox \in Seq(Messages) /\ Len(mailbox) \in {0, 1} /\ restart # Off
  BY <1>1, ShapeFacts
<1>3. outstanding = {}
  <2>1. ASSUME NEW r \in outstanding
        PROVE  FALSE
    BY <1>1 DEF TypeInv, DueFirst, Types
  <2>2. QED
    BY <2>1
<1>4. /\ Len(mailbox') = Len(mailbox) + 1 /\ mailbox'[Len(mailbox) + 1].type = "start"
      /\ \A i \in DOMAIN mailbox : mailbox'[i] = mailbox[i]
  BY <1>1, <1>2
<1>5. QED
  BY <1>1, <1>2, <1>3, <1>4 DEF Wakes, Shape

\* A message behind an empty mailbox.
LEMMA OneMessage ==
    ASSUME NEW msg
    PROVE  Len(Append(<<>>, msg)) = 1 /\ Append(<<>>, msg)[1] = msg
  OBVIOUS

LEMMA SenderIsTimedOut ==
    ASSUME TypeInv, Shape, running, timeout < Pulse,
           NEW request \in outstanding, RequestTimesOut(request)
    PROVE  IsAnswered("error") /\ missed' = missed + 1 /\ receiver' = receiver
<1> DEFINE error == [type |-> "error", index |-> request.index]
<1>1. /\ mailbox' = Append(mailbox, error) /\ error.type = "error" /\ missed' = missed + 1
      /\ outstanding' = outstanding \ {request}
      /\ UNCHANGED <<lag, restart, receiver>>
  BY DEF RequestTimesOut, senderVars
<1>2. mailbox = <<>>
  BY DEF Shape
<1>3. outstanding' = {}
  BY <1>1, ShapeFacts
<1> HIDE DEF error
<1>4. Len(mailbox') = 1 /\ mailbox'[1].type = "error"
  BY <1>1, <1>2, OneMessage
<1>5. QED
  BY <1>1, <1>2, <1>3, <1>4 DEF IsAnswered

LEMMA SenderIsBounced ==
    ASSUME TypeInv, Shape, running, timeout < Pulse, GoesDown
    PROVE  (IsAnswered("error") /\ missed' = missed + 1) \/ Rests
<1>1. /\ UNCHANGED <<lag, restart>> /\ outstanding' = {}
      /\ missed' = missed + Cardinality(outstanding)
      /\ mailbox \in Seq(Messages) /\ missed \in Nat
  BY DEF GoesDown, senderVars, TypeInv, Types
<1>2. PICK errors \in Seq(Messages) :
         /\ mailbox' = mailbox \o errors
         /\ Len(errors) = Cardinality(outstanding)
         /\ \A i \in DOMAIN errors : errors[i].type = "error"
  BY ErrorsOfOutstanding
<1>3. CASE outstanding = {}
  <2>1. Len(errors) = 0 /\ missed' = missed
    BY <1>1, <1>2, <1>3, FS_EmptySet
  <2>2. mailbox' = mailbox
    BY <1>1, <1>2, <2>1
  <2>3. QED
    BY <1>1, <1>3, <2>1, <2>2 DEF Rests
<1>4. CASE outstanding # {}
  <2>1. Len(errors) = 1 /\ missed' = missed + 1
    BY <1>1, <1>2, <1>4, ShapeFacts, FS_Singleton
  <2>2. 1 \in DOMAIN errors /\ errors[1].type = "error"
    BY <1>2, <2>1
  <2>3. mailbox = <<>>
    BY <1>4 DEF Shape
  <2>4. mailbox' = errors
    BY <1>2, <2>3
  <2>5. QED
    BY <1>1, <1>4, <2>1, <2>2, <2>3, <2>4 DEF IsAnswered
<1>5. QED
  BY <1>3, <1>4

LEMMA SenderIsAnswered ==
    ASSUME TypeInv, Shape, running, timeout < Pulse, HeartbeatHandler
    PROVE  IsAnswered("reply") \/ Rests
<1> DEFINE index == Head(underWay).index
           reply == [type |-> "reply", index |-> index]
<1>1. outstanding' = outstanding \ Answers(index) /\ UNCHANGED <<lag, restart>>
  BY DEF HeartbeatHandler, senderVars
<1>2. CASE Answers(index) = {}
  <2>1. UNCHANGED <<mailbox, missed>>
    BY <1>2 DEF HeartbeatHandler
  <2>2. QED
    BY <1>1, <1>2, <2>1 DEF Rests
<1>3. CASE Answers(index) # {}
  <2>1. mailbox' = Append(mailbox, reply) /\ reply.type = "reply"
    BY <1>3 DEF HeartbeatHandler
  <2>2. outstanding # {} /\ Answers(index) \subseteq outstanding
    BY <1>3 DEF Answers
  <2>3. mailbox = <<>> /\ outstanding' = {}
    BY <1>1, <1>3, <2>2, ShapeFacts DEF Shape
  <2> HIDE DEF reply, index
  <2>4. Len(mailbox') = 1 /\ mailbox'[1].type = "reply"
    BY <2>1, <2>3, OneMessage
  <2>5. QED
    BY <1>1, <2>2, <2>3, <2>4 DEF IsAnswered
<1>4. QED
  BY <1>2, <1>3

LEMMA ShapeInit == Init => Shape
  BY HeartbeatAssumption DEF Init, Shape, EndsWithStart, HasTypeAt

\* What a step other than Tick does to a sender that goes on running.
SenderStep ==
    \/ Sends
    \/ Hears
    \/ Wakes
    \/ IsAnswered("error") /\ missed' = missed + 1
    \/ IsAnswered("reply") /\ receiver = "up"
    \/ Rests

LEMMA SenderSteps ==
    ASSUME TypeInv, Tally, Shape, running, running', timeout < Pulse, [Next]_vars
    PROVE  /\ timeout' = timeout /\ punctual' = punctual
           /\ (SenderStep /\ gone' = gone) \/ Tick
<1>1. CASE StartHandler
  <2>1. Sends
    BY <1>1, SenderStarts
  <2>2. gone' = gone /\ timeout' = timeout /\ punctual' = punctual
    BY <1>1 DEF StartHandler, setting
  <2>3. QED
    BY <2>1, <2>2 DEF SenderStep
<1>2. CASE ReplyHandler \/ ErrorHandler
  <2>1. Hears
    BY <1>2, SenderHears
  <2>2. gone' = gone /\ timeout' = timeout /\ punctual' = punctual
    BY <1>2 DEF ReplyHandler, ErrorHandler, setting, history
  <2>3. QED
    BY <2>1, <2>2 DEF SenderStep
<1>3. CASE RestartFires
  <2>1. Wakes
    BY <1>3, SenderWakes
  <2>2. gone' = gone /\ timeout' = timeout /\ punctual' = punctual
    BY <1>3 DEF RestartFires, setting, history
  <2>3. QED
    BY <2>1, <2>2 DEF SenderStep
<1>4. ASSUME NEW request \in outstanding, RequestTimesOut(request)
      PROVE  SenderStep /\ gone' = gone /\ timeout' = timeout /\ punctual' = punctual
  <2>1. IsAnswered("error") /\ missed' = missed + 1
    BY <1>4, SenderIsTimedOut
  <2>2. gone' = gone /\ timeout' = timeout /\ punctual' = punctual
    BY <1>4 DEF RequestTimesOut, setting
  <2>3. QED
    BY <2>1, <2>2 DEF SenderStep
<1>5. CASE GoesDown
  <2>1. (IsAnswered("error") /\ missed' = missed + 1) \/ Rests
    BY <1>5, SenderIsBounced
  <2>2. gone' = gone /\ timeout' = timeout /\ punctual' = punctual
    BY <1>5 DEF GoesDown, setting
  <2>3. QED
    BY <2>1, <2>2 DEF SenderStep
<1>6. CASE HeartbeatHandler
  <2>1. IsAnswered("reply") \/ Rests
    BY <1>6, SenderIsAnswered
  <2>2. /\ gone' = gone /\ timeout' = timeout /\ punctual' = punctual
        /\ receiver = "up"
    BY <1>6 DEF HeartbeatHandler, setting
  <2>3. QED
    BY <2>1, <2>2 DEF SenderStep
<1>7. CASE ReceiverIsCutOff \/ UNCHANGED vars
  <2>1. Rests /\ gone' = gone /\ timeout' = timeout /\ punctual' = punctual
    BY <1>7 DEF ReceiverIsCutOff, vars, senderVars, setting, history, Rests
  <2>2. QED
    BY <2>1 DEF SenderStep
<1>8. CASE Tick
  BY <1>8 DEF Tick, setting
<1>9. QED
  BY <1>1, <1>2, <1>3, <1>4, <1>5, <1>6, <1>7, <1>8
  DEF Next, ReceiverTimesOut, ReceiverDies

\* The clock.
LEMMA SenderTicks ==
    ASSUME TypeInv, Tick
    PROVE  /\ UNCHANGED <<mailbox, missed, receiver, running, timeout, punctual>>
           /\ restart = Off => restart' = Off
           /\ restart # Off => restart > 0 /\ restart' = restart - 1
           /\ mailbox # <<>> => lag < MaxLag /\ lag' = lag + 1
           /\ mailbox = <<>> => lag' = 0
           /\ outstanding = {} <=> outstanding' = {}
           /\ \A r \in outstanding' : \E q \in outstanding : r.left = q.left - 1 /\ r.index = q.index
<1>1. restart \in Timer(Pulse) /\ Off \notin Nat /\ Pulse \in Nat
  BY HeartbeatAssumption DEF TypeInv, Types
<1>2. ASSUME NEW q \in outstanding
      PROVE  /\ [q EXCEPT !.left = @ - 1].left = q.left - 1
             /\ [q EXCEPT !.left = @ - 1].index = q.index
  <2>1. q \in [index : Index, left : 0 .. timeout]
    BY DEF TypeInv, Types
  <2>2. QED
    BY <2>1
<1>3. outstanding' = {[q EXCEPT !.left = @ - 1] : q \in outstanding}
  BY DEF Tick
<1>4. /\ outstanding = {} <=> outstanding' = {}
      /\ \A r \in outstanding' : \E q \in outstanding : r.left = q.left - 1 /\ r.index = q.index
  BY <1>2, <1>3
<1>5. UNCHANGED <<mailbox, missed, receiver, running, timeout, punctual>>
  BY DEF Tick, setting
<1>6. /\ restart = Off => restart' = Off
      /\ restart # Off => restart > 0 /\ restart' = restart - 1
  BY <1>1 DEF Tick, Down, Timer
<1>7. /\ mailbox # <<>> => lag < MaxLag /\ lag' = lag + 1
      /\ mailbox = <<>> => lag' = 0
  BY DEF Tick
<1>8. QED
  BY <1>4, <1>5, <1>6, <1>7

LEMMA ShapeStep ==
    ASSUME TypeInv, Tally, Shape, [Next]_vars
    PROVE  Shape'
<1> SUFFICES ASSUME running', timeout' < Pulse
             PROVE  /\ Len(mailbox') <= 2
                    /\ mailbox' = <<>> => lag' = 0
                    /\ mailbox' # <<>> => outstanding' = {}
                    /\ Len(mailbox') = 2 =>
                          mailbox'[1].type # "start" /\ mailbox'[2].type = "start"
                    /\ restart' = Off <=> EndsWithStart(mailbox)'
                    /\ \A r \in outstanding' : r.left + Pulse = restart' + timeout'
  BY DEF Shape
<1>1. running /\ timeout' = timeout
  BY DEF Next, StartHandler, ReplyHandler, ErrorHandler, RestartFires, RequestTimesOut,
     ReceiverTimesOut, ReceiverDies, GoesDown, HeartbeatHandler, ReceiverIsCutOff, Tick,
     vars, senderVars, setting
<1>2. (SenderStep /\ gone' = gone) \/ Tick
  BY <1>1, SenderSteps
<1>3. /\ mailbox \in Seq(Messages) /\ Len(mailbox) \in {0, 1, 2}
      /\ DOMAIN mailbox = 1 .. Len(mailbox)
      /\ (Len(mailbox) = 0 <=> mailbox = <<>>)
      /\ Off \notin Nat /\ Pulse \in Nat /\ timeout \in Nat
      /\ mailbox' \in Seq(Messages)
  BY <1>1, ShapeFacts, Bounds, TypeInvNext DEF TypeInv, Types
<1>4. /\ Len(mailbox') \in Nat /\ DOMAIN mailbox' = 1 .. Len(mailbox')
      /\ (Len(mailbox') = 0 <=> mailbox' = <<>>)
  BY <1>3
<1>5. CASE Sends
  BY <1>1, <1>3, <1>4, <1>5 DEF Sends, EndsWithStart, HasTypeAt
<1>6. CASE Hears
  BY <1>1, <1>3, <1>4, <1>6 DEF Hears, Shape, EndsWithStart, HasTypeAt
<1>7. CASE Wakes
  BY <1>1, <1>3, <1>4, <1>7 DEF Wakes, Shape, EndsWithStart, HasTypeAt
<1>8. CASE IsAnswered("error") \/ IsAnswered("reply")
  BY <1>1, <1>3, <1>4, <1>8 DEF IsAnswered, Shape, EndsWithStart, HasTypeAt
<1>9. CASE Rests
  BY <1>1, <1>3, <1>4, <1>9 DEF Rests, Shape, EndsWithStart, HasTypeAt
<1>10. CASE Tick
  <2>1. restart \in Timer(Pulse)
    BY DEF TypeInv, Types
  <2>2. restart' = Off <=> EndsWithStart(mailbox)'
    BY <1>1, <1>3, <1>10, <2>1, SenderTicks DEF Shape, EndsWithStart, HasTypeAt, Timer
  <2>3. ASSUME NEW r \in outstanding'
        PROVE  r.left + Pulse = restart' + timeout'
    <3>1. PICK q \in outstanding : r.left = q.left - 1
      BY <1>10, <2>3, SenderTicks
    <3>2. q.left + Pulse = restart + timeout /\ restart # Off
      BY <1>1, ShapeFacts DEF Shape
    <3>3. q.left \in Nat /\ restart \in Nat
      BY <2>1, <3>2 DEF TypeInv, Types, Timer
    <3>4. QED
      BY <1>1, <1>3, <1>10, <3>1, <3>2, <3>3, SenderTicks
  <2>4. QED
    BY <1>1, <1>3, <1>10, <2>2, <2>3, SenderTicks DEF Shape
<1>11. QED
  BY <1>2, <1>5, <1>6, <1>7, <1>8, <1>9, <1>10 DEF SenderStep

-----------------------------------------------------------------------------
(***************************************************************************)
(* DetectedInTime                                                          *)
(*                                                                         *)
(* Ahead bounds the time until the sender has counted N misses in a row if *)
(* the receiver stays away.  It never grows while the receiver is away, and*)
(* every tick takes one from it.                                           *)
(***************************************************************************)
Longer(a, b) == IF a > b THEN a ELSE b

\* The time until the sender has handled the next start_atom.
NextStart ==
    CASE restart = Off -> (IF Len(mailbox) = 2 THEN 2 * MaxLag ELSE MaxLag) - lag
      [] restart # Off /\ mailbox # <<>> -> Longer(restart, MaxLag - lag) + MaxLag
      [] restart # Off /\ mailbox = <<>> /\ outstanding # {} -> restart + Turn - Pulse
      [] restart # Off /\ mailbox = <<>> /\ outstanding = {} -> restart + MaxLag

\* The requests the sender has still to make.
Lacking == N - missed - (IF outstanding = {} THEN 0 ELSE 1)

Ahead ==
    CASE Lacking # 0 -> NextStart + (Lacking - 1) * Turn + timeout + MaxLag
      [] Lacking = 0 /\ outstanding # {} -> restart + timeout - Pulse + MaxLag
      [] Lacking = 0 /\ outstanding = {} -> MaxLag - lag

\* A turn is long enough for a pulse and for an answer that is late.
LEMMA Turns ==
    ASSUME TypeInv
    PROVE  /\ Turn \in Nat /\ Turn >= Pulse + MaxLag /\ Turn >= timeout + MaxLag + MaxLag
           /\ Turn \in {Pulse + MaxLag, timeout + MaxLag + MaxLag}
           /\ \A k \in Nat : k * Turn \in Nat
           /\ \A k \in Nat \ {0} : k * Turn = (k - 1) * Turn + Turn
           /\ Pulse \in Nat \ {0} /\ timeout \in 1 .. Pulse /\ MaxLag \in Nat /\ N \in Nat \ {0}
<1>1. Pulse \in Nat \ {0} /\ timeout \in 1 .. Pulse /\ MaxLag \in Nat /\ N \in Nat \ {0}
  BY HeartbeatAssumption DEF TypeInv, Types
<1>2. /\ Turn \in Nat /\ Turn >= Pulse + MaxLag /\ Turn >= timeout + MaxLag + MaxLag
      /\ Turn \in {Pulse + MaxLag, timeout + MaxLag + MaxLag}
  BY <1>1 DEF Turn
<1>3. ASSUME NEW t \in Nat
      PROVE  /\ \A k \in Nat : k * t \in Nat
             /\ \A k \in Nat \ {0} : k * t = (k - 1) * t + t
  OBVIOUS
<1>4. QED
  BY <1>1, <1>2, <1>3

\* How much the sender lacks, and how long it may take.
LEMMA AheadBounds ==
    ASSUME TypeInv, Tally, Shape, running, timeout < Pulse
    PROVE  /\ Lacking \in 0 .. N
           /\ Lacking = 0 /\ outstanding = {} => mailbox # <<>> /\ mailbox[1].type = "error"
           /\ NextStart \in 0 .. Turn
           /\ Ahead \in Nat /\ Ahead <= DetectionBound
<1>1. /\ Turn \in Nat /\ Turn >= Pulse + MaxLag /\ Turn >= timeout + MaxLag + MaxLag
      /\ Pulse \in Nat \ {0} /\ timeout \in 1 .. Pulse /\ MaxLag \in Nat /\ N \in Nat \ {0}
  BY Turns
<1>2. /\ Len(mailbox) \in {0, 1, 2} /\ (Len(mailbox) = 0 <=> mailbox = <<>>)
      /\ restart # Off => restart \in 0 .. Pulse
      /\ restart = Off => outstanding = {} /\ mailbox # <<>>
      /\ Len(mailbox) = 2 => restart = Off
      /\ Off \notin Nat
  BY ShapeFacts
<1>3. lag \in 0 .. MaxLag /\ (mailbox = <<>> => lag = 0) /\ (mailbox # <<>> => outstanding = {})
  BY DEF TypeInv, Types, Shape
<1>4. /\ missed \in 0 .. N /\ (outstanding # {} => missed < N)
      /\ missed = N => mailbox # <<>> /\ mailbox[1].type = "error"
  BY <1>1, <1>2, <1>3, MissedNow DEF CountedAfter
<1>5. /\ Lacking \in 0 .. N
      /\ Lacking = 0 /\ outstanding = {} => mailbox # <<>> /\ mailbox[1].type = "error"
      /\ Lacking = N => outstanding = {}
  BY <1>1, <1>4 DEF Lacking
<1>6. outstanding # {} => restart + timeout - Pulse \in 0 .. timeout
  <2>1. ASSUME NEW r \in outstanding
        PROVE  restart + timeout - Pulse \in 0 .. timeout
    <3>1. r.left \in 0 .. timeout
      BY DEF TypeInv, Types
    <3>2. r.left + Pulse = restart + timeout /\ restart \in 0 .. Pulse
      BY <1>2 DEF Shape
    <3>3. QED
      BY <1>1, <3>1, <3>2
  <2>2. QED
    BY <2>1
<1>7. NextStart \in 0 .. Turn
  <2>1. CASE restart = Off
    BY <1>1, <1>3, <2>1 DEF NextStart
  <2>2. CASE restart # Off /\ mailbox # <<>>
    BY <1>1, <1>2, <1>3, <2>2 DEF NextStart, Longer
  <2>3. CASE restart # Off /\ mailbox = <<>> /\ outstanding # {}
    <3>1. NextStart = restart + Turn - Pulse /\ restart \in 0 .. Pulse
      BY <1>2, <2>3 DEF NextStart
    <3>2. QED
      BY <1>1, <3>1
  <2>4. CASE restart # Off /\ mailbox = <<>> /\ outstanding = {}
    BY <1>1, <1>2, <2>4 DEF NextStart
  <2>5. QED
    BY <2>1, <2>2, <2>3, <2>4
<1>8. CASE Lacking = 0
  <2>1. Ahead \in 0 .. timeout + MaxLag
    BY <1>1, <1>3, <1>6, <1>8 DEF Ahead
  <2>2. N * Turn \in Nat
    BY <1>1, Turns
  <2>3. Ahead \in Nat /\ Ahead <= DetectionBound
    BY <1>1, <2>1, <2>2 DEF DetectionBound
  <2>4. QED
    BY <1>5, <1>7, <2>3
<1>9. CASE Lacking # 0
  <2> DEFINE later == (Lacking - 1) * Turn
  <2>1. later \in Nat /\ later + Turn <= N * Turn
    <3>1. ASSUME NEW t \in Nat, NEW n \in Nat, NEW k \in 1 .. n
          PROVE  (k - 1) * t + t <= n * t
      <4>1. k * t + (n - k) * t = n * t /\ (n - k) * t \in Nat /\ k * t \in Nat
        OBVIOUS
      <4>2. (k - 1) * t + t = k * t
        OBVIOUS
      <4>3. n * t \in Nat
        OBVIOUS
      <4> QED
        BY <4>1, <4>2, <4>3
    <3>2. Lacking \in 1 .. N /\ Lacking - 1 \in Nat
      BY <1>1, <1>5, <1>9
    <3>3. QED
      BY <1>1, <3>1, <3>2, Turns
  <2>2. Ahead = NextStart + later + timeout + MaxLag
    BY <1>9 DEF Ahead
  <2>3. N * Turn \in Nat
    BY <1>1, Turns
  <2> HIDE DEF later
  <2>4. Ahead \in Nat /\ Ahead <= DetectionBound
    BY <1>1, <1>7, <2>1, <2>2, <2>3 DEF DetectionBound
  <2>5. QED
    BY <1>5, <1>7, <2>4
<1>10. QED
  BY <1>8, <1>9

\* The next start_atom does not get farther away but by a start_atom.
LEMMA NextStartStays ==
    ASSUME TypeInv, Shape, running, timeout < Pulse, timeout' = timeout,
           Hears \/ Wakes \/ IsAnswered("error") \/ IsAnswered("reply") \/ Rests
    PROVE  NextStart' \in Int /\ NextStart' <= NextStart
<1>1. /\ Turn \in Nat /\ Turn >= Pulse + MaxLag /\ Turn >= timeout + MaxLag + MaxLag
      /\ Pulse \in Nat \ {0} /\ timeout \in 1 .. Pulse /\ MaxLag \in Nat /\ Turn' = Turn
  BY Turns DEF Turn
<1>2. /\ Len(mailbox) \in {0, 1, 2} /\ (Len(mailbox) = 0 <=> mailbox = <<>>)
      /\ restart # Off => restart \in 0 .. Pulse
      /\ restart = Off => outstanding = {} /\ mailbox # <<>>
      /\ restart = Off => mailbox[Len(mailbox)].type = "start"
      /\ Len(mailbox) = 2 => restart = Off
      /\ Off \notin Nat
  BY ShapeFacts
<1>3. lag \in 0 .. MaxLag /\ (mailbox = <<>> => lag = 0) /\ (mailbox # <<>> => outstanding = {})
  BY DEF TypeInv, Types, Shape
<1>4. NextStart \in Int
  BY <1>1, <1>2, <1>3 DEF NextStart, Longer
<1>5. CASE Hears
  <2>1. /\ lag' = 0 /\ restart' = restart /\ outstanding = {} /\ outstanding' = {}
        /\ mailbox # <<>> /\ Len(mailbox') = Len(mailbox) - 1
    BY <1>2, <1>3, <1>5 DEF Hears
  <2>2. CASE Len(mailbox) = 2
    BY <1>1, <1>2, <1>3, <2>1, <2>2 DEF NextStart
  <2>3. CASE Len(mailbox) = 1
    <3>1. restart # Off /\ mailbox' = <<>>
      <4>1. Len(mailbox') = 0
        BY <2>1, <2>3
      <4>2. restart # Off
        BY <1>2, <1>5, <2>3 DEF Hears
      <4>3. QED
        BY <4>1, <4>2
    <3>2. QED
      BY <1>1, <1>2, <1>3, <2>1, <2>3, <3>1 DEF NextStart, Longer
  <2>4. QED
    BY <1>2, <2>1, <2>2, <2>3
<1>6. CASE Wakes
  <2>1. /\ lag' = lag /\ restart = 0 /\ restart' = Off /\ outstanding = {}
        /\ Len(mailbox) \in {0, 1} /\ Len(mailbox') = Len(mailbox) + 1
    BY <1>6 DEF Wakes
  <2>2. CASE Len(mailbox) = 0
    BY <1>1, <1>2, <1>3, <2>1, <2>2 DEF NextStart
  <2>3. CASE Len(mailbox) = 1
    BY <1>1, <1>2, <1>3, <2>1, <2>3 DEF NextStart, Longer
  <2>4. QED
    BY <2>1, <2>2, <2>3
<1>7. CASE IsAnswered("error") \/ IsAnswered("reply")
  <2>1. /\ outstanding # {} /\ outstanding' = {} /\ mailbox = <<>> /\ mailbox' # <<>>
        /\ lag' = 0 /\ restart' = restart /\ restart # Off
    BY <1>2, <1>3, <1>7 DEF IsAnswered
  <2>2. PICK r \in outstanding : TRUE
    BY <2>1
  <2>3. r.left \in 0 .. timeout /\ r.left + Pulse = restart + timeout /\ restart \in 0 .. Pulse
    BY <1>2, <2>1, <2>2 DEF TypeInv, Types, Shape
  <2>4. /\ NextStart = restart + Turn - Pulse
        /\ NextStart' = Longer(restart, MaxLag) + MaxLag
    BY <1>1, <1>2, <1>3, <2>1 DEF NextStart
  <2>5. QED
    BY <1>1, <2>3, <2>4 DEF Longer
<1>8. CASE Rests
  <2>1. NextStart' = NextStart
    BY <1>1, <1>8 DEF Rests, NextStart
  <2>2. QED
    BY <1>4, <2>1
<1>9. QED
  BY <1>5, <1>6, <1>7, <1>8

\* A tick brings it nearer.
LEMMA NextStartTick ==
    ASSUME TypeInv, Shape, running, timeout < Pulse, Tick
    PROVE  NextStart' \in Int /\ NextStart' <= NextStart - 1
<1>1. Turn \in Nat /\ Pulse \in Nat \ {0} /\ MaxLag \in Nat /\ Turn' = Turn
  BY Turns, SenderTicks DEF Turn
<1>2. /\ restart # Off => restart \in 0 .. Pulse
      /\ restart = Off => mailbox # <<>>
      /\ Len(mailbox) \in {0, 1, 2} /\ (Len(mailbox) = 0 <=> mailbox = <<>>)
      /\ Off \notin Nat
  BY ShapeFacts
<1>3. lag \in 0 .. MaxLag
  BY DEF TypeInv, Types
<1>4. /\ UNCHANGED <<mailbox, missed, receiver, running, timeout, punctual>>
      /\ restart = Off => restart' = Off
      /\ restart # Off => restart > 0 /\ restart' = restart - 1
      /\ mailbox # <<>> => lag < MaxLag /\ lag' = lag + 1
      /\ outstanding = {} <=> outstanding' = {}
  BY SenderTicks
<1>5. CASE restart = Off
  BY <1>1, <1>2, <1>3, <1>4, <1>5 DEF NextStart
<1>6. CASE restart # Off /\ mailbox # <<>>
  BY <1>1, <1>2, <1>3, <1>4, <1>6 DEF NextStart, Longer
<1>7. CASE restart # Off /\ mailbox = <<>>
  BY <1>1, <1>2, <1>3, <1>4, <1>7 DEF NextStart
<1>8. QED
  BY <1>5, <1>6, <1>7

\* A start_atom is a turn away from the next one.
LEMMA NextStartTurn ==
    ASSUME TypeInv, Shape, running, timeout < Pulse, timeout' = timeout, Sends
    PROVE  NextStart' \in Int /\ NextStart' <= Turn
<1>1. /\ Turn \in Nat /\ Turn >= Pulse + MaxLag /\ Turn >= timeout + MaxLag + MaxLag
      /\ Pulse \in Nat \ {0} /\ timeout \in 1 .. Pulse /\ MaxLag \in Nat /\ Turn' = Turn
      /\ Off \notin Nat
  BY Turns, HeartbeatAssumption DEF Turn
<1>2. restart' = Pulse /\ lag' = 0
  BY DEF Sends
<1>3. CASE mailbox' = <<>> /\ outstanding' # {}
  BY <1>1, <1>2, <1>3 DEF NextStart
<1>4. CASE mailbox' # <<>>
  BY <1>1, <1>2, <1>4 DEF NextStart, Longer
<1>5. mailbox' # <<>> \/ (mailbox' = <<>> /\ outstanding' # {})
  BY DEF Sends
<1>6. QED
  BY <1>3, <1>4, <1>5

\* While the receiver is away no step brings the sender farther from giving up.
LEMMA AheadStays ==
    ASSUME TypeInv, Tally, Shape, running, timeout < Pulse, timeout' = timeout,
           receiver # "up", SenderStep
    PROVE  Ahead' <= Ahead
<1>1. /\ Turn \in Nat /\ MaxLag \in Nat /\ N \in Nat \ {0} /\ timeout \in 1 .. Pulse
      /\ Pulse \in Nat \ {0} /\ Turn' = Turn
  BY Turns DEF Turn
<1>2. /\ Lacking \in 0 .. N /\ NextStart \in 0 .. Turn /\ Ahead \in Nat
      /\ missed \in 0 .. N
      /\ Lacking = 0 /\ outstanding = {} => mailbox # <<>> /\ mailbox[1].type = "error"
  BY AheadBounds, MissedNow
<1>3. lag \in 0 .. MaxLag /\ (mailbox = <<>> => lag = 0) /\ (mailbox # <<>> => outstanding = {})
  BY DEF TypeInv, Types, Shape
<1>4. ASSUME Lacking' = Lacking, Lacking # 0, NextStart' \in Int, NextStart' <= NextStart
      PROVE  Ahead' <= Ahead
  <2> DEFINE later == (Lacking - 1) * Turn
  <2>1. later \in Nat
    BY <1>1, <1>2, <1>4, Turns
  <2>2. Ahead = NextStart + later + timeout + MaxLag
    BY <1>4 DEF Ahead
  <2>3. Ahead' = NextStart' + later + timeout + MaxLag
    BY <1>1, <1>4 DEF Ahead
  <2>4. NextStart \in Int /\ timeout \in Int /\ MaxLag \in Int
    BY <1>1, <1>2
  <2> HIDE DEF later
  <2>5. PICK before, after : before = NextStart /\ after = NextStart'
    OBVIOUS
  <2>6. after \in Int /\ before \in Int /\ after <= before
    BY <1>4, <2>4, <2>5
  <2>7. after + later + timeout + MaxLag <= before + later + timeout + MaxLag
    BY <2>1, <2>4, <2>6
  <2>8. QED
    BY <2>2, <2>3, <2>5, <2>7
<1>5. CASE Sends
  <2>1. /\ restart = Off /\ Len(mailbox) = 1 /\ outstanding = {}
        /\ Lacking' = Lacking - 1
    <3>1. restart = Off /\ Len(mailbox) = 1 /\ outstanding = {}
      BY <1>5 DEF Sends
    <3>2. \/ outstanding' # {} /\ missed' = missed
          \/ outstanding' = {} /\ missed' = missed + 1
      BY <1>5 DEF Sends
    <3>3. Lacking = N - missed
      BY <1>1, <1>2, <3>1 DEF Lacking
    <3>4. CASE outstanding' # {} /\ missed' = missed
      BY <1>1, <1>2, <3>1, <3>3, <3>4 DEF Lacking
    <3>5. CASE outstanding' = {} /\ missed' = missed + 1
      BY <1>1, <1>2, <3>1, <3>3, <3>5 DEF Lacking
    <3>6. QED
      BY <3>1, <3>2, <3>4, <3>5 DEF Lacking
  <2>2. mailbox[1].type = "start" /\ Lacking # 0
    BY <1>2, <2>1, ShapeFacts
  <2>3. NextStart = MaxLag - lag /\ NextStart' \in Int /\ NextStart' <= Turn
    BY <1>5, <2>1, NextStartTurn DEF NextStart
  <2>4. Ahead = MaxLag - lag + (Lacking - 1) * Turn + timeout + MaxLag
    BY <2>2, <2>3 DEF Ahead
  <2>5. CASE Lacking' = 0
    <3>1. Lacking = 1 /\ (Lacking - 1) * Turn = 0
      BY <1>1, <1>2, <2>1, <2>5
    <3>2. Ahead' \in Int /\ Ahead' <= timeout + MaxLag
      <4>1. restart' = Pulse /\ lag' = 0
        BY <1>5 DEF Sends
      <4>2. \/ outstanding' = {} /\ Ahead' = MaxLag - lag'
            \/ outstanding' # {} /\ Ahead' = restart' + timeout - Pulse + MaxLag
        BY <2>5 DEF Ahead
      <4>3. QED
        BY <1>1, <4>1, <4>2
    <3>3. QED
      BY <1>1, <1>3, <2>4, <3>1, <3>2
  <2>6. CASE Lacking' # 0
    <3>1. Ahead' = NextStart' + (Lacking' - 1) * Turn + timeout + MaxLag
      BY <1>1, <2>6 DEF Ahead
    <3> DEFINE later == (Lacking' - 1) * Turn
               earlier == (Lacking - 1) * Turn
    <3>2. earlier = later + Turn /\ later \in Nat
      <4>1. Lacking - 1 \in Nat \ {0} /\ Lacking' - 1 = (Lacking - 1) - 1
        BY <1>1, <1>2, <2>1, <2>2, <2>6
      <4>2. PICK k \in Nat \ {0} : k = Lacking - 1
        BY <4>1
      <4>3. k * Turn = (k - 1) * Turn + Turn /\ k - 1 \in Nat
        BY Turns
      <4>4. (k - 1) * Turn \in Nat
        BY <4>3, Turns
      <4>5. earlier = k * Turn /\ later = (k - 1) * Turn
        BY <4>1, <4>2
      <4>6. QED
        BY <4>3, <4>4, <4>5
    <3>3. Ahead' = NextStart' + later + timeout + MaxLag
      BY <3>1
    <3>4. Ahead = MaxLag - lag + earlier + timeout + MaxLag
      BY <2>4
    <3>5. lag \in Nat /\ timeout \in Int /\ MaxLag \in Int /\ lag <= MaxLag /\ Turn \in Nat
      BY <1>1, <1>3
    <3>6. NextStart' \in Int /\ NextStart' <= Turn
      BY <2>3
    <3> HIDE DEF later, earlier
    <3>7. PICK after : after = NextStart'
      OBVIOUS
    <3>8. after \in Int /\ after <= Turn
      BY <3>6, <3>7
    <3>9. after + later + timeout + MaxLag <= MaxLag - lag + earlier + timeout + MaxLag
      BY <3>2, <3>5, <3>8
    <3>10. QED
      BY <3>3, <3>4, <3>7, <3>9
  <2>7. QED
    BY <2>5, <2>6
<1>6. CASE Hears
  <2>1. outstanding' = outstanding /\ missed' = missed /\ missed < N /\ mailbox # <<>>
    BY <1>6, ShapeFacts DEF Hears
  <2>2. Lacking' = Lacking /\ Lacking # 0
    BY <1>1, <1>2, <1>3, <2>1 DEF Lacking
  <2>3. QED
    BY <1>4, <1>6, <2>2, NextStartStays
<1>7. CASE Wakes
  <2>1. outstanding' = {} /\ outstanding = {} /\ Lacking' = Lacking /\ lag' = lag
    BY <1>7 DEF Wakes, Lacking
  <2>2. CASE Lacking = 0
    BY <1>1, <1>2, <1>3, <2>1, <2>2 DEF Ahead
  <2>3. QED
    BY <1>4, <1>7, <2>1, <2>2, NextStartStays
<1>8. CASE IsAnswered("error") /\ missed' = missed + 1
  <2>1. /\ outstanding # {} /\ outstanding' = {} /\ Lacking' = Lacking /\ lag' = 0
    BY <1>1, <1>2, <1>3, <1>8 DEF IsAnswered, Lacking
  <2>2. CASE Lacking = 0
    <3>1. PICK r \in outstanding : TRUE
      BY <2>1
    <3>2. r.left \in Nat /\ r.left + Pulse = restart + timeout /\ restart \in 0 .. Pulse
      BY <2>1, <3>1, ShapeFacts DEF TypeInv, Types, Shape
    <3>3. Ahead = restart + timeout - Pulse + MaxLag /\ Ahead' = MaxLag
      BY <1>1, <2>1, <2>2 DEF Ahead
    <3>4. QED
      BY <1>1, <3>2, <3>3
  <2>3. QED
    BY <1>4, <1>8, <2>1, <2>2, NextStartStays
<1>9. CASE Rests
  <2>1. Ahead' = Ahead
    BY <1>1, <1>9 DEF Rests, Ahead, NextStart, Lacking
  <2>2. QED
    BY <1>2, <2>1
<1>10. QED
  BY <1>5, <1>6, <1>7, <1>8, <1>9 DEF SenderStep

LEMMA AheadTick ==
    ASSUME TypeInv, Tally, Shape, running, timeout < Pulse, Tick
    PROVE  Ahead' <= Ahead - 1
<1>1. /\ Turn \in Nat /\ MaxLag \in Nat /\ N \in Nat \ {0} /\ timeout \in 1 .. Pulse
      /\ Pulse \in Nat \ {0} /\ Turn' = Turn
  BY Turns, SenderTicks DEF Turn
<1>2. /\ Lacking \in 0 .. N /\ NextStart \in 0 .. Turn
      /\ Lacking = 0 /\ outstanding = {} => mailbox # <<>>
  BY AheadBounds
<1>3. /\ UNCHANGED <<mailbox, missed, receiver, running, timeout, punctual>>
      /\ restart = Off => restart' = Off
      /\ restart # Off => restart > 0 /\ restart' = restart - 1
      /\ mailbox # <<>> => lag < MaxLag /\ lag' = lag + 1
      /\ outstanding = {} <=> outstanding' = {}
  BY SenderTicks
<1>4. Lacking' = Lacking
  BY <1>3 DEF Lacking
<1>5. lag \in 0 .. MaxLag /\ (outstanding # {} => restart \in 0 .. Pulse /\ restart # Off)
  BY ShapeFacts DEF TypeInv, Types
<1>6. CASE Lacking = 0 /\ outstanding # {}
  BY <1>1, <1>3, <1>4, <1>5, <1>6 DEF Ahead
<1>7. CASE Lacking = 0 /\ outstanding = {}
  BY <1>1, <1>2, <1>3, <1>4, <1>5, <1>7 DEF Ahead
<1>8. CASE Lacking # 0
  <2> DEFINE later == (Lacking - 1) * Turn
  <2>1. later \in Nat
    BY <1>1, <1>2, <1>8, Turns
  <2>2. Ahead = NextStart + later + timeout + MaxLag
    BY <1>8 DEF Ahead
  <2>3. Ahead' = NextStart' + later + timeout + MaxLag
    BY <1>1, <1>3, <1>4, <1>8 DEF Ahead
  <2>4. NextStart' <= NextStart - 1 /\ NextStart' \in Int
    BY NextStartTick
  <2>5. NextStart \in Int /\ timeout \in Int /\ MaxLag \in Int
    BY <1>1, <1>2
  <2> HIDE DEF later
  <2>6. PICK before, after : before = NextStart /\ after = NextStart'
    OBVIOUS
  <2>7. after \in Int /\ before \in Int /\ after <= before - 1
    BY <2>4, <2>5, <2>6
  <2>8. after + later + timeout + MaxLag <= (before + later + timeout + MaxLag) - 1
    BY <2>1, <2>5, <2>7
  <2>9. QED
    BY <2>2, <2>3, <2>6, <2>8
<1>9. QED
  BY <1>6, <1>7, <1>8

AheadBounded ==
    running /\ timeout < Pulse =>
       Ahead \in Nat /\ DetectionBound \in Nat /\ Ahead <= DetectionBound

Detect ==
    /\ receiver = "up" => gone = 0
    /\ running /\ timeout < Pulse /\ receiver # "up" => gone + Ahead <= DetectionBound

LEMMA AheadIsBounded == TypeInv /\ Tally /\ Shape => AheadBounded
<1> SUFFICES ASSUME TypeInv, Tally, Shape, running, timeout < Pulse
             PROVE  Ahead \in Nat /\ DetectionBound \in Nat /\ Ahead <= DetectionBound
  BY DEF AheadBounded
<1>1. N * Turn \in Nat /\ timeout \in Nat /\ MaxLag \in Nat
  BY Turns
<1>2. DetectionBound \in Nat
  BY <1>1 DEF DetectionBound
<1>3. QED
  BY <1>2, AheadBounds

LEMMA DetectStep ==
    ASSUME TypeInv, Tally, Shape, AheadBounded, AheadBounded', Detect, [Next]_vars
    PROVE  Detect'
<1>1. /\ receiver' = "up" => receiver = "up"
      /\ receiver = "up" => gone' = gone
  BY DEF Next, StartHandler, ReplyHandler, ErrorHandler, RestartFires, RequestTimesOut,
     ReceiverTimesOut, ReceiverDies, GoesDown, HeartbeatHandler, ReceiverIsCutOff, Tick,
     Count, vars, senderVars, setting, history
<1>2. ASSUME running', timeout' < Pulse, receiver' # "up"
      PROVE  gone' + Ahead' <= DetectionBound'
  <2>1. running /\ timeout' = timeout
    BY <1>2 DEF Next, StartHandler, ReplyHandler, ErrorHandler, RestartFires, RequestTimesOut,
       ReceiverTimesOut, ReceiverDies, GoesDown, HeartbeatHandler, ReceiverIsCutOff, Tick,
       vars, senderVars, setting
  <2>2. /\ Ahead' \in Nat /\ DetectionBound' \in Nat /\ Ahead' <= DetectionBound'
        /\ Ahead \in Nat
        /\ DetectionBound' = DetectionBound
    BY <1>2, <2>1 DEF AheadBounded, DetectionBound, Turn
  <2>3. gone \in Nat
    BY HeartbeatAssumption, Bounds DEF TypeInv, Types
  <2>4. PICK ahead \in Nat, next \in Nat, bound \in Nat :
           ahead = Ahead /\ next = Ahead' /\ bound = DetectionBound
    BY <2>2
  <2>5. next <= bound
    BY <2>2, <2>4
  <2>6. next \in Nat /\ ahead \in Nat /\ bound \in Nat
    BY <2>4
  <2>7. CASE receiver = "up"
    <3>1. gone' = 0
      BY <1>1, <2>7 DEF Detect
    <3>2. gone' + next <= bound
      BY <2>5, <2>6, <3>1
    <3>3. QED
      BY <2>2, <2>4, <3>2
  <2>8. CASE receiver # "up"
    <3>1. gone + ahead <= bound
      BY <1>2, <2>1, <2>4, <2>8 DEF Detect
    <3>2. CASE Tick
      <4>1. next <= ahead - 1
        BY <1>2, <2>1, <2>4, <3>2, AheadTick
      <4>2. gone' \in Nat /\ gone' <= gone + 1
        BY <2>3, <3>2 DEF Tick, Count
      <4>3. ASSUME NEW g \in Nat, NEW h \in Nat, g <= h + 1, h + ahead <= bound
            PROVE  g + next <= bound
        BY <2>6, <4>1, <4>3
      <4>4. gone' + next <= bound
        BY <2>3, <3>1, <4>2, <4>3
      <4>5. QED
        BY <2>2, <2>4, <4>4
    <3>3. CASE SenderStep /\ gone' = gone
      <4>1. next <= ahead
        BY <1>2, <2>1, <2>4, <2>8, <3>3, AheadStays
      <4>2. gone' + next <= bound
        BY <2>3, <2>6, <3>1, <3>3, <4>1
      <4>3. QED
        BY <2>2, <2>4, <4>2
    <3>4. QED
      BY <1>2, <2>1, <3>2, <3>3, SenderSteps
  <2>9. QED
    BY <2>7, <2>8
<1>3. QED
  BY <1>1, <1>2 DEF Detect

LEMMA ShapeHolds == Spec => []Shape
<1>1. TypeInv /\ Tally /\ Shape /\ [Next]_vars => Shape'
  BY ShapeStep
<1>2. QED
  BY <1>1, ShapeInit, TypeInvHolds, TallyHolds, PTL DEF Spec

\* A receiver that died or was cut off is given up in time, for any N, pulse and
\* lag, if the timeout is less than the pulse.
THEOREM DetectedInTimeHolds == Spec => [](timeout < Pulse => DetectedInTime)
<1>1. Init => Detect
  BY DEF Init, Detect
<1>2. TypeInv /\ Tally /\ Shape /\ AheadBounded /\ AheadBounded' /\ Detect /\ [Next]_vars
         => Detect'
  BY DetectStep
<1>3. TypeInv /\ AheadBounded /\ Detect => (timeout < Pulse => DetectedInTime)
  <2> SUFFICES ASSUME TypeInv, AheadBounded, Detect, timeout < Pulse, running
               PROVE  gone <= DetectionBound
    BY DEF DetectedInTime
  <2>1. gone \in Nat
    BY HeartbeatAssumption, Bounds DEF TypeInv, Types
  <2>2. Ahead \in Nat /\ DetectionBound \in Nat
    BY DEF AheadBounded
  <2>3. gone = 0 \/ gone + Ahead <= DetectionBound
    BY DEF Detect
  <2>4. QED
    BY <2>1, <2>2, <2>3
<1>4. QED
  BY <1>1, <1>2, <1>3, AheadIsBounded, ShapeHolds, TypeInvHolds, TallyHolds, PTL DEF Spec

-----------------------------------------------------------------------------
(***************************************************************************)
(* GivenUpEnds                                                             *)
(*                                                                         *)
(* What is under way when the sender gives up was sent with or before the  *)
(* request that was missed last, so it is at least a timeout old, and the  *)
(* timer of the receiver runs for a timeout already or will when the       *)
(* heartbeat arrives.                                                      *)
(***************************************************************************)
OldEnough(beats, age) == \A i \in DOMAIN beats : beats[i].age >= age

OneTimeout == IF timeout < Pulse THEN timeout ELSE 0

Timing ==
    /\ running => sinceQuit = 0
    /\ ~ IsDown => idle # Off

\* What is under way was sent with the latest start_atom or before.
Ages == running => OldEnough(underWay, IF restart = Off THEN Pulse ELSE Pulse - restart)

\* A request that is due soon was sent long ago, and so was what is under way.
Expecting ==
    running /\ timeout < Pulse =>
       \A r \in outstanding :
          /\ punctual => \A i \in DOMAIN underWay : underWay[i].index = r.index
          /\ ~ IsDown => idle + timeout <= ReceiverTimeout + MaxDelay + r.left

HasError(box) == \E i \in DOMAIN box : box[i].type = "error"

Reported ==
    running /\ timeout < Pulse /\ ~ IsDown /\ HasError(mailbox) =>
       /\ OldEnough(underWay, timeout)
       /\ idle + timeout <= ReceiverTimeout + MaxDelay

Quits ==
    ~ running /\ ~ IsDown =>
       /\ OldEnough(underWay, sinceQuit + OneTimeout)
       /\ idle + sinceQuit + OneTimeout <= ReceiverTimeout + MaxDelay

\* What never changes, or never back.
LEMMA OneWay ==
    ASSUME [Next]_vars
    PROVE  /\ timeout' = timeout /\ punctual' = punctual
           /\ running' => running
           /\ ~ IsDown' => ~ IsDown
           /\ receiver' = "up" => receiver = "up"
<1>1. timeout' = timeout /\ punctual' = punctual
  BY DEF Next, StartHandler, ReplyHandler, ErrorHandler, RestartFires, RequestTimesOut,
     ReceiverTimesOut, ReceiverDies, GoesDown, HeartbeatHandler, ReceiverIsCutOff, Tick,
     vars, setting
<1>2. running' => running
  BY DEF Next, StartHandler, ReplyHandler, ErrorHandler, RestartFires, RequestTimesOut,
     ReceiverTimesOut, ReceiverDies, GoesDown, HeartbeatHandler, ReceiverIsCutOff, Tick,
     vars, senderVars, Receives
<1>3. receiver' = receiver \/ receiver' \in {"ended", "dead"} \/ (receiver = "up" /\ receiver' = "cut")
  BY DEF Next, StartHandler, ReplyHandler, ErrorHandler, RestartFires, RequestTimesOut,
     ReceiverTimesOut, ReceiverDies, HeartbeatHandler, ReceiverIsCutOff, Tick, vars
<1>4. QED
  BY <1>1, <1>2, <1>3 DEF IsDown

\* Heartbeats under way: their types, and what the steps do to them.
LEMMA UnderWayTypes ==
    ASSUME TypeInv
    PROVE  /\ underWay \in Seq([index : Index, age : 0 .. Delay])
           /\ Len(underWay) \in Nat /\ DOMAIN underWay = 1 .. Len(underWay)
           /\ \A i \in DOMAIN underWay : underWay[i].age \in 0 .. Delay
           /\ Delay \in Nat /\ (punctual => Delay = timeout - 1)
           /\ ~ punctual => Delay = MaxDelay
           /\ timeout \in 1 .. Pulse /\ Pulse \in Nat \ {0}
           /\ MaxDelay \in Nat /\ ReceiverTimeout \in Nat \ {0} /\ Off \notin Nat
           /\ idle # Off => idle \in 0 .. ReceiverTimeout
           /\ sinceQuit \in Nat
<1> DEFINE Heartbeats == [index : Index, age : 0 .. Delay]
<1>1. /\ Delay \in Nat /\ timeout \in 1 .. Pulse /\ Pulse \in Nat \ {0}
      /\ MaxDelay \in Nat /\ ReceiverTimeout \in Nat \ {0} /\ Off \notin Nat /\ Far \in Nat
  BY HeartbeatAssumption, Bounds DEF TypeInv, Types
<1>2. underWay \in Seq(Heartbeats)
  BY DEF TypeInv, Types
<1>3. \A beat \in Heartbeats : beat.age \in 0 .. Delay
  OBVIOUS
<1>4. (idle # Off => idle \in 0 .. ReceiverTimeout) /\ sinceQuit \in Nat
  BY <1>1 DEF TypeInv, Types, Timer
<1>5. (punctual => Delay = timeout - 1) /\ (~ punctual => Delay = MaxDelay)
  BY DEF Delay
<1> HIDE DEF Heartbeats
<1>6. /\ Len(underWay) \in Nat /\ DOMAIN underWay = 1 .. Len(underWay)
      /\ \A i \in DOMAIN underWay : underWay[i] \in Heartbeats
  BY <1>2
<1>7. QED
  BY <1>1, <1>2, <1>3, <1>4, <1>5, <1>6 DEF Heartbeats

LEMMA UnderWayTail ==
    ASSUME TypeInv, HeartbeatHandler
    PROVE  /\ 1 \in DOMAIN underWay /\ Head(underWay) = underWay[1]
           /\ \A i \in DOMAIN underWay' : \E j \in DOMAIN underWay : underWay'[i] = underWay[j]
<1>1. underWay # <<>> /\ underWay' = Tail(underWay)
  BY DEF HeartbeatHandler
<1> DEFINE Heartbeats == [index : Index, age : 0 .. Delay]
<1>2. underWay \in Seq(Heartbeats)
  BY UnderWayTypes
<1> HIDE DEF Heartbeats
<1>3. /\ 1 \in DOMAIN underWay /\ Head(underWay) = underWay[1]
      /\ DOMAIN Tail(underWay) = 1 .. Len(underWay) - 1
      /\ \A i \in 1 .. Len(underWay) - 1 : Tail(underWay)[i] = underWay[i + 1]
      /\ Len(underWay) \in Nat /\ DOMAIN underWay = 1 .. Len(underWay)
  BY <1>1, <1>2
<1>4. ASSUME NEW i \in DOMAIN underWay'
      PROVE  \E j \in DOMAIN underWay : underWay'[i] = underWay[j]
  <2>1. i + 1 \in DOMAIN underWay /\ underWay'[i] = underWay[i + 1]
    BY <1>1, <1>3
  <2>2. QED
    BY <2>1
<1>5. QED
  BY <1>3, <1>4

\* All steps but a start_atom and the clock only take heartbeats away.
LEMMA UnderWayStays ==
    ASSUME TypeInv, [Next]_vars, ~ StartHandler, ~ Tick
    PROVE  \A i \in DOMAIN underWay' : \E j \in DOMAIN underWay : underWay'[i] = underWay[j]
<1>1. CASE HeartbeatHandler
  BY <1>1, UnderWayTail
<1>2. CASE ~ HeartbeatHandler
  <2>1. underWay' = underWay \/ underWay' = <<>>
    BY <1>2 DEF Next, ReplyHandler, ErrorHandler, RestartFires, RequestTimesOut,
       ReceiverTimesOut, ReceiverDies, GoesDown, ReceiverIsCutOff, vars
  <2>2. QED
    BY <2>1
<1>3. QED
  BY <1>1, <1>2

LEMMA UnderWaySent ==
    ASSUME TypeInv, StartHandler, NEW i \in DOMAIN underWay'
    PROVE  \/ i \in DOMAIN underWay /\ underWay'[i] = underWay[i]
           \/ underWay'[i].age = 0 /\ underWay'[i].index = currentMessageIndex'
<1> DEFINE beat == [index |-> (currentMessageIndex + 1) % IndexRange, age |-> 0]
           Heartbeats == [index : Index, age : 0 .. Delay]
<1>1. underWay' = underWay \/ underWay' = Append(underWay, beat)
  BY DEF StartHandler
<1>2. beat.age = 0 /\ beat.index = currentMessageIndex'
  BY DEF StartHandler
<1>3. underWay \in Seq(Heartbeats)
  BY UnderWayTypes
<1> HIDE DEF beat, Heartbeats
<1>4. /\ DOMAIN Append(underWay, beat) = 1 .. Len(underWay) + 1
      /\ Append(underWay, beat)[Len(underWay) + 1] = beat
      /\ \A k \in 1 .. Len(underWay) : Append(underWay, beat)[k] = underWay[k]
      /\ Len(underWay) \in Nat /\ DOMAIN underWay = 1 .. Len(underWay)
  BY <1>3
<1>5. QED
  BY <1>1, <1>2, <1>4

LEMMA UnderWayTick ==
    ASSUME TypeInv, Tick
    PROVE  /\ DOMAIN underWay' = DOMAIN underWay
           /\ \A i \in DOMAIN underWay : /\ underWay'[i].age = underWay[i].age + 1
                                         /\ underWay'[i].index = underWay[i].index
<1>1. underWay' = [i \in DOMAIN underWay |-> [underWay[i] EXCEPT !.age = @ + 1]]
  BY DEF Tick
<1> DEFINE Heartbeats == [index : Index, age : 0 .. Delay]
<1>2. ASSUME NEW i \in DOMAIN underWay
      PROVE  underWay[i] \in Heartbeats
  <2>1. underWay \in Seq(Heartbeats)
    BY UnderWayTypes
  <2> HIDE DEF Heartbeats
  <2>2. QED
    BY <2>1
<1>3. ASSUME NEW beat \in Heartbeats
      PROVE  /\ [beat EXCEPT !.age = @ + 1].age = beat.age + 1
             /\ [beat EXCEPT !.age = @ + 1].index = beat.index
  OBVIOUS
<1> HIDE DEF Heartbeats
<1>4. QED
  BY <1>1, <1>2, <1>3

LEMMA TimingStep == ASSUME TypeInv, Timing, [Next]_vars PROVE Timing'
<1>1. /\ Off \notin Nat /\ ReceiverTimeout \in Nat \ {0}
      /\ idle # Off => idle \in 0 .. ReceiverTimeout
  BY UnderWayTypes
<1>2. ASSUME ~ IsDown'
      PROVE  idle' # Off
  <2>1. ~ IsDown /\ idle # Off
    BY <1>2, OneWay DEF Timing
  <2>2. CASE Tick
    BY <1>1, <2>1, <2>2 DEF Tick, Down
  <2>3. CASE HeartbeatHandler
    BY <1>1, <2>3 DEF HeartbeatHandler, TimerAfterHeartbeat
  <2>4. CASE ~ Tick /\ ~ HeartbeatHandler
    <3>1. idle' = idle
      BY <1>2, <2>4 DEF Next, StartHandler, ReplyHandler, ErrorHandler, RestartFires,
         RequestTimesOut, ReceiverTimesOut, ReceiverDies, ReceiverIsCutOff, IsDown, vars
    <3>2. QED
      BY <2>1, <3>1
  <2>5. QED
    BY <2>2, <2>3, <2>4
<1>3. ASSUME running'
      PROVE  sinceQuit' = 0
  <2>1. running /\ sinceQuit = 0
    BY <1>3, OneWay DEF Timing
  <2>2. sinceQuit' = sinceQuit
    BY <2>1 DEF Next, StartHandler, ReplyHandler, ErrorHandler, RestartFires, RequestTimesOut,
       ReceiverTimesOut, ReceiverDies, GoesDown, HeartbeatHandler, ReceiverIsCutOff, Tick,
       Count, vars, history
  <2>3. QED
    BY <2>1, <2>2
<1>4. QED
  BY <1>2, <1>3 DEF Timing

LEMMA TimingHolds == Spec => []Timing
<1>1. Init => Timing
  BY HeartbeatAssumption DEF Init, Timing
<1>2. TypeInv /\ Timing /\ [Next]_vars => Timing'
  BY TimingStep
<1>3. QED
  BY <1>1, <1>2, TypeInvHolds, PTL DEF Spec

LEMMA AgesStep == ASSUME TypeInv, Ages, [Next]_vars PROVE Ages'
<1> SUFFICES ASSUME running', NEW i \in DOMAIN underWay'
             PROVE  underWay'[i].age >= IF restart' = Off THEN Pulse ELSE Pulse - restart'
  BY DEF Ages, OldEnough
<1>1. running
  BY OneWay
<1>2. /\ Pulse \in Nat \ {0} /\ Off \notin Nat
      /\ \A j \in DOMAIN underWay : underWay[j].age \in Nat
  BY UnderWayTypes
<1>3. restart # Off => restart \in 0 .. Pulse
  BY DEF TypeInv, Types, Timer
<1>4. \A j \in DOMAIN underWay :
         underWay[j].age >= IF restart = Off THEN Pulse ELSE Pulse - restart
  BY <1>1 DEF Ages, OldEnough
<1>5. CASE StartHandler
  <2>1. restart' = Pulse /\ underWay'[i].age \in Nat
    BY <1>2, <1>5, UnderWaySent DEF StartHandler
  <2>2. QED
    BY <1>2, <2>1
<1>6. CASE Tick
  <2>1. i \in DOMAIN underWay /\ underWay'[i].age = underWay[i].age + 1
    BY <1>6, UnderWayTick
  <2>2. CASE restart = Off
    <3>1. restart' = Off /\ underWay[i].age >= Pulse
      BY <1>4, <1>6, <2>1, <2>2, SenderTicks
    <3>2. QED
      BY <1>2, <2>1, <3>1
  <2>3. CASE restart # Off
    <3>1. restart' = restart - 1 /\ restart > 0 /\ underWay[i].age >= Pulse - restart
      BY <1>4, <1>6, <2>1, <2>3, SenderTicks
    <3>2. QED
      BY <1>2, <1>3, <2>1, <2>3, <3>1
  <2>4. QED
    BY <2>2, <2>3
<1>7. CASE ~ StartHandler /\ ~ Tick
  <2>1. PICK j \in DOMAIN underWay : underWay'[i] = underWay[j]
    BY <1>7, UnderWayStays
  <2>2. restart' = restart \/ (restart = 0 /\ restart' = Off)
    BY <1>7 DEF Next, ReplyHandler, ErrorHandler, RestartFires, RequestTimesOut,
       ReceiverTimesOut, ReceiverDies, GoesDown, HeartbeatHandler, ReceiverIsCutOff,
       vars, senderVars
  <2>3. CASE restart' = restart
    BY <1>4, <2>1, <2>3
  <2>4. CASE restart = 0 /\ restart' = Off
    <3>1. underWay[j].age >= Pulse - 0
      BY <1>2, <1>4, <2>1, <2>4
    <3>2. QED
      BY <1>2, <2>1, <2>4, <3>1
  <2>5. QED
    BY <2>2, <2>3, <2>4
<1>8. QED
  BY <1>5, <1>6, <1>7

\* What is under way and what its timer has left come to a timeout at least.
LEMMA AgeAndLeft ==
    ASSUME TypeInv, Shape, Ages, running, timeout < Pulse,
           NEW r \in outstanding, NEW i \in DOMAIN underWay
    PROVE  r.left \in Nat /\ underWay[i].age + r.left >= timeout
<1>1. /\ underWay[i].age \in Nat /\ Pulse \in Nat /\ timeout \in Nat
  BY UnderWayTypes
<1>2. restart # Off /\ restart \in Nat /\ r.left + Pulse = restart + timeout
  BY ShapeFacts DEF Shape
<1>3. underWay[i].age >= Pulse - restart
  BY <1>2 DEF Ages, OldEnough
<1>4. r.left \in Nat
  BY <1>1 DEF TypeInv, Types
<1>5. QED
  BY <1>1, <1>2, <1>3, <1>4

LEMMA ExpectingStep ==
    ASSUME TypeInv, Shape, Ages, Timing, Expecting, [Next]_vars
    PROVE  Expecting'
<1> SUFFICES ASSUME running', timeout' < Pulse, NEW r \in outstanding'
             PROVE  /\ punctual' => \A i \in DOMAIN underWay' : underWay'[i].index = r.index
                    /\ ~ IsDown' => idle' + timeout' <= ReceiverTimeout + MaxDelay + r.left
  BY DEF Expecting
<1>1. /\ running /\ timeout < Pulse /\ timeout' = timeout /\ punctual' = punctual
      /\ ~ IsDown' => ~ IsDown /\ idle # Off
  BY OneWay DEF Timing
<1>2. /\ \A i \in DOMAIN underWay : underWay[i].age \in 0 .. Delay
      /\ Delay \in Nat /\ (punctual => Delay = timeout - 1)
      /\ ~ punctual => Delay = MaxDelay
      /\ timeout \in 1 .. Pulse /\ Pulse \in Nat \ {0}
      /\ MaxDelay \in Nat /\ ReceiverTimeout \in Nat \ {0} /\ Off \notin Nat
      /\ idle # Off => idle \in 0 .. ReceiverTimeout
  BY UnderWayTypes
<1>3. ASSUME NEW q \in outstanding
      PROVE  /\ q.left \in Nat
             /\ punctual => \A i \in DOMAIN underWay : underWay[i].index = q.index
             /\ ~ IsDown => idle + timeout <= ReceiverTimeout + MaxDelay + q.left
  BY <1>1, <1>2 DEF Expecting, TypeInv, Types
<1>4. CASE StartHandler
  <2>1. Sends
    BY <1>1, <1>4, SenderStarts
  <2>2. ~ IsDown /\ restart = Off /\ r.left = timeout
    BY <2>1 DEF Sends
  <2>3. outstanding' = {[index |-> currentMessageIndex', left |-> RequestTimer]}
    BY <1>4, <2>1, <2>2 DEF StartHandler, Sends
  <2>4. r.index = currentMessageIndex'
    BY <2>3
  <2>5. ASSUME punctual, NEW i \in DOMAIN underWay'
        PROVE  underWay'[i].index = r.index
    <3>1. \A j \in DOMAIN underWay : underWay[j].age >= Pulse /\ underWay[j].age \in 0 .. Delay
      BY <1>1, <1>2, <2>2 DEF Ages, OldEnough
    <3>2. ASSUME NEW j \in DOMAIN underWay
          PROVE  FALSE
      <4>1. underWay[j].age >= Pulse /\ underWay[j].age \in 0 .. timeout - 1
        BY <1>2, <2>5, <3>1
      <4>2. QED
        BY <1>2, <4>1
    <3>3. QED
      BY <1>4, <2>4, <3>2, UnderWaySent
  <2>6. idle' = idle
    BY <1>4 DEF StartHandler
  <2>7. ASSUME ~ IsDown'
        PROVE  idle' + timeout <= ReceiverTimeout + MaxDelay + r.left
    BY <1>1, <1>2, <2>2, <2>6, <2>7
  <2>8. QED
    BY <1>1, <2>5, <2>7
<1>5. CASE Tick
  <2>1. PICK q \in outstanding : r.left = q.left - 1 /\ r.index = q.index
    BY <1>5, SenderTicks
  <2>2. punctual => \A i \in DOMAIN underWay' : underWay'[i].index = r.index
    BY <1>3, <1>5, <2>1, UnderWayTick
  <2>3. ASSUME ~ IsDown'
        PROVE  idle' + timeout <= ReceiverTimeout + MaxDelay + r.left
    <3>1. idle' = idle - 1 /\ idle + timeout <= ReceiverTimeout + MaxDelay + q.left
      BY <1>1, <1>3, <1>5, <2>1, <2>3 DEF Tick, Down
    <3>2. q.left \in Nat /\ idle \in Nat
      BY <1>1, <1>2, <1>3, <2>1, <2>3
    <3>3. QED
      BY <1>2, <2>1, <3>1, <3>2
  <2>4. QED
    BY <1>1, <2>2, <2>3
<1>6. CASE HeartbeatHandler
  <2>1. /\ 1 \in DOMAIN underWay /\ Head(underWay) = underWay[1]
        /\ r \in outstanding /\ r.index # underWay[1].index
    BY <1>6, UnderWayTail DEF HeartbeatHandler, Answers
  <2>2. ~ punctual
    BY <1>3, <2>1
  <2>3. underWay[1].age \in 0 .. MaxDelay
    BY <1>2, <2>1, <2>2
  <2>4. r.left \in Nat /\ underWay[1].age + r.left >= timeout
    BY <1>1, <2>1, AgeAndLeft
  <2>5. idle' = ReceiverTimeout
    BY <1>6 DEF HeartbeatHandler, TimerAfterHeartbeat
  <2>6. idle' + timeout <= ReceiverTimeout + MaxDelay + r.left
    BY <1>2, <2>3, <2>4, <2>5
  <2>7. QED
    BY <1>1, <2>2, <2>6
<1>7. CASE ~ StartHandler /\ ~ Tick /\ ~ HeartbeatHandler
  <2>1. r \in outstanding /\ (~ IsDown' => idle' = idle)
    BY <1>7 DEF Next, ReplyHandler, ErrorHandler, RestartFires, RequestTimesOut,
       ReceiverTimesOut, ReceiverDies, GoesDown, ReceiverIsCutOff, IsDown, vars
  <2>2. \A i \in DOMAIN underWay' : \E j \in DOMAIN underWay : underWay'[i] = underWay[j]
    BY <1>7, UnderWayStays
  <2>3. punctual => \A i \in DOMAIN underWay' : underWay'[i].index = r.index
    BY <1>3, <2>1, <2>2
  <2>4. QED
    BY <1>1, <1>3, <2>1, <2>3
<1>8. QED
  BY <1>4, <1>5, <1>6, <1>7

LEMMA ReportedStep ==
    ASSUME TypeInv, Tally, Shape, Ages, Timing, Expecting, Reported, [Next]_vars
    PROVE  Reported'
<1> SUFFICES ASSUME running', timeout' < Pulse, ~ IsDown', HasError(mailbox)'
             PROVE  /\ \A i \in DOMAIN underWay' : underWay'[i].age >= timeout
                    /\ idle' + timeout <= ReceiverTimeout + MaxDelay
  BY OneWay DEF Reported, OldEnough
<1>1. /\ running /\ timeout < Pulse /\ timeout' = timeout /\ punctual' = punctual
      /\ ~ IsDown /\ idle # Off
  BY OneWay DEF Timing
<1>2. /\ \A i \in DOMAIN underWay : underWay[i].age \in 0 .. Delay
      /\ Delay \in Nat /\ (punctual => Delay = timeout - 1)
      /\ ~ punctual => Delay = MaxDelay
      /\ timeout \in 1 .. Pulse /\ Pulse \in Nat \ {0}
      /\ MaxDelay \in Nat /\ ReceiverTimeout \in Nat \ {0} /\ Off \notin Nat
      /\ idle \in 0 .. ReceiverTimeout
  BY <1>1, UnderWayTypes
<1>3. HasError(mailbox) =>
         /\ \A i \in DOMAIN underWay : underWay[i].age >= timeout
         /\ idle + timeout <= ReceiverTimeout + MaxDelay
  BY <1>1 DEF Reported, OldEnough
<1>4. CASE StartHandler
  <2>1. mailbox' = <<>>
    BY <1>1, <1>4, SenderStarts DEF Sends
  <2>2. QED
    BY <2>1 DEF HasError
<1>5. CASE ReplyHandler \/ ErrorHandler
  <2>1. Hears
    BY <1>1, <1>5, SenderHears
  <2>2. PICK i \in DOMAIN mailbox' : mailbox'[i].type = "error"
    BY DEF HasError
  <2>3. i + 1 \in DOMAIN mailbox /\ mailbox[i + 1].type = "error"
    <3>1. Len(mailbox') = Len(mailbox) - 1 /\ mailbox'[i] = mailbox[i + 1]
      BY <2>1, <2>2 DEF Hears
    <3>2. Len(mailbox) \in {0, 1, 2} /\ DOMAIN mailbox = 1 .. Len(mailbox)
      BY <1>1, ShapeFacts
    <3>3. mailbox' = Tail(mailbox) /\ mailbox \in Seq(Messages) /\ mailbox # <<>>
      BY <1>1, <1>5, ShapeFacts DEF ReplyHandler, ErrorHandler, Receives
    <3>4. DOMAIN mailbox' = 1 .. Len(mailbox) - 1
      BY <3>3
    <3>5. QED
      BY <2>2, <3>1, <3>2, <3>4
  <2>4. HasError(mailbox) /\ underWay' = underWay /\ idle' = idle
    BY <1>5, <2>3 DEF HasError, ReplyHandler, ErrorHandler
  <2>5. QED
    BY <1>3, <2>4
<1>6. CASE RestartFires
  <2>1. PICK i \in DOMAIN mailbox' : mailbox'[i].type = "error"
    BY DEF HasError
  <2>2. /\ mailbox' = Append(mailbox, [type |-> "start"])
        /\ mailbox \in Seq(Messages)
    BY <1>1, <1>6, ShapeFacts DEF RestartFires
  <2>3. i \in DOMAIN mailbox /\ mailbox[i].type = "error"
    BY <2>1, <2>2
  <2>4. HasError(mailbox) /\ underWay' = underWay /\ idle' = idle
    BY <1>6, <2>3 DEF HasError, RestartFires
  <2>5. QED
    BY <1>3, <2>4
<1>7. ASSUME NEW request \in outstanding, RequestTimesOut(request)
      PROVE  /\ \A i \in DOMAIN underWay' : underWay'[i].age >= timeout
             /\ idle' + timeout <= ReceiverTimeout + MaxDelay
  <2>1. request.left = 0 /\ underWay' = underWay /\ idle' = idle
    BY <1>7 DEF RequestTimesOut
  <2>2. \A i \in DOMAIN underWay : underWay[i].age >= timeout
    <3>1. \A i \in DOMAIN underWay : underWay[i].age + 0 >= timeout
      BY <1>1, <2>1, AgeAndLeft
    <3>2. QED
      BY <1>2, <3>1
  <2>3. idle + timeout <= ReceiverTimeout + MaxDelay + 0
    BY <1>1, <2>1 DEF Expecting
  <2>4. QED
    BY <1>2, <2>1, <2>2, <2>3
<1>8. CASE HeartbeatHandler
  <2>1. IsAnswered("reply") \/ Rests
    BY <1>1, <1>8, SenderIsAnswered
  <2>2. ~ IsAnswered("reply")
    <3>1. ASSUME IsAnswered("reply")
          PROVE  FALSE
      <4>1. Len(mailbox') = 1 /\ mailbox'[1].type = "reply"
        BY <3>1 DEF IsAnswered
      <4>2. mailbox' \in Seq(Messages)
        BY TypeInvNext DEF TypeInv, Types
      <4>3. DOMAIN mailbox' = {1}
        BY <4>1, <4>2
      <4>4. QED
        BY <4>1, <4>3 DEF HasError
    <3>2. QED
      BY <3>1
  <2>3. HasError(mailbox)
    BY <2>1, <2>2 DEF Rests, HasError
  <2>4. /\ 1 \in DOMAIN underWay
        /\ \A i \in DOMAIN underWay' : \E j \in DOMAIN underWay : underWay'[i] = underWay[j]
    BY <1>8, UnderWayTail
  <2>5. underWay[1].age >= timeout /\ underWay[1].age \in 0 .. Delay
    BY <1>2, <1>3, <2>3, <2>4
  <2>6. ~ punctual
    BY <1>2, <2>5
  <2>7. idle' = ReceiverTimeout
    BY <1>8 DEF HeartbeatHandler, TimerAfterHeartbeat
  <2>8. idle' + timeout <= ReceiverTimeout + MaxDelay
    BY <1>2, <2>5, <2>6, <2>7
  <2>9. QED
    BY <1>3, <2>3, <2>4, <2>8
<1>9. CASE Tick
  <2>1. mailbox' = mailbox /\ idle' = idle - 1
    BY <1>1, <1>9, SenderTicks DEF Tick, Down
  <2>2. HasError(mailbox)
    BY <2>1 DEF HasError
  <2>3. \A i \in DOMAIN underWay' : underWay'[i].age >= timeout
    BY <1>2, <1>3, <1>9, <2>2, UnderWayTick
  <2>4. idle' + timeout <= ReceiverTimeout + MaxDelay
    BY <1>2, <1>3, <2>1, <2>2
  <2>5. QED
    BY <2>3, <2>4
<1>10. CASE ReceiverIsCutOff \/ UNCHANGED vars
  <2>1. mailbox' = mailbox /\ idle' = idle /\ (underWay' = <<>> \/ underWay' = underWay)
    BY <1>10 DEF ReceiverIsCutOff, vars
  <2>2. HasError(mailbox)
    BY <2>1 DEF HasError
  <2>3. QED
    BY <1>3, <2>1, <2>2
<1>11. CASE ReceiverTimesOut \/ ReceiverDies
  BY <1>11 DEF ReceiverTimesOut, ReceiverDies, IsDown
<1>12. QED
  BY <1>4, <1>5, <1>6, <1>7, <1>8, <1>9, <1>10, <1>11 DEF Next

LEMMA QuitsStep ==
    ASSUME TypeInv, AllWell, Timing, Reported, Quits, [Next]_vars
    PROVE  Quits'
<1> SUFFICES ASSUME ~ running', ~ IsDown'
             PROVE  /\ \A i \in DOMAIN underWay' : underWay'[i].age >= sinceQuit' + OneTimeout
                    /\ idle' + sinceQuit' + OneTimeout <= ReceiverTimeout + MaxDelay
  <2>1. OneTimeout' = OneTimeout
    BY OneWay DEF OneTimeout
  <2>2. QED
    BY <2>1 DEF Quits, OldEnough
<1>1. ~ IsDown /\ idle # Off
  BY OneWay DEF Timing
<1>2. /\ \A i \in DOMAIN underWay : underWay[i].age \in 0 .. Delay
      /\ Delay \in Nat /\ (~ punctual => Delay = MaxDelay)
      /\ timeout \in 1 .. Pulse /\ Pulse \in Nat \ {0}
      /\ MaxDelay \in Nat /\ ReceiverTimeout \in Nat \ {0} /\ Off \notin Nat
      /\ idle \in 0 .. ReceiverTimeout
      /\ sinceQuit \in Nat /\ OneTimeout \in Nat
  BY <1>1, UnderWayTypes DEF OneTimeout
<1>3. CASE running
  <2>1. ErrorHandler
    BY <1>3 DEF Next, StartHandler, ReplyHandler, RestartFires, RequestTimesOut,
       ReceiverTimesOut, ReceiverDies, GoesDown, HeartbeatHandler, ReceiverIsCutOff, Tick,
       vars, senderVars
  <2>2. /\ mailbox # <<>> /\ Head(mailbox).type = "error"
        /\ underWay' = underWay /\ idle' = idle /\ sinceQuit' = sinceQuit
    BY <2>1 DEF ErrorHandler, Receives, history
  <2>3. sinceQuit = 0
    BY <1>3 DEF Timing
  <2>4. CASE timeout < Pulse
    <3>1. mailbox \in Seq(Messages)
      BY DEF TypeInv, Types
    <3>2. 1 \in DOMAIN mailbox /\ mailbox[1].type = "error"
      BY <2>2, <3>1
    <3>3. /\ \A i \in DOMAIN underWay : underWay[i].age >= timeout
          /\ idle + timeout <= ReceiverTimeout + MaxDelay
      BY <1>1, <1>3, <2>4, <3>2 DEF Reported, OldEnough, HasError
    <3>4. OneTimeout = timeout
      BY <2>4 DEF OneTimeout
    <3>5. QED
      BY <1>2, <2>2, <2>3, <3>3, <3>4
  <2>5. CASE ~ (timeout < Pulse)
    <3>1. OneTimeout = 0
      BY <2>5 DEF OneTimeout
    <3>2. QED
      BY <1>2, <2>2, <2>3, <3>1
  <2>6. QED
    BY <2>4, <2>5
<1>4. CASE ~ running
  <2>1. /\ \A i \in DOMAIN underWay : underWay[i].age >= sinceQuit + OneTimeout
        /\ idle + sinceQuit + OneTimeout <= ReceiverTimeout + MaxDelay
    BY <1>1, <1>4 DEF Quits, OldEnough
  <2>2. CASE HeartbeatHandler
    <3>1. ~ punctual
      BY <1>4, <2>2 DEF AllWell, HeartbeatHandler
    <3>2. /\ 1 \in DOMAIN underWay
          /\ \A i \in DOMAIN underWay' : \E j \in DOMAIN underWay : underWay'[i] = underWay[j]
      BY <2>2, UnderWayTail
    <3>3. /\ underWay[1].age >= sinceQuit + OneTimeout /\ underWay[1].age \in 0 .. MaxDelay
      BY <1>2, <2>1, <3>1, <3>2
    <3>4. idle' = ReceiverTimeout /\ sinceQuit' = sinceQuit
      BY <2>2 DEF HeartbeatHandler, TimerAfterHeartbeat
    <3>5. idle' + sinceQuit' + OneTimeout <= ReceiverTimeout + MaxDelay
      BY <1>2, <3>3, <3>4
    <3>6. QED
      BY <2>1, <3>2, <3>4, <3>5
  <2>3. CASE Tick
    <3>1. idle' = idle - 1
      BY <1>1, <2>3 DEF Tick, Down
    <3>2. sinceQuit' \in Nat /\ sinceQuit' <= sinceQuit + 1
      BY <1>2, <2>3 DEF Tick, Count
    <3>3. idle' + sinceQuit' + OneTimeout <= ReceiverTimeout + MaxDelay
      <4>1. ASSUME NEW i \in Nat, NEW q \in Nat, NEW p \in Nat, NEW t \in Nat, NEW b \in Nat,
                   i + q + t <= b, p <= q + 1
            PROVE  (i - 1) + p + t <= b
        BY <4>1
      <4>2. ReceiverTimeout + MaxDelay \in Nat /\ idle \in Nat
        BY <1>2
      <4>3. QED
        BY <1>2, <2>1, <3>1, <3>2, <4>1, <4>2
    <3>4. ASSUME NEW i \in DOMAIN underWay'
          PROVE  underWay'[i].age >= sinceQuit' + OneTimeout
      <4>1. i \in DOMAIN underWay /\ underWay'[i].age = underWay[i].age + 1
        BY <2>3, UnderWayTick
      <4>2. QED
        BY <1>2, <2>1, <3>2, <4>1
    <3>5. QED
      BY <3>3, <3>4
  <2>4. CASE ~ HeartbeatHandler /\ ~ Tick
    <3>1. ~ StartHandler
      BY <1>4 DEF StartHandler, Receives
    <3>2. idle' = idle /\ sinceQuit' = sinceQuit
      BY <1>4, <2>4 DEF Next, StartHandler, ReplyHandler, ErrorHandler, RestartFires,
         RequestTimesOut, ReceiverTimesOut, ReceiverDies, ReceiverIsCutOff, IsDown, Receives,
         vars, history
    <3>3. \A i \in DOMAIN underWay' : \E j \in DOMAIN underWay : underWay'[i] = underWay[j]
      BY <2>4, <3>1, UnderWayStays
    <3>4. QED
      BY <2>1, <3>2, <3>3
  <2>5. QED
    BY <2>2, <2>3, <2>4
<1>5. QED
  BY <1>3, <1>4

\* A receiver that was given up, by mistake too, ends itself in time, for any
\* timeouts, lag and delay.
THEOREM GivenUpEndsHolds == Spec => []GivenUpEnds
<1>1. Init => Ages /\ Expecting /\ Reported /\ Quits
  BY DEF Init, Ages, Expecting, Reported, Quits, HasError, OldEnough
<1>2. TypeInv /\ Ages /\ [Next]_vars => Ages'
  BY AgesStep
<1>3. TypeInv /\ Shape /\ Ages /\ Timing /\ Expecting /\ [Next]_vars => Expecting'
  BY ExpectingStep
<1>4. TypeInv /\ Tally /\ Shape /\ Ages /\ Timing /\ Expecting /\ Reported /\ [Next]_vars
         => Reported'
  BY ReportedStep
<1>5. TypeInv /\ AllWell /\ Timing /\ Reported /\ Quits /\ [Next]_vars => Quits'
  BY QuitsStep
<1>6. TypeInv /\ Timing /\ Quits => GivenUpEnds
  <2> SUFFICES ASSUME TypeInv, Timing, Quits, ~ running, ~ IsDown
               PROVE  sinceQuit + OneTimeout <= ReceiverTimeout + MaxDelay
    BY DEF GivenUpEnds, OneTimeout
  <2>1. idle \in Nat /\ sinceQuit \in Nat /\ MaxDelay \in Nat /\ ReceiverTimeout \in Nat
    BY UnderWayTypes DEF Timing
  <2>2. OneTimeout \in Nat
    BY UnderWayTypes DEF OneTimeout
  <2>3. idle + sinceQuit + OneTimeout <= ReceiverTimeout + MaxDelay
    BY DEF Quits
  <2>4. QED
    BY <2>1, <2>2, <2>3
<1>7. QED
  BY <1>1, <1>2, <1>3, <1>4, <1>5, <1>6, TypeInvHolds, TallyHolds, ShapeHolds, TimingHolds,
     AllWellHolds, PTL DEF Spec

-----------------------------------------------------------------------------
(***************************************************************************)
(* EndsOnlyWhenGivenUp                                                     *)
(*                                                                         *)
(* The timer of the receiver never runs out before the next heartbeat: it  *)
(* is under way, or it will be with the next start_atom.                   *)
(***************************************************************************)
NextHeartbeat == IF underWay # <<>> THEN Delay - underWay[1].age ELSE NextStart + Delay

Patient == timeout < Pulse /\ ReceiverTimeout > Turn + Delay

Heard == running /\ Patient /\ receiver = "up" => idle > NextHeartbeat

\* What is known of the timer while the sender runs and the receiver is up.
LEMMA HeardFacts ==
    ASSUME TypeInv, Tally, Shape, Timing, running, Patient, receiver = "up"
    PROVE  /\ idle \in Nat /\ Delay \in Nat /\ Turn \in Nat /\ ReceiverTimeout \in Nat
           /\ NextStart \in 0 .. Turn /\ NextHeartbeat \in Nat
           /\ underWay # <<>> => underWay[1].age \in 0 .. Delay
           /\ underWay # <<>> => NextHeartbeat = Delay - underWay[1].age
           /\ underWay = <<>> => NextHeartbeat = NextStart + Delay
<1>1. /\ Delay \in Nat /\ ReceiverTimeout \in Nat
      /\ \A i \in DOMAIN underWay : underWay[i].age \in 0 .. Delay
      /\ idle # Off => idle \in 0 .. ReceiverTimeout
  BY UnderWayTypes
<1>2. idle \in Nat
  BY <1>1 DEF Timing, IsDown
<1>3. NextStart \in 0 .. Turn /\ Turn \in Nat
  BY AheadBounds, Turns DEF Patient
<1>4. underWay # <<>> => 1 \in DOMAIN underWay
  <2> DEFINE Heartbeats == [index : Index, age : 0 .. Delay]
  <2>1. underWay \in Seq(Heartbeats)
    BY UnderWayTypes
  <2> HIDE DEF Heartbeats
  <2>2. QED
    BY <2>1
<1>5. /\ underWay # <<>> => underWay[1].age \in 0 .. Delay
      /\ underWay # <<>> => NextHeartbeat = Delay - underWay[1].age
      /\ underWay = <<>> => NextHeartbeat = NextStart + Delay
  BY <1>1, <1>4 DEF NextHeartbeat
<1>6. NextHeartbeat \in Nat
  <2>1. CASE underWay # <<>>
    BY <1>1, <1>5, <2>1
  <2>2. CASE underWay = <<>>
    BY <1>1, <1>3, <1>5, <2>2
  <2>3. QED
    BY <2>1, <2>2
<1>7. QED
  BY <1>1, <1>2, <1>3, <1>5, <1>6

LEMMA HeardStep ==
    ASSUME TypeInv, TypeInv', Tally, Shape, Timing, Heard, [Next]_vars
    PROVE  Heard'
<1> SUFFICES ASSUME running', Patient', receiver' = "up"
             PROVE  idle' > NextHeartbeat'
  BY DEF Heard
<1>1. /\ running /\ receiver = "up" /\ timeout' = timeout /\ punctual' = punctual
      /\ timeout < Pulse /\ Turn' = Turn /\ Delay' = Delay /\ Patient
  BY OneWay DEF Turn, Delay, Patient
<1>2. /\ idle \in Nat /\ Delay \in Nat /\ Turn \in Nat /\ ReceiverTimeout \in Nat
      /\ NextStart \in 0 .. Turn /\ NextHeartbeat \in Nat
      /\ underWay # <<>> => underWay[1].age \in 0 .. Delay
      /\ underWay # <<>> => NextHeartbeat = Delay - underWay[1].age
      /\ underWay = <<>> => NextHeartbeat = NextStart + Delay
  BY <1>1, HeardFacts
<1>3. idle > NextHeartbeat /\ ReceiverTimeout > Turn + Delay
  BY <1>1 DEF Heard, Patient
<1>4. /\ underWay' # <<>> => NextHeartbeat' = Delay - underWay'[1].age
      /\ underWay' = <<>> => NextHeartbeat' = NextStart' + Delay
  BY <1>1 DEF NextHeartbeat
<1>5. ASSUME idle' = idle, underWay' = underWay, NextStart' \in Int, NextStart' <= NextStart
      PROVE  idle' > NextHeartbeat'
  <2>1. CASE underWay # <<>>
    BY <1>2, <1>3, <1>4, <1>5, <2>1
  <2>2. CASE underWay = <<>>
    <3>1. idle > NextStart + Delay
      BY <1>2, <1>3, <2>2
    <3>2. PICK next : next = NextStart'
      OBVIOUS
    <3>3. next \in Int /\ next <= NextStart
      BY <1>5, <3>2
    <3>4. idle > next + Delay
      BY <1>2, <3>1, <3>3
    <3>5. QED
      BY <1>4, <1>5, <2>2, <3>2, <3>4
  <2>3. QED
    BY <2>1, <2>2
<1>6. CASE StartHandler
  <2> DEFINE beat == [index |-> (currentMessageIndex + 1) % IndexRange, age |-> 0]
             Heartbeats == [index : Index, age : 0 .. Delay]
  <2>1. idle' = idle /\ underWay' = Append(underWay, beat) /\ beat.age = 0
    BY <1>1, <1>6 DEF StartHandler, IsDown
  <2>2. underWay \in Seq(Heartbeats)
    BY UnderWayTypes
  <2> HIDE DEF beat, Heartbeats
  <2>3. /\ underWay' # <<>>
        /\ underWay # <<>> => underWay'[1] = underWay[1]
        /\ underWay = <<>> => underWay'[1] = beat
    BY <2>1, <2>2
  <2>4. CASE underWay # <<>>
    BY <1>2, <1>3, <1>4, <2>1, <2>3, <2>4
  <2>5. CASE underWay = <<>>
    <3>1. NextHeartbeat' = Delay - 0
      BY <1>4, <2>1, <2>3, <2>5
    <3>2. idle > NextStart + Delay
      BY <1>2, <1>3, <2>5
    <3>3. QED
      BY <1>2, <2>1, <3>1, <3>2
  <2>6. QED
    BY <2>4, <2>5
<1>7. CASE ReplyHandler \/ ErrorHandler
  <2>1. Hears
    BY <1>1, <1>7, SenderHears
  <2>2. idle' = idle /\ underWay' = underWay
    BY <1>7 DEF ReplyHandler, ErrorHandler
  <2>3. QED
    BY <1>1, <1>5, <2>1, <2>2, NextStartStays
<1>8. CASE RestartFires
  <2>1. Wakes
    BY <1>1, <1>8, SenderWakes
  <2>2. idle' = idle /\ underWay' = underWay
    BY <1>8 DEF RestartFires
  <2>3. QED
    BY <1>1, <1>5, <2>1, <2>2, NextStartStays
<1>9. ASSUME NEW request \in outstanding, RequestTimesOut(request)
      PROVE  idle' > NextHeartbeat'
  <2>1. IsAnswered("error")
    BY <1>1, <1>9, SenderIsTimedOut
  <2>2. idle' = idle /\ underWay' = underWay
    BY <1>9 DEF RequestTimesOut
  <2>3. QED
    BY <1>1, <1>5, <2>1, <2>2, NextStartStays
<1>10. CASE HeartbeatHandler
  <2>1. IsAnswered("reply") \/ Rests
    BY <1>1, <1>10, SenderIsAnswered
  <2>2. NextStart' \in Int /\ NextStart' <= NextStart
    BY <1>1, <2>1, NextStartStays
  <2>3. idle' = ReceiverTimeout
    BY <1>10 DEF HeartbeatHandler, TimerAfterHeartbeat
  <2>4. CASE underWay' # <<>>
    <3>1. underWay'[1].age \in Nat
      <4>1. underWay' = Tail(underWay)
        BY <1>10 DEF HeartbeatHandler
      <4> DEFINE Heartbeats == [index : Index, age : 0 .. Delay]
      <4>2. underWay \in Seq(Heartbeats) /\ underWay # <<>>
        BY <1>10, UnderWayTypes DEF HeartbeatHandler
      <4>3. \A b \in Heartbeats : b.age \in Nat
        BY <1>2
      <4> HIDE DEF Heartbeats
      <4>4. 1 \in DOMAIN underWay' /\ underWay' \in Seq(Heartbeats)
        BY <2>4, <4>1, <4>2
      <4>5. QED
        BY <4>3, <4>4
    <3>2. QED
      BY <1>2, <1>3, <1>4, <2>3, <2>4, <3>1
  <2>5. CASE underWay' = <<>>
    <3>1. ReceiverTimeout > NextStart + Delay
      BY <1>2, <1>3
    <3>2. PICK next : next = NextStart'
      OBVIOUS
    <3>3. next \in Int /\ next <= NextStart
      BY <2>2, <3>2
    <3>4. ReceiverTimeout > next + Delay
      BY <1>2, <3>1, <3>3
    <3>5. QED
      BY <1>4, <2>3, <2>5, <3>2, <3>4
  <2>6. QED
    BY <2>4, <2>5
<1>11. CASE Tick
  <2>1. NextStart' \in Int /\ NextStart' <= NextStart - 1
    BY <1>1, <1>11, NextStartTick
  <2>2. idle' = idle - 1
    BY <1>1, <1>11 DEF Timing, IsDown, Tick, Down
  <2>3. /\ underWay' = <<>> <=> underWay = <<>>
        /\ underWay # <<>> => underWay'[1].age = underWay[1].age + 1
    <3> DEFINE Heartbeats == [index : Index, age : 0 .. Delay]
    <3>1. underWay \in Seq(Heartbeats)
      BY UnderWayTypes
    <3> HIDE DEF Heartbeats
    <3>2. underWay # <<>> => 1 \in DOMAIN underWay
      BY <3>1
    <3>3. underWay' = [i \in 1 .. Len(underWay) |-> [underWay[i] EXCEPT !.age = @ + 1]]
      BY <1>11, <3>1 DEF Tick
    <3>4. underWay' = <<>> <=> underWay = <<>>
      BY <3>1, <3>3
    <3>5. QED
      BY <1>11, <3>2, <3>4, UnderWayTick
  <2>4. CASE underWay # <<>>
    <3>1. underWay'[1].age = underWay[1].age + 1
      BY <2>3, <2>4
    <3>2. QED
      BY <1>2, <1>3, <1>4, <2>2, <2>3, <2>4, <3>1
  <2>5. CASE underWay = <<>>
    <3>1. idle > NextStart + Delay
      BY <1>2, <1>3, <2>5
    <3>2. PICK next : next = NextStart'
      OBVIOUS
    <3>3. next \in Int /\ next <= NextStart - 1
      BY <2>1, <3>2
    <3>4. idle - 1 > next + Delay
      BY <1>2, <3>1, <3>3
    <3>5. QED
      BY <1>4, <2>2, <2>3, <2>5, <3>2, <3>4
  <2>6. QED
    BY <2>4, <2>5
<1>12. CASE UNCHANGED vars
  <2>1. Rests /\ idle' = idle /\ underWay' = underWay
    BY <1>12 DEF vars, senderVars, history, Rests
  <2>2. QED
    BY <1>1, <1>5, <2>1, NextStartStays
<1>13. CASE ReceiverTimesOut \/ ReceiverDies \/ ReceiverIsCutOff
  BY <1>13 DEF ReceiverTimesOut, ReceiverDies, ReceiverIsCutOff
<1>14. QED
  BY <1>6, <1>7, <1>8, <1>9, <1>10, <1>11, <1>12, <1>13 DEF Next

LEMMA HeardInit == Init /\ TypeInv /\ Tally /\ Shape /\ Timing => Heard
<1> SUFFICES ASSUME Init, TypeInv, Tally, Shape, Timing, running, Patient, receiver = "up"
             PROVE  idle > NextHeartbeat
  BY DEF Heard
<1>1. /\ idle \in Nat /\ Delay \in Nat /\ Turn \in Nat
      /\ NextStart \in 0 .. Turn
      /\ underWay = <<>> => NextHeartbeat = NextStart + Delay
  BY HeardFacts
<1>2. idle = ReceiverTimeout /\ underWay = <<>> /\ ReceiverTimeout > Turn + Delay
  BY DEF Init, Patient
<1>3. QED
  BY <1>1, <1>2

\* A receiver that hears the sender ends itself only after it was given up, if
\* its timeout exceeds the longest turn of the sender and the delay of a
\* heartbeat, and the sender waits less than a pulse for an answer.
THEOREM EndsOnlyWhenGivenUpHolds == Spec /\ []Patient => EndsOnlyWhenGivenUp
<1>1. TypeInv /\ TypeInv' /\ Tally /\ Shape /\ Timing /\ Heard /\ [Next]_vars => Heard'
  BY HeardStep
<1>2. ASSUME TypeInv, Tally, Shape, Timing, Heard, Patient, [Next]_vars
      PROVE  receiver = "up" /\ receiver' = "ended" => ~ running
  <2> SUFFICES ASSUME receiver = "up", receiver' = "ended", running
               PROVE  FALSE
    OBVIOUS
  <2>1. idle = 0
    BY <1>2 DEF Next, StartHandler, ReplyHandler, ErrorHandler, RestartFires, RequestTimesOut,
       ReceiverTimesOut, ReceiverDies, HeartbeatHandler, ReceiverIsCutOff, Tick, vars
  <2>2. idle > NextHeartbeat /\ NextHeartbeat \in Nat
    BY <1>2, HeardFacts DEF Heard
  <2>3. QED
    BY <2>1, <2>2
<1>3. QED
  BY <1>1, <1>2, HeardInit, TypeInvHolds, TallyHolds, ShapeHolds, TimingHolds, PTL
  DEF Spec, EndsOnlyWhenGivenUp
=============================================================================
