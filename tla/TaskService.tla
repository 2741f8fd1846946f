---------------------------- MODULE TaskService ----------------------------
(***************************************************************************)
(* What a task distributor promises its clients: a task is cut into        *)
(* pieces, and its client gets one answer, the results of all its own      *)
(* pieces in their places, or an error if one of its own pieces failed.    *)
(* SplitAggregate and SimpleDistributor are checked against it.            *)
(*                                                                         *)
(* The promise is void once a distributor was overtaxed, that is, once it  *)
(* met failures it is not written for; each distributor says which.        *)
(***************************************************************************)
EXTENDS Naturals

CONSTANTS Tasks,
          MaxPieces,    \* bound on the pieces of a task
          NotAsked,     \* the task has not been handed in
          NoAnswer,     \* the task has not been answered
          Refusals      \* the errors a task can be answered with

VARIABLES pieces,       \* the number of pieces of a task
          hurt,         \* tasks of which a piece has failed
          answer,       \* what the client of a task was answered
          overtaxed     \* the promise is void

vars == <<pieces, hurt, answer, overtaxed>>

\* The results of all the pieces of a task, each in its place.
Aggregate(t) == [i \in 1 .. pieces[t] |-> [task |-> t, index |-> i]]

IsOpen(t) == pieces[t] # NotAsked /\ answer[t] = NoAnswer

Init ==
    /\ pieces = [t \in Tasks |-> NotAsked]
    /\ hurt = {}
    /\ answer = [t \in Tasks |-> NoAnswer]
    /\ overtaxed \in BOOLEAN

Ask(t) ==
    /\ pieces[t] = NotAsked
    /\ \E k \in 0 .. MaxPieces : pieces' = [pieces EXCEPT ![t] = k]
    /\ UNCHANGED <<hurt, answer>>

PieceFails(t) ==
    /\ pieces[t] # NotAsked
    /\ hurt' = hurt \cup {t}
    /\ UNCHANGED <<pieces, answer>>

Complete(t) ==
    /\ IsOpen(t)
    /\ answer' = [answer EXCEPT ![t] = Aggregate(t)]
    /\ UNCHANGED <<pieces, hurt>>

Refuse(t) ==
    /\ IsOpen(t)
    /\ t \in hurt
    /\ \E refusal \in Refusals : answer' = [answer EXCEPT ![t] = refusal]
    /\ UNCHANGED <<pieces, hurt>>

KeepPromise ==
    /\ overtaxed = FALSE
    /\ overtaxed' = FALSE
    /\ \E t \in Tasks : Ask(t) \/ PieceFails(t) \/ Complete(t) \/ Refuse(t)

Next == KeepPromise \/ overtaxed' = TRUE

Spec == Init /\ [][Next]_vars
=============================================================================
