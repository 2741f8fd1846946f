----------------------------- MODULE MCGrid -------------------------------
(***************************************************************************)
(* The grid with the split and aggregate distributor on a small instance.  *)
(***************************************************************************)
EXTENDS Grid

Subtasks == [task : Tasks, index : 1 .. MaxPieces]

Budget(registrations, unregistrations, alarms, requests) ==
    [register |-> registrations, choose |-> 0, unregister |-> unregistrations,
     alarm |-> alarms, ask |-> requests, exit |-> 0]

GridBudgets ==
    {Budget(2, 0, 0, 1), Budget(1, 1, 1, 1), Budget(1, 0, 0, 2), Budget(2, 0, 0, 2)}

\* Ids and tasks are alike, and so are addresses that nothing refers to: of each a
\* fixed one is taken first.
FirstId == CHOOSE id \in Ids : TRUE
FirstTask == CHOOSE t \in Tasks : TRUE
FirstNode == CHOOSE node \in Nodes : TRUE

Sent == {t \in Tasks : IsSent(t)}
Registering == {i \in DOMAIN inbox : inbox[i].type = "register"}

\* An environment of two registrations and two tasks.  In this one the tester waits for
\* the runners, as its ten seconds of sleep have it, and what goes wrong is that a
\* runner dies with subtasks in its mailbox.
TwoOfEach ==
    /\ budget["register"] + Cardinality(Registering) + Cardinality(enrolled) = 2
    /\ budget["ask"] + Cardinality(Sent) = 2

HitByOneDeath ==
    /\ Sent' # Sent => budget["register"] = 0 /\ Quiet
    /\ busy' = {}
    /\ \A r \in alive \ alive' : tasks[r] # <<>>

MCGridNext ==
    /\ GridNext
    /\ TwoOfEach => HitByOneDeath
    /\ enrolled = {} => enrolled' = {} \/ serviceIds' = {FirstId}
    /\ ~ IsSent(FirstTask) => ToSet(handed') \subseteq {FirstTask}
    /\ Outstanding = {} => \A n \in Nodes \ {FirstNode} : pending'[n] = Free

MCGridSpec == GridInit /\ [][MCGridNext]_gridVars /\ GridFairness
=============================================================================
