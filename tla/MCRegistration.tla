--------------------------- MODULE MCRegistration ---------------------------
(***************************************************************************)
(* The registering service on small instances.                             *)
(***************************************************************************)
EXTENDS Registration

Symmetry == Permutations(Actors) \cup Permutations(Ids) \cup Permutations(Clients)
              \cup Permutations(Services)

Budget(register, choose, unregister, alarm, ask, exit) ==
    [register |-> register, choose |-> choose, unregister |-> unregister,
     alarm |-> alarm, ask |-> ask, exit |-> exit]

\* Each lets the environment do what the others do not.
SmallBudgets ==
    {Budget(3, 0, 1, 0, 0, 0), Budget(3, 0, 0, 0, 0, 1), Budget(2, 0, 1, 0, 1, 0),
     Budget(2, 2, 1, 0, 0, 0), Budget(2, 1, 0, 1, 1, 0), Budget(2, 1, 1, 0, 0, 1),
     Budget(2, 0, 0, 0, 1, 1)}

TwoRegistrations == {Budget(2, 0, 1, 0, 0, 0)}
=============================================================================
