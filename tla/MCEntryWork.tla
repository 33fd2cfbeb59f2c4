----------------------------- MODULE MCEntryWork -----------------------------
(* A small instance of EntryWork: two groups of one frontend that use one    *)
(* security class, and a client outside the whitelist.                       *)
EXTENDS EntryWork, TLC

CONSTANTS j1, j2, j3, j4, group1, group2, stranger, cms, other

FourJobs  == {j1, j2, j3, j4}

Groups    == {group1, group2}
AllClients == Groups \cup {stranger}
Strangers == {stranger}

ClassOf == [r \in AllClients |-> IF r \in Groups THEN cms ELSE other]

Demand(i, m, x, g) == [idle |-> i, max |-> m, remove |-> x, margin |-> g]

SomeDemands ==
    {Demand(0, 0, "ALL", 0), Demand(1, 0, "NO", 0), Demand(2, 3, "NO", 0),
     Demand(1, 2, "ALL", 0), Demand(0, 1, "IDLE", 1), Demand(1, 2, "WAIT", 0)}

Perms == Permutations(FourJobs)
==============================================================================
