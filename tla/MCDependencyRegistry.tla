----------------------- MODULE MCDependencyRegistry ------------------------
(* All graphs of three edges over three surfaces, with self-loops, cycles  *)
(* and an edge written twice, and larger ones that are acyclic.            *)
EXTENDS DependencyRegistry

MCId == 0 .. 3

Ledger(n, p, b, e) == [ node |-> n, publishable |-> p, bundle |-> b, edges |-> e ]

(* The order of the list only matters for a node's copies on the stack.    *)
Lists ==
  { e \in [1 .. 3 -> (1 .. 3) \X (1 .. 3)] :
      \A i \in 1 .. 2 : 3 * e[i][1] + e[i][2] <= 3 * e[i + 1][1] + e[i + 1][2] }

(* A graph in which 2 waits for 3 and, twice, for 1; 0 may be hidden.      *)
Diamond == << <<3, 2>>, <<1, 2>>, <<1, 2>>, <<0, 3>>, <<1, 0>> >>

MCLedgers ==
  { Ledger(1 .. 3, p, {}, e) : p \in { 1 .. 3, {1, 3} }, e \in Lists }
    \cup { Ledger(n, p, b, Diamond) : n \in { MCId, 1 .. 3 }, p \in { 1 .. 3, {2, 3} },
                                      b \in { {}, {2} } }
    \cup { Ledger(MCId, MCId, b, Tail(Diamond)) : b \in { {}, {2}, MCId } }
    \cup { Ledger(1 .. 3, {}, {3}, << <<1, 2>> >>) }
=============================================================================
