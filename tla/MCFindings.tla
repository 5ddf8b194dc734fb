----------------------------- MODULE MCFindings -----------------------------
(* Two functions, in two revisions of the contract that has them, with a      *)
(* short and a long body; reports that name both functions in one result,    *)
(* name one twice, and name what no function contains.                       *)
EXTENDS Findings

CONSTANTS b1, b2

\* The pragma has the first byte, the contract begins at the second, and its
\* functions stand one after the other from the third: one that is dropped or
\* rewritten moves the next.
Width(body) == IF body = b1 THEN 1 ELSE IF body = b2 THEN 3 ELSE 0
MCLayout ==
  [graph \in Revision |->
     [n \in {1, 2, Contract} |->
        CASE n = 1 -> [from |-> 2, length |-> Width(graph[1])]
          [] n = 2 -> [from |-> 3 + Width(graph[1]), length |-> Width(graph[2])]
          [] OTHER -> [from |-> 1, length |-> 4 + Width(graph[1]) + Width(graph[2])]]]
MCReports == {<< <<1, 2>>, <<Contract>>, <<2>> >>,
              << <<Pragma, 2>>, <<Unlocated, 2>>, <<Elsewhere>> >>}
=============================================================================
