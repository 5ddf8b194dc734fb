--------------------------------- MODULE C3 ---------------------------------
(***************************************************************************)
(* core/src/resolve/scope.ts, c3Merge: the orders of the bases of a        *)
(* contract, and the order in which it names them, are merged into one.    *)
(***************************************************************************)
EXTENDS Naturals, Sequences, FiniteSets, SequencesExt

Listed(lists) == UNION {ToSet(lists[i]) : i \in DOMAIN lists}

HeadsOfAny(lists) == {i \in DOMAIN lists : lists[i] # <<>>}
\* The lists whose head is at the front of every list it is in; a list that
\* names its head twice, as C is A, A does, is no obstacle (indexOf).
Heads(lists) ==
    {i \in DOMAIN lists : /\ lists[i] # <<>>
                          /\ \A j \in DOMAIN lists : Contains(lists[j], lists[i][1]) => lists[j][1] = lists[i][1]}

\* One pass: the first such head is put out and taken off every list.
Pass(m) ==
    LET head == m.lists[Min(Heads(m.lists))][1]
    IN  IF Heads(m.lists) = {} THEN m
        ELSE [out   |-> Append(m.out, head),
              lists |-> [i \in DOMAIN m.lists |->
                           IF m.lists[i] # <<>> /\ m.lists[i][1] = head THEN Tail(m.lists[i]) ELSE m.lists[i]]]

\* Each pass takes a member off some list, or is the last.
Places(lists) == UNION {{<<i, p>> : p \in DOMAIN lists[i]} : i \in DOMAIN lists}
C3Merge(lists) ==
    LET size == Cardinality(Places(lists))
        merged[n \in 0 .. size] == IF n = 0 THEN [out |-> <<>>, lists |-> lists] ELSE Pass(merged[n - 1])
    IN  merged[size]

\* The code answers null when lists are left and none has such a head.
Complete(m) == \A i \in DOMAIN m.lists : m.lists[i] = <<>>

Before(s, x, y) == \E i, j \in DOMAIN s : i < j /\ s[i] = x /\ s[j] = y

\* An order of all members that keeps the order of every list.
Keeps(order, lists) ==
    /\ IsInjective(order)
    /\ ToSet(order) = Listed(lists)
    /\ \A i \in DOMAIN lists : \A x, y \in Listed(lists) : Before(lists[i], x, y) => Before(order, x, y)
=============================================================================
