---------------------------- MODULE MCChangeLog ----------------------------
EXTENDS ChangeLog

CONSTANTS a, b

move(from, to) == [from |-> from, to |-> to, amount |-> 1]

MCMoveLists == {<<move(TBA, a)>>, <<move(a, b)>>, <<move(TBA, a), move(a, b)>>}

MCScope(envelopes, legs, arrived, rows) ==
  [envelopes |-> envelopes, legs |-> legs, arrived |-> arrived, rows |-> rows]

MCScopes == {MCScope({a, b}, {}, FALSE, 4),
             MCScope({}, Legs, FALSE, 4),
             MCScope({}, Legs, TRUE, 7),
             MCScope({a}, {"out"}, FALSE, 4),
             MCScope({a}, Legs, FALSE, 3)}
=============================================================================
