---------------------------- MODULE JavaCollections ----------------------------
(* What java.util does when a for-each loop removes elements from the very     *)
(* collection it walks, as the AODV tables and queues of the Java port do in   *)
(* every purge.  The collections belong to the class library, not to the       *)
(* repository: the operators state what the loops of the repository get.       *)
(*                                                                             *)
(* A removal makes the loop's iterator stale.  The next call of next() then    *)
(* throws ConcurrentModificationException, so a loop that removes every match  *)
(* removes at most the first one; only when hasNext() answers false right      *)
(* after the removal does the loop end without an exception.                   *)
EXTENDS Integers, Sequences

\* The positions of list whose element satisfies P.
Matches(list, P(_)) == {i \in 1..Len(list) : P(list[i])}

\* The position of the first match, 0 when there is none.
FirstMatch(list, P(_)) ==
  LET ms == Matches(list, P)
  IN  IF ms = {} THEN 0 ELSE CHOOSE i \in ms : \A j \in ms : i <= j

\* List.remove at a position.
Without(list, i) == SubSeq(list, 1, i - 1) \o SubSeq(list, i + 1, Len(list))

\* for (e : linkedList) if (P(e)) linkedList.remove(e).  hasNext() of a
\* LinkedList is nextIndex < size: a removal at one of the last two positions
\* ends the loop, the last element unread when it was the last but one.
LinkedSweep(list, P(_)) ==
  LET i == FirstMatch(list, P)
  IN  IF i = 0
        THEN [list |-> list, removed |-> <<>>, throws |-> FALSE]
        ELSE [list |-> Without(list, i), removed |-> <<list[i]>>,
              throws |-> i < Len(list) - 1]

\* The same loop over an ArrayList, whose hasNext() is cursor != size: only a
\* removal at the last position but one ends it quietly.
ArraySweep(list, P(_)) ==
  LET i == FirstMatch(list, P)
  IN  IF i = 0
        THEN [list |-> list, removed |-> <<>>, throws |-> FALSE]
        ELSE [list |-> Without(list, i), removed |-> <<list[i]>>,
              throws |-> i # Len(list) - 1]
=============================================================================
