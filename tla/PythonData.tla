----------------------------- MODULE PythonData -----------------------------
(***************************************************************************)
(* Operations on Python's mappings and lists that several modules share,   *)
(* in a form that can be reasoned about: a mapping is a function, a list a *)
(* sequence, and what is taken from a list is given by its places.         *)
(***************************************************************************)
EXTENDS Integers, Sequences, FiniteSets

\* A mapping updated: what is in "given", and from "others" the rest.
Over(given, others) ==
    [x \in DOMAIN given \cup DOMAIN others |-> IF x \in DOMAIN given THEN given[x] ELSE others[x]]

\* The place in a list of the k-th of some places.
Place(places, k) == CHOOSE i \in places : Cardinality({j \in places : j <= i}) = k

\* [x for x in s if ...]: of a list the items at some places, in their order.
Picked(s, places) == [k \in 1..Cardinality(places) |-> s[Place(places, k)]]

\* [x for s in lists for x in s]: the items of some lists, list after list.
Flattened(lists) ==
    LET places == UNION {{i} \X DOMAIN lists[i] : i \in DOMAIN lists}
        upTo(p) == {q \in places : q[1] < p[1] \/ (q[1] = p[1] /\ q[2] <= p[2])}
        place(k) == CHOOSE p \in places : Cardinality(upTo(p)) = k
    IN  [k \in 1..Cardinality(places) |-> lists[place(k)[1]][place(k)[2]]]

\* sum(numbers.values()), of numbers of things: the things are counted.
Things(numbers) == UNION {{x} \X (1..numbers[x]) : x \in DOMAIN numbers}
Total(numbers) == Cardinality(Things(numbers))
=============================================================================
