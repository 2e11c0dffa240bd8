------------------------------- MODULE MCShop -------------------------------
(* Small instances of Shop for TLC. *)
EXTENDS Shop, TLC

\* Four of each item; at most three per attendee, or no cap.
Shelf == [i \in Items |-> 4]
Capped == [i \in Items |-> 3]
Uncapped == [i \in Items |-> 0]
Everywhere == [i \in Items |-> Events]

Line(i, q) == [id |-> i, quantity |-> q]
Request(k, lines) == [key |-> k, lines |-> lines, shipping |-> TRUE]
\* A cart with a key, a larger one without, two of which exceed the cap together, and a cart that
\* names an item twice.
Bodies ==
    {Request("k", <<Line(1, 1)>>), Request(NoKey, <<Line(1, 2)>>),
     Request(NoKey, <<Line(1, 1), Line(1, 1)>>)}

\* A cart of both items, whose replay a sweep of the first order can deadlock with.
Crossing == {Request("k", <<Line(2, 1), Line(1, 1)>>)}

Sym == Permutations(Users) \cup Permutations(Checkouts) \cup Permutations(Confirms)
         \cup Permutations(Hashes) \cup Permutations(Sweeps)
=============================================================================
