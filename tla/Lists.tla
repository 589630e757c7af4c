------------------------------- MODULE Lists -------------------------------
(***************************************************************************)
(* Lists from which elements are taken out, as Python's list.remove and    *)
(* list comprehensions with a condition do it.  A recursive function, so   *)
(* that ListProofs can prove facts about it.                               *)
(***************************************************************************)
EXTENDS Integers, Sequences

\* The elements of s that are in keep, in their order.
Filter(s, keep) ==
  LET kept[i \in 0..Len(s)] ==
        IF i = 0 THEN <<>>
        ELSE IF s[i] \in keep THEN Append(kept[i - 1], s[i]) ELSE kept[i - 1]
  IN kept[Len(s)]

\* The elements of s.
Held(s) == {s[i] : i \in DOMAIN s}

\* No element is in s twice.
NoRepeats(s) == \A i, j \in DOMAIN s : s[i] = s[j] => i = j
=============================================================================
