-------------------------------- MODULE Lists --------------------------------
(***************************************************************************)
(* What the components do with Python lists and dicts: a list              *)
(* comprehension with an `if`, sorted(), and d[k] = v.  They are SelectSeq  *)
(* with a set in the place of the test, SetToSortSeq and (k :> v) @@ d;    *)
(* what these rest on is built into the proof system, which knows no       *)
(* definition of it.                                                       *)
(***************************************************************************)
EXTENDS Integers, Sequences, FiniteSetsExt

\* [x for x in s if x in kept]
Only(s, kept) ==
  LET of[i \in 0..Len(s)] ==
        IF i = 0 THEN <<>>
        ELSE IF s[i] \in kept THEN Append(of[i - 1], s[i]) ELSE of[i - 1]
  IN of[Len(s)]

\* sorted(numbers), of finitely many positive numbers
InOrder(numbers) == Only([n \in 1 .. Max(numbers \cup {0}) |-> n], numbers)

\* sorted(), of a finite set: at each place what has as many before it.  before is the
\* set of pairs the key tells apart.
Sorted(S, before) ==
  [i \in 1..Cardinality(S) |-> CHOOSE x \in S : Cardinality({y \in S : <<y, x>> \in before}) = i - 1]

\* d[key] = value, which a key of its own keeps.
Noted(d, key, value) == [k \in {key} \cup DOMAIN d |-> IF k = key THEN value ELSE d[k]]

\* {**d, **more}
Merged(more, d) == [k \in DOMAIN more \cup DOMAIN d |-> IF k \in DOMAIN more THEN more[k] ELSE d[k]]
=============================================================================
