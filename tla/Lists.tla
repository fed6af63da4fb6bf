-------------------------------- MODULE Lists -------------------------------
(* What the code does with arrays and the operators of the libraries do    *)
(* not let a proof see.                                                    *)
EXTENDS Integers, Sequences, FiniteSets

(* filter: the elements of s at the positions in S, in their order.        *)
Picked(s, S) ==
  LET upTo[n \in 0 .. Len(s)] ==
        IF n = 0 THEN <<>>
        ELSE IF n \in S THEN Append(upTo[n - 1], s[n]) ELSE upTo[n - 1]
  IN upTo[Len(s)]

(* sort: the elements of s by the keys of their positions, the greatest    *)
(* first; those of equal keys stay in their order.                         *)
Descending(s, key) ==
  LET Before(i, j) == key[i] > key[j] \/ (key[i] = key[j] /\ i < j)
  IN [n \in DOMAIN s |->
        s[CHOOSE j \in DOMAIN s : Cardinality({i \in DOMAIN s : Before(i, j)}) = n - 1]]

(* The map f with k set to v.                                              *)
Put(f, k, v) == [x \in DOMAIN f \cup {k} |-> IF x = k THEN v ELSE f[x]]

=============================================================================
