---- MODULE Sorting ----
(***************************************************************************)
(* Go's sort.SliceStable and sort.Strings, on keys that are tuples of      *)
(* strings: a string has its place in Alphabet, and one that is not there  *)
(* comes first.                                                            *)
(***************************************************************************)
EXTENDS Naturals, Sequences

CONSTANT Alphabet

Occurrences(s) == {i \in DOMAIN Alphabet : Alphabet[i] = s}
PlaceOf(s) == IF Occurrences(s) = {} THEN 0 ELSE CHOOSE i \in Occurrences(s) : TRUE

\* The first difference decides; a tuple comes after its own beginning.
Precedes(k, l) ==
    \E i \in 1..Len(l) :
        /\ i <= Len(k) + 1
        /\ \A j \in 1..(i - 1) : k[j] = l[j]
        /\ i <= Len(k) => PlaceOf(k[i]) < PlaceOf(l[i])

\* Element i goes behind those with smaller keys and the earlier ones with its own.
SortedBy(s, Key(_)) ==
    LET place == [i \in DOMAIN s |->
            Len(SelectSeq([j \in DOMAIN s |-> j], LAMBDA j :
                Precedes(Key(s[j]), Key(s[i])) \/ (j <= i /\ ~Precedes(Key(s[i]), Key(s[j])))))]
    IN [n \in DOMAIN s |-> s[CHOOSE i \in DOMAIN s : place[i] = n]]
====
