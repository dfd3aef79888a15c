------------------------------- MODULE Lists -------------------------------
(***************************************************************************)
(* What three idioms of Python do to a list: a comprehension with a        *)
(* condition, appending what is not there yet, and list.sort with a key,   *)
(* which is stable.                                                        *)
(***************************************************************************)
EXTENDS Integers, FiniteSets, Sequences

\* [x for x in s if x in T]
Selection(s, T) ==
    LET selected[n \in 0 .. Len(s)] ==
            IF n = 0 THEN <<>>
            ELSE IF s[n] \in T THEN Append(selected[n - 1], s[n])
            ELSE selected[n - 1]
    IN selected[Len(s)]

\* for x in t: if x not in s: s.append(x)
Extended(s, t) ==
    LET extended[n \in 0 .. Len(t)] ==
            IF n = 0 THEN s
            ELSE IF \E i \in 1 .. Len(extended[n - 1]) : extended[n - 1][i] = t[n]
                 THEN extended[n - 1]
            ELSE Append(extended[n - 1], t[n])
    IN extended[Len(t)]

\* The elements a sorted s has up to the one at i: those that have a smaller key, and
\* those with the same key that were not behind it.
Preceding(s, key, i) ==
    {j \in 1 .. Len(s) : \/ key[s[j]] < key[s[i]]
                         \/ key[s[j]] = key[s[i]] /\ j <= i}

PlaceOf(s, key, i) == Cardinality(Preceding(s, key, i))

\* s.sort(key=lambda x: key[x])
StablySorted(s, key) ==
    [n \in 1 .. Len(s) |-> s[CHOOSE i \in 1 .. Len(s) : PlaceOf(s, key, i) = n]]
=============================================================================
