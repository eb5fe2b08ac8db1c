----------------------------- MODULE SxeListSpec ------------------------------
(* What lib-sxe-list promises: lists are sequences, head first. *)
EXTENDS Integers, Sequences

CONSTANTS List, Object

VARIABLE contents   \* contents[l]: the objects on list l

On(l)    == {contents[l][i] : i \in DOMAIN contents[l]}
Free     == {o \in Object : \A l \in List : o \notin On(l)}
Set(l,s) == contents' = [contents EXCEPT ![l] = s]

Init == contents = [l \in List |-> <<>>]

Push(l, o)    == o \in Free /\ Set(l, Append(contents[l], o))
Unshift(l, o) == o \in Free /\ Set(l, <<o>> \o contents[l])
Pop(l)   == contents[l] # <<>> /\ Set(l, SubSeq(contents[l], 1, Len(contents[l]) - 1))
Shift(l) == contents[l] # <<>> /\ Set(l, Tail(contents[l]))

Remove(l, o) ==
    LET c == contents[l] IN
    \E i \in DOMAIN c : c[i] = o /\ Set(l, SubSeq(c, 1, i - 1) \o SubSeq(c, i + 1, Len(c)))

Next == \E l \in List, o \in Object : Push(l, o) \/ Unshift(l, o) \/ Remove(l, o)

Spec == Init /\ [][Next]_contents
=============================================================================
