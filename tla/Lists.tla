-------------------------------- MODULE Lists --------------------------------
(***************************************************************************)
(* Lists, as several components keep them (Vec::retain, Iterator::filter). *)
(***************************************************************************)
EXTENDS Naturals, Sequences

Distinct(s) == \A i, j \in DOMAIN s : s[i] = s[j] => i = j

(* The elements of s that are in S, in their order: SelectSeq, spelled out *)
(* because the prover has no definition of it.                             *)
Filter(s, S) ==
    LET kept[n \in 0..Len(s)] ==
            IF n = 0 THEN <<>>
            ELSE IF s[n] \in S THEN Append(kept[n - 1], s[n]) ELSE kept[n - 1]
    IN  kept[Len(s)]

(* The position of the first x in s. *)
Position(s, x) ==
    CHOOSE i \in DOMAIN s : s[i] = x /\ \A j \in DOMAIN s : j < i => s[j] # x

(* s without its first x, if there is one (VecDeque::remove). *)
RemoveOne(s, x) ==
    IF \E i \in DOMAIN s : s[i] = x
    THEN [j \in 1..(Len(s) - 1) |-> IF j < Position(s, x) THEN s[j] ELSE s[j + 1]]
    ELSE s
=============================================================================
