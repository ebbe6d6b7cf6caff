-------------------------------- MODULE Lists -------------------------------
(***************************************************************************)
(* What the loops that build a slice one append at a time come to.         *)
(***************************************************************************)
EXTENDS Integers, Sequences, SequencesExt

(* The elements of a list that are in a set, in the list's order. *)
Kept(list, set) ==
  LET kept[i \in 0..Len(list)] ==
        IF i = 0 THEN <<>>
        ELSE IF list[i] \in set THEN Append(kept[i - 1], list[i])
        ELSE kept[i - 1]
  IN  kept[Len(list)]
=============================================================================
