----------------------------- MODULE Selection -----------------------------
(***************************************************************************)
(* Going through a sequence and keeping some of its members.               *)
(***************************************************************************)
EXTENDS Integers, SequencesExt

(* The members of s at the positions in P.                                 *)
Selected(s, P) ==
  LET kept[n \in 0..Len(s)] ==
        IF n = 0 THEN <<>>
        ELSE IF n \in P THEN Append(kept[n - 1], s[n]) ELSE kept[n - 1]
  IN kept[Len(s)]

=============================================================================
