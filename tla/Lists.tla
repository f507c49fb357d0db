--------------------------------- MODULE Lists ---------------------------------
(***************************************************************************)
(* Loops over a list that leave elements of it out.                        *)
(***************************************************************************)
EXTENDS Integers, SequencesExt

(* What is left of a sequence without the elements in set.                 *)
Without(seq, set) ==
  FlattenSeq([i \in DOMAIN seq |-> IF seq[i] \in set THEN << >> ELSE <<seq[i]>>])

(* The first occurrence of each element, in order.                         *)
FirstSeen(seq) ==
  LET out[k \in 0..Len(seq)] ==
        IF k = 0 THEN << >>
        ELSE IF Contains(out[k - 1], seq[k]) THEN out[k - 1] ELSE Append(out[k - 1], seq[k])
  IN  out[Len(seq)]
=============================================================================
