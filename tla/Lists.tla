-------------------------------- MODULE Lists --------------------------------
(* What a loop over a list builds, in a form that proofs can expand.        *)
EXTENDS SequencesExt

\* The elements of s that are in S, in their order: SelectSeq.
Only(s, S) ==
  LET pick[n \in 0..Len(s)] ==
        IF n = 0 THEN <<>>
        ELSE IF s[n] \in S THEN Append(pick[n - 1], s[n])
        ELSE pick[n - 1]
  IN  pick[Len(s)]

\* What Op makes of base with one element of s after the other: FoldLeft.
Loop(Op(_, _), base, s) ==
  LET after[n \in 0..Len(s)] ==
        IF n = 0 THEN base ELSE Op(after[n - 1], s[n])
  IN  after[Len(s)]

=============================================================================
