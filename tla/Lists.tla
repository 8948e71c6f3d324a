-------------------------------- MODULE Lists --------------------------------
(***************************************************************************)
(* Lists, and what the programs do to them in a loop.                      *)
(***************************************************************************)
EXTENDS Integers, Sequences, SequencesExt

IsList(s) == s \in Seq(ToSet(s))

\* [x for x in s if x in kept], in the order of s.
Filtered(s, kept) ==
    LET upTo[n \in 0 .. Len(s)] ==
          IF n = 0 THEN <<>>
          ELSE IF s[n] \in kept THEN Append(upTo[n - 1], s[n]) ELSE upTo[n - 1]
    IN  upTo[Len(s)]
=============================================================================
