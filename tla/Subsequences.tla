---------------------------- MODULE Subsequences -----------------------------
(* SelectSeq for a set: the provers know nothing of the operator on tests.   *)
EXTENDS Integers, Sequences

(* The elements of s that are in S, in order. *)
Those(s, S) ==
    LET upTo[n \in 0..Len(s)] ==
            IF n = 0 THEN <<>>
            ELSE IF s[n] \in S THEN Append(upTo[n - 1], s[n]) ELSE upTo[n - 1] IN
    upTo[Len(s)]
=============================================================================
