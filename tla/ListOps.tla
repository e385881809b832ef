------------------------------- MODULE ListOps ------------------------------
(* Lists as the code's loops over them build them, a member at a time.      *)
EXTENDS Naturals, Sequences

\* filter: the members of s that keep says, in their order.
Filtered(s, keep) ==
    LET kept[n \in 0..Len(s)] ==
            IF n = 0 THEN <<>> ELSE IF keep[n] THEN Append(kept[n - 1], s[n]) ELSE kept[n - 1]
    IN  kept[Len(s)]

\* reduce with addition: the sum of the members of s.
Summed(s) ==
    LET total[n \in 0..Len(s)] == IF n = 0 THEN 0 ELSE total[n - 1] + s[n]
    IN  total[Len(s)]
=============================================================================
