------------------------- MODULE MCPolicySelection -------------------------
(* An instance of PolicySelection for TLC: three rows, a grid of four       *)
(* contracts per lane, the deployed costs in units of 500 paise.            *)
EXTENDS PolicySelection

DeployedCosts ==
    [verification |-> 5, review |-> 12, verificationFriction |-> 9, reviewFriction |-> 24,
     delay |-> 5, logistics |-> 18, loss |-> 35, salvage |-> 45, residual |-> 28,
     maxReview |-> 340, maxDelay |-> 500, alpha |-> 1]

\* v1 loops over the delay rate outside and the review rate inside.
SmallGrid == [l \in Lanes |->
    IF l = "v1" THEN <<<<750, 950>>, <<750, 700>>, <<500, 950>>, <<500, 700>>>>
    ELSE <<<<400, 800>>, <<400, 950>>, <<600, 800>>, <<600, 950>>>>]

ASSUME DeployedCostsAreSuch == VerifyingIsCheaper

Unknown(l) == IF l = "v1" THEN "inconclusive" ELSE "evidence_inconclusive"

\* Abuse found out, abuse missed, cleared customers, customers without evidence.
Row(l, score, amount, kind) ==
    [score |-> score, amount |-> amount, abuse |-> kind \in {1, 2},
     result |-> CASE kind = 1 -> "inconsistent" [] kind \in {2, 3} -> "consistent"
                  [] OTHER -> Unknown(l)]

Sorted(n) == {s \in [1 .. n -> {1, 2, 5, 8}] : \A i, j \in 1 .. n : i < j => s[i] <= s[j]}

SmallFrames == [l \in Lanes |->
    {[i \in 1 .. 3 |-> Row(l, s[i], a[i], k[i])] :
        s \in Sorted(3), a \in {[i \in 1 .. 3 |-> 2], [i \in 1 .. 3 |-> 20 * i]},
        k \in [1 .. 3 -> 1 .. 4]}]

SmallSupports == [l \in Lanes |->
    {[label \in {"abuse", "legitimate"} |->
        [r \in Results(l) |->
            CASE r = "consistent" -> IF label = "abuse" THEN c ELSE 2
              [] r = "inconsistent" -> IF label = "abuse" THEN 2 ELSE n
              [] r = Unknown(l) -> IF label = "abuse" THEN u ELSE 1
              [] OTHER -> 1]] : c \in {0, 2}, n \in {0, 9}, u \in {0, 1, 3}}]
=============================================================================
