-------------------------- MODULE MCFeatureReplay --------------------------
(* An instance of FeatureReplay for TLC: four requests, one per partition,  *)
(* of one or two customers, in one order of ids and any order of times,     *)
(* with two requests at one instant, on a whole second and within one.      *)
EXTENDS FeatureReplay

Instants == {4, 5, 7}
Delays == {1, 3}
Cuts == <<1, 2, 3>>

\* Request 2 is for an order placed long before, request 3 is legitimate.  The
\* outcomes of the first two mature soon or late, the others' soon.
Request(i, c, t, d) ==
    [customer |-> c, at |-> t, ordered |-> IF i = 2 THEN 1 ELSE t - 1,
     returnless |-> i # 1, reason |-> IF i = 4 THEN "other" ELSE "damaged",
     category |-> IF i = 2 THEN "home" ELSE "apparel",
     entities |-> IF i = 3 THEN {"address1", "device1"} ELSE {"address1"},
     valid |-> TRUE, adverse |-> i # 3, available |-> t + d]

SoundTables ==
    {[i \in Ids |-> Request(i, IF i = 1 THEN "ann" ELSE c[i], t[i], IF i > 2 THEN 1 ELSE d[i])] :
        c \in [2 .. N -> {"ann", "bob"}], t \in [Ids -> Instants], d \in [1 .. 2 -> Delays]}

\* A table whose second claim fails the payment checks.
InvalidTable ==
    [i \in Ids |-> [Request(i, "ann", 5, 1) EXCEPT !.valid = i # 2]]

AllTables == SoundTables \cup {InvalidTable}
=============================================================================
