------------------------ MODULE FeatureReplayProofs ------------------------
(* A row of either replay is a function of the past of its request, for any *)
(* tables, windows and clock; and the split, which sorts like the replay,   *)
(* makes the final replay reproduce the rows the model was fitted to.       *)
EXTENDS FeatureReplay, FiniteSetTheorems, TLAPS

-----------------------------------------------------------------------------
(* The two orders.                                                          *)

LEMMA BeforeIsOrder ==
    ASSUME NEW t \in Tables, NEW i \in Ids, NEW j \in Ids, NEW k \in Ids
    PROVE  /\ ~Before(t, i, i)
           /\ i # j => Before(t, i, j) \/ Before(t, j, i)
           /\ Before(t, i, j) /\ Before(t, j, k) => Before(t, i, k)
           /\ Before(t, i, j) => t[i].at <= t[j].at
BY TimesAssumption, SizeAssumption DEF Before, Ids

LEMMA SecondsAreInts ==
    ASSUME NEW t \in Tables, NEW i \in Ids
    PROVE  t[i].at \in Int /\ t[i].at \div Second \in Int
BY TimesAssumption, ClockAssumption

LEMMA SecondsFollow ==
    ASSUME NEW t \in Tables, NEW i \in Ids, NEW j \in Ids, t[i].at <= t[j].at
    PROVE  t[i].at \div Second <= t[j].at \div Second
BY TimesAssumption, ClockAssumption

LEMMA TextIsOrder ==
    ASSUME NEW t \in Tables, NEW i \in Ids, NEW j \in Ids, NEW k \in Ids
    PROVE  /\ ~TextBefore(t, i, i)
           /\ i # j => TextBefore(t, i, j) \/ TextBefore(t, j, i)
           /\ TextBefore(t, i, j) /\ TextBefore(t, j, k) => TextBefore(t, i, k)
<1> DEFINE second(x) == t[x].at \div Second
<1>1. second(i) \in Int /\ second(j) \in Int /\ second(k) \in Int
  BY SecondsAreInts
<1> HIDE DEF second
<1>2. \A x, y \in Ids : TextBefore(t, x, y) <=>
        \/ second(x) < second(y)
        \/ /\ second(x) = second(y)
           /\ (~Whole(t, x) /\ Whole(t, y)) \/ (Whole(t, x) = Whole(t, y) /\ Before(t, x, y))
  BY DEF TextBefore, second
<1>3. Whole(t, i) \in BOOLEAN /\ Whole(t, j) \in BOOLEAN /\ Whole(t, k) \in BOOLEAN
  BY DEF Whole
<1>4. ~TextBefore(t, i, i)
  BY <1>1, <1>2, BeforeIsOrder
<1>5. i # j => TextBefore(t, i, j) \/ TextBefore(t, j, i)
  BY <1>1, <1>2, <1>3, BeforeIsOrder
<1>6. TextBefore(t, i, j) /\ TextBefore(t, j, k) => TextBefore(t, i, k)
  BY <1>1, <1>2, <1>3, BeforeIsOrder
<1> QED BY <1>4, <1>5, <1>6

\* What the split sorts by.
Sorted(e, t, i, j) == IF e = "v1" THEN TextBefore(t, i, j) ELSE Before(t, i, j)

LEMMA SortedIsOrder ==
    ASSUME NEW e, NEW t \in Tables, NEW i \in Ids, NEW j \in Ids, NEW k \in Ids
    PROVE  /\ ~Sorted(e, t, i, i)
           /\ i # j => Sorted(e, t, i, j) \/ Sorted(e, t, j, i)
           /\ Sorted(e, t, i, j) /\ Sorted(e, t, j, k) => Sorted(e, t, i, k)
BY BeforeIsOrder, TextIsOrder DEF Sorted

\* The rank is strictly monotone in the order.
LEMMA RankFollows ==
    ASSUME NEW e, NEW t \in Tables, NEW i \in Ids, NEW j \in Ids
    PROVE  /\ Rank(e, t, i) \in Nat /\ Rank(e, t, j) \in Nat
           /\ Sorted(e, t, i, j) => Rank(e, t, i) < Rank(e, t, j)
<1> DEFINE Ahead(x) == {k \in Ids : Sorted(e, t, k, x)}
<1>1. IsFiniteSet(Ids)
  BY FS_Interval, SizeAssumption DEF Ids
<1>2. \A x \in Ids : IsFiniteSet(Ahead(x)) /\ Rank(e, t, x) = Cardinality(Ahead(x))
  BY <1>1, FS_Subset DEF Rank, Sorted
<1>3. \A x \in Ids : Rank(e, t, x) \in Nat
  BY <1>2, FS_CardinalityType
<1>4. ASSUME Sorted(e, t, i, j) PROVE Rank(e, t, i) < Rank(e, t, j)
  <2>1. Ahead(i) \subseteq Ahead(j) /\ i \in Ahead(j) /\ i \notin Ahead(i)
    BY <1>4, SortedIsOrder
  <2>2. Ahead(i) \subseteq Ahead(j) \ {i}
    BY <2>1
  <2>3. /\ IsFiniteSet(Ahead(j) \ {i})
        /\ Cardinality(Ahead(j) \ {i}) = Cardinality(Ahead(j)) - 1
    BY <1>2, <2>1, FS_RemoveElement
  <2>4. Cardinality(Ahead(i)) <= Cardinality(Ahead(j) \ {i})
    BY <2>2, <2>3, FS_Subset
  <2>5. Cardinality(Ahead(i)) \in Nat /\ Cardinality(Ahead(j)) \in Nat
    BY <1>2, FS_CardinalityType
  <2> HIDE DEF Ahead
  <2> QED BY <1>2, <2>3, <2>4, <2>5
<1> QED BY <1>3, <1>4

LEMMA PartitionsAreCuts ==
    ASSUME NEW k \in Nat, NEW l \in Nat
    PROVE  /\ PartitionAt(k) \in Partitions
           /\ k < l /\ PartitionAt(l) \in Development => PartitionAt(k) \in Development
           /\ \A p, q \in 1 .. 4 :
                PartitionAt(k) = PartitionOrder[p] /\ PartitionAt(l) = PartitionOrder[q] /\ p < q
                  => k < l
<1>1. Boundaries[1] \in Nat /\ Boundaries[2] \in Nat /\ Boundaries[3] \in Nat
  BY BoundariesAssumption, SizeAssumption
<1>2. Boundaries[1] <= Boundaries[2] /\ Boundaries[2] <= Boundaries[3]
  BY BoundariesAssumption
<1>3. \A x \in Nat : /\ PartitionAt(x) = "train" <=> x < Boundaries[1]
                     /\ PartitionAt(x) = "calibration" <=> x >= Boundaries[1] /\ x < Boundaries[2]
                     /\ PartitionAt(x) = "policy_selection"
                          <=> x >= Boundaries[2] /\ x < Boundaries[3]
                     /\ PartitionAt(x) = "final_test" <=> x >= Boundaries[3]
                     /\ PartitionAt(x) \in Partitions
  BY <1>1, <1>2 DEF PartitionAt, Partitions
<1>4. k < l /\ PartitionAt(l) \in Development => PartitionAt(k) \in Development
  BY <1>1, <1>2, <1>3 DEF Development, Partitions
<1>5. \A p, q \in 1 .. 4 :
        PartitionAt(k) = PartitionOrder[p] /\ PartitionAt(l) = PartitionOrder[q] /\ p < q => k < l
  <2>1. /\ PartitionOrder[1] = "train" /\ PartitionOrder[2] = "calibration"
        /\ PartitionOrder[3] = "policy_selection" /\ PartitionOrder[4] = "final_test"
    BY DEF PartitionOrder
  <2> QED BY <1>1, <1>2, <1>3, <2>1
<1> QED BY <1>3, <1>4, <1>5

-----------------------------------------------------------------------------
(* The invariant: the histories are a prefix of the replay order, and a row  *)
(* is the function Row of the past of its request and of the part that       *)
(* matured before it.                                                        *)

PastOf(i, parts) == {j \in Ids : partition[j] \in parts /\ Before(table, j, i)}
MaturedOf(i, parts) == {j \in PastOf(i, parts) : table[j].available < table[i].at}

RowOf(i, parts) == Row(i, PastOf(i, parts), MaturedOf(i, parts))

\* A row that a replay of these partitions returns.
Replays(i, parts, row) ==
    /\ partition[i] \in parts
    /\ engine = "v2" /\ parts = Partitions => partition[i] = "final_test"
    /\ row = RowOf(i, parts)

Scopes == IF scope = {} THEN {Development, Partitions} ELSE {scope}

Inputs ==
    /\ engine \in {"v1", "v2"}
    /\ table \in Tables
    /\ partition = Split(engine, table)
    /\ opened \in BOOLEAN
    /\ scope \in {{}, Development, Partitions}

Histories ==
    /\ claims \in SUBSET Ids
    /\ heap \cup matured = claims /\ heap \cap matured = {}
    /\ \A j \in matured : \E i \in claims : table[j].available < table[i].at
    /\ scope # {} =>
         /\ claims \subseteq ScopeIds
         /\ \A i \in claims : \A j \in ScopeIds : Before(table, j, i) => j \in claims

RowsReplay ==
    /\ DOMAIN rows = Ids /\ DOMAIN kept = Ids
    /\ \A i \in Ids : rows[i] # Absent => \E parts \in Scopes : Replays(i, parts, rows[i])
    /\ \A i \in Ids : kept[i] # Absent => Replays(i, Development, kept[i])

ReplayInv == Inputs /\ Histories /\ RowsReplay

LEMMA ScopesDiffer == Development # {} /\ Partitions # {} /\ Development # Partitions
BY DEF Development, Partitions

\* The next request of a replay has exactly the claims so far as its past.
LEMMA NextPast ==
    ASSUME ReplayInv, NEW i \in Ids, IsNext(i)
    PROVE  /\ scope # {} /\ i \in ScopeIds /\ i \notin claims
           /\ PastOf(i, scope) = claims
<1>1. i \in ScopeIds /\ i \notin claims
  BY DEF IsNext, Pending
<1>2. scope # {}
  BY <1>1 DEF ScopeIds
<1>3. PastOf(i, scope) \subseteq claims
  <2> SUFFICES ASSUME NEW j \in Ids, partition[j] \in scope, Before(table, j, i), j \notin claims
               PROVE  FALSE
    BY DEF PastOf
  <2>1. j # i
    BY BeforeIsOrder DEF ReplayInv, Inputs
  <2>2. Before(table, i, j)
    BY <2>1 DEF IsNext, Pending, ScopeIds
  <2> QED BY <2>2, BeforeIsOrder DEF ReplayInv, Inputs
<1>4. claims \subseteq PastOf(i, scope)
  <2> SUFFICES ASSUME NEW j \in claims
               PROVE  j \in PastOf(i, scope)
    OBVIOUS
  <2>1. j \in ScopeIds /\ j \in Ids /\ j # i
    BY <1>1, <1>2 DEF ReplayInv, Histories
  <2>2. ~Before(table, i, j)
    BY <1>1, <1>2 DEF ReplayInv, Histories
  <2>3. Before(table, j, i)
    BY <2>1, <2>2, BeforeIsOrder DEF ReplayInv, Inputs
  <2> QED BY <2>1, <2>3 DEF PastOf, ScopeIds
<1> QED BY <1>1, <1>2, <1>3, <1>4

\* What has matured by then, of the one heap or of the customer's, is what had
\* matured strictly before the decision.
LEMMA NextMatured ==
    ASSUME ReplayInv, NEW i \in Ids, IsNext(i)
    PROVE  /\ matured \cup Ripe(i) \subseteq MaturedOf(i, scope)
           /\ engine = "v2" => MaturedOf(i, scope) \subseteq matured \cup Ripe(i)
           /\ \A j \in MaturedOf(i, scope) : Same(i, j) => j \in matured \cup Ripe(i)
<1>1. scope # {} /\ PastOf(i, scope) = claims
  BY NextPast
<1>2. \A j \in claims : j \in Ids /\ Before(table, j, i)
  BY <1>1 DEF PastOf
<1>3. \A j \in matured : table[j].available < table[i].at
  <2> SUFFICES ASSUME NEW j \in matured, NEW k \in claims, table[j].available < table[k].at
               PROVE  table[j].available < table[i].at
    BY DEF ReplayInv, Histories
  <2>1. k \in Ids /\ j \in Ids /\ Before(table, k, i)
    BY <1>2 DEF ReplayInv, Histories
  <2>2. table[k].at <= table[i].at
    BY <2>1, BeforeIsOrder DEF ReplayInv, Inputs
  <2> QED BY <2>1, <2>2, TimesAssumption DEF ReplayInv, Inputs
<1>4. matured \cup Ripe(i) \subseteq MaturedOf(i, scope)
  BY <1>1, <1>3 DEF MaturedOf, Ripe, ReplayInv, Histories
<1>5. \A j \in MaturedOf(i, scope) : j \in matured \/ (j \in heap /\ table[j].available < table[i].at)
  BY <1>1 DEF MaturedOf, ReplayInv, Histories
<1> QED BY <1>4, <1>5 DEF Ripe, ReplayInv, Inputs

LEMMA NextRow ==
    ASSUME ReplayInv, NEW i \in Ids, IsNext(i)
    PROVE  Row(i, claims, matured \cup Ripe(i)) = RowOf(i, scope)
<1> DEFINE m == matured \cup Ripe(i)
<1>1. PastOf(i, scope) = claims
  BY NextPast
<1>2. CASE engine = "v1"
  <2>1. {j \in m : Same(i, j) /\ table[j].adverse}
          = {j \in MaturedOf(i, scope) : Same(i, j) /\ table[j].adverse}
    BY NextMatured
  <2> QED BY <1>1, <1>2, <2>1 DEF RowOf, Row, RowV1
<1>3. CASE engine = "v2"
  <2>1. m = MaturedOf(i, scope)
    BY <1>3, NextMatured
  <2> QED BY <1>1, <2>1 DEF RowOf
<1> QED BY <1>2, <1>3 DEF ReplayInv, Inputs

-----------------------------------------------------------------------------
(* The steps.                                                               *)

LEMMA InitReplay == Init => ReplayInv
<1> SUFFICES ASSUME Init PROVE ReplayInv
  OBVIOUS
<1>1. Inputs
  BY DEF Init, Inputs
<1>2. Histories
  BY DEF Init, Histories
<1>3. RowsReplay
  BY DEF Init, RowsReplay, NoRows
<1> QED BY <1>1, <1>2, <1>3 DEF ReplayInv

\* While the table and its partitions stay, so does what a row ought to be.
LEMMA SameRows ==
    ASSUME UNCHANGED <<engine, table, partition>>, NEW i, NEW parts
    PROVE  RowOf(i, parts)' = RowOf(i, parts)
BY DEF RowOf, PastOf, MaturedOf, Before, Row, RowV1, RowV2, OrdersOf, ClaimsOf, Links, Same

LEMMA StartReplay ==
    ASSUME ReplayInv, NEW parts \in {Development, Partitions}, Start(parts)
    PROVE  ReplayInv'
<1>1. Inputs'
  BY DEF Start, ReplayInv, Inputs, Split, Rank, TextBefore, Before, Whole
<1>2. Histories'
  BY DEF Start, Histories
<1>3. RowsReplay'
  BY SameRows DEF Start, ReplayInv, RowsReplay, NoRows, Replays
<1> QED BY <1>1, <1>2, <1>3 DEF ReplayInv

LEMMA RequestReplay ==
    ASSUME ReplayInv, NEW i \in Ids, Replay(i)
    PROVE  ReplayInv'
<1> USE DEF Replay
<1>1. Inputs'
  BY DEF ReplayInv, Inputs
<1>2. /\ scope # {} /\ i \in ScopeIds /\ i \notin claims
      /\ PastOf(i, scope) = claims
  BY NextPast
<1>3. Histories'
  <2>1. claims' \in SUBSET Ids
    BY DEF ReplayInv, Histories
  <2>2. heap' \cup matured' = claims' /\ heap' \cap matured' = {}
    BY <1>2 DEF ReplayInv, Histories, Ripe
  <2>3. \A j \in matured' : \E k \in claims' : table'[j].available < table'[k].at
    BY DEF ReplayInv, Histories, Ripe
  <2>4. claims' \subseteq ScopeIds' /\ scope' = scope
    BY <1>2 DEF ReplayInv, Histories, ScopeIds
  <2>5. \A k \in claims' : \A j \in ScopeIds' : Before(table', j, k) => j \in claims'
    <3> SUFFICES ASSUME NEW k \in claims \cup {i}, NEW j \in ScopeIds, Before(table, j, k)
                 PROVE  j \in claims \cup {i}
      BY DEF ScopeIds
    <3>1. CASE k = i
      BY <1>2, <3>1 DEF PastOf, ScopeIds
    <3>2. CASE k \in claims
      BY <1>2, <3>2 DEF ReplayInv, Histories
    <3> QED BY <3>1, <3>2
  <2> QED BY <2>1, <2>2, <2>3, <2>4, <2>5 DEF Histories
<1>4. RowsReplay'
  <2>1. DOMAIN rows' = Ids /\ DOMAIN kept' = Ids /\ kept' = kept
    BY DEF ReplayInv, RowsReplay
  <2>2. ASSUME Returned(i)
        PROVE  Replays(i, scope, Row(i, claims, matured \cup Ripe(i)))
    <3>1. partition[i] \in scope
      BY <1>2 DEF ScopeIds
    <3>2. engine = "v2" /\ scope = Partitions => partition[i] = "final_test"
      BY <2>2 DEF Returned, Partitions
    <3> QED BY <3>1, <3>2, NextRow DEF Replays
  <2>3. \A j \in Ids : rows'[j] # Absent => Replays(j, scope, rows'[j])
    <3> SUFFICES ASSUME NEW j \in Ids, rows'[j] # Absent
                 PROVE  Replays(j, scope, rows'[j])
      OBVIOUS
    <3>1. CASE j = i /\ Returned(i)
      <4>1. rows'[i] = Row(i, claims, matured \cup Ripe(i))
        BY <3>1 DEF ReplayInv, RowsReplay
      <4> QED BY <2>2, <3>1, <4>1
    <3>2. CASE ~(j = i /\ Returned(i))
      <4>1. rows'[j] = rows[j]
        BY <3>2 DEF ReplayInv, RowsReplay
      <4> QED BY <1>2, <4>1 DEF ReplayInv, RowsReplay, Scopes
    <3> QED BY <3>1, <3>2
  <2>4. Scopes' = {scope}
    BY <1>2 DEF Scopes
  <2>5. (\A j \in Ids : rows[j] # Absent => \E parts \in Scopes : Replays(j, parts, rows[j]))'
    BY <2>3, <2>4, SameRows DEF Replays
  <2>6. (\A j \in Ids : kept[j] # Absent => Replays(j, Development, kept[j]))'
    BY <2>1, SameRows DEF ReplayInv, RowsReplay, Replays
  <2> QED BY <2>1, <2>5, <2>6 DEF RowsReplay
<1> QED BY <1>1, <1>3, <1>4 DEF ReplayInv

LEMMA FinishReplay ==
    ASSUME ReplayInv, Finish
    PROVE  ReplayInv'
<1> USE DEF Finish, replayVars
<1>1. Inputs'
  BY DEF ReplayInv, Inputs
<1>2. Histories'
  BY DEF ReplayInv, Histories
<1>3. RowsReplay'
  <2>1. DOMAIN rows' = Ids /\ DOMAIN kept' = Ids
    BY DEF ReplayInv, RowsReplay
  <2>2. scope \in {Development, Partitions} /\ Scopes = {scope}
    BY DEF ReplayInv, Inputs, Scopes
  <2>3. Scopes' = {Development, Partitions}
    BY DEF Scopes
  <2>4. (\A i \in Ids : rows[i] # Absent => \E parts \in Scopes : Replays(i, parts, rows[i]))'
    BY <2>2, <2>3, SameRows DEF ReplayInv, RowsReplay, Replays
  <2>5. \A i \in Ids : kept'[i] # Absent => Replays(i, Development, kept'[i])
    BY <2>2 DEF ReplayInv, RowsReplay
  <2>6. (\A i \in Ids : kept[i] # Absent => Replays(i, Development, kept[i]))'
    BY <2>5, SameRows DEF Replays
  <2> QED BY <2>1, <2>4, <2>6 DEF RowsReplay
<1> QED BY <1>1, <1>2, <1>3 DEF ReplayInv

LEMMA StepReplay == ReplayInv /\ [Next]_vars => ReplayInv'
<1> SUFFICES ASSUME ReplayInv, [Next]_vars PROVE ReplayInv'
  OBVIOUS
<1>1. CASE StartDevelopment
  BY <1>1, StartReplay DEF StartDevelopment
<1>2. CASE StartFinal
  BY <1>2, StartReplay DEF StartFinal
<1>3. CASE OpenTruth \/ UNCHANGED vars
  <2>1. /\ UNCHANGED <<engine, table, partition, scope, replayVars, kept>>
        /\ opened' \in BOOLEAN
    BY <1>3 DEF OpenTruth, vars, ReplayInv, Inputs
  <2>2. Inputs' /\ Histories'
    BY <2>1 DEF ReplayInv, Inputs, Histories, replayVars, ScopeIds
  <2>3. RowsReplay'
    BY <2>1, SameRows DEF ReplayInv, RowsReplay, Scopes, replayVars, Replays
  <2> QED BY <2>2, <2>3 DEF ReplayInv
<1>4. CASE Finish
  BY <1>4, FinishReplay
<1>5. CASE \E i \in Ids : Replay(i)
  BY <1>5, RequestReplay
<1> QED BY <1>1, <1>2, <1>3, <1>4, <1>5 DEF Next

\* The inductive invariant, for every table, split and clock.
THEOREM ReplayInvariance == Spec => []ReplayInv
<1>1. Init => ReplayInv
  BY InitReplay
<1>2. ReplayInv /\ [Next]_vars => ReplayInv'
  BY StepReplay
<1> QED BY <1>1, <1>2, PTL DEF Spec

-----------------------------------------------------------------------------
(* What follows.                                                            *)

\* Types, and every request in the histories waits or has matured, never both.
THEOREM ReplayTyped == Spec => []TypeOK
<1>1. ReplayInv => TypeOK
  <2> SUFFICES ASSUME ReplayInv PROVE TypeOK
    OBVIOUS
  <2>1. partition \in [Ids -> Partitions]
    <3>1. \A i \in Ids : PartitionAt(Rank(engine, table, i)) \in Partitions
      BY RankFollows, PartitionsAreCuts DEF ReplayInv, Inputs
    <3> QED BY <3>1 DEF ReplayInv, Inputs, Split
  <2> QED BY <2>1 DEF TypeOK, ReplayInv, Inputs, Histories, RowsReplay
<1> QED BY <1>1, ReplayInvariance, PTL

\* features/engine.py and v2/features.py: a row holds exactly the requests that
\* precede its own in replay order and the outcomes matured before it, for any
\* number of requests, customers, ties and windows.
THEOREM PointInTime == Spec => []RowsArePointInTime
<1>1. ReplayInv => RowsArePointInTime
  <2> SUFFICES ASSUME ReplayInv, scope # {}, NEW i \in Ids, rows[i] # Absent
               PROVE  /\ rows[i].last30 = Within(i, Days30)
                      /\ rows[i].last90 = Within(i, Days90)
                      /\ rows[i].adverse = {j \in Known(i) : Same(i, j) /\ table[j].adverse}
                      /\ engine = "v1" =>
                           rows[i].returnless =
                             {j \in Earlier(i) : Same(i, j) /\ table[j].returnless}
                      /\ engine = "v2" =>
                           /\ rows[i].outcomes = {j \in Known(i) : Same(i, j)}
                           /\ rows[i].category =
                                {j \in Known(i) : table[j].category = table[i].category}
                           /\ rows[i].defects = {j \in rows[i].category :
                                table[j].reason = "damaged" /\ ~table[j].adverse}
                           /\ rows[i].history = {j \in Earlier(i) : Same(i, j)}
                           /\ rows[i].reasons =
                                {j \in rows[i].history : table[j].reason = table[i].reason}
                           /\ rows[i].connected = Links(i, Earlier(i))
                           /\ rows[i].linked = Links(i, Known(i))
                           /\ rows[i].peers = Earlier(i)
    BY DEF RowsArePointInTime
  <2>1. rows[i] = Row(i, PastOf(i, scope), MaturedOf(i, scope))
    BY DEF ReplayInv, RowsReplay, Scopes, Replays, RowOf
  <2>2. scope = Development \/ scope = Partitions
    BY DEF ReplayInv, Inputs
  <2>3. Replayed = {j \in Ids : partition[j] \in scope}
    BY <2>2 DEF Replayed, Development, Partitions
  <2>4. PastOf(i, scope) = Earlier(i) /\ MaturedOf(i, scope) = Known(i)
    BY <2>3 DEF PastOf, MaturedOf, Earlier, Past, Tied, Before, Known
  <2>5. \A days \in {Days30, Days90} :
          ClaimsOf(i, Earlier(i), table[i].at - days) = Within(i, days)
    <3>1. \A j \in Ids : table[j].at \in Int
      BY TimesAssumption DEF ReplayInv, Inputs
    <3>2. Days30 \in Int /\ Days90 \in Int
      BY ClockAssumption
    <3>3. \A j \in Earlier(i) : j \in Ids
      BY DEF Earlier, Past, Tied, Replayed
    <3> QED BY <3>1, <3>2, <3>3 DEF ClaimsOf, Within
  <2>6. CASE engine = "v1"
    <3>1. rows[i] = RowV1(i, Earlier(i), Known(i))
      BY <2>1, <2>4, <2>6 DEF Row
    <3> QED BY <2>5, <2>6, <3>1 DEF RowV1
  <2>7. CASE engine = "v2"
    <3>1. rows[i] = RowV2(i, Earlier(i), Known(i))
      BY <2>1, <2>4, <2>7 DEF Row
    <3>2. /\ rows[i].last30 = Within(i, Days30)
          /\ rows[i].last90 = Within(i, Days90)
          /\ rows[i].adverse = {j \in Known(i) : Same(i, j) /\ table[j].adverse}
      BY <2>5, <3>1 DEF RowV2
    <3>3. /\ rows[i].outcomes = {j \in Known(i) : Same(i, j)}
          /\ rows[i].category = {j \in Known(i) : table[j].category = table[i].category}
          /\ rows[i].defects = {j \in Known(i) : /\ table[j].category = table[i].category
                                                 /\ table[j].reason = "damaged"
                                                 /\ ~table[j].adverse}
          /\ rows[i].history = {j \in Earlier(i) : Same(i, j)}
          /\ rows[i].reasons =
               {j \in Earlier(i) : Same(i, j) /\ table[j].reason = table[i].reason}
          /\ rows[i].connected = Links(i, Earlier(i))
          /\ rows[i].linked = Links(i, Known(i))
          /\ rows[i].peers = Earlier(i)
      BY <3>1 DEF RowV2
    <3> QED BY <2>7, <3>2, <3>3
  <2> QED BY <2>6, <2>7 DEF ReplayInv, Inputs
<1> QED BY <1>1, ReplayInvariance, PTL

\* Where the split sorts by time, the past of a development request lies in the
\* development partitions.
LEMMA DevelopmentPast ==
    ASSUME ReplayInv, engine = "v2" \/ TextIsTime, NEW i \in Ids, partition[i] \in Development
    PROVE  PastOf(i, Partitions) = PastOf(i, Development)
<1>1. Development \subseteq Partitions
  BY DEF Development, Partitions
<1>2. ASSUME NEW j \in Ids, Before(table, j, i)
      PROVE  partition[j] \in Development
  <2>1. Sorted(engine, table, j, i)
    BY <1>2 DEF Sorted, TextIsTime, ReplayInv, Inputs
  <2>2. /\ Rank(engine, table, j) \in Nat /\ Rank(engine, table, i) \in Nat
        /\ Rank(engine, table, j) < Rank(engine, table, i)
    BY <2>1, RankFollows DEF ReplayInv, Inputs
  <2>3. /\ partition[i] = PartitionAt(Rank(engine, table, i))
        /\ partition[j] = PartitionAt(Rank(engine, table, j))
    BY DEF ReplayInv, Inputs, Split
  <2> QED BY <2>2, <2>3, PartitionsAreCuts
<1> QED BY <1>1, <1>2 DEF PastOf

\* The final replay reproduces the rows the model was fitted to, for any table
\* whose text order is its time order (v1) and any table at all (v2).
THEOREM DevelopmentReproduced == Spec => []DevelopmentRowsStable
<1>1. ReplayInv => DevelopmentRowsStable
  <2> SUFFICES ASSUME ReplayInv, engine = "v2" \/ TextIsTime, NEW i \in Ids,
                      kept[i] # Absent, rows[i] # Absent
               PROVE  kept[i] = rows[i]
    BY DEF DevelopmentRowsStable
  <2>1. Replays(i, Development, kept[i])
    BY DEF ReplayInv, RowsReplay
  <2>2. PICK parts \in {Development, Partitions} : Replays(i, parts, rows[i])
    BY DEF ReplayInv, RowsReplay, Scopes, Inputs
  <2>3. partition[i] \in Development
    BY <2>1 DEF Replays
  <2>4. PastOf(i, parts) = PastOf(i, Development)
    BY <2>2, <2>3, DevelopmentPast
  <2>5. MaturedOf(i, parts) = MaturedOf(i, Development)
    BY <2>4 DEF MaturedOf
  <2> QED BY <2>1, <2>2, <2>4, <2>5 DEF Replays, RowOf
<1> QED BY <1>1, ReplayInvariance, PTL

\* data/splitter.py and v2/generator.py: a later partition is not older by a
\* second, nor at all where text order is time order, wherever the cuts fall.
THEOREM TimeOrdersPartitions == Spec => []PartitionsFollowTime
<1>1. ReplayInv => PartitionsFollowTime
  <2> SUFFICES ASSUME ReplayInv, NEW i \in Ids, NEW j \in Ids, NEW p \in 1 .. 4, NEW q \in 1 .. 4,
                      partition[i] = PartitionOrder[p], partition[j] = PartitionOrder[q], p < q
               PROVE  /\ table[i].at \div Second <= table[j].at \div Second
                      /\ (engine = "v2" \/ TextIsTime) => table[i].at <= table[j].at
    BY DEF PartitionsFollowTime
  <2>1. table \in Tables
    BY DEF ReplayInv, Inputs
  <2>2. /\ partition[i] = PartitionAt(Rank(engine, table, i))
        /\ partition[j] = PartitionAt(Rank(engine, table, j))
    BY DEF ReplayInv, Inputs, Split
  <2>3. /\ Rank(engine, table, i) \in Nat /\ Rank(engine, table, j) \in Nat
        /\ Sorted(engine, table, j, i) => Rank(engine, table, j) < Rank(engine, table, i)
    BY <2>1, RankFollows
  <2>4. Rank(engine, table, i) < Rank(engine, table, j)
    BY <2>2, <2>3, PartitionsAreCuts
  <2>5. i # j /\ ~Sorted(engine, table, j, i)
    BY <2>3, <2>4
  <2>6. Sorted(engine, table, i, j)
    BY <2>1, <2>5, SortedIsOrder
  <2>7. Before(table, i, j) => /\ table[i].at <= table[j].at
                               /\ table[i].at \div Second <= table[j].at \div Second
    BY <2>1, BeforeIsOrder, SecondsFollow
  <2>8. TextBefore(table, i, j) => table[i].at \div Second <= table[j].at \div Second
    BY <2>1, SecondsAreInts DEF TextBefore
  <2>9. (engine = "v2" \/ TextIsTime) => Before(table, i, j)
    BY <2>6 DEF Sorted, TextIsTime, ReplayInv, Inputs
  <2> QED BY <2>6, <2>7, <2>8, <2>9 DEF Sorted
<1> QED BY <1>1, ReplayInvariance, PTL
=============================================================================
