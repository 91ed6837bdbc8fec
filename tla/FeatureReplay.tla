--------------------------- MODULE FeatureReplay ---------------------------
(***************************************************************************)
(* The point-in-time features of the two benchmarks: the chronological     *)
(* split, the sealed final truth and the two replay engines, which walk    *)
(* the refund requests in time order and compute the row of each from      *)
(* histories it enters only afterwards.                                    *)
(*                                                                         *)
(* A count is the set of what it counts, so a property can ask which event *)
(* reached a row.  The engines share the walk and differ in which outcomes *)
(* they mature, in the features of a row and in the rows they return.      *)
(***************************************************************************)
EXTENDS Integers, FiniteSets

CONSTANTS
    N,            \* number of refund requests
    Boundaries,   \* <<b1, b2, b3>>: how many requests precede each later partition
    Tables,       \* request tables the generator can produce
    Second,       \* ticks of the clock in a second
    Days30, Days90, \* the two windows, in ticks
    Absent        \* no row

Ids == 1 .. N
Partitions == {"train", "calibration", "policy_selection", "final_test"}
Development == {"train", "calibration", "policy_selection"}

\* What the engines look at of a request, of its order and of its outcome.
Requests == [customer : STRING, at : Int, ordered : Int, returnless : BOOLEAN,
             reason : STRING, category : STRING, entities : SUBSET STRING,
             valid : BOOLEAN, adverse : BOOLEAN, available : Int]

ASSUME SizeAssumption == N \in Nat
ASSUME BoundariesAssumption ==
    /\ Boundaries \in [1 .. 3 -> 0 .. N]
    /\ Boundaries[1] <= Boundaries[2] /\ Boundaries[2] <= Boundaries[3]
ASSUME TablesAssumption == \A t \in Tables : DOMAIN t = Ids
ASSUME TimesAssumption ==
    \A t \in Tables : \A i \in Ids : t[i].at \in Int /\ t[i].available \in Int
ASSUME ClockAssumption == Second \in Nat \ {0} /\ Days30 \in Nat /\ Days90 \in Nat

VARIABLES
    engine,     \* which benchmark this is: "v1" or "v2"
    table,      \* refund_requests.csv with its orders, before redaction
    partition,  \* its partition column
    opened,     \* may the final truth be merged into the table
    scope,      \* the partitions being replayed, {} between replays
    claims,     \* requests that have entered the histories
    heap,       \* outcomes waiting to mature
    matured,    \* outcomes popped from the heap
    rows,       \* feature rows of this replay, or of the last one
    kept        \* rows of the first development replay: what the model is fitted to

replayVars == <<claims, heap, matured, rows>>
vars == <<engine, table, partition, opened, scope, replayVars, kept>>

-----------------------------------------------------------------------------
(* Orders on the requests, and the split.                                   *)

Before(t, i, j) == t[i].at < t[j].at \/ (t[i].at = t[j].at /\ i < j)

Whole(t, i) == t[i].at % Second = 0

\* Timestamps are sorted as ISO text in v1, and isoformat() leaves out a zero
\* fraction: "...07Z" comes after "...07.5Z".
TextBefore(t, i, j) ==
    \/ t[i].at \div Second < t[j].at \div Second
    \/ /\ t[i].at \div Second = t[j].at \div Second
       /\ \/ ~Whole(t, i) /\ Whole(t, j)
          \/ Whole(t, i) = Whole(t, j) /\ Before(t, i, j)

\* Mutant: cut by order of id.
RankById(e, t, i) == i - 1

Rank(e, t, i) ==
    Cardinality({j \in Ids : IF e = "v1" THEN TextBefore(t, j, i) ELSE Before(t, j, i)})

PartitionAt(k) ==
    CASE k < Boundaries[1] -> "train"
      [] k >= Boundaries[1] /\ k < Boundaries[2] -> "calibration"
      [] k >= Boundaries[2] /\ k < Boundaries[3] -> "policy_selection"
      [] OTHER -> "final_test"

Split(e, t) == [i \in Ids |-> PartitionAt(Rank(e, t, i))]

-----------------------------------------------------------------------------
(* The row of request i after claims c and matured outcomes m.              *)

Same(i, j) == table[i].customer = table[j].customer

\* The customer's orders before the request.  orders.csv of v1 also has orders
\* nobody asks a refund for; only those of a request are modelled, and no
\* property counts orders.
OrdersOf(i) == {j \in Ids : Same(i, j) /\ table[j].ordered < table[i].at}
ClaimsOf(i, c, from) == {j \in c : Same(i, j) /\ table[j].at >= from}

\* The claims of c that share an address or a device with request i.
Links(i, c) == {link \in table[i].entities \X c : link[1] \in table[link[2]].entities}

RowV1(i, c, m) ==
    [orders     |-> OrdersOf(i),
     last30     |-> ClaimsOf(i, c, table[i].at - Days30),
     last90     |-> ClaimsOf(i, c, table[i].at - Days90),
     adverse    |-> {j \in m : Same(i, j) /\ table[j].adverse},
     returnless |-> {j \in c : Same(i, j) /\ table[j].returnless}]

\* A rate is the pair of sets it divides; the peer rate divides all claims by
\* every order of orders.csv.
RowV2(i, c, m) ==
    [orders    |-> OrdersOf(i),
     last30    |-> ClaimsOf(i, c, table[i].at - Days30),
     last90    |-> ClaimsOf(i, c, table[i].at - Days90),
     adverse   |-> {j \in m : Same(i, j) /\ table[j].adverse},
     outcomes  |-> {j \in m : Same(i, j)},
     defects   |-> {j \in m : /\ table[j].category = table[i].category
                              /\ table[j].reason = "damaged" /\ ~table[j].adverse},
     category  |-> {j \in m : table[j].category = table[i].category},
     reasons   |-> {j \in c : Same(i, j) /\ table[j].reason = table[i].reason},
     history   |-> {j \in c : Same(i, j)},
     connected |-> Links(i, c),
     linked    |-> Links(i, m),
     peers     |-> c,
     catalogue |-> Ids]

Row(i, c, m) == IF engine = "v1" THEN RowV1(i, c, m) ELSE RowV2(i, c, m)

-----------------------------------------------------------------------------
(* A replay.                                                                *)

ScopeIds == {i \in Ids : partition[i] \in scope}
Pending == ScopeIds \ claims
IsNext(i) == i \in Pending /\ \A j \in Pending \ {i} : Before(table, i, j)

NoRows == [i \in Ids |-> Absent]

Init ==
    /\ engine \in {"v1", "v2"}
    /\ table \in Tables
    /\ partition = Split(engine, table)
    /\ opened = FALSE
    /\ scope = {} /\ claims = {} /\ heap = {} /\ matured = {}
    /\ rows = NoRows /\ kept = NoRows

\* A replay starts from empty histories.
Start(parts) ==
    /\ scope = {}
    /\ scope' = parts
    /\ claims' = {} /\ heap' = {} /\ matured' = {}
    /\ rows' = NoRows
    /\ UNCHANGED <<engine, table, partition, opened, kept>>

\* v2 first refuses a table with a payment-invalid claim in it.
LaneIsValid == \A i \in Ids : table[i].valid

StartDevelopment ==
    /\ engine = "v2" => LaneIsValid
    /\ Start(Development)

\* The final partition needs the grant of the evaluator, which has the truth.
StartFinal ==
    /\ opened
    /\ engine = "v2" => LaneIsValid
    /\ Start(Partitions)

\* v1 merges the truth into copies of the tables, v2 into the frame it reads.
OpenTruth ==
    /\ scope = {} /\ ~opened
    /\ opened' = TRUE
    /\ UNCHANGED <<engine, table, partition, scope, replayVars, kept>>

\* Mutant: a matured outcome counts from its own instant on.
RipeAtOnce(i) == {j \in heap : /\ table[j].available <= table[i].at
                               /\ engine = "v1" => Same(i, j)}

\* v1 keeps a heap per customer and looks at that of the request alone.
Ripe(i) == {j \in heap : /\ table[j].available < table[i].at
                         /\ engine = "v1" => Same(i, j)}

\* v2 replays the development history for the final rows but returns only these.
Returned(i) ==
    IF engine = "v2" /\ "final_test" \in scope THEN partition[i] = "final_test" ELSE TRUE

\* Mutant: an outcome is counted but left in the heap.
ReplayPeeking(i) ==
    /\ IsNext(i)
    /\ matured' = matured \cup Ripe(i)
    /\ rows' = IF Returned(i) THEN [rows EXCEPT ![i] = Row(i, claims, matured \cup Ripe(i))] ELSE rows
    /\ claims' = claims \cup {i}
    /\ heap' = heap \cup {i}
    /\ UNCHANGED <<engine, table, partition, opened, scope, kept>>

\* Compute, then update.
Replay(i) ==
    /\ IsNext(i)
    /\ matured' = matured \cup Ripe(i)
    /\ rows' = IF Returned(i) THEN [rows EXCEPT ![i] = Row(i, claims, matured \cup Ripe(i))] ELSE rows
    /\ claims' = claims \cup {i}
    /\ heap' = (heap \ Ripe(i)) \cup {i}
    /\ UNCHANGED <<engine, table, partition, opened, scope, kept>>

Finish ==
    /\ scope # {} /\ Pending = {}
    /\ scope' = {}
    /\ kept' = IF kept = NoRows /\ scope = Development THEN rows ELSE kept
    /\ UNCHANGED <<engine, table, partition, opened, replayVars>>

Next ==
    \/ StartDevelopment \/ StartFinal \/ OpenTruth \/ Finish
    \/ \E i \in Ids : Replay(i)

Spec == Init /\ [][Next]_vars

-----------------------------------------------------------------------------
(* Properties.                                                              *)

\* Types; every request in the histories waits in a heap or has matured, once.
TypeOK ==
    /\ engine \in {"v1", "v2"}
    /\ table \in Tables
    /\ partition \in [Ids -> Partitions]
    /\ opened \in BOOLEAN
    /\ scope \in {{}, Development, Partitions}
    /\ claims \in SUBSET Ids
    /\ heap \cup matured = claims /\ heap \cap matured = {}
    /\ DOMAIN rows = Ids /\ DOMAIN kept = Ids

\* What a row may know, said of the whole replayed table.  The engines count
\* what they have walked past: the requests made before the decision, and those
\* made at its very instant that sort before it by id.  An outcome counts if
\* moreover it became available strictly before the decision.
\*
\* This is not the cutoff rule of configs/features.yaml and
\* configs/v2/features.yaml, which is requested_at < decision_time: that one
\* counts Past alone, and the code departs from it by Tied.
Replayed == {j \in Ids : partition[j] \in IF "final_test" \in scope THEN Partitions
                                          ELSE Development}
Past(i) == {j \in Replayed : table[j].at < table[i].at}
Tied(i) == {j \in Replayed : table[j].at = table[i].at /\ j < i}
Earlier(i) == Past(i) \cup Tied(i)
Known(i) == {j \in Earlier(i) : table[j].available < table[i].at}
Within(i, days) == {j \in Earlier(i) : Same(i, j) /\ table[i].at - table[j].at <= days}

\* Every row holds exactly what precedes its request in replay order, same-
\* instant requests of a lower id included: all of the customer's requests in
\* the window and all outcomes matured by then, and no event of the row itself
\* or after it, whichever heap the outcome waited in and whoever came between.
RowsArePointInTime ==
    scope # {} => \A i \in Ids : rows[i] # Absent =>
        /\ rows[i].last30 = Within(i, Days30)
        /\ rows[i].last90 = Within(i, Days90)
        /\ rows[i].adverse = {j \in Known(i) : Same(i, j) /\ table[j].adverse}
        /\ engine = "v1" =>
             rows[i].returnless = {j \in Earlier(i) : Same(i, j) /\ table[j].returnless}
        /\ engine = "v2" =>
             /\ rows[i].outcomes = {j \in Known(i) : Same(i, j)}
             /\ rows[i].category = {j \in Known(i) : table[j].category = table[i].category}
             /\ rows[i].defects = {j \in rows[i].category :
                                      table[j].reason = "damaged" /\ ~table[j].adverse}
             /\ rows[i].history = {j \in Earlier(i) : Same(i, j)}
             /\ rows[i].reasons = {j \in rows[i].history : table[j].reason = table[i].reason}
             /\ rows[i].connected = Links(i, Earlier(i))
             /\ rows[i].linked = Links(i, Known(i))
             /\ rows[i].peers = Earlier(i)

\* Text order and time order differ only between a whole second and a fraction
\* of the same second.
TextIsTime == \A i, j \in Ids : TextBefore(table, i, j) <=> Before(table, i, j)

\* A development request has in the final replay the row the model was fitted
\* to: later partitions add nothing to earlier rows, because the split and the
\* replay sort alike.  (v1; the final replay of v2 returns final rows only.)
DevelopmentRowsStable ==
    (engine = "v2" \/ TextIsTime) =>
        \A i \in Ids : kept[i] # Absent /\ rows[i] # Absent => kept[i] = rows[i]

PartitionOrder == <<"train", "calibration", "policy_selection", "final_test">>

\* No request of a later partition is a second older than one of an earlier
\* one, and where text order is time order it is no older at all.
PartitionsFollowTime ==
    \A i, j \in Ids : \A p, q \in 1 .. 4 :
        partition[i] = PartitionOrder[p] /\ partition[j] = PartitionOrder[q] /\ p < q =>
            /\ table[i].at \div Second <= table[j].at \div Second
            /\ (engine = "v2" \/ TextIsTime) => table[i].at <= table[j].at
=============================================================================
