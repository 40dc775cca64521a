------------------------ MODULE AlertHandlersProofs ------------------------
(***************************************************************************)
(* Theorems about what operators see of alerts: RouteAlerts, for every set *)
(* of trips, any number of rows, every window and expiry and any number of *)
(* failed calls; and PagedLists, for tables of any size, all limits, any   *)
(* times of departure, and any number of insertions, changes of rows and   *)
(* failed or broken statements.                                            *)
(***************************************************************************)
EXTENDS RouteAlerts, PagedLists, FiniteSetTheorems, TLAPS

-----------------------------------------------------------------------------
(* RouteAlerts: the inductive invariant                                    *)

NoneOpen == \A a \in Slot : ~Open(a)

\* What a check has done so far: only one that has set the flag to true, or
\* failed to, comes to insert a row, and one that deletes the dedup key has
\* resolved all rows, which no operator reopens.
CheckSoFar ==
    /\ pc \in {"claim", "insert"} => flag = "true" \/ undone
    /\ pc = "unclaim" => NoneOpen

RouteInv == TypeOK /\ CheckSoFar /\ FollowingHasNoOpenAlert

-----------------------------------------------------------------------------
(* RouteAlerts: preservation                                               *)

\* A free slot, and a row as it is inserted.
LEMMA FreeFacts == Free \in Row /\ [Free EXCEPT !.used = TRUE] \in Row
<1>1. 0 \in 0..Window
  BY RouteAssumption
<1>2. Free \in Row
  BY <1>1 DEF Free, Row
<1>3. ASSUME NEW r \in Row PROVE [r EXCEPT !.used = TRUE] \in Row
  BY DEF Row
<1> QED BY <1>2, <1>3

\* A call that works or fails leaves both histories in their types.
LEMMA CallFacts ==
    ASSUME TypeOK, Works \/ Fails
    PROVE  faults' \in 0..MaxFaults /\ undone' \in BOOLEAN /\ (undone => undone')
<1>1. CASE Works
  BY <1>1 DEF Works, TypeOK
<1>2. CASE Fails
  BY <1>2, RouteAssumption DEF Fails, TypeOK
<1> QED BY <1>1, <1>2

\* The steps of the detector that write no row.
LEMMA ChecksHold ==
    ASSUME RouteInv, LoadActiveTrips \/ (\E t \in Trip : CheckTrip(t)) \/ SetFlag \/ Claim
    PROVE  RouteInv'
<1> USE DEF RouteInv
<1>1. UNCHANGED alerts
  BY DEF LoadActiveTrips, CheckTrip, SetFlag, Claim, dbVars
<1>2. NoneOpen' <=> NoneOpen
  BY <1>1 DEF NoneOpen, Open
<1>3. CASE LoadActiveTrips
  <2>1. TypeOK'
    BY <1>3 DEF LoadActiveTrips, TypeOK, redisVars, dbVars
  <2> QED BY <1>2, <1>3, <2>1 DEF LoadActiveTrips, redisVars, CheckSoFar,
         FollowingHasNoOpenAlert, NoneOpen
<1>4. ASSUME NEW t \in Trip, CheckTrip(t) PROVE RouteInv'
  <2>1. /\ pc = "idle" /\ UNCHANGED flag
        /\ \/ pc' \in {"deviates", "follows"} /\ undone' = FALSE
           \/ pc' = "idle" /\ UNCHANGED undone
    BY <1>4 DEF CheckTrip, TypeOK, redisVars
  <2>2. TypeOK'
    BY <1>4, <2>1 DEF CheckTrip, TypeOK, redisVars, dbVars
  <2> QED BY <1>2, <2>1, <2>2 DEF CheckSoFar, FollowingHasNoOpenAlert, NoneOpen
<1>5. CASE SetFlag
  <2>1. /\ pc' \in {"claim", "resolve"}
        /\ pc' = "claim" => flag' = "true" \/ undone'
        /\ flag' \in {"none", "true", "false"}
    BY <1>5 DEF SetFlag, Fails, TypeOK
  <2>2. TypeOK'
    BY <1>5, <2>1, CallFacts DEF SetFlag, TypeOK, dbVars
  <2> QED BY <2>1, <2>2 DEF CheckSoFar, FollowingHasNoOpenAlert
<1>6. CASE Claim
  <2>1. pc = "claim" /\ pc' \in {"insert", "idle"} /\ UNCHANGED flag /\ (undone => undone')
    BY <1>6, CallFacts DEF Claim
  <2>2. dedup' \in [Trip -> 0..KeyTTL]
    <3>1. dedup \in [Trip -> 0..KeyTTL] /\ KeyTTL \in 0..KeyTTL
      BY RouteAssumption DEF TypeOK
    <3> QED BY <1>6, <3>1 DEF Claim
  <2>3. TypeOK'
    BY <1>6, <2>1, <2>2, CallFacts DEF Claim, TypeOK, dbVars
  <2> QED BY <2>1, <2>3 DEF CheckSoFar, FollowingHasNoOpenAlert
<1> QED BY <1>3, <1>4, <1>5, <1>6

\* A row is inserted only by a check that has found the vehicle off its route.
LEMMA InsertHolds ==
    ASSUME RouteInv, Insert
    PROVE  RouteInv'
<1> USE DEF RouteInv
<1>1. /\ pc = "insert" /\ pc' = "idle" /\ UNCHANGED <<redisVars, active, todo, trip>>
      /\ Works \/ Fails
  BY DEF Insert
<1>2. flag' = "true" \/ undone'
  BY <1>1, CallFacts DEF CheckSoFar, redisVars
<1>3. alerts' \in [Slot -> Row]
  <2>1. [Free EXCEPT !.used = TRUE] \in Row
    BY FreeFacts
  <2> QED BY <2>1 DEF Insert, TypeOK, FreeSlots
<1>4. TypeOK'
  BY <1>1, <1>3, CallFacts DEF TypeOK, redisVars
<1> QED BY <1>1, <1>2, <1>4 DEF CheckSoFar, FollowingHasNoOpenAlert

\* autoResolve resolves every open row before it deletes the key.
LEMMA ResolveHolds ==
    ASSUME RouteInv, AutoResolve \/ Unclaim
    PROVE  RouteInv'
<1> USE DEF RouteInv
<1>1. CASE AutoResolve
  <2>1. /\ UNCHANGED <<redisVars, active, todo, trip>>
        /\ \/ Works /\ ResolveAll({a \in Slot : Open(a)}) /\ pc' = "unclaim"
           \/ Fails /\ UNCHANGED alerts /\ pc' = "idle"
    BY <1>1 DEF AutoResolve
  <2>2. CASE Works /\ ResolveAll({a \in Slot : Open(a)}) /\ pc' = "unclaim"
    <3>1. alerts' \in [Slot -> Row]
      BY <2>2 DEF ResolveAll, TypeOK, Row
    <3>2. NoneOpen'
      BY <2>2 DEF NoneOpen, ResolveAll, Open, TypeOK, Row
    <3>3. TypeOK'
      BY <2>1, <2>2, <3>1, CallFacts DEF TypeOK, redisVars
    <3> QED BY <2>2, <3>2, <3>3 DEF CheckSoFar, FollowingHasNoOpenAlert
  <2>3. CASE Fails /\ UNCHANGED alerts /\ pc' = "idle"
    <3>1. undone' = TRUE
      BY <2>3 DEF Fails
    <3>2. TypeOK'
      BY <2>1, <2>3, CallFacts DEF TypeOK, redisVars
    <3> QED BY <2>3, <3>1, <3>2 DEF CheckSoFar, FollowingHasNoOpenAlert
  <2> QED BY <2>1, <2>2, <2>3
<1>2. CASE Unclaim
  <2>1. /\ pc = "unclaim" /\ pc' = "idle"
        /\ Works \/ Fails
        /\ UNCHANGED <<where, flag, dbVars, todo, trip>>
    BY <1>2 DEF Unclaim
  <2>2. dedup' \in [Trip -> 0..KeyTTL]
    <3>1. dedup \in [Trip -> 0..KeyTTL] /\ 0 \in 0..KeyTTL
      BY RouteAssumption DEF TypeOK
    <3> QED BY <1>2, <3>1 DEF Unclaim
  <2>3. TypeOK'
    BY <2>1, <2>2, CallFacts DEF TypeOK, dbVars
  <2>4. NoneOpen'
    BY <2>1 DEF CheckSoFar, NoneOpen, Open, dbVars
  <2> QED BY <2>1, <2>3, <2>4 DEF CheckSoFar, FollowingHasNoOpenAlert, NoneOpen
<1> QED BY <1>1, <1>2

\* Whoever changes rows without opening one, and leaves the check alone,
\* preserves the invariant.
LEMMA NothingOpens ==
    ASSUME RouteInv, TypeOK', \A a \in Slot : Open(a)' => Open(a),
           UNCHANGED <<pc, flag, undone>>
    PROVE  RouteInv'
  BY DEF RouteInv, CheckSoFar, FollowingHasNoOpenAlert, NoneOpen

\* Operators acknowledge, unacknowledge and resolve, and never reopen.
LEMMA OperatorHolds ==
    ASSUME RouteInv, NEW a \in Slot, Acknowledge(a) \/ Unacknowledge(a) \/ Resolve(a)
    PROVE  RouteInv'
<1>1. UNCHANGED <<redisVars, active, jobVars, faults, undone>>
  BY DEF Acknowledge, Unacknowledge, Resolve
<1>2. alerts \in [Slot -> Row]
  BY DEF RouteInv, TypeOK
<1>3. alerts' \in [Slot -> Row]
  BY <1>2 DEF Acknowledge, Unacknowledge, Resolve, Row
<1>4. \A b \in Slot : Open(b)' => Open(b)
  BY <1>2 DEF Acknowledge, Unacknowledge, Resolve, Row, Open
<1>5. TypeOK'
  BY <1>1, <1>3 DEF RouteInv, TypeOK, redisVars, jobVars
<1> QED BY <1>1, <1>4, <1>5, NothingOpens DEF redisVars, jobVars

\* Rows age and go, and keys expire.
LEMMA TickHolds ==
    ASSUME RouteInv, Tick
    PROVE  RouteInv'
<1>1. UNCHANGED <<where, flag, active, jobVars, faults, undone>>
  BY DEF Tick
<1>2. /\ alerts \in [Slot -> Row] /\ dedup \in [Trip -> 0..KeyTTL]
      /\ Window \in Nat /\ KeyTTL \in Nat
  BY RouteAssumption DEF RouteInv, TypeOK
<1>3. dedup' \in [Trip -> 0..KeyTTL]
  BY <1>2 DEF Tick
<1>4. ASSUME NEW a \in Slot PROVE alerts'[a] \in Row /\ (Open(a)' => Open(a))
  <2>1. alerts'[a] = IF ~alerts[a].used THEN alerts[a]
                     ELSE IF alerts[a].age < Window THEN [alerts[a] EXCEPT !.age = @ + 1]
                     ELSE IF alerts[a].resolved THEN Free ELSE alerts[a]
    BY DEF Tick
  <2> QED BY <1>2, <2>1 DEF Row, Free, Open
<1>5. alerts' \in [Slot -> Row]
  BY <1>4 DEF Tick
<1>6. TypeOK'
  BY <1>1, <1>3, <1>5 DEF RouteInv, TypeOK, jobVars
<1> QED BY <1>1, <1>4, <1>6, NothingOpens DEF jobVars

\* The vehicle moves and trips end, whatever the detector is at.
LEMMA EnvironmentHolds ==
    ASSUME RouteInv, NEW t \in Trip, Move(t) \/ TripEnds(t)
    PROVE  RouteInv'
<1>1. TypeOK'
  BY DEF RouteInv, TypeOK, Move, TripEnds, dbVars, jobVars, redisVars
<1>2. UNCHANGED <<alerts, pc, flag, undone>>
  BY DEF Move, TripEnds, dbVars, jobVars, redisVars
<1> QED BY <1>1, <1>2, NothingOpens DEF Open

\* Every step preserves the invariant.
LEMMA RouteStep ==
    ASSUME RouteInv, [Next]_vars
    PROVE  RouteInv'
<1>1. CASE UNCHANGED vars
  <2>1. TypeOK'
    BY <1>1 DEF RouteInv, TypeOK, vars
  <2> QED BY <1>1, <2>1, NothingOpens DEF vars, Open
<1> QED BY <1>1, ChecksHold, InsertHolds, ResolveHolds, OperatorHolds, TickHolds,
           EnvironmentHolds
        DEF Next, Detector, Operator

\* The invariant holds at any time.
LEMMA RouteAlways == Spec => []RouteInv
<1>1. ASSUME Init PROVE RouteInv
  <2>1. TypeOK
    <3>1. dedup \in [Trip -> 0..KeyTTL] /\ faults \in 0..MaxFaults
      BY <1>1, RouteAssumption DEF Init
    <3>2. alerts \in [Slot -> Row]
      BY <1>1, FreeFacts DEF Init
    <3>3. undone \in BOOLEAN
      BY <1>1 DEF Init
    <3> QED BY <1>1, <3>1, <3>2, <3>3 DEF Init, TypeOK
  <2>2. CheckSoFar /\ FollowingHasNoOpenAlert
    BY <1>1 DEF Init, CheckSoFar, FollowingHasNoOpenAlert
  <2> QED BY <2>1, <2>2 DEF RouteInv
<1>2. RouteInv /\ [Next]_vars => RouteInv'
  BY RouteStep
<1> QED BY <1>1, <1>2, PTL DEF Spec

-----------------------------------------------------------------------------
(* RouteAlerts: theorems                                                   *)

\* The rows, the keys and the flag keep their types, and no key outlives its
\* expiry.
THEOREM TypeCorrect == Spec => []TypeOK
<1>1. RouteInv => TypeOK
  BY DEF RouteInv
<1> QED BY <1>1, RouteAlways, PTL

\* With any number of trips of the vehicle, of rows and of operators: a flag
\* that says the vehicle follows its route means that none of its deviation
\* alerts is open, unless a call of the last check failed.
THEOREM FollowingMeansResolved == Spec => []FollowingHasNoOpenAlert
<1>1. RouteInv => FollowingHasNoOpenAlert
  BY DEF RouteInv
<1> QED BY <1>1, RouteAlways, PTL

-----------------------------------------------------------------------------
(* PagedLists                                                              *)
(*                                                                         *)
(* A SELECT shows the rows whose ranks, in the order of the list, are on   *)
(* its page.  While the reader goes from page to page, an insertion moves  *)
(* the rows behind it by one place, and a row that leaves moves them back: *)
(* so what was passed without being seen is paid for by rows that left or  *)
(* were cut off, and what was seen and comes again by rows that entered.   *)

\* The rows of M that come before row i in the order R, and how many they are.
Preceding(M, R, i) == {j \in M : <<j, i>> \in R}
Rank(M, R, i) == Cardinality(Preceding(M, R, i))

\* R is a strict total order of M.
Orders(R, M) ==
    /\ \A i \in M : <<i, i>> \notin R
    /\ \A i, j, k \in M : <<i, j>> \in R /\ <<j, k>> \in R => <<i, k>> \in R
    /\ \A i, j \in M : i # j => <<i, j>> \in R \/ <<j, i>> \in R

-----------------------------------------------------------------------------
(* PagedLists: the inductive invariant                                     *)

\* ORDER BY as a relation, for either order of equal times.
Order(up) == {p \in (DOMAIN rows) \X (DOMAIN rows) : Before(p[1], p[2], up)}

\* The place of a row in the list.  It is the same in either order for rows without ties.
Place(i) == Rank(Matching(rows), Order(TRUE), i)

\* The places that are on a page the reader has got.
Passed == IF walk = "done" THEN Offset + Limit(raw) ELSE Offset

\* Rows without ties that stayed and that the reader has passed without seeing them, and
\* such rows that were seen and are still to come.
Missed == {i \in stayed \ seen : i \notin Ties /\ Place(i) < Passed}
ToCome == {i \in seen \cap Matching(rows) : i \notin Ties /\ Place(i) >= Passed}

PagesTypes ==
    /\ rows \in Seq(TableRow) /\ list \in View /\ raw \in RawLimit
    /\ page \in Nat \ {0} /\ total \in Nat
    /\ walk \in {"count", "select", "done", "failed"}
    /\ seen \subseteq DOMAIN rows /\ stayed \subseteq Matching(rows)
    /\ {repeats, entered, left, torn, cut, operations, errors} \subseteq Nat

\* The reader stops only when it has passed all rows that the last COUNT has counted,
\* and the others are torn.
CountedAll ==
    /\ walk \in {"select", "done"} => Cardinality(Matching(rows)) =< total + torn
    /\ walk = "done" => total =< Passed

\* A row is passed over because one left or a page broke off; it comes again because
\* one entered.
FewMissed == Cardinality(Missed) =< left + cut
FewRepeats == repeats + Cardinality(ToCome) =< entered

PagesInv == PagesTypes /\ CountedAll /\ FewMissed /\ FewRepeats

-----------------------------------------------------------------------------
(* PagedLists: facts about ranks                                           *)

\* A smaller set has no more elements, and a part of a finite set is finite.
LEMMA FewerRows ==
    ASSUME NEW T, IsFiniteSet(T), NEW S \in SUBSET T
    PROVE  /\ IsFiniteSet(S) /\ Cardinality(S) \in Nat /\ Cardinality(T) \in Nat
           /\ Cardinality(S) =< Cardinality(T)
BY FS_Subset, FS_CardinalityType

\* One more element is at most one more.
LEMMA OneMore ==
    ASSUME NEW T, IsFiniteSet(T), NEW x, NEW S \in SUBSET (T \cup {x})
    PROVE  IsFiniteSet(S) /\ Cardinality(S) =< Cardinality(T) + 1
<1>1. IsFiniteSet(T \cup {x}) /\ Cardinality(T \cup {x}) =< Cardinality(T) + 1
  <2>1. Cardinality(T) \in Nat
    BY FS_CardinalityType
  <2> QED BY <2>1, FS_AddElement
<1>2. /\ IsFiniteSet(S) /\ Cardinality(S) \in Nat /\ Cardinality(T \cup {x}) \in Nat
      /\ Cardinality(S) =< Cardinality(T \cup {x})
  BY <1>1, FewerRows
<1> QED BY <1>1, <1>2, FS_CardinalityType

\* Two sets have together at most as many elements as the two.
LEMMA UnionFits ==
    ASSUME NEW S, IsFiniteSet(S), NEW T, IsFiniteSet(T)
    PROVE  IsFiniteSet(S \cup T) /\ Cardinality(S \cup T) =< Cardinality(S) + Cardinality(T)
<1>1. IsFiniteSet(S \cup T) /\ IsFiniteSet(S \cap T)
  BY FS_Union, FS_Intersection
<1>2. Cardinality(S \cup T) = Cardinality(S) + Cardinality(T) - Cardinality(S \cap T)
  BY FS_Union
<1>3. /\ Cardinality(S \cap T) \in Nat /\ Cardinality(S \cup T) \in Nat
      /\ Cardinality(S) \in Nat /\ Cardinality(T) \in Nat
  BY <1>1, FS_CardinalityType
<1> QED BY <1>1, <1>2, <1>3

\* No row comes before itself, so its rank is less than the number of rows.
LEMMA RankType ==
    ASSUME NEW M, IsFiniteSet(M), NEW R, Orders(R, M), NEW i \in M
    PROVE  Rank(M, R, i) \in Nat /\ Rank(M, R, i) < Cardinality(M)
<1>1. Preceding(M, R, i) \subseteq M \ {i}
  BY DEF Preceding, Orders
<1>2. /\ IsFiniteSet(M \ {i}) /\ Cardinality(M \ {i}) = Cardinality(M) - 1
      /\ Cardinality(M) \in Nat
  BY FS_RemoveElement, FS_CardinalityType
<1>3. /\ Cardinality(Preceding(M, R, i)) \in Nat
      /\ Cardinality(Preceding(M, R, i)) =< Cardinality(M \ {i})
  BY <1>1, <1>2, FewerRows
<1> QED BY <1>2, <1>3 DEF Rank

\* A row that comes before another has a smaller rank.
LEMMA RankGrows ==
    ASSUME NEW M, IsFiniteSet(M), NEW R, Orders(R, M),
           NEW i \in M, NEW j \in M, <<i, j>> \in R
    PROVE  Rank(M, R, i) < Rank(M, R, j)
<1> DEFINE I == Preceding(M, R, i)
<1> DEFINE J == Preceding(M, R, j)
<1>1. I \subseteq J /\ i \in J /\ i \notin I
  BY DEF Preceding, Orders
<1>2. IsFiniteSet(J) /\ J \subseteq M
  BY FS_Subset DEF Preceding
<1>3. IsFiniteSet(J \ {i}) /\ Cardinality(J \ {i}) = Cardinality(J) - 1
  BY <1>1, <1>2, FS_RemoveElement
<1>4. I \in SUBSET (J \ {i})
  BY <1>1
<1>5. Cardinality(I) \in Nat /\ Cardinality(I) =< Cardinality(J \ {i})
  BY <1>3, <1>4, FewerRows
<1>6. Cardinality(J) \in Nat
  BY <1>2, FS_CardinalityType
<1> QED BY <1>3, <1>5, <1>6 DEF Rank

\* So rows have different ranks, and as many rows as have ranks in an interval
\* have room in it.
LEMMA RanksFit ==
    ASSUME NEW M, IsFiniteSet(M), NEW R, Orders(R, M), NEW S \in SUBSET M,
           NEW a \in Int, NEW b \in Int, \A i \in S : Rank(M, R, i) \in a..b
    PROVE  /\ IsFiniteSet(S)
           /\ Cardinality(S) =< IF a > b THEN 0 ELSE b - a + 1
<1> DEFINE f == [i \in S |-> Rank(M, R, i)]
<1>1. f \in [S -> a..b]
  OBVIOUS
<1>2. ASSUME NEW i \in S, NEW j \in S, f[i] = f[j] PROVE i = j
  <2>1. Rank(M, R, i) = Rank(M, R, j) /\ Rank(M, R, i) \in Nat
    BY <1>2, RankType
  <2>2. ~(<<i, j>> \in R) /\ ~(<<j, i>> \in R)
    BY <2>1, RankGrows
  <2> QED BY <2>2 DEF Orders
<1>3. f \in Injection(S, a..b)
  BY <1>1, <1>2 DEF Injection, IsInjective
<1>4. IsFiniteSet(a..b) /\ Cardinality(a..b) = IF a > b THEN 0 ELSE b - a + 1
  BY FS_Interval
<1>5. Cardinality(S) =< Cardinality(a..b)
  BY <1>3, <1>4, FS_Injection
<1>6. IsFiniteSet(S)
  BY FS_Subset
<1> QED BY <1>4, <1>5, <1>6

\* At most one row has a given rank.
LEMMA OneRow ==
    ASSUME NEW M, IsFiniteSet(M), NEW R, Orders(R, M), NEW n \in Int
    PROVE  \E x : \A i \in M : Rank(M, R, i) = n => i = x
<1>1. ASSUME NEW i \in M, NEW j \in M, Rank(M, R, i) = n, Rank(M, R, j) = n
      PROVE  i = j
  <2>1. ~(<<i, j>> \in R) /\ ~(<<j, i>> \in R)
    BY <1>1, RankGrows
  <2> QED BY <2>1 DEF Orders
<1> QED BY <1>1

\* A row that enters moves those behind it by one place.
LEMMA RankEntered ==
    ASSUME NEW M, IsFiniteSet(M), NEW R, NEW e, e \notin M, NEW i
    PROVE  /\ Rank(M, R, i) \in Nat
           /\ Rank(M \cup {e}, R, i) = Rank(M, R, i) + (IF <<e, i>> \in R THEN 1 ELSE 0)
<1> DEFINE P == Preceding(M, R, i)
<1>1. IsFiniteSet(P) /\ P \subseteq M
  BY FS_Subset DEF Preceding
<1>2. Cardinality(P) \in Nat
  BY <1>1, FS_CardinalityType
<1>3. CASE <<e, i>> \in R
  <2>1. Preceding(M \cup {e}, R, i) = P \cup {e} /\ e \notin P
    BY <1>3 DEF Preceding
  <2>2. Cardinality(P \cup {e}) = Cardinality(P) + 1
    BY <1>1, <2>1, FS_AddElement
  <2> QED BY <1>2, <1>3, <2>1, <2>2 DEF Rank
<1>4. CASE <<e, i>> \notin R
  <2>1. Preceding(M \cup {e}, R, i) = P
    BY <1>4 DEF Preceding
  <2> QED BY <1>2, <1>4, <2>1 DEF Rank
<1> QED BY <1>3, <1>4

-----------------------------------------------------------------------------
(* PagedLists: facts about lists and pages                                 *)

\* parsePagination never answers with a limit of 0.
LEMMA LimitFacts ==
    ASSUME PagesTypes
    PROVE  Limit(raw) \in Nat \ {0} /\ Offset \in Nat /\ Passed \in Nat
<1>1. raw \in Int /\ page - 1 \in Nat
  BY PagesAssumption DEF PagesTypes
<1>2. Limit(raw) \in Nat \ {0}
  BY <1>1, PagesAssumption DEF Limit
<1>3. \A p, l \in Nat : p * l \in Nat
  OBVIOUS
<1>4. Offset \in Nat
  BY <1>1, <1>2, <1>3 DEF Offset
<1> QED BY <1>2, <1>4 DEF Passed

\* There are finitely many rows.
LEMMA RowsFinite ==
    ASSUME PagesTypes
    PROVE  /\ DOMAIN rows = 1..Len(rows) /\ Len(rows) \in Nat
           /\ IsFiniteSet(DOMAIN rows) /\ Cardinality(DOMAIN rows) = Len(rows)
           /\ IsFiniteSet(Matching(rows)) /\ Matching(rows) \subseteq DOMAIN rows
           /\ Cardinality(Matching(rows)) \in Nat
<1>1. DOMAIN rows = 1..Len(rows) /\ Len(rows) \in Nat
  BY DEF PagesTypes
<1>2. IsFiniteSet(1..Len(rows)) /\ Cardinality(1..Len(rows)) = Len(rows)
  <2>1. IsFiniteSet(1..Len(rows))
        /\ Cardinality(1..Len(rows)) = IF 1 > Len(rows) THEN 0 ELSE Len(rows) - 1 + 1
    BY <1>1, FS_Interval
  <2> QED BY <1>1, <2>1
<1>3. Matching(rows) \subseteq DOMAIN rows
  BY DEF Matching
<1> QED BY <1>1, <1>2, <1>3, FewerRows

\* The queries order all rows.
LEMMA RowsOrdered ==
    ASSUME PagesTypes, NEW up \in BOOLEAN
    PROVE  Orders(Order(up), DOMAIN rows) /\ Orders(Order(up), Matching(rows))
<1>1. \A i \in DOMAIN rows : rows[i].at \in Nat /\ rows[i].critical \in BOOLEAN /\ i \in Nat
  <2>1. \A i \in DOMAIN rows : rows[i] \in TableRow /\ i \in Nat
    BY RowsFinite DEF PagesTypes
  <2> QED BY <2>1 DEF TableRow
<1>2. \A i, j \in DOMAIN rows : <<i, j>> \in Order(up) <=> Before(i, j, up)
  BY DEF Order
<1>3. \A i \in DOMAIN rows : ~Before(i, i, up)
  BY <1>1 DEF Before
<1>4. ASSUME NEW i \in DOMAIN rows, NEW j \in DOMAIN rows, i # j
      PROVE  Before(i, j, up) \/ Before(j, i, up)
  BY <1>1, <1>4 DEF Before
<1>5. ASSUME NEW i \in DOMAIN rows, NEW j \in DOMAIN rows, NEW k \in DOMAIN rows,
             Before(i, j, up), Before(j, k, up)
      PROVE  Before(i, k, up)
  BY <1>1, <1>5 DEF Before
<1>6. Orders(Order(up), DOMAIN rows)
  BY <1>2, <1>3, <1>4, <1>5 DEF Orders
<1> QED BY <1>6, RowsFinite DEF Orders

\* In particular, a list is ordered and finite at any time.
LEMMA ListOrdered ==
    PagesTypes => /\ IsFiniteSet(Matching(rows))
                  /\ Orders(Order(TRUE), Matching(rows))
BY RowsFinite, RowsOrdered

\* A page holds the rows whose ranks are on it.
LEMMA PageByRank ==
    ASSUME PagesTypes, NEW up \in BOOLEAN, NEW n \in Nat
    PROVE  PageRows(up, n) = {i \in Matching(rows) :
               Rank(Matching(rows), Order(up), i) \in Offset .. Offset + n - 1}
<1>1. ASSUME NEW i \in Matching(rows)
      PROVE  {j \in Matching(rows) : Before(j, i, up)} = Preceding(Matching(rows), Order(up), i)
  BY RowsFinite DEF Preceding, Order
<1> QED BY <1>1 DEF PageRows, Rank

\* The place of a row whose time no other row has is the same in either order.
LEMMA PlaceWithoutTies ==
    ASSUME PagesTypes, NEW up \in BOOLEAN, NEW i \in Matching(rows), i \notin Ties
    PROVE  Rank(Matching(rows), Order(up), i) = Place(i)
<1>1. ASSUME NEW j \in DOMAIN rows PROVE Before(j, i, up) <=> Before(j, i, TRUE)
  <2>1. i \in Nat /\ i \in DOMAIN rows
    BY RowsFinite
  <2>2. j # i => rows[j].at # rows[i].at
    BY <2>1 DEF Ties
  <2> QED BY <2>1, <2>2 DEF Before
<1>2. Preceding(Matching(rows), Order(up), i) = Preceding(Matching(rows), Order(TRUE), i)
  BY <1>1, RowsFinite DEF Preceding, Order
<1> QED BY <1>2 DEF Rank, Place

\* Places are natural numbers, and those of a list are all its first ones.
LEMMA Places ==
    ASSUME PagesTypes, NEW i \in Matching(rows)
    PROVE  Place(i) \in Nat /\ Place(i) < Cardinality(Matching(rows))
BY RowsFinite, RowsOrdered, RankType DEF Place

-----------------------------------------------------------------------------
(* PagedLists: the table changes                                           *)

\* What an insertion or a request of an operator does: rows keep their times and
\* severities, and one row may enter the list or leave it.
Changes(table, e) ==
    /\ TableChanges(table) /\ table \in Seq(TableRow)
    /\ DOMAIN rows \subseteq DOMAIN table
    /\ \A i \in DOMAIN rows : /\ table[i].at = rows[i].at
                              /\ table[i].critical = rows[i].critical
    /\ \A i : i # e => (i \in Matching(table) <=> i \in Matching(rows))

\* Rows on the list are in the same order after a change, and ties remain.
LEMMA OrderKept ==
    ASSUME PagesTypes, NEW table, NEW e, Changes(table, e)
    PROVE  /\ \A i, j \in DOMAIN rows : <<i, j>> \in Order(TRUE) <=> <<i, j>> \in Order(TRUE)'
           /\ Ties \subseteq Ties'
<1>1. rows' = table /\ list' = list
  BY DEF Changes, TableChanges, listVars
<1>2. ASSUME NEW i \in DOMAIN rows, NEW j \in DOMAIN rows
      PROVE  Before(i, j, TRUE) <=> Before(i, j, TRUE)'
  BY <1>1 DEF Changes, Before
<1>3. \A i, j \in DOMAIN rows : <<i, j>> \in Order(TRUE) <=> <<i, j>> \in Order(TRUE)'
  BY <1>1, <1>2 DEF Changes, Order
<1>4. Ties \subseteq Ties'
  BY <1>1 DEF Changes, Ties
<1> QED BY <1>3, <1>4

\* Matching after the step is that of the new table.
LEMMA ChangeFacts ==
    ASSUME PagesTypes, NEW table, NEW e, Changes(table, e)
    PROVE  /\ rows' = table /\ Matching(rows)' = Matching(table)
           /\ UNCHANGED <<list, raw, page, total, walk, seen, repeats, cut, errors>>
           /\ Passed' = Passed
           /\ stayed' = stayed \cap Matching(rows)'
<1>1. /\ rows' = table /\ UNCHANGED <<list, raw, page, total, walk, seen, repeats, cut, errors>>
      /\ stayed' = stayed \cap Matching(table)
  BY DEF Changes, TableChanges, listVars, pageVars
<1>2. Matching(rows)' = Matching(table)
  BY <1>1 DEF Matching, InQueue, InHistory, InTrips
<1>3. Passed' = Passed
  BY <1>1 DEF Passed, Offset
<1> QED BY <1>1, <1>2, <1>3

\* What was counted: a row enters, leaves, or neither.
LEMMA ChangeCounts ==
    ASSUME PagesTypes, NEW table, NEW e, Changes(table, e)
    PROVE  LET M == Matching(rows)
               N == Matching(rows)'
           IN  \/ N = M /\ UNCHANGED <<entered, left, torn>>
               \/ /\ e \notin M /\ N = M \cup {e}
                  /\ entered' = entered + 1 /\ left' = left
                  /\ torn' = IF walk = "select" THEN torn + 1 ELSE torn
               \/ /\ e \in M /\ N = M \ {e}
                  /\ left' = left + 1 /\ UNCHANGED <<entered, torn>>
<1> DEFINE M == Matching(rows)
<1> DEFINE N == Matching(table)
<1>1. /\ entered' = entered + Cardinality(N \ M) /\ left' = left + Cardinality(M \ N)
      /\ torn' = torn + (IF walk = "select" THEN Cardinality(N \ M) ELSE 0)
      /\ {entered, left, torn} \subseteq Nat /\ Matching(rows)' = N
  BY ChangeFacts DEF Changes, TableChanges, PagesTypes
<1>2. \A i : i # e => (i \in N <=> i \in M)
  BY DEF Changes
<1>3. Cardinality({}) = 0 /\ Cardinality({e}) = 1
  BY FS_EmptySet, FS_Singleton
<1> HIDE DEF M, N
<1>4. CASE (e \in N) = (e \in M)
  <2>1. N = M
    BY <1>2, <1>4
  <2>2. N \ M = {} /\ M \ N = {}
    BY <2>1
  <2>3. UNCHANGED <<entered, left, torn>>
    BY <1>1, <1>3, <2>2
  <2> QED BY <1>1, <2>1, <2>3 DEF M
<1>5. CASE e \in N /\ e \notin M
  <2>1. N = M \cup {e} /\ N \ M = {e} /\ M \ N = {}
    BY <1>2, <1>5
  <2>2. /\ entered' = entered + 1 /\ left' = left
        /\ torn' = IF walk = "select" THEN torn + 1 ELSE torn
    <3>1. Cardinality(N \ M) = 1 /\ Cardinality(M \ N) = 0
      BY <1>3, <2>1
    <3> QED BY <1>1, <3>1
  <2> QED BY <1>1, <1>5, <2>1, <2>2 DEF M
<1>6. CASE e \notin N /\ e \in M
  <2>1. N = M \ {e} /\ N \ M = {} /\ M \ N = {e}
    BY <1>2, <1>6
  <2>2. left' = left + 1 /\ UNCHANGED <<entered, torn>>
    <3>1. Cardinality(N \ M) = 0 /\ Cardinality(M \ N) = 1
      BY <1>3, <2>1
    <3> QED BY <1>1, <3>1
  <2> QED BY <1>1, <1>6, <2>1, <2>2 DEF M
<1> QED BY <1>4, <1>5, <1>6

\* How the places of the rows move.
LEMMA PlacesMove ==
    ASSUME PagesTypes, PagesTypes', NEW table, NEW e, Changes(table, e),
           NEW i \in Matching(rows), i \in Matching(rows)'
    PROVE  /\ Place(i) \in Nat /\ Place(i)' \in Nat
           /\ Matching(rows)' = Matching(rows) => Place(i)' = Place(i)
           /\ e \notin Matching(rows) /\ Matching(rows)' = Matching(rows) \cup {e} =>
                 \/ Place(i)' = Place(i)
                 \/ Place(i)' = Place(i) + 1 /\ <<e, i>> \in Order(TRUE)'
           /\ e \in Matching(rows) /\ Matching(rows)' = Matching(rows) \ {e} =>
                 Place(i)' \in {Place(i), Place(i) - 1}
<1> DEFINE M == Matching(rows)
<1> DEFINE N == Matching(rows)'
<1> DEFINE R == Order(TRUE)'
<1>1. Preceding(M, R, i) = Preceding(M, Order(TRUE), i)
  BY OrderKept, RowsFinite DEF Preceding
<1>2. Place(i) = Rank(M, R, i)
  BY <1>1 DEF Place, Rank
<1>3. Place(i)' = Rank(N, R, i)
  BY DEF Place, Rank, Preceding
<1>4. IsFiniteSet(M) /\ IsFiniteSet(N)
  <2>1. IsFiniteSet(Matching(rows)) /\ IsFiniteSet(Matching(rows))'
    BY ListOrdered, PTL
  <2> QED BY <2>1
<1>5. Rank(M, R, i) \in Nat /\ Rank(N, R, i) \in Nat
  BY <1>4, FewerRows DEF Rank, Preceding
<1> HIDE DEF M, N, R
<1>6. N = M => Place(i)' = Place(i)
  BY <1>2, <1>3
<1>7. ASSUME e \notin M, N = M \cup {e}
      PROVE  Place(i)' = Place(i) \/ (Place(i)' = Place(i) + 1 /\ <<e, i>> \in R)
  BY <1>2, <1>3, <1>4, <1>5, <1>7, RankEntered
<1>8. ASSUME e \in M, N = M \ {e}
      PROVE  Place(i)' \in {Place(i), Place(i) - 1}
  <2>1. e \notin N /\ M = N \cup {e}
    BY <1>8
  <2>2. Rank(M, R, i) = Rank(N, R, i) + (IF <<e, i>> \in R THEN 1 ELSE 0)
    BY <1>4, <2>1, RankEntered
  <2> QED BY <1>2, <1>3, <1>5, <2>2
<1> QED BY <1>2, <1>3, <1>5, <1>6, <1>7, <1>8 DEF M, N, R

\* The variables keep their types.
LEMMA ChangeTypes ==
    ASSUME PagesTypes, NEW table, NEW e, Changes(table, e), operations' \in Nat
    PROVE  PagesTypes'
<1>1. /\ rows' \in Seq(TableRow) /\ seen' \subseteq DOMAIN rows' /\ stayed' \subseteq Matching(rows)'
      /\ UNCHANGED <<list, raw, page, total, walk, repeats, cut, errors>>
  BY ChangeFacts DEF Changes, PagesTypes
<1>2. {entered', left', torn'} \subseteq Nat
  <2>1. {entered, left, torn} \subseteq Nat
    BY DEF PagesTypes
  <2>2. entered' \in {entered, entered + 1} /\ left' \in {left, left + 1} /\ torn' \in {torn, torn + 1}
    BY ChangeCounts
  <2> QED BY <2>1, <2>2
<1> QED BY <1>1, <1>2 DEF PagesTypes

\* Of the rows that stayed, at most one more is passed over when a row leaves, the
\* one that was to come next.
LEMMA ChangeMissed ==
    ASSUME PagesTypes, PagesTypes', FewMissed, NEW table, NEW e, Changes(table, e)
    PROVE  FewMissed'
<1> DEFINE M == Matching(rows)
<1> DEFINE N == Matching(rows)'
<1>1. IsFiniteSet(M) /\ Orders(Order(TRUE), M)
  BY ListOrdered
<1>2. /\ IsFiniteSet(Missed) /\ Cardinality(Missed) \in Nat /\ Passed \in Nat
      /\ left \in Nat /\ cut \in Nat /\ cut' = cut
  BY <1>1, FewerRows, LimitFacts, ChangeFacts DEF Missed, PagesTypes
<1>3. ASSUME NEW i \in Missed'
      PROVE  /\ i \in M /\ i \in N /\ i \in stayed \ seen /\ i \notin Ties
             /\ Place(i)' < Passed
  <2>1. i \in stayed' \ seen' /\ i \notin Ties' /\ Place(i)' < Passed'
    BY <1>3 DEF Missed
  <2> QED BY <2>1, ChangeFacts, OrderKept DEF PagesTypes
<1>4. CASE N = M /\ UNCHANGED left
  <2>1. Missed' \subseteq Missed
    BY <1>2, <1>3, <1>4, PlacesMove DEF Missed
  <2> QED BY <1>2, <1>4, <2>1, FewerRows DEF FewMissed
<1>5. CASE e \notin M /\ N = M \cup {e} /\ left' = left
  <2>1. Missed' \subseteq Missed
    <3>1. ASSUME NEW i \in Missed' PROVE Place(i) < Passed
      <4>1. /\ Place(i) \in Nat /\ Place(i)' \in Nat
            /\ Place(i)' = Place(i) \/ Place(i)' = Place(i) + 1
        BY <1>3, <1>5, PlacesMove
      <4>2. Place(i) =< Place(i)'
        BY <4>1
      <4>3. Place(i)' < Passed
        BY <1>3
      <4> QED BY <1>2, <4>1, <4>2, <4>3
    <3> QED BY <1>3, <3>1 DEF Missed
  <2> QED BY <1>2, <1>5, <2>1, FewerRows DEF FewMissed
<1>6. CASE e \in M /\ N = M \ {e} /\ left' = left + 1
  <2>1. PICK x : \A i \in M : Rank(M, Order(TRUE), i) = Passed => i = x
    <3>1. Passed \in Int
      BY <1>2
    <3> QED BY <1>1, <3>1, OneRow, Zenon
  <2>2. ASSUME NEW i \in Missed', i # x PROVE Place(i) < Passed
    <3>1. /\ Place(i) \in Nat /\ Place(i)' \in Nat
          /\ Place(i)' \in {Place(i), Place(i) - 1}
      BY <1>3, <1>6, PlacesMove
    <3>2. Place(i) # Passed
      BY <1>3, <2>1, <2>2 DEF Place
    <3> QED BY <1>2, <1>3, <3>1, <3>2
  <2>3. Missed' \in SUBSET (Missed \cup {x})
    BY <1>3, <2>2 DEF Missed
  <2>4. IsFiniteSet(Missed') /\ Cardinality(Missed') =< Cardinality(Missed) + 1
    BY <1>2, <2>3, OneMore
  <2>5. Cardinality(Missed') \in Nat
    BY <2>4, FS_CardinalityType
  <2> QED BY <1>2, <1>6, <2>4, <2>5 DEF FewMissed
<1> QED BY <1>4, <1>5, <1>6, ChangeCounts

\* Of the rows seen before, at most one more is to come when a row enters: itself, if
\* it enters behind the reader's place, or else the one the reader has just passed.
LEMMA ChangeRepeats ==
    ASSUME PagesTypes, PagesTypes', FewRepeats, NEW table, NEW e, Changes(table, e)
    PROVE  FewRepeats'
<1> SUFFICES repeats' + Cardinality(ToCome') =< entered'
  BY DEF FewRepeats
<1> DEFINE M == Matching(rows)
<1> DEFINE N == Matching(rows)'
<1>1. /\ IsFiniteSet(M) /\ Orders(Order(TRUE), M)
      /\ IsFiniteSet(N) /\ Orders(Order(TRUE)', N)
  <2>1. IsFiniteSet(Matching(rows))' /\ Orders(Order(TRUE), Matching(rows))'
    BY ListOrdered, PTL
  <2> QED BY <2>1, ListOrdered DEF Orders
<1>2. /\ IsFiniteSet(ToCome) /\ Cardinality(ToCome) \in Nat /\ Passed \in Nat
      /\ repeats \in Nat /\ entered \in Nat /\ repeats' = repeats /\ Passed' = Passed
      /\ seen' = seen /\ repeats + Cardinality(ToCome) =< entered
  <2>1. ToCome \subseteq M
    BY DEF ToCome
  <2> QED BY <1>1, <2>1, FewerRows, LimitFacts, ChangeFacts DEF PagesTypes, FewRepeats
<1>3. ASSUME NEW i \in ToCome'
      PROVE  i \in N /\ i \in seen /\ i \notin Ties /\ Place(i)' >= Passed
  <2>1. i \in seen' /\ i \in N /\ i \notin Ties' /\ Place(i)' >= Passed'
    BY <1>3 DEF ToCome
  <2> QED BY <1>2, <2>1, OrderKept
<1>4. ASSUME ToCome' \subseteq ToCome, entered' = entered
      PROVE  repeats' + Cardinality(ToCome') =< entered'
  <2>1. Cardinality(ToCome') \in Nat /\ Cardinality(ToCome') =< Cardinality(ToCome)
    BY <1>2, <1>4, FewerRows
  <2> QED BY <1>2, <1>4, <2>1
<1>5. CASE N = M /\ UNCHANGED entered
  <2>1. ToCome' \subseteq ToCome
    BY <1>2, <1>3, <1>5, PlacesMove DEF ToCome
  <2> QED BY <1>4, <1>5, <2>1
<1>6. CASE e \in M /\ N = M \ {e} /\ UNCHANGED entered
  <2>1. ASSUME NEW i \in ToCome' PROVE i \in M /\ Place(i) >= Passed
    <3>1. i \in M /\ i \in N /\ Place(i)' >= Passed
      BY <1>3, <1>6
    <3>2. /\ Place(i) \in Nat /\ Place(i)' \in Nat
          /\ Place(i)' \in {Place(i), Place(i) - 1}
      BY <1>6, <3>1, PlacesMove
    <3> QED BY <1>2, <3>1, <3>2
  <2>2. ToCome' \subseteq ToCome
    BY <1>3, <2>1 DEF ToCome
  <2> QED BY <1>4, <1>6, <2>2
<1>7. CASE e \notin M /\ N = M \cup {e} /\ entered' = entered + 1
  <2>1. PICK y : \A i \in M : Rank(M, Order(TRUE), i) = Passed - 1 => i = y
    <3>1. Passed - 1 \in Int
      BY <1>2
    <3> QED BY <1>1, <3>1, OneRow, Zenon
  <2> DEFINE x == IF Place(e)' >= Passed THEN e ELSE y
  <2>2. ASSUME NEW i \in ToCome', i # x PROVE i \in ToCome
    <3>1. i \in N /\ e \in N /\ i \in seen /\ i \notin Ties /\ Place(i)' >= Passed
      BY <1>3, <1>7, <2>2
    <3>2. i # e
      BY <2>2, <3>1
    <3>3. /\ i \in M /\ Place(i) \in Nat /\ Place(i)' \in Nat
          /\ \/ Place(i)' = Place(i)
             \/ Place(i)' = Place(i) + 1 /\ <<e, i>> \in Order(TRUE)'
      BY <1>7, <3>1, <3>2, PlacesMove
    <3>4. CASE Place(i)' = Place(i)
      BY <3>1, <3>3, <3>4 DEF ToCome
    <3>5. CASE Place(i)' = Place(i) + 1 /\ <<e, i>> \in Order(TRUE)' /\ Place(e)' >= Passed
      <4>1. Place(e)' \in Nat /\ Place(e)' < Place(i)'
        <5>1. Rank(N, Order(TRUE)', e) < Rank(N, Order(TRUE)', i)
          BY <1>1, <3>1, <3>5, RankGrows
        <5>2. Rank(N, Order(TRUE)', e) \in Nat
          BY <1>1, <3>1, RankType
        <5>3. Place(e)' = Rank(N, Order(TRUE)', e) /\ Place(i)' = Rank(N, Order(TRUE)', i)
          BY DEF Place, Rank, Preceding
        <5> QED BY <5>1, <5>2, <5>3
      <4>2. Place(i) >= Passed
        BY <1>2, <3>3, <3>5, <4>1
      <4> QED BY <3>1, <3>3, <4>2 DEF ToCome
    <3>6. CASE Place(i)' = Place(i) + 1 /\ ~(Place(e)' >= Passed)
      <4>1. Place(i) # Passed - 1
        BY <2>1, <2>2, <3>3, <3>6 DEF Place
      <4>2. Place(i) >= Passed
        <5>1. Place(i) \in Nat /\ Place(i)' >= Passed /\ Passed \in Nat
          BY <1>2, <3>1, <3>3
        <5> HIDE DEF x
        <5> QED BY <3>6, <4>1, <5>1
      <4> QED BY <3>1, <3>3, <4>2 DEF ToCome
    <3> QED BY <3>3, <3>4, <3>5, <3>6
  <2>3. ToCome' \in SUBSET (ToCome \cup {x})
    BY <2>2
  <2> HIDE DEF x
  <2>4. IsFiniteSet(ToCome') /\ Cardinality(ToCome') =< Cardinality(ToCome) + 1
    BY <1>2, <2>3, OneMore
  <2>5. Cardinality(ToCome') \in Nat
    BY <2>4, FS_CardinalityType
  <2> QED BY <1>2, <1>7, <2>4, <2>5
<1> QED BY <1>5, <1>6, <1>7, ChangeCounts

\* Rows that come after COUNT are torn.
LEMMA ChangeCounted ==
    ASSUME PagesTypes, CountedAll, NEW table, NEW e, Changes(table, e)
    PROVE  CountedAll'
<1> DEFINE M == Matching(rows)
<1> DEFINE N == Matching(rows)'
<1>1. walk \in {"count", "select"} /\ UNCHANGED <<walk, total>>
  BY ChangeFacts DEF Changes, TableChanges
<1>2. IsFiniteSet(M) /\ Cardinality(M) \in Nat /\ total \in Nat /\ torn \in Nat
  BY RowsFinite DEF PagesTypes
<1> SUFFICES ASSUME walk = "select" PROVE Cardinality(N) =< total + torn'
  BY <1>1 DEF CountedAll
<1>3. Cardinality(M) =< total + torn
  BY DEF CountedAll
<1> HIDE DEF M, N
<1>4. CASE N = M /\ UNCHANGED torn
  BY <1>3, <1>4
<1>5. CASE e \notin M /\ N = M \cup {e} /\ torn' = torn + 1
  <2>1. Cardinality(N) = Cardinality(M) + 1
    BY <1>2, <1>5, FS_AddElement
  <2> QED BY <1>2, <1>3, <1>5, <2>1
<1>6. CASE e \in M /\ N = M \ {e} /\ UNCHANGED torn
  <2>1. Cardinality(N) = Cardinality(M) - 1
    BY <1>2, <1>6, FS_RemoveElement
  <2> QED BY <1>2, <1>3, <1>6, <2>1
<1> QED BY <1>4, <1>5, <1>6, ChangeCounts DEF M, N

\* Together.
LEMMA TableStep ==
    ASSUME PagesInv, NEW table, NEW e, Changes(table, e), operations' \in Nat
    PROVE  PagesInv'
<1>1. PagesTypes'
  BY ChangeTypes DEF PagesInv
<1> QED BY <1>1, ChangeMissed, ChangeRepeats, ChangeCounted DEF PagesInv

-----------------------------------------------------------------------------
(* PagedLists: the steps                                                   *)

\* A row is inserted.
LEMMA InsertStep ==
    ASSUME PagesInv, NEW c \in BOOLEAN, NEW t \in Nat, NEW s \in TripStatus \cup {"none"},
           TableChanges(Append(rows, NewRow(c, t, s))), UNCHANGED operations
    PROVE  PagesInv'
<1> DEFINE table == Append(rows, NewRow(c, t, s))
<1> DEFINE e == Len(rows) + 1
<1>1. rows \in Seq(TableRow) /\ Len(rows) \in Nat /\ DOMAIN rows = 1..Len(rows) /\ operations \in Nat
  BY DEF PagesInv, PagesTypes
<1>2. NewRow(c, t, s) \in TableRow
  BY DEF NewRow, TableRow
<1>3. /\ table \in Seq(TableRow) /\ DOMAIN table = 1..(Len(rows) + 1)
      /\ \A i \in DOMAIN rows : table[i] = rows[i] /\ table[e] = NewRow(c, t, s)
  BY <1>1, <1>2
<1>4. DOMAIN rows \subseteq DOMAIN table /\ \A i \in DOMAIN table : i \in DOMAIN rows \/ i = e
  BY <1>1, <1>3
<1> HIDE DEF table, e
<1>5. \A i : i # e => (i \in Matching(table) <=> i \in Matching(rows))
  BY <1>3, <1>4 DEF Matching, InQueue, InHistory, InTrips
<1>6. Changes(table, e)
  BY <1>3, <1>4, <1>5 DEF Changes, table
<1> QED BY <1>1, <1>6, TableStep

\* One row is updated.
LEMMA UpdateStep ==
    ASSUME PagesInv, NEW k \in DOMAIN rows, NEW new \in TableRow,
           new.at = rows[k].at, new.critical = rows[k].critical,
           TableChanges([rows EXCEPT ![k] = new]), operations' \in Nat
    PROVE  PagesInv'
<1> DEFINE table == [rows EXCEPT ![k] = new]
<1>1. rows \in Seq(TableRow) /\ DOMAIN rows = 1..Len(rows)
  BY DEF PagesInv, PagesTypes
<1>2. table \in Seq(TableRow) /\ DOMAIN table = DOMAIN rows
  BY <1>1
<1>3. /\ \A i \in DOMAIN rows : i # k => table[i] = rows[i]
      /\ table[k] = new
  BY <1>1
<1> HIDE DEF table
<1>4. \A i : i # k => (i \in Matching(table) <=> i \in Matching(rows))
  BY <1>2, <1>3 DEF Matching, InQueue, InHistory, InTrips
<1>5. Changes(table, k)
  <2>1. TableChanges(table)
    BY DEF table
  <2> QED BY <1>2, <1>3, <1>4, <2>1 DEF Changes
<1> QED BY <1>5, TableStep

\* An operator, the stop detector or the management of trips updates a row.
LEMMA OperatorStep ==
    ASSUME PagesInv, NEW k \in DOMAIN rows,
           \/ AcknowledgeRow(k) \/ UnacknowledgeRow(k) \/ ResolveRow(k)
           \/ CompleteRow(k) \/ ManageRow(k)
    PROVE  PagesInv'
<1>1. rows[k] \in TableRow /\ operations' \in Nat
  <2>1. rows \in Seq(TableRow) /\ operations \in Nat
    BY DEF PagesInv, PagesTypes
  <2>2. operations' = operations + 1
    BY DEF AcknowledgeRow, UnacknowledgeRow, ResolveRow, CompleteRow, ManageRow, Operates
  <2> QED BY <2>1, <2>2
<1>2. ASSUME NEW b \in BOOLEAN, TableChanges([rows EXCEPT ![k].acked = b])
      PROVE  PagesInv'
  <2> DEFINE new == [rows[k] EXCEPT !.acked = b]
  <2>1. new \in TableRow /\ new.at = rows[k].at /\ new.critical = rows[k].critical
    BY <1>1 DEF TableRow
  <2>2. TableChanges([rows EXCEPT ![k] = new])
    BY <1>2
  <2> HIDE DEF new
  <2> QED BY <1>1, <2>1, <2>2, UpdateStep
<1>3. ASSUME TableChanges([rows EXCEPT ![k].resolved = TRUE])
      PROVE  PagesInv'
  <2> DEFINE new == [rows[k] EXCEPT !.resolved = TRUE]
  <2>1. new \in TableRow /\ new.at = rows[k].at /\ new.critical = rows[k].critical
    BY <1>1 DEF TableRow
  <2>2. TableChanges([rows EXCEPT ![k] = new])
    BY <1>3
  <2> HIDE DEF new
  <2> QED BY <1>1, <2>1, <2>2, UpdateStep
<1>4. ASSUME NEW s \in TripStatus, TableChanges([rows EXCEPT ![k].status = s])
      PROVE  PagesInv'
  <2> DEFINE new == [rows[k] EXCEPT !.status = s]
  <2>1. new \in TableRow /\ new.at = rows[k].at /\ new.critical = rows[k].critical
    BY <1>1 DEF TableRow
  <2>2. TableChanges([rows EXCEPT ![k] = new])
    BY <1>4
  <2> HIDE DEF new
  <2> QED BY <1>1, <2>1, <2>2, UpdateStep
<1>5. CASE AcknowledgeRow(k) \/ UnacknowledgeRow(k)
  BY <1>2, <1>5 DEF AcknowledgeRow, UnacknowledgeRow
<1>6. CASE ResolveRow(k)
  BY <1>3, <1>6 DEF ResolveRow
<1>7. CASE CompleteRow(k) \/ ManageRow(k)
  <2>1. {"COMPLETED", "IN_PROGRESS", "CANCELLED"} \subseteq TripStatus
    BY DEF TripStatus
  <2> QED BY <1>4, <1>7, <2>1 DEF CompleteRow, ManageRow
<1> QED BY <1>5, <1>6, <1>7

\* A step that leaves the table and what was read alone, and passes no place.
LEMMA PagesFrame ==
    ASSUME PagesInv, PagesTypes', CountedAll', Passed' = Passed,
           UNCHANGED <<rows, list, seen, stayed, repeats, entered, left, cut>>
    PROVE  PagesInv'
<1>1. Matching(rows)' = Matching(rows) /\ Ties' = Ties /\ Order(TRUE)' = Order(TRUE)
  BY DEF Matching, InQueue, InHistory, InTrips, Ties, Order, Before
<1>2. \A i : Place(i)' = Place(i)
  BY <1>1 DEF Place, Rank, Preceding
<1>3. Missed' = Missed /\ ToCome' = ToCome
  BY <1>1, <1>2 DEF Missed, ToCome
<1> QED BY <1>3 DEF PagesInv, FewMissed, FewRepeats

\* COUNT.
LEMMA CountStep ==
    ASSUME PagesInv, Count
    PROVE  PagesInv'
<1>1. /\ walk = "count" /\ walk' = "select"
      /\ UNCHANGED <<rows, list, raw, page, seen, stayed, repeats, entered, left, cut, operations>>
      /\ \/ total' = Cardinality(Matching(rows)) /\ torn' = 0 /\ UNCHANGED errors
         \/ errors' = errors + 1 /\ total' = 0 /\ torn' = Cardinality(Matching(rows))
  BY DEF Count, StatementFails, listVars
<1>2. PagesTypes /\ Cardinality(Matching(rows)) \in Nat /\ errors \in Nat
  BY RowsFinite DEF PagesInv, PagesTypes
<1>3. Matching(rows)' = Matching(rows)
  BY <1>1 DEF Matching, InQueue, InHistory, InTrips
<1>4. PagesTypes'
  <2>1. total' \in Nat /\ torn' \in Nat /\ errors' \in Nat
    BY <1>1, <1>2
  <2> QED BY <1>1, <1>2, <1>3, <2>1 DEF PagesTypes
<1>5. CountedAll'
  <2>1. Cardinality(Matching(rows))' = Cardinality(Matching(rows))
    BY <1>3
  <2>2. total' + torn' = Cardinality(Matching(rows))
    BY <1>1, <1>2
  <2> QED BY <1>1, <1>2, <2>1, <2>2 DEF CountedAll
<1>6. Passed' = Passed
  BY <1>1 DEF Passed, Offset
<1> QED BY <1>1, <1>4, <1>5, <1>6, PagesFrame

\* SELECT fails.
LEMMA SelectFails ==
    ASSUME PagesInv, walk = "select", StatementFails, walk' = "failed",
           UNCHANGED <<seen, repeats, cut, page, rows, list, raw, total, stayed, entered, left, torn, operations>>
    PROVE  PagesInv'
<1>1. errors \in Nat /\ errors' = errors + 1
  BY DEF StatementFails, PagesInv, PagesTypes
<1>2. Matching(rows)' = Matching(rows)
  BY DEF Matching, InQueue, InHistory, InTrips
<1>3. PagesTypes'
  BY <1>1, <1>2 DEF PagesTypes, PagesInv
<1>4. CountedAll' /\ Passed' = Passed
  BY DEF CountedAll, Passed, Offset
<1> QED BY <1>3, <1>4, PagesFrame

\* What NewPagination calls the number of pages is enough of them.
LEMMA PagesSuffice ==
    ASSUME NEW n \in Nat, NEW l \in Nat \ {0}, NEW p \in Nat, ~(p < Pages(n, l))
    PROVE  n =< p * l
<1> DEFINE q == (n + l - 1) \div l
<1>1. q \in Int /\ q =< p
  BY DEF Pages
<1>2. n + l - 1 < (q + 1) * l
  OBVIOUS
<1>3. (q + 1) * l = q * l + l
  BY <1>1
<1>4. q * l =< p * l
  BY <1>1
<1> HIDE DEF q
<1>5. q * l \in Int /\ p * l \in Int
  BY <1>1
<1> QED BY <1>1, <1>2, <1>3, <1>4, <1>5

\* A page is got, in whole or in part: the places on it are passed, and its rows seen
\* or cut off.
LEMMA SelectStep ==
    ASSUME PagesInv, NEW up \in BOOLEAN, NEW n \in Nat, n =< Limit(raw), walk = "select",
           Shows(up, n), Answer, errors' \in Nat,
           UNCHANGED <<rows, list, raw, total, stayed, entered, left, torn, operations>>
    PROVE  PagesInv'
<1> DEFINE M == Matching(rows)
<1> DEFINE L == Limit(raw)
<1> DEFINE Q == PageRows(up, L)
<1> DEFINE P == PageRows(up, n)
<1> DEFINE Again == (seen \cap P) \ Ties
<1>1. /\ PagesTypes /\ L \in Nat \ {0} /\ Offset \in Nat /\ Passed = Offset
      /\ page \in Nat \ {0} /\ total \in Nat /\ n =< L
      /\ seen' = seen \cup P /\ repeats' = repeats + Cardinality(Again)
      /\ cut' = cut + Cardinality(Q \ P)
  BY LimitFacts DEF PagesInv, Passed, PagesTypes, Shows
<1>2. IsFiniteSet(M) /\ Orders(Order(up), M) /\ M \subseteq DOMAIN rows
  BY <1>1, RowsFinite, RowsOrdered
<1>3. /\ P = {i \in M : Rank(M, Order(up), i) \in Offset .. Offset + n - 1}
      /\ Q = {i \in M : Rank(M, Order(up), i) \in Offset .. Offset + L - 1}
  BY <1>1, PageByRank
<1>4. Matching(rows)' = M /\ Ties' = Ties /\ (\A i : Place(i)' = Place(i)) /\ Limit(raw)' = L
  <2>1. Matching(rows)' = M /\ Ties' = Ties /\ Order(TRUE)' = Order(TRUE)
    BY DEF Matching, InQueue, InHistory, InTrips, Ties, Order, Before
  <2> QED BY <2>1 DEF Place, Rank, Preceding, Limit
<1>5. /\ P \subseteq M /\ seen \subseteq DOMAIN rows /\ repeats \in Nat /\ cut \in Nat
      /\ IsFiniteSet(Again) /\ Cardinality(Again) \in Nat
      /\ IsFiniteSet(Q \ P) /\ Cardinality(Q \ P) \in Nat
  <2>1. P \subseteq M /\ Q \subseteq M
    BY <1>3
  <2>2. seen \subseteq DOMAIN rows /\ repeats \in Nat /\ cut \in Nat
    BY <1>1 DEF PagesTypes
  <2> HIDE DEF P, Q, M
  <2>3. IsFiniteSet(Again) /\ IsFiniteSet(Q \ P)
    BY <1>2, <2>1, FS_Subset
  <2> QED BY <2>1, <2>2, <2>3, FS_CardinalityType
<1>6. Passed' = Offset + L
  <2>1. CASE page < Pages(total, L)
    <3>1. Offset' = ((page + 1) - 1) * L /\ Passed' = Offset'
      <4>1. page' = page + 1 /\ walk' = "count"
        BY <2>1 DEF Answer
      <4>2. Offset' = (page' - 1) * L
        BY <1>4 DEF Offset
      <4>3. Passed' = Offset'
        BY <4>1 DEF Passed
      <4>4. Offset' = ((page + 1) - 1) * L
        BY <4>1, <4>2, Zenon
      <4> QED BY <4>3, <4>4
    <3>2. ((page + 1) - 1) * L = (page - 1) * L + L
      BY <1>1
    <3> QED BY <3>1, <3>2 DEF Offset
  <2>2. CASE ~(page < Pages(total, L))
    BY <1>4, <2>2 DEF Offset, Passed, Answer
  <2> QED BY <2>1, <2>2
<1>7. PagesTypes'
  <2>1. seen' \subseteq DOMAIN rows' /\ repeats' \in Nat /\ cut' \in Nat
    BY <1>1, <1>2, <1>5
  <2>2. page' \in Nat \ {0} /\ walk' \in {"count", "done"}
    BY <1>1 DEF Answer
  <2> QED BY <1>1, <1>4, <2>1, <2>2 DEF PagesTypes
<1>8. CountedAll'
  <2>1. Cardinality(M) =< total + torn
    BY DEF PagesInv, CountedAll
  <2>2. ASSUME ~(page < Pages(total, L)) PROVE total =< Offset + L
    <3>1. total =< page * L
      BY <1>1, <2>2, PagesSuffice
    <3>2. page * L = (page - 1) * L + L
      BY <1>1
    <3> QED BY <3>1, <3>2 DEF Offset
  <2>3. Cardinality(Matching(rows))' = Cardinality(M)
    BY <1>4
  <2>4. walk' = "done" => ~(page < Pages(total, L))
    BY DEF Answer
  <2> QED BY <1>6, <2>1, <2>2, <2>3, <2>4 DEF CountedAll
<1> HIDE DEF M, L, P, Q
<1>9. FewMissed'
  <2>1. ASSUME NEW i \in Missed', i \notin Q \ P PROVE i \in Missed
    <3>1. /\ i \in stayed /\ i \notin seen /\ i \notin P /\ i \notin Ties
          /\ Place(i) < Offset + L /\ i \in M
      BY <1>1, <1>4, <1>6, <2>1 DEF Missed, PagesTypes, M
    <3>2. Rank(M, Order(up), i) = Place(i) /\ Place(i) \in Nat
      BY <1>1, <3>1, PlaceWithoutTies, Places DEF M
    <3>3. i \notin Q
      BY <2>1, <3>1
    <3>4. Place(i) < Offset
      BY <1>1, <1>3, <3>1, <3>2, <3>3
    <3> QED BY <1>1, <3>1, <3>4 DEF Missed
  <2>2. IsFiniteSet(Missed) /\ Cardinality(Missed) \in Nat
    <3>1. Missed \in SUBSET M
      BY <1>1 DEF Missed, PagesTypes, M
    <3> QED BY <1>2, <3>1, FewerRows
  <2>3. /\ IsFiniteSet(Missed \cup (Q \ P))
        /\ Cardinality(Missed \cup (Q \ P)) =< Cardinality(Missed) + Cardinality(Q \ P)
    BY <1>5, <2>2, UnionFits
  <2>4. Missed' \in SUBSET (Missed \cup (Q \ P))
    BY <2>1
  <2>5. /\ Cardinality(Missed') \in Nat /\ Cardinality(Missed \cup (Q \ P)) \in Nat
        /\ Cardinality(Missed') =< Cardinality(Missed \cup (Q \ P))
    BY <2>3, <2>4, FewerRows
  <2>6. left \in Nat /\ Cardinality(Missed) =< left + cut
    BY DEF PagesInv, PagesTypes, FewMissed
  <2>7. Cardinality(Missed') =< left + cut'
    BY <1>1, <1>5, <2>2, <2>3, <2>5, <2>6
  <2> QED BY <2>7 DEF FewMissed
<1>10. FewRepeats'
  <2>1. ASSUME NEW i \in M, i \notin Ties
        PROVE  Rank(M, Order(up), i) = Place(i) /\ Place(i) \in Nat
    BY <1>1, <2>1, PlaceWithoutTies, Places DEF M
  <2>2. \A i \in Again : /\ i \in M /\ i \in seen /\ i \notin Ties
                         /\ Place(i) >= Offset /\ Place(i) < Offset + L
    <3>1. \A i \in Again : i \in M /\ i \in seen /\ i \notin Ties /\ i \in P
      BY <1>5
    <3> QED BY <1>1, <1>3, <2>1, <3>1
  <2>3. \A i \in ToCome' : i \in M /\ i \in seen /\ i \notin Ties /\ Place(i) >= Offset + L
    <3>1. \A i \in ToCome' : i \in seen \cup P /\ i \in M /\ i \notin Ties /\ Place(i) >= Offset + L
      BY <1>1, <1>4, <1>6 DEF ToCome
    <3>2. \A i \in P : i \notin Ties => ~(Place(i) >= Offset + L)
      BY <1>1, <1>3, <2>1
    <3> QED BY <3>1, <3>2
  <2>4. Again \cup ToCome' \in SUBSET ToCome /\ Again \cap ToCome' = {}
    <3>1. \A i \in ToCome' : Place(i) >= Offset
      BY <1>1, <2>1, <2>3
    <3> HIDE DEF Again
    <3>2. Again \cup ToCome' \in SUBSET ToCome
      BY <1>1, <2>2, <2>3, <3>1 DEF ToCome, M
    <3>3. \A i \in Again \cap ToCome' : FALSE
      BY <1>1, <2>1, <2>2, <2>3
    <3> QED BY <3>2, <3>3
  <2> HIDE DEF Again
  <2>5. IsFiniteSet(ToCome) /\ IsFiniteSet(ToCome')
    <3>1. ToCome \subseteq M
      BY DEF ToCome, M
    <3>2. ToCome' \subseteq ToCome
      BY <2>4
    <3> QED BY <1>2, <3>1, <3>2, FS_Subset
  <2>6. Cardinality(Again \cup ToCome') = Cardinality(Again) + Cardinality(ToCome')
    <3>1. Cardinality(Again \cap ToCome') = 0
      BY <2>4, FS_EmptySet
    <3>2. Cardinality(Again) \in Nat /\ Cardinality(ToCome') \in Nat
      BY <1>5, <2>5, FS_CardinalityType
    <3>3. Cardinality(Again \cup ToCome') =
             Cardinality(Again) + Cardinality(ToCome') - Cardinality(Again \cap ToCome')
      BY <1>5, <2>5, FS_Union, Zenon
    <3> QED BY <3>1, <3>2, <3>3
  <2>7. Cardinality(Again \cup ToCome') =< Cardinality(ToCome) /\ Cardinality(ToCome) \in Nat
    BY <2>4, <2>5, FewerRows
  <2>8. repeats + Cardinality(ToCome) =< entered /\ entered \in Nat
    BY DEF PagesInv, FewRepeats, PagesTypes
  <2>9. Cardinality(ToCome') \in Nat
    BY <2>5, FS_CardinalityType
  <2>10. repeats' + Cardinality(ToCome') =< entered
    BY <1>1, <1>5, <2>6, <2>7, <2>8, <2>9
  <2> QED BY <2>10 DEF FewRepeats
<1> QED BY <1>7, <1>8, <1>9, <1>10 DEF PagesInv

\* The invariant holds at the beginning, when nothing is passed or seen.
LEMMA PagesStart ==
    ASSUME PagesInit
    PROVE  PagesInv
<1>1. /\ list \in View /\ raw \in RawLimit /\ page = 1 /\ total = 0 /\ walk = "count"
      /\ seen = {} /\ stayed = Matching(rows)
      /\ repeats = 0 /\ entered = 0 /\ left = 0 /\ torn = 0 /\ cut = 0 /\ operations = 0 /\ errors = 0
  BY DEF PagesInit
<1>2. rows \in Seq(TableRow)
  <2>1. PICK n \in 0..MaxRows :
          rows \in [1..n -> [critical : BOOLEAN, at : Departure \cup 1..MaxRows,
                             acked : BOOLEAN, resolved : {FALSE},
                             status : TripStatus \cup {"none"}]]
    BY DEF PagesInit, FirstRows
  <2>2. Departure \cup 1..MaxRows \subseteq Nat /\ n \in Nat
    BY PagesAssumption
  <2>3. rows \in [1..n -> TableRow]
    BY <2>1, <2>2 DEF TableRow
  <2> QED BY <2>2, <2>3
<1>3. PagesTypes
  BY <1>1, <1>2 DEF PagesTypes
<1>4. Passed = 0
  <2>1. Limit(raw) \in Nat
    BY <1>3, LimitFacts
  <2> QED BY <1>1, <2>1 DEF Passed, Offset
<1>5. Missed = {} /\ ToCome = {}
  <2>1. ASSUME NEW i \in Missed PROVE FALSE
    <3>1. i \in Matching(rows) /\ Place(i) < 0
      BY <1>1, <1>4, <2>1 DEF Missed
    <3> QED BY <1>3, <3>1, Places
  <2> QED BY <1>1, <2>1 DEF ToCome
<1>6. Cardinality({}) = 0
  BY FS_EmptySet
<1>7. FewMissed /\ FewRepeats
  BY <1>1, <1>5, <1>6 DEF FewMissed, FewRepeats
<1> QED BY <1>1, <1>3, <1>7 DEF PagesInv, CountedAll

\* Every step keeps it.
LEMMA PagesStep ==
    ASSUME PagesInv, [PagesNext]_pagesVars
    PROVE  PagesInv'
<1>1. CASE Count
  BY <1>1, CountStep
<1>2. CASE Select
  <2>1. /\ walk = "select"
        /\ UNCHANGED <<rows, list, raw, total, stayed, entered, left, torn, operations>>
    BY <1>2 DEF Select, listVars
  <2>2. CASE StatementFails /\ walk' = "failed" /\ UNCHANGED <<seen, repeats, cut, page>>
    BY <2>1, <2>2, SelectFails
  <2>3. errors \in Nat /\ Limit(raw) \in Nat \ {0}
    BY LimitFacts DEF PagesInv, PagesTypes
  <2>4. ASSUME NEW up \in BOOLEAN, Shows(up, Limit(raw)), Answer, UNCHANGED errors
        PROVE  PagesInv'
    BY <2>1, <2>3, <2>4, SelectStep
  <2>5. ASSUME NEW up \in BOOLEAN, NEW n \in 0..(Limit(raw) - 1), Shows(up, n), Answer, StatementFails
        PROVE  PagesInv'
    <3>1. n \in Nat /\ n =< Limit(raw)
      BY <2>3
    <3>2. errors' \in Nat
      BY <2>3, <2>5 DEF StatementFails
    <3> QED BY <2>1, <2>5, <3>1, <3>2, SelectStep
  <2> QED BY <1>2, <2>2, <2>4, <2>5 DEF Select
<1>3. ASSUME NEW c \in BOOLEAN, NewAlert(c) PROVE PagesInv'
  <2>1. Len(rows) + 1 \in Nat
    BY DEF PagesInv, PagesTypes
  <2>2. TableChanges(Append(rows, NewRow(c, Len(rows) + 1, "none"))) /\ UNCHANGED operations
    BY <1>3 DEF NewAlert
  <2> QED BY <2>1, <2>2, InsertStep
<1>4. ASSUME NEW t \in Departure, NEW s \in {"SCHEDULED", "IN_PROGRESS"}, NewTrip(t, s)
      PROVE  PagesInv'
  <2>1. t \in Nat /\ FALSE \in BOOLEAN /\ s \in TripStatus \cup {"none"}
    BY PagesAssumption DEF TripStatus
  <2>2. TableChanges(Append(rows, NewRow(FALSE, t, s))) /\ UNCHANGED operations
    BY <1>4 DEF NewTrip
  <2> QED BY <2>1, <2>2, InsertStep
<1>5. ASSUME NEW i \in DOMAIN rows,
             \/ AcknowledgeRow(i) \/ UnacknowledgeRow(i) \/ ResolveRow(i)
             \/ CompleteRow(i) \/ ManageRow(i)
      PROVE  PagesInv'
  BY <1>5, OperatorStep
<1>6. CASE UNCHANGED pagesVars
  <2>1. UNCHANGED <<rows, list, raw, page, total, walk, seen, stayed, repeats,
                    entered, left, torn, cut, operations, errors>>
    BY <1>6 DEF pagesVars
  <2>2. Matching(rows)' = Matching(rows)
    BY <2>1 DEF Matching, InQueue, InHistory, InTrips
  <2>3. PagesTypes'
    BY <2>1, <2>2 DEF PagesInv, PagesTypes
  <2>4. Passed' = Passed
    BY <2>1 DEF Passed, Offset
  <2>5. CountedAll'
    BY <2>1, <2>2, <2>4 DEF PagesInv, CountedAll
  <2> QED BY <2>1, <2>3, <2>4, <2>5, PagesFrame
<1> QED BY <1>1, <1>2, <1>3, <1>4, <1>5, <1>6 DEF PagesNext

\* The rows that are missed were passed over, or are behind the rows COUNT has counted.
LEMMA MissedAtEnd ==
    ASSUME PagesInv, walk = "done"
    PROVE  Cardinality((stayed \ seen) \ Ties) =< left + torn + cut
<1> DEFINE M == Matching(rows)
<1> DEFINE Behind == {i \in M : Place(i) >= total}
<1>1. /\ PagesTypes /\ Passed \in Nat /\ total \in Nat /\ left \in Nat /\ torn \in Nat /\ cut \in Nat
      /\ IsFiniteSet(M) /\ Cardinality(M) \in Nat /\ Orders(Order(TRUE), M)
  BY LimitFacts, RowsFinite, ListOrdered DEF PagesInv, PagesTypes
<1>2. Cardinality(M) =< total + torn /\ total =< Passed /\ Cardinality(Missed) =< left + cut
  BY DEF PagesInv, CountedAll, FewMissed
<1>3. IsFiniteSet(Behind) /\ Cardinality(Behind) =< torn /\ Cardinality(Behind) \in Nat
  <2> DEFINE b == total + torn - 1
  <2>1. Behind \in SUBSET M /\ total \in Int /\ b \in Int
    BY <1>1
  <2>2. ASSUME NEW i \in Behind PROVE Rank(M, Order(TRUE), i) \in total .. b
    <3>1. Place(i) \in Nat /\ Place(i) < Cardinality(M) /\ Place(i) >= total
      BY <1>1, <2>2, Places
    <3>2. Rank(M, Order(TRUE), i) = Place(i)
      BY DEF Place
    <3>3. Place(i) \in total .. b
      BY <1>1, <1>2, <3>1
    <3> QED BY <3>2, <3>3
  <2> HIDE DEF b, Behind, M
  <2>3. IsFiniteSet(Behind) /\ Cardinality(Behind) =< IF total > b THEN 0 ELSE b - total + 1
    BY <1>1, <2>1, <2>2, RanksFit
  <2>4. Cardinality(Behind) \in Nat
    BY <2>3, FS_CardinalityType
  <2> QED BY <1>1, <2>3, <2>4 DEF b
<1>4. (stayed \ seen) \ Ties \in SUBSET (Missed \cup Behind) /\ Missed \subseteq M
  <2>1. ASSUME NEW i \in (stayed \ seen) \ Ties PROVE i \in Missed \/ i \in Behind
    <3>1. i \in M /\ Place(i) \in Nat
      BY <1>1, <2>1, Places DEF PagesTypes
    <3>2. Place(i) < Passed \/ Place(i) >= total
      BY <1>1, <1>2, <3>1
    <3> QED BY <2>1, <3>1, <3>2 DEF Missed
  <2> QED BY <1>1, <2>1 DEF Missed, PagesTypes
<1> HIDE DEF Behind, M
<1>5. IsFiniteSet(Missed) /\ Cardinality(Missed) \in Nat
  BY <1>1, <1>4, FewerRows
<1>6. /\ IsFiniteSet(Missed \cup Behind)
      /\ Cardinality(Missed \cup Behind) =< Cardinality(Missed) + Cardinality(Behind)
  BY <1>3, <1>5, UnionFits
<1>7. /\ Cardinality((stayed \ seen) \ Ties) \in Nat
      /\ Cardinality((stayed \ seen) \ Ties) =< Cardinality(Missed \cup Behind)
      /\ Cardinality(Missed \cup Behind) \in Nat
  BY <1>4, <1>6, FewerRows
<1> QED BY <1>1, <1>2, <1>3, <1>5, <1>6, <1>7

\* Rows come again only when others come on the list.
LEMMA RepeatsBounded ==
    ASSUME PagesInv
    PROVE  repeats =< entered
<1>1. IsFiniteSet(Matching(rows)) /\ ToCome \in SUBSET Matching(rows)
  BY RowsFinite DEF PagesInv, ToCome
<1>2. Cardinality(ToCome) \in Nat /\ repeats \in Nat /\ entered \in Nat
  BY <1>1, FewerRows DEF PagesInv, PagesTypes
<1>3. repeats + Cardinality(ToCome) =< entered
  BY DEF PagesInv, FewRepeats
<1> QED BY <1>2, <1>3

\* Whoever reads a paged list to its last page, while alerts and trips are inserted,
\* operators acknowledge, unacknowledge and resolve, and trips begin and end, misses at
\* most one row for each that left the list, that the last COUNT has not counted or that
\* a page broke off before, and is shown at most one again for each that came, ties
\* apart: for tables, limits and departures of any size.
THEOREM ListsReadOnce == PagesSpec => []RowsShownOnce
<1>1. PagesInit => PagesInv
  BY PagesStart
<1>2. PagesInv /\ [PagesNext]_pagesVars => PagesInv'
  BY PagesStep
<1>3. PagesInv => RowsShownOnce
  BY MissedAtEnd, RepeatsBounded DEF RowsShownOnce
<1> QED BY <1>1, <1>2, <1>3, PTL DEF PagesSpec

=============================================================================
