----------------------------- MODULE WalkProofs ------------------------------
(***************************************************************************)
(* Nobody in the fight comes to stand in somebody, or in a rock; what a    *)
(* turn is charged covers the ground it has covered; and nobody walks out  *)
(* of an enemy's reach for nothing: proofs about Walk.                     *)
(***************************************************************************)
EXTENDS Walk, SequenceTheorems, Least, TLAPS

(* All that is needed of a state: everybody in the fight is somewhere.     *)
Somewhere == square = [c \in Combatant |-> square[c]]

-----------------------------------------------------------------------------
(* One token moved                                                         *)

LEMMA OneTokenMoved ==
  ASSUME Somewhere, NEW c \in Combatant, NEW s,
         square' = [square EXCEPT ![c] = s]
  PROVE  /\ Somewhere'
         /\ square'[c] = s
         /\ \A d \in Combatant \ {c} : square'[d] = square[d]
BY DEF Somewhere

NobodyStoodInto ==
  \A c \in Combatant :
    square'[c] # square[c] /\ Standing(c)' /\ ~Enlisted(c)
      => /\ square'[c] \in Square \ rocks
         /\ \A d \in Combatant \ {c} : ~ (Standing(d) /\ square[d] = square'[c])

(* What place leaves behind it, wherever it is asked to put somebody.      *)
LEMMA PlacedInPeace ==
  ASSUME Somewhere, NEW c \in Combatant, NEW s, square' = Placed(c, s)
  PROVE  Somewhere' /\ NobodyStoodInto
<1>1. CASE s = OffMap \/ Free(c, s)
  <2>1. square' = [square EXCEPT ![c] = s]
    BY <1>1 DEF Placed
  <2>2. /\ Somewhere' /\ square'[c] = s
        /\ \A d \in Combatant \ {c} : square'[d] = square[d]
    BY <2>1, OneTokenMoved
  <2>3. CASE s = OffMap
    BY <2>2, <2>3 DEF NobodyStoodInto, Standing
  <2>4. CASE Free(c, s)
    BY <2>2, <2>4 DEF NobodyStoodInto, Free
  <2> QED
    BY <1>1, <2>3, <2>4
<1>2. CASE ~ (s = OffMap \/ Free(c, s))
  BY <1>2 DEF Placed, Somewhere, NobodyStoodInto
<1> QED
  BY <1>1, <1>2

-----------------------------------------------------------------------------
(* The actions                                                             *)

NoRockInto ==
  rocks' # rocks =>
    \A c \in Combatant : ~ (Standing(c) /\ square[c] \in rocks' \ rocks)

Peaceful == NobodyStoodInto /\ NoRockInto

LEMMA WalkIsPeaceful ==
  ASSUME Somewhere, NEW c \in Combatant, NEW to, Walk(c, to)
  PROVE  Somewhere' /\ Peaceful
<1>1. UNCHANGED rocks
  BY DEF Walk
<1>2. PICK route : Arrives(c, to, route) \/ FallsOnTheWay(c, route)
  BY DEF Walk
<1>3. \E s : square' = Placed(c, s)
  BY <1>2 DEF Arrives, FallsOnTheWay, FallsAt
<1>4. Somewhere' /\ NobodyStoodInto
  BY <1>3, PlacedInPeace
<1> QED
  BY <1>1, <1>4 DEF Peaceful, NoRockInto

LEMMA PutIsPeaceful ==
  ASSUME Somewhere, NEW c \in Combatant, NEW to, Put(c, to)
  PROVE  Somewhere' /\ Peaceful
<1>1. square' = Placed(c, to) /\ UNCHANGED rocks
  BY DEF Put, Placed
<1>2. Somewhere' /\ NobodyStoodInto
  BY <1>1, PlacedInPeace
<1> QED
  BY <1>1, <1>2 DEF Peaceful, NoRockInto

(* Whoever is enlisted is the only one who comes to be anywhere.           *)
LEMMA EnlistIsPeaceful ==
  ASSUME Somewhere, NEW c \in Combatant, NEW to \in Ground \cup {OffMap}, Enlist(c, to)
  PROVE  Somewhere' /\ Peaceful
<1>1. /\ square' = [square EXCEPT ![c] = to]
      /\ UNCHANGED rocks
  BY DEF Enlist
<1>2. /\ Somewhere' /\ square'[c] = to
      /\ \A d \in Combatant \ {c} : square'[d] = square[d]
  BY <1>1, OneTokenMoved
<1>3. to \in Ground => Enlisted(c)
  BY DEF Enlisted
<1>4. NobodyStoodInto
  BY <1>2, <1>3 DEF NobodyStoodInto, Standing
<1> QED
  BY <1>1, <1>2, <1>4 DEF Peaceful, NoRockInto

LEMMA RockIsPeaceful ==
  ASSUME Somewhere, NEW s \in Stones, ToggleRock(s)
  PROVE  Somewhere' /\ Peaceful
<1>1. UNCHANGED square
  BY DEF ToggleRock
<1>2. Somewhere' /\ NobodyStoodInto
  BY <1>1 DEF Somewhere, NobodyStoodInto
<1>3. CASE s \in rocks
  <2>1. rocks' = rocks \ {s}
    BY <1>3 DEF ToggleRock
  <2> QED
    BY <1>2, <2>1 DEF Peaceful, NoRockInto
<1>4. CASE s \notin rocks
  <2>1. /\ rocks' = rocks \cup {s}
        /\ \A d \in Combatant : ~ (Standing(d) /\ square[d] = s)
    BY <1>4 DEF ToggleRock
  <2> QED
    BY <1>2, <2>1 DEF Peaceful, NoRockInto
<1> QED
  BY <1>3, <1>4

LEMMA ClearIsPeaceful ==
  ASSUME ClearFight
  PROVE  Somewhere' /\ Peaceful
<1>1. /\ square' = [c \in Combatant |-> OffMap]
      /\ UNCHANGED rocks
  BY DEF ClearFight
<1> QED
  BY <1>1 DEF Somewhere, Peaceful, NobodyStoodInto, NoRockInto, Standing

LEMMA StandingStillIsPeaceful ==
  ASSUME Somewhere, UNCHANGED <<square, rocks>>
  PROVE  Somewhere' /\ Peaceful
BY DEF Somewhere, Peaceful, NobodyStoodInto, NoRockInto

LEMMA NextIsPeaceful == Somewhere /\ [Next]_vars => Somewhere' /\ Peaceful
<1> SUFFICES ASSUME Somewhere, [Next]_vars
             PROVE  Somewhere' /\ Peaceful
  OBVIOUS
<1>1. ASSUME NEW c \in Combatant, NEW to \in Square, Walk(c, to)
      PROVE  Somewhere' /\ Peaceful
  BY <1>1, WalkIsPeaceful
<1>2. ASSUME NEW c \in Combatant, NEW to \in Square \cup {OffMap}, Put(c, to)
      PROVE  Somewhere' /\ Peaceful
  BY <1>2, PutIsPeaceful
<1>3. ASSUME NEW c \in Combatant, NEW to \in Ground \cup {OffMap}, Enlist(c, to)
      PROVE  Somewhere' /\ Peaceful
  BY <1>3, EnlistIsPeaceful
<1>4. ASSUME NEW c \in Combatant, NEW on \in BOOLEAN, SetDown(c, on)
      PROVE  Somewhere' /\ Peaceful
  BY <1>4, StandingStillIsPeaceful DEF SetDown
<1>5. ASSUME NEW s \in Stones, ToggleRock(s)
      PROVE  Somewhere' /\ Peaceful
  BY <1>5, RockIsPeaceful
<1>6. CASE NextTurn \/ EndFight \/ UNCHANGED vars
  BY <1>6, StandingStillIsPeaceful DEF NextTurn, EndFight, vars
<1>7. CASE ClearFight
  BY <1>7, ClearIsPeaceful
<1> QED
  BY <1>1, <1>2, <1>3, <1>4, <1>5, <1>6, <1>7 DEF Next

LEMMA EverybodyIsSomewhere == Spec => []Somewhere
<1>1. Init => Somewhere
  BY DEF Init, Somewhere
<1> QED
  BY <1>1, NextIsPeaceful, PTL DEF Spec

-----------------------------------------------------------------------------
(* The theorem                                                             *)

(* On a map of any size, with any number in the fight and whatever stands  *)
(* in the way: no walk, within the rules or bent, in turn or out of it, no *)
(* fall on the way and no drag of a token ends past the edge, in a square  *)
(* somebody stands in or in a rock, and no rock is put on anybody (place,  *)
(* _fell_on_the_way, toggle_obstacle).  Being enlisted there is not        *)
(* covered, nor getting up.                                                *)
THEOREM SquaresStayUnshared == Spec => SquaresAreNotShared
<1>1. Peaceful <=>
        /\ \A c \in Combatant :
             square'[c] # square[c] /\ Standing(c)' /\ ~Enlisted(c)
               => /\ square'[c] \in Square \ rocks
                  /\ \A d \in Combatant \ {c} :
                       ~ (Standing(d) /\ square[d] = square'[c])
        /\ rocks' # rocks =>
             \A c \in Combatant : ~ (Standing(c) /\ square[c] \in rocks' \ rocks)
  BY DEF Peaceful, NobodyStoodInto, NoRockInto
<1>2. SquaresAreNotShared <=> [][Peaceful]_vars
  BY <1>1, PTL DEF SquaresAreNotShared
<1>3. Somewhere /\ [Next]_vars => [Peaceful]_vars
  BY NextIsPeaceful
<1> QED
  BY <1>2, <1>3, EverybodyIsSomewhere, PTL DEF Spec

-----------------------------------------------------------------------------
(* Squares, on the map and past its edges                                  *)

Plane == Int \X Int

LEMMA GroundIsFlat ==
  /\ Square \subseteq Ground /\ Ground \subseteq Plane
  /\ OffMap \notin Square
  /\ \A a \in Plane : a = <<a[1], a[2]>> /\ a[1] \in Int /\ a[2] \in Int
<1>1. Square \subseteq Plane
  BY WalkAssumption DEF Square, Plane
<1>2. Beyond \subseteq Plane /\ OffMap \notin Ground
  BY WalkAssumption DEF Plane
<1>3. \A a \in Plane : a = <<a[1], a[2]>> /\ a[1] \in Int /\ a[2] \in Int
  BY DEF Plane
<1> QED
  BY <1>1, <1>2, <1>3 DEF Ground

LEMMA DistanceIsOne ==
  ASSUME NEW a \in Plane, NEW b \in Plane, NEW c \in Plane
  PROVE  /\ Distance(a, b) \in Nat /\ Distance(a, a) = 0
         /\ Distance(a, b) = Distance(b, a)
         /\ Distance(a, c) <= Distance(a, b) + Distance(b, c)
<1>1. /\ a[1] \in Int /\ a[2] \in Int /\ b[1] \in Int /\ b[2] \in Int
      /\ c[1] \in Int /\ c[2] \in Int
  BY GroundIsFlat
<1> QED
  BY <1>1 DEF Distance

(* The map is so small that steps_between does not give up on it.          *)
LEMMA NothingIsFar ==
  ASSUME NEW a \in Square, NEW b \in Square
  PROVE  Distance(a, b) <= Longest
<1>1. /\ a[1] \in Left .. Right /\ b[1] \in Left .. Right
      /\ a[2] \in Top .. Bottom /\ b[2] \in Top .. Bottom
  BY DEF Square
<1>2. /\ Left \in Int /\ Right \in Int /\ Top \in Int /\ Bottom \in Int
      /\ 2 * (Right - Left + 1) <= 120 /\ 2 * (Bottom - Top + 1) <= 120
  BY WalkAssumption DEF Longest
<1> QED
  BY <1>1, <1>2 DEF Distance, Longest

(* Where a walk goes and what it costs: it comes to b, or it gives up      *)
(* where steps_between does.                                               *)
IsRoute(way, a, b) ==
  /\ way \in Seq(Plane) /\ Len(way) \in Nat /\ Len(way) >= 1
  /\ way[1] = a
  /\ \/ way[Len(way)] = b /\ Distance(a, b) <= Len(way) - 1
     \/ Distance(a, b) > Longest /\ Distance(a, way[Len(way)]) = Longest

(* Where somebody going from n to m has got to after i steps.              *)
Along(n, m, i) == IF n + i <= m THEN n + i ELSE IF n - i >= m THEN n - i ELSE m

LEMMA StraightIsARoute ==
  ASSUME NEW a \in Plane, NEW b \in Plane
  PROVE  IsRoute(StepsBetween(a, b), a, b)
<1> DEFINE d == IF Distance(a, b) <= Longest THEN Distance(a, b) ELSE Longest
           w == [i \in 1 .. d + 1 |-> <<Along(a[1], b[1], i - 1), Along(a[2], b[2], i - 1)>>]
<1>0. w = StepsBetween(a, b)
  BY DEF StepsBetween, Along
<1>1. d \in Nat
  BY DistanceIsOne DEF Longest
<1>2. /\ a[1] \in Int /\ a[2] \in Int /\ b[1] \in Int /\ b[2] \in Int
      /\ a = <<a[1], a[2]>> /\ b = <<b[1], b[2]>>
  BY GroundIsFlat
<1>3. \A n, m \in Int : \A i \in Nat : Along(n, m, i) \in Int
  BY DEF Along
<1>4. ASSUME NEW i \in 1 .. d + 1 PROVE w[i] \in Plane
  <2>1. i - 1 \in Nat
    BY <1>1
  <2>2. Along(a[1], b[1], i - 1) \in Int /\ Along(a[2], b[2], i - 1) \in Int
    BY <1>2, <1>3, <2>1
  <2> HIDE DEF d
  <2> QED
    BY <2>2 DEF Plane
<1>5. Along(a[1], b[1], 0) = a[1] /\ Along(a[2], b[2], 0) = a[2]
  BY <1>2 DEF Along
<1>6. 1 \in 1 .. d + 1 /\ d + 1 \in 1 .. d + 1 /\ 1 - 1 = 0 /\ (d + 1) - 1 = d /\ d + 1 \in Nat
  BY <1>1
<1> DEFINE last == <<Along(a[1], b[1], d), Along(a[2], b[2], d)>>
<1>7. ASSUME Distance(a, b) <= Longest PROVE last = b /\ d = Distance(a, b)
  <2>1. d = Distance(a, b)
    BY <1>7
  <2>2. /\ Along(a[1], b[1], Distance(a, b)) = b[1]
        /\ Along(a[2], b[2], Distance(a, b)) = b[2]
    BY <1>2 DEF Distance, Along
  <2> HIDE DEF d
  <2> QED
    BY <1>2, <2>1, <2>2
<1>8. ASSUME ~ (Distance(a, b) <= Longest)
      PROVE  Distance(a, b) > Longest /\ Distance(a, last) = Longest
  <2>1. d = 120 /\ Distance(a, b) > 120
    BY <1>8, DistanceIsOne DEF Longest
  <2> HIDE DEF d
  <2>2. /\ Along(a[1], b[1], 120) \in Int /\ Along(a[2], b[2], 120) \in Int
        /\ last[1] = Along(a[1], b[1], 120) /\ last[2] = Along(a[2], b[2], 120)
    BY <1>2, <1>3, <2>1
  <2>3. Distance(a, last) = 120
    <3> HIDE DEF last
    <3> QED
      BY <1>2, <2>1, <2>2 DEF Distance, Along
  <2> QED
    BY <2>1, <2>3 DEF Longest
<1> HIDE DEF d
<1>9. w[1] = a /\ w[d + 1] = last
  BY <1>2, <1>5, <1>6
<1>10. w \in Seq(Plane) /\ Len(w) = d + 1
  <2>1. w \in [1 .. d + 1 -> Plane]
    BY <1>4
  <2> HIDE DEF w
  <2> QED
    BY <1>6, <2>1
<1> HIDE DEF w, last
<1>11. \/ w[Len(w)] = b /\ Distance(a, b) <= Len(w) - 1
       \/ Distance(a, b) > Longest /\ Distance(a, w[Len(w)]) = Longest
  <2>1. CASE Distance(a, b) <= Longest
    BY <1>1, <1>7, <1>9, <1>10, <2>1
  <2>2. CASE ~ (Distance(a, b) <= Longest)
    BY <1>8, <1>9, <1>10, <2>2
  <2> QED
    BY <2>1, <2>2
<1>12. IsRoute(w, a, b)
  BY <1>1, <1>9, <1>10, <1>11 DEF IsRoute
<1> QED
  BY <1>0, <1>12

(* A way that goes round: no further than its steps from where it begins.  *)
IsWay(way, a) ==
  /\ way \in Seq(Plane) /\ Len(way) \in Nat /\ Len(way) >= 1
  /\ way[1] = a /\ Distance(a, way[Len(way)]) <= Len(way) - 1

LEMMA WayGrows ==
  ASSUME NEW a \in Plane, NEW way, IsWay(way, a),
         NEW t \in Square, Distance(way[Len(way)], t) = 1
  PROVE  IsWay(Append(way, t), a)
<1> DEFINE u == Append(way, t)
           k == Len(way)
<1>1. /\ way \in Seq(Plane) /\ k \in Nat /\ k >= 1 /\ way[1] = a
      /\ Distance(a, way[k]) <= k - 1
  BY DEF IsWay
<1>2. t \in Plane
  BY GroundIsFlat
<1>3. /\ u \in Seq(Plane) /\ Len(u) = k + 1 /\ u[k + 1] = t
      /\ \A i \in 1 .. k : u[i] = way[i]
  BY <1>1, <1>2, AppendProperties
<1> HIDE DEF u
<1>4. 1 \in 1 .. k /\ k \in 1 .. k
  BY <1>1
<1>5. way[k] \in Plane
  BY <1>1, <1>4, ElementOfSeq
<1>6. /\ Distance(a, t) <= Distance(a, way[k]) + Distance(way[k], t)
      /\ Distance(a, t) \in Nat /\ Distance(a, way[k]) \in Nat
  BY <1>2, <1>5, DistanceIsOne
<1>7. Distance(way[k], t) = 1
  OBVIOUS
<1> HIDE DEF k
<1>8. Distance(a, t) <= k
  BY <1>1, <1>6, <1>7
<1>9. k + 1 \in Nat /\ k + 1 >= 1 /\ (k + 1) - 1 = k
  BY <1>1
<1>10. IsWay(u, a)
  BY <1>1, <1>3, <1>4, <1>8, <1>9 DEF IsWay
<1> QED
  BY <1>10 DEF u

(* However many steps they are looked for in, they are ways.               *)
LEMMA WaysAreWays ==
  ASSUME Area \in Nat, NEW a \in Plane, NEW b, NEW blocked,
         NEW way \in Ways(a, b, blocked)[Area]
  PROVE  IsWay(way, a)
<1> DEFINE reached(shorter) == {w[Len(w)] : w \in shorter}
           Onward(shorter, w) == {s \in Square \ (blocked \cup reached(shorter)) :
                                    Distance(w[Len(w)], s) = 1}
           Longer(shorter) ==
             IF b \in reached(shorter) THEN shorter
             ELSE shorter \cup UNION {{Append(w, s) : s \in Onward(shorter, w)} : w \in shorter}
           W == {w \in Seq(Plane) : IsWay(w, a)}
           V == SUBSET W
           first == {<<a>>}
           step == [k \in 1 .. Area |-> [shorter \in V |-> Longer(shorter)]]
           F(x) == [k \in 0 .. Area |-> IF k = 0 THEN {<<a>>} ELSE Longer(x[k - 1])]
           r == Ways(a, b, blocked)
<1>1. ASSUME NEW shorter \in V PROVE Longer(shorter) \in V
  <2>1. ASSUME NEW w \in shorter, NEW s \in Onward(shorter, w)
        PROVE  Append(w, s) \in W
    <3>1. IsWay(w, a) /\ s \in Square /\ Distance(w[Len(w)], s) = 1
      OBVIOUS
    <3>2. IsWay(Append(w, s), a)
      BY <3>1, WayGrows
    <3> QED
      BY <3>2 DEF IsWay
  <2> HIDE DEF reached, Onward, W
  <2>2. ASSUME NEW u \in Longer(shorter) PROVE u \in W
    <3>1. CASE u \in shorter
      BY <3>1
    <3>2. CASE u \notin shorter
      <4>1. \E w \in shorter : \E s \in Onward(shorter, w) : u = Append(w, s)
        BY <3>2
      <4> QED
        BY <2>1, <4>1
    <3> QED
      BY <3>1, <3>2
  <2> QED
    BY <2>2
<1>2. first \in V
  <2>1. IsWay(<<a>>, a)
    BY DistanceIsOne DEF IsWay
  <2> QED
    BY <2>1 DEF IsWay
<1>3. \A k \in 1 .. Area, shorter \in V : step[k][shorter] = Longer(shorter)
  OBVIOUS
<1> HIDE DEF step, V, W, first, Longer
<1>4. PICK f \in [0 .. Area -> V] :
        f[0] = first /\ \A k \in 1 .. Area : f[k] = step[k][f[k - 1]]
  <2>1. StaysIn(V, Area, step)
    BY <1>1, <1>3 DEF StaysIn
  <2> QED
    BY <1>2, <2>1, StepByStep DEF Computed
<1>5. \A k \in 1 .. Area : f[k] = Longer(f[k - 1])
  <2>1. \A k \in 1 .. Area : k - 1 \in 0 .. Area
    OBVIOUS
  <2> QED
    BY <1>3, <1>4, <2>1
<1>6. f = F(f)
  <2>1. \A k \in 0 .. Area : k = 0 \/ k \in 1 .. Area
    OBVIOUS
  <2> QED
    BY <1>4, <1>5, <2>1 DEF first
<1>7. r = CHOOSE x : x = F(x)
  BY DEF Ways, Longer
<1>8. r = F(r)
  <2> HIDE DEF F, r
  <2> QED
    BY <1>6, <1>7
<1> HIDE DEF r
<1>9. r[0] = {<<a>>} /\ \A k \in 1 .. Area : r[k] = Longer(r[k - 1])
  <2> DEFINE rest == [k \in 0 .. Area |-> Longer(r[k - 1])]
  <2>1. r = [k \in 0 .. Area |-> IF k = 0 THEN {<<a>>} ELSE rest[k]]
    BY <1>8
  <2>2. \A k \in 0 .. Area : rest[k] = Longer(r[k - 1])
    OBVIOUS
  <2> HIDE DEF rest, F
  <2>3. \A k \in 0 .. Area : r[k] = IF k = 0 THEN {<<a>>} ELSE rest[k]
    BY <2>1
  <2> QED
    BY <2>2, <2>3
<1> DEFINE S == {k \in 0 .. Area : r[k] \in V}
<1>10. 0 \in S
  <2>1. 0 \in 0 .. Area /\ r[0] \in V
    BY <1>2, <1>9 DEF first
  <2> QED
    BY <2>1
<1>11. ASSUME NEW k \in 1 .. Area, k - 1 \in S PROVE k \in S
  BY <1>1, <1>9, <1>11
<1>12. \A k \in 0 .. Area : k \in S
  <2> HIDE DEF S
  <2> QED
    BY <1>10, <1>11, StepInduction
<1>13. r[Area] \in V
  BY <1>12
<1> QED
  BY <1>13 DEF V, W, r

LEMMA EveryRouteIsARoute ==
  ASSUME NEW a \in Ground, NEW b \in Square, NEW blocked, NEW way \in RouteBetween(a, b, blocked)
  PROVE  IsRoute(way, a, b)
<1>1. a \in Plane /\ b \in Plane
  BY GroundIsFlat
<1>2. CASE way = StepsBetween(a, b)
  BY <1>1, <1>2, StraightIsARoute
<1>3. CASE way \in Ways(a, b, blocked)[Area] /\ way[Len(way)] = b
  <2>1. Area \in Nat
    <3>1. Right - Left + 1 \in Nat /\ Bottom - Top + 1 \in Nat
      BY WalkAssumption DEF Square
    <3>2. \A x, y \in Nat : x * y \in Nat
      OBVIOUS
    <3> QED
      BY <3>1, <3>2 DEF Area
  <2>2. IsWay(way, a)
    BY <1>1, <1>3, <2>1, WaysAreWays
  <2> QED
    BY <1>3, <2>2 DEF IsWay, IsRoute
<1> QED
  BY <1>2, <1>3 DEF RouteBetween

-----------------------------------------------------------------------------
(* What a turn is charged                                                  *)

WalkTyped ==
  /\ square \in [Combatant -> Ground \cup {OffMap}]
  /\ down \subseteq Combatant /\ rocks \subseteq Stones
  /\ begun \in BOOLEAN /\ turn \in Combatant \cup {NoOne}
  /\ turn # NoOne => begun
  /\ moved \in Nat
  /\ reacted \subseteq Armed
  /\ from \in Ground \cup {OffMap}

(* Whose turn began on the map is still on it: steps_between, which may    *)
(* give up on somebody further off, then counts all their steps.           *)
StaysOnTheMap == turn # NoOne /\ from \in Square => square[turn] \in Square

WalkInv == WalkTyped /\ StaysOnTheMap /\ GroundIsPaidFor

LEMMA PlacedTyped ==
  ASSUME WalkTyped, NEW c \in Combatant, NEW s, square' = Placed(c, s)
  PROVE  /\ square' \in [Combatant -> Ground \cup {OffMap}]
         /\ \A d \in Combatant \ {c} : square'[d] = square[d]
<1>1. Free(c, s) => s \in Ground
  BY GroundIsFlat DEF Free
<1> QED
  BY <1>1 DEF Placed, WalkTyped

(* A turn begins where whoever is up now stands.                           *)
LEMMA HandOverKeeps ==
  ASSUME WalkTyped, square' \in [Combatant -> Ground \cup {OffMap}],
         down' \subseteq Combatant, rocks' \subseteq Stones, HandOver
  PROVE  WalkInv'
<1>1. CASE /\ begun' = TRUE /\ turn' \in Combatant /\ moved' = 0
           /\ reacted' \in SUBSET Armed /\ from' = square'[turn']
  <2>1. WalkTyped'
    BY <1>1 DEF WalkTyped
  <2>2. from' \in Square => Distance(from', square'[turn']) = 0
    BY <1>1, GroundIsFlat, DistanceIsOne
  <2> QED
    BY <1>1, <2>1, <2>2 DEF WalkInv, StaysOnTheMap, GroundIsPaidFor
<1>2. CASE /\ begun' = TRUE /\ turn' = NoOne /\ from' = OffMap
           /\ UNCHANGED <<moved, reacted>>
  BY <1>2 DEF WalkTyped, WalkInv, StaysOnTheMap, GroundIsPaidFor
<1> QED
  BY <1>1, <1>2 DEF HandOver

(* Whoever is not up changes nothing about the turn, wherever they go.     *)
LEMMA OthersKeep ==
  ASSUME WalkInv, NEW c \in Combatant, turn # c,
         square' \in [Combatant -> Ground \cup {OffMap}],
         \A d \in Combatant \ {c} : square'[d] = square[d],
         down' \subseteq Combatant, rocks' \subseteq Stones, reacted' \subseteq Armed,
         UNCHANGED clock
  PROVE  WalkInv'
<1>1. WalkTyped /\ UNCHANGED <<begun, turn, moved, from>>
  BY DEF WalkInv, clock
<1>2. WalkTyped'
  BY <1>1 DEF WalkTyped
<1>3. turn # NoOne => square'[turn] = square[turn]
  BY <1>1 DEF WalkTyped
<1> QED
  BY <1>1, <1>2, <1>3 DEF WalkInv, StaysOnTheMap, GroundIsPaidFor

LEMMA ProvokedAreArmed ==
  ASSUME NEW c, NEW route
  PROVE  Provoked(c, route) \subseteq Armed
BY DEF Provoked, CanReact

LEMMA ArrivesKeeps ==
  ASSUME WalkInv, NEW c \in Combatant, NEW to \in Square, square[c] # OffMap,
         NEW route, IsRoute(route, square[c], to),
         Arrives(c, to, route), UNCHANGED rocks
  PROVE  WalkInv'
<1>0. WalkTyped
  BY DEF WalkInv
<1>1. /\ Steps(route) = Len(route) - 1 /\ Steps(route) \in Nat
  BY DEF IsRoute, Steps
<1>2. /\ square' \in [Combatant -> Ground \cup {OffMap}]
      /\ \A d \in Combatant \ {c} : square'[d] = square[d]
      /\ reacted' \subseteq Armed
      /\ down' \subseteq Combatant /\ rocks' \subseteq Stones
      /\ UNCHANGED <<begun, turn, from>>
  BY <1>0, PlacedTyped, ProvokedAreArmed DEF Arrives, WalkTyped
<1>3. CASE turn # c
  BY <1>2, <1>3, OthersKeep DEF Arrives, clock
<1>4. CASE turn = c /\ Free(c, to)
  <2>1. square'[c] = to /\ moved' = moved + Steps(route)
    BY <1>0, <1>4 DEF Arrives, Placed, WalkTyped
  <2>2. WalkTyped'
    BY <1>0, <1>1, <1>2, <2>1 DEF WalkTyped
  <2>3. ASSUME from \in Square PROVE Distance(from, to) <= moved'
    <3>1. square[c] \in Square /\ Distance(from, square[c]) <= moved
      BY <1>0, <1>4, <2>3, WalkAssumption DEF WalkInv, StaysOnTheMap, GroundIsPaidFor
    <3>2. ~ (Distance(square[c], to) > Longest)
      BY <3>1, NothingIsFar, DistanceIsOne, GroundIsFlat DEF Longest
    <3>3. Distance(square[c], to) <= Steps(route)
      BY <1>1, <3>2 DEF IsRoute
    <3>4. /\ Distance(from, to) <= Distance(from, square[c]) + Distance(square[c], to)
          /\ Distance(from, to) \in Nat /\ Distance(from, square[c]) \in Nat
          /\ Distance(square[c], to) \in Nat
      BY <2>3, <3>1, DistanceIsOne, GroundIsFlat
    <3>5. moved \in Nat
      BY <1>0 DEF WalkTyped
    <3> QED
      BY <1>1, <2>1, <3>1, <3>3, <3>4, <3>5
  <2> QED
    BY <1>2, <1>4, <2>1, <2>2, <2>3 DEF WalkInv, StaysOnTheMap, GroundIsPaidFor
<1>5. CASE turn = c /\ ~Free(c, to)
  <2>1. square' = square /\ moved' = moved
    BY <1>5, GroundIsFlat DEF Arrives, Placed
  <2> QED
    BY <1>0, <1>2, <2>1 DEF WalkInv, WalkTyped, StaysOnTheMap, GroundIsPaidFor
<1> QED
  BY <1>3, <1>4, <1>5

LEMMA FallsKeeps ==
  ASSUME WalkInv, NEW c \in Combatant, NEW route,
         FallsOnTheWay(c, route), UNCHANGED rocks
  PROVE  WalkInv'
<1>0. WalkTyped
  BY DEF WalkInv
<1>1. PICK end : FallsAt(c, end)
  BY DEF FallsOnTheWay
<1>2. /\ square' \in [Combatant -> Ground \cup {OffMap}]
      /\ \A d \in Combatant \ {c} : square'[d] = square[d]
      /\ down' \subseteq Combatant /\ rocks' \subseteq Stones
  BY <1>0, <1>1, PlacedTyped DEF FallsAt, WalkTyped
<1>3. CASE turn = c
  <2>1. HandOver
    BY <1>3 DEF FallsOnTheWay
  <2> QED
    BY <1>0, <1>2, <2>1, HandOverKeeps
<1>4. CASE turn # c
  <2>1. reacted' \subseteq Armed /\ UNCHANGED clock
    BY <1>0, <1>4, ProvokedAreArmed DEF FallsOnTheWay, WalkTyped
  <2> QED
    BY <1>2, <1>4, <2>1, OthersKeep
<1> QED
  BY <1>3, <1>4

LEMMA WalkIsPaidFor ==
  ASSUME WalkInv, NEW c \in Combatant, NEW to \in Square, Walk(c, to)
  PROVE  WalkInv'
<1>1. PICK route \in RouteFor(c, to) : Arrives(c, to, route) \/ FallsOnTheWay(c, route)
  BY DEF Walk
<1>2. square[c] \in Ground /\ square[c] # OffMap /\ UNCHANGED rocks
  BY DEF Walk, WalkInv, WalkTyped
<1>3. IsRoute(route, square[c], to)
  BY <1>2, EveryRouteIsARoute DEF RouteFor
<1> QED
  BY <1>1, <1>2, <1>3, ArrivesKeeps, FallsKeeps

LEMMA PutIsPaidFor ==
  ASSUME WalkInv, NEW c \in Combatant, NEW to \in Square \cup {OffMap}, Put(c, to)
  PROVE  WalkInv'
<1>0. WalkTyped
  BY DEF WalkInv
<1>1. /\ square' = [square EXCEPT ![c] = to]
      /\ from' = IF turn = c THEN to ELSE from
      /\ UNCHANGED <<down, rocks, begun, turn, moved, reacted>>
  BY DEF Put
<1>2. /\ to \in Ground \cup {OffMap}
      /\ square' \in [Combatant -> Ground \cup {OffMap}] /\ square'[c] = to
      /\ \A d \in Combatant \ {c} : square'[d] = square[d]
  BY <1>0, <1>1, GroundIsFlat DEF WalkTyped
<1>3. CASE turn = c
  <2>1. WalkTyped' /\ from' = to /\ square'[turn'] = to
    BY <1>0, <1>1, <1>2, <1>3 DEF WalkTyped
  <2>2. to \in Square => Distance(to, to) = 0
    BY DistanceIsOne, GroundIsFlat
  <2> QED
    BY <2>1, <2>2 DEF WalkInv, WalkTyped, StaysOnTheMap, GroundIsPaidFor
<1>4. CASE turn # c
  BY <1>0, <1>1, <1>2, <1>4, OthersKeep DEF WalkTyped, clock
<1> QED
  BY <1>3, <1>4

LEMMA EnlistIsPaidFor ==
  ASSUME WalkInv, NEW c \in Combatant, NEW to \in Ground \cup {OffMap}, Enlist(c, to)
  PROVE  WalkInv'
<1>0. WalkTyped
  BY DEF WalkInv
<1>1. /\ turn # c /\ square' = [square EXCEPT ![c] = to]
      /\ UNCHANGED rocks /\ UNCHANGED clock
      /\ down' \subseteq down \cup {c} /\ reacted' \subseteq reacted
  BY DEF Enlist
<1>2. /\ square' \in [Combatant -> Ground \cup {OffMap}]
      /\ \A d \in Combatant \ {c} : square'[d] = square[d]
  BY <1>0, <1>1 DEF WalkTyped
<1>3. down' \subseteq Combatant /\ rocks' \subseteq Stones /\ reacted' \subseteq Armed
  BY <1>0, <1>1 DEF WalkTyped
<1> QED
  BY <1>1, <1>2, <1>3, OthersKeep

LEMMA GroundStep ==
  ASSUME WalkInv, [Next]_vars
  PROVE  WalkInv'
<1>0. WalkTyped
  BY DEF WalkInv
<1>1. ASSUME NEW c \in Combatant, NEW on \in BOOLEAN, SetDown(c, on) PROVE WalkInv'
  BY <1>1 DEF WalkInv, WalkTyped, StaysOnTheMap, GroundIsPaidFor, SetDown, clock
<1>2. ASSUME NEW s \in Stones, ToggleRock(s) PROVE WalkInv'
  BY <1>2 DEF WalkInv, WalkTyped, StaysOnTheMap, GroundIsPaidFor, ToggleRock, clock
<1>3. CASE NextTurn
  BY <1>0, <1>3, HandOverKeeps DEF NextTurn, WalkTyped
<1>4. CASE EndFight
  BY <1>0, <1>4 DEF EndFight, WalkInv, WalkTyped, StaysOnTheMap, GroundIsPaidFor
<1>5. CASE ClearFight
  BY <1>0, <1>5 DEF ClearFight, WalkInv, WalkTyped, StaysOnTheMap, GroundIsPaidFor
<1>6. CASE UNCHANGED vars
  BY <1>6 DEF vars, clock, WalkInv, WalkTyped, StaysOnTheMap, GroundIsPaidFor
<1> QED
  BY <1>1, <1>2, <1>3, <1>4, <1>5, <1>6, WalkIsPaidFor, PutIsPaidFor, EnlistIsPaidFor DEF Next

(* Everybody is somewhere on the map, on one of the squares past its edge  *)
(* or off it; whoever is up and began on the map is on it, and no further  *)
(* from there than their turn has been charged.  Walks that bend the rules *)
(* and walks out of turn are among the steps (_carry_out, take_turn), and  *)
(* so is being enlisted where the fight has no map.                        *)
THEOREM WalkHolds == Spec => []WalkInv
<1>1. ASSUME Init PROVE WalkInv
  <2>1. square \in [Combatant -> Ground \cup {OffMap}]
    BY <1>1 DEF Init
  <2>2. turn = NoOne /\ from = OffMap
    BY <1>1 DEF Init
  <2>3. WalkTyped
    BY <1>1, <2>1, <2>2 DEF Init, WalkTyped
  <2> QED
    BY <2>2, <2>3 DEF WalkInv, StaysOnTheMap, GroundIsPaidFor
<1>2. WalkInv /\ [Next]_vars => WalkInv'
  BY GroundStep
<1> QED
  BY <1>1, <1>2, PTL DEF Spec

(* On a map of any size, round whatever stands in the way, within the      *)
(* rules or past them: whoever began their turn on the map is no further   *)
(* from there than the turn has been charged (_do_move, spend_movement).   *)
THEOREM TheGroundIsPaidFor == Spec => []GroundIsPaidFor
<1>1. WalkInv => GroundIsPaidFor
  BY DEF WalkInv
<1> QED
  BY <1>1, WalkHolds, PTL

-----------------------------------------------------------------------------
(* Walking away                                                            *)

(* Between a square in reach and one out of it there is a last one in it.  *)
LEMMA SomewhereItLeaves ==
  ASSUME NEW route \in Seq(Plane), Len(route) \in Nat, Len(route) >= 1, NEW w,
         Threatens(w, route[1]), ~Threatens(w, route[Len(route)])
  PROVE  Leaves(route, w) # {}
<1> DEFINE n == Len(route)
           T == {i \in 1 .. n : Threatens(w, route[i])}
<1>1. n \in Nat /\ n >= 1
  OBVIOUS
<1> HIDE DEF n
<1>2. 1 \in T /\ n \notin T /\ T \in SUBSET (1 .. n)
  BY <1>1 DEF n
<1>3. PICK m \in T : \A k \in T : k <= m
  <2> HIDE DEF T
  <2> QED
    BY <1>1, <1>2, Largest
<1>4. m \in 1 .. n - 1 /\ m + 1 \in 1 .. n /\ m + 1 \notin T
  <2>1. m \in 1 .. n /\ m # n
    BY <1>2
  <2>2. ~(m + 1 <= m)
    BY <1>1, <2>1
  <2> HIDE DEF T
  <2> QED
    BY <1>1, <1>3, <2>1, <2>2
<1>5. Threatens(w, route[m]) /\ ~Threatens(w, route[m + 1])
  BY <1>4
<1> QED
  BY <1>4, <1>5 DEF Leaves, n

(* A walk that steps_between has given up on ends out of reach of whoever  *)
(* had the walker in reach, as does one that comes out of it.              *)
LEMMA LeftBehind ==
  ASSUME NEW w, square[w] \in Plane, NEW a \in Plane, NEW b \in Plane,
         NEW route, IsRoute(route, a, b), Threatens(w, a), ~Threatens(w, b)
  PROVE  Leaves(route, w) # {}
<1> DEFINE last == route[Len(route)]
<1>1. /\ route \in Seq(Plane) /\ Len(route) \in Nat /\ Len(route) >= 1 /\ route[1] = a
      /\ last = b \/ Distance(a, last) = Longest
  BY DEF IsRoute
<1>2. last \in Plane
  <2>1. Len(route) \in 1 .. Len(route)
    BY <1>1
  <2> QED
    BY <1>1, <2>1, ElementOfSeq
<1> HIDE DEF last
<1>3. ~Threatens(w, last)
  <2>1. CASE last = b
    BY <2>1
  <2>2. CASE Distance(a, last) = Longest
    <3>1. /\ Distance(a, last) <= Distance(a, square[w]) + Distance(square[w], last)
          /\ Distance(a, square[w]) = Distance(square[w], a)
          /\ Distance(square[w], a) \in Nat /\ Distance(square[w], last) \in Nat
      BY <1>2, DistanceIsOne
    <3> QED
      BY <2>2, <3>1 DEF Threatens, Longest
  <2> QED
    BY <1>1, <2>1, <2>2
<1> QED
  BY <1>1, <1>3, SomewhereItLeaves DEF last

(* Whoever could have struck at a walker going out of their reach has      *)
(* spent their reaction on it (_opportunity_attacks), whichever way the    *)
(* walk went round, and whether or not it was within the rules.            *)
THEOREM NobodySlipsAway == Spec => LeavingIsAnswered
<1>1. ASSUME WalkInv, Next, moved' > moved, NEW w \in Combatant, CanReact(w, turn),
             Threatens(w, square[turn]), ~Threatens(w, square'[turn])
      PROVE  w \in reacted'
  <2>0. WalkTyped /\ moved \in Nat
    BY <1>1 DEF WalkInv, WalkTyped
  <2>1. ~(moved' = moved) /\ ~(moved' = 0)
    BY <1>1, <2>0
  <2>2. ~HandOver /\ ~EndFight /\ ~ClearFight
    BY <2>1 DEF HandOver, EndFight, ClearFight
  <2>3. PICK c \in Combatant, to \in Square : Walk(c, to)
    BY <1>1, <2>1, <2>2 DEF Next, Put, Enlist, SetDown, ToggleRock, NextTurn, clock
  <2>4. PICK route \in RouteFor(c, to) : Arrives(c, to, route)
    BY <2>1, <2>2, <2>3 DEF Walk, FallsOnTheWay, clock
  <2>5. turn = c /\ Free(c, to)
    BY <2>1, <2>4 DEF Arrives
  <2>6. square[c] \in Ground /\ square'[c] = to
    BY <2>0, <2>3, <2>4, <2>5 DEF Walk, Arrives, Placed, WalkTyped
  <2>7. IsRoute(route, square[c], to)
    BY <2>6, EveryRouteIsARoute DEF RouteFor
  <2>8. square[w] \in Plane /\ square[c] \in Plane /\ to \in Plane
    BY <1>1, <2>0, <2>6, GroundIsFlat DEF CanReact, Standing, WalkTyped
  <2>9. Leaves(route, w) # {}
    BY <1>1, <2>5, <2>6, <2>7, <2>8, LeftBehind
  <2>10. w \in Provoked(c, route)
    BY <1>1, <2>5, <2>9 DEF Provoked
  <2> QED
    BY <2>4, <2>10 DEF Arrives
<1>2. WalkInv /\ [Next]_vars =>
        [moved' > moved =>
           \A w \in Combatant :
             /\ CanReact(w, turn)
             /\ Threatens(w, square[turn]) /\ ~Threatens(w, square'[turn])
             => w \in reacted']_vars
  BY <1>1
<1> QED
  BY <1>2, WalkHolds, PTL DEF Spec, LeavingIsAnswered
=============================================================================
