-------------------------- MODULE TurnOrderProofs ---------------------------
(***************************************************************************)
(* The order of the turns, for every table: any number of combatants, any  *)
(* scores.  In five parts: the initiative order itself, TurnOrder, what    *)
(* TurnHistory and Reactions add to it, and the host's passing of the turn *)
(* (Referee).                                                              *)
(***************************************************************************)
EXTENDS Referee, Reactions, TurnHistory, Least, TLAPS

-----------------------------------------------------------------------------
(***************************************************************************)
(* The initiative order is a strict total order and every set of           *)
(* combatants has a first one: the facts the proofs about turns rest on.   *)
(***************************************************************************)

(* What a score is made of.                                                *)
LEMMA ScoreParts ==
  ASSUME NEW scores \in [Combatant -> Score], NEW c \in Combatant
  PROVE  /\ c \in Int
         /\ scores[c].tiebreak \in Int /\ scores[c].tiebreak <= Highest
         /\ scores[c].initiative # Unrolled =>
              scores[c].initiative \in Int /\ scores[c].initiative <= Highest
<1>1. c \in Int
  BY CombatantAssumption
<1>2. scores[c].tiebreak \in Tiebreaks /\ scores[c].initiative \in Initiatives \cup {Unrolled}
  BY DEF Score
<1>3. \A n \in Initiatives \cup Tiebreaks : n \in Int /\ n <= Highest
  BY ScoreAssumption
<1> QED
  BY <1>1, <1>2, <1>3

(* Nobody comes before themselves, and of two combatants exactly one comes *)
(* first: the keys differ at least in the id.                              *)
LEMMA BeforeIsStrict ==
  ASSUME NEW scores \in [Combatant -> Score], NEW c \in Combatant, NEW d \in Combatant
  PROVE  /\ ~ Before(scores, c, c)
         /\ c # d => Before(scores, c, d) \/ Before(scores, d, c)
         /\ ~ (Before(scores, c, d) /\ Before(scores, d, c))
BY ScoreParts, ScoreAssumption DEF Before

(* Coming before is transitive.                                            *)
LEMMA BeforeIsTransitive ==
  ASSUME NEW scores \in [Combatant -> Score],
         NEW b \in Combatant, NEW c \in Combatant, NEW d \in Combatant,
         Before(scores, b, c), Before(scores, c, d)
  PROVE  Before(scores, b, d)
BY ScoreParts, ScoreAssumption DEF Before

(* The order has a top: in any non-empty set of combatants one comes       *)
(* before all the others.  Found in three passes, one per part of the key. *)
LEMMA FirstExists ==
  ASSUME NEW scores \in [Combatant -> Score], NEW S \in SUBSET Combatant, S # {}
  PROVE  \E c \in S : \A d \in S \ {c} : Before(scores, c, d)
<1> DEFINE rank(c)  == IF scores[c].initiative = Unrolled
                       THEN 0 ELSE Highest - scores[c].initiative
           rolled   == {c \in S : scores[c].initiative # Unrolled}
           A        == IF rolled # {} THEN rolled ELSE S
           f        == [c \in A |-> rank(c)]
           B(c)     == {d \in A : rank(d) = rank(c)}
           tie(c)   == Highest - scores[c].tiebreak
           C(c, d)  == {e \in B(c) : tie(e) = tie(d)}
<1>1. A # {} /\ A \subseteq S
  OBVIOUS
<1>2. \A c \in S : rank(c) \in Nat /\ tie(c) \in Nat /\ c \in Nat
  BY ScoreParts, ScoreAssumption, CombatantAssumption
<1>3. PICK c \in A : \A d \in A : rank(c) <= rank(d)
  <2>1. f \in [A -> Nat]
    BY <1>1, <1>2
  <2>2. \E c \in A : \A d \in A : f[c] <= f[d]
    <3> HIDE DEF f, A
    <3> QED
      BY <1>1, <2>1, Smallest
  <2> QED
    BY <2>2
<1>4. PICK d \in B(c) : \A e \in B(c) : tie(d) <= tie(e)
  <2> DEFINE T == B(c)
             g == [e \in T |-> tie(e)]
  <2>1. T # {} /\ g \in [T -> Nat]
    BY <1>1, <1>2, <1>3
  <2>2. \E d \in T : \A e \in T : g[d] <= g[e]
    <3> HIDE DEF g, T
    <3> QED
      BY <2>1, Smallest
  <2> QED
    BY <2>2
<1>5. PICK e \in C(c, d) : \A h \in C(c, d) : e <= h
  <2> DEFINE T == C(c, d)
             g == [h \in T |-> h]
  <2>1. T # {} /\ g \in [T -> Nat]
    BY <1>1, <1>2, <1>4
  <2>2. \E e \in T : \A h \in T : g[e] <= g[h]
    <3> HIDE DEF g, T
    <3> QED
      BY <2>1, Smallest
  <2> QED
    BY <2>2
<1>6. e \in A /\ rank(e) = rank(c) /\ tie(e) = tie(d)
  BY <1>5
<1>7. ASSUME NEW h \in S \ {e}
      PROVE  Before(scores, e, h)
  <2>1. CASE h \notin A
    <3>1. scores[h].initiative = Unrolled /\ scores[e].initiative # Unrolled
      BY <2>1, <1>6
    <3> QED
      BY <3>1 DEF Before
  <2>2. CASE h \in A
    <3>1. (scores[h].initiative = Unrolled) = (scores[e].initiative = Unrolled)
      BY <2>2, <1>6
    <3>2. rank(e) <= rank(h) /\ (rank(e) = rank(h) => tie(e) <= tie(h))
      BY <2>2, <1>3, <1>4, <1>6
    <3>3. rank(e) = rank(h) /\ tie(e) = tie(h) => e < h
      BY <2>2, <1>2, <1>5, <1>6
    <3>4. CASE scores[e].initiative = Unrolled
      BY <3>1, <3>2, <3>3, <3>4, ScoreParts, ScoreAssumption DEF Before
    <3>5. CASE scores[e].initiative # Unrolled
      BY <3>1, <3>2, <3>3, <3>5, ScoreParts, ScoreAssumption DEF Before
    <3> QED
      BY <3>4, <3>5
  <2> QED
    BY <2>1, <2>2
<1> QED
  BY <1>1, <1>6, <1>7

(* What First returns: a member of the set that comes before every other.  *)
LEMMA FirstIsFirst ==
  ASSUME NEW scores \in [Combatant -> Score], NEW S \in SUBSET Combatant, S # {}
  PROVE  /\ First(scores, S) \in S
         /\ \A d \in S \ {First(scores, S)} : Before(scores, First(scores, S), d)
BY FirstExists DEF First

(* What NextUp returns: somebody standing.  Short of a wrap they come      *)
(* after c and nobody standing is between; on a wrap nobody standing comes *)
(* after c, and they come before everybody else standing.                  *)
LEMMA NextUpIsNext ==
  ASSUME NEW scores \in [Combatant -> Score], NEW c \in Combatant,
         NEW standing \in SUBSET Combatant, standing # {}
  PROVE  LET d == NextUp(scores, standing, c) IN
         /\ d \in standing
         /\ ~ Wraps(scores, standing, c) =>
              /\ Before(scores, c, d)
              /\ \A e \in standing \ {d} : Before(scores, c, e) => Before(scores, d, e)
         /\ Wraps(scores, standing, c) =>
              /\ \A e \in standing : ~ Before(scores, c, e)
              /\ \A e \in standing \ {d} : Before(scores, d, e)
<1>1. CASE Wraps(scores, standing, c)
  BY <1>1, FirstIsFirst DEF NextUp, Wraps, After
<1>2. CASE ~ Wraps(scores, standing, c)
  <2>1. After(scores, standing, c) # {} /\ After(scores, standing, c) \in SUBSET Combatant
    BY <1>2 DEF Wraps, After
  <2> QED
    BY <1>2, <2>1, FirstIsFirst DEF NextUp, After
<1> QED
  BY <1>1, <1>2

-----------------------------------------------------------------------------
(***************************************************************************)
(* TurnOrder: who holds the turn, what the turn starts with, and where it  *)
(* goes.                                                                   *)
(***************************************************************************)

(* The type invariant and the place of the marker hold each other up: who  *)
(* the turn goes to depends on where it is.                                *)
TInv == TypeOK /\ TurnHolderIsInTheFight

-----------------------------------------------------------------------------
(* Where advance leaves the marker.                                        *)

(* The clock is of its type whenever the turn is handed to somebody.       *)
LEMMA HandToTyped ==
  ASSUME TypeOK, NEW c \in Combatant, NEW r \in Nat \ {0}, HandTo(c, r)
  PROVE  /\ turn' = c /\ round' = r
         /\ turn' \in Combatant
         /\ round' \in 0 .. MaxRound /\ round' > 0
         /\ moved' \in 0 .. MaxMoved /\ moved' = 0
         /\ actionUsed' \in BOOLEAN /\ actionUsed' = FALSE
<1>1. /\ turn' = c /\ round' = r /\ r <= MaxRound
      /\ moved' = 0 /\ actionUsed' = FALSE
  BY DEF HandTo, FreshTurn
<1>2. r \in 0 .. MaxRound /\ r > 0 /\ 0 \in 0 .. MaxMoved
  BY <1>1, BoundAssumption
<1> QED
  BY <1>1, <1>2

(* begin gives the turn to the top of the order.                           *)
LEMMA BeginClockEffect ==
  ASSUME TypeOK, members # {}, BeginClock
  PROVE  /\ turn' \in members
         /\ \A d \in members \ {turn'} : Before(score, turn', d)
         /\ round' = 1 /\ round' \in 0 .. MaxRound
         /\ moved' = 0 /\ moved' \in 0 .. MaxMoved
         /\ actionUsed' = FALSE /\ running' \in BOOLEAN
<1>1. members \in SUBSET Combatant /\ score \in [Combatant -> Score]
  BY DEF TypeOK
<1>2. /\ First(score, members) \in members
      /\ \A d \in members \ {First(score, members)} :
            Before(score, First(score, members), d)
  BY <1>1, FirstIsFirst
<1>3. First(score, members) \in Combatant
  BY <1>1, <1>2
<1>4. HandTo(First(score, members), 1)
  BY DEF BeginClock
<1>5. /\ turn' = First(score, members) /\ round' = 1 /\ round' \in 0 .. MaxRound
      /\ moved' = 0 /\ moved' \in 0 .. MaxMoved
      /\ actionUsed' = FALSE
  <2> HIDE DEF BeginClock
  <2>1. 1 \in Nat \ {0}
    OBVIOUS
  <2> QED
    BY <1>3, <1>4, <2>1, HandToTyped
<1>6. running' = TRUE
  BY DEF BeginClock
<1>7. running' \in BOOLEAN
  BY <1>6
<1> QED
  BY <1>2, <1>5, <1>7

(* The ways advance comes out, of which the callers need to know no more:  *)
(* nobody is up; the fight begins; the order is taken up again from its    *)
(* top; or the turn goes to the next one standing, in this round or, past  *)
(* the end of the order, to the first of them in the next.                 *)
Resumes(standing) ==
  /\ turn \notin members
  /\ turn' \in standing /\ round' = round

StepsDown(standing) ==
  /\ turn \in members
  /\ turn' \in standing /\ round' = round
  /\ Before(score, turn, turn')
  /\ \A e \in standing \ {turn'} : Before(score, turn, e) => Before(score, turn', e)

ComesRound(standing) ==
  /\ turn \in members
  /\ turn' \in standing /\ round' = round + 1
  /\ \A e \in standing : ~ Before(score, turn, e)
  /\ \A e \in standing \ {turn'} : Before(score, turn', e)

Fresh ==
  /\ round' \in 0 .. MaxRound /\ round' > 0
  /\ moved' = 0 /\ actionUsed' = FALSE
  /\ moved' \in 0 .. MaxMoved

LEMMA AdvanceEffect ==
  ASSUME TypeOK, NEW skipping \in SUBSET Combatant, NEW passing \in SUBSET Combatant,
         AdvanceClock(skipping, passing)
  PROVE  LET standing == (members \ skipping) \ passing IN
         \/ NobodyUp
         \/ ~HasBegun /\ BeginClock /\ members # {}
         \/ /\ HasBegun /\ Fresh /\ UNCHANGED running
            /\ Resumes(standing) \/ StepsDown(standing) \/ ComesRound(standing)
<1> DEFINE standing == (members \ skipping) \ passing
<1>1. score \in [Combatant -> Score] /\ standing \in SUBSET Combatant
  BY DEF TypeOK
<1>2. CASE /\ HasBegun /\ standing # {} /\ turn \notin members
           /\ HandTo(First(score, standing), round) /\ UNCHANGED running
  <2>1. First(score, standing) \in standing
    BY <1>1, <1>2, FirstIsFirst
  <2>2. round \in Nat \ {0} /\ First(score, standing) \in Combatant
    BY <1>1, <1>2, <2>1 DEF TypeOK, HasBegun
  <2> QED
    BY <1>2, <2>1, <2>2, HandToTyped DEF Fresh, Resumes
<1>3. CASE /\ HasBegun /\ standing # {} /\ turn \in members
           /\ HandTo(NextUp(score, standing, turn),
                     IF Wraps(score, standing, turn) THEN round + 1 ELSE round)
           /\ UNCHANGED running
  <2> DEFINE d == NextUp(score, standing, turn)
             r == IF Wraps(score, standing, turn) THEN round + 1 ELSE round
  <2>1. turn \in Combatant
    BY <1>3 DEF TypeOK
  <2>2. /\ d \in standing
        /\ ~ Wraps(score, standing, turn) =>
             /\ Before(score, turn, d)
             /\ \A e \in standing \ {d} : Before(score, turn, e) => Before(score, d, e)
        /\ Wraps(score, standing, turn) =>
             /\ \A e \in standing : ~ Before(score, turn, e)
             /\ \A e \in standing \ {d} : Before(score, d, e)
    <3> HIDE DEF standing
    <3> QED
      BY <1>1, <1>3, <2>1, NextUpIsNext
  <2>3. d \in Combatant /\ r \in Nat \ {0}
    BY <1>1, <1>3, <2>2 DEF TypeOK, HasBegun
  <2>4. turn' = d /\ round' = r /\ Fresh
    <3> HIDE DEF d, r
    <3>1. HandTo(d, r)
      BY <1>3 DEF d, r
    <3> QED
      BY <2>3, <3>1, HandToTyped DEF Fresh
  <2>5. CASE Wraps(score, standing, turn)
    <3>1. ComesRound(standing)
      BY <1>3, <2>2, <2>4, <2>5 DEF ComesRound
    <3> QED
      BY <1>3, <2>4, <3>1
  <2>6. CASE ~ Wraps(score, standing, turn)
    <3>1. StepsDown(standing)
      BY <1>3, <2>2, <2>4, <2>6 DEF StepsDown
    <3> QED
      BY <1>3, <2>4, <3>1
  <2> QED
    BY <2>5, <2>6
<1> QED
  BY <1>2, <1>3 DEF AdvanceClock

(* So, whatever it does, the clock stays of its type and the marker on     *)
(* somebody who is not being skipped, in a round that has begun.           *)
LEMMA AdvanceKeepsTheClock ==
  ASSUME TInv, NEW skipping \in SUBSET Combatant, NEW passing \in SUBSET Combatant,
         AdvanceClock(skipping, passing),
         HasBegun \/ skipping = {}
  PROVE  /\ running' \in BOOLEAN /\ round' \in 0 .. MaxRound
         /\ moved' \in 0 .. MaxMoved /\ actionUsed' \in BOOLEAN
         /\ turn' = NoOne \/ (turn' \in members \ skipping /\ round' > 0)
<1>1. CASE NobodyUp
  BY <1>1 DEF NobodyUp, TInv, TypeOK
<1>2. CASE ~HasBegun /\ BeginClock /\ members # {}
  <2>1. /\ turn' \in members /\ round' = 1 /\ round' \in 0 .. MaxRound
        /\ moved' \in 0 .. MaxMoved /\ actionUsed' = FALSE /\ running' \in BOOLEAN
    BY <1>2, BeginClockEffect DEF TInv
  <2>2. skipping = {} /\ round' > 0
    BY <1>2, <2>1
  <2>3. actionUsed' \in BOOLEAN
    BY <2>1
  <2> QED
    BY <2>1, <2>2, <2>3
<1>3. CASE /\ HasBegun /\ Fresh /\ UNCHANGED running
           /\ LET standing == (members \ skipping) \ passing IN
              Resumes(standing) \/ StepsDown(standing) \/ ComesRound(standing)
  BY <1>3 DEF Fresh, Resumes, StepsDown, ComesRound, TInv, TypeOK
<1> QED
  BY <1>1, <1>2, <1>3, AdvanceEffect DEF TInv

(* Forgetting a row leaves scores and rests of their type.                 *)
LEMMA NoScoreIsAScore ==
  NoScore \in Score
<1>1. (CHOOSE t \in Tiebreaks : TRUE) \in Tiebreaks
  BY BoundAssumption
<1> QED
  BY <1>1 DEF NoScore, Score

LEMMA ForgetTyped ==
  ASSUME TypeOK, NEW c \in Combatant, Forget(c)
  PROVE  /\ members' \subseteq Combatant
         /\ score' \in [Combatant -> Score]
         /\ resting' \subseteq members'
BY NoScoreIsAScore DEF Forget, TypeOK

-----------------------------------------------------------------------------
(* The invariant.                                                          *)

LEMMA InitTInv == Init => TInv
<1> SUFFICES ASSUME Init PROVE TInv
  OBVIOUS
<1>1. score \in [Combatant -> Score]
  BY NoScoreIsAScore DEF Init
<1>2. running \in BOOLEAN /\ actionUsed \in BOOLEAN
  BY DEF Init
<1>3. round \in 0 .. MaxRound /\ moved \in 0 .. MaxMoved
  <2>1. round = 0 /\ moved = 0
    BY DEF Init
  <2> QED
    BY <2>1, BoundAssumption
<1>4. members = {} /\ resting = {} /\ turn = NoOne
  BY DEF Init
<1> QED
  BY <1>1, <1>2, <1>3, <1>4 DEF TInv, TypeOK, TurnHolderIsInTheFight

LEMMA NextTInv == TInv /\ [Next]_vars => TInv'
<1> SUFFICES ASSUME TInv, [Next]_vars PROVE TInv'
  OBVIOUS
<1> USE DEF TInv
<1>1. CASE Begin
  <2>1. /\ turn' \in members /\ round' = 1 /\ round' \in 0 .. MaxRound
        /\ moved' \in 0 .. MaxMoved /\ actionUsed' = FALSE /\ running' \in BOOLEAN
    BY <1>1, BeginClockEffect DEF Begin
  <2>2. actionUsed' \in BOOLEAN
    BY <2>1
  <2>3. UNCHANGED <<members, score, resting>>
    BY <1>1 DEF Begin
  <2> QED
    BY <2>1, <2>2, <2>3 DEF TypeOK, TurnHolderIsInTheFight, HasBegun
<1>2. CASE PassTurn
  <2>1. resting \in SUBSET Combatant /\ {} \in SUBSET Combatant
    BY DEF TypeOK
  <2>2. UNCHANGED <<members, score, resting>> /\ AdvanceClock({}, resting)
    BY <1>2 DEF PassTurn
  <2>3. /\ running' \in BOOLEAN /\ round' \in 0 .. MaxRound
        /\ moved' \in 0 .. MaxMoved /\ actionUsed' \in BOOLEAN
        /\ turn' = NoOne \/ (turn' \in members /\ round' > 0)
    BY <2>1, <2>2, AdvanceKeepsTheClock
  <2> QED
    BY <2>2, <2>3 DEF TypeOK, TurnHolderIsInTheFight, HasBegun
<1>3. CASE End
  <2>1. running' \in BOOLEAN /\ actionUsed' \in BOOLEAN
    BY <1>3 DEF End, FreshTurn
  <2>2. round' \in 0 .. MaxRound /\ moved' \in 0 .. MaxMoved
    <3>1. round' = 0 /\ moved' = 0
      BY <1>3 DEF End, FreshTurn
    <3> QED
      BY <3>1, BoundAssumption
  <2>3. turn' = NoOne /\ UNCHANGED <<members, score, resting>>
    BY <1>3 DEF End
  <2> QED
    BY <2>1, <2>2, <2>3 DEF TypeOK, TurnHolderIsInTheFight
<1>4. ASSUME NEW c \in Combatant, Remove(c)
      PROVE  TInv'
  <2>1. c \in members /\ members' = members \ {c}
    BY <1>4 DEF Remove, Forget
  <2>2. /\ members' \subseteq Combatant /\ score' \in [Combatant -> Score]
        /\ resting' \subseteq members'
    BY <1>4, ForgetTyped DEF Remove
  <2>3. CASE turn = c
    <3>1. HasBegun /\ AdvanceClock({c}, {})
      BY <1>4, <2>1, <2>3, CombatantAssumption DEF Remove, TurnHolderIsInTheFight
    <3>2. {c} \in SUBSET Combatant /\ {} \in SUBSET Combatant
      OBVIOUS
    <3>3. /\ running' \in BOOLEAN /\ round' \in 0 .. MaxRound
          /\ moved' \in 0 .. MaxMoved /\ actionUsed' \in BOOLEAN
          /\ turn' = NoOne \/ (turn' \in members \ {c} /\ round' > 0)
      BY <3>1, <3>2, AdvanceKeepsTheClock
    <3> QED
      BY <2>1, <2>2, <3>3 DEF TypeOK, TurnHolderIsInTheFight, HasBegun
  <2>4. CASE turn # c
    <3>1. UNCHANGED clock
      BY <1>4, <2>4 DEF Remove
    <3> QED
      BY <2>1, <2>2, <2>4, <3>1 DEF clock, TypeOK, TurnHolderIsInTheFight, HasBegun
  <2> QED
    BY <2>3, <2>4
<1>5. CASE Membership
  <2>1. ASSUME NEW c \in Combatant, NEW s \in Score, Add(c, s)
        PROVE  TInv'
    BY <2>1 DEF Add, clock, TypeOK, TurnHolderIsInTheFight, HasBegun
  <2>2. ASSUME NEW c \in Combatant, CreatureDeleted(c)
        PROVE  TInv'
    <3>1. /\ members' \subseteq Combatant /\ score' \in [Combatant -> Score]
          /\ resting' \subseteq members' /\ members' = members \ {c}
      BY <2>2, ForgetTyped DEF CreatureDeleted, Forget
    <3>2. /\ turn' = IF turn = c THEN NoOne ELSE turn
          /\ UNCHANGED <<running, round, moved, actionUsed>>
      BY <2>2 DEF CreatureDeleted
    <3> QED
      BY <3>1, <3>2 DEF TypeOK, TurnHolderIsInTheFight, HasBegun
  <2>3. ASSUME NEW c \in Combatant, Falls(c)
        PROVE  TInv'
    BY <2>3 DEF Falls, clock, TypeOK, TurnHolderIsInTheFight, HasBegun
  <2>4. ASSUME NEW c \in Combatant, Rises(c)
        PROVE  TInv'
    BY <2>4 DEF Rises, clock, TypeOK, TurnHolderIsInTheFight, HasBegun
  <2>5. CASE Clear
    BY <2>5, NoScoreIsAScore, BoundAssumption
       DEF Clear, TypeOK, TurnHolderIsInTheFight, HasBegun
  <2> QED
    BY <1>5, <2>1, <2>2, <2>3, <2>4, <2>5 DEF Membership
<1>6. CASE Reorder
  <2>1. PICK c \in Combatant, i \in Initiatives \cup {Unrolled} : SetInitiative(c, i)
    BY <1>6 DEF Reorder
  <2>2. score' \in [Combatant -> Score]
    <3>1. score[c] \in Score
      BY DEF TypeOK
    <3>2. [score[c] EXCEPT !.initiative = i] \in Score
      BY <3>1 DEF Score
    <3>3. score' = [score EXCEPT ![c] = [score[c] EXCEPT !.initiative = i]]
      BY <2>1 DEF SetInitiative
    <3> QED
      BY <3>2, <3>3 DEF TypeOK
  <2>3. UNCHANGED <<members, resting, clock>>
    BY <2>1 DEF SetInitiative
  <2> QED
    BY <2>2, <2>3 DEF clock, TypeOK, TurnHolderIsInTheFight, HasBegun
<1>7. CASE Spending
  <2>1. ASSUME NEW n \in 0 .. MaxMoved, SpendMovement(n)
        PROVE  TInv'
    <3>1. moved' \in 0 .. MaxMoved
      BY <2>1, BoundAssumption DEF SpendMovement, TypeOK
    <3> QED
      BY <2>1, <3>1 DEF SpendMovement, TypeOK, TurnHolderIsInTheFight, HasBegun
  <2>2. CASE UseAction
    BY <2>2 DEF UseAction, TypeOK, TurnHolderIsInTheFight, HasBegun
  <2>3. ASSUME NEW on \in BOOLEAN, SetRunning(on)
        PROVE  TInv'
    BY <2>3 DEF SetRunning, TypeOK, TurnHolderIsInTheFight, HasBegun
  <2> QED
    BY <1>7, <2>1, <2>2, <2>3 DEF Spending
<1>8. CASE UNCHANGED vars
  BY <1>8 DEF vars, clock, TypeOK, TurnHolderIsInTheFight, HasBegun
<1> QED
  BY <1>1, <1>2, <1>3, <1>4, <1>5, <1>6, <1>7, <1>8 DEF Next, Onwards

LEMMA SpecTInv == Spec => []TInv
BY InitTInv, NextTInv, PTL DEF Spec

(* The fight is of its type in every reachable state.                      *)
THEOREM TypeCorrect == Spec => []TypeOK
<1>1. TInv => TypeOK
  BY DEF TInv
<1> QED
  BY <1>1, SpecTInv, PTL

(* The marker is never on a row that is gone, at any table.                *)
THEOREM HolderInTheFight == Spec => []TurnHolderIsInTheFight
<1>1. TInv => TurnHolderIsInTheFight
  BY DEF TInv
<1> QED
  BY <1>1, SpecTInv, PTL

-----------------------------------------------------------------------------
(* What a step may not do.                                                 *)

LEMMA StartsUnspentStep == TInv /\ [Next]_vars => [StartsUnspent]_vars
<1> SUFFICES ASSUME TInv, Next, turn' # turn \/ round' # round, turn' # NoOne
             PROVE  moved' = 0 /\ actionUsed' = FALSE
  BY DEF StartsUnspent, vars, clock
<1> DEFINE Unspent == moved' = 0 /\ actionUsed' = FALSE
<1>1. ASSUME NEW skipping \in SUBSET Combatant, NEW passing \in SUBSET Combatant,
             AdvanceClock(skipping, passing)
      PROVE  Unspent
  <2>1. CASE NobodyUp
    BY <2>1 DEF NobodyUp
  <2>2. CASE ~HasBegun /\ BeginClock /\ members # {}
    BY <2>2 DEF BeginClock, HandTo, FreshTurn
  <2>3. CASE Fresh
    BY <2>3 DEF Fresh
  <2> QED
    BY <1>1, <2>1, <2>2, <2>3, AdvanceEffect DEF TInv
<1>2. CASE Begin
  BY <1>2 DEF Begin, BeginClock, HandTo, FreshTurn
<1>3. CASE PassTurn
  <2>1. AdvanceClock({}, resting) /\ resting \in SUBSET Combatant
    BY <1>3 DEF PassTurn, TInv, TypeOK
  <2> QED
    BY <1>1, <2>1
<1>4. CASE End
  BY <1>4 DEF End
<1>5. ASSUME NEW c \in Combatant, Remove(c)
      PROVE  Unspent
  <2>1. AdvanceClock({c}, {})
    BY <1>5 DEF Remove, clock
  <2> QED
    BY <1>1, <2>1
<1>6. ~Membership
  BY DEF Membership, Add, CreatureDeleted, Falls, Rises, Clear, clock
<1>7. ~Reorder /\ ~Spending
  BY DEF Reorder, SetInitiative, Spending, SpendMovement, UseAction, SetRunning, clock
<1> QED
  BY <1>2, <1>3, <1>4, <1>5, <1>6, <1>7 DEF Next, Onwards

LEMMA MovesDownStep == TInv /\ [Next]_vars => [MovesDown]_vars
<1> SUFFICES ASSUME TInv, Next, ~Begin,
                    turn # NoOne, turn' # turn, turn' # NoOne, round' = round
             PROVE  /\ Before(score, turn, turn')
                    /\ \A d \in members' \ resting' :
                         ~ (Before(score, turn, d) /\ Before(score, d, turn'))
  BY DEF MovesDown, vars, clock
<1>1. /\ turn \in members /\ HasBegun /\ round \in Int
      /\ members \subseteq Combatant /\ resting \subseteq members
      /\ score \in [Combatant -> Score]
  BY DEF TInv, TypeOK, TurnHolderIsInTheFight
<1>2. ASSUME NEW skipping \in SUBSET Combatant, NEW passing \in SUBSET Combatant,
             AdvanceClock(skipping, passing)
      PROVE  StepsDown((members \ skipping) \ passing)
  <2>1. ~NobodyUp
    BY DEF NobodyUp
  <2>2. ~ComesRound((members \ skipping) \ passing)
    BY <1>1 DEF ComesRound
  <2>3. ~Resumes((members \ skipping) \ passing)
    BY <1>1 DEF Resumes
  <2> QED
    BY <1>1, <1>2, <2>1, <2>2, <2>3, AdvanceEffect DEF TInv
<1>3. ASSUME NEW standing \in SUBSET members, StepsDown(standing),
             members' \ resting' \subseteq standing
      PROVE  /\ Before(score, turn, turn')
             /\ \A d \in members' \ resting' :
                  ~ (Before(score, turn, d) /\ Before(score, d, turn'))
  <2>1. /\ Before(score, turn, turn') /\ turn' \in standing
        /\ \A e \in standing \ {turn'} : Before(score, turn, e) => Before(score, turn', e)
    BY <1>3 DEF StepsDown
  <2>2. ASSUME NEW d \in standing, Before(score, turn, d), Before(score, d, turn')
        PROVE  FALSE
    <3>1. d \in Combatant /\ turn' \in Combatant
      BY <1>1, <2>1
    <3>2. ~ (Before(score, d, turn') /\ Before(score, turn', d)) /\ ~ Before(score, d, d)
      BY <1>1, <3>1, BeforeIsStrict
    <3> QED
      BY <2>1, <2>2, <3>2
  <2> QED
    BY <1>3, <2>1, <2>2
<1>4. CASE PassTurn
  <2>1. StepsDown((members \ {}) \ resting)
    BY <1>1, <1>2, <1>4 DEF PassTurn
  <2>2. members' \ resting' = (members \ {}) \ resting
    BY <1>4 DEF PassTurn
  <2> QED
    BY <1>3, <2>1, <2>2
<1>5. ASSUME NEW c \in Combatant, Remove(c)
      PROVE  /\ Before(score, turn, turn')
             /\ \A d \in members' \ resting' :
                  ~ (Before(score, turn, d) /\ Before(score, d, turn'))
  <2>1. AdvanceClock({c}, {}) /\ members' = members \ {c}
    BY <1>5 DEF Remove, Forget, clock
  <2>2. StepsDown((members \ {c}) \ {})
    BY <1>2, <2>1
  <2>3. members' \ resting' \subseteq (members \ {c}) \ {}
    BY <2>1
  <2> QED
    BY <1>3, <2>2, <2>3
<1>6. ~End /\ ~Membership
  BY DEF End, Membership, Add, CreatureDeleted, Falls, Rises, Clear, clock
<1>7. ~Reorder /\ ~Spending
  BY DEF Reorder, SetInitiative, Spending, SpendMovement, UseAction, SetRunning, clock
<1> QED
  BY <1>4, <1>5, <1>6, <1>7 DEF Next, Onwards

(* Whoever the turn comes to, by whichever door, starts with nothing spent.*)
THEOREM NothingIsInherited == Spec => NothingInherited
BY SpecTInv, StartsUnspentStep, PTL DEF Spec, NothingInherited

(* However many come and go, the turn never moves up within a round.       *)
THEOREM TheTurnGoesDown == Spec => TurnGoesDownTheOrder
BY SpecTInv, MovesDownStep, PTL DEF Spec, TurnGoesDownTheOrder

-----------------------------------------------------------------------------
(***************************************************************************)
(* Once a round each, for every table: the marker divides those who have   *)
(* had their turn from those who have not, and that is kept by every step  *)
(* no excuse is recorded for.                                              *)
(***************************************************************************)

(* The count is only kept of rows there are and while there are rounds,    *)
(* and whoever stayed is there.                                            *)
CountOfTheLiving ==
  /\ stayed \subseteq members \ resting
  /\ \A c \in Combatant : c \notin members \/ ~HasBegun => turns[c] = 0

HInv == TInv /\ HTypeOK /\ CountOfTheLiving /\ MarkerDividesTheRound

-----------------------------------------------------------------------------
(* Every step of the history is a step of the table.                       *)
LEMMA HistoryOnlyWatches ==
  [HNext]_hvars => [Next]_vars
BY DEF HNext, hvars, Next

(* Coming before looks at two scores and nothing else.                     *)
LEMMA BeforeSame ==
  ASSUME NEW c \in Combatant, NEW d \in Combatant,
         score'[c] = score[c], score'[d] = score[d]
  PROVE  Before(score', c, d) <=> Before(score, c, d)
BY DEF Before

LEMMA HTypeKept ==
  ASSUME HTypeOK, TInv', StartCount \/ KeepCount
  PROVE  HTypeOK'
<1>1. members' \subseteq Combatant
  BY DEF TInv, TypeOK
<1>2. CASE StartCount
  BY <1>1, <1>2 DEF StartCount, HTypeOK
<1>3. CASE KeepCount
  <2>1. \A c \in Combatant : OneMore(turns[c]) \in 0 .. 2 /\ turns[c] \in 0 .. 2
    BY DEF HTypeOK, OneMore
  <2>2. turns' \in [Combatant -> 0 .. 2]
    BY <1>3, <2>1 DEF KeepCount
  <2>3. NewExcuses \subseteq Excuses
    BY DEF NewExcuses, Excuses
  <2> QED
    BY <1>3, <2>2, <2>3 DEF KeepCount, HTypeOK
<1> QED
  BY <1>2, <1>3

LEMMA CountOfTheLivingKept ==
  ASSUME HTypeOK, CountOfTheLiving, TInv', StartCount \/ (KeepCount /\ round' = round)
  PROVE  CountOfTheLiving'
<1>1. ASSUME NEW c \in Combatant, c \notin members' \/ ~HasBegun'
      PROVE  c # turn'
  BY <1>1, CombatantAssumption DEF TInv, TurnHolderIsInTheFight
<1>2. CASE StartCount
  <2>1. stayed' = members' \ resting'
    BY <1>2 DEF StartCount
  <2>2. \A c \in Combatant : turns'[c] = IF c = turn' THEN 1 ELSE 0
    BY <1>2 DEF StartCount
  <2> QED
    BY <1>1, <2>1, <2>2 DEF CountOfTheLiving
<1>3. CASE KeepCount /\ round' = round
  <2>1. \A c \in Combatant : c # turn' =>
          turns'[c] = IF c \in members' THEN turns[c] ELSE 0
    BY <1>3 DEF KeepCount
  <2>2. stayed' \subseteq members' \ resting'
    BY <1>3 DEF KeepCount
  <2>3. HasBegun' <=> HasBegun
    BY <1>3 DEF HasBegun
  <2> QED
    BY <1>1, <2>1, <2>2, <2>3 DEF CountOfTheLiving
<1> QED
  BY <1>2, <1>3

(* A new round starts at the top of those who are in it from the start.    *)
LEMMA MarkerAtTheTop ==
  ASSUME TInv', StartCount,
         round' > 0 => /\ turn' # NoOne
                       /\ \A d \in (members' \ resting') \ {turn'} :
                             Before(score', turn', d)
  PROVE  MarkerDividesTheRound'
<1> SUFFICES ASSUME round' > 0
             PROVE  /\ turn' # NoOne
                    /\ \A c \in members' : turns'[c] > 0 => Reached(c)'
                    /\ \A c \in stayed' : Reached(c)' => turns'[c] > 0
                    /\ \A c \in Combatant : turns'[c] <= 1
  BY DEF MarkerDividesTheRound, HasBegun
<1>1. /\ members' \subseteq Combatant /\ score' \in [Combatant -> Score]
      /\ turn' \in Combatant
  BY DEF TInv, TypeOK
<1>2. \A c \in Combatant : turns'[c] = IF c = turn' THEN 1 ELSE 0
  BY DEF StartCount
<1>3. ASSUME NEW c \in stayed', Reached(c)'
      PROVE  c = turn'
  <2>1. c \in members' \ resting' /\ c \in Combatant
    BY <1>1 DEF StartCount
  <2>2. CASE c # turn'
    <3>1. Before(score', turn', c) /\ Before(score', c, turn')
      BY <1>3, <2>1, <2>2 DEF Reached
    <3> QED
      BY <1>1, <2>1, <3>1, BeforeIsStrict
  <2> QED
    BY <2>2
<1> QED
  BY <1>1, <1>2, <1>3 DEF Reached

(* Nothing to do with the marker: those on either side of it stay there.   *)
LEMMA MarkerStays ==
  ASSUME HInv, TInv', KeepCount, round' = round, turn' = turn
  PROVE  MarkerDividesTheRound'
<1> SUFFICES ASSUME excuses' = {}, round' > 0
             PROVE  /\ turn' # NoOne
                    /\ \A c \in members' : turns'[c] > 0 => Reached(c)'
                    /\ \A c \in stayed' : Reached(c)' => turns'[c] > 0
                    /\ \A c \in Combatant : turns'[c] <= 1
  BY DEF MarkerDividesTheRound, HasBegun
<1>1. excuses = {} /\ NewExcuses = {} /\ HasBegun
  BY DEF KeepCount, HasBegun
<1>2. /\ turn # NoOne
      /\ \A c \in members : turns[c] > 0 => Reached(c)
      /\ \A c \in stayed : Reached(c) => turns[c] > 0
      /\ \A c \in Combatant : turns[c] <= 1
  BY <1>1 DEF HInv, MarkerDividesTheRound
<1>3. \A c \in members \cap members' : score'[c] = score[c]
  BY <1>1 DEF NewExcuses
<1>4. /\ members' \subseteq Combatant /\ members \subseteq Combatant
      /\ turn \in members \cap members'
      /\ turns \in [Combatant -> 0 .. 2]
  BY <1>2 DEF TInv, HInv, TypeOK, TurnHolderIsInTheFight, HTypeOK
<1>5. \A c \in members \cap members' : Reached(c)' <=> Reached(c)
  BY <1>3, <1>4, BeforeSame DEF Reached
<1>6. \A c \in Combatant : turns'[c] = IF c \in members' THEN turns[c] ELSE 0
  BY DEF KeepCount
<1>7. ASSUME NEW c \in members', turns'[c] > 0
      PROVE  Reached(c)'
  <2>1. c \in members
    BY <1>4, <1>6, <1>7 DEF HInv, CountOfTheLiving
  <2> QED
    BY <1>2, <1>4, <1>5, <1>6, <1>7, <2>1
<1>8. ASSUME NEW c \in stayed', Reached(c)'
      PROVE  turns'[c] > 0
  <2>1. c \in stayed /\ c \in members \cap members'
    BY DEF KeepCount, HInv, CountOfTheLiving
  <2> QED
    BY <1>2, <1>4, <1>5, <1>6, <1>8, <2>1
<1> QED
  BY <1>2, <1>4, <1>6, <1>7, <1>8

(* The marker goes down to the next one standing: it passes over nobody    *)
(* who stayed, and those it had passed it has passed still.                *)
LEMMA MarkerStepsDown ==
  ASSUME HInv, TInv', KeepCount, round' = round,
         NEW standing \in SUBSET members, StepsDown(standing),
         members' \subseteq members, members' \ resting' \subseteq standing
  PROVE  MarkerDividesTheRound'
<1> SUFFICES ASSUME excuses' = {}, round' > 0
             PROVE  /\ turn' # NoOne
                    /\ \A c \in members' : turns'[c] > 0 => Reached(c)'
                    /\ \A c \in stayed' : Reached(c)' => turns'[c] > 0
                    /\ \A c \in Combatant : turns'[c] <= 1
  BY DEF MarkerDividesTheRound, HasBegun
<1>1. excuses = {} /\ NewExcuses = {} /\ HasBegun
  BY DEF KeepCount, HasBegun
<1>2. /\ \A c \in members : turns[c] > 0 => Reached(c)
      /\ \A c \in stayed : Reached(c) => turns[c] > 0
      /\ \A c \in Combatant : turns[c] <= 1
  BY <1>1 DEF HInv, MarkerDividesTheRound
<1>3. \A c \in members' : score'[c] = score[c]
  BY <1>1 DEF NewExcuses
<1>4. /\ turn \in members /\ turn' \in standing
      /\ Before(score, turn, turn')
      /\ \A e \in standing \ {turn'} : Before(score, turn, e) => Before(score, turn', e)
  BY DEF StepsDown
<1>5. /\ members \subseteq Combatant /\ score \in [Combatant -> Score]
      /\ turns \in [Combatant -> 0 .. 2]
  BY DEF HInv, TInv, TypeOK, HTypeOK
<1>6. turn' # NoOne /\ turn' \in members' /\ turn' # turn
  <2>1. turn' \in Combatant /\ turn \in Combatant
    BY <1>4, <1>5
  <2> QED
    BY <1>4, <1>5, <2>1, CombatantAssumption, BeforeIsStrict
       DEF TInv, TurnHolderIsInTheFight
<1>7. \A c \in members' : Reached(c)' <=> c = turn' \/ Before(score, c, turn')
  BY <1>3, <1>5, <1>6, BeforeSame DEF Reached
<1>8. turns[turn'] = 0
  <2>1. ~ Reached(turn')
    BY <1>4, <1>5, <1>6, BeforeIsStrict DEF Reached
  <2> QED
    BY <1>2, <1>4, <1>5, <2>1
<1>9. \A c \in Combatant :
        turns'[c] = IF c \notin members' THEN 0 ELSE IF c = turn' THEN 1 ELSE turns[c]
  BY <1>6, <1>8 DEF KeepCount, OneMore
<1>10. ASSUME NEW c \in members', turns'[c] > 0
       PROVE  Reached(c)'
  <2>1. CASE c = turn'
    BY <1>7, <2>1
  <2>2. CASE c # turn'
    <3>1. c \in Combatant /\ turn \in Combatant /\ turn' \in Combatant
      BY <1>4, <1>5
    <3>2. c = turn \/ Before(score, c, turn)
      BY <1>2, <1>9, <1>10, <2>2, <3>1 DEF Reached
    <3>3. Before(score, c, turn')
      BY <1>4, <1>5, <3>1, <3>2, BeforeIsTransitive
    <3> QED
      BY <1>7, <3>3
  <2> QED
    BY <2>1, <2>2
<1>11. ASSUME NEW c \in stayed', Reached(c)'
       PROVE  turns'[c] > 0
  <2>1. c \in stayed /\ c \in members' /\ c \in standing /\ c \in Combatant
    BY <1>5 DEF KeepCount
  <2>2. CASE c = turn'
    BY <1>9, <2>1, <2>2
  <2>3. CASE c # turn'
    <3>1. Before(score, c, turn') /\ turn \in Combatant /\ turn' \in Combatant
      BY <1>4, <1>5, <1>7, <1>11, <2>1, <2>3
    <3>2. ~ Before(score, turn, c)
      BY <1>4, <1>5, <2>1, <2>3, <3>1, BeforeIsStrict
    <3>3. Reached(c)
      BY <1>5, <2>1, <3>1, <3>2, BeforeIsStrict DEF Reached
    <3> QED
      BY <1>2, <1>9, <2>1, <2>3, <3>3
  <2> QED
    BY <2>2, <2>3
<1> QED
  BY <1>2, <1>5, <1>6, <1>9, <1>10, <1>11

-----------------------------------------------------------------------------
(* The invariant.                                                          *)

LEMMA InitHInv == HInit => HInv
<1> SUFFICES ASSUME HInit PROVE HInv
  OBVIOUS
<1>1. TInv
  BY InitTInv DEF HInit
<1>2. turns = [c \in Combatant |-> 0] /\ stayed = {} /\ excuses = {}
  BY DEF HInit
<1>3. HTypeOK /\ CountOfTheLiving
  BY <1>2 DEF HTypeOK, CountOfTheLiving
<1>4. MarkerDividesTheRound
  BY DEF HInit, Init, MarkerDividesTheRound, HasBegun
<1> QED
  BY <1>1, <1>3, <1>4 DEF HInv

(* advance in the middle of a fight, whoever called it: the removal of     *)
(* whoever is up, or the turn being passed.                                *)
LEMMA MarkerAdvances ==
  ASSUME HInv, TInv',
         NEW skipping \in SUBSET Combatant, NEW passing \in SUBSET Combatant,
         AdvanceClock(skipping, passing),
         members' \subseteq members,
         members' \resting' \subseteq (members \ skipping) \ passing,
         \A c \in members' : score'[c] = score[c],
         IF round' # round THEN StartCount ELSE KeepCount
  PROVE  MarkerDividesTheRound'
<1> DEFINE standing == (members \ skipping) \ passing
<1>0. TypeOK
  BY DEF HInv, TInv
<1>1. CASE NobodyUp
  <2>1. KeepCount /\ turn' = NoOne /\ round' = round
    BY <1>1 DEF NobodyUp
  <2>2. CASE turn # NoOne
    <3>1. NewExcuses # {}
      BY <2>1, <2>2 DEF NewExcuses
    <3>2. excuses' # {}
      BY <2>1, <3>1 DEF KeepCount
    <3> QED
      BY <3>2 DEF MarkerDividesTheRound
  <2>3. CASE turn = NoOne
    BY <2>1, <2>3, MarkerStays
  <2> QED
    BY <2>2, <2>3
<1>2. CASE ~HasBegun /\ BeginClock /\ members # {}
  <2>1. /\ turn' \in members /\ round' = 1
        /\ \A d \in members \ {turn'} : Before(score, turn', d)
    BY <1>0, <1>2, BeginClockEffect
  <2>2. StartCount
    BY <1>0, <1>2, <2>1 DEF HasBegun, TypeOK
  <2>3. turn' \in members'
    BY <2>1, CombatantAssumption DEF TInv, TypeOK, TurnHolderIsInTheFight, HInv
  <2>4. \A d \in (members' \ resting') \ {turn'} : Before(score', turn', d)
    BY <2>1, <2>3, BeforeSame DEF HInv, TInv, TypeOK
  <2> QED
    BY <2>2, <2>3, <2>4, CombatantAssumption, MarkerAtTheTop DEF TInv, TypeOK
<1>3. CASE HasBegun /\ Resumes(standing)
  <2>1. turn \notin members /\ round' = round
    BY <1>3 DEF Resumes
  <2>2. turn = NoOne
    BY <2>1 DEF HInv, TInv, TurnHolderIsInTheFight
  <2>3. excuses # {}
    BY <1>3, <2>2 DEF HInv, MarkerDividesTheRound
  <2>4. KeepCount
    BY <2>1
  <2> QED
    BY <2>3, <2>4 DEF KeepCount, MarkerDividesTheRound
<1>4. CASE StepsDown(standing)
  <2>1. round' = round /\ standing \in SUBSET members
    BY <1>4 DEF StepsDown
  <2> QED
    BY <1>4, <2>1, MarkerStepsDown
<1>5. CASE HasBegun /\ ComesRound(standing)
  <2>1. /\ turn' \in standing /\ round' = round + 1
        /\ \A e \in standing \ {turn'} : Before(score, turn', e)
    BY <1>5 DEF ComesRound
  <2>2. StartCount
    BY <1>0, <2>1 DEF TypeOK
  <2>3. turn' \in Combatant /\ turn' # NoOne
    BY <1>0, <2>1, CombatantAssumption DEF TypeOK
  <2>4. turn' \in members'
    BY <2>3 DEF TInv, TurnHolderIsInTheFight
  <2>5. \A d \in (members' \ resting') \ {turn'} : Before(score', turn', d)
    BY <1>0, <2>1, <2>4, BeforeSame DEF TypeOK
  <2> QED
    BY <2>2, <2>3, <2>5, MarkerAtTheTop
<1> QED
  BY <1>0, <1>1, <1>2, <1>3, <1>4, <1>5, AdvanceEffect

LEMMA NextHInv == HInv /\ [HNext]_hvars => HInv'
<1> SUFFICES ASSUME HInv, [HNext]_hvars PROVE HInv'
  OBVIOUS
<1>1. TInv'
  BY HistoryOnlyWatches, NextTInv DEF HInv
<1>2. CASE UNCHANGED hvars
  BY <1>2 DEF hvars, vars, clock, history, HInv, TInv, TypeOK, TurnHolderIsInTheFight,
              HasBegun, HTypeOK, CountOfTheLiving, MarkerDividesTheRound, Reached, Before
<1>3. CASE HNext
  <2>1. HTypeOK' /\ CountOfTheLiving'
    <3>1. StartCount \/ (KeepCount /\ round' = round)
      BY <1>3 DEF HNext
    <3> QED
      BY <1>1, <3>1, HTypeKept, CountOfTheLivingKept DEF HInv
  <2>2. MarkerDividesTheRound'
    <3>1. CASE Begin /\ StartCount
      <4>1. /\ turn' \in members /\ round' = 1
            /\ \A d \in members \ {turn'} : Before(score, turn', d)
            /\ UNCHANGED <<members, score, resting>>
        BY <3>1, BeginClockEffect DEF Begin, HInv, TInv
      <4>2. turn' # NoOne
        BY <4>1, CombatantAssumption DEF HInv, TInv, TypeOK
      <4> QED
        BY <1>1, <3>1, <4>1, <4>2, MarkerAtTheTop
    <3>2. CASE Onwards /\ IF round' # round THEN StartCount ELSE KeepCount
      <4>0. /\ members \subseteq Combatant /\ resting \subseteq members
            /\ score \in [Combatant -> Score]
        BY DEF HInv, TInv, TypeOK
      <4>1. CASE PassTurn
        <5>1. AdvanceClock({}, resting) /\ UNCHANGED <<members, score, resting>>
          BY <4>1 DEF PassTurn
        <5>2. {} \in SUBSET Combatant /\ resting \in SUBSET Combatant
          BY <4>0
        <5>3. members' \ resting' \subseteq (members \ {}) \ resting
          BY <5>1
        <5> QED
          BY <1>1, <3>2, <5>1, <5>2, <5>3, MarkerAdvances
      <4>2. ASSUME NEW c \in Combatant, Remove(c), turn = c
            PROVE  MarkerDividesTheRound'
        <5>1. /\ AdvanceClock({c}, {}) /\ members' = members \ {c}
              /\ score' = [score EXCEPT ![c] = NoScore]
          BY <4>2 DEF Remove, Forget
        <5>2. {c} \in SUBSET Combatant /\ {} \in SUBSET Combatant
          OBVIOUS
        <5>3. members' \ resting' \subseteq (members \ {c}) \ {}
          BY <5>1
        <5>4. members' \subseteq members /\ \A d \in members' : score'[d] = score[d]
          BY <4>0, <5>1
        <5> QED
          BY <1>1, <3>2, <5>1, <5>2, <5>3, <5>4, MarkerAdvances
      <4>3. CASE round' = round /\ turn' = turn
        BY <1>1, <3>2, <4>3, MarkerStays
      <4>4. CASE round' = 0
        BY <4>4 DEF MarkerDividesTheRound, HasBegun
      <4>5. ASSUME NEW c \in Combatant, CreatureDeleted(c), turn = c
            PROVE  MarkerDividesTheRound'
        <5>1. turn' = NoOne /\ round' = round /\ turn # NoOne
          BY <4>5, CombatantAssumption DEF CreatureDeleted
        <5>2. NewExcuses # {} /\ KeepCount
          BY <3>2, <5>1 DEF NewExcuses
        <5>3. excuses' # {}
          BY <5>2 DEF KeepCount
        <5> QED
          BY <5>3 DEF MarkerDividesTheRound
      <4>6. Onwards => \/ PassTurn
                       \/ \E c \in Combatant : Remove(c) /\ turn = c
                       \/ \E c \in Combatant : CreatureDeleted(c) /\ turn = c
                       \/ round' = 0
                       \/ round' = round /\ turn' = turn
        <5>1. End \/ Clear => round' = 0
          BY DEF End, Clear
        <5>2. ASSUME NEW c \in Combatant, Remove(c), turn # c
              PROVE  round' = round /\ turn' = turn
          BY <5>2 DEF Remove, clock
        <5>3. ASSUME NEW c \in Combatant, CreatureDeleted(c), turn # c
              PROVE  round' = round /\ turn' = turn
          BY <5>3 DEF CreatureDeleted
        <5>4. ASSUME NEW c \in Combatant,
                     (\E s \in Score : Add(c, s)) \/ Falls(c) \/ Rises(c)
              PROVE  round' = round /\ turn' = turn
          BY <5>4 DEF Add, Falls, Rises, clock
        <5>5. Reorder \/ Spending => round' = round /\ turn' = turn
          BY DEF Reorder, SetInitiative, Spending, SpendMovement, UseAction, SetRunning, clock
        <5> QED
          BY <5>1, <5>2, <5>3, <5>4, <5>5 DEF Onwards, Membership
      <4> QED
        BY <3>2, <4>1, <4>2, <4>3, <4>4, <4>5, <4>6
    <3> QED
      BY <1>3, <3>1, <3>2 DEF HNext
  <2> QED
    BY <1>1, <2>1, <2>2 DEF HInv
<1> QED
  BY <1>2, <1>3

LEMMA SpecHInv == HSpec => []HInv
BY InitHInv, NextHInv, PTL DEF HSpec

(* The marker divides those who have acted from those who have not.        *)
THEOREM MarkerDivides == HSpec => []MarkerDividesTheRound
<1>1. HInv => MarkerDividesTheRound
  BY DEF HInv
<1> QED
  BY <1>1, SpecHInv, PTL

(* Nobody has two turns in a round that nothing excuses, at any table and  *)
(* through any sequence of additions, removals, deaths and recoveries.     *)
THEOREM OnceARound == HSpec => []NobodyActsTwice
<1>1. HInv => NobodyActsTwice
  <2> SUFFICES ASSUME HInv, excuses = {}, NEW c \in members
               PROVE  turns[c] <= 1
    BY DEF NobodyActsTwice
  <2>1. c \in Combatant /\ CountOfTheLiving
    BY DEF HInv, TInv, TypeOK
  <2>2. CASE HasBegun
    BY <2>1, <2>2 DEF HInv, MarkerDividesTheRound
  <2>3. CASE ~HasBegun
    BY <2>1, <2>3 DEF CountOfTheLiving
  <2> QED
    BY <2>2, <2>3
<1> QED
  BY <1>1, SpecHInv, PTL

-----------------------------------------------------------------------------
(* A round ends only when everybody who stayed has had a turn in it.       *)

LEMMA LeavesNobodyOutStep == HInv /\ [HNext]_hvars => [LeavesNobodyOut]_hvars
<1> SUFFICES ASSUME HInv, HNext, HasBegun, round' = round + 1, excuses = {},
                    NEW c \in stayed
             PROVE  turns[c] >= 1
  BY DEF LeavesNobodyOut, hvars
<1>1. /\ members \subseteq Combatant /\ resting \subseteq members
      /\ score \in [Combatant -> Score] /\ round \in Nat
      /\ turns \in [Combatant -> 0 .. 2]
      /\ c \in members \ resting
  BY DEF HInv, TInv, TypeOK, HTypeOK, CountOfTheLiving
<1>2. turn \in members /\ \A d \in stayed : Reached(d) => turns[d] > 0
  BY DEF HInv, MarkerDividesTheRound, TInv, TurnHolderIsInTheFight
<1>3. ASSUME NEW skipping \in SUBSET Combatant, NEW passing \in SUBSET Combatant,
             AdvanceClock(skipping, passing),
             c = turn \/ c \in (members \ skipping) \ passing
      PROVE  turns[c] >= 1
  <2>1. CASE c = turn
    BY <1>1, <1>2, <2>1 DEF Reached
  <2>2. CASE c # turn
    <3>1. ComesRound((members \ skipping) \ passing)
      BY <1>1, <1>3, AdvanceEffect DEF HInv, TInv, NobodyUp, Resumes, StepsDown
    <3>2. ~ Before(score, turn, c)
      BY <1>3, <2>2, <3>1 DEF ComesRound
    <3>3. Reached(c)
      BY <1>1, <1>2, <2>2, <3>2, BeforeIsStrict DEF Reached
    <3> QED
      BY <1>1, <1>2, <3>3
  <2> QED
    BY <2>1, <2>2
<1>4. CASE PassTurn
  <2>1. AdvanceClock({}, resting) /\ c \in (members \ {}) \ resting
    BY <1>1, <1>4 DEF PassTurn
  <2>2. resting \in SUBSET Combatant /\ {} \in SUBSET Combatant
    BY <1>1
  <2> QED
    BY <1>3, <2>1, <2>2
<1>5. ASSUME NEW d \in Combatant, Remove(d)
      PROVE  turns[c] >= 1
  <2>1. turn = d /\ AdvanceClock({d}, {})
    BY <1>1, <1>5 DEF Remove, clock
  <2>2. c = turn \/ c \in (members \ {d}) \ {}
    BY <1>1, <2>1
  <2> QED
    BY <1>3, <2>1, <2>2
<1>6. ~Begin
  <2>1. Begin => round' = 1
    BY DEF Begin, BeginClock, HandTo
  <2> QED
    BY <1>1, <2>1 DEF HasBegun
<1>7. round' # 0 /\ round' # round
  BY <1>1
<1>8. ~End /\ ~Membership
  BY <1>7 DEF End, Membership, Add, CreatureDeleted, Falls, Rises, Clear, clock
<1>9. ~Reorder /\ ~Spending
  BY <1>7 DEF Reorder, SetInitiative, Spending, SpendMovement, UseAction, SetRunning, clock
<1> QED
  BY <1>4, <1>5, <1>6, <1>8, <1>9 DEF HNext, Onwards

(* No round that nothing excuses ends with somebody still waiting for it.  *)
THEOREM NobodyLeftOut == HSpec => NobodyIsSkipped
BY SpecHInv, LeavesNobodyOutStep, PTL DEF HSpec, NobodyIsSkipped

-----------------------------------------------------------------------------
(***************************************************************************)
(* Nobody reacts twice in a round, in a fight of any size and length.  The *)
(* invariant is SpentIsWritten with enough typing to compare the numbers:  *)
(* it is inductive because a step that starts a round forgets who has      *)
(* reacted, and one that does not leaves both the round and, in every row  *)
(* that stays, the number alone.                                           *)
(***************************************************************************)

RInv ==
  /\ TInv
  /\ reacted \in [Combatant -> Nat]
  /\ spent \subseteq Combatant
  /\ SpentIsWritten

LEMMA RInitial == RInit => RInv
<1> SUFFICES ASSUME RInit PROVE RInv
  OBVIOUS
<1>1. TInv
  BY InitTInv DEF RInit
<1> QED
  BY <1>1 DEF RInit, RInv, SpentIsWritten

(* The fight itself moves as before, or not at all.                        *)
LEMMA FightMoves ==
  ASSUME TInv, [RNext]_rvars
  PROVE  TInv'
<1>1. [Next]_vars
  BY DEF RNext, Otherwise, React, rvars
<1> QED
  BY <1>1, NextTInv

(* A reaction is written with the round it was spent in.                   *)
LEMMA ReactWrites ==
  ASSUME RInv, NEW c \in Combatant, React(c)
  PROVE  /\ reacted' \in [Combatant -> Nat]
         /\ spent' \subseteq Combatant
         /\ SpentIsWritten'
<1>1. round \in Nat /\ round' = round /\ members' = members
  BY BoundAssumption DEF RInv, TInv, TypeOK, React, vars, clock
<1>2. round > 0
  BY <1>1 DEF RInv, React
<1>3. reacted' = [reacted EXCEPT ![c] = round] /\ spent' = spent \cup {c} /\ c \in members
  BY DEF React
<1>4. reacted' \in [Combatant -> Nat]
  BY <1>1, <1>3 DEF RInv
<1>5. ASSUME NEW d \in spent'
      PROVE  d \in members' /\ round' > 0 /\ reacted'[d] = round'
  <2>1. CASE d = c
    BY <1>1, <1>2, <1>3, <2>1 DEF RInv
  <2>2. CASE d # c
    BY <1>1, <1>2, <1>3, <2>2 DEF RInv, SpentIsWritten
  <2> QED
    BY <2>1, <2>2
<1> QED
  BY <1>3, <1>4, <1>5 DEF RInv, SpentIsWritten, HasBegun

(* Any other step keeps the numbers of the rows it keeps.                  *)
LEMMA OtherwiseKeeps ==
  ASSUME RInv, Otherwise
  PROVE  /\ reacted' \in [Combatant -> Nat]
         /\ spent' \subseteq Combatant
         /\ SpentIsWritten'
<1>1. reacted' = [c \in Combatant |-> IF c \in members' THEN reacted[c] ELSE 0]
  BY DEF Otherwise
<1>2. reacted' \in [Combatant -> Nat]
  BY <1>1 DEF RInv
<1>3. CASE spent' = {}
  BY <1>2, <1>3 DEF SpentIsWritten
<1>4. CASE spent' = spent \cap members' /\ round' = round
  BY <1>1, <1>2, <1>4 DEF RInv, SpentIsWritten, HasBegun
<1> QED
  BY <1>2, <1>3, <1>4 DEF Otherwise

LEMMA RInductive == RInv /\ [RNext]_rvars => RInv'
<1> SUFFICES ASSUME RInv, [RNext]_rvars PROVE RInv'
  OBVIOUS
<1>1. TInv'
  BY FightMoves DEF RInv
<1>2. CASE Otherwise
  BY <1>1, <1>2, OtherwiseKeeps DEF RInv
<1>3. ASSUME NEW c \in Combatant, React(c) PROVE RInv'
  BY <1>1, <1>3, ReactWrites DEF RInv
<1>4. CASE UNCHANGED rvars
  BY <1>1, <1>4 DEF RInv, SpentIsWritten, HasBegun, rvars, vars, clock
<1> QED
  BY <1>2, <1>3, <1>4 DEF RNext

(* Whoever could react had not.                                            *)
LEMMA ReactsOnlyAfresh == RInv => ReactsAfresh
<1> SUFFICES ASSUME RInv, NEW c \in Combatant, React(c), c \in spent
             PROVE  FALSE
  BY DEF ReactsAfresh
<1>1. reacted[c] = round /\ reacted[c] < round /\ round \in Nat
  BY BoundAssumption DEF RInv, SpentIsWritten, TInv, TypeOK, React
<1> QED
  BY <1>1

(* Whoever has reacted this round has this round on their row: what makes  *)
(* the number enough to tell.                                              *)
THEOREM ReactionsAreWritten == RSpec => []SpentIsWritten
<1>1. RInv => SpentIsWritten
  BY DEF RInv
<1> QED
  BY <1>1, RInitial, RInductive, PTL DEF RSpec

(* One reaction a round, whatever starts, ends, clears or removes in       *)
(* between.                                                                *)
THEOREM OneReaction == RSpec => OneReactionARound
<1>1. RSpec => []RInv
  BY RInitial, RInductive, PTL DEF RSpec
<1> QED
  BY <1>1, ReactsOnlyAfresh, PTL DEF RSpec, OneReactionARound

-----------------------------------------------------------------------------
(***************************************************************************)
(* Referee: the turn passing over the dying.  A handler computes on tables *)
(* (Tables, below), so most of this is about two of them: the one a walk   *)
(* sets out from and the one it leaves behind.                             *)
(***************************************************************************)

Life == [down : BOOLEAN, made : Nat, failed : Nat]

Tables == [begun : BOOLEAN, turn : Combatant \cup {NoOne}, life : [Combatant -> Life],
           waiting : Combatant \cup {NoOne}, owed : Combatant \cup {NoOne}]

(* The turn going round the table: what lies between two of them, as the   *)
(* order runs and then starts over.                                        *)
LEMMA GoingRound ==
  ASSUME NEW x \in Combatant, NEW y \in Combatant, NEW d \in Combatant, NEW e \in Combatant
  PROVE  /\ ~ GoesBy(x, x, d) /\ ~ GoesBy(x, d, d)
         /\ GoesBy(x, e, y) => GoesBy(x, e, d) \/ e = d \/ GoesBy(d, e, y)
         /\ d # x /\ d # y /\ ~ GoesBy(x, d, y) => GoesBy(x, y, d)
         /\ GoesBy(x, y, d) /\ GoesBy(y, e, d) => GoesBy(x, e, d)
<1>0. Scores \in [Combatant -> Score]
  BY RefereeAssumption
<1> DEFINE B(a, b) == Before(Scores, a, b)
<1>1. \A a, b \in Combatant : ~B(a, a) /\ (a # b => B(a, b) \/ B(b, a)) /\ ~(B(a, b) /\ B(b, a))
  BY <1>0, BeforeIsStrict
<1>2. \A a, b, c \in Combatant : B(a, b) /\ B(b, c) => B(a, c)
  BY <1>0, BeforeIsTransitive
<1>3. \A a, b, c : GoesBy(a, b, c) = IF B(a, c) THEN B(a, b) /\ B(b, c) ELSE B(a, b) \/ B(b, c)
  BY DEF GoesBy
<1> HIDE DEF B
<1>4. ~ GoesBy(x, x, d) /\ ~ GoesBy(x, d, d)
  BY <1>1, <1>3
<1>5. GoesBy(x, e, y) => GoesBy(x, e, d) \/ e = d \/ GoesBy(d, e, y)
  BY <1>1, <1>2, <1>3
<1>6. d # x /\ d # y /\ ~ GoesBy(x, d, y) => GoesBy(x, y, d)
  BY <1>1, <1>2, <1>3
<1>7. GoesBy(x, y, d) /\ GoesBy(y, e, d) => GoesBy(x, e, d)
  BY <1>1, <1>2, <1>3
<1> QED
  BY <1>4, <1>5, <1>6, <1>7

-----------------------------------------------------------------------------
(* What a save or a blow does to a life: it wears, and is worse for it.    *)

Worse(l, m) ==
  /\ m.down = l.down /\ m.made >= l.made /\ m.failed >= l.failed
  /\ m.made > l.made \/ m.failed > l.failed

Worn(l, m) == m = l \/ Worse(l, m)

LEMMA WorseAndWorse ==
  ASSUME NEW l \in Life, NEW m \in Life, NEW n \in Life
  PROVE  /\ Worse(l, m) /\ Worn(m, n) => Worse(l, n)
         /\ Worn(l, m) /\ Worse(m, n) => Worse(l, n)
         /\ Worn(l, m) /\ Worn(m, n) => Worn(l, n)
         /\ Worse(l, m) => m # l /\ m.down = l.down
         /\ Worn(l, m) => m.down = l.down
BY DEF Worse, Worn, Life

LEMMA CountedCounts ==
  ASSUME NEW n \in Nat, NEW k \in 1 .. 2
  PROVE  Counted(n + k) \in Nat /\ (n < SavesNeeded => Counted(n + k) > n)
<1>1. SavesNeeded \in Nat
  BY RefereeAssumption
<1> QED
  BY <1>1 DEF Counted

(* How one life of a table comes to be another.                            *)
LEMMA AnotherLife ==
  ASSUME NEW t \in Tables, NEW c \in Combatant, NEW l \in Life
  PROVE  LET u == [t EXCEPT !.life[c] = l] IN
         /\ u \in Tables /\ u.life[c] = l
         /\ u.begun = t.begun /\ u.turn = t.turn
         /\ u.waiting = t.waiting /\ u.owed = t.owed
         /\ \A d \in Combatant : d # c => u.life[d] = t.life[d]
BY DEF Tables

LEMMA SaveWears ==
  ASSUME NEW t \in Tables, NEW c \in Combatant, NEW r \in Unrevived(t, c)
  PROVE  /\ r \in Tables /\ r.begun = t.begun /\ r.turn = t.turn
         /\ r.waiting = t.waiting /\ r.owed = t.owed
         /\ \A d \in Combatant : d # c => r.life[d] = t.life[d]
         /\ Dying(t, c) => Worse(t.life[c], r.life[c])
<1> DEFINE l == t.life[c]
<1>1. /\ l \in Life /\ l.made \in Nat /\ l.failed \in Nat
      /\ Dying(t, c) => l.made < SavesNeeded /\ l.failed < SavesNeeded
  BY DEF Tables, Life, Dying
<1>2. PICK m : /\ r = [t EXCEPT !.life[c] = m] /\ m \in Life /\ (Dying(t, c) => Worse(l, m))
  <2>1. CASE r = [t EXCEPT !.life[c].made = Counted(@ + 1)]
    <3> DEFINE m == [l EXCEPT !.made = Counted(@ + 1)]
    <3>1. Counted(l.made + 1) \in Nat /\ (l.made < SavesNeeded => Counted(l.made + 1) > l.made)
      BY <1>1, CountedCounts
    <3>2. m \in Life /\ m.down = l.down /\ m.failed = l.failed /\ m.made = Counted(l.made + 1)
      BY <1>1, <3>1 DEF Life
    <3>3. Dying(t, c) => Worse(l, m)
      BY <1>1, <3>1, <3>2 DEF Worse
    <3>4. r = [t EXCEPT !.life[c] = m]
      BY <2>1 DEF Tables
    <3> QED
      BY <3>2, <3>3, <3>4
  <2>2. ASSUME NEW n \in {1, 2}, r = [t EXCEPT !.life[c].failed = Counted(@ + n)]
        PROVE  \E m : r = [t EXCEPT !.life[c] = m] /\ m \in Life /\ (Dying(t, c) => Worse(l, m))
    <3> DEFINE m == [l EXCEPT !.failed = Counted(@ + n)]
    <3>0. n \in 1 .. 2
      OBVIOUS
    <3>1. Counted(l.failed + n) \in Nat /\ (l.failed < SavesNeeded => Counted(l.failed + n) > l.failed)
      BY <1>1, <3>0, CountedCounts
    <3>2. m \in Life /\ m.down = l.down /\ m.made = l.made /\ m.failed = Counted(l.failed + n)
      BY <1>1, <3>1 DEF Life
    <3>3. Dying(t, c) => Worse(l, m)
      BY <1>1, <3>1, <3>2 DEF Worse
    <3>4. r = [t EXCEPT !.life[c] = m]
      BY <2>2 DEF Tables
    <3> QED
      BY <3>2, <3>3, <3>4
  <2> QED
    BY <2>1, <2>2 DEF Unrevived
<1> HIDE DEF l
<1>3. /\ r \in Tables /\ r.life[c] = m /\ r.begun = t.begun /\ r.turn = t.turn
      /\ r.waiting = t.waiting /\ r.owed = t.owed
      /\ \A d \in Combatant : d # c => r.life[d] = t.life[d]
  BY <1>2, AnotherLife
<1> QED
  BY <1>2, <1>3 DEF l

LEMMA SaveRaises ==
  ASSUME NEW t \in Tables, NEW c \in Combatant
  PROVE  LET r == Revived(t, c) IN
         /\ r \in Tables /\ r.begun = t.begun /\ r.turn = t.turn
         /\ r.waiting = t.waiting /\ r.owed = t.owed /\ r.life[c] = Up
         /\ \A d \in Combatant : d # c => r.life[d] = t.life[d]
<1>1. Up \in Life
  BY DEF Up, Life
<1> QED
  BY <1>1, AnotherLife DEF Revived

LEMMA AskingAsks ==
  ASSUME NEW t \in Tables, NEW c \in Combatant
  PROVE  LET r == Asked(t, c) IN
         /\ r \in Tables /\ r.begun = t.begun /\ r.turn = t.turn
         /\ r.waiting = c /\ r.owed = c /\ r.life = t.life
BY DEF Asked, Tables

-----------------------------------------------------------------------------
(* One pass of the loop, and then the loop.                                *)

LEMMA AdvanceAdvances ==
  ASSUME NEW t \in Tables
  PROVE  LET a == Advanced(t) IN
         /\ a \in Tables /\ a.begun /\ a.life = t.life
         /\ a.waiting = t.waiting /\ a.owed = t.owed
         /\ ~t.begun => a = BeginTable(t) /\ a.turn \in Combatant
         /\ t.begun /\ a.turn \in Combatant =>
              /\ a.turn \notin Resting(t)
              /\ t.turn \in Combatant =>
                   \A e \in Combatant : GoesBy(t.turn, e, a.turn) => e \in Resting(t)
<1>0. Scores \in [Combatant -> Score] /\ Combatant # {} /\ NoOne \notin Combatant
  BY RefereeAssumption, CombatantAssumption
<1> DEFINE standing == Combatant \ Resting(t)
           next == IF standing = {} THEN NoOne
                   ELSE IF t.turn = NoOne THEN First(Scores, standing)
                   ELSE NextUp(Scores, standing, t.turn)
           a == Advanced(t)
<1>1. standing \in SUBSET Combatant /\ t.turn \in Combatant \cup {NoOne} /\ t.begun \in BOOLEAN
  BY DEF Tables
<1>2. CASE ~t.begun
  <2>1. a = BeginTable(t)
    BY <1>2 DEF Advanced
  <2>2. First(Scores, Combatant) \in Combatant
    BY <1>0, FirstIsFirst
  <2>3. /\ BeginTable(t) \in Tables /\ BeginTable(t).begun
        /\ BeginTable(t).life = t.life /\ BeginTable(t).turn = First(Scores, Combatant)
        /\ BeginTable(t).waiting = t.waiting /\ BeginTable(t).owed = t.owed
    BY <2>2 DEF BeginTable, Tables
  <2> QED
    BY <1>2, <2>1, <2>2, <2>3
<1>3. CASE t.begun
  <2>1. a = [t EXCEPT !.turn = next]
    BY <1>3 DEF Advanced
  <2>2. CASE standing = {}
    <3>1. next = NoOne
      BY <2>2
    <3>2. a \in Tables /\ a.begun /\ a.life = t.life /\ a.waiting = t.waiting /\ a.owed = t.owed /\ a.turn = NoOne
      BY <1>3, <2>1, <3>1 DEF Tables
    <3> QED
      BY <1>0, <1>3, <3>2
  <2>3. CASE standing # {} /\ t.turn = NoOne
    <3>1. next \in standing
      <4> HIDE DEF standing
      <4>1. next = First(Scores, standing)
        BY <2>3
      <4> QED
        BY <1>0, <1>1, <2>3, <4>1, FirstIsFirst
    <3> HIDE DEF next
    <3>2. a \in Tables /\ a.begun /\ a.life = t.life /\ a.waiting = t.waiting /\ a.owed = t.owed /\ a.turn = next
      BY <1>3, <2>1, <3>1 DEF Tables
    <3> QED
      BY <1>0, <1>3, <2>3, <3>1, <3>2
  <2>4. CASE standing # {} /\ t.turn # NoOne
    <3>1. t.turn \in Combatant
      BY <1>1, <2>4
    <3>2. /\ next \in standing
          /\ \A e \in Combatant : GoesBy(t.turn, e, next) => e \notin standing
      <4> DEFINE c == t.turn
                 d == NextUp(Scores, standing, c)
      <4> HIDE DEF standing
      <4>0. next = d
        BY <2>4
      <4>1. /\ d \in standing
            /\ ~ Wraps(Scores, standing, c) =>
                 /\ Before(Scores, c, d)
                 /\ \A e \in standing \ {d} : Before(Scores, c, e) => Before(Scores, d, e)
            /\ Wraps(Scores, standing, c) =>
                 /\ \A e \in standing : ~ Before(Scores, c, e)
                 /\ \A e \in standing \ {d} : Before(Scores, d, e)
        BY <1>0, <1>1, <2>4, <3>1, NextUpIsNext
      <4> HIDE DEF d, next, c
      <4>2. ASSUME NEW e \in standing, GoesBy(c, e, d) PROVE FALSE
        <5>1. e \in Combatant /\ d \in Combatant
          BY <1>1, <4>1
        <5>2. /\ ~Before(Scores, d, d)
              /\ ~(Before(Scores, e, d) /\ Before(Scores, d, e))
          BY <1>0, <5>1, BeforeIsStrict
        <5>3. IF Before(Scores, c, d) THEN Before(Scores, c, e) /\ Before(Scores, e, d)
                                      ELSE Before(Scores, c, e) \/ Before(Scores, e, d)
          BY <4>2 DEF GoesBy
        <5> QED
          BY <4>1, <5>2, <5>3
      <4> QED
        BY <4>0, <4>1, <4>2 DEF c
    <3> HIDE DEF next
    <3>3. a \in Tables /\ a.begun /\ a.life = t.life /\ a.waiting = t.waiting /\ a.owed = t.owed /\ a.turn = next
      BY <1>3, <2>1, <3>2 DEF Tables
    <3> QED
      BY <1>3, <3>2, <3>3
  <2> QED
    BY <2>2, <2>3, <2>4
<1> QED
  BY <1>1, <1>2, <1>3

Steps == [at : Tables, going : BOOLEAN]

OnePass(t, w) ==
  LET u == w.at
      x == w.at.turn
  IN /\ w \in Steps
     /\ u.begun /\ x = Advanced(t).turn
     /\ \A c \in Combatant : c # x => u.life[c] = t.life[c]
     /\ w.going => x \in Combatant /\ Dying(t, x) /\ Worse(t.life[x], u.life[x])
     /\ ~w.going /\ x \in Combatant =>
          \/ ~Dying(u, x) /\ u = Advanced(t) /\ u.life = t.life
          \/ u.owed = x /\ u.waiting = x /\ u.life = t.life
          \/ Dying(t, x) /\ u.life[x] = Up

LEMMA PassedIsOnePass ==
  ASSUME NEW t \in Tables, NEW w \in Passed(t)
  PROVE  OnePass(t, w)
<1> DEFINE a == Advanced(t)
           x == a.turn
<1>1. a \in Tables /\ a.begun /\ a.life = t.life
  BY AdvanceAdvances
<1>2. x \in Combatant \cup {NoOne} /\ \A c : Dying(a, c) = Dying(t, c)
  BY <1>1 DEF Tables, Dying
<1>3. w \in (IF x = NoOne \/ ~Dying(a, x) THEN {Halts(a)}
             ELSE IF CanBeAsked(x) THEN {Halts(Asked(a, x))}
             ELSE {Halts(Revived(a, x))} \cup {GoesOn(r) : r \in Unrevived(a, x)})
  BY DEF Passed
<1>4. CASE w = Halts(a) /\ (x = NoOne \/ ~Dying(a, x))
  <2>1. w.at = a /\ w.going = FALSE
    BY <1>4 DEF Halts
  <2>9. w \in Steps
    BY <2>1, <1>1, <1>4 DEF Steps, Halts, GoesOn, Tables
  <2> HIDE DEF a
  <2> QED
    BY <2>9, <1>1, <1>2, <1>4, <2>1, CombatantAssumption DEF OnePass, a
<1>5. CASE x \in Combatant /\ w = Halts(Asked(a, x))
  <2>1. w.at = Asked(a, x) /\ w.going = FALSE
    BY <1>5 DEF Halts
  <2>2. LET r == w.at IN
        r \in Tables /\ r.begun = a.begun /\ r.turn = x /\ r.waiting = x /\ r.owed = x /\ r.life = t.life
    <3>1. LET r == Asked(a, x) IN
          r \in Tables /\ r.begun = a.begun /\ r.turn = a.turn /\ r.waiting = x /\ r.owed = x /\ r.life = a.life
      <4> HIDE DEF a, x
      <4> QED
        BY <1>1, <1>5, AskingAsks
    <3> QED
      BY <1>1, <2>1, <3>1
  <2>9. w \in Steps
    BY <2>1, <2>2, <1>5 DEF Steps, Halts, GoesOn, Tables
  <2> HIDE DEF a
  <2> QED
    BY <2>9, <1>1, <2>1, <2>2 DEF OnePass, a
<1>6. CASE x \in Combatant /\ Dying(a, x) /\ w = Halts(Revived(a, x))
  <2>1. w.at = Revived(a, x) /\ w.going = FALSE
    BY <1>6 DEF Halts
  <2>2. LET r == w.at IN
        /\ r \in Tables /\ r.begun = a.begun /\ r.turn = x /\ r.life[x] = Up
        /\ \A d \in Combatant : d # x => r.life[d] = t.life[d]
    <3>1. LET r == Revived(a, x) IN
          /\ r \in Tables /\ r.begun = a.begun /\ r.turn = a.turn /\ r.life[x] = Up
          /\ \A d \in Combatant : d # x => r.life[d] = a.life[d]
      <4> HIDE DEF a, x
      <4> QED
        BY <1>1, <1>6, SaveRaises
    <3> QED
      BY <1>1, <2>1, <3>1
  <2>3. Dying(t, x)
    BY <1>2, <1>6
  <2>9. w \in Steps
    BY <2>1, <2>2, <1>6 DEF Steps, Halts, GoesOn, Tables
  <2> HIDE DEF a
  <2> QED
    BY <2>9, <1>1, <1>6, <2>1, <2>2, <2>3 DEF OnePass, a
<1>7. CASE x \in Combatant /\ Dying(a, x) /\ \E r \in Unrevived(a, x) : w = GoesOn(r)
  <2>0. PICK r \in Unrevived(a, x) : w = GoesOn(r)
    BY <1>7
  <2>1. w.at = r /\ w.going = TRUE
    BY <2>0 DEF GoesOn
  <2>2. /\ r \in Tables /\ r.begun = a.begun /\ r.turn = x
        /\ \A d \in Combatant : d # x => r.life[d] = t.life[d]
        /\ Worse(t.life[x], r.life[x])
    <3>1. /\ r \in Tables /\ r.begun = a.begun /\ r.turn = x
          /\ \A d \in Combatant : d # x => r.life[d] = a.life[d]
          /\ Worse(a.life[x], r.life[x])
      <4> HIDE DEF a
      <4> QED
        BY <1>1, <1>7, SaveWears DEF a
    <3> QED
      BY <1>1, <3>1
  <2>3. Dying(t, x)
    BY <1>2, <1>7
  <2>9. w \in Steps
    BY <2>1, <2>2, <2>0 DEF Steps, Halts, GoesOn, Tables
  <2> HIDE DEF a
  <2> QED
    BY <2>9, <1>1, <1>7, <2>1, <2>2, <2>3 DEF OnePass, a
<1> HIDE DEF a, x
<1> QED
  BY <1>2, <1>3, <1>4, <1>5, <1>6, <1>7

(* The loop is computed pass by pass.                                      *)
OnePassMore(W) == UNION {IF w.going THEN Passed(w.at) ELSE {w} : w \in W}

TableSize == Cardinality(Combatant)

LEMMA TableIsFinite == TableSize \in Nat /\ TableSize + 1 \in Nat
BY RefereeAssumption, FS_CardinalityType DEF TableSize

LEMMA PassesAreComputed ==
  ASSUME NEW t \in Tables
  PROVE  /\ Passes(t)[0] = {GoesOn(t)}
         /\ \A k \in 1 .. TableSize + 1 : Passes(t)[k] = OnePassMore(Passes(t)[k - 1])
<1> DEFINE n == TableSize + 1
           V == SUBSET Steps
           first == {GoesOn(t)}
           step == [k \in 1 .. n |-> [W \in V |-> OnePassMore(W)]]
<1>0. n \in Nat
  BY TableIsFinite
<1>1. ASSUME NEW W \in V PROVE OnePassMore(W) \in V
  <2>1. ASSUME NEW w \in W, w.going, NEW v \in Passed(w.at) PROVE v \in Steps
    <3>1. w.at \in Tables
      BY DEF Steps
    <3> QED
      BY <2>1, <3>1, PassedIsOnePass DEF OnePass
  <2> QED
    BY <2>1 DEF OnePassMore
<1>2. \A k \in 1 .. n, W \in V : step[k][W] = OnePassMore(W)
  OBVIOUS
<1>3. \A k \in 1 .. n, W \in V : step[k][W] \in V
  BY <1>1, <1>2
<1>4. first \in V
  BY DEF GoesOn, Steps
<1> HIDE DEF step, V, first, n
<1>5. PICK f \in [0 .. n -> V] :
        f[0] = first /\ \A k \in 1 .. n : f[k] = step[k][f[k - 1]]
  <2>1. StaysIn(V, n, step)
    BY <1>3 DEF StaysIn
  <2> QED
    BY <1>0, <1>4, <2>1, StepByStep DEF Computed
<1>6. \A k \in 1 .. n : f[k] = OnePassMore(f[k - 1])
  <2>1. \A k \in 1 .. n : k - 1 \in 0 .. n
    BY <1>0
  <2> QED
    BY <1>2, <1>5, <2>1
<1> DEFINE F(r) == [k \in 0 .. n |-> IF k = 0 THEN {GoesOn(t)} ELSE OnePassMore(r[k - 1])]
<1>7. f = F(f)
  <2>1. \A k \in 0 .. n : k = 0 \/ k \in 1 .. n
    BY <1>0
  <2> QED
    BY <1>5, <1>6, <2>1 DEF first
<1> DEFINE r == Passes(t)
<1>8. r = CHOOSE x : x = F(x)
  BY DEF Passes, OnePassMore, n, TableSize
<1>9. r = F(r)
  <2> HIDE DEF F, r
  <2> QED
    BY <1>7, <1>8
<1> HIDE DEF r
<1> DEFINE rest == [k \in 0 .. n |-> OnePassMore(r[k - 1])]
<1>10. r = [k \in 0 .. n |-> IF k = 0 THEN {GoesOn(t)} ELSE rest[k]]
  BY <1>9
<1>11. \A k \in 0 .. n : rest[k] = OnePassMore(r[k - 1])
  OBVIOUS
<1> HIDE DEF rest, F
<1>12. \A k \in 0 .. n : r[k] = IF k = 0 THEN {GoesOn(t)} ELSE rest[k]
  BY <1>10
<1>13. 0 \in 0 .. n /\ \A k \in 1 .. n : k \in 0 .. n /\ k # 0
  BY <1>0
<1> QED
  BY <1>11, <1>12, <1>13 DEF r, n

(* So what holds of the table the loop is given, and is kept by a pass of  *)
(* it, holds of the table it leaves behind.                                *)
LEMMA WalkInduction ==
  ASSUME NEW t \in Tables, NEW S,
         GoesOn(t) \in S[0],
         \A k \in 1 .. TableSize + 1 : \A v \in S[k - 1] :
           IF v.going THEN \A w \in Passed(v.at) : w \in S[k] ELSE v \in S[k]
  PROVE  \A u \in Walk(t) : \E w \in S[TableSize + 1] : u = w.at
<1> DEFINE n == TableSize + 1
           T == {k \in 0 .. n : \A w \in Passes(t)[k] : w \in S[k]}
<1>0. n \in Nat
  BY TableIsFinite
<1>1. 0 \in T
  BY <1>0, PassesAreComputed
<1>2. ASSUME NEW k \in 1 .. n, k - 1 \in T PROVE k \in T
  <2>1. ASSUME NEW w \in Passes(t)[k] PROVE w \in S[k]
    <3>1. Passes(t)[k] = OnePassMore(Passes(t)[k - 1])
      BY PassesAreComputed
    <3>2. PICK v \in Passes(t)[k - 1] : w \in (IF v.going THEN Passed(v.at) ELSE {v})
      BY <2>1, <3>1 DEF OnePassMore
    <3>3. v \in S[k - 1]
      BY <1>2
    <3> QED
      BY <3>2, <3>3
  <2>2. k \in 0 .. n
    BY <1>0
  <2> QED
    BY <2>1, <2>2
<1>3. \A k \in 0 .. n : k \in T
  <2> HIDE DEF T, n
  <2> QED
    BY <1>0, <1>1, <1>2, StepInduction
<1>4. n \in T
  BY <1>0, <1>3
<1> QED
  BY <1>4 DEF Walk, TableSize

-----------------------------------------------------------------------------
(* What a walk leaves behind, seen from the table it set out from.         *)

OnlyDying(t, u) ==
  \A c \in Combatant : t.life[c].down /\ u.life[c] # t.life[c] => Dying(t, c)

NobodySteppedOver(t, u) ==
  t.begun /\ t.turn \in Combatant /\ u.turn \in Combatant =>
    \A e \in Combatant :
      GoesBy(t.turn, e, u.turn) /\ Dying(t, e) => Worse(t.life[e], u.life[e])

Between(x, d) == {e \in Combatant : GoesBy(x, e, d)}

(* While the loop goes on everybody's life has only worn, and that of      *)
(* whoever the turn is at has, by their save; and the turn has come nearer *)
(* to anybody on their feet by as many as there were passes.               *)
OnTheWay(t, k, u) ==
  /\ \A c \in Combatant : Worn(t.life[c], u.life[c])
  /\ k = 0 => u = t
  /\ k >= 1 =>
       /\ u.begun /\ u.turn \in Combatant /\ t.life[u.turn].down
       /\ Worse(t.life[u.turn], u.life[u.turn])
       /\ NobodySteppedOver(t, u)
       /\ \A d \in Combatant :
            ~t.life[d].down => Cardinality(Between(u.turn, d)) + k <= TableSize

(* It halts on nobody, on somebody asked or raised or awake, or on the top *)
(* of the order in a fight that had not begun.                             *)
HaltsOn(t, u, x) ==
  \/ u.owed = x /\ u.waiting = x /\ Worn(t.life[x], u.life[x])
  \/ t.life[x].down /\ u.life[x] = Up
  \/ ~u.life[x].down /\ Worn(t.life[x], u.life[x])
  \/ ~t.begun /\ u = BeginTable(t) /\ ~Dying(u, x)

HasHalted(t, u) ==
  /\ u.begun
  /\ \A c \in Combatant : c # u.turn => Worn(t.life[c], u.life[c])
  /\ u.turn \in Combatant => HaltsOn(t, u, u.turn)
  /\ NobodySteppedOver(t, u)

Ways(t, k, w) ==
  /\ OnlyDying(t, w.at)
  /\ w.going => OnTheWay(t, k, w.at)
  /\ ~w.going => HasHalted(t, w.at)

LEMMA LivesAreLives ==
  ASSUME NEW t \in Tables, NEW c \in Combatant
  PROVE  t.life[c] \in Life
BY DEF Tables

LEMMA SameLifeSameDying ==
  ASSUME NEW t, NEW u, NEW c, u.life[c] = t.life[c]
  PROVE  Dying(u, c) <=> Dying(t, c)
BY DEF Dying

(* The rest by passes: nobody but the dying have rolled ...                *)
LEMMA OnePassOnlyDying ==
  ASSUME NEW t \in Tables, NEW p \in Tables, NEW w \in Steps,
         OnlyDying(t, p), OnePass(p, w)
  PROVE  OnlyDying(t, w.at)
<1> SUFFICES ASSUME NEW c \in Combatant, t.life[c].down, w.at.life[c] # t.life[c]
             PROVE  Dying(t, c)
  BY DEF OnlyDying
<1>1. CASE p.life[c] # t.life[c]
  BY <1>1 DEF OnlyDying
<1>2. CASE p.life[c] = t.life[c]
  <2>1. w.at.life[c] # p.life[c]
    BY <1>2
  <2>2. c = w.at.turn /\ w.going \in BOOLEAN
    BY <2>1 DEF OnePass, Steps
  <2>3. Dying(p, c)
    BY <2>1, <2>2 DEF OnePass
  <2> QED
    BY <1>2, <2>3, SameLifeSameDying
<1> QED
  BY <1>1, <1>2

(* ... and nobody dying has been stepped over.                             *)
LEMMA OnePassStepsOverNobody ==
  ASSUME NEW t \in Tables, NEW p \in Tables, NEW w \in Steps, NEW k \in Nat,
         OnTheWay(t, k, p), OnePass(p, w)
  PROVE  NobodySteppedOver(t, w.at)
<1> DEFINE x == w.at.turn
<1> SUFFICES ASSUME t.begun, t.turn \in Combatant, x \in Combatant,
                    NEW e \in Combatant, GoesBy(t.turn, e, x), Dying(t, e)
             PROVE  Worse(t.life[e], w.at.life[e])
  BY DEF NobodySteppedOver
<1>1. x = Advanced(p).turn /\ w.at.life[e] = p.life[e]
  <2>1. e # x
    BY GoingRound
  <2> QED
    BY <2>1 DEF OnePass
<1>2. CASE e \in Resting(p)
  <2>1. ~Dying(p, e)
    BY <1>2 DEF Resting
  <2>2. p.life[e] # t.life[e]
    BY <2>1, SameLifeSameDying
  <2> QED
    BY <1>1, <2>2 DEF OnTheWay, Worn
<1>3. CASE k = 0
  <2>1. p = t
    BY <1>3 DEF OnTheWay
  <2> QED
    BY <1>1, <1>2, <2>1, AdvanceAdvances
<1>4. CASE k >= 1
  <2>1. /\ p.begun /\ p.turn \in Combatant /\ Worse(t.life[p.turn], p.life[p.turn])
        /\ GoesBy(t.turn, e, p.turn) => Worse(t.life[e], p.life[e])
    BY <1>4 DEF OnTheWay, NobodySteppedOver
  <2>2. GoesBy(t.turn, e, p.turn) \/ e = p.turn \/ GoesBy(p.turn, e, x)
    BY <2>1, GoingRound
  <2>3. CASE GoesBy(p.turn, e, x)
    <3>1. e \in Resting(p)
      BY <1>1, <2>1, <2>3, AdvanceAdvances
    <3> QED
      BY <1>2, <3>1
  <2> QED
    BY <1>1, <2>1, <2>2, <2>3
<1> QED
  BY <1>3, <1>4

LEMMA OnePassComesNearer ==
  ASSUME NEW t \in Tables, NEW p \in Tables, NEW w \in Steps, NEW k \in Nat,
         OnTheWay(t, k, p), OnePass(p, w), w.going,
         NEW d \in Combatant, ~t.life[d].down
  PROVE  Cardinality(Between(w.at.turn, d)) + (k + 1) <= TableSize
<1> DEFINE x == w.at.turn
<1>1. x \in Combatant /\ x = Advanced(p).turn /\ p.life[x].down
  BY DEF OnePass, Dying
<1>2. ~p.life[d].down
  BY LivesAreLives, WorseAndWorse DEF OnTheWay
<1>3. x # d
  BY <1>1, <1>2
<1>4. IsFiniteSet(Combatant) /\ TableSize \in Nat
  BY RefereeAssumption, TableIsFinite
<1>5. ASSUME NEW S \in SUBSET Combatant, x \in S, Between(x, d) \subseteq S \ {x}
      PROVE  /\ Cardinality(Between(x, d)) \in Nat /\ Cardinality(S) \in Nat
             /\ Cardinality(Between(x, d)) + 1 <= Cardinality(S)
  <2>1. IsFiniteSet(S)
    BY <1>4, FS_Subset
  <2>2. /\ IsFiniteSet(Between(x, d)) /\ IsFiniteSet(S \ {x})
        /\ Cardinality(S \ {x}) = Cardinality(S) - 1
        /\ Cardinality(Between(x, d)) <= Cardinality(S \ {x})
    BY <1>5, <2>1, FS_Subset, FS_RemoveElement
  <2> QED
    BY <2>1, <2>2, FS_CardinalityType
<1>6. CASE k = 0
  <2>1. Between(x, d) \subseteq Combatant \ {x}
    BY <1>1, GoingRound DEF Between
  <2>2. /\ Cardinality(Between(x, d)) \in Nat
        /\ Cardinality(Between(x, d)) + 1 <= Cardinality(Combatant)
    BY <1>1, <1>5, <2>1
  <2> QED
    BY <1>6, <2>2 DEF TableSize
<1>7. CASE k >= 1
  <2> DEFINE y == p.turn
  <2>1. /\ y \in Combatant /\ p.begun /\ t.life[y].down
        /\ Cardinality(Between(y, d)) + k <= TableSize
    BY <1>7 DEF OnTheWay
  <2>2. ~GoesBy(y, d, x)
    BY <1>1, <1>2, <2>1, AdvanceAdvances DEF Resting
  <2>3. GoesBy(y, x, d)
    BY <1>1, <1>3, <2>1, <2>2, GoingRound
  <2>4. x \in Between(y, d) /\ Between(x, d) \subseteq Between(y, d) \ {x}
    BY <1>1, <2>1, <2>3, GoingRound DEF Between
  <2>5. Between(y, d) \in SUBSET Combatant
    BY DEF Between
  <2>6. /\ Cardinality(Between(x, d)) \in Nat /\ Cardinality(Between(y, d)) \in Nat
        /\ Cardinality(Between(x, d)) + 1 <= Cardinality(Between(y, d))
    BY <1>5, <2>4, <2>5
  <2> HIDE DEF y
  <2> QED
    BY <1>4, <2>1, <2>6
<1> QED
  BY <1>6, <1>7

LEMMA OnePassOnTheWay ==
  ASSUME NEW t \in Tables, NEW p \in Tables, NEW w \in Steps, NEW k \in Nat,
         OnTheWay(t, k, p), OnePass(p, w), w.going
  PROVE  OnTheWay(t, k + 1, w.at)
<1> DEFINE x == w.at.turn
<1>1. /\ w.at \in Tables /\ w.at.begun /\ x \in Combatant /\ Dying(p, x)
      /\ Worse(p.life[x], w.at.life[x])
      /\ \A c \in Combatant : c # x => w.at.life[c] = p.life[c]
  BY DEF OnePass, Steps
<1>2. \A c \in Combatant : Worn(t.life[c], p.life[c])
  BY DEF OnTheWay
<1>3. Worse(t.life[x], w.at.life[x]) /\ t.life[x].down
  BY <1>1, <1>2, LivesAreLives, WorseAndWorse DEF Dying
<1>4. \A c \in Combatant : Worn(t.life[c], w.at.life[c])
  BY <1>1, <1>2, <1>3 DEF Worn
<1>5. NobodySteppedOver(t, w.at)
  BY OnePassStepsOverNobody
<1>6. \A d \in Combatant : ~t.life[d].down => Cardinality(Between(x, d)) + (k + 1) <= TableSize
  BY OnePassComesNearer
<1>7. k + 1 # 0
  OBVIOUS
<1> QED
  BY <1>1, <1>3, <1>4, <1>5, <1>6, <1>7 DEF OnTheWay

LEMMA OnePassHalts ==
  ASSUME NEW t \in Tables, NEW p \in Tables, NEW w \in Steps, NEW k \in Nat,
         OnTheWay(t, k, p), OnePass(p, w), ~w.going
  PROVE  HasHalted(t, w.at)
<1> DEFINE u == w.at
           x == u.turn
<1>1. /\ u \in Tables /\ u.begun /\ x = Advanced(p).turn
      /\ \A c \in Combatant : c # x => u.life[c] = p.life[c]
  BY DEF OnePass, Steps
<1>2. \A c \in Combatant : Worn(t.life[c], p.life[c])
  BY DEF OnTheWay
<1>3. NobodySteppedOver(t, u)
  BY OnePassStepsOverNobody
<1>4. ASSUME x \in Combatant PROVE HaltsOn(t, u, x)
  <2>1. CASE ~Dying(u, x) /\ u = Advanced(p) /\ u.life = p.life
    <3>1. CASE p.begun
      <4>1. x \notin Resting(p) /\ ~Dying(p, x)
        BY <1>1, <1>4, <2>1, <3>1, AdvanceAdvances, SameLifeSameDying
      <4>2. ~u.life[x].down
        BY <1>4, <2>1, <4>1 DEF Resting
      <4> QED
        BY <1>2, <1>4, <2>1, <4>2 DEF HaltsOn
    <3>2. CASE ~p.begun
      <4>1. k = 0 /\ p = t
        BY <3>2 DEF OnTheWay
      <4>2. u = BeginTable(t)
        BY <2>1, <3>2, <4>1, AdvanceAdvances
      <4> QED
        BY <2>1, <3>2, <4>1, <4>2 DEF HaltsOn
    <3> QED
      BY <3>1, <3>2
  <2>2. CASE u.owed = x /\ u.waiting = x /\ u.life = p.life
    BY <1>2, <1>4, <2>2 DEF HaltsOn
  <2>3. CASE Dying(p, x) /\ u.life[x] = Up
    <3>1. t.life[x].down
      BY <1>2, <1>4, <2>3, LivesAreLives, WorseAndWorse DEF Dying
    <3> QED
      BY <2>3, <3>1 DEF HaltsOn
  <2> QED
    BY <1>4, <2>1, <2>2, <2>3 DEF OnePass
<1>5. \A c \in Combatant : c # x => Worn(t.life[c], u.life[c])
  BY <1>1, <1>2
<1> HIDE DEF u
<1> QED
  BY <1>1, <1>3, <1>4, <1>5 DEF HasHalted, u

(* What a walk comes to.  It gives up on somebody with their save rolled   *)
(* only where nobody is on their feet.                                     *)
WalkEnds(t, u) ==
  /\ u \in Tables
  /\ OnlyDying(t, u)
  /\ \/ HasHalted(t, u)
     \/ /\ u.begun /\ u.turn \in Combatant
        /\ \A c \in Combatant : Worn(t.life[c], u.life[c]) /\ t.life[c].down
        /\ Worse(t.life[u.turn], u.life[u.turn])
        /\ NobodySteppedOver(t, u)

LEMMA WalksEnd ==
  ASSUME NEW t \in Tables, NEW u \in Walk(t)
  PROVE  WalkEnds(t, u)
<1> DEFINE n == TableSize + 1
           S == [k \in 0 .. n |-> {w \in Steps : Ways(t, k, w)}]
<1>0. n \in Nat /\ TableSize \in Nat
  BY TableIsFinite
<1>1. GoesOn(t) \in S[0]
  <2> DEFINE w == GoesOn(t)
  <2>1. w \in Steps /\ w.at = t /\ w.going = TRUE
    BY DEF GoesOn, Steps
  <2>2. OnlyDying(t, t) /\ OnTheWay(t, 0, t)
    BY DEF OnlyDying, OnTheWay, Worn
  <2> HIDE DEF w
  <2>3. Ways(t, 0, w)
    BY <2>1, <2>2 DEF Ways
  <2> QED
    BY <1>0, <2>1, <2>3 DEF w
<1>2. ASSUME NEW k \in 1 .. n, NEW v \in S[k - 1]
      PROVE  IF v.going THEN \A w \in Passed(v.at) : w \in S[k] ELSE v \in S[k]
  <2>1. k \in 0 .. n /\ k - 1 \in 0 .. n /\ k - 1 \in Nat /\ (k - 1) + 1 = k
    BY <1>0
  <2>2. v \in Steps /\ Ways(t, k - 1, v) /\ v.at \in Tables /\ v.going \in BOOLEAN
    BY <2>1 DEF Steps
  <2>3. ASSUME v.going, NEW w \in Passed(v.at) PROVE w \in S[k]
    <3>1. OnePass(v.at, w) /\ w \in Steps
      BY <2>2, PassedIsOnePass DEF OnePass
    <3>2. OnlyDying(t, v.at) /\ OnTheWay(t, k - 1, v.at)
      BY <2>2, <2>3 DEF Ways
    <3>3. OnlyDying(t, w.at)
      BY <2>2, <3>1, <3>2, OnePassOnlyDying
    <3>4. ASSUME w.going PROVE OnTheWay(t, k, w.at)
      BY <2>1, <2>2, <3>1, <3>2, <3>4, OnePassOnTheWay
    <3>5. ASSUME ~w.going PROVE HasHalted(t, w.at)
      BY <2>1, <2>2, <3>1, <3>2, <3>5, OnePassHalts
    <3>6. Ways(t, k, w)
      BY <3>3, <3>4, <3>5 DEF Ways
    <3> QED
      BY <2>1, <3>1, <3>6
  <2>4. ASSUME ~v.going PROVE v \in S[k]
    <3>1. Ways(t, k, v)
      BY <2>2, <2>4 DEF Ways
    <3> QED
      BY <2>1, <2>2, <3>1
  <2> QED
    BY <2>3, <2>4
<1>3. PICK w \in S[n] : u = w.at
  <2> HIDE DEF S
  <2> QED
    BY <1>1, <1>2, WalkInduction
<1>4. w \in Steps /\ Ways(t, n, w) /\ w.at \in Tables /\ w.going \in BOOLEAN
  BY <1>0, <1>3 DEF Steps
<1>5. CASE ~w.going
  BY <1>3, <1>4, <1>5 DEF Ways, WalkEnds
<1>6. CASE w.going
  <2>1. n >= 1 /\ OnTheWay(t, n, u) /\ OnlyDying(t, u)
    BY <1>0, <1>3, <1>4, <1>6 DEF Ways
  <2>2. /\ u.begun /\ u.turn \in Combatant
        /\ \A c \in Combatant : Worn(t.life[c], u.life[c])
        /\ Worse(t.life[u.turn], u.life[u.turn])
        /\ NobodySteppedOver(t, u)
        /\ \A d \in Combatant : ~t.life[d].down => Cardinality(Between(u.turn, d)) + n <= TableSize
    BY <2>1 DEF OnTheWay
  <2>3. ASSUME NEW d \in Combatant, ~t.life[d].down PROVE FALSE
    <3>1. IsFiniteSet(Between(u.turn, d))
      BY RefereeAssumption, FS_Subset DEF Between
    <3>2. Cardinality(Between(u.turn, d)) \in Nat
      BY <3>1, FS_CardinalityType
    <3> QED
      BY <1>0, <2>2, <2>3, <3>2
  <2> HIDE DEF n
  <2> QED
    BY <1>3, <1>4, <2>1, <2>2, <2>3 DEF WalkEnds
<1> QED
  BY <1>4, <1>5, <1>6

-----------------------------------------------------------------------------
(* What the handlers do to the turn, seen from the table they were called  *)
(* at.  Whoever the turn comes to, and lies dying, is asked or has rolled; *)
(* it finds somebody awake if there is anybody; it goes by nobody dying    *)
(* without a save.                                                         *)

TurnMoves(t, u) == u.turn \in Combatant /\ u.turn # t.turn

IsAsked(u) == u.owed = u.turn /\ u.waiting = u.turn

AsksOrRolls(t, u) ==
  TurnMoves(t, u) /\ Dying(u, u.turn) =>
    IsAsked(u) \/ Worse(t.life[u.turn], u.life[u.turn])

FindsSomebodyAwake(t, u) ==
  TurnMoves(t, u) /\ SomebodyElseUp(u, u.turn) => IsAsked(u) \/ ~u.life[u.turn].down

GoesByNobodyDying(t, u) == TurnMoves(t, u) => NobodySteppedOver(t, u)

(* A fight that has not begun is nobody's turn.                            *)
IsATable(t) == t \in Tables /\ (~t.begun => t.turn = NoOne)

LEMMA TurnStays ==
  ASSUME NEW t, NEW u, u.turn = t.turn
  PROVE  AsksOrRolls(t, u) /\ FindsSomebodyAwake(t, u) /\ GoesByNobodyDying(t, u)
BY DEF TurnMoves, AsksOrRolls, FindsSomebodyAwake, GoesByNobodyDying

LEMMA OnlyDyingIsTransitive ==
  ASSUME NEW t, NEW s, NEW u, OnlyDying(t, s), OnlyDying(s, u)
  PROVE  OnlyDying(t, u)
<1> SUFFICES ASSUME NEW c \in Combatant, t.life[c].down, u.life[c] # t.life[c]
             PROVE  Dying(t, c)
  BY DEF OnlyDying
<1> QED
  BY SameLifeSameDying DEF OnlyDying

SameButTheLifeOf(t, s, c) ==
  /\ s.begun = t.begun /\ s.turn = t.turn
  /\ \A d \in Combatant : d # c => s.life[d] = t.life[d]

LEMMA WalkGoesRightly ==
  ASSUME NEW t \in Tables, NEW s \in Tables, SameButTheLifeOf(t, s, t.turn),
         NEW u, WalkEnds(s, u)
  PROVE  /\ IsATable(u)
         /\ AsksOrRolls(t, u)
         /\ \/ FindsSomebodyAwake(t, u)
            \/ ~t.begun /\ u = BeginTable(s) /\ ~Dying(u, u.turn)
         /\ GoesByNobodyDying(t, u)
         /\ \A c \in Combatant : s.life[c].down /\ u.turn # c => u.life[c].down
<1>1. s.begun = t.begun /\ s.turn = t.turn /\ \A d \in Combatant : d # t.turn => s.life[d] = t.life[d]
  BY DEF SameButTheLifeOf
<1>2. u \in Tables /\ u.begun
  BY DEF WalkEnds, HasHalted
<1>3. IsATable(u)
  BY <1>2 DEF IsATable
<1>4. AsksOrRolls(t, u)
  <2> DEFINE c == u.turn
  <2> SUFFICES ASSUME c \in Combatant, c # t.turn, Dying(u, c)
               PROVE  IsAsked(u) \/ Worse(t.life[c], u.life[c])
    BY DEF AsksOrRolls, TurnMoves
  <2>1. s.life[c] = t.life[c] /\ u.life[c].down /\ u.life[c] # Up
    BY <1>1 DEF Dying, Up
  <2>2. CASE HasHalted(s, u)
    <3>1. HaltsOn(s, u, c)
      BY <2>2 DEF HasHalted
    <3> QED
      BY <2>1, <3>1 DEF HaltsOn, IsAsked
  <2>3. CASE Worse(s.life[c], u.life[c])
    BY <2>1, <2>3
  <2> QED
    BY <2>2, <2>3 DEF WalkEnds
<1>5. ASSUME ~(~t.begun /\ u = BeginTable(s) /\ ~Dying(u, u.turn))
      PROVE  FindsSomebodyAwake(t, u)
  <2> DEFINE c == u.turn
  <2> SUFFICES ASSUME c \in Combatant, NEW d \in Combatant \ {c}, ~u.life[d].down
               PROVE  IsAsked(u) \/ ~u.life[c].down
    BY DEF FindsSomebodyAwake, TurnMoves, SomebodyElseUp
  <2>1. CASE HasHalted(s, u)
    <3>1. HaltsOn(s, u, c)
      BY <2>1 DEF HasHalted
    <3> QED
      BY <1>1, <1>5, <3>1 DEF HaltsOn, IsAsked, Up
  <2>2. CASE \A e \in Combatant : Worn(s.life[e], u.life[e]) /\ s.life[e].down
    BY <1>2, <2>2, LivesAreLives, WorseAndWorse
  <2> QED
    BY <2>1, <2>2 DEF WalkEnds
<1>6. GoesByNobodyDying(t, u)
  <2> DEFINE c == u.turn
  <2> SUFFICES ASSUME t.begun, t.turn \in Combatant, c \in Combatant, c # t.turn,
                      NEW e \in Combatant, GoesBy(t.turn, e, c), Dying(t, e)
               PROVE  Worse(t.life[e], u.life[e])
    BY DEF GoesByNobodyDying, TurnMoves, NobodySteppedOver
  <2>1. e # t.turn
    BY GoingRound
  <2>2. s.life[e] = t.life[e]
    BY <1>1, <2>1
  <2>3. Dying(s, e)
    BY <2>2, SameLifeSameDying
  <2>4. NobodySteppedOver(s, u)
    BY DEF WalkEnds, HasHalted
  <2> QED
    BY <1>1, <2>2, <2>3, <2>4 DEF NobodySteppedOver
<1>7. ASSUME NEW c \in Combatant, s.life[c].down, u.turn # c PROVE u.life[c].down
  <2>1. Worn(s.life[c], u.life[c])
    BY <1>7 DEF WalkEnds, HasHalted
  <2> QED
    BY <1>2, <1>7, <2>1, LivesAreLives, WorseAndWorse
<1> QED
  BY <1>3, <1>4, <1>5, <1>6, <1>7

LEMMA StoppedClock ==
  ASSUME NEW t \in Tables
  PROVE  LET s == StopClock(t) IN
         /\ s \in Tables /\ s.begun = t.begun /\ s.turn = t.turn
         /\ s.life = t.life /\ s.owed = t.owed /\ s.waiting = NoOne
BY DEF StopClock, Tables

LEMMA BlowsTell ==
  ASSUME NEW t \in Tables, NEW c \in Combatant
  PROVE  LET s == Struck(t, c) IN
         /\ s \in Tables /\ SameButTheLifeOf(t, s, c)
         /\ OnlyDying(t, s) /\ s.life[c].down
         /\ t.life[c].down => Worn(t.life[c], s.life[c])
<1> DEFINE l == t.life[c]
           s == Struck(t, c)
<1>1. l \in Life /\ l.failed \in Nat /\ l.made \in Nat /\ Up \in Life
  BY DEF Tables, Life, Up
<1>2. CASE ~l.down
  <2> DEFINE m == IF beingRun THEN [Up EXCEPT !.down = TRUE] ELSE [l EXCEPT !.down = TRUE]
  <2>1. m \in Life /\ m.down
    BY <1>1 DEF Life, Up
  <2>2. s = [t EXCEPT !.life[c] = m]
    BY <1>2 DEF Struck, Tables
  <2> HIDE DEF m, s
  <2>3. /\ s \in Tables /\ s.life[c] = m /\ s.begun = t.begun /\ s.turn = t.turn
        /\ \A d \in Combatant : d # c => s.life[d] = t.life[d]
    BY <2>1, <2>2, AnotherLife
  <2>4. OnlyDying(t, s)
    BY <1>2, <2>3 DEF OnlyDying
  <2> QED
    BY <1>2, <2>1, <2>3, <2>4 DEF SameButTheLifeOf, s
<1>3. CASE l.down /\ beingRun /\ Dying(t, c)
  <2> DEFINE m == [l EXCEPT !.failed = Counted(@ + 1)]
  <2>1. Counted(l.failed + 1) \in Nat /\ Counted(l.failed + 1) > l.failed
    BY <1>1, <1>3, CountedCounts DEF Dying
  <2>2. m \in Life /\ m.down = l.down /\ m.made = l.made /\ m.failed = Counted(l.failed + 1)
    BY <1>1, <2>1 DEF Life
  <2>3. Worse(l, m)
    BY <1>1, <2>1, <2>2 DEF Worse
  <2>4. s = [t EXCEPT !.life[c] = m]
    BY <1>3 DEF Struck, Tables
  <2> HIDE DEF m, s
  <2>5. /\ s \in Tables /\ s.life[c] = m /\ s.begun = t.begun /\ s.turn = t.turn
        /\ \A d \in Combatant : d # c => s.life[d] = t.life[d]
    BY <2>2, <2>4, AnotherLife
  <2>6. OnlyDying(t, s)
    BY <1>3, <2>5 DEF OnlyDying
  <2> QED
    BY <1>3, <2>2, <2>3, <2>5, <2>6 DEF SameButTheLifeOf, s, Worn
<1>4. CASE l.down /\ ~(beingRun /\ Dying(t, c))
  <2>1. s = t
    BY <1>4 DEF Struck
  <2> QED
    BY <1>4, <2>1 DEF SameButTheLifeOf, OnlyDying, Worn
<1> QED
  BY <1>2, <1>3, <1>4

(* What a handler leaves behind, when nobody rolled but the dying.         *)
Rightly(t, u) ==
  /\ IsATable(u) /\ OnlyDying(t, u)
  /\ AsksOrRolls(t, u) /\ FindsSomebodyAwake(t, u) /\ GoesByNobodyDying(t, u)

LEMMA NothingIsRight ==
  ASSUME NEW t, IsATable(t)
  PROVE  Rightly(t, t)
BY TurnStays DEF Rightly, OnlyDying

(* The turn passes from a table whose clock has been stopped.              *)
LEMMA PassingIsRight ==
  ASSUME NEW t, IsATable(t), t.begun,
         NEW s \in Tables, s.begun = t.begun, s.turn = t.turn, s.life = t.life,
         NEW u \in Walk(s)
  PROVE  Rightly(t, u)
<1>1. WalkEnds(s, u)
  BY WalksEnd
<1>2. SameButTheLifeOf(t, s, t.turn) /\ t \in Tables
  BY DEF SameButTheLifeOf, IsATable
<1>3. IsATable(u) /\ AsksOrRolls(t, u) /\ FindsSomebodyAwake(t, u) /\ GoesByNobodyDying(t, u)
  BY <1>1, <1>2, WalkGoesRightly
<1>4. OnlyDying(s, u)
  BY <1>1 DEF WalkEnds
<1>5. OnlyDying(t, s)
  BY DEF OnlyDying
<1> QED
  BY <1>3, <1>4, <1>5, OnlyDyingIsTransitive DEF Rightly

(* A walk that does not arrive: whoever walks is down, and if it was their *)
(* turn it has passed.                                                     *)
LEMMA FallingIsRight ==
  ASSUME NEW t, IsATable(t), NEW c \in Combatant,
         NEW s \in Tables, SameButTheLifeOf(t, s, c), OnlyDying(t, s), s.life[c].down,
         NEW u \in FellOnTheWay(s, c)
  PROVE  /\ Rightly(t, u)
         /\ TurnMoves(t, u) => t.turn = c /\ u.life[c].down
<1>0. t \in Tables /\ s.begun = t.begun /\ s.turn = t.turn /\ (~t.begun => t.turn = NoOne)
  BY DEF IsATable, SameButTheLifeOf
<1>1. CASE u = s
  <2>1. IsATable(u) /\ u.turn = t.turn
    BY <1>0, <1>1 DEF IsATable
  <2> QED
    BY <1>1, <2>1, TurnStays DEF Rightly, TurnMoves
<1>2. CASE beingRun /\ s.turn = c /\ u \in Walk(StopClock(s))
  <2> DEFINE r == StopClock(s)
  <2>1. r \in Tables /\ r.begun = s.begun /\ r.turn = s.turn /\ r.life = s.life
    BY StoppedClock
  <2>2. WalkEnds(r, u)
    BY <1>2, <2>1, WalksEnd
  <2>3. t.turn = c /\ t.begun
    BY <1>0, <1>2, CombatantAssumption
  <2> HIDE DEF r
  <2>4. SameButTheLifeOf(t, r, t.turn) /\ r.life[c].down
    BY <1>0, <2>1, <2>3 DEF SameButTheLifeOf
  <2>5. /\ IsATable(u) /\ AsksOrRolls(t, u) /\ FindsSomebodyAwake(t, u)
        /\ GoesByNobodyDying(t, u)
        /\ u.turn # c => u.life[c].down
    BY <1>0, <2>1, <2>2, <2>3, <2>4, WalkGoesRightly
  <2>6. OnlyDying(s, r) /\ OnlyDying(r, u)
    BY <2>1, <2>2 DEF WalkEnds, OnlyDying
  <2>7. OnlyDying(t, u)
    BY <2>6, OnlyDyingIsTransitive
  <2> QED
    BY <2>3, <2>5, <2>7 DEF Rightly, TurnMoves
<1> QED
  BY <1>1, <1>2 DEF FellOnTheWay

LEMMA CutShortIsRight ==
  ASSUME NEW t, IsATable(t), NEW c \in Combatant, NEW u \in CutShort(t, c)
  PROVE  /\ Rightly(t, u)
         /\ TurnMoves(t, u) => t.turn = c /\ u.life[c].down
<1>0. t \in Tables
  BY DEF IsATable
<1>1. CASE u \in FellOnTheWay(Struck(t, c), c)
  <2> DEFINE s == Struck(t, c)
  <2>1. s \in Tables /\ SameButTheLifeOf(t, s, c) /\ OnlyDying(t, s) /\ s.life[c].down
    BY <1>0, BlowsTell
  <2> HIDE DEF s
  <2> QED
    BY <1>1, <2>1, FallingIsRight DEF s
<1>2. CASE t.life[c].down /\ u \in FellOnTheWay(t, c)
  <2>1. SameButTheLifeOf(t, t, c) /\ OnlyDying(t, t)
    BY DEF SameButTheLifeOf, OnlyDying
  <2> QED
    BY <1>0, <1>2, <2>1, FallingIsRight
<1> QED
  BY <1>1, <1>2 DEF CutShort

(* A blow after it all.                                                    *)
LEMMA SwingingIsRight ==
  ASSUME NEW t, NEW s, IsATable(t), IsATable(s), OnlyDying(t, s), GoesByNobodyDying(t, s),
         NEW d \in Combatant, NEW u \in Swung(s, d)
  PROVE  /\ IsATable(u) /\ OnlyDying(t, u) /\ GoesByNobodyDying(t, u)
         /\ u.turn = s.turn
         /\ \A c \in Combatant : s.life[c].down => u.life[c].down
<1>0. t \in Tables /\ s \in Tables
  BY DEF IsATable
<1>1. CASE u = s
  BY <1>1
<1>2. CASE u = Struck(s, d)
  <2>1. /\ u \in Tables /\ u.begun = s.begun /\ u.turn = s.turn
        /\ \A c \in Combatant : c # d => u.life[c] = s.life[c]
        /\ OnlyDying(s, u) /\ u.life[d].down
        /\ s.life[d].down => Worn(s.life[d], u.life[d])
    BY <1>0, <1>2, BlowsTell DEF SameButTheLifeOf
  <2>2. IsATable(u)
    BY <2>1 DEF IsATable
  <2>3. OnlyDying(t, u)
    BY <2>1, OnlyDyingIsTransitive
  <2>4. \A c \in Combatant : s.life[c].down => u.life[c].down
    BY <2>1
  <2>5. GoesByNobodyDying(t, u)
    <3> SUFFICES ASSUME TurnMoves(t, u), t.begun, t.turn \in Combatant, u.turn \in Combatant,
                        NEW e \in Combatant, GoesBy(t.turn, e, u.turn), Dying(t, e)
                 PROVE  Worse(t.life[e], u.life[e])
      BY DEF GoesByNobodyDying, NobodySteppedOver
    <3>1. Worse(t.life[e], s.life[e])
      BY <2>1 DEF GoesByNobodyDying, NobodySteppedOver, TurnMoves
    <3>2. t.life[e] \in Life /\ s.life[e] \in Life /\ u.life[e] \in Life
      BY <1>0, <2>1, LivesAreLives
    <3>3. s.life[e].down
      BY <3>1, <3>2, WorseAndWorse DEF Dying
    <3>4. Worn(s.life[e], u.life[e])
      BY <2>1, <3>3 DEF Worn
    <3> QED
      BY <3>1, <3>2, <3>4, WorseAndWorse
  <2> QED
    BY <2>1, <2>2, <2>3, <2>4, <2>5
<1> QED
  BY <1>1, <1>2 DEF Swung

LEMMA AskingIfDone ==
  ASSUME NEW s, IsATable(s), NEW c \in Combatant
  PROVE  LET u == AskIfDone(s, c) IN
         IsATable(u) /\ u.turn = s.turn /\ u.begun = s.begun /\ u.life = s.life
BY DEF AskIfDone, IsATable, Tables

(* A turn that is carried out: if it has passed on, whoever took it is     *)
(* down.                                                                   *)
LEMMA CarryingOutIsRight ==
  ASSUME NEW t, IsATable(t), NEW c \in Combatant, NEW u \in CarryOut(t, c)
  PROVE  /\ IsATable(u) /\ OnlyDying(t, u) /\ GoesByNobodyDying(t, u)
         /\ TurnMoves(t, u) => u.life[c].down
<1> DEFINE setOff == {t} \cup CutShort(t, c)
           swung == setOff \cup UNION {Swung(r, d) : r \in setOff, d \in Combatant \ {c}}
<1>1. PICK v \in swung : u = AskIfDone(v, c)
  BY DEF CarryOut
<1>2. ASSUME NEW s \in setOff
      PROVE  /\ IsATable(s) /\ OnlyDying(t, s) /\ GoesByNobodyDying(t, s)
             /\ TurnMoves(t, s) => s.life[c].down
  <2>1. Rightly(t, s) /\ (TurnMoves(t, s) => s.life[c].down)
    <3>1. CASE s = t
      BY <3>1, NothingIsRight DEF TurnMoves
    <3>2. CASE s \in CutShort(t, c)
      BY <3>2, CutShortIsRight
    <3> QED
      BY <3>1, <3>2
  <2> QED
    BY <2>1 DEF Rightly
<1>3. /\ IsATable(v) /\ OnlyDying(t, v) /\ GoesByNobodyDying(t, v)
      /\ TurnMoves(t, v) => v.life[c].down
  <2>1. CASE v \in setOff
    BY <1>2, <2>1
  <2>2. ASSUME NEW s \in setOff, NEW d \in Combatant, v \in Swung(s, d)
        PROVE  /\ IsATable(v) /\ OnlyDying(t, v) /\ GoesByNobodyDying(t, v)
               /\ TurnMoves(t, v) => v.life[c].down
    <3>0. /\ IsATable(s) /\ OnlyDying(t, s) /\ GoesByNobodyDying(t, s)
          /\ TurnMoves(t, s) => s.life[c].down
      BY <1>2
    <3>1. /\ IsATable(v) /\ OnlyDying(t, v) /\ GoesByNobodyDying(t, v)
          /\ v.turn = s.turn
          /\ \A e \in Combatant : s.life[e].down => v.life[e].down
      BY <2>2, <3>0, SwingingIsRight
    <3> QED
      BY <3>0, <3>1 DEF TurnMoves
  <2>3. v \in setOff \/ \E s \in setOff, d \in Combatant : v \in Swung(s, d)
    BY <1>1
  <2> HIDE DEF setOff
  <2> QED
    BY <2>1, <2>2, <2>3
<1>4. IsATable(u) /\ u.turn = v.turn /\ u.begun = v.begun /\ u.life = v.life
  BY <1>1, <1>3, AskingIfDone
<1> QED
  BY <1>3, <1>4 DEF OnlyDying, GoesByNobodyDying, NobodySteppedOver, TurnMoves

(* The save that was owed is rolled, and the turn passes unless it raises  *)
(* them.  When the clock runs out nobody asks whether they are dying.      *)
LEMMA RollingIsRight ==
  ASSUME NEW t, IsATable(t), t.turn \in Combatant, NEW u \in RollAndMoveOn(t, t.turn)
  PROVE  /\ IsATable(u) /\ AsksOrRolls(t, u) /\ FindsSomebodyAwake(t, u)
         /\ GoesByNobodyDying(t, u)
         /\ Dying(t, t.turn) => OnlyDying(t, u)
<1> DEFINE c == t.turn
           paid == [t EXCEPT !.owed = NoOne, !.waiting = NoOne]
<1>0. t \in Tables /\ t.begun
  BY CombatantAssumption DEF IsATable
<1>1. paid \in Tables /\ paid.begun /\ paid.turn = c /\ paid.life = t.life
  BY <1>0 DEF Tables
<1>2. u = Revived(paid, c) \/ \E r \in Unrevived(paid, c) : u \in Walk(r)
  BY DEF RollAndMoveOn
<1>3. \A d : Dying(paid, d) <=> Dying(t, d)
  BY <1>1 DEF Dying
<1> HIDE DEF paid
<1>4. CASE u = Revived(paid, c)
  <2>1. /\ u \in Tables /\ u.begun /\ u.turn = c
        /\ \A d \in Combatant : d # c => u.life[d] = t.life[d]
    BY <1>1, <1>4, SaveRaises
  <2>2. IsATable(u)
    BY <2>1 DEF IsATable
  <2>3. Dying(t, c) => OnlyDying(t, u)
    BY <2>1 DEF OnlyDying
  <2> QED
    BY <2>1, <2>2, <2>3, TurnStays
<1>5. ASSUME NEW r \in Unrevived(paid, c), u \in Walk(r)
      PROVE  /\ IsATable(u) /\ AsksOrRolls(t, u) /\ FindsSomebodyAwake(t, u)
             /\ GoesByNobodyDying(t, u)
             /\ Dying(t, t.turn) => OnlyDying(t, u)
  <2>1. /\ r \in Tables /\ r.begun /\ r.turn = c
        /\ \A d \in Combatant : d # c => r.life[d] = t.life[d]
    BY <1>1, SaveWears
  <2>2. WalkEnds(r, u) /\ SameButTheLifeOf(t, r, t.turn)
    BY <1>0, <1>5, <2>1, WalksEnd DEF SameButTheLifeOf
  <2>3. IsATable(u) /\ AsksOrRolls(t, u) /\ FindsSomebodyAwake(t, u) /\ GoesByNobodyDying(t, u)
    BY <1>0, <2>1, <2>2, WalkGoesRightly
  <2>4. Dying(t, c) => OnlyDying(t, r)
    BY <2>1 DEF OnlyDying
  <2>5. OnlyDying(r, u)
    BY <2>2 DEF WalkEnds
  <2> QED
    BY <2>3, <2>4, <2>5, OnlyDyingIsTransitive
<1> QED
  BY <1>2, <1>4, <1>5

(* Whoever is at the top of the order is asked, or has rolled.             *)
LEMMA BeginningIsRight ==
  ASSUME NEW t, IsATable(t), NEW s \in Tables, s.life = t.life,
         NEW u \in OweASaveIfDying(BeginTable(s))
  PROVE  IsATable(u) /\ OnlyDying(t, u) /\ AsksOrRolls(t, u)
<1> DEFINE b == BeginTable(s)
           x == b.turn
<1>1. b \in Tables /\ b.begun /\ b.life = t.life /\ x \in Combatant
  <2>1. First(Scores, Combatant) \in Combatant
    BY RefereeAssumption, FirstIsFirst
  <2> QED
    BY <2>1 DEF BeginTable, Tables
<1>2. \A c : Dying(b, c) <=> Dying(t, c)
  BY <1>1 DEF Dying
<1>3. \/ u = b /\ ~Dying(b, x)
      \/ u = Asked(b, x)
      \/ Dying(b, x) /\ u = Revived(b, x)
      \/ Dying(b, x) /\ u \in Unrevived(b, x)
  BY <1>1, CombatantAssumption DEF OweASaveIfDying
<1> HIDE DEF b, x
<1>4. CASE u = b /\ ~Dying(b, x)
  BY <1>1, <1>4 DEF IsATable, OnlyDying, AsksOrRolls, x
<1>5. CASE u = Asked(b, x)
  <2>1. /\ u \in Tables /\ u.begun /\ u.turn = x /\ u.waiting = x /\ u.owed = x
        /\ u.life = t.life
    BY <1>1, <1>5, AskingAsks DEF x
  <2> QED
    BY <2>1 DEF IsATable, OnlyDying, AsksOrRolls, IsAsked
<1>6. CASE Dying(b, x) /\ u = Revived(b, x)
  <2>1. /\ u \in Tables /\ u.begun /\ u.turn = x /\ u.life[x] = Up
        /\ \A d \in Combatant : d # x => u.life[d] = t.life[d]
    BY <1>1, <1>6, SaveRaises DEF x
  <2>2. ~Dying(u, x)
    BY <2>1 DEF Dying, Up
  <2> QED
    BY <1>2, <1>6, <2>1, <2>2 DEF IsATable, OnlyDying, AsksOrRolls
<1>7. CASE Dying(b, x) /\ u \in Unrevived(b, x)
  <2>1. /\ u \in Tables /\ u.begun /\ u.turn = x /\ Worse(t.life[x], u.life[x])
        /\ \A d \in Combatant : d # x => u.life[d] = t.life[d]
    BY <1>1, <1>7, SaveWears DEF x
  <2> QED
    BY <1>2, <1>7, <2>1 DEF IsATable, OnlyDying, AsksOrRolls
<1> QED
  BY <1>3, <1>4, <1>5, <1>6, <1>7

-----------------------------------------------------------------------------
(* Every step.                                                             *)

TableInv == IsATable(table)

Orderly ==
  /\ IsATable(table')
  /\ Timeout \/ OnlyDying(table, table')
  /\ Panel \/ TakenByTheFallen \/ AsksOrRolls(table, table')
  /\ Panel \/ TakenByTheFallen \/ RunTurn("begin") \/ FindsSomebodyAwake(table, table')
  /\ RunTurn("begin") \/ GoesByNobodyDying(table, table')

LEMMA RightlyIsOrderly ==
  ASSUME Rightly(table, table')
  PROVE  Orderly
BY DEF Rightly, Orderly

LEMMA TurnStaysOrderly ==
  ASSUME IsATable(table'), table'.turn = table.turn, OnlyDying(table, table')
  PROVE  Orderly
BY TurnStays DEF Orderly

LEMMA TurnsAreRunOrderly ==
  ASSUME TableInv, NEW verb \in {"begin", "next", "end"}, RunTurn(verb)
  PROVE  Orderly
<1> DEFINE s == [StopClock(table) EXCEPT !.owed = NoOne]
<1>0. table \in Tables /\ IsATable(table)
  BY DEF TableInv, IsATable
<1>1. s \in Tables /\ s.begun = table.begun /\ s.turn = table.turn /\ s.life = table.life
  BY <1>0 DEF Tables, StopClock
<1>2. CASE verb = "begin"
  <2>1. table' \in OweASaveIfDying(BeginTable(s)) /\ RunTurn("begin")
    BY <1>2 DEF RunTurn
  <2> HIDE DEF s
  <2>2. IsATable(table') /\ OnlyDying(table, table') /\ AsksOrRolls(table, table')
    BY <1>0, <1>1, <2>1, BeginningIsRight
  <2> QED
    BY <2>1, <2>2 DEF Orderly
<1>3. CASE verb = "next"
  <2>1. beingRun /\ table' \in Walk(s) /\ beingRun' = TRUE /\ OnlyTheTable
    BY <1>3 DEF RunTurn
  <2> DEFINE u == table'
  <2>2. WalkEnds(s, u)
    <3> HIDE DEF s
    <3> QED
      BY <1>1, <2>1, WalksEnd
  <2>3. SameButTheLifeOf(table, s, table.turn)
    BY <1>1 DEF SameButTheLifeOf
  <2>4. /\ IsATable(u) /\ AsksOrRolls(table, u) /\ GoesByNobodyDying(table, u)
        /\ \/ FindsSomebodyAwake(table, u)
           \/ u = BeginTable(s) /\ ~Dying(u, u.turn)
    <3> HIDE DEF s, u
    <3> QED
      BY <1>0, <1>1, <2>2, <2>3, WalkGoesRightly
  <2>5. OnlyDying(table, u)
    <3>1. OnlyDying(s, u) /\ OnlyDying(table, s)
      BY <1>1, <2>2 DEF WalkEnds, OnlyDying
    <3> HIDE DEF s, u
    <3> QED
      BY <3>1, OnlyDyingIsTransitive
  <2>6. ASSUME u = BeginTable(s), ~Dying(u, u.turn) PROVE RunTurn("begin")
    <3>1. OweASaveIfDying(BeginTable(s)) = {u}
      BY <2>6 DEF OweASaveIfDying
    <3>2. table' \in OweASaveIfDying(BeginTable(s))
      BY <3>1
    <3> QED
      BY <2>1, <3>2 DEF RunTurn
  <2> HIDE DEF s, u
  <2> QED
    BY <2>4, <2>5, <2>6 DEF Orderly, u
<1>4. CASE verb = "end"
  <2>1. table' = EndTable(s)
    BY <1>4 DEF RunTurn
  <2>2. table' \in Tables /\ table'.turn = NoOne /\ table'.life = table.life
    BY <1>1, <2>1 DEF EndTable, Tables
  <2>3. IsATable(table') /\ OnlyDying(table, table') /\ table'.turn \notin Combatant
    BY <2>2, CombatantAssumption DEF IsATable, OnlyDying
  <2> QED
    BY <2>3 DEF Orderly, AsksOrRolls, FindsSomebodyAwake, GoesByNobodyDying, TurnMoves
<1> QED
  BY <1>2, <1>3, <1>4

LEMMA PanelIsOrderly ==
  ASSUME TableInv, Panel
  PROVE  Orderly
<1>0. table \in Tables /\ IsATable(table)
  BY DEF TableInv, IsATable
<1>1. CASE PanelBegin
  <2>1. First(Scores, Combatant) \in Combatant
    BY RefereeAssumption, FirstIsFirst
  <2>2. table' \in Tables /\ table'.begun /\ table'.life = table.life
    BY <1>0, <1>1, <2>1 DEF PanelBegin, BeginTable, Tables
  <2>3. table.turn = NoOne /\ ~table.begun
    BY <1>0, <1>1 DEF PanelBegin, IsATable
  <2>4. GoesByNobodyDying(table, table')
    BY <2>3 DEF GoesByNobodyDying, NobodySteppedOver
  <2> QED
    BY <2>2, <2>4 DEF Orderly, IsATable, OnlyDying
<1>2. CASE PanelEnd
  <2>1. table' \in Tables /\ table'.turn = NoOne /\ table'.life = table.life
    BY <1>0, <1>2 DEF PanelEnd, EndTable, Tables
  <2>2. GoesByNobodyDying(table, table')
    BY <2>1, CombatantAssumption DEF GoesByNobodyDying, TurnMoves
  <2> QED
    BY <2>1, <2>2 DEF Orderly, IsATable, OnlyDying
<1>3. CASE \E on \in BOOLEAN : SwitchFight(on)
  <2>1. table' = table
    BY <1>3 DEF SwitchFight
  <2> QED
    BY <1>0, <2>1, NothingIsRight, RightlyIsOrderly
<1> QED
  BY <1>1, <1>2, <1>3 DEF Panel

LEMMA TurnsAreOrderly ==
  ASSUME TableInv, Turns
  PROVE  Orderly
<1> DEFINE s == StopClock(table)
<1>0. table \in Tables /\ IsATable(table) /\ (table.turn \in Combatant => table.begun)
  BY CombatantAssumption DEF TableInv, IsATable
<1>1. s \in Tables /\ s.begun = table.begun /\ s.turn = table.turn /\ s.life = table.life
  BY <1>0, StoppedClock
<1>2. s.turn \in Combatant \cup {NoOne} /\ IsATable(s)
  BY <1>0, <1>1 DEF Tables, IsATable
<1> HIDE DEF s
<1>3. ASSUME table.turn \in Combatant, table' \in Walk(s) PROVE Orderly
  BY <1>0, <1>1, <1>3, PassingIsRight, RightlyIsOrderly
<1>4. ASSUME table' = s PROVE Orderly
  BY <1>1, <1>2, <1>4, TurnStaysOrderly DEF OnlyDying
<1>5. CASE DMTurn
  BY <1>5, TurnsAreRunOrderly DEF DMTurn
<1>6. CASE AgentTurn
  BY <1>6, TurnsAreRunOrderly DEF AgentTurn
<1>7. CASE \E a \in Account : Done(a)
  <2>1. table' \in Walk(s) /\ table.turn # NoOne
    BY <1>7 DEF Done, s
  <2> QED
    BY <1>1, <1>2, <1>3, <2>1
<1>8. CASE \E a \in Account : DeathSave(a)
  <2>1. /\ table.turn # NoOne /\ Dying(table, table.turn)
        /\ table' \in RollAndMoveOn(table, table.turn)
    BY <1>8 DEF DeathSave
  <2>2. table.turn \in Combatant
    BY <1>1, <1>2, <2>1
  <2> QED
    BY <1>0, <2>1, <2>2, RollingIsRight DEF Orderly
<1>9. CASE \E a \in Account : Chat(a)
  <2>1. table' = s
    BY <1>9 DEF Chat, s
  <2> QED
    BY <1>4, <2>1
<1>10. CASE Timeout
  <2> DEFINE c == table.waiting
  <2>1. c \in Combatant
    BY <1>0, <1>10 DEF Timeout, Tables
  <2>2. \/ table' = s
        \/ table.turn = c /\ table' \in RollAndMoveOn(s, c)
        \/ table' = table
        \/ table.turn = c /\ table' \in Walk(s)
    BY <1>10 DEF Timeout, s
  <2>3. CASE table.turn = c /\ table' \in RollAndMoveOn(s, c)
    <3>1. /\ IsATable(table') /\ AsksOrRolls(s, table') /\ FindsSomebodyAwake(s, table')
          /\ GoesByNobodyDying(s, table')
      BY <1>1, <1>2, <2>1, <2>3, RollingIsRight
    <3>2. \A d : Dying(s, d) <=> Dying(table, d)
      BY <1>1 DEF Dying
    <3>3. /\ AsksOrRolls(table, table') /\ FindsSomebodyAwake(table, table')
          /\ GoesByNobodyDying(table, table')
      BY <1>1, <3>1, <3>2
        DEF AsksOrRolls, FindsSomebodyAwake, GoesByNobodyDying, TurnMoves, NobodySteppedOver
    <3> QED
      BY <1>10, <3>1, <3>3 DEF Orderly
  <2>4. CASE table' = table
    BY <1>0, <2>4, NothingIsRight, RightlyIsOrderly
  <2> QED
    BY <1>3, <1>4, <2>1, <2>2, <2>3, <2>4
<1> QED
  BY <1>5, <1>6, <1>7, <1>8, <1>9, <1>10 DEF Turns

LEMMA ActsAreOrderly ==
  ASSUME TableInv, Acts
  PROVE  Orderly
<1>0. table \in Tables /\ IsATable(table) /\ PC \subseteq Combatant
  BY RefereeAssumption DEF TableInv, IsATable
<1>1. CASE table' = table
  BY <1>0, <1>1, NothingIsRight, RightlyIsOrderly
<1>2. CASE \E c \in PC : Offer(c)
  <2>1. table' = table \/ table' = StopClock(table)
    BY <1>2 DEF Offer
  <2>2. CASE table' = StopClock(table)
    <3>1. IsATable(table') /\ table'.turn = table.turn /\ table'.life = table.life
      BY <1>0, <2>2, StoppedClock DEF IsATable
    <3> QED
      BY <3>1, TurnStaysOrderly DEF OnlyDying
  <2> QED
    BY <1>1, <2>1, <2>2
<1>3. ASSUME NEW c \in PC, NEW accept \in BOOLEAN, Answer(c, accept) PROVE Orderly
  <2>1. CASE accept
    <3>1. table' \in CarryOut(table, c) /\ c \in proposed \ proposed' /\ c \in Combatant
      BY <1>0, <1>3, <2>1 DEF Answer
    <3>2. /\ IsATable(table') /\ OnlyDying(table, table') /\ GoesByNobodyDying(table, table')
          /\ TurnMoves(table, table') => table'.life[c].down
      BY <1>0, <3>1, CarryingOutIsRight
    <3>3. TurnMoves(table, table') => TakenByTheFallen
      BY <3>1, <3>2 DEF TakenByTheFallen
    <3> QED
      BY <3>2, <3>3 DEF Orderly, AsksOrRolls, FindsSomebodyAwake
  <2>2. CASE ~accept
    BY <1>1, <1>3, <2>2 DEF Answer
  <2> QED
    BY <2>1, <2>2
<1>4. ASSUME NEW c \in Combatant, NEW u \in CutShort(table, c), table' = u PROVE Orderly
  <2>1. Rightly(table, table')
    BY <1>0, <1>4, CutShortIsRight
  <2> QED
    BY <2>1, RightlyIsOrderly
<1>5. ASSUME NEW c \in Combatant, AgentActs(c) PROVE Orderly
  <2>1. CASE table' \in {AskIfDone(t, c) : t \in Arrives(table, c)}
    <3>1. table' = AskIfDone(table, c)
      BY <2>1 DEF Arrives
    <3>2. IsATable(table') /\ table'.turn = table.turn /\ table'.life = table.life
      BY <1>0, <3>1, AskingIfDone
    <3> QED
      BY <3>2, TurnStaysOrderly DEF OnlyDying
  <2>2. ASSUME NEW d \in Combatant, table' \in {AskIfDone(t, c) : t \in Swung(table, d)}
        PROVE  Orderly
    <3>1. PICK t \in Swung(table, d) : table' = AskIfDone(t, c)
      BY <2>2
    <3>2. IsATable(t) /\ OnlyDying(table, t) /\ t.turn = table.turn
      <4>1. Rightly(table, table)
        BY <1>0, NothingIsRight
      <4> QED
        BY <1>0, <4>1, SwingingIsRight DEF Rightly
    <3>3. IsATable(table') /\ table'.turn = table.turn /\ table'.life = t.life
      BY <3>1, <3>2, AskingIfDone
    <3> QED
      BY <3>2, <3>3, TurnStaysOrderly DEF OnlyDying
  <2> QED
    BY <1>4, <1>5, <2>1, <2>2 DEF AgentActs
<1>6. ASSUME NEW c \in Combatant, HandActs(c) PROVE Orderly
  <2>1. ASSUME NEW d \in Combatant, table' \in Swung(table, d) PROVE Orderly
    <3>1. Rightly(table, table)
      BY <1>0, NothingIsRight
    <3>2. IsATable(table') /\ OnlyDying(table, table') /\ table'.turn = table.turn
      BY <1>0, <2>1, <3>1, SwingingIsRight DEF Rightly
    <3> QED
      BY <3>2, TurnStaysOrderly
  <2> QED
    BY <1>4, <1>6, <2>1 DEF HandActs
<1> QED
  BY <1>2, <1>3, <1>5, <1>6 DEF Acts

LEMMA ComingsAreOrderly ==
  ASSUME TableInv, Comings \/ HostRestart \/ UNCHANGED tableVars
  PROVE  Orderly
<1>0. table \in Tables /\ IsATable(table)
  BY DEF TableInv, IsATable
<1>1. CASE table' = table
  BY <1>0, <1>1, NothingIsRight, RightlyIsOrderly
<1>2. CASE Comings
  <2>1. table' = table
    BY <1>2 DEF Comings, Connect, Simulate, Seat, Autopilot, Think, NotTheTable
  <2> QED
    BY <1>1, <2>1
<1>3. CASE HostRestart
  <2>1. /\ table' \in Tables /\ table'.begun = table.begun /\ table'.turn = table.turn
        /\ table'.life = table.life
    BY <1>0, <1>3 DEF HostRestart, Tables
  <2>2. IsATable(table') /\ OnlyDying(table, table')
    BY <1>0, <2>1 DEF IsATable, OnlyDying
  <2> QED
    BY <2>1, <2>2, TurnStaysOrderly
<1>4. CASE UNCHANGED tableVars
  <2>1. table' = table
    BY <1>4 DEF tableVars
  <2> QED
    BY <1>1, <2>1
<1> QED
  BY <1>2, <1>3, <1>4

LEMMA TableStepsAreOrderly == TableInv /\ [TableNext]_tableVars => Orderly
<1> SUFFICES ASSUME TableInv, [TableNext]_tableVars PROVE Orderly
  OBVIOUS
<1> QED
  BY PanelIsOrderly, TurnsAreOrderly, ActsAreOrderly, ComingsAreOrderly
    DEF TableNext, OneEvening

LEMMA TableBegins == TableInit => TableInv
<1> SUFFICES ASSUME TableInit PROVE TableInv
  OBVIOUS
<1>1. Up \in Life
  BY DEF Up, Life
<1>2. table = [begun |-> FALSE, turn |-> NoOne, life |-> [c \in Combatant |-> Up],
               waiting |-> NoOne, owed |-> NoOne]
  BY DEF TableInit
<1>3. table \in Tables
  BY <1>1, <1>2 DEF Tables
<1> QED
  BY <1>2, <1>3 DEF TableInv, IsATable

(* The host's table is of its type, and a fight that has not begun is      *)
(* nobody's turn (Init and every handler of Referee).                      *)
THEOREM TableHolds == TableSpec => []TableInv
<1>1. TableInv /\ [TableNext]_tableVars => TableInv'
  BY TableStepsAreOrderly DEF Orderly, TableInv
<1> QED
  BY <1>1, TableBegins, PTL DEF TableSpec

(* Nothing but the clock running out counts a death save for somebody who  *)
(* is not dying.                                                           *)
THEOREM OnlyTheDyingAreRolledFor == TableSpec => OnlyTheDyingRoll
<1>1. TableInv /\ [TableNext]_tableVars =>
        [\A c \in Combatant : Rolled(c) /\ ~Timeout => Dying(table, c)]_tableVars
  BY TableStepsAreOrderly DEF Orderly, OnlyDying, Rolled
<1> QED
  BY <1>1, TableHolds, PTL DEF TableSpec, OnlyTheDyingRoll

(* Whoever the host brings the turn to, and lies dying, has been asked for *)
(* their save with the clock running on it, or it has been rolled.         *)
THEOREM TheDyingAreAskedOrRolledFor == TableSpec => AskedOrRolled
<1> DEFINE A == \A c \in PC :
                  /\ ComesTo(c) /\ Dying(table, c) /\ Dying(table', c)
                  /\ ~Panel /\ ~TakenByTheFallen
                  => \/ table'.owed = c /\ table'.waiting = c
                     \/ Rolled(c)
<1>1. ASSUME TableInv, [TableNext]_tableVars PROVE A
  <2> SUFFICES ASSUME NEW c \in PC, ComesTo(c), Dying(table, c), Dying(table', c),
                      ~Panel, ~TakenByTheFallen
               PROVE  (table'.owed = c /\ table'.waiting = c) \/ Rolled(c)
    OBVIOUS
  <2>1. AsksOrRolls(table, table') /\ table' \in Tables /\ table \in Tables /\ c \in Combatant
    BY <1>1, TableStepsAreOrderly, RefereeAssumption DEF Orderly, IsATable, TableInv
  <2>2. table'.turn = c /\ TurnMoves(table, table')
    BY <2>1 DEF ComesTo, TurnMoves
  <2>3. CASE IsAsked(table')
    BY <2>2, <2>3 DEF IsAsked
  <2>4. CASE Worse(table.life[c], table'.life[c])
    <3>1. table'.life[c] # table.life[c]
      BY <2>1, <2>4, LivesAreLives, WorseAndWorse
    <3> QED
      BY <3>1 DEF Rolled, Dying
  <2> QED
    BY <2>1, <2>2, <2>3, <2>4 DEF AsksOrRolls
<1>2. TableInv /\ [TableNext]_tableVars => [A]_tableVars
  BY <1>1
<1> QED
  BY <1>2, TableHolds, PTL DEF TableSpec, AskedOrRolled

(* As long as anybody is on their feet, the turn comes to somebody awake   *)
(* or asked: the loop in _advance_turn is long enough.                     *)
THEOREM TheLoopIsLongEnough == TableSpec => WalkReachesSomebodyAwake
<1> DEFINE A == \A c \in Combatant :
                  /\ ComesTo(c) /\ table.life[c].down
                  /\ beingRun /\ ~Panel /\ ~TakenByTheFallen /\ ~RunTurn("begin")
                  /\ SomebodyElseUp(table', c)
                  => \/ ~table'.life[c].down
                     \/ table'.owed = c /\ table'.waiting = c
<1>1. ASSUME TableInv, [TableNext]_tableVars PROVE A
  <2> SUFFICES ASSUME NEW c \in Combatant, ComesTo(c), SomebodyElseUp(table', c),
                      ~Panel, ~TakenByTheFallen, ~RunTurn("begin")
               PROVE  ~table'.life[c].down \/ (table'.owed = c /\ table'.waiting = c)
    OBVIOUS
  <2>1. FindsSomebodyAwake(table, table')
    BY <1>1, TableStepsAreOrderly DEF Orderly
  <2>2. table'.turn = c /\ TurnMoves(table, table')
    BY DEF ComesTo, TurnMoves
  <2> QED
    BY <2>1, <2>2 DEF FindsSomebodyAwake, IsAsked
<1>2. TableInv /\ [TableNext]_tableVars => [A]_tableVars
  BY <1>1
<1> QED
  BY <1>2, TableHolds, PTL DEF TableSpec, WalkReachesSomebodyAwake

(* The turn goes by nobody dying without a save rolled for them.           *)
THEOREM TheDyingAreNotSteppedOver == TableSpec => DyingNotSteppedOver
<1> DEFINE A == \A c, d \in Combatant :
                  table.turn = c /\ ComesTo(d) /\ ~RunTurn("begin")
                    => \A e \in PC : GoesBy(c, e, d) /\ Dying(table, e) => Rolled(e)
<1>1. ASSUME TableInv, [TableNext]_tableVars PROVE A
  <2> SUFFICES ASSUME NEW c \in Combatant, NEW d \in Combatant, table.turn = c,
                      ComesTo(d), ~RunTurn("begin"),
                      NEW e \in PC, GoesBy(c, e, d), Dying(table, e)
               PROVE  Rolled(e)
    OBVIOUS
  <2>1. GoesByNobodyDying(table, table') /\ table' \in Tables /\ table \in Tables /\ e \in Combatant
    BY <1>1, TableStepsAreOrderly, RefereeAssumption DEF Orderly, IsATable, TableInv
  <2>2. table'.turn = d /\ TurnMoves(table, table') /\ table.begun
    BY <1>1, CombatantAssumption DEF ComesTo, TurnMoves, TableInv, IsATable
  <2>3. Worse(table.life[e], table'.life[e])
    BY <2>1, <2>2 DEF GoesByNobodyDying, NobodySteppedOver
  <2>4. table'.life[e] # table.life[e]
    BY <2>1, <2>3, LivesAreLives, WorseAndWorse
  <2> QED
    BY <2>4 DEF Rolled, Dying
<1>2. TableInv /\ [TableNext]_tableVars => [A]_tableVars
  BY <1>1
<1> QED
  BY <1>2, TableHolds, PTL DEF TableSpec, DyingNotSteppedOver
=============================================================================
