---------------------------- MODULE OffersProofs -----------------------------
(***************************************************************************)
(* A turn's worth of walking and one blow, whichever doors a turn is taken *)
(* through; and a player's app that shows a turn exactly as long as it is  *)
(* to be had: proofs about Offers.                                         *)
(***************************************************************************)
EXTENDS Offers, Least, TLAPS

Request == [id : Ask, kind : {"propose", "move", "swing"}, who : Combatant,
            to : Square \cup {Stay}, hits : BOOLEAN]

HostTyped ==
  /\ waiting \in Combatant \cup {NoOne}
  /\ offers \subseteq Turn
  /\ bend \subseteq Request
  /\ asks \in 0 .. MaxAsks

FightTyped ==
  /\ square \in [Combatant -> Square]
  /\ turn \in Combatant
  /\ moved \in 0 .. Speed /\ acted \in BOOLEAN
  /\ budget \in [walked : Nat, struck : Nat]

(* What is spent in the database covers what was done within the rules.    *)
(* (Not the other way about: a bend spends an action and is not counted.)  *)
SpentCovers ==
  /\ budget.walked <= moved
  /\ budget.struck <= 1
  /\ budget.struck = 1 => acted

FightInv == FightTyped /\ SpentCovers

-----------------------------------------------------------------------------
(* The rules of a turn                                                     *)

LEMMA TheOther ==
  ASSUME NEW c \in Combatant
  PROVE  Other(c) \in Combatant /\ Other(c) # c
BY OffersAssumption DEF Other, Combatant

LEMMA DistanceIsNat ==
  ASSUME FightTyped, NEW c \in Combatant, NEW to \in Square
  PROVE  Distance(c, to) \in Nat
<1>1. square[c] \in Nat /\ to \in Nat
  BY OffersAssumption DEF FightTyped, Square
<1> QED
  BY <1>1 DEF Distance

(* A walk is paid for if it is no further than what is left, and a bend    *)
(* spends nothing.                                                         *)
LEMMA WalkedIsCovered ==
  ASSUME FightInv, UNCHANGED turn,
         NEW c \in Combatant, NEW to \in Square \cup {Stay},
         NEW spending \in BOOLEAN, NEW bent \in BOOLEAN,
         Walked(c, to, spending, bent), spending => ~TooFar(c, to)
  PROVE  FightInv'
<1> DEFINE arrives == to # Stay /\ ~Taken(c, to)
           steps == IF arrives THEN Distance(c, to) ELSE 0
<1>1. steps \in Nat /\ Speed \in Nat /\ moved \in Nat /\ moved <= Speed
  BY DistanceIsNat, OffersAssumption DEF FightInv, FightTyped
<1>2. spending => steps <= Speed - moved
  BY <1>1 DEF TooFar
<1>3. square' \in [Combatant -> Square]
  BY DEF Walked, FightInv, FightTyped
<1>4. /\ moved' = IF spending /\ turn = c THEN Lesser(Speed, moved + steps) ELSE moved
      /\ budget' = IF spending /\ turn = c /\ ~bent
                   THEN [budget EXCEPT !.walked = @ + steps] ELSE budget
      /\ acted' = acted
  BY DEF Walked
<1> HIDE DEF steps
<1>5. spending /\ turn = c => moved' = moved + steps
  BY <1>1, <1>2, <1>4 DEF Lesser
<1>6. CASE spending /\ turn = c /\ ~bent
  BY <1>1, <1>2, <1>3, <1>4, <1>5, <1>6 DEF FightInv, FightTyped, SpentCovers
<1>7. CASE ~ (spending /\ turn = c /\ ~bent)
  BY <1>1, <1>2, <1>3, <1>4, <1>5, <1>7 DEF FightInv, FightTyped, SpentCovers
<1> QED
  BY <1>6, <1>7

LEMMA SwungIsCovered ==
  ASSUME FightInv, UNCHANGED turn, NEW c \in Combatant, NEW bent \in BOOLEAN,
         Swung(c, bent), bent \/ ~AlreadyActed(c)
  PROVE  FightInv'
<1>1. turn = c /\ ~bent => ~acted
  BY DEF AlreadyActed
<1>2. /\ acted' = (acted \/ turn = c)
      /\ budget' = IF turn = c /\ ~bent THEN [budget EXCEPT !.struck = @ + 1] ELSE budget
      /\ UNCHANGED <<square, moved>>
  BY DEF Swung
<1>3. acted' \in BOOLEAN /\ (acted => acted') /\ (turn = c => acted')
  BY <1>2 DEF FightInv, FightTyped
<1>4. CASE turn = c /\ ~bent
  <2>1. budget.struck # 1
    BY <1>1, <1>4 DEF FightInv, SpentCovers
  <2>2. /\ budget' \in [walked : Nat, struck : Nat]
        /\ budget'.struck = 1 /\ budget'.walked = budget.walked
    BY <1>2, <1>4, <2>1 DEF FightInv, FightTyped, SpentCovers
  <2> QED
    BY <1>2, <1>3, <1>4, <2>2 DEF FightInv, FightTyped, SpentCovers
<1>5. CASE ~ (turn = c /\ ~bent)
  <2>1. UNCHANGED <<square, turn, moved, budget>>
    BY <1>2, <1>5
  <2> QED
    BY <1>3, <2>1 DEF FightInv, FightTyped, SpentCovers
<1> QED
  BY <1>4, <1>5

LEMMA PassesIsCovered ==
  ASSUME FightInv, NEW told, Passes(told)
  PROVE  FightInv'
<1>1. turn' \in Combatant
  BY TheOther DEF Passes, FightInv, FightTyped
<1>2. /\ moved' = 0 /\ acted' = FALSE /\ UNCHANGED square
      /\ budget' = [walked |-> 0, struck |-> 0]
  BY DEF Passes
<1>3. Speed \in Nat /\ 0 \in 0 .. Speed
  BY OffersAssumption
<1>4. square' \in [Combatant -> Square] /\ acted' \in BOOLEAN
  BY <1>2 DEF FightInv, FightTyped
<1>5. /\ budget' \in [walked : Nat, struck : Nat]
      /\ budget'.walked <= moved' /\ budget'.struck = 0
  BY <1>2
<1> QED
  BY <1>1, <1>2, <1>3, <1>4, <1>5 DEF FightInv, FightTyped, SpentCovers

LEMMA CarryOutIsCovered ==
  ASSUME FightInv, UNCHANGED turn, NEW t \in Turn, CarryOut(t)
  PROVE  FightInv'
<1> DEFINE walks == StillCanWalk(t, t.to)
           at == IF walks THEN t.to ELSE square[Hero]
           gap == IF at < square[Monster] THEN square[Monster] - at ELSE at - square[Monster]
           hits == t.hits /\ gap <= 1 /\ (t.bent \/ ~AlreadyActed(Hero))
           steps == IF walks THEN Distance(Hero, t.to) ELSE 0
<1>0. t.to \in Square \cup {Stay} /\ t.bent \in BOOLEAN /\ Hero \in Combatant
  BY DEF Turn, Combatant
<1>1. /\ steps \in Nat /\ Speed \in Nat /\ moved \in Nat /\ moved <= Speed
      /\ at \in Square
  BY <1>0, DistanceIsNat, OffersAssumption DEF StillCanWalk, FightInv, FightTyped
<1>2. ~t.bent => steps <= Speed - moved
  BY <1>0, <1>1 DEF StillCanWalk, TooFar
<1>3. hits /\ turn = Hero /\ ~t.bent => ~acted
  BY DEF AlreadyActed
<1>4. /\ square' = [square EXCEPT ![Hero] = at]
      /\ moved' = IF turn = Hero THEN Lesser(Speed, moved + steps) ELSE moved
      /\ acted' = (acted \/ (hits /\ turn = Hero))
      /\ budget' = IF turn = Hero /\ ~t.bent
                   THEN [walked |-> budget.walked + steps,
                         struck |-> budget.struck + (IF hits THEN 1 ELSE 0)]
                   ELSE budget
  BY DEF CarryOut
<1> HIDE DEF steps, hits, at
<1>5. /\ moved' \in 0 .. Speed /\ moved' >= moved
      /\ ~t.bent /\ turn = Hero => moved' = moved + steps
  BY <1>1, <1>2, <1>4 DEF Lesser
<1>6. square' \in [Combatant -> Square] /\ acted' \in BOOLEAN /\ turn' \in Combatant
  BY <1>0, <1>1, <1>4 DEF FightInv, FightTyped
<1>7. CASE turn = Hero /\ ~t.bent
  <2>1. budget'.walked = budget.walked + steps
    BY <1>4, <1>7
  <2>2. budget'.struck = budget.struck + (IF hits THEN 1 ELSE 0)
    BY <1>4, <1>7
  <2>3. budget' \in [walked : Nat, struck : Nat]
    BY <1>1, <1>4, <1>7 DEF FightInv, FightTyped
  <2>4. budget'.struck <= 1 /\ (budget'.struck = 1 => acted')
    <3>1. CASE hits
      <4>1. budget.struck # 1 /\ acted'
        BY <1>3, <1>4, <1>7, <3>1 DEF FightInv, SpentCovers
      <4> QED
        BY <2>2, <3>1, <4>1 DEF FightInv, FightTyped, SpentCovers
    <3>2. CASE ~hits
      <4>1. (acted => acted') /\ budget'.struck = budget.struck
        BY <1>4, <2>2, <3>2 DEF FightInv, FightTyped
      <4> QED
        BY <4>1 DEF FightInv, SpentCovers
    <3> QED
      BY <3>1, <3>2
  <2>5. budget'.walked <= moved'
    BY <1>1, <1>5, <1>7, <2>1 DEF FightInv, FightTyped, SpentCovers
  <2> QED
    BY <1>5, <1>6, <2>3, <2>4, <2>5 DEF FightInv, FightTyped, SpentCovers
<1>8. CASE ~ (turn = Hero /\ ~t.bent)
  BY <1>1, <1>4, <1>5, <1>6, <1>8 DEF FightInv, FightTyped, SpentCovers
<1> QED
  BY <1>7, <1>8

-----------------------------------------------------------------------------
(* What is on its way                                                      *)

Frame == [type : {"action", "action_gone"}, id : Ask]
           \cup [type : {"your_turn"}, on : BOOLEAN]

Reply == [type : {"acted"}, id : Ask \cup {0}, yes : BOOLEAN]
           \cup [type : {"move"}, to : Square]
           \cup [type : {"done", "said", "swing"}]

Typed ==
  /\ wire \in Seq(Frame) /\ answers \in Seq(Reply)
  /\ held \in Ask \cup {0} /\ frozen \in Ask \cup {0}

(* The ids there has been a word of, or will be.                           *)
Mentioned(q) == {q[i].id : i \in {j \in 1 .. Len(q) : q[j].type # "your_turn"}}

(* An id is handed out once, and until the DM has answered there is no     *)
(* word of the turn it stands for.                                         *)
IdsAreFresh ==
  /\ \A o, p \in offers : o = p
  /\ Mentioned(wire) \cup Ids(offers) \subseteq 1 .. asks
  /\ \A b \in bend : b.id \in (1 .. asks) \ (Mentioned(wire) \cup Ids(offers))

NoActions(q) == \A j \in 1 .. Len(q) : q[j].type # "action"

(* id is the last turn the frames of q put to anybody.                     *)
PutsLast(q, id) ==
  \E i \in 1 .. Len(q) :
    /\ q[i] = ActionFrame(id)
    /\ \A j \in i + 1 .. Len(q) : q[j].type # "action"

(* The i-th frame of q puts a turn to somebody that the rest takes back.   *)
TakenBack(q, i, id) == \E j \in i + 1 .. Len(q) : q[j] = GoneFrame(id)

(* What is on offer is the last that was put to anybody, whether the app   *)
(* has read it yet or not, and it has not been taken back.                 *)
OffersReach ==
  \A id \in Ids(offers) :
    /\ PutsLast(wire, id) \/ (NoActions(wire) /\ (held = id \/ Answering(id)))
    /\ ~OnTheWay(GoneFrame(id), wire)

(* What is shown, or is about to be, is on offer or is taken back after.   *)
ShowingIsOffered ==
  /\ \A id \in Ask :
       held = id \/ frozen = id => id \in Ids(offers) \/ OnTheWay(GoneFrame(id), wire)
  /\ \A i \in 1 .. Len(wire) : \A id \in Ask :
       wire[i] = ActionFrame(id) => id \in Ids(offers) \/ TakenBack(wire, i, id)

WordInv == Typed /\ IdsAreFresh /\ OffersReach /\ ShowingIsOffered

-----------------------------------------------------------------------------
(* Frames put on a queue and taken off it                                  *)

LEMMA OnTheWayAtTheEnd ==
  ASSUME NEW S, NEW w \in Seq(S), NEW v \in Seq(S), NEW f
  PROVE  OnTheWay(f, w \o v) <=> OnTheWay(f, w) \/ OnTheWay(f, v)
<1>1. /\ DOMAIN w = 1 .. Len(w) /\ DOMAIN v = 1 .. Len(v)
      /\ DOMAIN (w \o v) = 1 .. Len(w \o v)
  BY AtTheEnd, LenProperties
<1> DEFINE u == w \o v
<1>2. ASSUME NEW i \in 1 .. Len(w) PROVE i \in 1 .. Len(u) /\ u[i] = w[i]
  BY AtTheEnd
<1>3. ASSUME NEW k \in 1 .. Len(v)
      PROVE  Len(w) + k \in 1 .. Len(u) /\ u[Len(w) + k] = v[k]
  BY AtTheEnd
<1>4. ASSUME NEW i \in 1 .. Len(u)
      PROVE  (i \in 1 .. Len(w) /\ u[i] = w[i])
               \/ \E k \in 1 .. Len(v) : i = Len(w) + k /\ u[i] = v[k]
  BY AtTheEnd
<1> HIDE DEF u
<1> QED
  BY <1>1, <1>2, <1>3, <1>4 DEF OnTheWay, u

LEMMA OnTheWayTakenOff ==
  ASSUME NEW S, NEW w \in Seq(S), w # <<>>, NEW f
  PROVE  OnTheWay(f, w) <=> f = Head(w) \/ OnTheWay(f, Tail(w))
<1>1. DOMAIN w = 1 .. Len(w) /\ DOMAIN Tail(w) = 1 .. Len(Tail(w))
  BY TakenOff, LenProperties
<1>2. ASSUME OnTheWay(f, w) PROVE f = Head(w) \/ OnTheWay(f, Tail(w))
  <2>1. PICK i \in 1 .. Len(w) : w[i] = f
    BY <1>1, <1>2 DEF OnTheWay
  <2>2. i = 1 \/ (i - 1 \in 1 .. Len(Tail(w)) /\ w[i] = Tail(w)[i - 1])
    BY TakenOff
  <2> QED
    BY <1>1, <2>1, <2>2, TakenOff DEF OnTheWay
<1>3. ASSUME f = Head(w) PROVE OnTheWay(f, w)
  <2>1. 1 \in 1 .. Len(w) /\ w[1] = f
    BY <1>3, TakenOff
  <2> QED
    BY <1>1, <2>1 DEF OnTheWay
<1>4. ASSUME OnTheWay(f, Tail(w)) PROVE OnTheWay(f, w)
  BY <1>1, <1>4, TakenOff DEF OnTheWay
<1> QED
  BY <1>2, <1>3, <1>4

(* The frames of a kind that go on the queue are those of both.            *)
LEMMA MentionedAtTheEnd ==
  ASSUME NEW w \in Seq(Frame), NEW v \in Seq(Frame)
  PROVE  Mentioned(w \o v) = Mentioned(w) \cup Mentioned(v)
<1> DEFINE u == w \o v
<1>1. ASSUME NEW i \in 1 .. Len(w) PROVE i \in 1 .. Len(u) /\ u[i] = w[i]
  BY AtTheEnd
<1>2. ASSUME NEW k \in 1 .. Len(v)
      PROVE  Len(w) + k \in 1 .. Len(u) /\ u[Len(w) + k] = v[k]
  BY AtTheEnd
<1>3. ASSUME NEW i \in 1 .. Len(u)
      PROVE  (i \in 1 .. Len(w) /\ u[i] = w[i])
               \/ \E k \in 1 .. Len(v) : i = Len(w) + k /\ u[i] = v[k]
  BY AtTheEnd
<1> HIDE DEF u
<1>4. Mentioned(u) \subseteq Mentioned(w) \cup Mentioned(v)
  BY <1>3 DEF Mentioned
<1>5. Mentioned(w) \subseteq Mentioned(u) /\ Mentioned(v) \subseteq Mentioned(u)
  BY <1>1, <1>2 DEF Mentioned
<1> QED
  BY <1>4, <1>5 DEF u

LEMMA MentionedTakenOff ==
  ASSUME NEW w \in Seq(Frame), w # <<>>
  PROVE  Mentioned(Tail(w)) \subseteq Mentioned(w)
BY TakenOff DEF Mentioned

LEMMA NoActionsAtTheEnd ==
  ASSUME NEW w \in Seq(Frame), NEW v \in Seq(Frame), NoActions(v)
  PROVE  /\ NoActions(w) => NoActions(w \o v)
         /\ \A id : PutsLast(w, id) => PutsLast(w \o v, id)
<1> DEFINE u == w \o v
<1>0. Len(w) \in Nat /\ Len(u) \in Nat /\ Len(w) <= Len(u)
  BY AtTheEnd
<1>1. ASSUME NEW i \in 1 .. Len(w) PROVE i \in 1 .. Len(u) /\ u[i] = w[i]
  BY AtTheEnd
<1>2. ASSUME NEW i \in 1 .. Len(u)
      PROVE  (i \in 1 .. Len(w) /\ u[i] = w[i]) \/ u[i].type # "action"
  BY AtTheEnd DEF NoActions
<1> HIDE DEF u
<1>3. NoActions(w) => NoActions(u)
  BY <1>2 DEF NoActions
<1>4. ASSUME NEW id, PutsLast(w, id)
      PROVE  PutsLast(u, id)
  <2>1. PICK i \in 1 .. Len(w) : /\ w[i] = ActionFrame(id)
                                  /\ \A j \in i + 1 .. Len(w) : w[j].type # "action"
    BY <1>4 DEF PutsLast
  <2>2. ASSUME NEW j \in i + 1 .. Len(u) PROVE u[j].type # "action"
    <3>1. j \in 1 .. Len(u) /\ (j \in 1 .. Len(w) => j \in i + 1 .. Len(w))
      BY <1>0
    <3> QED
      BY <1>2, <2>1, <3>1
  <2> QED
    BY <1>1, <2>1, <2>2 DEF PutsLast
<1> QED
  BY <1>3, <1>4 DEF u

LEMMA NoActionsTakenOff ==
  ASSUME NEW w \in Seq(Frame), w # <<>>, NoActions(w)
  PROVE  NoActions(Tail(w))
BY TakenOff DEF NoActions

LEMMA PutsLastTakenOff ==
  ASSUME NEW w \in Seq(Frame), w # <<>>, NEW id, PutsLast(w, id)
  PROVE  \/ PutsLast(Tail(w), id)
         \/ Head(w) = ActionFrame(id) /\ NoActions(Tail(w))
<1> DEFINE t == Tail(w)
<1>0. /\ Len(w) \in Nat /\ Len(t) \in Nat /\ Len(t) = Len(w) - 1 /\ w[1] = Head(w)
      /\ \A i \in 1 .. Len(t) : i + 1 \in 1 .. Len(w) /\ t[i] = w[i + 1]
      /\ \A i \in 1 .. Len(w) : i = 1 \/ (i - 1 \in 1 .. Len(t) /\ w[i] = t[i - 1])
  BY TakenOff
<1> HIDE DEF t
<1>1. PICK i \in 1 .. Len(w) : /\ w[i] = ActionFrame(id)
                                /\ \A j \in i + 1 .. Len(w) : w[j].type # "action"
  BY DEF PutsLast
<1>2. CASE i = 1
  <2>1. \A j \in 1 .. Len(t) : j + 1 \in 2 .. Len(w) /\ t[j] = w[j + 1]
    BY <1>0
  <2> QED
    BY <1>0, <1>1, <1>2, <2>1 DEF NoActions, t
<1>3. CASE i # 1
  <2>1. i - 1 \in 1 .. Len(t) /\ t[i - 1] = ActionFrame(id)
    BY <1>0, <1>1, <1>3
  <2>2. \A j \in i .. Len(t) : j + 1 \in i + 1 .. Len(w) /\ t[j] = w[j + 1]
    BY <1>0
  <2>3. ASSUME NEW j \in (i - 1) + 1 .. Len(t)
        PROVE  t[j].type # "action"
    <3>1. j \in i .. Len(t)
      BY <1>0
    <3> QED
      BY <1>1, <2>2, <3>1
  <2> QED
    BY <2>1, <2>3 DEF PutsLast, t
<1> QED
  BY <1>2, <1>3

(* What is taken back stays taken back, and so does what is put now, if it *)
(* is on offer.                                                            *)
LEMMA TakenBackAtTheEnd ==
  ASSUME NEW w \in Seq(Frame), NEW v \in Seq(Frame), NEW i \in 1 .. Len(w), NEW id,
         TakenBack(w, i, id) \/ OnTheWay(GoneFrame(id), v)
  PROVE  TakenBack(w \o v, i, id)
<1> DEFINE u == w \o v
<1>a. /\ Len(w) \in Nat /\ Len(v) \in Nat /\ Len(u) = Len(w) + Len(v)
  BY AtTheEnd
<1>b. \A j \in 1 .. Len(w) : u[j] = w[j]
  BY AtTheEnd
<1>c. \A k \in 1 .. Len(v) : u[Len(w) + k] = v[k]
  BY AtTheEnd
<1>0. /\ Len(w) \in Nat /\ Len(v) \in Nat /\ Len(u) = Len(w) + Len(v)
      /\ \A j \in 1 .. Len(w) : u[j] = w[j]
      /\ \A k \in 1 .. Len(v) : u[Len(w) + k] = v[k]
  BY <1>a, <1>b, <1>c
<1>1. DOMAIN v = 1 .. Len(v)
  BY LenProperties
<1> HIDE DEF u
<1>2. CASE TakenBack(w, i, id)
  <2>1. PICK j \in i + 1 .. Len(w) : w[j] = GoneFrame(id)
    BY <1>2 DEF TakenBack
  <2>2. j \in i + 1 .. Len(u) /\ u[j] = GoneFrame(id)
    BY <1>0, <2>1
  <2> QED
    BY <2>2 DEF TakenBack, u
<1>3. CASE OnTheWay(GoneFrame(id), v)
  <2>1. PICK k \in 1 .. Len(v) : v[k] = GoneFrame(id)
    BY <1>1, <1>3 DEF OnTheWay
  <2>2. Len(w) + k \in i + 1 .. Len(u) /\ u[Len(w) + k] = GoneFrame(id)
    BY <1>0, <2>1
  <2> QED
    BY <2>2 DEF TakenBack, u
<1> QED
  BY <1>2, <1>3

LEMMA TakenBackTakenOff ==
  ASSUME NEW w \in Seq(Frame), w # <<>>, NEW i \in 1 .. Len(w), NEW id,
         TakenBack(w, i, id)
  PROVE  /\ OnTheWay(GoneFrame(id), Tail(w))
         /\ i # 1 => TakenBack(Tail(w), i - 1, id)
<1> DEFINE t == Tail(w)
<1>0. /\ Len(w) \in Nat /\ Len(t) = Len(w) - 1 /\ DOMAIN t = 1 .. Len(t)
      /\ \A j \in 1 .. Len(w) : j = 1 \/ (j - 1 \in 1 .. Len(t) /\ w[j] = t[j - 1])
  BY TakenOff, LenProperties
<1> HIDE DEF t
<1>1. PICK j \in i + 1 .. Len(w) : w[j] = GoneFrame(id)
  BY DEF TakenBack
<1>2. j - 1 \in 1 .. Len(t) /\ t[j - 1] = GoneFrame(id) /\ (i # 1 => j - 1 \in (i - 1) + 1 .. Len(t))
  BY <1>0, <1>1
<1>3. OnTheWay(GoneFrame(id), t)
  BY <1>0, <1>2 DEF OnTheWay
<1>4. i # 1 => TakenBack(t, i - 1, id)
  BY <1>2 DEF TakenBack
<1> QED
  BY <1>3, <1>4 DEF t

LEMMA FramesDiffer ==
  ASSUME NEW id, NEW k, NEW on
  PROVE  /\ ActionFrame(id) = ActionFrame(k) => id = k
         /\ GoneFrame(id) = GoneFrame(k) => id = k
         /\ ActionFrame(id) # GoneFrame(k)
         /\ GoneFrame(id).type # "action" /\ GoneFrame(id).type # "your_turn"
         /\ ActionFrame(id).type = "action"
         /\ StillYours(on).type = "your_turn"
         /\ StillYours(on) # ActionFrame(id) /\ StillYours(on) # GoneFrame(id)
         /\ GoneFrame(id).id = id /\ ActionFrame(id).id = id
<1>1. /\ ActionFrame(id).type = "action" /\ ActionFrame(id).id = id
      /\ GoneFrame(id).type = "action_gone" /\ GoneFrame(id).id = id
      /\ StillYours(on).type = "your_turn"
      /\ ActionFrame(k).id = k /\ GoneFrame(k).id = k /\ GoneFrame(k).type = "action_gone"
  BY DEF ActionFrame, GoneFrame, StillYours
<1> QED
  BY <1>1

-----------------------------------------------------------------------------
(* The host's side of it                                                   *)

(* Nothing new is put to anybody: what is withdrawn is said to be, and     *)
(* only that; at most an id is handed out for the DM to be asked about.    *)
LEMMA NothingPut ==
  ASSUME WordInv, UNCHANGED app,
         NEW v \in Seq(Frame), wire' = wire \o v, NoActions(v),
         offers' \subseteq offers, Mentioned(v) \subseteq Ids(offers),
         \A id \in Ids(offers) : OnTheWay(GoneFrame(id), v) <=> id \notin Ids(offers'),
         \/ asks' = asks /\ bend' \subseteq bend
         \/ asks' = asks + 1 /\ \A b \in bend' : b.id = asks + 1,
         asks \in Nat, answers' \in Seq(Reply),
         \A id \in Ids(offers') : Answering(id) => Answering(id)'
  PROVE  WordInv'
<1> USE DEF WordInv
<1>1. Typed'
  BY AtTheEnd DEF Typed, app
<1>2. Ids(offers') \subseteq Ids(offers)
  BY DEF Ids
<1>3. IdsAreFresh'
  <2>1. Mentioned(wire') \cup Ids(offers') \subseteq Mentioned(wire) \cup Ids(offers)
    BY <1>2, MentionedAtTheEnd DEF Typed
  <2>2. CASE asks' = asks /\ bend' \subseteq bend
    BY <2>1, <2>2 DEF IdsAreFresh
  <2>3. CASE asks' = asks + 1 /\ \A b \in bend' : b.id = asks + 1
    <3>1. 1 .. asks \subseteq 1 .. asks' /\ asks + 1 \in 1 .. asks' /\ asks + 1 \notin 1 .. asks
      BY <2>3
    <3> QED
      BY <2>1, <2>3, <3>1 DEF IdsAreFresh
  <2> QED
    BY <2>2, <2>3
<1>4. \A id : OnTheWay(GoneFrame(id), wire') <=>
              OnTheWay(GoneFrame(id), wire) \/ OnTheWay(GoneFrame(id), v)
  BY OnTheWayAtTheEnd DEF Typed
<1>5. OffersReach'
  <2>1. ASSUME NEW id \in Ids(offers')
        PROVE  /\ PutsLast(wire', id) \/ (NoActions(wire') /\ (held' = id \/ Answering(id)'))
               /\ ~OnTheWay(GoneFrame(id), wire')
    <3>1. /\ PutsLast(wire, id) \/ (NoActions(wire) /\ (held = id \/ Answering(id)))
          /\ ~OnTheWay(GoneFrame(id), wire)
      BY <1>2, <2>1 DEF OffersReach
    <3>2. ~OnTheWay(GoneFrame(id), wire')
      BY <1>2, <1>4, <2>1, <3>1
    <3>3. held' = held
      BY DEF app
    <3> QED
      BY <2>1, <3>1, <3>2, <3>3, NoActionsAtTheEnd DEF Typed
  <2> QED
    BY <2>1 DEF OffersReach
<1>6. ASSUME NEW id \in Ids(offers)
      PROVE  id \in Ids(offers') \/ OnTheWay(GoneFrame(id), v)
  BY <1>6
<1>7. ShowingIsOffered'
  <2>1. ASSUME NEW id \in Ask, held' = id \/ frozen' = id
        PROVE  id \in Ids(offers') \/ OnTheWay(GoneFrame(id), wire')
    <3>1. held = id \/ frozen = id
      BY <2>1 DEF app
    <3>2. id \in Ids(offers) \/ OnTheWay(GoneFrame(id), wire)
      BY <3>1 DEF ShowingIsOffered
    <3> QED
      BY <1>4, <1>6, <3>2
  <2>2. ASSUME NEW i \in 1 .. Len(wire'), NEW id \in Ask, wire'[i] = ActionFrame(id)
        PROVE  id \in Ids(offers') \/ TakenBack(wire', i, id)
    <3>1. i \in 1 .. Len(wire) /\ wire[i] = ActionFrame(id)
      <4>1. ActionFrame(id).type = "action"
        BY DEF ActionFrame
      <4>2. \A k \in 1 .. Len(v) : v[k] # ActionFrame(id)
        BY <4>1 DEF NoActions
      <4> QED
        BY <2>2, <4>2, AtTheEnd DEF Typed
    <3>2. id \in Ids(offers) \/ TakenBack(wire, i, id)
      BY <3>1 DEF ShowingIsOffered
    <3> QED
      BY <1>6, <3>1, <3>2, TakenBackAtTheEnd DEF Typed
  <2> QED
    BY <2>1, <2>2 DEF ShowingIsOffered
<1> QED
  BY <1>1, <1>3, <1>5, <1>7

LEMMA TakenBackIsMentioned ==
  ASSUME NEW w \in Seq(Frame), NEW id, OnTheWay(GoneFrame(id), w)
  PROVE  id \in Mentioned(w)
<1>1. PICK i \in 1 .. Len(w) : w[i] = GoneFrame(id)
  BY LenProperties DEF OnTheWay
<1>2. GoneFrame(id).type # "your_turn" /\ GoneFrame(id).id = id
  BY FramesDiffer
<1> QED
  BY <1>1, <1>2 DEF Mentioned

(* The last frame of v puts the turn id, and no other frame of v puts one. *)
PutsOnly(v, id) ==
  /\ Len(v) >= 1 /\ v[Len(v)] = ActionFrame(id)
  /\ \A k \in 1 .. Len(v) : k = Len(v) \/ v[k].type # "action"

LEMMA PutAfter ==
  ASSUME NEW id \in Ask, NEW u \in Seq(Frame), NoActions(u), NEW v,
         v = u \o <<ActionFrame(id)>>
  PROVE  /\ v \in Seq(Frame) /\ PutsOnly(v, id)
         /\ Mentioned(v) = Mentioned(u) \cup {id}
         /\ \A k : OnTheWay(GoneFrame(k), v) <=> OnTheWay(GoneFrame(k), u)
<1> DEFINE last == <<ActionFrame(id)>>
<1>0. ActionFrame(id) \in Frame
  BY DEF ActionFrame, Frame
<1>1. last \in Seq(Frame) /\ Len(last) = 1 /\ last[1] = ActionFrame(id) /\ DOMAIN last = {1}
  BY <1>0
<1>2. v = u \o last
  OBVIOUS
<1> HIDE DEF last
<1>3. /\ v \in Seq(Frame) /\ Len(u) \in Nat /\ Len(v) = Len(u) + 1
      /\ \A k \in 1 .. Len(u) : v[k] = u[k]
      /\ \A k \in 1 .. Len(last) : v[Len(u) + k] = last[k]
  BY <1>1, <1>2, AtTheEnd
<1>4. PutsOnly(v, id)
  BY <1>1, <1>3 DEF PutsOnly, NoActions
<1>5. Mentioned(v) = Mentioned(u) \cup {id}
  <2>1. Mentioned(v) = Mentioned(u) \cup Mentioned(last)
    BY <1>1, <1>2, MentionedAtTheEnd
  <2>2. ActionFrame(id).type # "your_turn" /\ ActionFrame(id).id = id
    BY FramesDiffer
  <2>3. Mentioned(last) = {id}
    BY <1>1, <2>2 DEF Mentioned
  <2> QED
    BY <2>1, <2>3
<1>6. ASSUME NEW k PROVE OnTheWay(GoneFrame(k), v) <=> OnTheWay(GoneFrame(k), u)
  <2>1. ActionFrame(id) # GoneFrame(k)
    BY FramesDiffer
  <2>2. ~OnTheWay(GoneFrame(k), last)
    BY <1>1, <2>1 DEF OnTheWay
  <2>3. OnTheWay(GoneFrame(k), u \o last) <=> OnTheWay(GoneFrame(k), u) \/ OnTheWay(GoneFrame(k), last)
    BY <1>1, OnTheWayAtTheEnd
  <2> QED
    BY <1>2, <2>2, <2>3
<1> QED
  BY <1>3, <1>4, <1>5, <1>6

(* A turn is put to the player, and the one before it taken back first.    *)
LEMMA SomethingPut ==
  ASSUME WordInv, UNCHANGED <<app, answers>>, NEW t \in Turn,
         NEW v \in Seq(Frame), wire' = wire \o v, PutsOnly(v, t.id),
         offers' = {t}, Mentioned(v) = Ids(offers) \cup {t.id},
         \A id \in Ids(offers) : OnTheWay(GoneFrame(id), v),
         ~OnTheWay(GoneFrame(t.id), v),
         asks \in Nat, asks' \in Nat, asks <= asks', bend' \subseteq bend,
         \A b \in bend' : b.id # t.id,
         t.id \in (1 .. asks') \ (Mentioned(wire) \cup Ids(offers))
  PROVE  WordInv'
<1> USE DEF WordInv
<1>0. wire \in Seq(Frame) /\ t.id \in Ask
  BY DEF Typed, Turn
<1>1. Ids(offers') = {t.id}
  BY DEF Ids
<1>3. Mentioned(wire') = Mentioned(wire) \cup Ids(offers) \cup {t.id}
  BY <1>0, MentionedAtTheEnd
<1>4. \A id : OnTheWay(GoneFrame(id), wire') <=>
              OnTheWay(GoneFrame(id), wire) \/ OnTheWay(GoneFrame(id), v)
  BY <1>0, OnTheWayAtTheEnd
<1>5. /\ Len(wire) \in Nat /\ Len(v) \in Nat
      /\ Len(wire') = Len(wire) + Len(v) /\ wire' \in Seq(Frame)
      /\ \A i \in 1 .. Len(wire) : wire'[i] = wire[i]
      /\ \A k \in 1 .. Len(v) : wire'[Len(wire) + k] = v[k]
      /\ \A i \in 1 .. Len(wire') :
           i \in 1 .. Len(wire) \/ \E k \in 1 .. Len(v) : i = Len(wire) + k
  BY <1>0, AtTheEnd
<1>d. 1 .. asks \subseteq 1 .. asks' /\ t.id \in 1 .. asks' /\ t.id \notin Mentioned(wire) \cup Ids(offers)
  OBVIOUS
<1>6. Typed'
  BY <1>5 DEF Typed, app
<1>7. IdsAreFresh'
  <2>1. \A o, p \in offers' : o = p
    OBVIOUS
  <2>2. Mentioned(wire) \cup Ids(offers) \subseteq 1 .. asks'
    BY <1>d DEF IdsAreFresh
  <2>3. Mentioned(wire') \cup Ids(offers') \subseteq 1 .. asks'
    BY <1>1, <1>3, <1>d, <2>2
  <2>4. ASSUME NEW b \in bend'
        PROVE  b.id \in (1 .. asks') \ (Mentioned(wire') \cup Ids(offers'))
    <3>1. b.id \in 1 .. asks' /\ b.id \notin Mentioned(wire) \cup Ids(offers) /\ b.id # t.id
      BY <1>d DEF IdsAreFresh
    <3> QED
      BY <1>1, <1>3, <3>1
  <2> QED
    BY <2>1, <2>3, <2>4 DEF IdsAreFresh
<1>8. OffersReach'
  <2>1. PutsLast(wire', t.id)
    <3>1. Len(wire') \in 1 .. Len(wire') /\ wire'[Len(wire')] = ActionFrame(t.id)
      BY <1>5 DEF PutsOnly
    <3>2. Len(wire') + 1 .. Len(wire') = {}
      BY <1>5
    <3> QED
      BY <3>1, <3>2 DEF PutsLast
  <2>2. ~OnTheWay(GoneFrame(t.id), wire')
    BY <1>0, <1>4, <1>d, TakenBackIsMentioned
  <2> QED
    BY <1>1, <2>1, <2>2 DEF OffersReach
<1>9. ShowingIsOffered'
  <2>1. ASSUME NEW id \in Ask, held' = id \/ frozen' = id
        PROVE  OnTheWay(GoneFrame(id), wire')
    <3>1. id \in Ids(offers) \/ OnTheWay(GoneFrame(id), wire)
      BY <2>1 DEF ShowingIsOffered, app
    <3> QED
      BY <1>4, <3>1
  <2>2. ASSUME NEW i \in 1 .. Len(wire'), NEW id \in Ask, wire'[i] = ActionFrame(id)
        PROVE  id \in Ids(offers') \/ TakenBack(wire', i, id)
    <3>1. CASE i \in 1 .. Len(wire)
      <4>1. id \in Ids(offers) \/ TakenBack(wire, i, id)
        BY <1>5, <2>2, <3>1 DEF ShowingIsOffered
      <4>2. OnTheWay(GoneFrame(id), v) \/ TakenBack(wire, i, id)
        BY <4>1
      <4> QED
        BY <1>0, <3>1, <4>2, TakenBackAtTheEnd
    <3>2. CASE \E k \in 1 .. Len(v) : i = Len(wire) + k
      <4>1. PICK k \in 1 .. Len(v) : v[k] = ActionFrame(id)
        BY <1>5, <2>2, <3>2
      <4>2. ActionFrame(id).type = "action"
        BY FramesDiffer
      <4>3. k = Len(v)
        BY <4>1, <4>2 DEF PutsOnly
      <4>4. ActionFrame(id) = ActionFrame(t.id)
        BY <4>1, <4>3 DEF PutsOnly
      <4> QED
        BY <1>1, <4>4, FramesDiffer
    <3> QED
      BY <1>5, <3>1, <3>2
  <2> QED
    BY <2>1, <2>2 DEF ShowingIsOffered
<1> QED
  BY <1>6, <1>7, <1>8, <1>9

-----------------------------------------------------------------------------
(* The app's side of it                                                    *)

LEMMA FrameIsOneOf ==
  ASSUME NEW f \in Frame
  PROVE  \/ f = ActionFrame(f.id) /\ f.type = "action" /\ f.id \in Ask
         \/ f = GoneFrame(f.id) /\ f.type = "action_gone" /\ f.id \in Ask
         \/ f.type = "your_turn" /\ \A id : f # GoneFrame(id)
<1>1. CASE f \in [type : {"action", "action_gone"}, id : Ask]
  BY <1>1 DEF ActionFrame, GoneFrame
<1>2. CASE f \in [type : {"your_turn"}, on : BOOLEAN]
  BY <1>2, FramesDiffer
<1> QED
  BY <1>1, <1>2 DEF Frame

LEMMA AppHearsIt ==
  ASSUME WordInv, AppHears
  PROVE  WordInv'
<1> DEFINE f == Head(wire)
<1> USE DEF WordInv
<1>0. /\ wire \in Seq(Frame) /\ wire # <<>> /\ wire' = Tail(wire) /\ wire' \in Seq(Frame)
      /\ f \in Frame /\ UNCHANGED <<answers, offers, bend, asks>>
  BY HeadTailProperties DEF AppHears, Typed, host
<1>1. /\ f.type = "action" => held' = f.id /\ frozen' = f.id
      /\ f.type = "action_gone" =>
           /\ held' = IF held = f.id THEN 0 ELSE held
           /\ frozen' = IF frozen = f.id THEN 0 ELSE frozen
      /\ f.type = "your_turn" => UNCHANGED <<held, frozen>>
  BY DEF AppHears, Forgets
<1>2. \A id : OnTheWay(GoneFrame(id), wire) <=>
              f = GoneFrame(id) \/ OnTheWay(GoneFrame(id), wire')
  BY <1>0, OnTheWayTakenOff
<1>3. /\ Len(wire) \in Nat /\ f = wire[1] /\ 1 \in 1 .. Len(wire)
      /\ \A i \in 1 .. Len(wire') : i + 1 \in 1 .. Len(wire) /\ wire'[i] = wire[i + 1]
  BY <1>0, TakenOff
<1>4. \/ f = ActionFrame(f.id) /\ f.type = "action" /\ f.id \in Ask
      \/ f = GoneFrame(f.id) /\ f.type = "action_gone" /\ f.id \in Ask
      \/ f.type = "your_turn" /\ \A id : f # GoneFrame(id)
  BY <1>0, FrameIsOneOf
<1>5. Typed'
  BY <1>0, <1>1, <1>4 DEF Typed
<1>6. IdsAreFresh'
  BY <1>0, MentionedTakenOff DEF IdsAreFresh
<1>7. OffersReach'
  <2>1. ASSUME NEW id \in Ids(offers)
        PROVE  /\ PutsLast(wire', id) \/ (NoActions(wire') /\ (held' = id \/ Answering(id)'))
               /\ ~OnTheWay(GoneFrame(id), wire')
    <3>1. /\ PutsLast(wire, id) \/ (NoActions(wire) /\ (held = id \/ Answering(id)))
          /\ ~OnTheWay(GoneFrame(id), wire) /\ f # GoneFrame(id)
      BY <1>2, <2>1 DEF OffersReach
    <3>2. CASE PutsLast(wire, id)
      <4>1. CASE PutsLast(wire', id)
        BY <1>2, <3>1, <4>1
      <4>2. CASE f = ActionFrame(id) /\ NoActions(wire')
        <5>1. f.type = "action" /\ f.id = id
          BY <4>2, FramesDiffer
        <5> QED
          BY <1>1, <1>2, <3>1, <4>2, <5>1
      <4> QED
        BY <1>0, <3>2, <4>1, <4>2, PutsLastTakenOff
    <3>3. CASE NoActions(wire) /\ (held = id \/ Answering(id))
      <4>1. NoActions(wire') /\ f.type # "action"
        BY <1>0, <1>3, <3>3, NoActionsTakenOff DEF NoActions
      <4>2. Answering(id)' <=> Answering(id)
        BY <1>0 DEF Answering
      <4>3. held = id => held' = id
        BY <1>1, <1>4, <3>1, <4>1
      <4> QED
        BY <1>2, <3>1, <3>3, <4>1, <4>2, <4>3
    <3> QED
      BY <3>1, <3>2, <3>3
  <2> QED
    BY <1>0, <2>1 DEF OffersReach
<1>8. ShowingIsOffered'
  <2>1. ASSUME NEW id \in Ask, held' = id \/ frozen' = id
        PROVE  id \in Ids(offers) \/ OnTheWay(GoneFrame(id), wire')
    <3>1. CASE f.type = "action"
      <4>1. f.id = id /\ f = ActionFrame(id)
        BY <1>1, <1>4, <2>1, <3>1
      <4>2. id \in Ids(offers) \/ TakenBack(wire, 1, id)
        BY <1>3, <4>1 DEF ShowingIsOffered
      <4> QED
        BY <1>0, <1>3, <4>2, TakenBackTakenOff
    <3>2. CASE f.type # "action"
      <4>1. (held = id \/ frozen = id) /\ f # GoneFrame(id)
        <5>1. CASE f = GoneFrame(f.id) /\ f.type = "action_gone"
          <6>1. (held = id \/ frozen = id) /\ f.id # id
            <7>1. id # 0
              BY DEF Ask
            <7> QED
              BY <1>1, <2>1, <5>1, <7>1
          <6>2. GoneFrame(id).id = id
            BY FramesDiffer
          <6> QED
            BY <6>1, <6>2
        <5>2. CASE f.type = "your_turn" /\ \A k : f # GoneFrame(k)
          BY <1>1, <2>1, <5>2
        <5> QED
          BY <1>4, <3>2, <5>1, <5>2
      <4> QED
        BY <1>2, <4>1 DEF ShowingIsOffered
    <3> QED
      BY <3>1, <3>2
  <2>2. ASSUME NEW i \in 1 .. Len(wire'), NEW id \in Ask, wire'[i] = ActionFrame(id)
        PROVE  id \in Ids(offers) \/ TakenBack(wire', i, id)
    <3>1. i + 1 \in 1 .. Len(wire) /\ wire[i + 1] = ActionFrame(id)
          /\ (i + 1) - 1 = i /\ i + 1 # 1
      BY <1>3, <2>2
    <3>2. id \in Ids(offers) \/ TakenBack(wire, i + 1, id)
      BY <3>1 DEF ShowingIsOffered
    <3>3. TakenBack(wire, i + 1, id) => TakenBack(wire', (i + 1) - 1, id)
      BY <1>0, <3>1, TakenBackTakenOff
    <3> QED
      BY <3>1, <3>2, <3>3
  <2> QED
    BY <1>0, <2>1, <2>2 DEF ShowingIsOffered
<1> QED
  BY <1>5, <1>6, <1>7, <1>8

(* The box lets go of a turn only as its answer sets out.                  *)
LEMMA AppSaysIt ==
  ASSUME WordInv, UNCHANGED <<host, wire, frozen>>,
         answers' \in Seq(Reply), \A id : Answering(id) => Answering(id)',
         held' = held \/ (held' = 0 /\ \A id : held = id => Answering(id)')
  PROVE  WordInv'
<1> USE DEF WordInv
<1>0. UNCHANGED <<offers, bend, asks, wire, frozen>>
  BY DEF host
<1>1. Typed' /\ IdsAreFresh'
  BY <1>0 DEF Typed, IdsAreFresh
<1>2. OffersReach'
  <2>1. ASSUME NEW id \in Ids(offers)
        PROVE  held = id \/ Answering(id) => held' = id \/ Answering(id)'
    <3>1. CASE held = id /\ held' # held
      <4>1. Answering(id)'
        BY <3>1
      <4> QED
        BY <4>1
    <3> QED
      BY <3>1
  <2> QED
    BY <1>0, <2>1 DEF OffersReach
<1>3. ShowingIsOffered'
  <2>1. \A id \in Ask : held' = id => held = id
    BY DEF Ask
  <2> QED
    BY <1>0, <2>1 DEF ShowingIsOffered
<1> QED
  BY <1>1, <1>2, <1>3

-----------------------------------------------------------------------------
(* What the host's handlers put on the wire                                *)

Quiet == {<<>>, <<StillYours(TRUE)>>, <<StillYours(FALSE)>>}

LEMMA QuietSaysNothing ==
  ASSUME NEW v \in Quiet
  PROVE  /\ v \in Seq(Frame) /\ NoActions(v) /\ Mentioned(v) = {}
         /\ \A id : ~OnTheWay(GoneFrame(id), v)
<1>1. CASE v = <<>>
  <2>1. v \in Seq(Frame) /\ Len(v) = 0 /\ DOMAIN v = {}
    BY <1>1
  <2> QED
    BY <2>1 DEF NoActions, Mentioned, OnTheWay
<1>2. ASSUME NEW on \in BOOLEAN, v = <<StillYours(on)>>
      PROVE  /\ v \in Seq(Frame) /\ NoActions(v) /\ Mentioned(v) = {}
             /\ \A id : ~OnTheWay(GoneFrame(id), v)
  <2>1. StillYours(on) \in Frame /\ StillYours(on).type = "your_turn"
    BY DEF StillYours, Frame
  <2>2. v \in Seq(Frame) /\ Len(v) = 1 /\ DOMAIN v = {1} /\ v[1] = StillYours(on)
    BY <1>2, <2>1
  <2>3. \A id : GoneFrame(id) # StillYours(on)
    BY FramesDiffer
  <2>4. NoActions(v) /\ Mentioned(v) = {}
    BY <2>1, <2>2 DEF NoActions, Mentioned
  <2> QED
    BY <2>2, <2>3, <2>4 DEF OnTheWay
<1> QED
  BY <1>1, <1>2 DEF Quiet

LEMMA TellingIsQuiet ==
  /\ Stopped \in Quiet
  /\ \A c : AskIfDone(c).told \in Quiet
BY DEF Stopped, AskIfDone, Quiet

(* A handler that leaves the offer as it is.                               *)
LEMMA OffersStand ==
  ASSUME WordInv, asks \in Nat, UNCHANGED <<app, offers>>,
         NEW v \in Quiet, wire' = wire \o v,
         \/ asks' = asks /\ bend' \subseteq bend
         \/ asks' = asks + 1 /\ \A b \in bend' : b.id = asks + 1,
         answers' \in Seq(Reply),
         \A id \in Ids(offers) : Answering(id) => Answering(id)'
  PROVE  WordInv'
<1>1. /\ v \in Seq(Frame) /\ NoActions(v) /\ Mentioned(v) = {}
      /\ \A id : ~OnTheWay(GoneFrame(id), v)
  BY QuietSaysNothing
<1>2. Ids(offers') = Ids(offers)
  OBVIOUS
<1> QED
  BY <1>1, <1>2, NothingPut

LEMMA NothingOnTheWire ==
  ASSUME Typed, UNCHANGED wire
  PROVE  <<>> \in Quiet /\ wire' = wire \o <<>>
BY ConcatEmptySeq DEF Typed, Quiet

(* A request read takes no answer off the queue but its own.               *)
LEMMA AnswerRead ==
  ASSUME Typed, answers # <<>>, answers' = Tail(answers)
  PROVE  /\ answers' \in Seq(Reply)
         /\ \A id : (\A yes \in BOOLEAN : Head(answers) # Acted(id, yes))
                   => (Answering(id) => Answering(id)')
<1>1. answers' \in Seq(Reply) /\ answers \in Seq(Reply)
  BY HeadTailProperties DEF Typed
<1>2. ASSUME NEW id, \A yes \in BOOLEAN : Head(answers) # Acted(id, yes), Answering(id)
      PROVE  Answering(id)'
  <2>1. PICK yes \in BOOLEAN : OnTheWay(Acted(id, yes), answers)
    BY <1>2 DEF Answering
  <2>2. OnTheWay(Acted(id, yes), Tail(answers))
    BY <1>1, <1>2, <2>1, OnTheWayTakenOff
  <2> QED
    BY <2>2 DEF Answering
<1> QED
  BY <1>1, <1>2

LEMMA AnswerSaid ==
  ASSUME Typed, NEW r \in Reply, answers' = Append(answers, r)
  PROVE  /\ answers' \in Seq(Reply) /\ OnTheWay(r, answers')
         /\ \A id : Answering(id) => Answering(id)'
<1>1. /\ answers \in Seq(Reply) /\ answers' \in Seq(Reply)
      /\ Len(answers) \in Nat /\ Len(answers') = Len(answers) + 1
      /\ answers'[Len(answers')] = r
      /\ \A i \in 1 .. Len(answers) : answers'[i] = answers[i]
  BY AppendProperties, LenProperties DEF Typed
<1>2. DOMAIN answers = 1 .. Len(answers) /\ DOMAIN answers' = 1 .. Len(answers')
  BY <1>1, LenProperties
<1>3. \A f : OnTheWay(f, answers) => OnTheWay(f, answers')
  BY <1>1, <1>2 DEF OnTheWay
<1>4. Len(answers') \in DOMAIN answers'
  BY <1>1, <1>2
<1> QED
  BY <1>1, <1>3, <1>4 DEF OnTheWay, Answering

(* _offer: it takes back what was on offer and puts the turn.              *)
LEMMA OfferPuts ==
  ASSUME WordInv, HostTyped, NEW t \in Turn, Offer(t),
         UNCHANGED <<app, answers>>,
         asks' \in Nat, asks <= asks', bend' \subseteq bend,
         \A b \in bend' : b.id # t.id,
         t.id \in (1 .. asks') \ (Mentioned(wire) \cup Ids(offers))
  PROVE  WordInv'
<1> DEFINE n == IF offers = {} THEN 0 ELSE 1
           gone == [i \in 1 .. n |-> GoneFrame((CHOOSE o \in offers : TRUE).id)]
           u == gone \o Stopped
           v == u \o <<ActionFrame(t.id)>>
<1>1. /\ gone \in Seq(Frame) /\ NoActions(gone) /\ Mentioned(gone) = Ids(offers)
      /\ \A id : OnTheWay(GoneFrame(id), gone) <=> id \in Ids(offers)
  <2>1. CASE offers = {}
    <3>1. gone = <<>> /\ Ids(offers) = {}
      BY <2>1 DEF Ids
    <3>2. <<>> \in Quiet
      BY DEF Quiet
    <3> HIDE DEF gone
    <3> QED
      BY <3>1, <3>2, QuietSaysNothing
  <2>2. CASE offers # {}
    <3>1. PICK o \in offers : o = CHOOSE p \in offers : TRUE
      BY <2>2
    <3>2. Ids(offers) = {o.id} /\ o.id \in Ask
      BY <3>1 DEF WordInv, IdsAreFresh, Ids, HostTyped, Turn
    <3>3. GoneFrame(o.id) \in Frame
      BY <3>2 DEF GoneFrame, Frame
    <3>4. gone = [i \in 1 .. 1 |-> GoneFrame(o.id)]
      BY <2>2, <3>1
    <3> HIDE DEF gone
    <3>5. /\ gone \in Seq(Frame) /\ Len(gone) = 1 /\ DOMAIN gone = {1}
          /\ gone[1] = GoneFrame(o.id)
      BY <3>3, <3>4
    <3>6. /\ GoneFrame(o.id).type # "action" /\ GoneFrame(o.id).type # "your_turn"
          /\ GoneFrame(o.id).id = o.id
          /\ \A id : GoneFrame(id) = GoneFrame(o.id) => id = o.id
      BY FramesDiffer
    <3>7. NoActions(gone) /\ Mentioned(gone) = {o.id}
      BY <3>5, <3>6 DEF NoActions, Mentioned
    <3> QED
      BY <3>2, <3>5, <3>6, <3>7 DEF OnTheWay
  <2> QED
    BY <2>1, <2>2
<1>2. /\ Stopped \in Seq(Frame) /\ NoActions(Stopped) /\ Mentioned(Stopped) = {}
      /\ \A id : ~OnTheWay(GoneFrame(id), Stopped)
  BY QuietSaysNothing, TellingIsQuiet
<1>3. offers' = {t} /\ wire' = wire \o v
  BY DEF Offer, Send
<1> HIDE DEF gone
<1>4. /\ u \in Seq(Frame) /\ NoActions(u) /\ Mentioned(u) = Ids(offers)
      /\ \A id : OnTheWay(GoneFrame(id), u) <=> id \in Ids(offers)
  <2>1. u \in Seq(Frame)
    BY <1>1, <1>2, AtTheEnd
  <2>2. NoActions(u)
    BY <1>1, <1>2, NoActionsAtTheEnd
  <2>3. Mentioned(u) = Mentioned(gone) \cup Mentioned(Stopped)
    BY <1>1, <1>2, MentionedAtTheEnd
  <2>4. \A f : OnTheWay(f, u) <=> OnTheWay(f, gone) \/ OnTheWay(f, Stopped)
    BY <1>1, <1>2, OnTheWayAtTheEnd
  <2> QED
    BY <1>1, <1>2, <2>1, <2>2, <2>3, <2>4
<1> HIDE DEF u
<1>0. v = u \o <<ActionFrame(t.id)>>
  OBVIOUS
<1> HIDE DEF v
<1>5. /\ v \in Seq(Frame) /\ PutsOnly(v, t.id)
      /\ Mentioned(v) = Mentioned(u) \cup {t.id}
      /\ \A k : OnTheWay(GoneFrame(k), v) <=> OnTheWay(GoneFrame(k), u)
  <2>1. t.id \in Ask
    BY DEF Turn
  <2> QED
    <3> DEFINE id == t.id
    <3>1. v = u \o <<ActionFrame(id)>> /\ id \in Ask /\ u \in Seq(Frame) /\ NoActions(u)
      BY <1>0, <1>4, <2>1
    <3> HIDE DEF id
    <3>2. /\ v \in Seq(Frame) /\ PutsOnly(v, id)
          /\ Mentioned(v) = Mentioned(u) \cup {id}
          /\ \A i : OnTheWay(GoneFrame(i), v) <=> OnTheWay(GoneFrame(i), u)
      BY <3>1, PutAfter
    <3> QED
      BY <3>2 DEF id
<1>6. asks \in Nat
  BY DEF HostTyped
<1>7. /\ \A id \in Ids(offers) : OnTheWay(GoneFrame(id), v)
      /\ ~OnTheWay(GoneFrame(t.id), v)
      /\ Mentioned(v) = Ids(offers) \cup {t.id}
  BY <1>4, <1>5
<1> QED
  BY <1>3, <1>5, <1>6, <1>7, SomethingPut

-----------------------------------------------------------------------------
(* The host's handlers                                                     *)

OffersInv == HostTyped /\ FightInv /\ WordInv

LEMMA FightStands ==
  ASSUME FightInv, UNCHANGED <<square, turn, moved, acted, budget>>
  PROVE  FightInv'
BY DEF FightInv, FightTyped, SpentCovers

LEMMA SameAnswers ==
  ASSUME WordInv, UNCHANGED answers
  PROVE  answers' \in Seq(Reply) /\ \A id : Answering(id) => Answering(id)'
BY DEF WordInv, Typed, Answering

(* A handler that has seen to the fight and leaves the offer as it is.     *)
LEMMA OnlyTheFight ==
  ASSUME OffersInv, FightInv', UNCHANGED <<app, offers, asks>>, bend' \subseteq bend,
         waiting' \in Combatant \cup {NoOne},
         NEW v \in Quiet, wire' = wire \o v,
         answers' \in Seq(Reply), \A id \in Ids(offers) : Answering(id) => Answering(id)'
  PROVE  OffersInv'
<1>1. asks \in Nat
  BY DEF OffersInv, HostTyped
<1>2. WordInv'
  BY <1>1, OffersStand DEF OffersInv
<1>3. HostTyped'
  BY DEF OffersInv, HostTyped
<1> QED
  BY <1>2, <1>3 DEF OffersInv

LEMMA AskTheDmKeeps ==
  ASSUME OffersInv, NEW kind \in {"propose", "move", "swing"}, NEW c \in Combatant,
         NEW to \in Square \cup {Stay}, NEW hits \in BOOLEAN,
         AskTheDm(kind, c, to, hits), UNCHANGED <<app, answers>>
  PROVE  OffersInv'
<1>1. asks \in 0 .. MaxAsks /\ MaxAsks \in Nat /\ asks < MaxAsks
  BY OffersAssumption DEF OffersInv, HostTyped, AskTheDm
<1>2. /\ bend' = {[id |-> asks + 1, kind |-> kind, who |-> c, to |-> to, hits |-> hits]}
      /\ asks' = asks + 1
      /\ UNCHANGED <<square, turn, moved, acted, waiting, offers, budget, wire>>
  BY DEF AskTheDm, OnTheBar, fight
<1>3. HostTyped'
  <2>1. asks + 1 \in Ask /\ asks' \in 0 .. MaxAsks
    BY <1>1, <1>2 DEF Ask
  <2>2. bend' \subseteq Request
    BY <1>2, <2>1 DEF Request
  <2> QED
    BY <1>2, <2>1, <2>2 DEF OffersInv, HostTyped
<1>4. FightInv'
  BY <1>2, FightStands DEF OffersInv
<1>5. WordInv'
  <2>1. \A b \in bend' : b.id = asks + 1
    BY <1>2
  <2>2. <<>> \in Quiet /\ wire' = wire \o <<>>
    BY <1>2, NothingOnTheWire DEF OffersInv, WordInv
  <2>3. answers' \in Seq(Reply) /\ \A id : Answering(id) => Answering(id)'
    BY SameAnswers DEF OffersInv
  <2>4. asks \in Nat
    BY <1>1
  <2> QED
    BY <1>2, <2>1, <2>2, <2>3, <2>4, OffersStand DEF OffersInv
<1> QED
  BY <1>3, <1>4, <1>5 DEF OffersInv

LEMMA AgentProposesKeeps ==
  ASSUME OffersInv, NEW plan \in Plans, AgentProposes(plan), UNCHANGED answers
  PROVE  OffersInv'
<1>0. /\ plan.to \in Square \cup {Stay} /\ plan.hits \in BOOLEAN
      /\ Hero \in Combatant /\ UNCHANGED <<app, answers>>
  BY OffersAssumption DEF AgentProposes, Combatant
<1>1. CASE NotTheirTurn(Hero) \/ TooFar(Hero, plan.to)
  BY <1>0, <1>1, AskTheDmKeeps DEF AgentProposes
<1>2. CASE ~ (NotTheirTurn(Hero) \/ TooFar(Hero, plan.to))
  <2> DEFINE t == [id |-> asks + 1, to |-> plan.to, hits |-> plan.hits, bent |-> FALSE]
  <2>1. /\ asks < MaxAsks /\ asks' = asks + 1 /\ Offer(t) /\ offers' = {t}
        /\ waiting' \in {waiting, NoOne}
        /\ UNCHANGED <<square, turn, moved, acted, budget, bend>>
    BY <1>2 DEF AgentProposes, Offer, fight
  <2>2. asks \in 0 .. MaxAsks /\ MaxAsks \in Nat
    BY OffersAssumption DEF OffersInv, HostTyped
  <2>3. t \in Turn /\ t.id = asks + 1 /\ asks' \in 0 .. MaxAsks /\ asks' \in Nat
    BY <1>0, <2>1, <2>2 DEF Turn, Ask
  <2>4. t.id \in (1 .. asks') \ (Mentioned(wire) \cup Ids(offers))
    BY <2>1, <2>2, <2>3 DEF OffersInv, WordInv, IdsAreFresh
  <2>5. \A b \in bend' : b.id # t.id
    BY <2>1, <2>2, <2>3 DEF OffersInv, WordInv, IdsAreFresh
  <2> HIDE DEF t
  <2>6. WordInv'
    BY <1>0, <2>1, <2>2, <2>3, <2>4, <2>5, OfferPuts DEF OffersInv
  <2>7. HostTyped'
    BY <2>1, <2>3 DEF OffersInv, HostTyped
  <2>8. FightInv'
    BY <2>1, FightStands DEF OffersInv
  <2> QED
    BY <2>6, <2>7, <2>8 DEF OffersInv
<1> QED
  BY <1>1, <1>2

LEMMA AgentMovesKeeps ==
  ASSUME OffersInv, NEW c \in Combatant, NEW to \in Square, AgentMoves(c, to),
         UNCHANGED answers
  PROVE  OffersInv'
<1>0. UNCHANGED <<app, answers>>
  BY DEF AgentMoves
<1>1. CASE NotTheirTurn(c) \/ TooFar(c, to)
  BY <1>0, <1>1, AskTheDmKeeps DEF AgentMoves
<1>2. CASE ~ (NotTheirTurn(c) \/ TooFar(c, to))
  <2>1. /\ Walked(c, to, TRUE, FALSE) /\ ~TooFar(c, to)
        /\ waiting' = AskIfDone(c).clock /\ wire' = wire \o AskIfDone(c).told
        /\ UNCHANGED <<turn, offers, bend, asks>>
    BY <1>2 DEF AgentMoves, Send
  <2>2. FightInv'
    BY <2>1, WalkedIsCovered DEF OffersInv
  <2>3. waiting' \in Combatant \cup {NoOne}
    BY <2>1 DEF AskIfDone, OffersInv, HostTyped
  <2>4. AskIfDone(c).told \in Quiet
    BY TellingIsQuiet
  <2>5. answers' \in Seq(Reply) /\ \A id : Answering(id) => Answering(id)'
    BY SameAnswers DEF OffersInv
  <2> QED
    BY <1>0, <2>1, <2>2, <2>3, <2>4, <2>5, OnlyTheFight
<1> QED
  BY <1>1, <1>2

LEMMA AgentSwingsKeeps ==
  ASSUME OffersInv, NEW c \in Combatant, AgentSwings(c), UNCHANGED answers
  PROVE  OffersInv'
<1>0. UNCHANGED <<app, answers>>
  BY DEF AgentSwings
<1>1. CASE NotTheirTurn(c) \/ AlreadyActed(c) \/ OutOfReach
  BY <1>0, <1>1, AskTheDmKeeps DEF AgentSwings
<1>2. CASE ~ (NotTheirTurn(c) \/ AlreadyActed(c) \/ OutOfReach)
  <2>1. /\ Swung(c, FALSE) /\ ~AlreadyActed(c)
        /\ waiting' = AskIfDone(c).clock /\ wire' = wire \o AskIfDone(c).told
        /\ UNCHANGED <<turn, offers, bend, asks>>
    BY <1>2 DEF AgentSwings, Send
  <2>2. FightInv'
    BY <2>1, SwungIsCovered DEF OffersInv
  <2>3. waiting' \in Combatant \cup {NoOne}
    BY <2>1 DEF AskIfDone, OffersInv, HostTyped
  <2>4. AskIfDone(c).told \in Quiet
    BY TellingIsQuiet
  <2>5. answers' \in Seq(Reply) /\ \A id : Answering(id) => Answering(id)'
    BY SameAnswers DEF OffersInv
  <2> QED
    BY <1>0, <2>1, <2>2, <2>3, <2>4, <2>5, OnlyTheFight
<1> QED
  BY <1>1, <1>2

(* _handle_allow: the offer the DM's answer makes has the id of what they  *)
(* were asked, which there has been no word of.                            *)
LEMMA DmAnswersKeeps ==
  ASSUME OffersInv, NEW yes \in BOOLEAN, DmAnswers(yes), UNCHANGED answers
  PROVE  OffersInv'
<1>0. PICK b \in bend :
        /\ bend' = {} /\ UNCHANGED <<asks, app>>
        /\ \/ /\ Offer([id |-> b.id, to |-> b.to, hits |-> b.hits, bent |-> TRUE])
              /\ UNCHANGED <<fight, budget>>
           \/ Walked(b.who, b.to, FALSE, TRUE) /\ UNCHANGED <<turn, waiting, offers, wire>>
           \/ Swung(b.who, TRUE) /\ UNCHANGED <<turn, waiting, offers, wire>>
           \/ UNCHANGED <<fight, budget, waiting, offers, wire>>
  BY DEF DmAnswers
<1>1. /\ bend' = {} /\ UNCHANGED <<asks, app>> /\ b \in Request
      /\ asks \in Nat /\ asks' \in Nat /\ asks <= asks'
  BY <1>0, OffersAssumption DEF OffersInv, HostTyped
<1>2. answers' \in Seq(Reply) /\ \A id : Answering(id) => Answering(id)'
  BY SameAnswers DEF OffersInv
<1>3. UNCHANGED wire => <<>> \in Quiet /\ wire' = wire \o <<>>
  BY NothingOnTheWire DEF OffersInv, WordInv
<1>4. waiting \in Combatant \cup {NoOne}
  BY DEF OffersInv, HostTyped
<1>5. b.who \in Combatant /\ b.to \in Square \cup {Stay} /\ b.hits \in BOOLEAN /\ b.id \in Ask
  BY <1>1 DEF Request
<1>6. ASSUME FightInv', UNCHANGED <<waiting, offers, wire>>
      PROVE  OffersInv'
  BY <1>1, <1>2, <1>3, <1>4, <1>6, OnlyTheFight
<1>7. CASE /\ Offer([id |-> b.id, to |-> b.to, hits |-> b.hits, bent |-> TRUE])
           /\ UNCHANGED <<fight, budget>>
  <2> DEFINE t == [id |-> b.id, to |-> b.to, hits |-> b.hits, bent |-> TRUE]
  <2>1. t \in Turn /\ t.id = b.id
    BY <1>5 DEF Turn
  <2>2. t.id \in (1 .. asks') \ (Mentioned(wire) \cup Ids(offers))
    BY <1>1, <2>1 DEF OffersInv, WordInv, IdsAreFresh
  <2>3. Offer(t) /\ offers' = {t} /\ waiting' \in {waiting, NoOne}
    BY <1>7 DEF Offer
  <2> HIDE DEF t
  <2>4. UNCHANGED <<app, answers>> /\ bend' \subseteq bend /\ \A k \in bend' : k.id # t.id
    BY <1>1
  <2>5. WordInv'
    BY <1>1, <2>1, <2>2, <2>3, <2>4, OfferPuts DEF OffersInv
  <2>6. HostTyped'
    BY <1>1, <1>4, <2>1, <2>3 DEF OffersInv, HostTyped
  <2>7. FightInv'
    BY <1>7, FightStands DEF OffersInv, fight
  <2> QED
    BY <2>5, <2>6, <2>7 DEF OffersInv
<1>8. CASE Walked(b.who, b.to, FALSE, TRUE) /\ UNCHANGED <<turn, waiting, offers, wire>>
  <2>1. FightInv'
    BY <1>5, <1>8, WalkedIsCovered DEF OffersInv
  <2> QED
    BY <1>6, <1>8, <2>1
<1>9. CASE Swung(b.who, TRUE) /\ UNCHANGED <<turn, waiting, offers, wire>>
  <2>1. FightInv'
    BY <1>5, <1>9, SwungIsCovered DEF OffersInv
  <2> QED
    BY <1>6, <1>9, <2>1
<1>10. CASE UNCHANGED <<fight, budget, waiting, offers, wire>>
  <2>1. FightInv'
    BY <1>10, FightStands DEF OffersInv, fight
  <2> QED
    BY <1>6, <1>10, <2>1
<1> QED
  BY <1>0, <1>7, <1>8, <1>9, <1>10

LEMMA DmClicksKeeps ==
  ASSUME OffersInv, NEW c \in Combatant, NEW to \in Square, DmClicks(c, to),
         UNCHANGED answers
  PROVE  OffersInv'
<1>1. UNCHANGED <<turn, waiting, offers, bend, asks, app, wire, answers>>
  BY DEF DmClicks
<1>2. FightInv'
  <2>1. CASE Walked(c, to, TRUE, FALSE) /\ ~TooFar(c, to)
    BY <1>1, <2>1, WalkedIsCovered DEF OffersInv
  <2>2. CASE Swung(c, FALSE) /\ ~AlreadyActed(c)
    BY <1>1, <2>2, SwungIsCovered DEF OffersInv
  <2>3. CASE UNCHANGED <<square, moved, acted, budget>>
    BY <1>1, <2>3, FightStands DEF OffersInv
  <2> QED
    BY <2>1, <2>2, <2>3 DEF DmClicks, MaySwing
<1>3. answers' \in Seq(Reply) /\ \A id : Answering(id) => Answering(id)'
  BY <1>1, SameAnswers DEF OffersInv
<1>4. <<>> \in Quiet /\ wire' = wire \o <<>>
  BY <1>1, NothingOnTheWire DEF OffersInv, WordInv
<1>5. waiting' \in Combatant \cup {NoOne}
  BY <1>1 DEF OffersInv, HostTyped
<1> QED
  BY <1>1, <1>2, <1>3, <1>4, <1>5, OnlyTheFight

LEMMA ClockKeeps ==
  ASSUME OffersInv, UNCHANGED answers, (\E kind : DmOpens(kind)) \/ NextTurn \/ Timeout
  PROVE  OffersInv'
<1>1. UNCHANGED <<offers, bend, asks, app, answers>>
  BY DEF DmOpens, NextTurn, Timeout
<1>2. waiting' \in Combatant \cup {NoOne}
  BY DEF DmOpens, NextTurn, Timeout, OffersInv, HostTyped
<1>3. answers' \in Seq(Reply) /\ \A id : Answering(id) => Answering(id)'
  BY <1>1, SameAnswers DEF OffersInv
<1>4. ASSUME NEW told \in Quiet, Passes(told)
      PROVE  OffersInv'
  <2>1. FightInv'
    BY <1>4, PassesIsCovered DEF OffersInv
  <2>2. wire' = wire \o told
    BY <1>4 DEF Passes, Send
  <2> QED
    BY <1>1, <1>2, <1>3, <2>1, <2>2, OnlyTheFight
<1>5. ASSUME UNCHANGED <<fight, budget, wire>>
      PROVE  OffersInv'
  <2>1. FightInv'
    BY <1>5, FightStands DEF OffersInv, fight
  <2>2. <<>> \in Quiet /\ wire' = wire \o <<>>
    BY <1>5, NothingOnTheWire DEF OffersInv, WordInv
  <2> QED
    BY <1>1, <1>2, <1>3, <2>1, <2>2, OnlyTheFight
<1>6. <<>> \in Quiet /\ Stopped \in Quiet
  BY TellingIsQuiet DEF Quiet
<1> QED
  BY <1>4, <1>5, <1>6 DEF DmOpens, NextTurn, Timeout

LEMMA TableKeeps ==
  ASSUME OffersInv, Table
  PROVE  OffersInv'
<1>1. ASSUME NEW plan \in Plans, AgentProposes(plan) PROVE OffersInv'
  BY <1>1, AgentProposesKeeps DEF Table
<1>2. ASSUME NEW c \in Combatant, AgentSwings(c) PROVE OffersInv'
  BY <1>2, AgentSwingsKeeps DEF Table
<1>3. ASSUME NEW c \in Combatant, NEW to \in Square, AgentMoves(c, to) PROVE OffersInv'
  BY <1>3, AgentMovesKeeps DEF Table
<1>4. ASSUME NEW yes \in BOOLEAN, DmAnswers(yes) PROVE OffersInv'
  BY <1>4, DmAnswersKeeps DEF Table
<1>5. ASSUME NEW c \in Combatant, NEW to \in Square, DmClicks(c, to) PROVE OffersInv'
  BY <1>5, DmClicksKeeps DEF Table
<1>6. CASE (\E kind : DmOpens(kind)) \/ NextTurn \/ Timeout
  BY <1>6, ClockKeeps DEF Table
<1> QED
  BY <1>1, <1>2, <1>3, <1>4, <1>5, <1>6 DEF Table

-----------------------------------------------------------------------------
(* What the player's app sends, as the host reads it                       *)

LEMMA RequestsDiffer ==
  ASSUME NEW id, NEW yes, NEW to, NEW kind \in {"done", "said", "swing"}, NEW k, NEW no
  PROVE  /\ Move(to) # Acted(id, yes) /\ Plain(kind) # Acted(id, yes)
         /\ Acted(k, no) = Acted(id, yes) => k = id
<1>1. /\ Acted(id, yes).type = "acted" /\ Acted(id, yes).id = id
      /\ Acted(k, no).id = k
      /\ Move(to).type = "move" /\ Plain(kind).type = kind
  BY DEF Acted, Move, Plain
<1> QED
  BY <1>1

(* _carry_out and a refusal: the offer goes, and the app is told.          *)
LEMMA HearActedKeeps ==
  ASSUME OffersInv, NEW id \in Ask, NEW yes \in BOOLEAN, HearActed(id, yes)
  PROVE  OffersInv'
<1>0. /\ answers # <<>> /\ Head(answers) = Acted(id, yes) /\ answers' = Tail(answers)
      /\ UNCHANGED <<bend, asks, app>> /\ asks \in Nat
      /\ waiting \in Combatant \cup {NoOne} /\ offers \subseteq Turn
  BY DEF HearActed, Heard, Took, OffersInv, HostTyped
<1>1. /\ answers' \in Seq(Reply)
      /\ \A k : (\A no \in BOOLEAN : Acted(id, yes) # Acted(k, no))
                => (Answering(k) => Answering(k)')
  BY <1>0, AnswerRead DEF OffersInv, WordInv
<1>2. ASSUME NEW k, k # id PROVE Answering(k) => Answering(k)'
  <2>1. \A no \in BOOLEAN : Acted(id, yes) # Acted(k, no)
    BY <1>2, RequestsDiffer
  <2> QED
    BY <1>1, <2>1
<1>3. CASE id \notin Ids(offers)
  <2>1. UNCHANGED <<fight, budget, waiting, offers, wire>>
    BY <1>3 DEF HearActed
  <2>2. FightInv'
    BY <2>1, FightStands DEF OffersInv, fight
  <2>3. <<>> \in Quiet /\ wire' = wire \o <<>>
    BY <2>1, NothingOnTheWire DEF OffersInv, WordInv
  <2> QED
    BY <1>0, <1>1, <1>2, <1>3, <2>1, <2>2, <2>3, OnlyTheFight
<1>4. CASE id \in Ids(offers)
  <2>1. PICK t \in offers : /\ t.id = id /\ offers' = offers \ {t}
                            /\ IF yes THEN CarryOut(t) /\ UNCHANGED turn ELSE Refused(t)
    BY <1>4 DEF HearActed
  <2>2. Ids(offers) = {id} /\ offers' = {}
    BY <2>1 DEF Ids, OffersInv, WordInv, IdsAreFresh
  <2> DEFINE v == <<GoneFrame(id)>> \o (IF yes THEN AskIfDone(Hero).told ELSE <<>>)
             told == IF yes THEN AskIfDone(Hero).told ELSE <<>>
             gone == <<GoneFrame(id)>>
  <2>3. FightInv' /\ waiting' \in Combatant \cup {NoOne} /\ wire' = wire \o v
    <3>1. CASE yes
      <4>1. FightInv'
        BY <1>0, <2>1, <3>1, CarryOutIsCovered DEF OffersInv
      <4>2. waiting' \in Combatant \cup {NoOne}
        BY <1>0, <2>1, <3>1 DEF CarryOut, AskIfDone, Combatant
      <4> QED
        BY <2>1, <3>1, <4>1, <4>2 DEF CarryOut, Send
    <3>2. CASE ~yes
      <4>1. UNCHANGED <<fight, budget, waiting>> /\ wire' = wire \o gone
        BY <2>1, <3>2 DEF Refused, Send
      <4>2. gone \o <<>> = gone
        OBVIOUS
      <4>3. FightInv'
        BY <4>1, FightStands DEF OffersInv, fight
      <4> QED
        BY <1>0, <3>2, <4>1, <4>2, <4>3
    <3> QED
      BY <3>1, <3>2
  <2>4. told \in Quiet /\ v = gone \o told
    BY TellingIsQuiet DEF Quiet
  <2>5. /\ gone \in Seq(Frame) /\ NoActions(gone) /\ Mentioned(gone) = {id}
        /\ OnTheWay(GoneFrame(id), gone)
    <3>1. GoneFrame(id) \in Frame
      BY DEF GoneFrame, Frame
    <3>2. /\ gone \in Seq(Frame) /\ Len(gone) = 1 /\ DOMAIN gone = {1}
          /\ gone[1] = GoneFrame(id)
      BY <3>1
    <3>3. /\ GoneFrame(id).type # "action" /\ GoneFrame(id).type # "your_turn"
          /\ GoneFrame(id).id = id
      BY FramesDiffer
    <3> HIDE DEF gone
    <3> QED
      BY <3>2, <3>3 DEF NoActions, Mentioned, OnTheWay
  <2> HIDE DEF told, gone, v
  <2>6. /\ told \in Seq(Frame) /\ NoActions(told) /\ Mentioned(told) = {}
    BY <2>4, QuietSaysNothing
  <2>7. v \in Seq(Frame)
    BY <2>4, <2>5, <2>6, AtTheEnd
  <2>8. NoActions(v)
    BY <2>4, <2>5, <2>6, NoActionsAtTheEnd
  <2>9. Mentioned(v) = {id}
    BY <2>4, <2>5, <2>6, MentionedAtTheEnd
  <2>10. OnTheWay(GoneFrame(id), v)
    BY <2>4, <2>5, <2>6, OnTheWayAtTheEnd
  <2>11. Ids(offers') = {}
    BY <2>2 DEF Ids
  <2>12. WordInv'
    BY <1>0, <1>1, <2>2, <2>3, <2>7, <2>8, <2>9, <2>10, <2>11, NothingPut DEF OffersInv
  <2>13. HostTyped'
    BY <1>0, <2>2, <2>3 DEF OffersInv, HostTyped
  <2> QED
    BY <2>3, <2>12, <2>13 DEF OffersInv
<1> QED
  BY <1>3, <1>4

LEMMA OtherRequestsKeep ==
  ASSUME OffersInv, HearDone \/ HearSaid \/ HearMapTurn
  PROVE  OffersInv'
<1>1. /\ UNCHANGED <<offers, bend, asks, app>>
      /\ answers # <<>> /\ answers' = Tail(answers)
      /\ waiting' \in Combatant \cup {NoOne}
  BY DEF HearDone, HearSaid, HearMapTurn, Heard, Took, OffersInv, HostTyped
<1>2. \A id : \A yes \in BOOLEAN : Head(answers) # Acted(id, yes)
  BY RequestsDiffer DEF HearDone, HearSaid, HearMapTurn, Heard
<1>3. answers' \in Seq(Reply) /\ \A id : Answering(id) => Answering(id)'
  BY <1>1, <1>2, AnswerRead DEF OffersInv, WordInv
<1>4. ASSUME FightInv', UNCHANGED wire PROVE OffersInv'
  <2>1. <<>> \in Quiet /\ wire' = wire \o <<>>
    BY <1>4, NothingOnTheWire DEF OffersInv, WordInv
  <2> QED
    BY <1>1, <1>3, <1>4, <2>1, OnlyTheFight
<1>5. CASE HearDone
  <2>1. CASE Passes(Stopped)
    <3>1. FightInv' /\ wire' = wire \o Stopped
      BY <2>1, PassesIsCovered DEF OffersInv, Passes, Send
    <3> QED
      BY <1>1, <1>3, <3>1, TellingIsQuiet, OnlyTheFight
  <2>2. CASE UNCHANGED <<fight, wheel, budget, waiting, wire>>
    BY <1>4, <2>2, FightStands DEF OffersInv, fight
  <2> QED
    BY <1>5, <2>1, <2>2 DEF HearDone
<1>6. CASE HearSaid
  <2>1. FightInv' /\ wire' = wire \o Stopped
    BY <1>6, FightStands DEF HearSaid, OffersInv, fight, Send
  <2> QED
    BY <1>1, <1>3, <2>1, TellingIsQuiet, OnlyTheFight
<1>7. CASE HearMapTurn
  <2>1. UNCHANGED turn /\ UNCHANGED wire
    BY <1>7 DEF HearMapTurn
  <2>2. FightInv'
    <3>1. CASE \E to \in Square : Walked(Hero, to, TRUE, FALSE) /\ ~TooFar(Hero, to)
      BY <2>1, <3>1, WalkedIsCovered DEF OffersInv, Combatant
    <3>2. CASE Swung(Hero, FALSE) /\ ~AlreadyActed(Hero)
      BY <2>1, <3>2, SwungIsCovered DEF OffersInv, Combatant
    <3>3. CASE UNCHANGED <<square, moved, acted, budget>>
      BY <2>1, <3>3, FightStands DEF OffersInv
    <3> QED
      BY <1>7, <3>1, <3>2, <3>3 DEF HearMapTurn, BlowAllowed
  <2> QED
    BY <1>4, <2>1, <2>2
<1> QED
  BY <1>5, <1>6, <1>7

-----------------------------------------------------------------------------
LEMMA PlayerKeeps ==
  ASSUME OffersInv, Player
  PROVE  OffersInv'
<1>1. UNCHANGED <<square, turn, moved, acted, budget, waiting, offers, bend, asks>>
  BY DEF Player, AppHears, Answers, SayMore, Talks, PressesDone, MapTurn, Says, host, fight
<1>2. FightInv' /\ HostTyped'
  BY <1>1, FightStands DEF OffersInv, HostTyped
<1>3. CASE AppHears
  BY <1>2, <1>3, AppHearsIt DEF OffersInv
<1>4. ASSUME NEW r \in Reply, Says(r), UNCHANGED frozen,
             held' = held \/ (held' = 0 /\ \E yes \in BOOLEAN : r = Acted(held, yes))
      PROVE  OffersInv'
  <2>1. /\ answers' \in Seq(Reply) /\ OnTheWay(r, answers')
        /\ \A id : Answering(id) => Answering(id)'
    BY <1>4, AnswerSaid DEF Says, OffersInv, WordInv
  <2>2. held' = held \/ (held' = 0 /\ \A id : held = id => Answering(id)')
    BY <1>4, <2>1 DEF Answering
  <2>3. WordInv'
    BY <1>4, <2>1, <2>2, AppSaysIt DEF Says, OffersInv
  <2> QED
    BY <1>2, <2>3 DEF OffersInv
<1>5. ASSUME NEW yes \in BOOLEAN, Answers(yes) PROVE OffersInv'
  <2>1. Acted(held, yes) \in Reply
    BY DEF Acted, Reply, OffersInv, WordInv, Typed
  <2> QED
    BY <1>4, <1>5, <2>1 DEF Answers
<1>6. CASE SayMore
  <2>1. UNCHANGED <<host, wire, answers, held, frozen>>
    BY <1>6 DEF SayMore
  <2>2. answers' \in Seq(Reply) /\ \A id : Answering(id) => Answering(id)'
    BY <2>1, SameAnswers DEF OffersInv
  <2>3. WordInv'
    BY <2>1, <2>2, AppSaysIt DEF OffersInv
  <2> QED
    BY <1>2, <2>3 DEF OffersInv
<1>7. Plain("said") \in Reply /\ Plain("done") \in Reply /\ Plain("swing") \in Reply
  BY DEF Plain, Reply
<1>8. CASE Talks
  BY <1>4, <1>7, <1>8 DEF Talks
<1>9. CASE PressesDone
  BY <1>4, <1>7, <1>9 DEF PressesDone
<1>10. CASE MapTurn
  <2>1. \A to \in Square : Move(to) \in Reply
    BY DEF Move, Reply
  <2>2. UNCHANGED <<held, frozen>>
    BY <1>10 DEF MapTurn, app
  <2> QED
    BY <1>4, <1>7, <1>10, <2>1, <2>2 DEF MapTurn
<1> QED
  BY <1>3, <1>5, <1>6, <1>8, <1>9, <1>10 DEF Player

LEMMA OffersStart ==
  ASSUME Init
  PROVE  OffersInv
<1>1. FightInv
  <2>1. square \in [Combatant -> Square]
    <3>1. 1 \in Square /\ Width \in Square
      BY OffersAssumption DEF Square
    <3> QED
      BY <3>1 DEF Init
  <2>2. 0 \in 0 .. Speed
    BY OffersAssumption
  <2>3. turn \in Combatant /\ moved \in 0 .. Speed /\ moved = 0 /\ acted \in BOOLEAN
    BY <2>2 DEF Init
  <2>4. /\ budget \in [walked : Nat, struck : Nat]
        /\ budget.walked = 0 /\ budget.struck = 0
    BY DEF Init
  <2> QED
    BY <2>1, <2>3, <2>4 DEF FightInv, FightTyped, SpentCovers
<1>2. HostTyped
  <2>1. asks \in 0 .. MaxAsks
    BY OffersAssumption DEF Init
  <2> QED
    BY <2>1 DEF Init, HostTyped
<1>3. WordInv
  <2>1. wire = <<>> /\ answers = <<>> /\ held = 0 /\ frozen = 0 /\ offers = {} /\ bend = {} /\ asks = 0
    BY DEF Init
  <2>2. <<>> \in Quiet
    BY DEF Quiet
  <2>3. wire \in Seq(Frame) /\ answers \in Seq(Reply) /\ Mentioned(wire) = {} /\ Len(wire) = 0
    BY <2>1, <2>2, QuietSaysNothing
  <2>4. Ids(offers) = {} /\ 0 \notin Ask
    BY <2>1 DEF Ids, Ask
  <2> QED
    BY <2>1, <2>3, <2>4 DEF WordInv, Typed, IdsAreFresh, OffersReach, ShowingIsOffered
<1> QED
  BY <1>1, <1>2, <1>3 DEF OffersInv

(* Whatever the table, the app and the host do, in whatever order, what    *)
(* the database has spent covers what was done, and the word on its way to *)
(* the app and back fits the offer.                                        *)
THEOREM OffersHold == Spec => []OffersInv
<1>1. Init => OffersInv
  BY OffersStart
<1>2. OffersInv /\ [Next]_vars => OffersInv'
  <2> SUFFICES ASSUME OffersInv, [Next]_vars PROVE OffersInv'
    OBVIOUS
  <2>1. CASE Table
    BY <2>1, TableKeeps
  <2>2. CASE Hears
    BY <2>2, HearActedKeeps, OtherRequestsKeep DEF Hears
  <2>3. CASE Player
    BY <2>3, PlayerKeeps
  <2>4. CASE UNCHANGED vars
    <3>1. UNCHANGED <<fight, budget, waiting, offers, bend, asks, wire, answers, app>>
      BY <2>4 DEF vars, host
    <3>2. FightInv'
      BY <3>1, FightStands DEF OffersInv, fight
    <3>3. answers' \in Seq(Reply) /\ \A id : Answering(id) => Answering(id)'
      BY <3>1, SameAnswers DEF OffersInv
    <3>4. <<>> \in Quiet /\ wire' = wire \o <<>>
      BY <3>1, NothingOnTheWire DEF OffersInv, WordInv
    <3>5. waiting' \in Combatant \cup {NoOne}
      BY <3>1 DEF OffersInv, HostTyped
    <3> QED
      BY <3>1, <3>2, <3>3, <3>4, <3>5, OnlyTheFight
  <2> QED
    BY <2>1, <2>2, <2>3, <2>4 DEF Next
<1> QED
  BY <1>1, <1>2, PTL DEF Spec

(* A turn is worth a walk up to the speed and one blow, whichever doors it *)
(* is taken through - an offer accepted late, the player's map, the agent, *)
(* the DM's hand - and however they interleave: every door asks what is    *)
(* spent at the moment it spends it (_too_far, already_acted, _carry_out,  *)
(* spend_movement, spend_action).                                          *)
THEOREM ATurnsWorth == Spec => []OneTurnsWorth
<1>1. OffersInv => OneTurnsWorth
  <2> SUFFICES ASSUME OffersInv PROVE OneTurnsWorth
    OBVIOUS
  <2>1. /\ budget.walked \in Nat /\ budget.struck \in Nat /\ moved \in Nat /\ moved <= Speed
        /\ budget.walked <= moved /\ budget.struck <= 1 /\ Speed \in Nat
    BY OffersAssumption DEF OffersInv, FightInv, FightTyped, SpentCovers
  <2> QED
    BY <2>1 DEF OneTurnsWorth
<1> QED
  BY <1>1, OffersHold, PTL

(* The box and the map hold a turn exactly as long as it is to be had:     *)
(* whatever is on its way, and however late it is read, what they show is  *)
(* on offer or about to be taken back, and what is on offer reaches the    *)
(* box or has been answered (_offer, _withdraw_for, _handle_acted,         *)
(* _on_turn_offered, _on_turn_withdrawn).                                  *)
THEOREM WordOfATurnArrives == Spec => []HeldWhileOffered
<1>1. OffersInv => HeldWhileOffered
  <2> SUFFICES ASSUME OffersInv PROVE HeldWhileOffered
    OBVIOUS
  <2>1. \A id : PutsLast(wire, id) => OnTheWay(ActionFrame(id), wire)
    <3>1. DOMAIN wire = 1 .. Len(wire)
      BY LenProperties DEF OffersInv, WordInv, Typed
    <3> QED
      BY <3>1 DEF PutsLast, OnTheWay
  <2> QED
    BY <2>1 DEF OffersInv, WordInv, OffersReach, ShowingIsOffered, HeldWhileOffered
<1> QED
  BY <1>1, OffersHold, PTL
=============================================================================
