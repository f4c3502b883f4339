----------------------------- MODULE SyncProofs ------------------------------
(***************************************************************************)
(* What a player holds when the wire is empty is exactly what they may     *)
(* see, in the version the host takes them to hold: proofs about Sync.     *)
(***************************************************************************)
EXTENDS Sync, Least, TLAPS

(* There is one last mention of an entity among the frames, if any.        *)
LEMMA OneLastMention ==
  ASSUME NEW id, NEW w \in Seq(Frame), NEW held,
         NEW i \in 1 .. Len(w), LastMention(w, i, id)
  PROVE  AfterReading(held, w, id) = w[i].changed[id]
<1>1. ASSUME NEW j \in 1 .. Len(w), LastMention(w, j, id)
      PROVE  j = i
  <2>1. Len(w) \in Nat /\ i \in Int /\ j \in Int
    OBVIOUS
  <2>2. ~ (i < j) /\ ~ (j < i)
    BY <2>1, <1>1 DEF LastMention
  <2> QED
    BY <2>1, <2>2
<1>2. (CHOOSE j \in 1 .. Len(w) : LastMention(w, j, id)) = i
  BY <1>1
<1> QED
  BY <1>2 DEF AfterReading

(* If any frame mentions it there is a last that does.                     *)
LEMMA SomeLastMention ==
  ASSUME NEW id, NEW w \in Seq(Frame),
         NEW i \in 1 .. Len(w), Mentions(w[i], id)
  PROVE  \E j \in 1 .. Len(w) : LastMention(w, j, id)
<1> DEFINE S == {j \in 1 .. Len(w) : Mentions(w[j], id)}
<1>1. Len(w) \in Nat /\ S \in SUBSET (1 .. Len(w)) /\ S # {}
  OBVIOUS
<1>2. PICK j \in S : \A k \in S : k <= j
  <2> HIDE DEF S
  <2> QED
    BY <1>1, Largest
<1>3. \A k \in j + 1 .. Len(w) : k \in 1 .. Len(w) /\ ~ (k <= j)
  BY <1>1
<1>4. LastMention(w, j, id)
  BY <1>2, <1>3 DEF LastMention
<1> QED
  BY <1>4

(* With nothing in flight they hold what they hold.                        *)
LEMMA NothingInFlight ==
  ASSUME NEW id, NEW held
  PROVE  AfterReading(held, <<>>, id) = held[id]
BY DEF AfterReading

(* A frame put on the wire has the last word on what it mentions.          *)
LEMMA OneMoreFrame ==
  ASSUME NEW w \in Seq(Frame), NEW f \in Frame, NEW id, NEW held
  PROVE  AfterReading(held, Append(w, f), id) =
           IF Mentions(f, id) THEN f.changed[id] ELSE AfterReading(held, w, id)
<1> DEFINE v == Append(w, f)
           n == Len(w)
<1>1. /\ v \in Seq(Frame) /\ Len(v) = n + 1 /\ n \in Nat
      /\ v[n + 1] = f
      /\ \A i \in 1 .. n : v[i] = w[i]
  OBVIOUS
<1> HIDE DEF v, n
<1>2. CASE Mentions(f, id)
  <2>1. n + 1 \in 1 .. Len(v) /\ LastMention(v, n + 1, id)
    BY <1>1, <1>2 DEF LastMention
  <2> QED
    BY <2>1, <1>1, <1>2, OneLastMention DEF v
<1>3. CASE ~Mentions(f, id)
  <2>1. \A i \in 1 .. n : LastMention(w, i, id) => LastMention(v, i, id)
    BY <1>1, <1>3 DEF LastMention, n
  <2>2. \A i \in 1 .. Len(v) : LastMention(v, i, id) => i \in 1 .. n /\ LastMention(w, i, id)
    BY <1>1, <1>3 DEF LastMention, n
  <2>3. CASE \E i \in 1 .. n : LastMention(w, i, id)
    <3>1. PICK i \in 1 .. n : LastMention(w, i, id)
      BY <2>3
    <3>2. i \in 1 .. Len(v) /\ i \in 1 .. Len(w)
      BY <1>1 DEF n
    <3>3. AfterReading(held, v, id) = v[i].changed[id]
      BY <3>1, <3>2, <2>1, <1>1, OneLastMention
    <3>4. AfterReading(held, w, id) = w[i].changed[id]
      BY <3>1, <3>2, OneLastMention
    <3> QED
      BY <3>3, <3>4, <1>1, <1>3 DEF v
  <2>4. CASE ~ \E i \in 1 .. n : LastMention(w, i, id)
    BY <2>2, <2>4, <1>3, <1>1 DEF AfterReading, v, n
  <2> QED
    BY <2>3, <2>4
<1> QED
  BY <1>2, <1>3

(* Reading a frame changes nothing about what they are going to hold.      *)
LEMMA OneFrameRead ==
  ASSUME NEW w \in Seq(Frame), w # <<>>, NEW id \in Id, NEW held
  PROVE  AfterReading(Read(held, Head(w)), Tail(w), id) = AfterReading(held, w, id)
<1> DEFINE v == Tail(w)
           f == Head(w)
           n == Len(v)
<1>1. /\ v \in Seq(Frame) /\ Len(w) = n + 1 /\ n \in Nat
      /\ w[1] = f /\ f \in Frame
      /\ \A i \in 1 .. n : v[i] = w[i + 1]
  OBVIOUS
<1>2. /\ Mentions(f, id) => Read(held, f)[id] = f.changed[id]
      /\ ~Mentions(f, id) => Read(held, f)[id] = held[id]
  BY <1>1 DEF Read, Mentions, Frame
<1> HIDE DEF v, n, f
<1>3. \A i \in 1 .. n : LastMention(v, i, id) <=> LastMention(w, i + 1, id)
  <2>1. ASSUME NEW i \in 1 .. n, LastMention(v, i, id)
        PROVE  LastMention(w, i + 1, id)
    <3>1. ASSUME NEW j \in i + 2 .. Len(w)
          PROVE  ~Mentions(w[j], id)
      <4>1. j - 1 \in i + 1 .. Len(v) /\ v[j - 1] = w[j]
        <5>1. j - 1 \in i + 1 .. n /\ j - 1 \in 1 .. n /\ (j - 1) + 1 = j
          BY <1>1
        <5> QED
          BY <5>1, <1>1 DEF n
      <4> QED
        BY <4>1, <2>1 DEF LastMention
    <3> QED
      BY <3>1, <2>1, <1>1 DEF LastMention
  <2>2. ASSUME NEW i \in 1 .. n, LastMention(w, i + 1, id)
        PROVE  LastMention(v, i, id)
    <3>1. ASSUME NEW j \in i + 1 .. Len(v)
          PROVE  ~Mentions(v[j], id)
      BY <1>1, <2>2 DEF LastMention, n
    <3> QED
      BY <3>1, <2>2, <1>1 DEF LastMention
  <2> QED
    BY <2>1, <2>2
<1>4. CASE \E i \in 1 .. n : LastMention(v, i, id)
  <2>1. PICK i \in 1 .. n : LastMention(v, i, id)
    BY <1>4
  <2>2. i \in 1 .. Len(v) /\ i + 1 \in 1 .. Len(w)
    BY <1>1 DEF n
  <2>3. AfterReading(Read(held, f), v, id) = v[i].changed[id]
    BY <2>1, <2>2, <1>1, OneLastMention
  <2>4. AfterReading(held, w, id) = w[i + 1].changed[id]
    BY <2>1, <2>2, <1>3, OneLastMention
  <2> QED
    BY <2>3, <2>4, <1>1 DEF v, f
<1>5. CASE ~ \E i \in 1 .. n : LastMention(v, i, id)
  <2>1. AfterReading(Read(held, f), v, id) = Read(held, f)[id]
    BY <1>5 DEF AfterReading, n
  <2>2. \A i \in 2 .. Len(w) : ~Mentions(w[i], id)
    <3>1. \A i \in 1 .. n : ~Mentions(v[i], id)
      BY <1>1, <1>5, SomeLastMention DEF n
    <3>2. \A i \in 2 .. Len(w) : i - 1 \in 1 .. n /\ w[i] = v[i - 1]
      <4>1. \A i \in 2 .. n + 1 : i - 1 \in 1 .. n /\ (i - 1) + 1 = i
        BY <1>1
      <4> QED
        BY <4>1, <1>1
    <3> QED
      BY <3>1, <3>2
  <2>3. CASE Mentions(f, id)
    <3>1. 1 \in 1 .. Len(w) /\ LastMention(w, 1, id)
      BY <2>2, <2>3, <1>1 DEF LastMention
    <3>2. AfterReading(held, w, id) = w[1].changed[id]
      BY <3>1, OneLastMention
    <3> QED
      BY <3>2, <2>1, <2>3, <1>1, <1>2 DEF v, f
  <2>4. CASE ~Mentions(f, id)
    <3>1. \A i \in 1 .. Len(w) : ~Mentions(w[i], id)
      BY <2>2, <2>4, <1>1
    <3>2. AfterReading(held, w, id) = held[id]
      BY <3>1 DEF AfterReading, LastMention
    <3> QED
      BY <3>2, <2>1, <2>4, <1>2 DEF v, f
  <2> QED
    BY <2>3, <2>4
<1> QED
  BY <1>4, <1>5

-----------------------------------------------------------------------------
(* The invariant                                                           *)

(* The frames are read in order and the host's view of what is on the      *)
(* player's screen is kept: what they hold on arrival, the ids the host    *)
(* takes them to see, and the versions it takes them to hold, agree.       *)
VisibleIsAllowed ==
  session.open => session.visible = shared \cup session.owned

NothingSentToNobody == ~session.open => session = Closed /\ wire = <<>>

SInv ==
  /\ TypeOK
  /\ VisibleIsAllowed
  /\ NothingSentToNobody
  /\ TheyHoldWhatTheyMaySee
  /\ SentIsWhatTheyHold

(* What Create, Save, Delete and Share have in common: one entity changes, *)
(* or who may see it, and that is published.                               *)
Changed(id) ==
  /\ entity' \in [Id -> Row \cup {Nothing}]
  /\ \A other \in Id \ {id} : entity'[other] = entity[other]
  /\ shared' \in {shared \cup {id}, shared \ {id}}
  /\ shared' \subseteq {other \in Id : entity'[other] # Nothing}
  /\ owned' \subseteq {other \in Id : entity'[other] # Nothing}
  /\ copy' = copy
  /\ Publish(id)

LEMMA RowsAreSomething ==
  ASSUME NEW row \in Row, NEW own \in BOOLEAN
  PROVE  /\ row # Nothing
         /\ Projected(row, own) \in Held
         /\ Projected(row, own) # Nothing
         /\ Projected(row, own).version = row.version
BY SyncAssumption DEF Row, Held, Version, Projected

(* What a publication leaves the player holding, and the host knowing.     *)
LEMMA PublicationArrives ==
  ASSUME TypeOK, VisibleIsAllowed, session.open, NEW id \in Id, Changed(id)
  PROVE  /\ wire' \in Seq(Frame)
         /\ session' = [session EXCEPT !.visible = shared' \cup session.owned,
                                      !.sent = session'.sent]
         /\ session'.sent \in [Id -> 0 .. MaxVersion]
         /\ session'.open
         /\ session'.visible = shared' \cup session.owned
         /\ session'.owned = session.owned
         /\ \A other \in Id \ {id} :
              /\ OnArrival(other)' = OnArrival(other)
              /\ session'.sent[other] = session.sent[other]
         /\ IF id \in shared' \cup session.owned /\ entity'[id] # Nothing
            THEN /\ OnArrival(id)' = Projected(entity'[id], id \in session.owned)
                 /\ session'.sent[id] = entity'[id].version
            ELSE id \in session.visible => OnArrival(id)' = Nothing
         /\ id \notin session.visible /\ id \notin shared' \cup session.owned
              => OnArrival(id)' = OnArrival(id)
<1> DEFINE allowed == shared' \cup session.owned
           seen == id \in allowed /\ entity'[id] # Nothing
           news == [changed |-> [NoNews EXCEPT ![id] =
                                   Projected(entity'[id], id \in session.owned)],
                    gone |-> {}]
           farewell == [changed |-> NoNews, gone |-> {id}]
<1>1. /\ session' = [session EXCEPT !.visible = allowed,
                        !.sent[id] = IF seen THEN entity'[id].version ELSE 0]
      /\ wire' = IF seen THEN Append(wire, news)
                 ELSE IF id \in session.visible THEN Append(wire, farewell)
                 ELSE wire
  BY DEF Changed, Publish
<1>2. /\ session \in [open : BOOLEAN, owned : SUBSET Id, visible : SUBSET Id,
                       sent : [Id -> 0 .. MaxVersion]]
      /\ wire \in Seq(Frame) /\ copy' = copy
      /\ entity'[id] \in Row \cup {Nothing}
  BY DEF TypeOK, Changed
<1>3. ASSUME seen
      PROVE  /\ news \in Frame
             /\ entity'[id].version \in 0 .. MaxVersion
             /\ \A other \in Id : Mentions(news, other) <=> other = id
             /\ news.changed[id] = Projected(entity'[id], id \in session.owned)
  <2>1. entity'[id] \in Row /\ (id \in session.owned) \in BOOLEAN
    BY <1>2, <1>3
  <2>2. /\ Projected(entity'[id], id \in session.owned) \in Held
        /\ Projected(entity'[id], id \in session.owned) # Nothing
    BY <2>1, RowsAreSomething
  <2>3. entity'[id].version \in 0 .. MaxVersion
    BY <2>1, SyncAssumption DEF Row, Version
  <2> HIDE DEF allowed, seen
  <2>4. QED
    BY <2>2, <2>3 DEF Frame, Mentions, NoNews
<1>4. /\ farewell \in Frame
      /\ \A other \in Id : Mentions(farewell, other) <=> other = id
      /\ farewell.changed[id] = Nothing
  BY DEF Frame, Mentions, NoNews
<1>5. /\ session'.open /\ session'.visible = allowed /\ session'.owned = session.owned
      /\ session' = [session EXCEPT !.visible = allowed, !.sent = session'.sent]
      /\ session'.sent = [session.sent EXCEPT ![id] = IF seen THEN entity'[id].version ELSE 0]
  <2> HIDE DEF allowed, seen
  <2> QED
    BY <1>1, <1>2
<1>6. /\ session'.sent \in [Id -> 0 .. MaxVersion]
      /\ \A other \in Id \ {id} : session'.sent[other] = session.sent[other]
      /\ seen => session'.sent[id] = entity'[id].version
  <2>1. 0 \in 0 .. MaxVersion
    BY SyncAssumption
  <2> HIDE DEF seen
  <2> QED
    BY <1>2, <1>3, <1>5, <2>1
<1> HIDE DEF allowed, news, farewell
<1>7. CASE seen
  <2>1. wire' = Append(wire, news)
    BY <1>1, <1>7
  <2>2. \A other \in Id : OnArrival(other)' =
          IF Mentions(news, other) THEN news.changed[other] ELSE OnArrival(other)
    BY <2>1, <1>2, <1>3, <1>7, OneMoreFrame DEF OnArrival
  <2>3. wire' \in Seq(Frame)
    BY <2>1, <1>2, <1>3, <1>7
  <2> QED
    BY <2>2, <2>3, <1>3, <1>5, <1>6, <1>7 DEF allowed
<1>8. CASE ~seen /\ id \in session.visible
  <2>1. wire' = Append(wire, farewell)
    BY <1>1, <1>8
  <2>2. \A other \in Id : OnArrival(other)' =
          IF Mentions(farewell, other) THEN farewell.changed[other] ELSE OnArrival(other)
    BY <2>1, <1>2, <1>4, OneMoreFrame DEF OnArrival
  <2>3. wire' \in Seq(Frame)
    BY <2>1, <1>2, <1>4
  <2> QED
    BY <2>2, <2>3, <1>4, <1>5, <1>6, <1>8 DEF allowed
<1>9. CASE ~seen /\ id \notin session.visible
  <2>1. \A other \in Id : OnArrival(other)' = OnArrival(other)
    BY <1>1, <1>2, <1>9 DEF OnArrival
  <2> QED
    BY <2>1, <1>1, <1>2, <1>5, <1>6, <1>9 DEF allowed
<1> QED
  BY <1>7, <1>8, <1>9

(* A change that is published keeps the invariant.                         *)
LEMMA ChangedKeepsSInv ==
  ASSUME SInv, NEW id \in Id, Changed(id)
  PROVE  SInv'
<1>1. CASE ~session.open
  <2>1. session' = session /\ wire' = wire /\ copy' = copy
    BY <1>1 DEF Changed, Publish
  <2> QED
    BY <2>1, <1>1
    DEF SInv, TypeOK, Existing, Changed, VisibleIsAllowed, NothingSentToNobody,
        TheyHoldWhatTheyMaySee, SentIsWhatTheyHold
<1>2. CASE session.open
  <2>1. TypeOK /\ VisibleIsAllowed
    BY DEF SInv
  <2>2. /\ wire' \in Seq(Frame)
        /\ session' = [session EXCEPT !.visible = shared' \cup session.owned,
                                     !.sent = session'.sent]
        /\ session'.sent \in [Id -> 0 .. MaxVersion]
        /\ session'.open
        /\ session'.visible = shared' \cup session.owned
        /\ session'.owned = session.owned
    BY <1>2, <2>1, PublicationArrives
  <2>3. \A other \in Id \ {id} :
          /\ OnArrival(other)' = OnArrival(other)
          /\ session'.sent[other] = session.sent[other]
    BY <1>2, <2>1, PublicationArrives
  <2>4. /\ IF id \in shared' \cup session.owned /\ entity'[id] # Nothing
           THEN /\ OnArrival(id)' = Projected(entity'[id], id \in session.owned)
                /\ session'.sent[id] = entity'[id].version
           ELSE id \in session.visible => OnArrival(id)' = Nothing
        /\ id \notin session.visible /\ id \notin shared' \cup session.owned
             => OnArrival(id)' = OnArrival(id)
    BY <1>2, <2>1, PublicationArrives
  <2>5. /\ session.visible = shared \cup session.owned
        /\ \A other \in Id :
             OnArrival(other) # Nothing
               <=> other \in (shared \cup session.owned) \cap Existing
        /\ \A other \in (shared \cup session.owned) \cap Existing :
             session.sent[other] = OnArrival(other).version
    BY <1>2 DEF SInv, VisibleIsAllowed, TheyHoldWhatTheyMaySee, SentIsWhatTheyHold
  <2>6. entity'[id] \in Row \cup {Nothing} /\ (id \in session.owned) \in BOOLEAN
    BY DEF Changed
  <2>7. entity'[id] # Nothing =>
          /\ Projected(entity'[id], id \in session.owned) # Nothing
          /\ Projected(entity'[id], id \in session.owned).version = entity'[id].version
    BY <2>6, RowsAreSomething
  <2>8. /\ \A other \in Id \ {id} : /\ entity'[other] = entity[other]
                                    /\ other \in shared' <=> other \in shared
        /\ id \in shared' => entity'[id] # Nothing
    BY DEF Changed
  <2>9. TypeOK'
    <3>1. session' \in [open : BOOLEAN, owned : SUBSET Id, visible : SUBSET Id,
                        sent : [Id -> 0 .. MaxVersion]]
      BY <2>1, <2>2 DEF TypeOK, Changed
    <3> QED
      BY <3>1, <2>1, <2>2 DEF TypeOK, Existing, Changed
  <2>10. VisibleIsAllowed' /\ NothingSentToNobody'
    BY <2>2 DEF VisibleIsAllowed, NothingSentToNobody
  <2>11. TheyHoldWhatTheyMaySee'
    <3>1. ASSUME NEW other \in Id
          PROVE  OnArrival(other)' # Nothing
                   <=> other \in shared' \cup session.owned /\ entity'[other] # Nothing
      <4>1. CASE other # id
        <5>1. OnArrival(other)' = OnArrival(other)
          BY <4>1, <2>3
        <5>2. entity'[other] = entity[other] /\ (other \in shared' <=> other \in shared)
          BY <4>1, <2>8
        <5>3. OnArrival(other) # Nothing
                <=> other \in shared \cup session.owned /\ entity[other] # Nothing
          BY <2>5 DEF Existing
        <5> QED
          BY <5>1, <5>2, <5>3
      <4>2. CASE other = id
        <5>1. CASE id \in shared' \cup session.owned /\ entity'[id] # Nothing
          BY <5>1, <4>2, <2>4, <2>7 DEF OnArrival
        <5>2. CASE ~ (id \in shared' \cup session.owned /\ entity'[id] # Nothing)
          BY <5>2, <4>2, <2>4, <2>5, <2>8 DEF OnArrival
        <5> QED
          BY <5>1, <5>2
      <4> QED
        BY <4>1, <4>2
    <3> QED
      BY <3>1, <2>2 DEF TheyHoldWhatTheyMaySee, Existing
  <2>12. SentIsWhatTheyHold'
    <3>1. ASSUME NEW other \in Id,
                 other \in shared' \cup session.owned, entity'[other] # Nothing
          PROVE  OnArrival(other)' # Nothing /\ session'.sent[other] = OnArrival(other)'.version
      <4>1. CASE other # id
        <5>1. OnArrival(other)' = OnArrival(other) /\ session'.sent[other] = session.sent[other]
          BY <4>1, <2>3
        <5>2. entity'[other] = entity[other] /\ (other \in shared' <=> other \in shared)
          BY <4>1, <2>8
        <5>3. other \in shared \cup session.owned /\ entity[other] # Nothing =>
                OnArrival(other) # Nothing /\ session.sent[other] = OnArrival(other).version
          BY <2>5 DEF Existing
        <5> QED
          BY <5>1, <5>2, <5>3, <3>1
      <4>2. CASE other = id
        BY <4>2, <3>1, <2>4, <2>7 DEF OnArrival
      <4> QED
        BY <4>1, <4>2
    <3> QED
      BY <3>1, <2>2 DEF SentIsWhatTheyHold, Existing
  <2> QED
    BY <2>9, <2>10, <2>11, <2>12 DEF SInv
<1> QED
  BY <1>1, <1>2

(* Every action that publishes is such a change.                           *)
LEMMA CreateChanges ==
  ASSUME TypeOK, NEW id \in Id, NEW text \in Text, Create(id, text)
  PROVE  Changed(id)
<1>1. [version |-> 1, text |-> text] \in Row /\ [version |-> 1, text |-> text] # Nothing
  BY SyncAssumption DEF Row, Version
<1> QED
  BY <1>1 DEF Create, Changed, TypeOK, Existing

LEMMA RewrittenRow ==
  ASSUME TypeOK, NEW id \in Id, NEW text \in Text, Rewritten(id, text)
  PROVE  /\ entity' = [entity EXCEPT ![id] = entity'[id]]
         /\ entity'[id] \in Row /\ entity'[id] # Nothing
         /\ entity[id] # Nothing /\ entity[id].version \in Nat
         /\ entity'[id].version = entity[id].version + 1
<1>1. entity[id] \in Row /\ entity[id] # Nothing
  BY DEF TypeOK, Rewritten, Existing
<1>2. entity[id].version \in 1 .. MaxVersion /\ entity[id].version < MaxVersion
  BY <1>1 DEF Row, Version, Rewritten
<1>3. entity[id].version + 1 \in Version
  BY <1>2, SyncAssumption DEF Version
<1>4. [version |-> entity[id].version + 1, text |-> text] \in Row
  BY <1>3 DEF Row
<1> QED
  BY <1>1, <1>2, <1>4, RowsAreSomething DEF Rewritten, TypeOK

LEMMA SaveChanges ==
  ASSUME TypeOK, NEW id \in Id, NEW text \in Text, NEW own \in BOOLEAN,
         Save(id, text, own)
  PROVE  Changed(id)
BY RewrittenRow DEF Save, Changed, TypeOK, Existing

LEMMA DeleteChanges ==
  ASSUME TypeOK, NEW id \in Id, Delete(id)
  PROVE  Changed(id)
BY DEF Delete, Changed, TypeOK, Existing

LEMMA ShareChanges ==
  ASSUME TypeOK, NEW id \in Id, NEW with \in BOOLEAN, Share(id, with)
  PROVE  Changed(id)
BY DEF Share, Changed, TypeOK, Existing

(* The snapshot brings whoever connects up to date.                        *)
LEMMA ConnectBringsUpToDate ==
  ASSUME TypeOK, Connect
  PROVE  /\ session' \in [open : BOOLEAN, owned : SUBSET Id, visible : SUBSET Id,
                          sent : [Id -> 0 .. MaxVersion]]
         /\ wire' \in Seq(Frame)
         /\ session'.open /\ session'.owned = owned
         /\ session'.visible = shared \cup owned
         /\ \A id \in Id :
              IF id \in shared \cup owned /\ entity[id] # Nothing
              THEN /\ OnArrival(id)' # Nothing
                   /\ OnArrival(id)'.version = entity[id].version
                   /\ session'.sent[id] = entity[id].version
              ELSE OnArrival(id)' = Nothing
<1> DEFINE allowed == shared \cup owned
           stale == {id \in allowed \cap Existing :
                       copy[id] = Nothing \/ copy[id].version # entity[id].version}
           held == {id \in Id : copy[id] # Nothing}
           remembered == [id \in Id |-> IF id \in stale THEN entity[id].version
                                       ELSE IF id \in held THEN copy[id].version
                                       ELSE 0]
           frame == [changed |-> [id \in Id |-> IF id \in stale
                                    THEN Projected(entity[id], id \in owned)
                                    ELSE Nothing],
                     gone |-> held \ allowed]
<1>1. /\ session' = [open |-> TRUE, owned |-> owned, visible |-> allowed, sent |-> remembered]
      /\ wire' = <<frame>> /\ copy' = copy
  BY DEF Connect, Snapshot
<1>2. /\ allowed \subseteq Existing /\ owned \subseteq Id /\ allowed \subseteq Id
      /\ copy \in [Id -> Held \cup {Nothing}]
      /\ \A id \in Existing : entity[id] \in Row /\ entity[id].version \in 0 .. MaxVersion
      /\ \A id \in held : copy[id] \in Held /\ copy[id].version \in 0 .. MaxVersion
      /\ 0 \in 0 .. MaxVersion
  <2>1. /\ shared \subseteq Existing /\ owned \subseteq Existing
        /\ entity \in [Id -> Row \cup {Nothing}]
        /\ copy \in [Id -> Held \cup {Nothing}]
    BY DEF TypeOK
  <2>2. /\ \A row \in Row : row.version \in 0 .. MaxVersion
        /\ \A was \in Held : was.version \in 0 .. MaxVersion
        /\ 0 \in 0 .. MaxVersion
    BY SyncAssumption DEF Row, Held, Version
  <2>3. \A id \in Existing : entity[id] \in Row
    BY <2>1 DEF Existing
  <2>4. \A id \in held : copy[id] \in Held
    BY <2>1
  <2> QED
    BY <2>1, <2>2, <2>3, <2>4 DEF Existing
<1>3. \A id \in Existing :
        /\ Projected(entity[id], id \in owned) \in Held
        /\ Projected(entity[id], id \in owned) # Nothing
        /\ Projected(entity[id], id \in owned).version = entity[id].version
  <2>1. ASSUME NEW id \in Existing
        PROVE  entity[id] \in Row /\ (id \in owned) \in BOOLEAN
    BY <1>2
  <2> QED
    BY <2>1, RowsAreSomething
<1>4. remembered \in [Id -> 0 .. MaxVersion]
  BY <1>2
<1>5. frame \in Frame
  BY <1>2, <1>3 DEF Frame
<1>6. ASSUME NEW id \in Id
      PROVE  /\ Mentions(frame, id) <=> id \in stale \cup (held \ allowed)
             /\ id \in stale => frame.changed[id] = Projected(entity[id], id \in owned)
             /\ id \notin stale => frame.changed[id] = Nothing
  BY <1>3 DEF Mentions
<1>7. ASSUME NEW id \in Id
      PROVE  OnArrival(id)' = IF Mentions(frame, id) THEN frame.changed[id] ELSE copy[id]
  <2>1. <<>> \in Seq(Frame) /\ wire' = Append(<<>>, frame)
    BY <1>1
  <2>2. AfterReading(copy, Append(<<>>, frame), id) =
          IF Mentions(frame, id) THEN frame.changed[id] ELSE AfterReading(copy, <<>>, id)
    BY <2>1, <1>5, OneMoreFrame
  <2> QED
    BY <2>1, <2>2, <1>1, NothingInFlight DEF OnArrival
<1>8. ASSUME NEW id \in Id
      PROVE  IF id \in allowed /\ entity[id] # Nothing
             THEN /\ OnArrival(id)' # Nothing
                  /\ OnArrival(id)'.version = entity[id].version
                  /\ remembered[id] = entity[id].version
             ELSE OnArrival(id)' = Nothing
  <2> DEFINE later == OnArrival(id)'
  <2>1. /\ id \in allowed => id \in Existing
        /\ Existing \subseteq Id
    BY <1>2 DEF Existing
  <2>2. later = IF Mentions(frame, id) THEN frame.changed[id] ELSE copy[id]
    BY <1>7
  <2>3. /\ Mentions(frame, id) <=> id \in stale \cup (held \ allowed)
        /\ id \in stale => frame.changed[id] = Projected(entity[id], id \in owned)
        /\ id \notin stale => frame.changed[id] = Nothing
    BY <1>6
  <2>4. remembered[id] = IF id \in stale THEN entity[id].version
                         ELSE IF id \in held THEN copy[id].version ELSE 0
    OBVIOUS
  <2> HIDE DEF later, frame, remembered
  <2>5. CASE id \in stale
    <3>1. /\ id \in Existing
          /\ Projected(entity[id], id \in owned) # Nothing
          /\ Projected(entity[id], id \in owned).version = entity[id].version
      BY <2>5, <1>3
    <3>2. later = Projected(entity[id], id \in owned)
      BY <2>2, <2>3, <2>5
    <3> QED
      BY <3>1, <3>2, <2>4, <2>5 DEF later, Existing
  <2>6. CASE id \in allowed /\ id \notin stale
    <3>1. id \in held /\ copy[id].version = entity[id].version /\ copy[id] # Nothing
      BY <2>1, <2>6
    <3>2. later = copy[id]
      BY <3>1, <2>2, <2>3, <2>6
    <3> QED
      BY <3>1, <3>2, <2>1, <2>4, <2>6 DEF later, Existing
  <2>7. CASE id \notin allowed
    <3>1. later = Nothing
      BY <2>2, <2>3, <2>7
    <3> QED
      BY <3>1, <2>7 DEF later
  <2> QED
    BY <2>5, <2>6, <2>7
<1> HIDE DEF allowed, remembered, frame
<1>9. session' \in [open : BOOLEAN, owned : SUBSET Id, visible : SUBSET Id,
                    sent : [Id -> 0 .. MaxVersion]]
  BY <1>1, <1>2, <1>4
<1> QED
  BY <1>1, <1>5, <1>8, <1>9 DEF allowed

(* So does connecting.                                                     *)
LEMMA ConnectKeepsSInv ==
  ASSUME SInv, Connect
  PROVE  SInv'
<1>1. TypeOK /\ UNCHANGED <<store, copy>>
  BY DEF SInv, Connect
<1>2. /\ session' \in [open : BOOLEAN, owned : SUBSET Id, visible : SUBSET Id,
                       sent : [Id -> 0 .. MaxVersion]]
      /\ wire' \in Seq(Frame)
      /\ session'.open /\ session'.owned = owned
      /\ session'.visible = shared \cup owned
  BY <1>1, ConnectBringsUpToDate
<1>3. ASSUME NEW id \in Id
      PROVE  IF id \in shared \cup owned /\ entity[id] # Nothing
             THEN /\ OnArrival(id)' # Nothing
                  /\ OnArrival(id)'.version = entity[id].version
                  /\ session'.sent[id] = entity[id].version
             ELSE OnArrival(id)' = Nothing
  BY <1>1, ConnectBringsUpToDate
<1>4. TypeOK'
  BY <1>1, <1>2 DEF TypeOK, Existing, store
<1>5. VisibleIsAllowed' /\ NothingSentToNobody'
  BY <1>1, <1>2 DEF VisibleIsAllowed, NothingSentToNobody, store
<1>6. ASSUME NEW id \in Id
      PROVE  /\ OnArrival(id)' # Nothing
                  <=> id \in shared' \cup session'.owned /\ entity'[id] # Nothing
             /\ id \in shared' \cup session'.owned /\ entity'[id] # Nothing
                  => session'.sent[id] = OnArrival(id)'.version
  BY <1>1, <1>2, <1>3 DEF store
<1>7. TheyHoldWhatTheyMaySee'
  BY <1>6 DEF TheyHoldWhatTheyMaySee, Existing
<1>8. SentIsWhatTheyHold'
  BY <1>6 DEF SentIsWhatTheyHold, Existing
<1> QED
  BY <1>4, <1>5, <1>7, <1>8 DEF SInv

(* Reading a frame is a step nobody can tell.                              *)
LEMMA ReceiveArrives ==
  ASSUME TypeOK, Receive
  PROVE  /\ \A id \in Id : OnArrival(id)' = OnArrival(id)
         /\ wire' \in Seq(Frame)
         /\ copy' \in [Id -> Held \cup {Nothing}]
<1>1. /\ wire \in Seq(Frame) /\ wire # <<>> /\ wire' = Tail(wire)
      /\ copy' = Read(copy, Head(wire)) /\ copy \in [Id -> Held \cup {Nothing}]
  BY DEF TypeOK, Receive
<1>2. Head(wire) \in Frame /\ wire' \in Seq(Frame)
  BY <1>1
<1>3. copy' \in [Id -> Held \cup {Nothing}]
  BY <1>1, <1>2 DEF Read, Frame
<1>4. ASSUME NEW id \in Id
      PROVE  AfterReading(copy', wire', id) = AfterReading(copy, wire, id)
  BY <1>1, OneFrameRead
<1> QED
  BY <1>2, <1>3, <1>4 DEF OnArrival

LEMMA InitSInv == Init => SInv
<1> SUFFICES ASSUME Init PROVE SInv
  OBVIOUS
<1>1. /\ Closed \in [open : BOOLEAN, owned : SUBSET Id, visible : SUBSET Id,
                     sent : [Id -> 0 .. MaxVersion]]
      /\ ~Closed.open
  BY SyncAssumption DEF Closed
<1> QED
  BY <1>1 DEF Init, SInv, TypeOK, Existing, VisibleIsAllowed, NothingSentToNobody,
              TheyHoldWhatTheyMaySee, SentIsWhatTheyHold

LEMMA NextSInv == SInv /\ [Next]_vars => SInv'
<1> SUFFICES ASSUME SInv, [Next]_vars PROVE SInv'
  OBVIOUS
<1>1. TypeOK
  BY DEF SInv
<1>2. CASE Connect
  BY <1>2, ConnectKeepsSInv
<1>3. CASE Disconnect
  <2>1. /\ Closed \in [open : BOOLEAN, owned : SUBSET Id, visible : SUBSET Id,
                       sent : [Id -> 0 .. MaxVersion]]
        /\ ~Closed.open
    BY SyncAssumption DEF Closed
  <2> QED
    BY <1>1, <1>3, <2>1
    DEF Disconnect, SInv, TypeOK, Existing, VisibleIsAllowed, NothingSentToNobody,
        TheyHoldWhatTheyMaySee, SentIsWhatTheyHold, store
<1>4. CASE Receive
  <2>1. /\ \A id \in Id : OnArrival(id)' = OnArrival(id)
        /\ wire' \in Seq(Frame)
        /\ copy' \in [Id -> Held \cup {Nothing}]
    BY <1>1, <1>4, ReceiveArrives
  <2>2. UNCHANGED <<entity, shared, owned, session>> /\ wire # <<>>
    BY <1>4 DEF Receive, store
  <2>3. TypeOK' /\ VisibleIsAllowed' /\ NothingSentToNobody'
    BY <2>1, <2>2 DEF SInv, TypeOK, Existing, VisibleIsAllowed, NothingSentToNobody
  <2>4. TheyHoldWhatTheyMaySee'
    BY <2>1, <2>2 DEF SInv, TheyHoldWhatTheyMaySee, Existing
  <2>5. SentIsWhatTheyHold'
    BY <2>1, <2>2 DEF SInv, SentIsWhatTheyHold, Existing
  <2> QED
    BY <2>3, <2>4, <2>5 DEF SInv
<1>5. CASE ForgetCache
  BY <1>1, <1>5
  DEF ForgetCache, NoNews, SInv, TypeOK, Existing, VisibleIsAllowed, NothingSentToNobody,
      TheyHoldWhatTheyMaySee, SentIsWhatTheyHold, store
<1>6. ASSUME NEW id \in Id,
             \/ Delete(id)
             \/ \E text \in Text : Create(id, text)
             \/ \E text \in Text, own \in BOOLEAN : Save(id, text, own)
             \/ \E with \in BOOLEAN : Share(id, with)
      PROVE  SInv'
  <2>1. Changed(id)
    BY <1>1, <1>6, CreateChanges, SaveChanges, DeleteChanges, ShareChanges
  <2> QED
    BY <2>1, ChangedKeepsSInv
<1>7. ASSUME NEW id \in Id, NEW own \in BOOLEAN, SetOwner(id, own)
      PROVE  SInv'
  <2>1. Rewritten(id, entity[id].text) /\ entity[id].text \in Text
    BY <1>1, <1>7 DEF SetOwner, Rewritten, TypeOK, Existing, Row
  <2>2. /\ entity' = [entity EXCEPT ![id] = entity'[id]]
        /\ entity'[id] \in Row /\ entity'[id] # Nothing /\ entity[id] # Nothing
    BY <1>1, <2>1, RewrittenRow
  <2>3. /\ UNCHANGED <<shared, session, wire, copy>>
        /\ owned' \in {owned \cup {id}, owned \ {id}}
    BY <1>7 DEF SetOwner
  <2>4. Existing' = Existing
    BY <2>2, <1>1 DEF Existing, TypeOK
  <2>5. TypeOK' /\ VisibleIsAllowed' /\ NothingSentToNobody'
    BY <1>1, <2>2, <2>3, <2>4
    DEF SInv, TypeOK, Existing, VisibleIsAllowed, NothingSentToNobody
  <2>6. TheyHoldWhatTheyMaySee' /\ SentIsWhatTheyHold'
    BY <2>3, <2>4 DEF SInv, TheyHoldWhatTheyMaySee, SentIsWhatTheyHold, OnArrival
  <2> QED
    BY <2>5, <2>6 DEF SInv
<1>8. CASE UNCHANGED vars
  BY <1>8
  DEF vars, store, SInv, TypeOK, Existing, VisibleIsAllowed, NothingSentToNobody,
      TheyHoldWhatTheyMaySee, SentIsWhatTheyHold, OnArrival
<1> QED
  BY <1>2, <1>3, <1>4, <1>5, <1>6, <1>7, <1>8 DEF Next

LEMMA SpecSInv == Spec => []SInv
BY InitSInv, NextSInv, PTL DEF Spec

-----------------------------------------------------------------------------
(* The theorems                                                            *)

(* Every reachable state is well typed: above all, whatever is shared or   *)
(* owned exists, for shares and owners go with the row (entity_share's     *)
(* foreign key).                                                           *)
THEOREM SyncTypeCorrect == Spec => []TypeOK
BY SpecSInv, PTL DEF SInv

(* A player ends up holding exactly what they may know exists, whatever    *)
(* was shared, taken back, deleted or made again while they were there or  *)
(* away (publish_entity, snapshot_since).                                  *)
THEOREM HoldingIsSeeing == Spec => []TheyHoldWhatTheyMaySee
BY SpecSInv, PTL DEF SInv

(* The version an edit is taken to be made against is the one its player   *)
(* holds, or is about to (publish_entity, _send_snapshot).                 *)
THEOREM SentIsHeld == Spec => []SentIsWhatTheyHold
BY SpecSInv, PTL DEF SInv

-----------------------------------------------------------------------------
(* Sync implements Shelf                                                   *)

Versions == [id \in Id |-> IF entity[id] = Nothing THEN 0 ELSE entity[id].version]
Known    == [id \in Id |-> VersionHeld(OnArrival(id))]

LEMMA InitPromise == Init => Promise!Init
<1> SUFFICES ASSUME Init PROVE Promise!Init
  OBVIOUS
<1>1. Versions = [id \in Id |-> 0] /\ Known = [id \in Id |-> 0]
  BY NothingInFlight DEF Init, Versions, Known, OnArrival, VersionHeld
<1>2. session.owned = {} /\ session.open = FALSE /\ shared = {}
  BY DEF Init, Closed
<1> QED
  BY <1>1, <1>2 DEF Promise!Init, Versions, Known

(* A change that is published is known at once.                            *)
LEMMA ChangedIsAChange ==
  ASSUME SInv, NEW id \in Id, Changed(id),
         Versions'[id] \in {0, Versions[id], Versions[id] + 1}
  PROVE  Promise!Change(id)
<1> DEFINE seen == id \in shared' \cup session.owned
<1>1. Versions' \in {[Versions EXCEPT ![id] = v] : v \in {0, Versions[id], Versions[id] + 1}}
  <2>1. Versions' = [Versions EXCEPT ![id] = Versions'[id]]
    BY DEF Changed, Versions
  <2> QED
    BY <2>1
<1>2. UNCHANGED <<session.open, session.owned>>
  <2>1. CASE session.open
    BY <2>1, PublicationArrives DEF SInv
  <2>2. CASE ~session.open
    BY <2>2 DEF Changed, Publish
  <2> QED
    BY <2>1, <2>2
<1>3. shared' \in {shared \cup {id}, shared \ {id}}
  BY DEF Changed
<1>4. Known' = IF session.open
               THEN [Known EXCEPT ![id] = IF seen THEN Versions'[id] ELSE 0]
               ELSE Known
  <2>1. CASE ~session.open
    <3>1. wire' = wire /\ copy' = copy
      BY <2>1 DEF Changed, Publish
    <3> QED
      BY <2>1, <3>1 DEF Known, OnArrival
  <2>2. CASE session.open
    <3>1. TypeOK /\ VisibleIsAllowed
      BY DEF SInv
    <3>2. ASSUME NEW other \in Id \ {id}
          PROVE  Known'[other] = Known[other]
      BY <2>2, <3>1, PublicationArrives DEF Known, OnArrival
    <3>3. Known'[id] = VersionHeld(OnArrival(id)')
      BY DEF Known, OnArrival
    <3>4. /\ entity'[id] \in Row \cup {Nothing}
          /\ (id \in session.owned) \in BOOLEAN
          /\ id \in shared' => entity'[id] # Nothing
      BY DEF Changed
    <3>5. /\ IF seen /\ entity'[id] # Nothing
             THEN OnArrival(id)' = Projected(entity'[id], id \in session.owned)
             ELSE id \in session.visible => OnArrival(id)' = Nothing
          /\ id \notin session.visible /\ ~seen => OnArrival(id)' = OnArrival(id)
      BY <2>2, <3>1, PublicationArrives
    <3>6. /\ session.visible = shared \cup session.owned
          /\ id \notin shared \cup session.owned => OnArrival(id) = Nothing
      BY <2>2 DEF SInv, VisibleIsAllowed, TheyHoldWhatTheyMaySee
    <3>7. Known'[id] = IF seen THEN Versions'[id] ELSE 0
      <4>1. CASE seen /\ entity'[id] # Nothing
        <5>1. VersionHeld(Projected(entity'[id], id \in session.owned)) = entity'[id].version
          BY <3>4, <4>1, RowsAreSomething DEF VersionHeld
        <5> QED
          BY <5>1, <3>3, <3>5, <4>1 DEF Versions
      <4>2. CASE ~ (seen /\ entity'[id] # Nothing)
        <5>1. OnArrival(id)' = Nothing
          BY <3>4, <3>5, <3>6, <4>2
        <5>2. seen => Versions'[id] = 0
          BY <4>2 DEF Versions
        <5> QED
          BY <5>1, <5>2, <3>3 DEF VersionHeld
      <4> QED
        BY <4>1, <4>2
    <3>8. Known' = [Known EXCEPT ![id] = IF seen THEN Versions'[id] ELSE 0]
      BY <3>2, <3>7 DEF Known
    <3> QED
      BY <2>2, <3>8
  <2> QED
    BY <2>1, <2>2
<1> QED
  BY <1>1, <1>2, <1>3, <1>4 DEF Promise!Change, Versions, Known

LEMMA NextKeepsThePromise ==
  SInv /\ [Next]_vars => [Promise!Next]_(Promise!shelf)
<1> SUFFICES ASSUME SInv, [Next]_vars PROVE [Promise!Next]_(Promise!shelf)
  OBVIOUS
<1>1. TypeOK
  BY DEF SInv
<1>2. CASE Connect
  <2>1. ~session.open /\ UNCHANGED <<store, copy>>
    BY <1>2 DEF Connect
  <2>2. session'.open /\ session'.owned = owned /\ owned \in SUBSET Id
    BY <1>1, <1>2, ConnectBringsUpToDate DEF TypeOK, Existing
  <2>3. ASSUME NEW id \in Id
        PROVE  Known'[id] = IF id \in shared \cup owned THEN Versions[id] ELSE 0
    <3>1. Known'[id] = VersionHeld(OnArrival(id)')
      BY DEF Known, OnArrival
    <3>2. IF id \in shared \cup owned /\ entity[id] # Nothing
          THEN /\ OnArrival(id)' # Nothing
               /\ OnArrival(id)'.version = entity[id].version
          ELSE OnArrival(id)' = Nothing
      BY <1>1, <1>2, ConnectBringsUpToDate
    <3> QED
      BY <3>1, <3>2 DEF VersionHeld, Versions
  <2>4. Known' = [id \in Id |-> IF id \in shared \cup session'.owned THEN Versions[id] ELSE 0]
    BY <2>2, <2>3 DEF Known
  <2>5. UNCHANGED <<Versions, shared>>
    BY <2>1 DEF store, Versions
  <2>6. Promise!Come
    BY <2>1, <2>2, <2>4, <2>5 DEF Promise!Come, Versions, Known
  <2> QED
    BY <2>6 DEF Promise!Next
<1>3. CASE Disconnect
  <2>1. /\ session.open /\ ~session'.open /\ session'.open = FALSE /\ session'.owned = {}
        /\ wire' = <<>> /\ UNCHANGED <<store, copy>>
    BY <1>3 DEF Disconnect, Closed
  <2>2. Known' \in [Id -> 0 .. MaxVersion]
    <3>1. ASSUME NEW id \in Id
          PROVE  Known'[id] \in 0 .. MaxVersion
      <4>1. Known'[id] = VersionHeld(copy[id])
        BY <2>1, NothingInFlight DEF Known, OnArrival
      <4>2. copy[id] \in Held \cup {Nothing}
        BY <1>1 DEF TypeOK
      <4> QED
        BY <4>1, <4>2, SyncAssumption DEF VersionHeld, Held, Version
    <3> QED
      BY <3>1 DEF Known
  <2>3. UNCHANGED <<Versions, shared>>
    BY <2>1 DEF store, Versions
  <2>4. Promise!Leave
    BY <2>1, <2>2, <2>3 DEF Promise!Leave, Versions, Known
  <2> QED
    BY <2>4 DEF Promise!Next
<1>4. CASE Receive
  <2>1. \A id \in Id : OnArrival(id)' = OnArrival(id)
    BY <1>1, <1>4, ReceiveArrives
  <2>2. UNCHANGED <<entity, shared, session>>
    BY <1>4 DEF Receive, store
  <2>3. UNCHANGED <<Versions, shared, session.open, session.owned, Known>>
    BY <2>1, <2>2 DEF Versions, Known
  <2> QED
    BY <2>3 DEF Promise!shelf, Versions, Known
<1>5. CASE ForgetCache
  <2>1. /\ ~session.open /\ wire = <<>> /\ copy' = NoNews
        /\ UNCHANGED <<store, session, wire>>
    BY <1>5 DEF ForgetCache, SInv, NothingSentToNobody
  <2>2. Known' = [id \in Id |-> 0]
    BY <2>1, NothingInFlight DEF Known, OnArrival, NoNews, VersionHeld
  <2>3. UNCHANGED <<Versions, shared, session.open, session.owned>>
    BY <2>1 DEF store, Versions
  <2>4. Promise!Forget
    BY <2>1, <2>2, <2>3 DEF Promise!Forget, Versions, Known
  <2> QED
    BY <2>4 DEF Promise!Next
<1>6. ASSUME NEW id \in Id,
             \/ Delete(id)
             \/ \E text \in Text : Create(id, text)
             \/ \E text \in Text, own \in BOOLEAN : Save(id, text, own)
             \/ \E with \in BOOLEAN : Share(id, with)
      PROVE  Promise!Next
  <2>1. Changed(id)
    BY <1>1, <1>6, CreateChanges, SaveChanges, DeleteChanges, ShareChanges
  <2>2. Versions'[id] \in {0, Versions[id], Versions[id] + 1}
    <3>1. CASE Delete(id)
      BY <3>1, <1>1 DEF Delete, Versions, TypeOK
    <3>2. ASSUME NEW text \in Text, Create(id, text)
          PROVE  Versions[id] = 0 /\ Versions'[id] = 1
      <4>1. [version |-> 1, text |-> text] \in Row
        BY SyncAssumption DEF Row, Version
      <4>2. [version |-> 1, text |-> text] # Nothing
        BY SyncAssumption
      <4> QED
        BY <3>2, <4>2, <1>1 DEF Create, Versions, TypeOK
    <3>3. ASSUME NEW text \in Text, NEW own \in BOOLEAN, Save(id, text, own)
          PROVE  Versions'[id] = Versions[id] + 1
      <4>1. Rewritten(id, text)
        BY <3>3 DEF Save
      <4> QED
        BY <4>1, <1>1, RewrittenRow DEF Versions
    <3>4. ASSUME NEW with \in BOOLEAN, Share(id, with)
          PROVE  Versions'[id] = Versions[id]
      BY <3>4 DEF Share, Versions
    <3> QED
      BY <1>6, <3>1, <3>2, <3>3, <3>4
  <2>3. Promise!Change(id)
    BY <2>1, <2>2, ChangedIsAChange
  <2> QED
    BY <2>3 DEF Promise!Next
<1>7. ASSUME NEW id \in Id, NEW own \in BOOLEAN, SetOwner(id, own)
      PROVE  Promise!Next
  <2>1. Rewritten(id, entity[id].text) /\ entity[id].text \in Text
    BY <1>1, <1>7 DEF SetOwner, Rewritten, TypeOK, Existing, Row
  <2>2. /\ entity' = [entity EXCEPT ![id] = entity'[id]]
        /\ entity'[id] # Nothing /\ entity[id] # Nothing
        /\ entity'[id].version = entity[id].version + 1
    BY <1>1, <2>1, RewrittenRow
  <2>3. Versions' = [Versions EXCEPT ![id] = Versions[id] + 1]
    BY <1>1, <2>2 DEF Versions, TypeOK
  <2>4. UNCHANGED <<shared, session.open, session.owned, Known>>
    BY <1>7 DEF SetOwner, Known, OnArrival
  <2>5. Promise!HandOver(id)
    BY <2>3, <2>4 DEF Promise!HandOver, Versions, Known
  <2> QED
    BY <2>5 DEF Promise!Next
<1>8. CASE UNCHANGED vars
  BY <1>8 DEF vars, store, Promise!shelf, OnArrival
<1> QED
  BY <1>2, <1>3, <1>4, <1>5, <1>6, <1>7, <1>8 DEF Next

(* The wire, the cache and what the host remembers having sent are nothing *)
(* a player can tell, but for frames taking time: Sync implements Shelf.   *)
THEOREM SyncImplementsShelf == Spec => KeepsThePromise
BY InitPromise, NextKeepsThePromise, SpecSInv, PTL DEF Spec, KeepsThePromise, Promise!Spec
=============================================================================
