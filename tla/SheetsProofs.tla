---------------------------- MODULE SheetsProofs -----------------------------
(***************************************************************************)
(* One open request at most, made since the DM last saved; and a player    *)
(* who is connected holds, on arrival, what the host holds: proofs about   *)
(* Sheets.  What the wizard hands on, what the tab refuses and how a blow  *)
(* falls: proofs about SheetTab and Rules.                                 *)
(***************************************************************************)
EXTENDS Sheets, SheetTab, Least, TLAPS

Frame == Character \cup {Refused}

-----------------------------------------------------------------------------
(* Frames on their way                                                     *)

LEMMA OneLastCharacter ==
  ASSUME NEW w \in Seq(Frame), NEW had,
         NEW i \in 1 .. Len(w), LastCharacter(w, i)
  PROVE  AfterReading(had, w) = w[i]
<1>1. ASSUME NEW j \in 1 .. Len(w), LastCharacter(w, j)
      PROVE  j = i
  <2>1. Len(w) \in Nat /\ i \in Int /\ j \in Int
    OBVIOUS
  <2>2. ~ (i < j) /\ ~ (j < i)
    BY <2>1, <1>1 DEF LastCharacter
  <2> QED
    BY <2>1, <2>2
<1>2. (CHOOSE j \in 1 .. Len(w) : LastCharacter(w, j)) = i
  BY <1>1
<1> QED
  BY <1>2 DEF AfterReading

LEMMA SomeLastCharacter ==
  ASSUME NEW w \in Seq(Frame), NEW i \in 1 .. Len(w), w[i] # Refused
  PROVE  \E j \in 1 .. Len(w) : LastCharacter(w, j)
<1> DEFINE S == {j \in 1 .. Len(w) : w[j] # Refused}
<1>1. Len(w) \in Nat /\ S \in SUBSET (1 .. Len(w)) /\ S # {}
  OBVIOUS
<1>2. PICK j \in S : \A k \in S : k <= j
  <2> HIDE DEF S
  <2> QED
    BY <1>1, Largest
<1>3. \A k \in j + 1 .. Len(w) : k \in 1 .. Len(w) /\ ~ (k <= j)
  BY <1>1
<1>4. LastCharacter(w, j)
  BY <1>2, <1>3 DEF LastCharacter
<1> QED
  BY <1>4

(* The character at the end of the wire is what they come to hold.         *)
LEMMA TheLastWord ==
  ASSUME NEW w \in Seq(Frame), NEW c \in Character, NEW had
  PROVE  AfterReading(had, Append(w, c)) = c
<1> DEFINE v == Append(w, c)
<1>1. /\ v \in Seq(Frame) /\ Len(v) \in 1 .. Len(v) /\ v[Len(v)] = c
      /\ c # Refused /\ Len(v) \in Nat
  BY RefusedAssumption DEF Frame
<1>2. LastCharacter(v, Len(v))
  BY <1>1 DEF LastCharacter
<1> HIDE DEF v
<1> QED
  BY <1>1, <1>2, OneLastCharacter DEF v

(* Reading a frame changes nothing about what they are going to hold.      *)
LEMMA OneFrameRead ==
  ASSUME NEW w \in Seq(Frame), w # <<>>, NEW had
  PROVE  AfterReading(IF Head(w) = Refused THEN had ELSE Head(w), Tail(w))
           = AfterReading(had, w)
<1> DEFINE v == Tail(w)
           f == Head(w)
           n == Len(v)
           then == IF f = Refused THEN had ELSE f
<1>1. /\ v \in Seq(Frame) /\ Len(w) = n + 1 /\ n \in Nat
      /\ w[1] = f /\ f \in Frame
      /\ \A i \in 1 .. n : v[i] = w[i + 1]
  OBVIOUS
<1> HIDE DEF v, n, f
<1>2. \A i \in 1 .. n : LastCharacter(v, i) => LastCharacter(w, i + 1)
  <2>1. ASSUME NEW i \in 1 .. n, LastCharacter(v, i)
        PROVE  LastCharacter(w, i + 1)
    <3>1. ASSUME NEW j \in i + 2 .. Len(w)
          PROVE  w[j] = Refused
      <4>1. j - 1 \in i + 1 .. n /\ j - 1 \in 1 .. n /\ (j - 1) + 1 = j
        BY <1>1
      <4> QED
        BY <4>1, <1>1, <2>1 DEF LastCharacter, n
    <3> QED
      BY <3>1, <2>1, <1>1 DEF LastCharacter
  <2> QED
    BY <2>1
<1>3. CASE \E i \in 1 .. n : LastCharacter(v, i)
  <2>1. PICK i \in 1 .. n : LastCharacter(v, i)
    BY <1>3
  <2>2. i \in 1 .. Len(v) /\ i + 1 \in 1 .. Len(w)
    BY <1>1 DEF n
  <2>3. AfterReading(then, v) = v[i]
    BY <2>1, <2>2, <1>1, OneLastCharacter
  <2>4. AfterReading(had, w) = w[i + 1]
    BY <2>1, <2>2, <1>2, OneLastCharacter
  <2> QED
    BY <2>3, <2>4, <1>1 DEF v, f
<1>4. CASE ~ \E i \in 1 .. n : LastCharacter(v, i)
  <2>1. AfterReading(then, v) = then
    BY <1>4 DEF AfterReading, n
  <2>2. \A i \in 2 .. Len(w) : w[i] = Refused
    <3>1. \A i \in 1 .. n : v[i] = Refused
      BY <1>1, <1>4, SomeLastCharacter DEF n
    <3>2. \A i \in 2 .. n + 1 : i - 1 \in 1 .. n /\ (i - 1) + 1 = i
      BY <1>1
    <3> QED
      BY <3>1, <3>2, <1>1
  <2>3. CASE f # Refused
    <3>1. 1 \in 1 .. Len(w) /\ LastCharacter(w, 1)
      BY <2>2, <2>3, <1>1 DEF LastCharacter
    <3>2. AfterReading(had, w) = w[1]
      BY <3>1, OneLastCharacter
    <3> QED
      BY <3>2, <2>1, <2>3, <1>1 DEF v, f
  <2>4. CASE f = Refused
    <3>1. \A i \in 1 .. Len(w) : w[i] = Refused
      BY <2>2, <2>4, <1>1
    <3>2. AfterReading(had, w) = had
      BY <3>1 DEF AfterReading, LastCharacter
    <3> QED
      BY <3>2, <2>1, <2>4 DEF v, f
  <2> QED
    BY <2>3, <2>4
<1> QED
  BY <1>3, <1>4

-----------------------------------------------------------------------------
(* The invariant                                                           *)

(* Nobody holds a version the host has not had, and of the one it has they *)
(* hold what it says.  Without this a snapshot that leaves out what is     *)
(* had already could leave out something that has changed.                *)
Tells(c, now) ==
  /\ c.version <= now.version
  /\ c.version = now.version => c.hp = now.hp /\ c.text = now.text

EverythingTells ==
  /\ Tells(copy, character)
  /\ \A i \in 1 .. Len(wire) : wire[i] # Refused => Tells(wire[i], character)

NothingSentToNobody == ~Connected => wire = <<>>

(* Nothing that is open was made against a version that is not yet.        *)
WishesAreOfThePast ==
  \A i \in DOMAIN requests : requests[i].open => requests[i].base <= character.version

ShInv ==
  /\ TypeOK
  /\ OneOpenRequest
  /\ OpenSinceTheLastSave
  /\ WishesAreOfThePast
  /\ NothingBehindTheirBack
  /\ EverythingTells
  /\ NothingSentToNobody
  /\ saved <= character.version

(* The two halves of it: what the player holds, and what they have asked.  *)
Holding ==
  /\ sent \in 0 .. MaxVersion /\ (sent # 0 => hosting)
  /\ wire \in Seq(Frame)
  /\ copy \in Character
  /\ NothingBehindTheirBack
  /\ EverythingTells
  /\ NothingSentToNobody

Asking ==
  /\ requests \in Seq(Request) /\ Len(requests) <= MaxRequests
  /\ OneOpenRequest
  /\ OpenSinceTheLastSave
  /\ WishesAreOfThePast
  /\ saved \in 0 .. MaxVersion
  /\ saved <= character.version

Screens ==
  /\ character \in Character
  /\ hosting \in BOOLEAN
  /\ form \in Form
  /\ dm \in Form

LEMMA Halves == ShInv <=> Holding /\ Asking /\ Screens
BY DEF ShInv, TypeOK, Holding, Asking, Screens, Frame

LEMMA CharacterParts ==
  ASSUME NEW c \in Character
  PROVE  /\ c.version \in Nat /\ c.version \in 1 .. MaxVersion
         /\ c.hp \in Value /\ c.text \in [Field -> Value]
BY SheetsAssumption DEF Character, Version

LEMMA WrittenCharacter ==
  ASSUME character \in Character, NEW hp \in Value, NEW text \in [Field -> Value],
         Written(hp, text)
  PROVE  /\ character' \in Character
         /\ character'.version = character.version + 1
         /\ character'.hp = hp /\ character'.text = text
<1>1. character.version \in 1 .. MaxVersion /\ character.version < MaxVersion
  BY CharacterParts DEF Written
<1>2. character.version + 1 \in Version
  BY <1>1, SheetsAssumption DEF Version
<1> QED
  BY <1>2 DEF Written, Character

(* The character has been written since, or is as it was.                  *)
LaterOrSame == character'.version > character.version \/ character' = character

LEMMA StillTells ==
  ASSUME character \in Character, character' \in Character, LaterOrSame,
         NEW c \in Character, Tells(c, character)
  PROVE  Tells(c, character')
BY CharacterParts DEF LaterOrSame, Tells

(* What is published arrives last.                                         *)
LEMMA PublishedIsHeld ==
  ASSUME Holding, Screens, character' \in Character, LaterOrSame,
         NEW frames \in {<<>>, <<Refused>>}, Publish(frames),
         Connected, hosting' = hosting, copy' = copy
  PROVE  Holding'
<1>1. /\ wire' = wire \o frames \o <<character'>>
      /\ sent' = character'.version
  BY DEF Publish
<1>2. frames \in Seq(Frame) /\ Len(frames) \in {0, 1}
      /\ \A i \in 1 .. Len(frames) : frames[i] = Refused
  <2>1. CASE frames = <<>>
    BY <2>1
  <2>2. CASE frames = <<Refused>>
    <3>1. Refused \in Frame
      BY DEF Frame
    <3> QED
      BY <2>2, <3>1
  <2> QED
    BY <2>1, <2>2
<1> DEFINE v == wire \o frames
<1>3. v \in Seq(Frame) /\ wire' = Append(v, character') /\ wire \in Seq(Frame)
  BY <1>1, <1>2 DEF Holding
<1>4. \A i \in 1 .. Len(v) : v[i] # Refused => i \in 1 .. Len(wire) /\ v[i] = wire[i]
  BY <1>2 DEF Holding
<1> HIDE DEF v
<1>5. /\ character' \in Frame /\ character' # Refused
      /\ wire' \in Seq(Frame) /\ Len(wire') = Len(v) + 1 /\ Len(v) \in Nat
      /\ wire'[Len(v) + 1] = character'
      /\ \A i \in 1 .. Len(v) : wire'[i] = v[i]
  BY <1>3, RefusedAssumption DEF Frame
<1>6. sent' \in 1 .. MaxVersion
  BY <1>1, CharacterParts
<1>7. OnArrival' = character'
  BY <1>3, TheLastWord DEF OnArrival
<1>8. Tells(character', character')
  BY CharacterParts DEF Tells
<1>9. \A i \in 1 .. Len(wire) : wire[i] # Refused => Tells(wire[i], character')
  <2>1. ASSUME NEW i \in 1 .. Len(wire), wire[i] # Refused
        PROVE  wire[i] \in Character /\ Tells(wire[i], character)
    BY <1>3, <2>1 DEF Frame, Holding, EverythingTells
  <2> QED
    BY <2>1, StillTells DEF Screens
<1>10. Tells(copy', character')
  BY StillTells DEF Holding, EverythingTells, Screens
<1>11. \A i \in 1 .. Len(wire') : wire'[i] # Refused => Tells(wire'[i], character')
  <2>1. ASSUME NEW i \in 1 .. Len(wire'), wire'[i] # Refused
        PROVE  Tells(wire'[i], character')
    <3>1. CASE i = Len(v) + 1
      BY <3>1, <1>5, <1>8
    <3>2. CASE i # Len(v) + 1
      <4>1. i \in 1 .. Len(v)
        BY <3>2, <1>5
      <4> QED
        BY <4>1, <2>1, <1>4, <1>5, <1>9
    <3> QED
      BY <3>1, <3>2
  <2> QED
    BY <2>1
<1>12. EverythingTells'
  BY <1>10, <1>11 DEF EverythingTells
<1>13. NothingBehindTheirBack' /\ NothingSentToNobody'
  BY <1>6, <1>7 DEF NothingBehindTheirBack, NothingSentToNobody, Connected
<1>14. sent' \in 0 .. MaxVersion /\ hosting' /\ copy' \in Character
  BY <1>6 DEF Holding, Connected
<1> QED
  BY <1>5, <1>12, <1>13, <1>14 DEF Holding

(* With nobody there a change needs no telling.                            *)
LEMMA NobodyToTell ==
  ASSUME Holding, Screens, character' \in Character, LaterOrSame,
         ~Connected, UNCHANGED <<sent, wire, copy>>
  PROVE  Holding'
<1>1. sent = 0 /\ wire = <<>>
  BY DEF Holding, Connected, NothingSentToNobody
<1>2. Tells(copy', character')
  BY StillTells DEF Holding, EverythingTells, Screens
<1> QED
  BY <1>1, <1>2
  DEF Holding, EverythingTells, NothingBehindTheirBack, NothingSentToNobody, Connected

LEMMA PublishKeepsHolding ==
  ASSUME Holding, Screens, character' \in Character, LaterOrSame,
         NEW frames \in {<<>>, <<Refused>>}, Publish(frames),
         hosting' = hosting, copy' = copy
  PROVE  Holding'
<1>1. CASE Connected
  BY <1>1, PublishedIsHeld
<1>2. CASE ~Connected
  <2>1. UNCHANGED <<sent, wire, copy>>
    BY <1>2 DEF Publish
  <2> QED
    BY <1>2, <2>1, NobodyToTell
<1> QED
  BY <1>1, <1>2

(* Closing requests, whichever, leaves what there is to say of them.       *)
Closing(i) == requests'[i] = [requests[i] EXCEPT !.open = FALSE]

LEMMA ClosingKeepsAsking ==
  ASSUME Asking, requests' \in Seq(Request), Len(requests') = Len(requests),
         \A i \in 1 .. Len(requests) : requests'[i] = requests[i] \/ Closing(i),
         saved' = saved, character'.version >= character.version,
         character \in Character, character' \in Character
  PROVE  Asking'
<1>1. \A i \in 1 .. Len(requests) :
        requests'[i].open => requests[i].open /\ requests'[i].base = requests[i].base
  <2>1. ASSUME NEW i \in 1 .. Len(requests), requests'[i].open
        PROVE  requests[i].open /\ requests'[i].base = requests[i].base
    <3>1. requests[i] \in Request
      BY DEF Asking
    <3> QED
      BY <2>1, <3>1 DEF Closing, Request
  <2> QED
    BY <2>1
<1>2. character.version \in Nat /\ character'.version \in Nat /\ saved \in Nat
  BY CharacterParts DEF Asking
<1>3. \A i \in 1 .. Len(requests) : requests[i].base \in Nat
  <2>1. \A i \in 1 .. Len(requests) : requests[i] \in Request
    BY DEF Asking
  <2> QED
    BY <2>1, SheetsAssumption DEF Request, Version
<1> QED
  BY <1>1, <1>2, <1>3 DEF Asking, OneOpenRequest, OpenSinceTheLastSave, WishesAreOfThePast

(* A save of the DM's refuses every request there is: none of them can     *)
(* have been made against the version it has just made.                    *)
LEMMA RefusingKeepsAsking ==
  ASSUME Asking, character \in Character, character' \in Character,
         character'.version > character.version,
         RefuseConflicting(character'.version), saved' = character'.version
  PROVE  Asking'
<1> DEFINE n == Len(requests)
           version == character'.version
<1>1. requests \in Seq(Request) /\ n \in Nat /\ n <= MaxRequests /\ DOMAIN requests = 1 .. n
  BY DEF Asking
<1>2. \A i \in 1 .. n : requests[i] \in Request
  BY <1>1
<1>3. /\ requests' \in Seq(Request) /\ Len(requests') = n
      /\ \A i \in 1 .. n : requests'[i] =
           IF requests[i].base # version
           THEN [requests[i] EXCEPT !.open = FALSE] ELSE requests[i]
  <2>1. \A i \in 1 .. n : [requests[i] EXCEPT !.open = FALSE] \in Request
    BY <1>2 DEF Request
  <2> QED
    BY <1>1, <1>2, <2>1 DEF RefuseConflicting
<1>4. ASSUME NEW i \in 1 .. n, requests'[i].open
      PROVE  requests[i].open /\ requests'[i].base = version
  <2>1. requests[i].base = version
    BY <1>2, <1>3, <1>4 DEF Request
  <2> QED
    BY <2>1, <1>3, <1>4
<1>5. version \in 1 .. MaxVersion /\ version \in Nat
  BY CharacterParts
<1>6. DOMAIN requests' = 1 .. n
  BY <1>3
<1> QED
  BY <1>1, <1>3, <1>4, <1>5, <1>6
  DEF Asking, OneOpenRequest, OpenSinceTheLastSave, WishesAreOfThePast

(* A new request is the only one open.                                     *)
LEMMA ProposingKeepsAsking ==
  ASSUME Asking, Screens, NEW changes \in Changes, sent \in Version,
         sent = character.version, Len(requests) < MaxRequests,
         requests' = Propose(changes), UNCHANGED <<saved, character>>
  PROVE  Asking'
<1> DEFINE n == Len(requests)
           closed == [i \in DOMAIN requests |-> [requests[i] EXCEPT !.open = FALSE]]
           new == [open |-> TRUE, changes |-> changes, base |-> sent]
<1>1. requests \in Seq(Request) /\ n \in Nat /\ n < MaxRequests /\ MaxRequests \in Nat
  BY SheetsAssumption DEF Asking
<1>2. new \in Request
  BY DEF Request
<1>3. closed \in Seq(Request) /\ Len(closed) = n /\ \A i \in 1 .. n : ~closed[i].open
  <2>1. \A i \in 1 .. n : /\ [requests[i] EXCEPT !.open = FALSE] \in Request
                          /\ ~[requests[i] EXCEPT !.open = FALSE].open
    <3>1. ASSUME NEW i \in 1 .. n
          PROVE  requests[i] \in Request
      BY <1>1
    <3> QED
      BY <3>1 DEF Request
  <2>2. DOMAIN requests = 1 .. n
    BY <1>1
  <2>3. /\ DOMAIN closed = 1 .. n
        /\ \A i \in 1 .. n : closed[i] = [requests[i] EXCEPT !.open = FALSE]
        /\ closed = [i \in 1 .. n |-> closed[i]]
    BY <2>2
  <2> HIDE DEF closed
  <2>4. \A i \in 1 .. n : closed[i] \in Request /\ ~closed[i].open
    BY <2>1, <2>3
  <2>5. closed \in Seq(Request) /\ Len(closed) = n
    BY <1>1, <2>3, <2>4
  <2> QED
    BY <2>4, <2>5
<1> HIDE DEF closed, new
<1>4. requests' = Append(closed, new)
  BY DEF Propose, closed, new
<1>5. /\ requests' \in Seq(Request) /\ Len(requests') = n + 1
      /\ \A i \in 1 .. n : requests'[i] = closed[i]
      /\ requests'[n + 1] = new
  BY <1>2, <1>3, <1>4
<1>6. \A i \in 1 .. n + 1 : requests'[i].open => i = n + 1
  BY <1>1, <1>3, <1>5
<1>7. new.base = character.version /\ DOMAIN requests' = 1 .. n + 1
  BY <1>5 DEF new
<1>8. Len(requests') <= MaxRequests
  BY <1>1, <1>5
<1>9. character.version \in Nat
  BY CharacterParts DEF Screens
<1> QED
  BY <1>5, <1>6, <1>7, <1>8, <1>9
  DEF Asking, OneOpenRequest, OpenSinceTheLastSave, WishesAreOfThePast

-----------------------------------------------------------------------------
(* What is written                                                         *)

LEMMA LaidOverIsText ==
  ASSUME NEW S \in SUBSET Field, NEW f \in [S -> Value], NEW t \in [Field -> Value]
  PROVE  LaidOver(f, t) \in [Field -> Value]
BY DEF LaidOver

LEMMA SheetFieldsAreFields == SheetField \subseteq Field
BY DEF Field

LEMMA SheetIsASheet ==
  ASSUME NEW c \in Character
  PROVE  SheetOf(c) \in Sheet
BY CharacterParts, SheetFieldsAreFields DEF SheetOf, Sheet

LEMMA LoadedIsAForm ==
  ASSUME NEW c \in Character
  PROVE  Loaded(c) \in Form
BY SheetIsASheet DEF Loaded, Form

LEMMA PanelReloadsAForm ==
  ASSUME dm \in Form, character' \in Character, PanelReloads
  PROVE  dm' \in Form
<1>1. SheetOf(character') \in Sheet
  BY SheetIsASheet
<1>2. dm' = IF dm.dirty THEN dm ELSE [dm EXCEPT !.sheet = SheetOf(character')]
  BY DEF PanelReloads, SheetOf
<1> QED
  BY <1>1, <1>2 DEF Form

(* A request is closed by being answered.                                  *)
LEMMA AnsweringCloses ==
  ASSUME Asking, NEW i \in DOMAIN requests,
         requests' = [requests EXCEPT ![i].open = FALSE]
  PROVE  /\ requests' \in Seq(Request) /\ Len(requests') = Len(requests)
         /\ \A j \in 1 .. Len(requests) : requests'[j] = requests[j] \/ Closing(j)
<1>1. /\ requests \in Seq(Request) /\ DOMAIN requests = 1 .. Len(requests)
      /\ i \in 1 .. Len(requests) /\ requests[i] \in Request
  BY DEF Asking
<1> DEFINE answered == [requests[i] EXCEPT !.open = FALSE]
<1>2. answered \in Request
  BY <1>1 DEF Request
<1>3. requests' = [requests EXCEPT ![i] = answered]
  OBVIOUS
<1>4. Closing(i)
  BY <1>1, <1>3 DEF Closing
<1> DEFINE n == Len(requests)
           after == [requests EXCEPT ![i] = answered]
<1> HIDE DEF answered
<1>5. /\ after = [j \in 1 .. n |-> after[j]]
      /\ \A j \in 1 .. n : after[j] \in Request
      /\ \A j \in 1 .. n : j = i \/ after[j] = requests[j]
  <2>1. \A j \in 1 .. n : requests[j] \in Request
    BY <1>1
  <2> QED
    BY <1>1, <1>2, <2>1
<1>6. n \in Nat /\ requests' = after
  <2>1. n \in Nat
    BY <1>1
  <2>2. requests' = after
    BY <1>3
  <2> QED
    BY <2>1, <2>2
<1> HIDE DEF n, after
<1>7. after \in [1 .. n -> Request]
  BY <1>5
<1>8. after \in Seq(Request) /\ Len(after) = n
  BY <1>6, <1>7
<1> QED
  BY <1>4, <1>5, <1>6, <1>8 DEF n

LEMMA RequestsUntouched ==
  ASSUME Asking, UNCHANGED <<requests, saved>>,
         character \in Character, character' \in Character, LaterOrSame
  PROVE  Asking'
<1>1. character'.version >= character.version
  BY CharacterParts DEF LaterOrSame
<1>2. requests' \in Seq(Request) /\ Len(requests') = Len(requests)
  BY DEF Asking
<1> QED
  BY <1>1, <1>2, ClosingKeepsAsking

(* Whatever the host writes at once and tells everybody, by a blow, by     *)
(* healing or by giving.                                                   *)
LEMMA AppliedKeeps ==
  ASSUME ShInv, NEW hp \in Value, NEW text \in [Field -> Value],
         Applied(hp, text)
  PROVE  ShInv'
<1>1. Holding /\ Asking /\ Screens
  BY Halves
<1>2. /\ character' \in Character
      /\ character'.version = character.version + 1
  BY <1>1, WrittenCharacter DEF Applied, Screens
<1>3. LaterOrSame
  BY <1>1, <1>2, CharacterParts DEF LaterOrSame, Screens
<1>4. Holding'
  BY <1>1, <1>2, <1>3, PublishKeepsHolding DEF Applied
<1>5. Asking'
  BY <1>1, <1>2, <1>3, RequestsUntouched DEF Applied, Screens
<1>6. Screens'
  BY <1>1, <1>2, PanelReloadsAForm DEF Applied, Screens
<1>7. (Holding /\ Asking /\ Screens)' => ShInv'
  BY DEF ShInv, TypeOK, Holding, Asking, Screens, Frame
<1> QED
  BY <1>4, <1>5, <1>6, <1>7

LEMMA HitPointsKeep ==
  ASSUME ShInv, NEW hp \in Value, HitPoints(hp)
  PROVE  ShInv'
<1>1. [character.text EXCEPT !["hp_current"] = hp] \in [Field -> Value]
  BY Halves, CharacterParts DEF Screens, Field
<1> QED
  BY <1>1, AppliedKeeps DEF HitPoints

LEMMA GiveKeeps ==
  ASSUME ShInv, Give
  PROVE  ShInv'
<1>1. character.hp \in Value /\ character.text \in [Field -> Value]
  BY Halves, CharacterParts DEF Screens
<1> QED
  BY <1>1, AppliedKeeps DEF Give

(* The DM's two ways to save, whichever screen they answer requests on.    *)
LEMMA DMSavedKeeps ==
  ASSUME Holding, Asking, Screens, character' \in Character,
         character'.version = character.version + 1,
         DMSaved, UNCHANGED <<hosting, copy>>
  PROVE  Holding' /\ Asking'
<1>1. /\ LaterOrSame /\ character'.version > character.version
      /\ character'.version >= character.version
  BY CharacterParts DEF LaterOrSame, Screens
<1>2. CASE hosting
  <2>1. /\ RefuseConflicting(character'.version) /\ Publish(<<>>)
        /\ saved' = character'.version
    BY <1>2 DEF DMSaved
  <2>2. Holding'
    BY <1>1, <2>1, PublishKeepsHolding
  <2>3. Asking'
    BY <1>1, <2>1, RefusingKeepsAsking DEF Screens
  <2> QED
    BY <2>2, <2>3
<1>3. CASE ~hosting
  <2>1. UNCHANGED <<requests, wire, sent, saved>> /\ ~Connected
    BY <1>3 DEF DMSaved, Holding, Connected
  <2>2. Holding'
    BY <1>1, <2>1, NobodyToTell
  <2>3. Asking'
    BY <1>1, <2>1, RequestsUntouched DEF Screens
  <2> QED
    BY <2>2, <2>3
<1> QED
  BY <1>2, <1>3

LEMMA HalvesAfter == (Holding /\ Asking /\ Screens)' => ShInv'
BY DEF ShInv, TypeOK, Holding, Asking, Screens, Frame

LEMMA DMSavesSheetKeeps ==
  ASSUME ShInv, NEW f \in SheetField, NEW value \in Value, DMSavesSheet(f, value)
  PROVE  ShInv'
<1> DEFINE sheet == [dm.sheet EXCEPT ![f] = value]
<1>1. Holding /\ Asking /\ Screens
  BY Halves
<1>2. dm.sheet \in [SheetField -> Value] /\ dm.dirty \in BOOLEAN
  BY <1>1 DEF Screens, Form, Sheet
<1>3. sheet \in [SheetField -> Value]
  BY <1>2
<1>4. /\ Written(character.hp, LaidOver(sheet, character.text))
      /\ dm' = [dm EXCEPT !.sheet = sheet]
      /\ DMSaved
      /\ UNCHANGED <<hosting, copy, form>>
  BY DEF DMSavesSheet
<1> HIDE DEF sheet
<1>5. LaidOver(sheet, character.text) \in [Field -> Value]
  BY <1>1, <1>3, LaidOverIsText, SheetFieldsAreFields, CharacterParts DEF Screens
<1>6. character' \in Character /\ character'.version = character.version + 1
  BY <1>1, <1>4, <1>5, WrittenCharacter, CharacterParts DEF Screens
<1>7. Holding' /\ Asking'
  BY <1>1, <1>4, <1>6, DMSavedKeeps
<1>8. dm' \in Form
  BY <1>1, <1>3, <1>4 DEF Screens, Form, Sheet
<1>9. Screens'
  BY <1>1, <1>4, <1>6, <1>8 DEF Screens
<1> QED
  BY <1>7, <1>9, HalvesAfter

LEMMA DMSavesStoryKeeps ==
  ASSUME ShInv, NEW value \in Value, DMSavesStory(value)
  PROVE  ShInv'
<1>1. Holding /\ Asking /\ Screens
  BY Halves
<1>2. [character.text EXCEPT !["summary"] = value] \in [Field -> Value]
  BY <1>1, CharacterParts DEF Screens, Field
<1>3. /\ Written(character.hp, [character.text EXCEPT !["summary"] = value])
      /\ dm' = [sheet |-> SheetOf(character)', dirty |-> FALSE]
      /\ DMSaved
      /\ UNCHANGED <<hosting, copy, form>>
  BY DEF DMSavesStory
<1>4. character' \in Character /\ character'.version = character.version + 1
  BY <1>1, <1>2, <1>3, WrittenCharacter, CharacterParts DEF Screens
<1>5. Holding' /\ Asking'
  BY <1>1, <1>3, <1>4, DMSavedKeeps
<1>6. SheetOf(character)' \in Sheet
  <2>1. SheetOf(character') \in Sheet
    BY <1>4, SheetIsASheet
  <2> QED
    BY <2>1 DEF SheetOf
<1>7. dm' \in Form
  BY <1>3, <1>6 DEF Form
<1>8. Screens'
  BY <1>1, <1>3, <1>4, <1>7 DEF Screens
<1> QED
  BY <1>5, <1>8, HalvesAfter

LEMMA SetOwnerKeeps ==
  ASSUME ShInv, SetOwner
  PROVE  ShInv'
<1>1. Holding /\ Asking /\ Screens
  BY Halves
<1>2. /\ Written(character.hp, character.text)
      /\ UNCHANGED <<requests, hosting, sent, wire, copy, form, dm, saved>>
  BY DEF SetOwner
<1>3. /\ character' \in Character
      /\ character'.version = character.version + 1
      /\ character'.hp = character.hp /\ character'.text = character.text
  BY <1>1, <1>2, WrittenCharacter, CharacterParts DEF Screens
<1>4. LaterOrSame
  BY <1>1, <1>3, CharacterParts DEF LaterOrSame, Screens
<1>5. Asking'
  BY <1>1, <1>2, <1>3, <1>4, RequestsUntouched DEF Screens
<1>6. EverythingTells'
  <2>1. ASSUME NEW i \in 1 .. Len(wire), wire[i] # Refused
        PROVE  Tells(wire[i], character')
    <3>1. wire[i] \in Character /\ Tells(wire[i], character)
      BY <1>1, <2>1 DEF Holding, Frame, EverythingTells
    <3> QED
      BY <1>1, <1>3, <1>4, <3>1, StillTells DEF Screens
  <2>2. Tells(copy, character')
    BY <1>1, <1>3, <1>4, StillTells DEF Screens, Holding, EverythingTells
  <2> QED
    BY <1>2, <2>1, <2>2 DEF EverythingTells
<1>7. NothingBehindTheirBack'
  BY <1>1, <1>2, <1>3 DEF Holding, NothingBehindTheirBack, OnArrival, Connected
<1>8. Holding'
  BY <1>1, <1>2, <1>6, <1>7 DEF Holding, NothingSentToNobody, Connected
<1>9. Screens'
  BY <1>1, <1>2, <1>3 DEF Screens
<1> QED
  BY <1>5, <1>8, <1>9, HalvesAfter

LEMMA ApproveKeeps ==
  ASSUME ShInv, NEW i \in DOMAIN requests, Approve(i)
  PROVE  ShInv'
<1>1. Holding /\ Asking /\ Screens
  BY Halves
<1>2. /\ Written(character.hp, LaidOver(requests[i].changes, character.text))
      /\ requests' = [requests EXCEPT ![i].open = FALSE]
      /\ Publish(<<>>)
      /\ PanelReloads
      /\ UNCHANGED <<hosting, copy, form, saved>>
  BY DEF Approve
<1>3. PICK S \in SUBSET Field : requests[i].changes \in [S -> Value]
  <2>1. requests[i] \in Request
    BY <1>1 DEF Asking
  <2> QED
    BY <2>1 DEF Request, Changes
<1>4. LaidOver(requests[i].changes, character.text) \in [Field -> Value]
  BY <1>1, <1>3, LaidOverIsText, CharacterParts DEF Screens
<1>5. character' \in Character /\ character'.version = character.version + 1
  BY <1>1, <1>2, <1>4, WrittenCharacter, CharacterParts DEF Screens
<1>6. LaterOrSame /\ character'.version >= character.version
  BY <1>1, <1>5, CharacterParts DEF LaterOrSame, Screens
<1>7. Holding'
  BY <1>1, <1>2, <1>5, <1>6, PublishKeepsHolding
<1>8. /\ requests' \in Seq(Request) /\ Len(requests') = Len(requests)
      /\ \A j \in 1 .. Len(requests) : requests'[j] = requests[j] \/ Closing(j)
  BY <1>1, <1>2, AnsweringCloses
<1>9. Asking'
  BY <1>1, <1>2, <1>5, <1>6, <1>8, ClosingKeepsAsking DEF Screens
<1>10. Screens'
  BY <1>1, <1>2, <1>5, PanelReloadsAForm DEF Screens
<1> QED
  BY <1>7, <1>9, <1>10, HalvesAfter

LEMMA RejectKeeps ==
  ASSUME ShInv, NEW i \in DOMAIN requests, Reject(i)
  PROVE  ShInv'
<1>1. Holding /\ Asking /\ Screens
  BY Halves
<1>2. /\ requests' = [requests EXCEPT ![i].open = FALSE]
      /\ Publish(<<Refused>>)
      /\ UNCHANGED <<character, hosting, copy, form, dm, saved>>
  BY DEF Reject
<1>3. character' \in Character /\ LaterOrSame
  BY <1>1, <1>2 DEF LaterOrSame, Screens
<1>4. Holding'
  BY <1>1, <1>2, <1>3, PublishKeepsHolding
<1>5. /\ requests' \in Seq(Request) /\ Len(requests') = Len(requests)
      /\ \A j \in 1 .. Len(requests) : requests'[j] = requests[j] \/ Closing(j)
  BY <1>1, <1>2, AnsweringCloses
<1>6. character'.version >= character.version
  BY <1>2, <1>3, CharacterParts
<1>7. Asking'
  BY <1>1, <1>2, <1>3, <1>5, <1>6, ClosingKeepsAsking DEF Screens
<1>8. Screens'
  BY <1>1, <1>2 DEF Screens
<1> QED
  BY <1>4, <1>7, <1>8, HalvesAfter

-----------------------------------------------------------------------------
(* Coming and going                                                        *)

(* A snapshot leaves the character out only when they hold its version,    *)
(* and then they hold the character.                                       *)
LEMMA ConnectKeeps ==
  ASSUME ShInv, Connect
  PROVE  ShInv'
<1>1. Holding /\ Asking /\ Screens
  BY Halves
<1>2. /\ hosting /\ ~Connected
      /\ sent' = character.version
      /\ wire' = IF copy.version = character.version THEN <<>> ELSE <<character>>
      /\ UNCHANGED <<character, requests, hosting, copy, form, dm, saved>>
  BY DEF Connect
<1>3. character \in Character /\ sent' \in 1 .. MaxVersion /\ LaterOrSame
  BY <1>1, <1>2, CharacterParts DEF Screens, LaterOrSame
<1>4. Tells(copy, character) /\ Tells(character, character)
  BY <1>1, <1>3, CharacterParts DEF Holding, EverythingTells, Tells
<1>5. wire' \in Seq(Frame) /\ EverythingTells' /\ NothingBehindTheirBack'
  <2>1. CASE copy.version = character.version
    <3>1. wire' = <<>> /\ wire' \in Seq(Frame)
      BY <1>2, <2>1
    <3>2. OnArrival' = copy
      BY <1>2, <3>1 DEF OnArrival, AfterReading
    <3> QED
      BY <1>2, <1>4, <2>1, <3>1, <3>2
      DEF EverythingTells, NothingBehindTheirBack, Tells
  <2>2. CASE copy.version # character.version
    <3>1. wire' = Append(<<>>, character) /\ <<>> \in Seq(Frame)
      BY <1>2, <2>2
    <3>2. /\ wire' \in Seq(Frame) /\ Len(wire') = 1
          /\ wire'[1] = character
      BY <1>3, <3>1 DEF Frame
    <3>3. OnArrival' = character
      BY <1>3, <3>1, TheLastWord DEF OnArrival
    <3> QED
      BY <1>2, <1>4, <3>2, <3>3
      DEF EverythingTells, NothingBehindTheirBack
  <2> QED
    BY <2>1, <2>2
<1>6. NothingSentToNobody'
  BY <1>3 DEF NothingSentToNobody, Connected
<1>7. Holding'
  BY <1>1, <1>2, <1>3, <1>5, <1>6 DEF Holding
<1>8. Asking'
  BY <1>1, <1>2, <1>3, RequestsUntouched
<1>9. Screens'
  BY <1>1, <1>2 DEF Screens
<1> QED
  BY <1>7, <1>8, <1>9, HalvesAfter

(* Stopping and starting, and leaving: nothing is on its way any more.     *)
LEMMA LeavingKeeps ==
  ASSUME ShInv, sent' = 0, wire' = <<>>, hosting' \in BOOLEAN,
         UNCHANGED <<character, requests, copy, form, dm, saved>>
  PROVE  ShInv'
<1>1. Holding /\ Asking /\ Screens
  BY Halves
<1>2. LaterOrSame /\ character' \in Character
  BY <1>1 DEF LaterOrSame, Screens
<1>3. EverythingTells' /\ NothingBehindTheirBack' /\ NothingSentToNobody'
  BY <1>1
  DEF Holding, EverythingTells, NothingBehindTheirBack, NothingSentToNobody, Connected
<1>4. Holding'
  BY <1>1, <1>3, SheetsAssumption DEF Holding
<1>5. Asking'
  BY <1>1, <1>2, RequestsUntouched DEF Screens
<1>6. Screens'
  BY <1>1 DEF Screens
<1> QED
  BY <1>4, <1>5, <1>6, HalvesAfter

LEMMA HostUpKeeps ==
  ASSUME ShInv, HostUp
  PROVE  ShInv'
BY LeavingKeeps DEF HostUp, ShInv, TypeOK

LEMMA DisconnectKeeps ==
  ASSUME ShInv, Disconnect
  PROVE  ShInv'
BY LeavingKeeps DEF Disconnect, ShInv, TypeOK

-----------------------------------------------------------------------------
(* The player                                                              *)

LEMMA WantedIsAChange ==
  ASSUME character \in Character, NEW S \in SUBSET Field, NEW asked \in [S -> Value]
  PROVE  Wanted(asked) \in Changes
<1> DEFINE T == {g \in DOMAIN asked : asked[g] # character.text[g]}
<1>1. T \in SUBSET Field /\ T \subseteq S
  OBVIOUS
<1> HIDE DEF T
<1>2. [f \in T |-> asked[f]] \in [T -> Value]
  BY <1>1
<1> QED
  BY <1>1, <1>2 DEF Wanted, Changes, T

LEMMA HandleEditKeeps ==
  ASSUME Holding, Asking, Screens,
         NEW S \in SUBSET Field, NEW asked \in [S -> Value], HandleEdit(asked)
  PROVE  Holding' /\ Asking'
<1>1. Connected /\ UNCHANGED <<character, hosting, copy, dm, saved>>
  BY DEF HandleEdit
<1>2. character' \in Character /\ character \in Character /\ LaterOrSame
  BY <1>1 DEF LaterOrSame, Screens
<1>3. CASE sent # character.version
  <2>1. Publish(<<>>) /\ UNCHANGED requests
    BY <1>3 DEF HandleEdit
  <2>2. Holding'
    BY <1>1, <1>2, <2>1, PublishKeepsHolding
  <2>3. Asking'
    BY <1>1, <1>2, <2>1, RequestsUntouched
  <2> QED
    BY <2>2, <2>3
<1>4. CASE sent = character.version
  <2>1. UNCHANGED <<wire, sent>>
    BY <1>4 DEF HandleEdit
  <2>2. Holding'
    BY <1>1, <2>1
    DEF Holding, EverythingTells, NothingBehindTheirBack, OnArrival,
        NothingSentToNobody, Connected
  <2>3. CASE UNCHANGED requests
    <3>1. Asking'
      BY <1>1, <1>2, <2>3, RequestsUntouched
    <3> QED
      BY <2>2, <3>1
  <2>4. CASE Len(requests) < MaxRequests /\ requests' = Propose(Wanted(asked))
    <3>1. Wanted(asked) \in Changes /\ sent \in Version
      BY <1>2, <1>4, WantedIsAChange, CharacterParts DEF Version
    <3>2. Asking'
      BY <1>1, <1>4, <2>4, <3>1, ProposingKeepsAsking
    <3> QED
      BY <2>2, <3>2
  <2> QED
    BY <1>4, <2>3, <2>4 DEF HandleEdit
<1> QED
  BY <1>3, <1>4

LEMMA SendSheetKeeps ==
  ASSUME ShInv, NEW f \in SheetField, NEW value \in Value, SendSheet(f, value)
  PROVE  ShInv'
<1> DEFINE sheet == [form.sheet EXCEPT ![f] = value]
<1>1. Holding /\ Asking /\ Screens
  BY Halves
<1>2. /\ form.sheet \in [SheetField -> Value] /\ form.dirty \in BOOLEAN
  BY <1>1 DEF Screens, Form, Sheet
<1>3. sheet \in [SheetField -> Value]
  BY <1>2
<1>4. form' = [form EXCEPT !.sheet = sheet]
  BY DEF SendSheet
<1> HIDE DEF sheet
<1>5. /\ form'.sheet = sheet
      /\ form' \in Form
  BY <1>1, <1>2, <1>3, <1>4 DEF Screens, Form, Sheet
<1>6. HandleEdit(sheet)
  BY <1>5 DEF SendSheet
<1>7. Holding' /\ Asking'
  BY <1>1, <1>3, <1>6, HandleEditKeeps, SheetFieldsAreFields
<1>8. Screens'
  BY <1>1, <1>5, <1>6 DEF Screens, HandleEdit
<1> QED
  BY <1>7, <1>8, HalvesAfter

LEMMA SendStoryKeeps ==
  ASSUME ShInv, NEW value \in Value, SendStory(value)
  PROVE  ShInv'
<1> DEFINE asked == [f \in {"summary"} |-> value]
<1>1. Holding /\ Asking /\ Screens
  BY Halves
<1>2. asked \in [{"summary"} -> Value] /\ {"summary"} \in SUBSET Field
  BY DEF Field
<1>3. form' = [form EXCEPT !.dirty = FALSE] /\ HandleEdit(asked)
  BY DEF SendStory
<1> HIDE DEF asked
<1>4. Holding' /\ Asking'
  BY <1>1, <1>2, <1>3, HandleEditKeeps
<1>5. form' \in Form
  BY <1>1, <1>3 DEF Screens, Form
<1>6. Screens'
  BY <1>1, <1>3, <1>5 DEF Screens, HandleEdit
<1> QED
  BY <1>4, <1>6, HalvesAfter

LEMMA ReceiveKeeps ==
  ASSUME ShInv, Receive
  PROVE  ShInv'
<1>1. Holding /\ Asking /\ Screens
  BY Halves
<1>2. /\ wire # <<>> /\ wire' = Tail(wire)
      /\ copy' = IF Head(wire) = Refused THEN copy ELSE Head(wire)
      /\ UNCHANGED <<character, requests, hosting, sent, dm, saved>>
  BY DEF Receive
<1>3. /\ wire \in Seq(Frame) /\ wire' \in Seq(Frame) /\ Len(wire) \in Nat
      /\ Head(wire) \in Frame /\ Head(wire) = wire[1] /\ 1 \in 1 .. Len(wire)
      /\ \A i \in 1 .. Len(wire') : i + 1 \in 1 .. Len(wire) /\ wire'[i] = wire[i + 1]
  BY <1>1, <1>2 DEF Holding
<1>4. copy' \in Character
  BY <1>1, <1>2, <1>3 DEF Holding, Frame
<1>5. OnArrival' = OnArrival
  BY <1>2, <1>3, OneFrameRead DEF OnArrival
<1>6. EverythingTells'
  BY <1>1, <1>2, <1>3 DEF Holding, EverythingTells
<1>7. NothingSentToNobody'
  BY <1>1, <1>2 DEF Holding, NothingSentToNobody, Connected
<1>8. NothingBehindTheirBack'
  BY <1>1, <1>2, <1>5 DEF Holding, NothingBehindTheirBack, Connected
<1>9. Holding'
  BY <1>1, <1>2, <1>3, <1>4, <1>6, <1>7, <1>8 DEF Holding
<1>10. Asking'
  BY <1>1, <1>2, RequestsUntouched DEF LaterOrSame, Screens
<1>11. form' \in Form
  <2>1. /\ Loaded(copy) \in Form
        /\ Loaded(copy') \in Form
    BY <1>1, <1>4, LoadedIsAForm DEF Holding
  <2>2. form' \in {form, Loaded(copy), Loaded(copy')}
    BY DEF Receive, Loaded, SheetOf
  <2> QED
    BY <1>1, <2>1, <2>2 DEF Screens
<1>12. Screens'
  BY <1>1, <1>2, <1>11 DEF Screens
<1> QED
  BY <1>9, <1>10, <1>12, HalvesAfter

(* What touches a screen and nothing else.                                 *)
LEMMA ScreensOnlyKeeps ==
  ASSUME ShInv, Screens',
         UNCHANGED <<character, requests, hosting, sent, wire, copy, saved>>
  PROVE  ShInv'
<1>1. Holding /\ Asking /\ Screens
  BY Halves
<1>2. Holding'
  BY <1>1
  DEF Holding, EverythingTells, NothingBehindTheirBack, OnArrival,
      NothingSentToNobody, Connected
<1>3. Asking'
  BY <1>1, RequestsUntouched DEF LaterOrSame, Screens
<1> QED
  BY <1>2, <1>3, HalvesAfter

LEMMA TypingKeeps ==
  ASSUME ShInv, TypeStory \/ DMTypesStory
  PROVE  ShInv'
<1>1. Screens
  BY Halves
<1>2. CASE TypeStory
  <2>1. form' \in Form
    BY <1>1, <1>2 DEF TypeStory, Screens, Form
  <2> QED
    BY <1>1, <1>2, <2>1, ScreensOnlyKeeps DEF TypeStory, Screens
<1>3. CASE DMTypesStory
  <2>1. dm' \in Form
    BY <1>1, <1>3 DEF DMTypesStory, Screens, Form
  <2> QED
    BY <1>1, <1>3, <2>1, ScreensOnlyKeeps DEF DMTypesStory, Screens
<1> QED
  BY <1>2, <1>3

-----------------------------------------------------------------------------
(* The specification                                                       *)

LEMMA WholeIsACharacter == Whole \in Character
<1>1. Most \in Value /\ 1 \in Version
  BY SheetsAssumption DEF Value, Version
<1> QED
  BY <1>1 DEF Whole, Character

LEMMA InitShInv == Init => ShInv
<1> SUFFICES ASSUME Init
             PROVE  ShInv
  OBVIOUS
<1>1. /\ character = Whole /\ requests = <<>> /\ hosting = FALSE /\ sent = 0
      /\ wire = <<>> /\ copy = Whole /\ form = Loaded(Whole)
      /\ dm = [sheet |-> SheetOf(Whole), dirty |-> FALSE] /\ saved = 0
  BY DEF Init
<1>2. Screens
  <2>1. form \in Form
    BY <1>1, WholeIsACharacter, LoadedIsAForm
  <2>2. dm \in Form
    BY <1>1, WholeIsACharacter, SheetIsASheet DEF Form
  <2> QED
    BY <1>1, <2>1, <2>2, WholeIsACharacter DEF Screens
<1>3. EverythingTells
  BY <1>1, WholeIsACharacter, CharacterParts DEF EverythingTells, Tells
<1>4. Holding
  BY <1>1, <1>3, WholeIsACharacter, SheetsAssumption
  DEF Holding, NothingBehindTheirBack, NothingSentToNobody, Connected
<1>5. Asking
  BY <1>1, WholeIsACharacter, CharacterParts, SheetsAssumption
  DEF Asking, OneOpenRequest, OpenSinceTheLastSave, WishesAreOfThePast
<1> QED
  BY <1>2, <1>4, <1>5, Halves

LEMMA NextShInv == ShInv /\ [Next]_vars => ShInv'
<1> SUFFICES ASSUME ShInv, [Next]_vars
             PROVE  ShInv'
  OBVIOUS
<1>1. ASSUME NEW v \in Value, TakeDamage(v) \/ HealTo(v)
      PROVE  ShInv'
  BY <1>1, HitPointsKeep DEF TakeDamage, HealTo
<1>2. ASSUME NEW v \in Value, DMSavesStory(v)
      PROVE  ShInv'
  BY <1>2, DMSavesStoryKeeps
<1>3. ASSUME NEW v \in Value, SendStory(v)
      PROVE  ShInv'
  BY <1>3, SendStoryKeeps
<1>4. ASSUME NEW v \in Value, NEW f \in SheetField, DMSavesSheet(f, v)
      PROVE  ShInv'
  BY <1>4, DMSavesSheetKeeps
<1>5. ASSUME NEW v \in Value, NEW f \in SheetField, SendSheet(f, v)
      PROVE  ShInv'
  BY <1>5, SendSheetKeeps
<1>6. ASSUME NEW i \in DOMAIN requests, Approve(i)
      PROVE  ShInv'
  BY <1>6, ApproveKeeps
<1>7. ASSUME NEW i \in DOMAIN requests, Reject(i)
      PROVE  ShInv'
  BY <1>7, RejectKeeps
<1>8. CASE DMTypesStory \/ TypeStory
  BY <1>8, TypingKeeps
<1>9. CASE SetOwner
  BY <1>9, SetOwnerKeeps
<1>10. CASE HostUp
  BY <1>10, HostUpKeeps
<1>11. CASE Connect
  BY <1>11, ConnectKeeps
<1>12. CASE Disconnect
  BY <1>12, DisconnectKeeps
<1>13. CASE Receive
  BY <1>13, ReceiveKeeps
<1>14. CASE Give
  BY <1>14, GiveKeeps
<1>15. CASE UNCHANGED vars
  <2>1. Screens'
    BY <1>15, Halves DEF vars, Screens
  <2> QED
    BY <1>15, <2>1, ScreensOnlyKeeps DEF vars
<1> QED
  BY <1>1, <1>2, <1>3, <1>4, <1>5, <1>6, <1>7, <1>8, <1>9, <1>10, <1>11,
     <1>12, <1>13, <1>14, <1>15 DEF Next

LEMMA SpecShInv == Spec => []ShInv
BY InitShInv, NextShInv, PTL DEF Spec

-----------------------------------------------------------------------------
(* Theorems                                                                *)

(* Every variable of Sheets keeps its type: what is approved, saved or     *)
(* struck is always a whole character, and every form a whole sheet.       *)
THEOREM SheetsTypeCorrect == Spec => []TypeOK
<1>1. ShInv => TypeOK
  BY DEF ShInv
<1> QED
  BY <1>1, SpecShInv, PTL

(* An older request is never open beside a newer one (propose, decide), so *)
(* the DM cannot approve it.                                               *)
THEOREM OneRequestOpen == Spec => []OneOpenRequest
<1>1. ShInv => OneOpenRequest
  BY DEF ShInv
<1> QED
  BY <1>1, SpecShInv, PTL

(* What is open was asked of a sheet at least as new as the DM's last save *)
(* in a session (refuse_conflicting).                                      *)
THEOREM OpenSinceSaved == Spec => []OpenSinceTheLastSave
<1>1. ShInv => OpenSinceTheLastSave
  BY DEF ShInv
<1> QED
  BY <1>1, SpecShInv, PTL

(* A player who is connected holds, once what is in flight has arrived,    *)
(* what the host holds of their character: publish_entity tells them of    *)
(* every change made while they are there and snapshot_since of those made *)
(* while they were not.                                                    *)
THEOREM NothingBehindThem == Spec => []NothingBehindTheirBack
<1>1. ShInv => NothingBehindTheirBack
  BY DEF ShInv
<1> QED
  BY <1>1, SpecShInv, PTL

-----------------------------------------------------------------------------
(* Sheets implements OneSheet                                              *)

Now    == [hp |-> character.hp, text |-> character.text]
Theirs == [hp |-> OnArrival.hp, text |-> OnArrival.text]

(* What there is to be granted, after each thing that can become of it.    *)
LEMMA NoneOpenNoWishes ==
  ASSUME \A i \in DOMAIN requests : ~requests[i].open
  PROVE  OpenWishes = {}
BY DEF OpenWishes

LEMMA OneOpenOneWish ==
  ASSUME NEW i \in DOMAIN requests, requests[i].open,
         \A j \in DOMAIN requests : requests[j].open => j = i
  PROVE  OpenWishes = {requests[i].changes}
BY DEF OpenWishes

LEMMA WishesUntouched ==
  ASSUME requests' = requests
  PROVE  OpenWishes' = OpenWishes
BY DEF OpenWishes

LEMMA AnsweredWish ==
  ASSUME Asking, NEW i \in DOMAIN requests, requests[i].open,
         requests' = [requests EXCEPT ![i].open = FALSE]
  PROVE  OpenWishes = {requests[i].changes} /\ OpenWishes' = {}
<1>1. /\ requests \in Seq(Request) /\ Len(requests) \in Nat
      /\ DOMAIN requests = 1 .. Len(requests) /\ requests[i] \in Request
  BY DEF Asking
<1>2. /\ requests' \in Seq(Request) /\ Len(requests') = Len(requests)
      /\ \A j \in 1 .. Len(requests) : requests'[j] = requests[j] \/ Closing(j)
  BY AnsweringCloses
<1>3. \A j \in DOMAIN requests : requests[j].open => j = i
  BY <1>1 DEF Asking, OneOpenRequest
<1>4. ~requests'[i].open
  BY <1>1 DEF Request
<1>5. ASSUME NEW j \in DOMAIN requests'
      PROVE  ~requests'[j].open
  <2>1. j \in 1 .. Len(requests) /\ requests[j] \in Request
    BY <1>1, <1>2
  <2>2. CASE j = i
    BY <1>4, <2>2
  <2>3. CASE j # i
    <3>1. ~requests[j].open
      BY <1>1, <1>3, <2>1, <2>3
    <3> QED
      BY <1>2, <2>1, <3>1 DEF Closing, Request
  <2> QED
    BY <2>2, <2>3
<1>6. OpenWishes' = {}
  BY <1>5 DEF OpenWishes
<1> QED
  BY <1>3, <1>6, OneOpenOneWish

LEMMA RefusedWishes ==
  ASSUME Asking, character \in Character, character' \in Character,
         character'.version > character.version,
         RefuseConflicting(character'.version)
  PROVE  OpenWishes' = {}
<1>1. /\ requests \in Seq(Request) /\ Len(requests) \in Nat
      /\ DOMAIN requests = 1 .. Len(requests)
  BY DEF Asking
<1>2. ASSUME NEW i \in DOMAIN requests'
      PROVE  ~requests'[i].open
  <2>1. /\ i \in DOMAIN requests /\ requests[i] \in Request
        /\ requests'[i] = IF requests[i].base # character'.version
                          THEN [requests[i] EXCEPT !.open = FALSE] ELSE requests[i]
    BY <1>1 DEF RefuseConflicting
  <2>2. requests[i].open => requests[i].base # character'.version
    <3>1. requests[i].base \in Nat /\ character.version \in Nat /\ character'.version \in Nat
      BY <2>1, CharacterParts, SheetsAssumption DEF Request, Version
    <3> QED
      BY <2>1, <3>1 DEF Asking, WishesAreOfThePast
  <2> QED
    BY <2>1, <2>2 DEF Request
<1> QED
  BY <1>2 DEF OpenWishes

LEMMA WishMade ==
  ASSUME Asking, NEW changes, requests' = Propose(changes)
  PROVE  OpenWishes' = {changes}
<1> DEFINE n == Len(requests)
           closed == [i \in DOMAIN requests |-> [requests[i] EXCEPT !.open = FALSE]]
           new == [open |-> TRUE, changes |-> changes, base |-> sent]
<1>1. requests \in Seq(Request) /\ n \in Nat /\ DOMAIN requests = 1 .. n
  BY DEF Asking
<1>2. \A i \in 1 .. n : ~[requests[i] EXCEPT !.open = FALSE].open
  <2>1. \A i \in 1 .. n : requests[i] \in Request
    BY <1>1
  <2> QED
    BY <2>1 DEF Request
<1>3. DOMAIN closed = 1 .. n /\ \A i \in 1 .. n : ~closed[i].open
  BY <1>1, <1>2
<1>4. Len(closed) = n /\ requests' = Append(closed, new)
  BY <1>1 DEF Propose
<1>5. new.open /\ new.changes = changes
  OBVIOUS
<1> HIDE DEF n, closed, new
<1>6. /\ DOMAIN requests' = 1 .. n + 1
      /\ \A i \in 1 .. n : requests'[i] = closed[i]
      /\ requests'[n + 1] = new
  BY <1>1, <1>3, <1>4
<1>7. /\ n + 1 \in DOMAIN requests' /\ requests'[n + 1].open
      /\ \A j \in DOMAIN requests' : requests'[j].open => j = n + 1
  BY <1>1, <1>3, <1>5, <1>6
<1> QED
  BY <1>5, <1>6, <1>7 DEF OpenWishes

(* A player who is there sees what is written as it is written.            *)
LEMMA ShownToThem ==
  ASSUME ShInv, ShInv', Connected' = Connected, ~Connected => UNCHANGED <<copy, wire>>
  PROVE  /\ Theirs' = IF Connected THEN Now' ELSE Theirs
         /\ Connected => Theirs = Now
<1>1. CASE Connected
  BY <1>1 DEF ShInv, NothingBehindTheirBack, Theirs, Now
<1>2. CASE ~Connected
  BY <1>2 DEF Theirs, OnArrival
<1> QED
  BY <1>1, <1>2

LEMMA NobodyNotices ==
  ASSUME ShInv, ShInv', Connected' = Connected, ~Connected => UNCHANGED <<copy, wire>>,
         Now' = Now, requests' = requests, hosting' = hosting
  PROVE  UNCHANGED Promise!oneSheet
<1>1. Theirs' = Theirs
  BY ShownToThem
<1>2. OpenWishes' = OpenWishes
  BY WishesUntouched
<1> QED
  BY <1>1, <1>2 DEF Promise!oneSheet, Now, Theirs

(* Whoever publishes changes nobody's being there.                         *)
LEMMA PublishingSeatsNobody ==
  ASSUME ShInv, ShInv', NEW frames, Publish(frames), copy' = copy
  PROVE  Connected' = Connected /\ (~Connected => UNCHANGED <<copy, wire>>)
<1>1. CASE Connected
  <2>1. sent' = character'.version /\ character'.version \in Nat /\ character'.version >= 1
    BY <1>1, Halves, CharacterParts DEF Publish, ShInv, TypeOK
  <2> QED
    BY <1>1, <2>1 DEF Connected
<1>2. CASE ~Connected
  BY <1>2 DEF Publish, Connected
<1> QED
  BY <1>1, <1>2

LEMMA InitOneSheet == Init => Promise!Init
<1> SUFFICES ASSUME Init PROVE Promise!Init
  OBVIOUS
<1>1. character = Whole /\ copy = Whole /\ wire = <<>> /\ requests = <<>>
  BY DEF Init
<1>2. OnArrival = Whole
  BY <1>1 DEF OnArrival, AfterReading
<1>3. OpenWishes = {}
  BY <1>1, NoneOpenNoWishes
<1>4. [hp |-> Whole.hp, text |-> Whole.text] \in Promise!Sheet
  BY WholeIsACharacter, CharacterParts DEF Promise!Sheet
<1> QED
  BY <1>1, <1>2, <1>3, <1>4 DEF Promise!Init, Init, Connected

LEMMA AppliedIsShown ==
  ASSUME ShInv, ShInv', NEW hp \in Value, NEW text \in [Field -> Value], Applied(hp, text)
  PROVE  /\ Now' = [hp |-> hp, text |-> text]
         /\ Promise!Shown
         /\ Connected' = Connected /\ (~Connected => UNCHANGED <<copy, wire>>)
         /\ hosting /\ hosting' = hosting /\ requests' = requests
<1>1. /\ hosting /\ Written(hp, text) /\ Publish(<<>>)
      /\ UNCHANGED <<requests, hosting, copy>>
  BY DEF Applied
<1>2. Now' = [hp |-> hp, text |-> text]
  BY <1>1, Halves, WrittenCharacter DEF Now, Screens
<1>3. Connected' = Connected /\ (~Connected => UNCHANGED <<copy, wire>>)
  BY <1>1, PublishingSeatsNobody
<1>4. Promise!Shown
  BY <1>3, ShownToThem DEF Promise!Shown, Now, Theirs
<1> QED
  BY <1>1, <1>2, <1>3, <1>4

LEMMA BlowsAndHealing ==
  ASSUME ShInv, ShInv', NEW v \in Value, HitPoints(v)
  PROVE  Promise!HealthChanges(v)
<1> DEFINE text == [character.text EXCEPT !["hp_current"] = v]
<1>1. text \in [Field -> Value]
  BY Halves, CharacterParts DEF Screens, Field
<1>2. Applied(v, text)
  BY DEF HitPoints
<1>3. /\ Now' = [hp |-> v, text |-> text]
      /\ Promise!Shown
      /\ Connected' = Connected
      /\ hosting /\ hosting' = hosting /\ requests' = requests
  BY <1>1, <1>2, AppliedIsShown
<1>4. OpenWishes' = OpenWishes
  BY <1>3, WishesUntouched
<1> QED
  BY <1>3, <1>4 DEF Promise!HealthChanges, Now

LEMMA GivingIsNotNoticed ==
  ASSUME ShInv, ShInv', Give
  PROVE  UNCHANGED Promise!oneSheet
<1>1. character.hp \in Value /\ character.text \in [Field -> Value]
  BY Halves, CharacterParts DEF Screens
<1>2. Now' = Now
  BY <1>1, AppliedIsShown DEF Give, Now
<1> QED
  BY <1>1, <1>2, AppliedIsShown, NobodyNotices DEF Give, Applied

LEMMA TheDMWrites ==
  ASSUME ShInv, ShInv', NEW text \in [Field -> Value],
         Written(character.hp, text), DMSaved, UNCHANGED <<hosting, copy>>
  PROVE  Promise!DMWrites(text)
<1>1. /\ character \in Character /\ character' \in Character
      /\ character.hp \in Value /\ Asking
  BY Halves, CharacterParts DEF ShInv, TypeOK
<1>2. /\ character'.version = character.version + 1
      /\ character'.hp = character.hp /\ character'.text = text
  BY <1>1, WrittenCharacter
<1>3. character'.version > character.version
  BY <1>1, <1>2, CharacterParts
<1>4. CASE hosting
  <2>1. RefuseConflicting(character'.version) /\ Publish(<<>>)
    BY <1>4 DEF DMSaved
  <2>2. OpenWishes' = {}
    BY <1>1, <1>3, <2>1, RefusedWishes
  <2>3. Connected' = Connected /\ (~Connected => UNCHANGED <<copy, wire>>)
    BY <2>1, PublishingSeatsNobody
  <2>4. Promise!Shown
    BY <2>3, ShownToThem DEF Promise!Shown, Now, Theirs
  <2> QED
    BY <1>2, <1>4, <2>2, <2>3, <2>4 DEF Promise!DMWrites
<1>5. CASE ~hosting
  <2>1. UNCHANGED <<requests, wire, sent>>
    BY <1>5 DEF DMSaved
  <2>2. OpenWishes' = OpenWishes
    BY <2>1, WishesUntouched
  <2>3. Connected' = Connected
    BY <2>1 DEF Connected
  <2>4. Promise!Shown
    BY <2>1, <2>3, ShownToThem DEF Promise!Shown, Now, Theirs
  <2> QED
    BY <1>2, <1>5, <2>2, <2>3, <2>4 DEF Promise!DMWrites
<1> QED
  BY <1>4, <1>5

LEMMA SheetSavesAreWrites ==
  ASSUME ShInv, ShInv', NEW f \in SheetField, NEW v \in Value, DMSavesSheet(f, v)
  PROVE  \E text \in [Field -> Value] : Promise!DMWrites(text)
<1> DEFINE sheet == [dm.sheet EXCEPT ![f] = v]
<1>1. dm.sheet \in [SheetField -> Value] /\ character.text \in [Field -> Value]
  BY Halves, CharacterParts DEF Screens, Form, Sheet
<1>2. sheet \in [SheetField -> Value]
  BY <1>1
<1>3. /\ Written(character.hp, LaidOver(sheet, character.text)) /\ DMSaved
      /\ UNCHANGED <<hosting, copy>>
  BY DEF DMSavesSheet
<1> HIDE DEF sheet
<1>4. LaidOver(sheet, character.text) \in [Field -> Value]
  BY <1>1, <1>2, LaidOverIsText, SheetFieldsAreFields
<1> QED
  BY <1>3, <1>4, TheDMWrites

LEMMA StorySavesAreWrites ==
  ASSUME ShInv, ShInv', NEW v \in Value, DMSavesStory(v)
  PROVE  \E text \in [Field -> Value] : Promise!DMWrites(text)
<1>1. [character.text EXCEPT !["summary"] = v] \in [Field -> Value]
  BY Halves, CharacterParts DEF Screens, Field
<1> QED
  BY <1>1, TheDMWrites DEF DMSavesStory

LEMMA ApprovingGrants ==
  ASSUME ShInv, ShInv', NEW i \in DOMAIN requests, Approve(i)
  PROVE  \E wish \in OpenWishes : Promise!Grants(wish)
<1> DEFINE wish == requests[i].changes
           text == LaidOver(wish, character.text)
<1>1. /\ hosting /\ requests[i].open
      /\ Written(character.hp, text)
      /\ requests' = [requests EXCEPT ![i].open = FALSE]
      /\ Publish(<<>>)
      /\ UNCHANGED <<hosting, copy>>
  BY DEF Approve
<1>2. character \in Character /\ character.hp \in Value /\ Asking
  BY Halves, CharacterParts DEF Screens
<1>3. OpenWishes = {wish} /\ OpenWishes' = {}
  BY <1>1, <1>2, AnsweredWish
<1>4. PICK S \in SUBSET Field : wish \in [S -> Value]
  <2>1. requests[i] \in Request
    BY <1>2 DEF Asking
  <2> QED
    BY <2>1 DEF Request, Changes
<1>5. text \in [Field -> Value]
  BY <1>2, <1>4, LaidOverIsText, CharacterParts
<1>6. character'.hp = character.hp /\ character'.text = text
  BY <1>1, <1>2, <1>5, WrittenCharacter
<1>7. Connected' = Connected /\ (~Connected => UNCHANGED <<copy, wire>>)
  BY <1>1, PublishingSeatsNobody
<1>8. Promise!Shown
  BY <1>7, ShownToThem DEF Promise!Shown, Now, Theirs
<1>9. Promise!Grants(wish)
  BY <1>1, <1>3, <1>6, <1>7, <1>8 DEF Promise!Grants, LaidOver
<1> QED
  BY <1>3, <1>9

LEMMA RejectingDenies ==
  ASSUME ShInv, ShInv', NEW i \in DOMAIN requests, Reject(i)
  PROVE  Promise!Denies
<1>1. /\ hosting /\ requests[i].open
      /\ requests' = [requests EXCEPT ![i].open = FALSE]
      /\ Publish(<<Refused>>)
      /\ UNCHANGED <<character, hosting, copy>>
  BY DEF Reject
<1>2. OpenWishes = {requests[i].changes} /\ OpenWishes' = {}
  BY <1>1, Halves, AnsweredWish
<1>3. Connected' = Connected /\ (~Connected => UNCHANGED <<copy, wire>>)
  BY <1>1, PublishingSeatsNobody
<1>4. Theirs' = Theirs /\ Now' = Now
  BY <1>1, <1>3, ShownToThem DEF Now
<1> QED
  BY <1>1, <1>2, <1>3, <1>4 DEF Promise!Denies, Now, Theirs

LEMMA ConnectingComes ==
  ASSUME ShInv, ShInv', Connect
  PROVE  Promise!Comes
<1>1. /\ hosting /\ ~Connected /\ sent' = character.version
      /\ UNCHANGED <<character, requests, hosting>>
  BY DEF Connect
<1>2. Connected'
  BY <1>1, Halves, CharacterParts DEF Connected, Screens
<1>3. Theirs' = Now
  BY <1>1, <1>2 DEF ShInv, NothingBehindTheirBack, Theirs, Now
<1>4. OpenWishes' = OpenWishes
  BY <1>1, WishesUntouched
<1> QED
  BY <1>1, <1>2, <1>3, <1>4 DEF Promise!Comes, Now, Theirs

(* They are left with what their cache has.                                *)
LEMMA LeavingGoes ==
  ASSUME ShInv, ShInv', sent' = 0, wire' = <<>>, Connected \/ hosting' # hosting,
         UNCHANGED <<character, requests, copy>>
  PROVE  Promise!Goes
<1>1. ~Connected' /\ OnArrival' = copy
  BY DEF Connected, OnArrival, AfterReading
<1>2. [hp |-> copy.hp, text |-> copy.text] \in Promise!Sheet
  BY CharacterParts DEF ShInv, TypeOK, Promise!Sheet
<1>3. ~Connected => OnArrival = copy
  BY DEF ShInv, NothingSentToNobody, OnArrival, AfterReading
<1>4. OpenWishes' = OpenWishes
  BY WishesUntouched
<1>5. hosting' \in BOOLEAN
  BY DEF ShInv, TypeOK
<1> QED
  BY <1>1, <1>2, <1>3, <1>4, <1>5 DEF Promise!Goes

LEMMA EditingAsks ==
  ASSUME ShInv, ShInv', NEW S \in SUBSET Field, NEW asked \in [S -> Value],
         HandleEdit(asked)
  PROVE  (\E wish \in Promise!Wish : Promise!Asks(wish)) \/ UNCHANGED Promise!oneSheet
<1>1. Connected /\ UNCHANGED <<character, hosting, copy>> /\ Now' = Now
  BY DEF HandleEdit, Now
<1>2. CASE Publish(<<>>) /\ UNCHANGED requests
  BY <1>1, <1>2, PublishingSeatsNobody, NobodyNotices
<1>3. CASE UNCHANGED <<wire, sent, requests>>
  <2>1. Connected' = Connected
    BY <1>3 DEF Connected
  <2> QED
    BY <1>1, <1>3, <2>1, NobodyNotices
<1>4. CASE /\ UNCHANGED <<wire, sent>> /\ DOMAIN Wanted(asked) # {}
           /\ requests' = Propose(Wanted(asked))
  <2> DEFINE wish == Wanted(asked)
  <2>1. wish \in Promise!Wish
    <3>1. wish \in Changes
      BY Halves, WantedIsAChange DEF Screens
    <3> QED
      BY <3>1 DEF Changes, Promise!Wish
  <2>2. \A f \in DOMAIN wish : wish[f] # character.text[f]
    BY DEF Wanted
  <2>3. OpenWishes' = {wish}
    BY <1>4, Halves, WishMade
  <2>4. Connected' = Connected
    BY <1>4 DEF Connected
  <2>5. Theirs = Now /\ Theirs' = Now
    BY <1>1, <2>4, ShownToThem
  <2>6. Promise!Asks(wish)
    <3> HIDE DEF wish
    <3> QED
      BY <1>1, <1>4, <2>2, <2>3, <2>4, <2>5 DEF Promise!Asks, Now, Theirs, wish
  <2> QED
    BY <2>1, <2>6
<1> QED
  BY <1>2, <1>3, <1>4 DEF HandleEdit

LEMMA SendingAsks ==
  ASSUME ShInv, ShInv', NEW v \in Value,
         SendStory(v) \/ \E f \in SheetField : SendSheet(f, v)
  PROVE  (\E wish \in Promise!Wish : Promise!Asks(wish)) \/ UNCHANGED Promise!oneSheet
<1>1. CASE SendStory(v)
  <2>1. [f \in {"summary"} |-> v] \in [{"summary"} -> Value] /\ {"summary"} \in SUBSET Field
    BY DEF Field
  <2> QED
    BY <1>1, <2>1, EditingAsks DEF SendStory
<1>2. ASSUME NEW f \in SheetField, SendSheet(f, v)
      PROVE  (\E wish \in Promise!Wish : Promise!Asks(wish)) \/ UNCHANGED Promise!oneSheet
  <2>1. form'.sheet \in [SheetField -> Value]
    BY DEF ShInv, TypeOK, Form, Sheet
  <2>2. HandleEdit(form'.sheet)
    BY <1>2 DEF SendSheet
  <2> QED
    BY <2>1, <2>2, EditingAsks, SheetFieldsAreFields
<1> QED
  BY <1>1, <1>2

LEMMA ReadingIsNotNoticed ==
  ASSUME ShInv, ShInv', Receive
  PROVE  UNCHANGED Promise!oneSheet
<1>1. /\ wire # <<>> /\ UNCHANGED <<character, requests, hosting, sent>>
  BY DEF Receive
<1>2. Connected /\ Connected' = Connected /\ Now' = Now
  BY <1>1 DEF ShInv, NothingSentToNobody, Connected, Now
<1> QED
  BY <1>1, <1>2, NobodyNotices

LEMMA OtherwiseNotNoticed ==
  ASSUME ShInv, ShInv', TypeStory \/ DMTypesStory \/ SetOwner \/ UNCHANGED vars
  PROVE  UNCHANGED Promise!oneSheet
<1>1. UNCHANGED <<requests, hosting, sent, wire, copy>>
  BY DEF TypeStory, DMTypesStory, SetOwner, vars
<1>2. Now' = Now
  <2>1. CASE SetOwner
    BY <2>1, Halves, CharacterParts, WrittenCharacter DEF SetOwner, Screens, Now
  <2>2. CASE UNCHANGED character
    BY <2>2 DEF Now
  <2> QED
    BY <2>1, <2>2 DEF TypeStory, DMTypesStory, vars
<1>3. Connected' = Connected
  BY <1>1 DEF Connected
<1> QED
  BY <1>1, <1>2, <1>3, NobodyNotices

LEMMA StepsAreSteps ==
  ShInv /\ [Next]_vars => [Promise!Next]_Promise!oneSheet
<1> SUFFICES ASSUME ShInv, [Next]_vars
             PROVE  Promise!Next \/ UNCHANGED Promise!oneSheet
  BY DEF Promise!oneSheet
<1>0. ShInv'
  BY NextShInv
<1>1. ASSUME NEW v \in Value, TakeDamage(v) \/ HealTo(v)
      PROVE  Promise!Next
  BY <1>0, <1>1, BlowsAndHealing DEF TakeDamage, HealTo, Promise!Next
<1>2. ASSUME NEW v \in Value, DMSavesStory(v) \/ \E f \in SheetField : DMSavesSheet(f, v)
      PROVE  Promise!Next
  BY <1>0, <1>2, StorySavesAreWrites, SheetSavesAreWrites DEF Promise!Next
<1>3. ASSUME NEW v \in Value, SendStory(v) \/ \E f \in SheetField : SendSheet(f, v)
      PROVE  Promise!Next \/ UNCHANGED Promise!oneSheet
  BY <1>0, <1>3, SendingAsks DEF Promise!Next
<1>4. ASSUME NEW i \in DOMAIN requests, Approve(i)
      PROVE  Promise!Next
  BY <1>0, <1>4, ApprovingGrants DEF Promise!Next
<1>5. ASSUME NEW i \in DOMAIN requests, Reject(i)
      PROVE  Promise!Next
  BY <1>0, <1>5, RejectingDenies DEF Promise!Next
<1>6. CASE Give
  BY <1>0, <1>6, GivingIsNotNoticed
<1>7. CASE TypeStory \/ DMTypesStory \/ SetOwner \/ UNCHANGED vars
  BY <1>0, <1>7, OtherwiseNotNoticed
<1>8. CASE HostUp
  <2>1. hosting' # hosting
    BY <1>0, <1>8 DEF HostUp, ShInv, TypeOK
  <2> QED
    BY <1>0, <1>8, <2>1, LeavingGoes DEF HostUp, Promise!Next
<1>9. CASE Disconnect
  BY <1>0, <1>9, LeavingGoes DEF Disconnect, Promise!Next
<1>10. CASE Connect
  BY <1>0, <1>10, ConnectingComes DEF Promise!Next
<1>11. CASE Receive
  BY <1>0, <1>11, ReadingIsNotNoticed
<1> QED
  BY <1>1, <1>2, <1>3, <1>4, <1>5, <1>6, <1>7, <1>8, <1>9, <1>10, <1>11 DEF Next

(* Player and DM have one sheet between them and one wish about it at      *)
(* most, for any number of frames, versions and requests, and whatever the *)
(* forms hold (_handle_edit, decide, refuse_conflicting, publish_entity).  *)
THEOREM SheetsImplementOneSheet == Spec => ThereIsOneSheet
BY InitOneSheet, StepsAreSteps, SpecShInv, PTL DEF Spec, ThereIsOneSheet, Promise!Spec

-----------------------------------------------------------------------------
(* The sheet of SheetTab                                                   *)

LEMMA AbilitiesAreFinite ==
  IsFiniteSet(Ability)
<1>1. IsFiniteSet({}) /\ (\A S : IsFiniteSet(S) => \A x : IsFiniteSet(S \cup {x}))
  BY FS_EmptySet, FS_AddElement
<1>2. IsFiniteSet((({} \cup {"str"}) \cup {"dex"}) \cup {"con"})
  BY Zenon, <1>1
<1>3. IsFiniteSet((({} \cup {"int"}) \cup {"wis"}) \cup {"cha"})
  BY Zenon, <1>1
<1>4. Ability = ((({} \cup {"str"}) \cup {"dex"}) \cup {"con"})
                  \cup ((({} \cup {"int"}) \cup {"wis"}) \cup {"cha"})
  BY DEF Ability
<1> QED
  BY <1>2, <1>3, <1>4, FS_Union

(* A new sheet has been improved nowhere, and nothing added up is nothing. *)
LEMMA NothingAddsUpToNothing ==
  SumFunction([a \in Ability |-> 0]) = 0
<1> DEFINE z == [a \in Ability |-> 0]
           some(s) == CHOOSE x \in s : TRUE
           Sums(g) == g = [s \in SUBSET Ability |->
                            IF s = {} THEN 0 ELSE z[some(s)] + g[s \ {some(s)}]]
           sum == CHOOSE g : Sums(g)
           nothing == [s \in SUBSET Ability |-> 0]
<1>1. Sums(nothing)
  <2>1. \A s \in SUBSET Ability : s # {} => some(s) \in Ability /\ s \ {some(s)} \in SUBSET Ability
    OBVIOUS
  <2>2. \A s \in SUBSET Ability : s # {} => z[some(s)] = 0 /\ nothing[s \ {some(s)}] = 0
    BY <2>1
  <2>3. \A s \in SUBSET Ability : s # {} => z[some(s)] + nothing[s \ {some(s)}] = 0
    BY <2>2
  <2> HIDE DEF z, some
  <2> QED
    BY <2>3
<1>2. Sums(sum)
  <2> HIDE DEF Sums
  <2> QED
    BY <1>1
<1>3. sum[Ability] = 0
  <2>1. /\ sum[{}] = 0
        /\ \A s \in SUBSET Ability : s # {} => sum[s] = z[some(s)] + sum[s \ {some(s)}]
    <3> HIDE DEF sum, z, some
    <3> QED
      BY <1>2
  <2> DEFINE Wrong == {s \in SUBSET Ability : sum[s] # 0}
             size == [s \in Wrong |-> Cardinality(s)]
  <2>2. IsFiniteSet(Ability)
    BY AbilitiesAreFinite
  <2>3. size \in [Wrong -> Nat]
    BY <2>2, FS_Subset, FS_CardinalityType
  <2>4. SUFFICES ASSUME Wrong # {} PROVE FALSE
    OBVIOUS
  <2>5. PICK s \in Wrong : \A t \in Wrong : size[s] <= size[t]
    <3> HIDE DEF Wrong, size
    <3> QED
      BY <2>3, <2>4, Smallest
  <2>6. s # {} /\ some(s) \in s /\ s \in SUBSET Ability
    BY <2>1, <2>5
  <2>7. Cardinality(s \ {some(s)}) = Cardinality(s) - 1 /\ Cardinality(s) \in Nat
    BY <2>2, <2>6, FS_Subset, FS_RemoveElement, FS_CardinalityType
  <2>8. s \ {some(s)} \notin Wrong
    <3>1. SUFFICES ASSUME s \ {some(s)} \in Wrong PROVE FALSE
      OBVIOUS
    <3>2. Cardinality(s) <= Cardinality(s \ {some(s)})
      BY <2>5, <3>1
    <3> QED
      BY <2>7, <3>2
  <2>9. sum[s \ {some(s)}] = 0 /\ z[some(s)] = 0
    BY <2>6, <2>8
  <2>10. sum[s] = 0
    <3> HIDE DEF sum, z, some
    <3> QED
      BY <2>1, <2>6, <2>9
  <2> QED
    BY <2>5, <2>10
<1>4. SumFunction(z) = sum[Ability]
  <2>1. DOMAIN z = Ability
    OBVIOUS
  <2>2. SumFunction(z) = (CHOOSE g : g = [s \in SUBSET DOMAIN z |->
                      IF s = {} THEN 0 ELSE z[some(s)] + g[s \ {some(s)}]])[DOMAIN z]
    <3> HIDE DEF z
    <3> QED
      BY DEF SumFunction, SumFunctionOnSet, FoldFunctionOnSet, MapThenFoldSet
  <2> QED
    BY <2>1, <2>2
<1> QED
  BY <1>3, <1>4

-----------------------------------------------------------------------------
(* Legal but for hit dice *)

Legal(s) == IsSheet(s) /\ Problems(s) \subseteq {"rolled"}

LEMMA WhatIsLegal ==
  ASSUME NEW s, IsSheet(s)
  PROVE  Legal(s) <=>
           /\ s.level \in 1 .. 20
           /\ \A a \in Ability : s.abilities[a] \in 1 .. 30
           /\ ~ (SumFunction(s.improvements) > 12)
           /\ s.species \in DOMAIN Races \cup {None}
           /\ s.class \in DOMAIN Classes \cup {None}
           /\ Belongs(s.subspecies, Subraces, s.species)
           /\ Belongs(s.subclass, Subclasses, s.class)
           /\ s.skills \subseteq DOMAIN Skills
<1> DEFINE fields == {"level", "abilities", "improvements", "species", "class", "subspecies", "subclass", "skills", "rolled"}
<1>1. /\ "level" \in Problems(s) <=> s.level \notin 1 .. 20
      /\ "abilities" \in Problems(s) <=> \E a \in Ability : s.abilities[a] \notin 1 .. 30
      /\ "improvements" \in Problems(s) <=> SumFunction(s.improvements) > 12
      /\ "species" \in Problems(s) <=> s.species \notin DOMAIN Races \cup {None}
      /\ "class" \in Problems(s) <=> s.class \notin DOMAIN Classes \cup {None}
      /\ "subspecies" \in Problems(s) <=> ~Belongs(s.subspecies, Subraces, s.species)
      /\ "subclass" \in Problems(s) <=> ~Belongs(s.subclass, Subclasses, s.class)
      /\ "skills" \in Problems(s) <=> ~(s.skills \subseteq DOMAIN Skills)
      /\ Problems(s) \subseteq fields
  BY DEF Problems
<1> QED
  BY <1>1 DEF Legal

SheetFields ==
  {"species", "subspecies", "class", "subclass", "level", "abilities", "improvements", "skills",
   "rolled", "hp", "equipment", "known", "prepared", "used", "overrides"}

BoxNames ==
  {"species", "subspecies", "class", "subclass", "level", "abilities", "skills", "hp", "prepared"}

AreBoxes(f) ==
  /\ DOMAIN f = BoxNames /\ f = [x \in BoxNames |-> f[x]]
  /\ f.level \in Int /\ f.abilities \in [Ability -> Int]

LEMMA FieldsOfASheet ==
  DOMAIN NewSheet = SheetFields
BY DEF NewSheet, SheetFields

(* The sheet that the boxes and what has none make. *)
LEMMA WhatIsGathered ==
  ASSUME NEW s, IsSheet(s), NEW f, AreBoxes(f)
  PROVE  LET g == Gather(s, f)
         IN /\ IsSheet(g)
            /\ g.species = f.species /\ g.subspecies = f.subspecies
            /\ g.class = f.class /\ g.subclass = f.subclass /\ g.level = f.level
            /\ g.abilities = f.abilities /\ g.skills = f.skills
            /\ g.improvements = s.improvements
BY FieldsOfASheet DEF IsSheet, AreBoxes, Gather, SheetFields, BoxNames

(* Which sheets it is legal to make with them. *)
LEMMA WhatFits ==
  ASSUME NEW s, IsSheet(s), NEW f, AreBoxes(f)
  PROVE  Legal(Gather(s, f)) <=>
           /\ f.level \in 1 .. 20
           /\ \A a \in Ability : f.abilities[a] \in 1 .. 30
           /\ ~ (SumFunction(s.improvements) > 12)
           /\ f.species \in DOMAIN Races \cup {None}
           /\ f.class \in DOMAIN Classes \cup {None}
           /\ Belongs(f.subspecies, Subraces, f.species)
           /\ Belongs(f.subclass, Subclasses, f.class)
           /\ f.skills \subseteq DOMAIN Skills
BY WhatIsGathered, WhatIsLegal

Alike(f, g) == \A x \in BoxNames \ {"hp", "prepared"} : f[x] = g[x]

LEMMA AlikeFitsAlike ==
  ASSUME NEW s, IsSheet(s), NEW f, AreBoxes(f), NEW g, AreBoxes(g), Alike(f, g),
         Legal(Gather(s, f))
  PROVE  Legal(Gather(s, g))
BY WhatFits DEF Alike, BoxNames

LEMMA BoxChanged ==
  ASSUME NEW f, AreBoxes(f), NEW x \in BoxNames, NEW v,
         x = "level" => v \in Int,
         x = "abilities" => v \in [Ability -> Int]
  PROVE  /\ AreBoxes([f EXCEPT ![x] = v])
         /\ [f EXCEPT ![x] = v][x] = v
         /\ \A y \in BoxNames \ {x} : [f EXCEPT ![x] = v][y] = f[y]
BY DEF AreBoxes, BoxNames

LEMMA RefreshedAlike ==
  ASSUME NEW s, NEW f, AreBoxes(f), NEW m, NEW o, Refresh(s, f, m, o)
  PROVE  AreBoxes(boxes') /\ Alike(f, boxes')
<1>1. \A n : AreBoxes([f EXCEPT !.hp = n]) /\ Alike(f, [f EXCEPT !.hp = n])
  BY DEF AreBoxes, Alike, BoxNames
<1>2. boxes' = f \/ \E n : boxes' = [f EXCEPT !.hp = n]
  BY DEF Refresh
<1> QED
  BY <1>1, <1>2 DEF Alike

LEMMA LoadedFits ==
  ASSUME NEW s, Legal(s), Load(s)
  PROVE  held' = s /\ AreBoxes(boxes') /\ Legal(Gather(s, boxes'))
<1> DEFINE f == [species |-> s.species, subspecies |-> s.subspecies,
                 class |-> s.class, subclass |-> s.subclass, level |-> s.level,
                 abilities |-> s.abilities, skills |-> s.skills,
                 hp |-> HitPointsNow(s),
                 prepared |-> (s.prepared \cap s.known) \cup Cantrips(s.known)]
<1>1. IsSheet(s)
  BY DEF Legal
<1>2. AreBoxes(f)
  BY <1>1 DEF AreBoxes, IsSheet, BoxNames
<1>3. Legal(Gather(s, f))
  <2>1. /\ f.species = s.species /\ f.subspecies = s.subspecies /\ f.class = s.class
        /\ f.subclass = s.subclass /\ f.level = s.level /\ f.abilities = s.abilities
        /\ f.skills = s.skills
    OBVIOUS
  <2> HIDE DEF f
  <2> QED
    BY <1>1, <1>2, <2>1, WhatIsLegal, WhatFits
<1>4. held' = s /\ \E m, o : Refresh(s, f, m, o)
  BY DEF Load
<1> HIDE DEF f
<1>5. AreBoxes(boxes') /\ Alike(f, boxes')
  BY <1>2, <1>4, RefreshedAlike
<1> QED
  BY <1>1, <1>2, <1>3, <1>4, <1>5, AlikeFitsAlike

(* One box never leaves another illegal. *)
LEMMA ChosenFits ==
  ASSUME NEW s, IsSheet(s), NEW f, AreBoxes(f), Legal(Gather(s, f)), NEW g \in Chosen(f)
  PROVE  AreBoxes(g) /\ Legal(Gather(s, g))
<1>1. /\ f.level \in 1 .. 20
      /\ \A a \in Ability : f.abilities[a] \in 1 .. 30
      /\ ~ (SumFunction(s.improvements) > 12)
      /\ f.species \in DOMAIN Races \cup {None}
      /\ f.class \in DOMAIN Classes \cup {None}
      /\ Belongs(f.subspecies, Subraces, f.species)
      /\ Belongs(f.subclass, Subclasses, f.class)
      /\ f.skills \subseteq DOMAIN Skills
  BY WhatFits
<1>2. CASE \E v \in DOMAIN Races \cup {None} : g = WithSpecies(f, v)
  <2>1. PICK v \in DOMAIN Races \cup {None} : g = [f EXCEPT !.species = v, !.subspecies = None]
    BY <1>2 DEF WithSpecies
  <2> DEFINE h == [f EXCEPT !["species"] = v]
  <2>2. AreBoxes(h) /\ h.species = v /\ \A y \in BoxNames \ {"species"} : h[y] = f[y]
    BY BoxChanged DEF BoxNames
  <2>3. g = [h EXCEPT !["subspecies"] = None]
    BY <2>1
  <2> HIDE DEF h
  <2>4. AreBoxes(g) /\ g.subspecies = None /\ \A y \in BoxNames \ {"subspecies"} : g[y] = h[y]
    BY <2>2, <2>3 DEF AreBoxes, BoxNames
  <2>5. Belongs(None, Subraces, v)
    BY DEF Belongs
  <2> QED
    BY <1>1, <2>2, <2>4, <2>5, WhatFits DEF BoxNames
<1>3. CASE \E v \in DOMAIN Classes \cup {None} : g = WithClass(f, v)
  <2>1. PICK v \in DOMAIN Classes \cup {None} : g = [f EXCEPT !.class = v, !.subclass = None]
    BY <1>3 DEF WithClass
  <2> DEFINE h == [f EXCEPT !["class"] = v]
  <2>2. AreBoxes(h) /\ h.class = v /\ \A y \in BoxNames \ {"class"} : h[y] = f[y]
    BY BoxChanged DEF BoxNames
  <2>3. g = [h EXCEPT !["subclass"] = None]
    BY <2>1
  <2> HIDE DEF h
  <2>4. AreBoxes(g) /\ g.subclass = None /\ \A y \in BoxNames \ {"subclass"} : g[y] = h[y]
    BY <2>2, <2>3 DEF AreBoxes, BoxNames
  <2>5. Belongs(None, Subclasses, v)
    BY DEF Belongs
  <2> QED
    BY <1>1, <2>2, <2>4, <2>5, WhatFits DEF BoxNames
<1>4. CASE \E v \in DOMAIN Subraces : Subraces[v].of = f.species /\ g = [f EXCEPT !["subspecies"] = v]
  <2>1. PICK v \in DOMAIN Subraces : Subraces[v].of = f.species /\ g = [f EXCEPT !["subspecies"] = v]
    BY <1>4
  <2>2. AreBoxes(g) /\ g.subspecies = v /\ \A y \in BoxNames \ {"subspecies"} : g[y] = f[y]
    BY <2>1 DEF AreBoxes, BoxNames
  <2>3. Belongs(v, Subraces, f.species)
    BY <2>1 DEF Belongs
  <2> QED
    BY <1>1, <2>2, <2>3, WhatFits DEF BoxNames
<1>5. CASE \E v \in DOMAIN Subclasses : Subclasses[v].of = f.class /\ g = [f EXCEPT !["subclass"] = v]
  <2>1. PICK v \in DOMAIN Subclasses : Subclasses[v].of = f.class /\ g = [f EXCEPT !["subclass"] = v]
    BY <1>5
  <2>2. AreBoxes(g) /\ g.subclass = v /\ \A y \in BoxNames \ {"subclass"} : g[y] = f[y]
    BY <2>1 DEF AreBoxes, BoxNames
  <2>3. Belongs(v, Subclasses, f.class)
    BY <2>1 DEF Belongs
  <2> QED
    BY <1>1, <2>2, <2>3, WhatFits DEF BoxNames
<1>6. CASE \E n \in Levels : g = [f EXCEPT !["level"] = n]
  <2>1. PICK n \in Levels : g = [f EXCEPT !["level"] = n]
    BY <1>6
  <2>2. n \in 1 .. 20 /\ n \in Int
    BY SheetTabAssumption
  <2>3. AreBoxes(g) /\ g.level = n /\ \A y \in BoxNames \ {"level"} : g[y] = f[y]
    BY <2>1, <2>2 DEF AreBoxes, BoxNames
  <2> QED
    BY <1>1, <2>2, <2>3, WhatFits DEF BoxNames
<1> QED
  BY <1>2, <1>3, <1>4, <1>5, <1>6 DEF Chosen

-----------------------------------------------------------------------------
(* Making a character *)

(* A spell of the sheet's class, that there are slots for. *)
MayKnow(sheet, s) ==
  /\ s \in SpellsFor(sheet.class)
  /\ Spells[s].level = 0 \/ \E n \in DOMAIN SpellSlots(sheet) : Spells[s].level <= n

ClassSkills(sheet) ==
  sheet.skills \subseteq Offered(sheet.class) /\ Cardinality(sheet.skills) = Allowed(sheet.class)

(* What each page may count on: ChosenAsTheClassAllows is the last of it.  *)
WizardInv ==
  /\ page = "skills" => ticks \subseteq Offered(held.class)
  /\ page \in {"spells", "review"} => ClassSkills(held)
  /\ page = "spells" => \A s \in ticks : MayKnow(held, s)
  /\ page = "review" /\ IsCaster(held.class) => \A s \in held.known : MayKnow(held, s)

(* Whatever is open is legal but for its hit dice, with the boxes and      *)
(* without.                                                                *)
SheetsAreLegal ==
  /\ AreBoxes(boxes)
  /\ page # "tab" \/ held # None => Legal(held) /\ Legal(Gather(held, boxes))
  /\ OpenTab => Legal(stored)
  /\ stored # None => Legal(stored)

TabInv == WizardInv /\ SheetsAreLegal

LEMMA SameClassSameSpells ==
  ASSUME NEW s, NEW t, s.class = t.class, s.level = t.level, NEW x, MayKnow(s, x)
  PROVE  MayKnow(t, x)
<1>1. SpellSlots(s) = SpellSlots(t)
  BY DEF SpellSlots
<1> QED
  BY <1>1 DEF MayKnow

LEMMA OfferedAreSkills ==
  ASSUME NEW class
  PROVE  Offered(class) \subseteq DOMAIN Skills
BY RulesAssumption DEF Offered

LEMMA ANewSheetIsLegal ==
  Legal(NewSheet) /\ AreBoxes(Blank) /\ Legal(Gather(NewSheet, Blank))
<1>1. IsSheet(NewSheet) /\ AreBoxes(Blank)
  <2>1. DOMAIN NewSheet = SheetFields /\ NewSheet = [x \in SheetFields |-> NewSheet[x]]
    BY DEF NewSheet, SheetFields
  <2>2. IsSheet(NewSheet)
    <3>1. /\ NewSheet.level = 1 /\ NewSheet.abilities = [a \in Ability |-> 10]
          /\ NewSheet.improvements = [a \in Ability |-> 0]
      BY DEF NewSheet
    <3> QED
      BY <2>1, <3>1 DEF IsSheet
  <2>3. DOMAIN Blank = BoxNames /\ Blank = [x \in BoxNames |-> Blank[x]]
    BY DEF Blank, BoxNames
  <2>4. AreBoxes(Blank)
    <3>1. Blank.level = 1 /\ Blank.abilities = [a \in Ability |-> 10]
      BY DEF Blank
    <3> QED
      BY <2>3, <3>1 DEF AreBoxes
  <2> QED
    BY <2>2, <2>4
<1>2. SumFunction(NewSheet.improvements) = 0
  BY NothingAddsUpToNothing DEF NewSheet
<1>3. Legal(NewSheet)
  BY <1>1, <1>2, WhatIsLegal DEF NewSheet, Belongs
<1>4. Legal(Gather(NewSheet, Blank))
  BY <1>1, <1>2, WhatFits DEF Blank, Belongs
<1> QED
  BY <1>1, <1>3, <1>4

LEMMA TabBegins ==
  TabInit => TabInv
<1> SUFFICES ASSUME TabInit PROVE TabInv
  OBVIOUS
<1>1. WizardInv
  BY DEF TabInit, WizardInv
<1>2. SheetsAreLegal
  <2>1. \A s \in Samples : Legal(s)
    BY SheetTabAssumption DEF Legal
  <2> QED
    BY <2>1, ANewSheetIsLegal DEF TabInit, SheetsAreLegal, OpenTab
<1> QED
  BY <1>1, <1>2 DEF TabInv

(* A step of the wizard that leaves the sheet and the boxes alone, or puts *)
(* a legal sheet in their place.                                           *)
LEMMA LegalPage ==
  ASSUME SheetsAreLegal, AreBoxes(boxes'), Legal(held'), Legal(Gather(held', boxes')),
         page' # "tab", UNCHANGED stored
  PROVE  SheetsAreLegal'
BY DEF SheetsAreLegal, OpenTab

LEMMA BasicsKeep ==
  ASSUME TabInv, ChooseBasics \/ NextFromBasics
  PROVE  TabInv'
<1>0. page = "basics" /\ UNCHANGED stored
  BY DEF ChooseBasics, NextFromBasics, Writing
<1>1. AreBoxes(boxes) /\ Legal(held) /\ Legal(Gather(held, boxes)) /\ IsSheet(held)
  BY <1>0 DEF TabInv, SheetsAreLegal, Legal
<1>2. CASE ChooseBasics
  <2>1. UNCHANGED <<page, held>> /\ boxes' \in Chosen(boxes)
    BY <1>2 DEF ChooseBasics
  <2>2. AreBoxes(boxes') /\ Legal(Gather(held', boxes')) /\ Legal(held')
    BY <1>1, <2>1, ChosenFits
  <2>3. SheetsAreLegal'
    BY <1>0, <2>1, <2>2, LegalPage DEF TabInv
  <2>4. WizardInv'
    BY <1>0, <2>1 DEF WizardInv
  <2> QED
    BY <2>3, <2>4 DEF TabInv
<1>3. CASE NextFromBasics
  <2>1. /\ page' = "abilities" /\ UNCHANGED boxes
        /\ held' = [held EXCEPT !.species = boxes.species, !.subspecies = boxes.subspecies,
                                !.class = boxes.class, !.subclass = boxes.subclass,
                                !.level = boxes.level]
    BY <1>3 DEF NextFromBasics
  <2>2. boxes.level \in Int
    BY <1>1 DEF AreBoxes
  <2>3. /\ IsSheet(held')
        /\ held'.species = boxes.species /\ held'.subspecies = boxes.subspecies
        /\ held'.class = boxes.class /\ held'.subclass = boxes.subclass
        /\ held'.level = boxes.level
        /\ \A y \in {"abilities", "improvements", "skills"} : held'[y] = held[y]
    BY <1>1, <2>1, <2>2, FieldsOfASheet DEF IsSheet, SheetFields
  <2>4. Legal(held') /\ Legal(Gather(held', boxes'))
    BY <1>1, <2>1, <2>3, WhatIsLegal, WhatFits
  <2>5. SheetsAreLegal'
    BY <1>0, <1>1, <2>1, <2>4, LegalPage DEF TabInv
  <2>6. WizardInv'
    BY <2>1 DEF WizardInv
  <2> QED
    BY <2>5, <2>6 DEF TabInv
<1> QED
  BY <1>2, <1>3

LEMMA AbilitiesKeep ==
  ASSUME TabInv, ChooseScores \/ NextFromAbilities
  PROVE  TabInv'
<1>0. page = "abilities" /\ UNCHANGED stored
  BY DEF ChooseScores, NextFromAbilities, Writing
<1>1. AreBoxes(boxes) /\ Legal(held) /\ Legal(Gather(held, boxes)) /\ IsSheet(held)
  BY <1>0 DEF TabInv, SheetsAreLegal, Legal
<1>2. CASE ChooseScores
  <2>1. UNCHANGED <<page, held>>
    BY <1>2 DEF ChooseScores
  <2>2. PICK s \in Scores, low \in {1, 8}, high \in {15, 20} :
          boxes' = [boxes EXCEPT !.abilities = [a \in Ability |-> Higher(low, Lower(high, s[a]))]]
    BY <1>2 DEF ChooseScores
  <2> DEFINE scores == [a \in Ability |-> Higher(low, Lower(high, s[a]))]
  <2>3. scores \in [Ability -> Int] /\ \A a \in Ability : scores[a] \in 1 .. 30
    <3>1. s \in [Ability -> Int]
      BY SheetTabAssumption
    <3> QED
      BY <3>1 DEF Higher, Lower
  <2>4. boxes' = [boxes EXCEPT !.abilities = scores]
    BY <2>2
  <2> HIDE DEF scores
  <2>5. AreBoxes(boxes') /\ boxes'.abilities = scores
        /\ \A y \in BoxNames \ {"abilities"} : boxes'[y] = boxes[y]
    BY <1>1, <2>3, <2>4 DEF AreBoxes, BoxNames
  <2>6. Legal(Gather(held', boxes'))
    BY <1>1, <2>1, <2>3, <2>5, WhatFits DEF BoxNames
  <2>7. SheetsAreLegal'
    BY <1>0, <1>1, <2>1, <2>5, <2>6, LegalPage DEF TabInv
  <2>8. WizardInv'
    BY <1>0, <2>1 DEF WizardInv
  <2> QED
    BY <2>7, <2>8 DEF TabInv
<1>3. CASE NextFromAbilities
  <2>1. /\ page' = "skills" /\ ticks' = {} /\ UNCHANGED boxes
        /\ held' = [held EXCEPT !.abilities = boxes.abilities]
    BY <1>3 DEF NextFromAbilities, TurnTo
  <2>2. /\ IsSheet(held') /\ held'.abilities = boxes.abilities
        /\ \A y \in SheetFields \ {"abilities"} : held'[y] = held[y]
    BY <1>1, <2>1, FieldsOfASheet DEF IsSheet, SheetFields, AreBoxes
  <2>3. Legal(held') /\ Legal(Gather(held', boxes'))
    BY <1>1, <2>1, <2>2, WhatIsLegal, WhatFits DEF SheetFields
  <2>4. SheetsAreLegal'
    BY <1>1, <2>1, <2>3, <1>0, LegalPage DEF TabInv
  <2>5. WizardInv'
    BY <2>1 DEF WizardInv
  <2> QED
    BY <2>4, <2>5 DEF TabInv
<1> QED
  BY <1>2, <1>3

LEMMA SkillsKeep ==
  ASSUME TabInv, TickSkill \/ NextFromSkills
  PROVE  TabInv'
<1>0. page = "skills" /\ UNCHANGED <<stored, boxes>>
  BY DEF TickSkill, NextFromSkills, Writing
<1>1. /\ AreBoxes(boxes) /\ Legal(held) /\ Legal(Gather(held, boxes)) /\ IsSheet(held)
      /\ ticks \subseteq Offered(held.class)
  BY <1>0 DEF TabInv, SheetsAreLegal, WizardInv, Legal
<1>2. CASE TickSkill
  <2>1. UNCHANGED <<page, held>> /\ ticks' \subseteq Offered(held.class)
    BY <1>1, <1>2 DEF TickSkill
  <2>2. SheetsAreLegal'
    BY <1>0, <1>1, <2>1, LegalPage DEF TabInv
  <2>3. WizardInv'
    BY <1>0, <2>1 DEF WizardInv
  <2> QED
    BY <2>2, <2>3 DEF TabInv
<1>3. CASE NextFromSkills
  <2>1. /\ held' = [held EXCEPT !.skills = ticks] /\ ticks' = {}
        /\ page' \in {"spells", "review"} /\ (page' = "review" => ~ IsCaster(held.class))
        /\ Cardinality(ticks) = Allowed(held.class)
    BY <1>3 DEF NextFromSkills, TurnTo
  <2>2. /\ IsSheet(held') /\ held'.skills = ticks
        /\ \A y \in SheetFields \ {"skills"} : held'[y] = held[y]
    BY <1>1, <2>1, FieldsOfASheet DEF IsSheet, SheetFields
  <2>3. ticks \subseteq DOMAIN Skills /\ held'.class = held.class
    BY <1>1, <2>2, OfferedAreSkills DEF SheetFields
  <2>4. Legal(held') /\ Legal(Gather(held', boxes'))
    BY <1>0, <1>1, <2>2, <2>3, WhatIsLegal, WhatFits DEF SheetFields
  <2>5. SheetsAreLegal'
    BY <1>0, <1>1, <2>1, <2>4, LegalPage DEF TabInv
  <2>6. WizardInv'
    BY <1>1, <2>1, <2>2, <2>3 DEF WizardInv, ClassSkills
  <2> QED
    BY <2>5, <2>6 DEF TabInv
<1> QED
  BY <1>2, <1>3

LEMMA SpellsKeep ==
  ASSUME TabInv, TickSpell \/ NextFromSpells
  PROVE  TabInv'
<1>0. page = "spells" /\ UNCHANGED <<stored, boxes>>
  BY DEF TickSpell, NextFromSpells, Writing
<1>1. /\ AreBoxes(boxes) /\ Legal(held) /\ Legal(Gather(held, boxes)) /\ IsSheet(held)
      /\ ClassSkills(held) /\ \A s \in ticks : MayKnow(held, s)
  BY <1>0 DEF TabInv, SheetsAreLegal, WizardInv, Legal
<1>2. CASE TickSpell
  <2>1. PICK s \in SpellsFor(held.class) :
          /\ \A n \in 1 .. Spells[s].level : \E m \in DOMAIN SpellSlots(held) : n <= m
          /\ ticks' = (ticks \ {s}) \cup ({s} \ ticks)
    BY <1>2 DEF TickSpell
  <2>2. UNCHANGED <<page, held>>
    BY <1>2 DEF TickSpell
  <2>3. MayKnow(held, s)
    <3>1. Spells[s].level \in Nat
      BY RulesAssumption DEF SpellsFor
    <3>2. Spells[s].level = 0 \/ Spells[s].level \in 1 .. Spells[s].level
      BY <3>1
    <3> QED
      BY <2>1, <3>2 DEF MayKnow
  <2>4. SheetsAreLegal'
    BY <1>0, <1>1, <2>2, LegalPage DEF TabInv
  <2>5. \A x \in ticks' : MayKnow(held, x)
    BY <1>1, <2>1, <2>3
  <2>6. WizardInv'
    BY <1>0, <1>1, <2>2, <2>5 DEF WizardInv
  <2> QED
    BY <2>4, <2>6 DEF TabInv
<1>3. CASE NextFromSpells
  <2>1. /\ held' = [held EXCEPT !.known = ticks, !.prepared = ticks]
        /\ page' = "review"
    BY <1>3 DEF NextFromSpells, TurnTo
  <2>2. /\ IsSheet(held') /\ held'.known = ticks
        /\ \A y \in SheetFields \ {"known", "prepared"} : held'[y] = held[y]
    BY <1>1, <2>1, FieldsOfASheet DEF IsSheet, SheetFields
  <2>3. held'.class = held.class /\ held'.level = held.level /\ held'.skills = held.skills
    BY <2>2 DEF SheetFields
  <2>4. Legal(held') /\ Legal(Gather(held', boxes'))
    BY <1>0, <1>1, <2>2, WhatIsLegal, WhatFits DEF SheetFields
  <2>5. SheetsAreLegal'
    BY <1>0, <1>1, <2>1, <2>4, LegalPage DEF TabInv
  <2>6. \A x \in held'.known : MayKnow(held', x)
    BY <1>1, <2>2, <2>3, SameClassSameSpells
  <2>7. WizardInv'
    BY <1>1, <2>1, <2>3, <2>6 DEF WizardInv, ClassSkills
  <2> QED
    BY <2>5, <2>7 DEF TabInv
<1> QED
  BY <1>2, <1>3

LEMMA BackKeeps ==
  ASSUME TabInv, Back
  PROVE  TabInv'
<1>1. page \in {"abilities", "skills", "spells", "review"} /\ UNCHANGED <<stored, boxes, held>>
  BY DEF Back
<1>2. /\ AreBoxes(boxes) /\ Legal(held) /\ Legal(Gather(held, boxes))
  BY <1>1 DEF TabInv, SheetsAreLegal
<1>3. \/ page = "abilities" /\ page' = "basics"
      \/ page = "skills" /\ page' = "abilities"
      \/ page = "review" /\ IsCaster(held.class) /\ page' = "spells" /\ ticks' = held.known
      \/ page \in {"review", "spells"} /\ page' = "skills" /\ ticks' = held.skills
  BY DEF Back
<1>4. SheetsAreLegal'
  BY <1>1, <1>2, <1>3, LegalPage DEF TabInv
<1>5. WizardInv'
  BY <1>1, <1>3 DEF TabInv, WizardInv, ClassSkills
<1> QED
  BY <1>4, <1>5 DEF TabInv

-----------------------------------------------------------------------------
(* The tab *)

(* On the tab the wizard has nothing to say. *)
LEMMA LegalTab ==
  ASSUME AreBoxes(boxes'), Legal(held'), Legal(Gather(held', boxes')),
         page' = "tab", Legal(stored')
  PROVE  TabInv'
BY DEF TabInv, SheetsAreLegal, WizardInv

LEMMA OpenIsLegal ==
  ASSUME TabInv, OnTab
  PROVE  /\ page' = "tab" /\ AreBoxes(boxes) /\ Legal(held) /\ IsSheet(held)
         /\ Legal(Gather(held, boxes)) /\ Legal(stored)
BY DEF TabInv, SheetsAreLegal, OnTab, OpenTab, Legal

(* hit points, what is carried, known and prepared are nobody's business.  *)
LEMMA FreelyChanged ==
  ASSUME NEW s, Legal(s), NEW t, DOMAIN t = SheetFields, t = [x \in SheetFields |-> t[x]],
         \A y \in SheetFields \ {"hp", "equipment", "known", "prepared"} : t[y] = s[y]
  PROVE  /\ Legal(t)
         /\ \A f : AreBoxes(f) /\ Legal(Gather(s, f)) => Legal(Gather(t, f))
<1>1. IsSheet(s)
  BY DEF Legal
<1>2. /\ t.level = s.level /\ t.abilities = s.abilities /\ t.improvements = s.improvements
      /\ t.species = s.species /\ t.class = s.class /\ t.subspecies = s.subspecies
      /\ t.subclass = s.subclass /\ t.skills = s.skills
  BY DEF SheetFields
<1>3. IsSheet(t)
  BY <1>1, <1>2, FieldsOfASheet DEF IsSheet
<1> QED
  BY <1>1, <1>2, <1>3, WhatIsLegal, WhatFits

(* What is worked out again on the tab, of boxes that fit. *)
LEMMA RefreshedFits ==
  ASSUME TabInv, OnTab, UNCHANGED stored, NEW f, AreBoxes(f), Legal(held'), Legal(Gather(held', f)),
         \E m, o : Refresh(held', f, m, o)
  PROVE  TabInv'
<1>1. AreBoxes(boxes') /\ Alike(f, boxes')
  BY RefreshedAlike
<1>2. Legal(Gather(held', boxes'))
  BY <1>1, AlikeFitsAlike DEF Legal
<1> QED
  BY <1>1, <1>2, OpenIsLegal, LegalTab

LEMMA LoadingKeeps ==
  ASSUME NEW s, Legal(s), Load(s), page' = "tab", Legal(stored')
  PROVE  TabInv'
BY LoadedFits, LegalTab

LEMMA FinishKeeps ==
  ASSUME TabInv, Finish
  PROVE  TabInv'
<1>1. page = "review" /\ page' = "tab" /\ stored' = Finished /\ Load(Finished)
  BY DEF Finish
<1>2. Legal(held) /\ IsSheet(held)
  BY <1>1 DEF TabInv, SheetsAreLegal, Legal
<1>3. /\ DOMAIN Finished = SheetFields /\ Finished = [x \in SheetFields |-> Finished[x]]
      /\ \A y \in SheetFields \ {"hp", "equipment", "known", "prepared"} : Finished[y] = held[y]
  BY <1>2, FieldsOfASheet DEF Finished, IsSheet, SheetFields
<1>4. Legal(Finished)
  BY <1>2, <1>3, FreelyChanged
<1> QED
  BY <1>1, <1>4, LoadingKeeps

LEMMA CreateSheetKeeps ==
  ASSUME TabInv, CreateSheet
  PROVE  TabInv'
BY ANewSheetIsLegal, LoadingKeeps DEF CreateSheet

LEMMA ChooseKeeps ==
  ASSUME TabInv, Choose
  PROVE  TabInv'
BY LoadingKeeps DEF Choose, TabInv, SheetsAreLegal

LEMMA SaveKeeps ==
  ASSUME TabInv, Save
  PROVE  TabInv'
<1>1. /\ OnTab /\ stored' = Gather(held, boxes) /\ Load(Gather(held, boxes))
  BY DEF Save
<1> QED
  BY <1>1, OpenIsLegal, LoadingKeeps

LEMMA HurtKeeps ==
  ASSUME TabInv, Hurt
  PROVE  TabInv'
<1>1. PICK n : OnTab /\ stored' = [stored EXCEPT !.hp = n] /\ Load([stored EXCEPT !.hp = n])
  BY DEF Hurt
<1>2. Legal(stored) /\ IsSheet(stored) /\ page' = "tab"
  BY <1>1, OpenIsLegal DEF Legal
<1> DEFINE hurt == [stored EXCEPT !.hp = n]
<1>3. /\ DOMAIN hurt = SheetFields /\ hurt = [x \in SheetFields |-> hurt[x]]
      /\ \A y \in SheetFields \ {"hp"} : hurt[y] = stored[y]
  BY <1>2, FieldsOfASheet DEF IsSheet, SheetFields
<1>4. stored' = hurt /\ Load(hurt)
  BY <1>1
<1> HIDE DEF hurt
<1>5. Legal(hurt)
  BY <1>2, <1>3, FreelyChanged
<1> QED
  BY <1>2, <1>4, <1>5, LoadingKeeps

LEMMA EditKeeps ==
  ASSUME TabInv, Edit
  PROVE  TabInv'
<1>1. OnTab /\ UNCHANGED <<held, stored>>
  BY DEF Edit
<1>2. AreBoxes(boxes) /\ Legal(held) /\ IsSheet(held) /\ Legal(Gather(held, boxes))
  BY <1>1, OpenIsLegal
<1>3. PICK f \in Chosen(boxes)
              \cup {[boxes EXCEPT !.abilities = WithScore(@, t)] : t \in Touches}
              \cup {[boxes EXCEPT !.skills = (@ \ {s}) \cup ({s} \ @)] : s \in SkillsTried} :
           Refresh(held, f, lastMax, picker)
  BY DEF Edit, Changed
<1>4. /\ boxes.level \in 1 .. 20
      /\ \A a \in Ability : boxes.abilities[a] \in 1 .. 30
      /\ ~ (SumFunction(held.improvements) > 12)
      /\ boxes.species \in DOMAIN Races \cup {None}
      /\ boxes.class \in DOMAIN Classes \cup {None}
      /\ Belongs(boxes.subspecies, Subraces, boxes.species)
      /\ Belongs(boxes.subclass, Subclasses, boxes.class)
      /\ boxes.skills \subseteq DOMAIN Skills
  BY <1>2, WhatFits
<1>5. AreBoxes(f) /\ Legal(Gather(held, f))
  <2>1. CASE f \in Chosen(boxes)
    BY <1>2, <2>1, ChosenFits
  <2>2. ASSUME NEW t \in Touches, f = [boxes EXCEPT !.abilities = WithScore(@, t)]
        PROVE  AreBoxes(f) /\ Legal(Gather(held, f))
    <3> DEFINE scores == WithScore(boxes.abilities, t)
    <3>1. scores \in [Ability -> Int] /\ \A a \in Ability : scores[a] \in 1 .. 30
      <4>1. DOMAIN t \subseteq Ability /\ \A a \in DOMAIN t : t[a] \in 1 .. 30
        BY SheetTabAssumption
      <4>2. boxes.abilities \in [Ability -> Int]
        BY <1>2 DEF AreBoxes
      <4> QED
        BY <1>4, <4>1, <4>2 DEF WithScore
    <3>2. f = [boxes EXCEPT !.abilities = scores]
      BY <2>2
    <3> HIDE DEF scores
    <3>3. /\ AreBoxes(f) /\ f.abilities = scores
          /\ \A y \in BoxNames \ {"abilities"} : f[y] = boxes[y]
      BY <1>2, <3>1, <3>2 DEF AreBoxes, BoxNames
    <3> QED
      BY <1>2, <1>4, <3>1, <3>3, WhatFits DEF BoxNames
  <2>3. ASSUME NEW s \in SkillsTried, f = [boxes EXCEPT !.skills = (@ \ {s}) \cup ({s} \ @)]
        PROVE  AreBoxes(f) /\ Legal(Gather(held, f))
    <3>1. /\ AreBoxes(f) /\ f.skills \subseteq boxes.skills \cup {s}
          /\ \A y \in BoxNames \ {"skills"} : f[y] = boxes[y]
      BY <1>2, <2>3 DEF AreBoxes, BoxNames
    <3>2. f.skills \subseteq DOMAIN Skills
      BY <1>4, <3>1, SheetTabAssumption
    <3> QED
      BY <1>2, <1>4, <3>1, <3>2, WhatFits DEF BoxNames
  <2> QED
    BY <1>3, <2>1, <2>2, <2>3
<1> QED
  BY <1>1, <1>2, <1>3, <1>5, RefreshedFits

LEMMA TypeHitPointsKeeps ==
  ASSUME TabInv, TypeHitPoints
  PROVE  TabInv'
<1>1. OnTab /\ UNCHANGED <<held, stored>>
  BY DEF TypeHitPoints
<1>2. AreBoxes(boxes) /\ Legal(held) /\ IsSheet(held) /\ Legal(Gather(held, boxes))
  BY <1>1, OpenIsLegal
<1>3. PICK n : Refresh(held, [boxes EXCEPT !.hp = n], lastMax, picker)
  BY DEF TypeHitPoints, Changed
<1>4. AreBoxes([boxes EXCEPT !.hp = n]) /\ Alike(boxes, [boxes EXCEPT !.hp = n])
  BY <1>2 DEF AreBoxes, Alike, BoxNames
<1> QED
  BY <1>1, <1>2, <1>3, <1>4, AlikeFitsAlike, RefreshedFits

LEMMA PrepareKeeps ==
  ASSUME TabInv, Prepare
  PROVE  TabInv'
<1>1. OnTab /\ UNCHANGED <<held, stored>>
  BY DEF Prepare
<1>2. AreBoxes(boxes) /\ Legal(held) /\ IsSheet(held) /\ Legal(Gather(held, boxes))
  BY <1>1, OpenIsLegal
<1>3. PICK p : Refresh(held, [boxes EXCEPT !.prepared = p], lastMax, picker)
  BY DEF Prepare, Changed
<1>4. AreBoxes([boxes EXCEPT !.prepared = p]) /\ Alike(boxes, [boxes EXCEPT !.prepared = p])
  BY <1>2 DEF AreBoxes, Alike, BoxNames
<1> QED
  BY <1>1, <1>2, <1>3, <1>4, AlikeFitsAlike, RefreshedFits

(* A sheet carrying something else, or knowing something else, under the   *)
(* same boxes or with other spells ticked.                                 *)
LEMMA ReplacedKeeps ==
  ASSUME TabInv, OnTab, UNCHANGED stored, NEW f, AreBoxes(f), Alike(boxes, f),
         DOMAIN held' = SheetFields, held' = [x \in SheetFields |-> held'[x]],
         \A y \in SheetFields \ {"equipment", "known", "prepared"} : held'[y] = held[y],
         \E m, o : Refresh(held', f, m, o)
  PROVE  TabInv'
<1>1. AreBoxes(boxes) /\ Legal(held) /\ IsSheet(held) /\ Legal(Gather(held, boxes))
  BY OpenIsLegal
<1>2. Legal(held') /\ Legal(Gather(held', boxes))
  BY <1>1, FreelyChanged
<1>3. Legal(Gather(held', f))
  BY <1>1, <1>2, AlikeFitsAlike DEF Legal
<1> QED
  BY <1>2, <1>3, RefreshedFits

LEMMA CarryKeeps ==
  ASSUME TabInv, Carry
  PROVE  TabInv'
<1>1. OnTab /\ UNCHANGED stored /\ Refresh(held', boxes, lastMax, picker)
  BY DEF Carry, Changed
<1>2. AreBoxes(boxes) /\ IsSheet(held) /\ Alike(boxes, boxes)
  BY <1>1, OpenIsLegal DEF Alike
<1>3. \E e : held' = [held EXCEPT !.equipment = e]
  BY DEF Carry
<1>4. /\ DOMAIN held' = SheetFields /\ held' = [x \in SheetFields |-> held'[x]]
      /\ \A y \in SheetFields \ {"equipment"} : held'[y] = held[y]
  BY <1>2, <1>3, FieldsOfASheet DEF IsSheet, SheetFields
<1> QED
  BY <1>1, <1>2, <1>4, ReplacedKeeps

LEMMA SpellbookKeeps ==
  ASSUME TabInv, Learn \/ Forget
  PROVE  TabInv'
<1>1. OnTab /\ UNCHANGED stored /\ \E m, o : Refresh(held', Relisted(held'), m, o)
  BY DEF Learn, Forget
<1>2. AreBoxes(boxes) /\ IsSheet(held)
  BY <1>1, OpenIsLegal
<1>3. AreBoxes(Relisted(held')) /\ Alike(boxes, Relisted(held'))
  BY <1>2 DEF AreBoxes, Alike, BoxNames, Relisted
<1>4. \E k, p : held' = [held EXCEPT !.known = k, !.prepared = p]
  <2>1. CASE Learn
    <3>1. PICK k : held' = [held EXCEPT !.known = k]
      BY <2>1 DEF Learn
    <3>2. held' = [held EXCEPT !.known = k, !.prepared = held.prepared]
      BY <1>2, <3>1, FieldsOfASheet DEF IsSheet, SheetFields
    <3> QED
      BY <3>2
  <2>2. CASE Forget
    BY <2>2 DEF Forget, Forgotten
  <2> QED
    BY <2>1, <2>2
<1>5. /\ DOMAIN held' = SheetFields /\ held' = [x \in SheetFields |-> held'[x]]
      /\ \A y \in SheetFields \ {"known", "prepared"} : held'[y] = held[y]
  BY <1>2, <1>4, FieldsOfASheet DEF IsSheet, SheetFields
<1> QED
  BY <1>1, <1>3, <1>5, ReplacedKeeps

LEMMA TabStep ==
  TabInv /\ [TabNext]_tabVars => TabInv'
<1> SUFFICES ASSUME TabInv, [TabNext]_tabVars PROVE TabInv'
  OBVIOUS
<1>1. CASE Making
  BY <1>1, BasicsKeep, AbilitiesKeep, SkillsKeep, SpellsKeep, BackKeeps, FinishKeeps DEF Making
<1>2. CASE Editing
  BY <1>2, ChooseKeeps, CreateSheetKeeps, EditKeeps, TypeHitPointsKeeps, PrepareKeeps, CarryKeeps,
     SpellbookKeeps, SaveKeeps, HurtKeeps DEF Editing
<1>3. CASE UNCHANGED tabVars
  BY <1>3 DEF tabVars, wizard, TabInv, WizardInv, SheetsAreLegal, OpenTab
<1> QED
  BY <1>1, <1>2, <1>3 DEF TabNext

(* Whatever is open, on a page of the wizard or on the tab, is a legal      *)
(* sheet but for its hit dice, as it was loaded and as the boxes have it,   *)
(* and what is ticked on a page fits the class (_gather, initializePage).   *)
THEOREM TabHolds == TabSpec => []TabInv
<1> QED
  BY TabBegins, TabStep, PTL DEF TabSpec

(* However the boxes are touched, the tab refuses nothing but hit dice that *)
(* were rolled at levels since taken away (validate, _on_class_changed).    *)
THEOREM TheTabRefusesOnlyRolls == TabSpec => []OnlyRollsAreRefused
<1>1. TabInv => OnlyRollsAreRefused
  BY DEF TabInv, SheetsAreLegal, OpenTab, OnlyRollsAreRefused, Legal
<1> QED
  BY TabHolds, <1>1, PTL

(* A character leaves the wizard with skills and spells of its own class,   *)
(* however often pages were gone back to (initializePage, nextId).          *)
THEOREM TheWizardChoosesAsTheClassAllows == TabSpec => []ChosenAsTheClassAllows
<1>1. TabInv => ChosenAsTheClassAllows
  BY DEF TabInv, WizardInv, ClassSkills, MayKnow, ChosenAsTheClassAllows
<1> QED
  BY TabHolds, <1>1, PTL

-----------------------------------------------------------------------------
(* Blows *)

LEMMA BonusesAreNumbers ==
  ASSUME NEW s, IsSheet(s), NEW w
  PROVE  DamageBonus(s, w) \in Int /\ AttackBonus(s, w) \in Int
<1>1. ASSUME NEW a \in Ability
      PROVE  Mod(s, a) \in Int
  <2>1. Added(Races, s.species, a) \in Int /\ Added(Subraces, s.subspecies, a) \in Int
    BY RulesAssumption DEF Added
  <2>2. s.abilities[a] \in Int /\ s.improvements[a] \in Int
    BY DEF IsSheet
  <2>3. Score(s, a) \in Int
    BY <2>1, <2>2 DEF Score
  <2> QED
    BY <2>3 DEF Mod, Modifier
<1>2. Mod(s, "str") \in Int /\ Mod(s, "dex") \in Int
  BY <1>1 DEF Ability
<1>3. DamageBonus(s, w) \in Int
  BY <1>2 DEF DamageBonus, Higher
<1>4. ProficiencyBonus(s.level) \in Int
  BY DEF IsSheet, ProficiencyBonus, Higher, Lower
<1> QED
  BY <1>3, <1>4 DEF AttackBonus

(* A one and a twenty aside, a blow hits from the number that reaches the  *)
(* armour upwards.                                                         *)
LEMMA HowManyHit ==
  ASSUME NEW bonus \in Int, NEW ac \in Int
  PROVE  Cardinality({n \in 1 .. 20 : n = 20 \/ (n # 1 /\ n + bonus >= ac)})
           = Higher(1, Lower(19, 21 + bonus - ac))
<1> DEFINE hits == {n \in 1 .. 20 : n = 20 \/ (n # 1 /\ n + bonus >= ac)}
           first == ac - bonus
<1>0. first \in Int
  OBVIOUS
<1>1. \A a \in 2 .. 20 : Cardinality(a .. 20) = 21 - a
  BY FS_Interval
<1>2. 21 + bonus - ac = 21 - first
  OBVIOUS
<1>3. CASE first >= 20
  <2>1. hits = 20 .. 20
    BY <1>3
  <2>2. Higher(1, Lower(19, 21 - first)) = 1
    BY <1>0, <1>3 DEF Higher, Lower
  <2> HIDE DEF hits, first
  <2>3. Cardinality(hits) = 1
    BY <1>1, <2>1
  <2> QED
    BY <1>2, <2>2, <2>3 DEF hits
<1>4. CASE first <= 2
  <2>1. hits = 2 .. 20
    BY <1>4
  <2>2. Higher(1, Lower(19, 21 - first)) = 19
    BY <1>0, <1>4 DEF Higher, Lower
  <2> HIDE DEF hits, first
  <2>3. Cardinality(hits) = 19
    BY <1>1, <2>1
  <2> QED
    BY <1>2, <2>2, <2>3 DEF hits
<1>5. CASE first \in 3 .. 19
  <2>1. hits = first .. 20
    BY <1>5
  <2>2. Higher(1, Lower(19, 21 - first)) = 21 - first
    BY <1>0, <1>5 DEF Higher, Lower
  <2> HIDE DEF hits, first
  <2>3. Cardinality(hits) = 21 - first
    <3>1. first \in 2 .. 20
      BY <1>0, <1>5
    <3>2. Cardinality(first .. 20) = 21 - first
      BY <1>1, <3>1
    <3> QED
      BY <2>1, <3>2
  <2> QED
    BY <1>2, <2>2, <2>3 DEF hits
<1> QED
  BY <1>0, <1>3, <1>4, <1>5

LEMMA OneBlowIsFair ==
  ASSUME NEW s, IsSheet(s), NEW w \in Weapons(s), NEW ac \in Int
  PROVE  LET hits == {n \in 1 .. 20 : Hits(s, w, ac, n)}
             worst == Higher(1, DamageBonus(s, w) + 2 * Gear[w].count * Gear[w].sides)
         IN /\ Cardinality(hits) = Higher(1, Lower(19, 21 + AttackBonus(s, w) - ac))
            /\ \A n \in 1 .. 20 :
                 IF n \in hits THEN 0 \notin Damage(s, w, ac, n) ELSE Damage(s, w, ac, n) = {0}
            /\ IsDice(2 * Gear[w].count, Gear[w].sides) =>
                 worst \in Damage(s, w, ac, 20) /\ worst + 1 \notin Damage(s, w, ac, 20)
<1> DEFINE d == DamageBonus(s, w)
           b == AttackBonus(s, w)
           c == Gear[w].count
           m == Gear[w].sides
           hits == {n \in 1 .. 20 : Hits(s, w, ac, n)}
           worst == Higher(1, d + 2 * c * m)
<1>1. d \in Int /\ b \in Int
  BY BonusesAreNumbers
<1>2. c \in Nat /\ m \in Nat
  BY RulesAssumption DEF Weapons
<1>3. Cardinality(hits) = Higher(1, Lower(19, 21 + b - ac))
  <2>1. hits = {n \in 1 .. 20 : n = 20 \/ (n # 1 /\ n + b >= ac)}
    BY DEF Hits
  <2> HIDE DEF b
  <2> QED
    BY <1>1, <2>1, HowManyHit
<1>4. ASSUME NEW n \in 1 .. 20
      PROVE  IF n \in hits THEN 0 \notin Damage(s, w, ac, n) ELSE Damage(s, w, ac, n) = {0}
  <2>1. CASE n \notin hits
    BY <2>1 DEF Damage
  <2>2. CASE n \in hits
    <3> DEFINE count == IF n = 20 THEN 2 * c ELSE c
    <3>1. Damage(s, w, ac, n) = {Higher(1, r + d) : r \in Rolled(count, m)}
      BY <2>2 DEF Damage
    <3>2. count \in Int /\ count * m \in Int
      BY <1>2
    <3> HIDE DEF d, m, count
    <3>3. \A r \in Rolled(count, m) : Higher(1, r + d) >= 1
      BY <1>1, <3>2 DEF Rolled, Higher
    <3> QED
      BY <2>2, <3>1, <3>3
  <2> QED
    BY <2>1, <2>2
<1>5. ASSUME IsDice(2 * c, m)
      PROVE  worst \in Damage(s, w, ac, 20) /\ worst + 1 \notin Damage(s, w, ac, 20)
  <2> DEFINE most == 2 * c * m
  <2>1. Damage(s, w, ac, 20) = {Higher(1, r + d) : r \in (2 * c) .. most}
    BY <1>5 DEF Damage, Hits, Rolled
  <2>2. most \in Int /\ 2 * c \in Int /\ 2 * c <= most
    <3>1. \A k, n \in Nat \ {0} : k * n \in Int /\ k <= k * n
      OBVIOUS
    <3>2. 2 * c \in Nat \ {0} /\ m \in Nat \ {0}
      BY <1>2, <1>5 DEF IsDice
    <3> HIDE DEF c, m
    <3> QED
      BY <3>1, <3>2
  <2>3. worst = Higher(1, most + d)
    BY <1>1, <2>2
  <2> HIDE DEF most, d, worst, c
  <2>4. most \in (2 * c) .. most
    BY <2>2
  <2>5. \A r \in (2 * c) .. most : Higher(1, r + d) # worst + 1
    BY <1>1, <2>2, <2>3 DEF Higher
  <2> QED
    BY <2>1, <2>3, <2>4, <2>5
<1> HIDE DEF hits, worst
<1>6. /\ Cardinality(hits) = Higher(1, Lower(19, 21 + AttackBonus(s, w) - ac))
      /\ \A n \in 1 .. 20 :
           IF n \in hits THEN 0 \notin Damage(s, w, ac, n) ELSE Damage(s, w, ac, n) = {0}
      /\ IsDice(2 * c, m) =>
           worst \in Damage(s, w, ac, 20) /\ worst + 1 \notin Damage(s, w, ac, 20)
  BY <1>3, <1>4, <1>5
<1> QED
  BY <1>6 DEF hits, worst

(* With any weapon, against any armour: as many of the twenty faces hit as  *)
(* the bonus says, a hit hurts, a miss does not, and a twenty can hurt as   *)
(* much as twice the dice and the bonus, and no more, where the dice can be *)
(* rolled (resolve, _doubled).                                              *)
THEOREM BlowsStayFair == TabSpec => []BlowsAreFair
<1>1. TabInv => BlowsAreFair
  <2> SUFFICES ASSUME TabInv, OpenTab, NEW w \in Weapons(held), NEW ac \in ArmourClasses
               PROVE  LET hits == {n \in 1 .. 20 : Hits(held, w, ac, n)}
                          worst == Higher(1, DamageBonus(held, w) + 2 * Gear[w].count * Gear[w].sides)
                      IN /\ Cardinality(hits) = Higher(1, Lower(19, 21 + AttackBonus(held, w) - ac))
                         /\ \A n \in 1 .. 20 :
                              IF n \in hits THEN 0 \notin Damage(held, w, ac, n)
                                            ELSE Damage(held, w, ac, n) = {0}
                         /\ IsDice(2 * Gear[w].count, Gear[w].sides) =>
                              worst \in Damage(held, w, ac, 20) /\ worst + 1 \notin Damage(held, w, ac, 20)
    BY DEF BlowsAreFair
  <2>1. IsSheet(held) /\ ac \in Int
    BY SheetTabAssumption DEF TabInv, SheetsAreLegal, OpenTab, Legal
  <2> QED
    BY <2>1, OneBlowIsFair
<1> QED
  BY TabHolds, <1>1, PTL
=============================================================================
