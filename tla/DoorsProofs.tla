----------------------------- MODULE DoorsProofs ------------------------------
(***************************************************************************)
(* Who sits at the table, what becomes of a seat that is handed over, and  *)
(* what the two ends of a connection know of each other: proofs about      *)
(* Doors.                                                                  *)
(***************************************************************************)
EXTENDS Doors, SequenceTheorems, Least, TLAPS

Salt == Code \cup {Unsalted, Decoy}

Request ==
  [is : {"hello"}, name : Name]
    \cup [is : {"login"}, proof : Person \X Salt]
    \cup [is : {"enrol"}, code : Code, name : Name, pw : Person]
    \cup [is : {"bye"}]

Frame ==
  [is : {"challenge"}, salt : Salt]
    \cup [is : {"enrolled"}, name : Name]
    \cup [is : {"welcome", "bad_login", "bye"}]

Sitting == [at : {"none", "new", "greeted", "in"}, name : Name \cup {Nobody}, tries : Nat,
            as : Id \cup {Nobody}, salt : Salt, going : BOOLEAN, orphan : BOOLEAN]

Client == [want : BOOLEAN, name : Name \cup {Nobody}, code : Code \cup {Nobody},
           on : Sock \cup {Nobody}, in : BOOLEAN, retry : BOOLEAN]

TablesTyped ==
  /\ account \in [Id -> Account \cup {Nobody}]
  /\ invite \in [Code -> [to : Character \cup {Nobody},
                          is : {"unmade", "live", "replaced", "used", "expired"}]]
  /\ \A c \in Code : invite[c].is = "live" => invite[c].to \in Character
  /\ took \in [Code -> Nat]

EndsTyped ==
  /\ host \in [Sock -> Sitting]
  /\ \A s \in Sock : host[s].at = "in" => host[s].as \in Id
  /\ client \in [Person -> Client]
  /\ \A p \in Person : client[p].want \/ client[p].on # Nobody => client[p].name \in Name
  /\ up \in [Sock -> Seq(Request)]
  /\ down \in [Sock -> Seq(Frame)]

Typed == TablesTyped /\ EndsTyped

(* What the two ends of a connection know of each other: a goodbye from    *)
(* the client is on its way whenever it has let go, one from the host      *)
(* whenever that has, and a broken connection tells both.                  *)
OnePerson == \A p, q \in Person : client[p].on = client[q].on /\ client[p].on # Nobody => p = q

Wire(s) ==
  /\ ~Listened(s) => down[s] = <<>> /\ (host[s].at # "none" => Coming(up[s], "bye"))
  /\ Listened(s) /\ (Coming(up[s], "bye") \/ host[s].at = "none") => Coming(down[s], "bye")
  /\ Coming(down[s], "bye") /\ host[s].at # "none" => Coming(up[s], "bye")
  /\ Coming(down[s], "welcome") => host[s].at = "in" \/ Coming(down[s], "bye")

Sits(p) ==
  /\ client[p].in => client[p].on # Nobody
  /\ client[p].on # Nobody /\ host[client[p].on].at = "in" =>
       \/ client[p].in \/ Coming(down[client[p].on], "welcome")
       \/ Coming(down[client[p].on], "bye")
  /\ client[p].in =>
       host[client[p].on].at = "in" \/ Coming(down[client[p].on], "bye")

EndsInv == OnePerson /\ (\A s \in Sock : Wire(s)) /\ (\A p \in Person : Sits(p))

-----------------------------------------------------------------------------
(* The tables                                                              *)

LEMMA NobodyIsNoId ==
  /\ Nobody \notin Id /\ Nobody \notin Code /\ Nobody \notin Sock
  /\ Nobody \notin Account /\ Nobody \notin Name
<1>1. Id \subseteq Int /\ Code \subseteq Int /\ Sock \subseteq Int
  BY DoorsAssumption, FS_CardinalityType
<1> QED
  BY <1>1, DoorsAssumption

(* A new row has an id that no row has.                                    *)
LEMMA NextIdIsFree ==
  ASSUME TablesTyped, NEW i \in Id, i = NextId
  PROVE  account[i] = Nobody
<1> DEFINE n == Cardinality(Id)
           rows == {j \in Id : account[j] # Nobody}
           S == {0} \cup rows
<1>1. n \in Nat /\ Id = 1 .. n
  BY DoorsAssumption, FS_CardinalityType
<1>2. \E m \in S : \A k \in S : m >= k
  <2>1. CASE rows = {}
    BY <2>1
  <2>2. CASE rows # {}
    <3>1. rows \in SUBSET (1 .. n)
      BY <1>1
    <3>2. PICK m \in rows : \A k \in rows : k <= m
      BY <1>1, <2>2, <3>1, Largest
    <3>3. m \in 1 .. n
      BY <1>1
    <3>4. \A k \in S : m >= k
      BY <1>1, <3>2, <3>3
    <3> QED
      BY <3>4
  <2> QED
    BY <2>1, <2>2
<1>3. \A k \in S : Max(S) >= k
  BY <1>2 DEF Max
<1>4. Max(S) \in Nat
  BY <1>1, <1>2 DEF Max
<1>5. NextId = 1 + Max(S)
  BY DEF NextId
<1>6. ASSUME i \in rows PROVE FALSE
  BY <1>1, <1>3, <1>4, <1>5, <1>6
<1> QED
  BY <1>6

(* Whoever plays it: an account, if there is one.                          *)
LEMMA SeatIsAnAccount ==
  ASSUME TablesTyped, NEW e
  PROVE  IF Players(e) = {} THEN SeatOf(e) = Nobody
         ELSE SeatOf(e) \in Players(e) /\ SeatOf(e) \in Id /\ SeatOf(e) # Nobody
<1>1. CASE Players(e) = {}
  BY <1>1 DEF SeatOf
<1>2. CASE Players(e) # {}
  <2> DEFINE f == [i \in Players(e) |-> i]
  <2>1. Players(e) \subseteq Id /\ \A i \in Id : i \in Nat
    BY DoorsAssumption, FS_CardinalityType DEF Players
  <2>2. f \in [Players(e) -> Nat]
    BY <2>1
  <2>3. PICK i \in Players(e) : \A j \in Players(e) : f[i] <= f[j]
    <3> HIDE DEF f
    <3> QED
      BY <1>2, <2>2, Smallest
  <2>4. \A j \in Players(e) : i <= j
    BY <2>3
  <2>5. Min(Players(e)) \in Players(e)
    BY <2>4 DEF Min
  <2> QED
    BY <1>2, <2>1, <2>5, NobodyIsNoId DEF SeatOf
<1> QED
  BY <1>1, <1>2

(* What a code does to the account table.                                  *)
SeatTaken(c, n, pw, e) ==
  \/ /\ Players(e) = {} /\ SeatOf(e) = Nobody
     /\ \E i \in Id :
          /\ account[i] = Nobody
          /\ account' = [account EXCEPT ![i] =
                           [name |-> n, pw |-> pw, salt |-> c, plays |-> e]]
  \/ /\ Players(e) # {} /\ SeatOf(e) \in Players(e)
     /\ account' = [account EXCEPT ![SeatOf(e)].name = n, ![SeatOf(e)].pw = pw,
                                   ![SeatOf(e)].salt = c]

LEMMA SeatMadeOrMoved ==
  ASSUME TablesTyped, NEW s, NEW c \in Code, NEW n \in Name, NEW pw \in Person,
         invite[c].is = "live", TakesItUp(s, c, n, pw)
  PROVE  invite[c].to \in Character /\ SeatTaken(c, n, pw, invite[c].to)
<1> DEFINE e == invite[c].to
<1>1. e \in Character
  BY DEF TablesTyped
<1>2. CASE Players(e) = {}
  <2>1. SeatOf(e) = Nobody
    BY <1>2, SeatIsAnAccount
  <2>2. NextId \in Id /\ account' = Made(n, pw, c, e)
    BY <2>1 DEF TakesItUp
  <2>3. account[NextId] = Nobody
    BY <2>2, NextIdIsFree
  <2> QED
    BY <1>1, <1>2, <2>1, <2>2, <2>3 DEF Made, SeatTaken
<1>3. CASE Players(e) # {}
  <2>1. SeatOf(e) \in Players(e) /\ SeatOf(e) # Nobody
    BY <1>3, SeatIsAnAccount
  <2>2. account' = TakenOver(SeatOf(e), n, pw, c)
    BY <2>1 DEF TakesItUp
  <2> QED
    BY <1>1, <1>3, <2>1, <2>2 DEF TakenOver, SeatTaken
<1> QED
  BY <1>2, <1>3

LEMMA MovedKeepsThePlay ==
  ASSUME TablesTyped, NEW i \in Id, account[i] # Nobody,
         NEW n \in Name, NEW pw \in Person, NEW c \in Code,
         account' = [account EXCEPT ![i].name = n, ![i].pw = pw, ![i].salt = c]
  PROVE  /\ account' \in [Id -> Account \cup {Nobody}]
         /\ \A j \in Id : j # i => account'[j] = account[j]
         /\ account'[i] # Nobody /\ account'[i].plays = account[i].plays
<1>1. account[i] \in Account
  BY DEF TablesTyped
<1>2. account' = [account EXCEPT ![i] = [account[i] EXCEPT !.name = n, !.pw = pw, !.salt = c]]
  BY <1>1 DEF TablesTyped
<1>3. [account[i] EXCEPT !.name = n, !.pw = pw, !.salt = c] \in Account
  BY <1>1 DEF Account
<1>4. [account[i] EXCEPT !.name = n, !.pw = pw, !.salt = c].plays = account[i].plays
  BY <1>1 DEF Account
<1> QED
  BY <1>2, <1>3, <1>4, NobodyIsNoId DEF TablesTyped

LEMMA TakesItUpTyped ==
  ASSUME Typed, NEW s \in Sock, NEW c \in Code, NEW n \in Name, NEW pw \in Person,
         invite[c].is = "live", TakesItUp(s, c, n, pw)
  PROVE  TablesTyped'
<1> DEFINE e == invite[c].to
<1>1. account' \in [Id -> Account \cup {Nobody}]
  <2>1. CASE /\ Players(e) = {}
             /\ \E i \in Id :
                  /\ account[i] = Nobody
                  /\ account' = [account EXCEPT ![i] =
                                   [name |-> n, pw |-> pw, salt |-> c, plays |-> e]]
    <3>1. [name |-> n, pw |-> pw, salt |-> c, plays |-> e] \in Account
      BY DEF Account, Typed, TablesTyped
    <3> QED
      BY <2>1, <3>1 DEF Typed, TablesTyped
  <2>2. CASE /\ SeatOf(e) \in Players(e)
             /\ account' = [account EXCEPT ![SeatOf(e)].name = n, ![SeatOf(e)].pw = pw,
                                           ![SeatOf(e)].salt = c]
    <3>1. SeatOf(e) \in Id /\ account[SeatOf(e)] # Nobody
      BY <2>2 DEF Players
    <3> QED
      BY <2>2, <3>1, MovedKeepsThePlay DEF Typed
  <2>3. SeatTaken(c, n, pw, e)
    BY SeatMadeOrMoved DEF Typed
  <2> QED
    BY <2>1, <2>2, <2>3 DEF SeatTaken
<1>2. /\ invite' \in [Code -> [to : Character \cup {Nobody},
                               is : {"unmade", "live", "replaced", "used", "expired"}]]
      /\ \A d \in Code : invite'[d].is = "live" => invite'[d].to \in Character
  BY DEF TakesItUp, Claimed, Typed, TablesTyped
<1>3. took' \in [Code -> Nat]
  BY DEF TakesItUp, Typed, TablesTyped
<1> QED
  BY <1>1, <1>2, <1>3 DEF TablesTyped

-----------------------------------------------------------------------------
(* Frames                                                                  *)

LEMMA OnTheWire ==
  /\ Bye \in Request /\ Bye \in Frame /\ Welcome \in Frame /\ BadLogin \in Frame
  /\ DecoyChallenge \in Frame
  /\ \A n \in Name : Enrolled(n) \in Frame
  /\ Bye.is = "bye" /\ Welcome.is = "welcome" /\ BadLogin.is = "bad_login"
  /\ DecoyChallenge.is = "challenge" /\ \A n : Enrolled(n).is = "enrolled"
BY DEF Bye, Welcome, BadLogin, DecoyChallenge, Enrolled, Request, Frame, Salt

LEMMA ChallengeTyped ==
  ASSUME Typed, NEW n
  PROVE  Challenge(n) \in Frame /\ Challenge(n).is = "challenge"
<1>1. CASE ByUsername(n) = {}
  BY <1>1 DEF Challenge, Frame, Salt
<1>2. CASE ByUsername(n) # {}
  <2> DEFINE f == [i \in ByUsername(n) |-> i]
  <2>1. ByUsername(n) \subseteq Id /\ \A i \in Id : i \in Nat
    BY DoorsAssumption, FS_CardinalityType DEF ByUsername
  <2>2. f \in [ByUsername(n) -> Nat]
    BY <2>1
  <2>3. PICK i \in ByUsername(n) : \A j \in ByUsername(n) : f[i] <= f[j]
    <3> HIDE DEF f
    <3> QED
      BY <1>2, <2>2, Smallest
  <2>4. Min(ByUsername(n)) \in ByUsername(n)
    BY <2>3 DEF Min
  <2>5. account[Min(ByUsername(n))] \in Account
    BY <2>4 DEF ByUsername, Typed, TablesTyped
  <2> QED
    BY <1>2, <2>5 DEF Challenge, Frame, Salt, Account
<1> QED
  BY <1>1, <1>2

LEMMA RequestIsOneOf ==
  ASSUME NEW m \in Request
  PROVE  /\ m.is = "hello" => m.name \in Name
         /\ m.is = "enrol" => m.code \in Code /\ m.name \in Name /\ m.pw \in Person
         /\ m.is \in {"hello", "login", "enrol", "bye"}
BY DEF Request

LEMMA FrameIsOneOf ==
  ASSUME NEW m \in Frame
  PROVE  /\ m.is = "challenge" => m.salt \in Salt
         /\ m.is = "enrolled" => m.name \in Name
BY DEF Frame

LEMMA ComingAtTheEnd ==
  ASSUME NEW S, NEW q \in Seq(S), NEW r \in Seq(S), NEW kind
  PROVE  Coming(q \o r, kind) <=> Coming(q, kind) \/ Coming(r, kind)
<1> DEFINE u == q \o r
<1>1. /\ DOMAIN q = 1 .. Len(q) /\ DOMAIN r = 1 .. Len(r)
      /\ DOMAIN u = 1 .. Len(u)
  BY AtTheEnd, LenProperties
<1>2. ASSUME NEW i \in 1 .. Len(q) PROVE i \in 1 .. Len(u) /\ u[i] = q[i]
  BY AtTheEnd
<1>3. ASSUME NEW k \in 1 .. Len(r)
      PROVE  Len(q) + k \in 1 .. Len(u) /\ u[Len(q) + k] = r[k]
  BY AtTheEnd
<1>4. ASSUME NEW i \in 1 .. Len(u)
      PROVE  (i \in 1 .. Len(q) /\ u[i] = q[i])
               \/ \E k \in 1 .. Len(r) : i = Len(q) + k /\ u[i] = r[k]
  <2>1. i \in 1 .. Len(q) \/ \E k \in 1 .. Len(r) : i = Len(q) + k
    BY AtTheEnd
  <2> HIDE DEF u
  <2> QED
    BY <1>2, <1>3, <2>1
<1> HIDE DEF u
<1>5. ASSUME Coming(u, kind) PROVE Coming(q, kind) \/ Coming(r, kind)
  BY <1>1, <1>4, <1>5 DEF Coming
<1>6. ASSUME Coming(q, kind) PROVE Coming(u, kind)
  BY <1>1, <1>2, <1>6 DEF Coming
<1>7. ASSUME Coming(r, kind) PROVE Coming(u, kind)
  BY <1>1, <1>3, <1>7 DEF Coming
<1> QED
  BY <1>5, <1>6, <1>7 DEF u

LEMMA ComingAppended ==
  ASSUME NEW S, NEW q \in Seq(S), NEW m \in S, NEW kind
  PROVE  /\ Append(q, m) \in Seq(S)
         /\ Coming(Append(q, m), kind) <=> Coming(q, kind) \/ m.is = kind
<1> DEFINE u == Append(q, m)
<1>1. /\ Len(q) \in Nat /\ u \in Seq(S) /\ Len(u) = Len(q) + 1 /\ u[Len(q) + 1] = m
      /\ \A i \in 1 .. Len(q) : u[i] = q[i]
  BY AppendProperties, LenProperties
<1>2. DOMAIN q = 1 .. Len(q) /\ DOMAIN u = 1 .. Len(q) + 1
  BY <1>1, LenProperties
<1> HIDE DEF u
<1>3. \A i \in 1 .. Len(q) + 1 : i \in 1 .. Len(q) \/ i = Len(q) + 1
  BY <1>1
<1>4. Len(q) + 1 \in 1 .. Len(q) + 1 /\ \A i \in 1 .. Len(q) : i \in 1 .. Len(q) + 1
  BY <1>1
<1>5. Coming(u, kind) <=> Coming(q, kind) \/ m.is = kind
  BY <1>1, <1>2, <1>3, <1>4 DEF Coming
<1> QED
  BY <1>1, <1>5 DEF u

LEMMA ComingTakenOff ==
  ASSUME NEW S, NEW q \in Seq(S), q # <<>>, NEW kind
  PROVE  /\ Tail(q) \in Seq(S) /\ Head(q) \in S
         /\ Coming(q, kind) <=> Head(q).is = kind \/ Coming(Tail(q), kind)
<1> DEFINE t == Tail(q)
<1>1. /\ t \in Seq(S) /\ Head(q) \in S /\ DOMAIN q = 1 .. Len(q) /\ DOMAIN t = 1 .. Len(t)
      /\ 1 \in 1 .. Len(q) /\ Head(q) = q[1]
      /\ \A i \in 1 .. Len(t) : i + 1 \in 1 .. Len(q) /\ t[i] = q[i + 1]
      /\ \A i \in 1 .. Len(q) : i = 1 \/ (i - 1 \in 1 .. Len(t) /\ q[i] = t[i - 1])
  <2>1. t \in Seq(S) /\ Head(q) \in S
    BY HeadTailProperties
  <2>2. DOMAIN q = 1 .. Len(q) /\ DOMAIN t = 1 .. Len(t)
    BY <2>1, LenProperties
  <2>3. 1 \in 1 .. Len(q) /\ Head(q) = q[1]
    BY TakenOff
  <2>4. \A i \in 1 .. Len(t) : i + 1 \in 1 .. Len(q) /\ t[i] = q[i + 1]
    BY TakenOff
  <2>5. \A i \in 1 .. Len(q) : i = 1 \/ (i - 1 \in 1 .. Len(t) /\ q[i] = t[i - 1])
    BY TakenOff
  <2> QED
    BY <2>1, <2>2, <2>3, <2>4, <2>5
<1> HIDE DEF t
<1>2. ASSUME Coming(q, kind) PROVE Head(q).is = kind \/ Coming(t, kind)
  <2>1. PICK i \in 1 .. Len(q) : q[i].is = kind
    BY <1>1, <1>2 DEF Coming
  <2>2. i = 1 \/ (i - 1 \in 1 .. Len(t) /\ q[i] = t[i - 1])
    BY <1>1
  <2> QED
    BY <1>1, <2>1, <2>2 DEF Coming
<1>3. ASSUME Head(q).is = kind PROVE Coming(q, kind)
  BY <1>1, <1>3 DEF Coming
<1>4. ASSUME Coming(t, kind) PROVE Coming(q, kind)
  BY <1>1, <1>4 DEF Coming
<1> QED
  BY <1>1, <1>2, <1>3, <1>4 DEF t

LEMMA ComingAlone ==
  ASSUME NEW m, NEW kind
  PROVE  /\ ~Coming(<<>>, kind)
         /\ Coming(<<m>>, kind) <=> m.is = kind
BY DEF Coming

-----------------------------------------------------------------------------
(* One connection, from the host's end                                     *)

LEMMA ToldTheClient ==
  ASSUME EndsTyped, NEW s \in Sock, NEW ms \in Seq(Frame), ToClient(s, ms)
  PROVE  /\ down' \in [Sock -> Seq(Frame)]
         /\ \A t \in Sock : t # s => down'[t] = down[t]
         /\ ~Listened(s) => down'[s] = down[s]
         /\ \A kind : Coming(down'[s], kind) <=>
                      Coming(down[s], kind) \/ (Listened(s) /\ Coming(ms, kind))
<1>1. CASE Listened(s)
  <2>1. down' = [down EXCEPT ![s] = down[s] \o ms]
    BY <1>1 DEF ToClient
  <2>2. down[s] \in Seq(Frame) /\ down[s] \o ms \in Seq(Frame)
    BY AtTheEnd DEF EndsTyped
  <2>3. \A kind : Coming(down[s] \o ms, kind) <=> Coming(down[s], kind) \/ Coming(ms, kind)
    BY <2>2, ComingAtTheEnd
  <2>4. down'[s] = down[s] \o ms
    BY <2>1 DEF EndsTyped
  <2> QED
    BY <1>1, <2>1, <2>2, <2>3, <2>4 DEF EndsTyped
<1>2. CASE ~Listened(s)
  BY <1>2 DEF ToClient, EndsTyped
<1> QED
  BY <1>1, <1>2

LEMMA ReadTheHead ==
  ASSUME EndsTyped, NEW s \in Sock, Reads(s)
  PROVE  /\ up' \in [Sock -> Seq(Request)] /\ Head(up[s]) \in Request
         /\ \A t \in Sock : t # s => up'[t] = up[t]
         /\ \A kind : Coming(up[s], kind) <=>
                      Head(up[s]).is = kind \/ Coming(up'[s], kind)
<1>1. up[s] # <<>> /\ up' = [up EXCEPT ![s] = Tail(up[s])] /\ up[s] \in Seq(Request)
  BY DEF Reads, EndsTyped
<1>2. /\ Tail(up[s]) \in Seq(Request) /\ Head(up[s]) \in Request
      /\ \A kind : Coming(up[s], kind) <=>
                   Head(up[s]).is = kind \/ Coming(Tail(up[s]), kind)
  BY <1>1, ComingTakenOff
<1>3. up'[s] = Tail(up[s])
  BY <1>1 DEF EndsTyped
<1> QED
  BY <1>1, <1>2, <1>3 DEF EndsTyped

(* Nothing but one connection is touched, and nobody's end of it.          *)
LEMMA OneConnection ==
  ASSUME EndsInv, EndsTyped, UNCHANGED client, NEW s \in Sock,
         \A t \in Sock : t # s => /\ host'[t].at = host[t].at
                                 /\ up'[t] = up[t] /\ down'[t] = down[t],
         Wire(s)', \A p \in Person : client[p].on = s => Sits(p)'
  PROVE  EndsInv'
<1>1. OnePerson'
  BY DEF EndsInv, OnePerson
<1>2. ASSUME NEW t \in Sock PROVE Wire(t)'
  <2>1. CASE t = s
    BY <2>1
  <2>2. CASE t # s
    <3>1. Listened(t)' <=> Listened(t)
      BY DEF Listened
    <3> QED
      BY <2>2, <3>1 DEF EndsInv, Wire
  <2> QED
    BY <2>1, <2>2
<1>3. ASSUME NEW p \in Person PROVE Sits(p)'
  <2>1. CASE client[p].on = s
    BY <2>1
  <2>2. CASE client[p].on # s /\ client[p].on # Nobody
    <3>1. client[p].on \in Sock
      BY <2>2 DEF EndsTyped, Client
    <3> QED
      BY <2>2, <3>1 DEF EndsInv, Sits
  <2>3. CASE client[p].on = Nobody
    BY <2>3 DEF EndsInv, Sits
  <2> QED
    BY <2>1, <2>2, <2>3
<1> QED
  BY <1>1, <1>2, <1>3 DEF EndsInv

(* The host reads a request and answers it.                                *)
LEMMA HostReadsIt ==
  ASSUME EndsInv, EndsTyped, UNCHANGED client, NEW s \in Sock, Reads(s),
         Head(up[s]).is # "bye", NEW ms \in Seq(Frame), ToClient(s, ms),
         ~Coming(ms, "bye"),
         \A t \in Sock : t # s => host'[t].at = host[t].at,
         host'[s].at # "none",
         Coming(ms, "welcome") => host'[s].at = "in",
         host[s].at = "in" => host'[s].at = "in",
         host'[s].at = "in" => host[s].at = "in" \/ Coming(ms, "welcome")
  PROVE  EndsInv' /\ up' \in [Sock -> Seq(Request)] /\ down' \in [Sock -> Seq(Frame)]
<1>1. /\ up' \in [Sock -> Seq(Request)]
      /\ \A t \in Sock : t # s => up'[t] = up[t]
      /\ Coming(up[s], "bye") <=> Coming(up'[s], "bye")
  BY ReadTheHead
<1>2. /\ down' \in [Sock -> Seq(Frame)]
      /\ \A t \in Sock : t # s => down'[t] = down[t]
      /\ ~Listened(s) => down'[s] = down[s]
      /\ Coming(down'[s], "bye") <=> Coming(down[s], "bye")
      /\ Coming(down'[s], "welcome") <=>
           Coming(down[s], "welcome") \/ (Listened(s) /\ Coming(ms, "welcome"))
  BY ToldTheClient
<1>3. Listened(s)' <=> Listened(s)
  BY DEF Listened
<1>4. host[s].at # "none"
  BY DEF Reads
<1>5. Wire(s)
  BY DEF EndsInv
<1>6. Wire(s)'
  <2>1. ~Listened(s) => down'[s] = <<>> /\ Coming(up'[s], "bye")
    BY <1>1, <1>2, <1>4, <1>5 DEF Wire
  <2>2. Listened(s) /\ Coming(up'[s], "bye") => Coming(down'[s], "bye")
    BY <1>1, <1>2, <1>5 DEF Wire
  <2>3. Coming(down'[s], "bye") => Coming(up'[s], "bye")
    BY <1>1, <1>2, <1>4, <1>5 DEF Wire
  <2>4. Coming(down'[s], "welcome") => host'[s].at = "in" \/ Coming(down'[s], "bye")
    BY <1>2, <1>5 DEF Wire
  <2> QED
    BY <1>3, <2>1, <2>2, <2>3, <2>4 DEF Wire
<1>7. ASSUME NEW p \in Person, client[p].on = s PROVE Sits(p)'
  <2>1. Sits(p) /\ Listened(s)
    BY <1>7 DEF EndsInv, Listened
  <2> QED
    BY <1>2, <1>7, <2>1 DEF Sits
<1> QED
  BY <1>1, <1>2, <1>6, <1>7, OneConnection

(* The host's end is gone, and whoever is at the other will be told.       *)
LEMMA HostLetsGo ==
  ASSUME EndsInv, EndsTyped, UNCHANGED client, NEW s \in Sock,
         up' = [up EXCEPT ![s] = <<>>], host'[s].at = "none",
         \A t \in Sock : t # s => host'[t].at = host[t].at /\ down'[t] = down[t],
         ~Listened(s) => down'[s] = down[s],
         Listened(s) => Coming(down'[s], "bye")
  PROVE  EndsInv'
<1>1. up'[s] = <<>> /\ \A t \in Sock : t # s => up'[t] = up[t]
  BY DEF EndsTyped
<1>2. ~Coming(<<>>, "bye") /\ ~Coming(<<>>, "welcome")
  BY ComingAlone
<1>3. Listened(s)' <=> Listened(s)
  BY DEF Listened
<1>4. Wire(s)'
  BY <1>1, <1>2, <1>3 DEF EndsInv, Wire
<1>5. ASSUME NEW p \in Person, client[p].on = s PROVE Sits(p)'
  <2>1. Sits(p) /\ Listened(s)
    BY <1>5 DEF EndsInv, Listened
  <2> QED
    BY <1>5, <2>1 DEF Sits
<1> QED
  BY <1>1, <1>4, <1>5, OneConnection

-----------------------------------------------------------------------------
(* The host's handlers                                                     *)

DoorsInv == Typed /\ OnlyTheHolderSits /\ EndsInv

HostTyped ==
  /\ host \in [Sock -> Sitting]
  /\ \A s \in Sock : host[s].at = "in" => host[s].as \in Id

(* Nobody new sits down.                                                   *)
LEMMA HoldersStand ==
  ASSUME OnlyTheHolderSits, UNCHANGED account,
         \A t \in Sock : \/ host'[t].at # "in" \/ host'[t].going \/ host'[t].orphan
                        \/ host'[t] = host[t]
  PROVE  OnlyTheHolderSits'
BY DEF OnlyTheHolderSits

(* A handler of the host's that leaves the tables and the clients alone.   *)
LEMMA OnlyTheHost ==
  ASSUME DoorsInv, UNCHANGED <<tables, client>>, HostTyped', EndsInv',
         up' \in [Sock -> Seq(Request)], down' \in [Sock -> Seq(Frame)],
         OnlyTheHolderSits'
  PROVE  DoorsInv'
BY DEF DoorsInv, Typed, TablesTyped, EndsTyped, HostTyped, tables

LEMMA HelloKeeps ==
  ASSUME DoorsInv, NEW s \in Sock, Hello(s)
  PROVE  DoorsInv'
<1> DEFINE m == Head(up[s])
<1>0. EndsTyped /\ EndsInv /\ OnlyTheHolderSits /\ Typed
  BY DEF DoorsInv, Typed
<1>1. /\ Reads(s) /\ m.is = "hello" /\ host[s].at = "new"
      /\ host' = [host EXCEPT ![s] = [@ EXCEPT !.at = "greeted", !.name = m.name]]
      /\ ToClient(s, <<Challenge(m.name)>>)
      /\ UNCHANGED <<tables, client, account>>
  BY <1>0 DEF Hello, tables, EndsTyped
<1>2. m.name \in Name
  BY <1>0, <1>1, ReadTheHead, RequestIsOneOf
<1>3. [host[s] EXCEPT !.at = "greeted", !.name = m.name] \in Sitting
  BY <1>0, <1>2 DEF EndsTyped, Sitting
<1>4. HostTyped' /\ host'[s].at = "greeted" /\ \A t \in Sock : t # s => host'[t] = host[t]
  BY <1>0, <1>1, <1>3 DEF HostTyped, EndsTyped, Sitting
<1>5. Challenge(m.name) \in Frame /\ Challenge(m.name).is = "challenge"
  BY <1>0, ChallengeTyped
<1>6. /\ <<Challenge(m.name)>> \in Seq(Frame)
      /\ ~Coming(<<Challenge(m.name)>>, "bye") /\ ~Coming(<<Challenge(m.name)>>, "welcome")
  BY <1>5, ComingAlone
<1>7. EndsInv' /\ up' \in [Sock -> Seq(Request)] /\ down' \in [Sock -> Seq(Frame)]
  BY <1>0, <1>1, <1>4, <1>6, HostReadsIt
<1>8. OnlyTheHolderSits'
  BY <1>0, <1>1, <1>4, HoldersStand
<1> QED
  BY <1>1, <1>4, <1>7, <1>8, OnlyTheHost

LEMMA RefusedKeeps ==
  ASSUME DoorsInv, NEW s \in Sock, Reads(s), Head(up[s]).is # "bye",
         NEW told \in {<<>>, <<BadLogin>>}, Refused(s, told)
  PROVE  DoorsInv'
<1>0. EndsTyped /\ EndsInv /\ OnlyTheHolderSits /\ Typed
  BY DEF DoorsInv, Typed
<1> DEFINE h == [host[s] EXCEPT !.tries = @ + 1]
           enough == h.tries >= MaxTries
           ms == told \o IF enough THEN <<>> ELSE <<DecoyChallenge>>
<1>1. /\ host' = [host EXCEPT ![s] = IF enough THEN Going(h) ELSE h]
      /\ ToClient(s, ms) /\ UNCHANGED <<tables, client, account>>
  BY DEF Refused, tables
<1>2. /\ h \in Sitting /\ Going(h) \in Sitting /\ h.at = host[s].at /\ Going(h).at = host[s].at
      /\ h.as = host[s].as /\ Going(h).as = host[s].as /\ Going(h).going
      /\ h.going = host[s].going /\ h.orphan = host[s].orphan /\ h.salt = host[s].salt
  <2>1. host[s] \in Sitting
    BY <1>0 DEF EndsTyped
  <2>2. /\ h \in Sitting /\ h.at = host[s].at /\ h.as = host[s].as /\ h.salt = host[s].salt
        /\ h.going = host[s].going /\ h.orphan = host[s].orphan
    BY <2>1 DEF Sitting
  <2>3. Going(h) = [h EXCEPT !.going = TRUE]
    BY DEF Going
  <2> HIDE DEF h
  <2>4. Going(h) \in Sitting /\ Going(h).at = h.at /\ Going(h).as = h.as /\ Going(h).going = TRUE
    BY <2>2, <2>3 DEF Sitting
  <2> QED
    BY <2>2, <2>4
<1>3. /\ ms \in Seq(Frame) /\ ~Coming(ms, "bye") /\ ~Coming(ms, "welcome")
  <2> DEFINE more == IF enough THEN <<>> ELSE <<DecoyChallenge>>
  <2>1. /\ more \in Seq(Frame) /\ told \in Seq(Frame)
        /\ ~Coming(more, "bye") /\ ~Coming(more, "welcome")
        /\ ~Coming(told, "bye") /\ ~Coming(told, "welcome")
    <3>1. /\ <<>> \in Seq(Frame) /\ <<BadLogin>> \in Seq(Frame)
          /\ <<DecoyChallenge>> \in Seq(Frame)
      BY OnTheWire
    <3>2. \A kind \in {"bye", "welcome"} :
            ~Coming(<<>>, kind) /\ ~Coming(<<BadLogin>>, kind) /\ ~Coming(<<DecoyChallenge>>, kind)
      BY OnTheWire, ComingAlone
    <3>3. more \in {<<>>, <<DecoyChallenge>>}
      OBVIOUS
    <3> HIDE DEF more
    <3> QED
      BY <3>1, <3>2, <3>3
  <2>2. ms = told \o more
    OBVIOUS
  <2> HIDE DEF more, ms
  <2> QED
    BY <2>1, <2>2, AtTheEnd, ComingAtTheEnd
<1> HIDE DEF ms, h
<1>4. /\ HostTyped' /\ host'[s].at = host[s].at
      /\ \A t \in Sock : t # s => host'[t] = host[t]
  BY <1>0, <1>1, <1>2 DEF HostTyped, EndsTyped
<1>5. host[s].at # "none"
  BY DEF Reads
<1>6. EndsInv' /\ up' \in [Sock -> Seq(Request)] /\ down' \in [Sock -> Seq(Frame)]
  BY <1>0, <1>1, <1>3, <1>4, <1>5, HostReadsIt
<1>7. OnlyTheHolderSits'
  <2>1. host'[s] = Going(h) \/ host'[s] = h
    BY <1>0, <1>1 DEF EndsTyped
  <2> QED
    BY <1>0, <1>1, <1>2, <1>4, <2>1 DEF OnlyTheHolderSits
<1> QED
  BY <1>1, <1>4, <1>6, <1>7, OnlyTheHost

LEMMA LoginKeeps ==
  ASSUME DoorsInv, NEW s \in Sock, Login(s)
  PROVE  DoorsInv'
<1> DEFINE m == Head(up[s])
           who == Authenticates(host[s].name, m.proof)
<1>0. EndsTyped /\ EndsInv /\ OnlyTheHolderSits /\ Typed
  BY DEF DoorsInv, Typed
<1>1. Reads(s) /\ m.is = "login" /\ host[s].at = "greeted"
  BY DEF Login
<1>2. CASE Refused(s, <<BadLogin>>)
  BY <1>1, <1>2, RefusedKeeps
<1>3. ASSUME NEW i \in who,
             host' = [host EXCEPT ![s] =
                        [@ EXCEPT !.at = "in", !.as = i, !.salt = account[i].salt]],
             ToClient(s, <<Welcome>>), UNCHANGED <<tables, client>>
      PROVE  DoorsInv'
  <2>1. i \in Id /\ account[i] \in Account /\ account[i] # Nobody
    BY <1>0 DEF Authenticates, ByUsername, Typed, TablesTyped
  <2> DEFINE h == [host[s] EXCEPT !.at = "in", !.as = i, !.salt = account[i].salt]
  <2>2. h \in Sitting /\ h.at = "in" /\ h.as = i /\ h.salt = account[i].salt
    BY <1>0, <2>1 DEF EndsTyped, Sitting, Account, Salt
  <2>3. /\ HostTyped' /\ host'[s] = h
        /\ \A t \in Sock : t # s => host'[t] = host[t]
    BY <1>0, <1>3, <2>1, <2>2 DEF HostTyped, EndsTyped
  <2> HIDE DEF h
  <2>4. /\ <<Welcome>> \in Seq(Frame)
        /\ ~Coming(<<Welcome>>, "bye") /\ Coming(<<Welcome>>, "welcome")
    BY OnTheWire, ComingAlone
  <2>5. EndsInv' /\ up' \in [Sock -> Seq(Request)] /\ down' \in [Sock -> Seq(Frame)]
    BY <1>0, <1>1, <1>3, <2>2, <2>3, <2>4, HostReadsIt
  <2>6. OnlyTheHolderSits'
    BY <1>0, <1>3, <2>1, <2>2, <2>3 DEF OnlyTheHolderSits, tables
  <2> QED
    BY <1>3, <2>3, <2>5, <2>6, OnlyTheHost
<1> QED
  BY <1>2, <1>3 DEF Login

(* An attempt is counted, and nothing else is told.                        *)
LEMMA EnrolRefusedKeeps ==
  ASSUME DoorsInv, NEW s \in Sock, Reads(s), Head(up[s]).is # "bye", EnrolRefused(s)
  PROVE  DoorsInv'
<1>0. EndsTyped /\ EndsInv /\ OnlyTheHolderSits /\ Typed
  BY DEF DoorsInv, Typed
<1> DEFINE h == [host[s] EXCEPT !.tries = @ + 1]
<1>1. /\ host' = [host EXCEPT ![s] = h] /\ UNCHANGED <<tables, client, account, down>>
  BY <1>0 DEF EnrolRefused, tables, EndsTyped
<1>2. /\ h \in Sitting /\ h.at = host[s].at /\ h.as = host[s].as
      /\ h.going = host[s].going /\ h.orphan = host[s].orphan /\ h.salt = host[s].salt
  <2>1. host[s] \in Sitting
    BY <1>0 DEF EndsTyped
  <2> QED
    BY <2>1 DEF Sitting
<1> HIDE DEF h
<1>3. /\ HostTyped' /\ host'[s] = h
      /\ \A t \in Sock : t # s => host'[t] = host[t]
  BY <1>0, <1>1, <1>2 DEF HostTyped, EndsTyped
<1>4. <<>> \in Seq(Frame) /\ ~Coming(<<>>, "bye") /\ ~Coming(<<>>, "welcome")
  <2>1. <<>> \in Seq(Frame)
    OBVIOUS
  <2>2. \A kind : ~Coming(<<>>, kind)
    BY ComingAlone
  <2> QED
    BY <2>1, <2>2
<1>5. ToClient(s, <<>>)
  <2>1. down[s] \o <<>> = down[s] /\ down \in [Sock -> Seq(Frame)]
    BY <1>0, ConcatEmptySeq DEF EndsTyped
  <2> QED
    BY <1>1, <2>1 DEF ToClient
<1>6. host[s].at # "none"
  BY DEF Reads
<1>7. EndsInv' /\ up' \in [Sock -> Seq(Request)] /\ down' \in [Sock -> Seq(Frame)]
  BY <1>0, <1>1, <1>2, <1>3, <1>4, <1>5, <1>6, HostReadsIt
<1>8. OnlyTheHolderSits'
  BY <1>0, <1>1, <1>2, <1>3 DEF OnlyTheHolderSits
<1> QED
  BY <1>1, <1>3, <1>7, <1>8, OnlyTheHost

(* _show_out: whoever had the seat is on the way out before the seat has   *)
(* another password; and a seat that is made is nobody's yet.              *)
LEMMA TakesItUpKeeps ==
  ASSUME DoorsInv, NEW s \in Sock, Reads(s), Head(up[s]).is # "bye",
         NEW c \in Code, invite[c].is = "live", NEW n \in Name, NEW pw \in Person,
         TakesItUp(s, c, n, pw)
  PROVE  DoorsInv'
<1>0. EndsTyped /\ EndsInv /\ OnlyTheHolderSits /\ Typed /\ TablesTyped
  BY DEF DoorsInv, Typed
<1> DEFINE e == invite[c].to
           seat == SeatOf(e)
           h == [host EXCEPT ![s].tries = @ + 1]
<1>1. /\ host' = IF seat = Nobody THEN h ELSE ShownOut(h, seat)
      /\ ToClient(s, <<Enrolled(n)>>) /\ UNCHANGED client
  BY DEF TakesItUp
<1>2. /\ h \in [Sock -> Sitting]
      /\ \A t \in Sock : /\ h[t].at = host[t].at /\ h[t].as = host[t].as
                         /\ h[t].going = host[t].going /\ h[t].orphan = host[t].orphan
                         /\ h[t].salt = host[t].salt
  <2>1. h = [host EXCEPT ![s] = [host[s] EXCEPT !.tries = @ + 1]] /\ host[s] \in Sitting
    BY <1>0 DEF EndsTyped
  <2> DEFINE g == [host[s] EXCEPT !.tries = @ + 1]
  <2>2. /\ g \in Sitting /\ g.at = host[s].at /\ g.as = host[s].as
        /\ g.going = host[s].going /\ g.orphan = host[s].orphan /\ g.salt = host[s].salt
    BY <2>1 DEF Sitting
  <2>3. h = [host EXCEPT ![s] = g]
    BY <2>1
  <2> HIDE DEF g, h
  <2> QED
    BY <1>0, <2>2, <2>3 DEF EndsTyped
<1> HIDE DEF h
<1>3. \A t \in Sock : /\ Going(h[t]) \in Sitting /\ Going(h[t]).at = h[t].at
                    /\ Going(h[t]).as = h[t].as /\ Going(h[t]).going = TRUE
  BY <1>2 DEF Going, Sitting
<1>4. /\ DOMAIN host' = Sock
      /\ \A t \in Sock : /\ host'[t] = h[t] \/ host'[t] = Going(h[t])
                         /\ seat # Nobody /\ h[t].at = "in" /\ h[t].as = seat =>
                              host'[t] = Going(h[t])
  <2>1. CASE seat = Nobody
    BY <1>1, <1>2, <2>1
  <2>2. CASE seat # Nobody
    BY <1>1, <1>2, <2>2 DEF ShownOut
  <2> QED
    BY <2>1, <2>2
<1>5. ASSUME NEW t \in Sock
      PROVE  host'[t] \in Sitting /\ host'[t].at = host[t].at /\ host'[t].as = host[t].as
  <2>1. CASE host'[t] = h[t]
    BY <1>2, <2>1
  <2>2. CASE host'[t] = Going(h[t])
    BY <1>2, <1>3, <2>2
  <2> QED
    BY <1>4, <2>1, <2>2
<1>6. HostTyped'
  <2>1. host' = [t \in Sock |-> host'[t]]
    BY <1>1, <1>2 DEF ShownOut
  <2>2. host' \in [Sock -> Sitting]
    BY <1>5, <2>1
  <2> QED
    BY <1>0, <1>5, <2>2 DEF HostTyped, EndsTyped
<1>7. /\ <<Enrolled(n)>> \in Seq(Frame)
      /\ ~Coming(<<Enrolled(n)>>, "bye") /\ ~Coming(<<Enrolled(n)>>, "welcome")
  BY OnTheWire, ComingAlone
<1>8. EndsInv' /\ up' \in [Sock -> Seq(Request)] /\ down' \in [Sock -> Seq(Frame)]
  <2>1. host[s].at # "none"
    BY DEF Reads
  <2> QED
    BY <1>0, <1>1, <1>5, <1>7, <2>1, HostReadsIt
<1>9. TablesTyped'
  BY <1>0, TakesItUpTyped
<1>10. OnlyTheHolderSits'
  <2> SUFFICES ASSUME NEW t \in Sock, host'[t].at = "in", ~host'[t].going, ~host'[t].orphan
               PROVE  /\ account'[host'[t].as] # Nobody
                      /\ account'[host'[t].as].salt = host'[t].salt
    BY DEF OnlyTheHolderSits
  <2>1. host'[t] = h[t] /\ ~host[t].going /\ ~host[t].orphan /\ host[t].at = "in"
        /\ host'[t].as = host[t].as /\ host'[t].salt = host[t].salt /\ host[t].as \in Id
    <3>1. host'[t] = h[t]
      <4>1. Going(h[t]).going = TRUE
        BY <1>3
      <4>2. host'[t] = h[t] \/ host'[t] = Going(h[t])
        BY <1>4
      <4> QED
        BY <4>1, <4>2
    <3>2. /\ h[t].at = host[t].at /\ h[t].as = host[t].as
          /\ h[t].going = host[t].going /\ h[t].orphan = host[t].orphan
          /\ h[t].salt = host[t].salt
      BY <1>2
    <3>3. host[t].at = "in"
      BY <3>1, <3>2
    <3>4. host[t].as \in Id
      BY <1>0, <3>3 DEF EndsTyped
    <3> QED
      BY <3>1, <3>2, <3>3, <3>4
  <2>2. account[host[t].as] # Nobody /\ account[host[t].as].salt = host[t].salt
    BY <1>0, <2>1 DEF OnlyTheHolderSits
  <2>3. \/ /\ seat = Nobody
           /\ \E i \in Id :
                /\ account[i] = Nobody
                /\ account' = [account EXCEPT ![i] =
                                 [name |-> n, pw |-> pw, salt |-> c, plays |-> e]]
        \/ /\ seat \in Players(e)
           /\ account' = [account EXCEPT ![seat].name = n, ![seat].pw = pw, ![seat].salt = c]
    <3>1. SeatTaken(c, n, pw, e)
      BY <1>0, SeatMadeOrMoved
    <3> QED
      BY <3>1 DEF SeatTaken
  <2>4. CASE \E i \in Id : /\ account[i] = Nobody
                         /\ account' = [account EXCEPT ![i] =
                                          [name |-> n, pw |-> pw, salt |-> c, plays |-> e]]
    BY <1>0, <2>1, <2>2, <2>4 DEF TablesTyped
  <2>5. CASE /\ seat \in Players(e)
             /\ account' = [account EXCEPT ![seat].name = n, ![seat].pw = pw, ![seat].salt = c]
    <3>1. seat \in Id /\ account[seat] # Nobody /\ seat # Nobody
      BY <2>5, NobodyIsNoId DEF Players
    <3>2. host[t].as # seat
      <4>1. h[t].at = "in" /\ (h[t].as = seat => host'[t] = Going(h[t]))
        BY <1>2, <1>4, <2>1, <3>1
      <4>2. Going(h[t]).going = TRUE
        BY <1>3
      <4> QED
        BY <1>2, <4>1, <4>2
    <3>3. account'[host[t].as] = account[host[t].as]
      BY <1>0, <2>1, <2>5, <3>1, <3>2, MovedKeepsThePlay
    <3> QED
      BY <2>1, <2>2, <3>3
  <2> QED
    BY <2>3, <2>4, <2>5
<1>11. EndsTyped'
  BY <1>0, <1>1, <1>6, <1>8 DEF EndsTyped, HostTyped
<1> QED
  BY <1>8, <1>9, <1>10, <1>11 DEF DoorsInv, Typed

LEMMA EnrolKeeps ==
  ASSUME DoorsInv, NEW s \in Sock, Enrol(s)
  PROVE  DoorsInv'
<1> DEFINE m == Head(up[s])
<1>1. Reads(s) /\ m.is = "enrol" /\ m.is # "bye"
  BY DEF Enrol
<1>2. m.name \in Name /\ m.pw \in Person
  BY <1>1, ReadTheHead, RequestIsOneOf DEF DoorsInv, Typed
<1>3. CASE Refused(s, <<>>)
  BY <1>1, <1>3, RefusedKeeps
<1>4. CASE EnrolRefused(s)
  BY <1>1, <1>4, EnrolRefusedKeeps
<1>5. ASSUME NEW c \in Opened(m), TakesItUp(s, c, m.name, m.pw) PROVE DoorsInv'
  <2>1. c \in Code /\ invite[c].is = "live"
    BY DEF Opened, LiveInvites
  <2> QED
    BY <1>1, <1>2, <1>5, <2>1, TakesItUpKeeps
<1> QED
  BY <1>3, <1>4, <1>5 DEF Enrol

(* The host's end of a connection goes, whoever let go of it first.        *)
LEMMA HostEndGoes ==
  ASSUME DoorsInv, NEW s \in Sock, UNCHANGED <<tables, client>>,
         host' = [host EXCEPT ![s] = NotThere], up' = [up EXCEPT ![s] = <<>>],
         down' \in [Sock -> Seq(Frame)],
         \A t \in Sock : t # s => down'[t] = down[t],
         ~Listened(s) => down'[s] = down[s],
         Listened(s) => Coming(down'[s], "bye")
  PROVE  DoorsInv'
<1>0. EndsTyped /\ EndsInv /\ OnlyTheHolderSits /\ Typed
  BY DEF DoorsInv, Typed
<1>1. NotThere \in Sitting /\ NotThere.at = "none"
  BY DEF NotThere, Sitting, Salt
<1>2. HostTyped' /\ host'[s].at = "none" /\ \A t \in Sock : t # s => host'[t] = host[t]
  BY <1>0, <1>1 DEF HostTyped, EndsTyped
<1>3. up' \in [Sock -> Seq(Request)]
  <2>1. <<>> \in Seq(Request)
    OBVIOUS
  <2> QED
    BY <1>0, <2>1 DEF EndsTyped
<1>4. EndsInv'
  BY <1>0, <1>2, HostLetsGo
<1>5. OnlyTheHolderSits'
  BY <1>0, <1>2, HoldersStand DEF tables
<1> QED
  BY <1>2, <1>3, <1>4, <1>5, OnlyTheHost

(* Whoever has said goodbye and still listens has been told goodbye.       *)
LEMMA GoneKeeps ==
  ASSUME DoorsInv, NEW s \in Sock, Gone(s)
  PROVE  DoorsInv'
<1>0. EndsTyped /\ EndsInv
  BY DEF DoorsInv, Typed
<1>1. Coming(up[s], "bye")
  BY <1>0, ComingTakenOff DEF Gone, EndsTyped
<1>2. Listened(s) => Coming(down[s], "bye")
  BY <1>0, <1>1 DEF EndsInv, Wire
<1> QED
  BY <1>0, <1>2, HostEndGoes DEF Gone, EndsTyped

LEMMA ClosingKeeps ==
  ASSUME DoorsInv, NEW s \in Sock, Closing(s)
  PROVE  DoorsInv'
<1>0. EndsTyped /\ EndsInv
  BY DEF DoorsInv, Typed
<1>1. HostCloses(s) /\ UNCHANGED <<tables, client>>
  BY DEF Closing, Close, DropSilent
<1>2. <<Bye>> \in Seq(Frame) /\ Coming(<<Bye>>, "bye")
  BY OnTheWire, ComingAlone
<1>3. /\ down' \in [Sock -> Seq(Frame)]
      /\ \A t \in Sock : t # s => down'[t] = down[t]
      /\ ~Listened(s) => down'[s] = down[s]
      /\ Listened(s) => Coming(down'[s], "bye")
  <2>1. ToClient(s, <<Bye>>)
    BY <1>1 DEF HostCloses
  <2> QED
    BY <1>0, <1>2, <2>1, ToldTheClient
<1> QED
  BY <1>1, <1>3, HostEndGoes DEF HostCloses

(* A broken connection tells both ends.                                    *)
LEMMA BreakKeeps ==
  ASSUME DoorsInv, NEW s \in Sock, Break(s)
  PROVE  DoorsInv'
<1>0. EndsTyped /\ EndsInv /\ OnlyTheHolderSits /\ Typed
  BY DEF DoorsInv, Typed
<1>1. UNCHANGED <<tables, client, host, account>>
  BY DEF Break, tables
<1>2. /\ <<Bye>> \in Seq(Request) /\ <<Bye>> \in Seq(Frame)
      /\ Coming(<<Bye>>, "bye") /\ ~Coming(<<Bye>>, "welcome")
  BY OnTheWire, ComingAlone
<1>3. <<>> \in Seq(Frame) /\ ~Coming(<<>>, "bye") /\ ~Coming(<<>>, "welcome")
  <2>1. <<>> \in Seq(Frame)
    OBVIOUS
  <2>2. \A kind : ~Coming(<<>>, kind)
    BY ComingAlone
  <2> QED
    BY <2>1, <2>2
<1>4. /\ up' \in [Sock -> Seq(Request)] /\ up'[s] = <<Bye>>
      /\ \A t \in Sock : t # s => up'[t] = up[t]
  BY <1>0, <1>2 DEF Break, EndsTyped
<1>5. /\ down' \in [Sock -> Seq(Frame)]
      /\ down'[s] = IF Listened(s) THEN <<Bye>> ELSE <<>>
      /\ \A t \in Sock : t # s => down'[t] = down[t]
  BY <1>0, <1>2, <1>3 DEF Break, EndsTyped
<1>6. Listened(s)' <=> Listened(s)
  BY <1>1 DEF Listened
<1>7. Wire(s)'
  BY <1>2, <1>3, <1>4, <1>5, <1>6 DEF Wire
<1>8. ASSUME NEW p \in Person, client[p].on = s PROVE Sits(p)'
  <2>1. Sits(p) /\ Listened(s)
    BY <1>0, <1>8 DEF EndsInv, Listened
  <2> QED
    BY <1>1, <1>2, <1>5, <1>8, <2>1 DEF Sits
<1>9. EndsInv'
  BY <1>0, <1>1, <1>4, <1>5, <1>7, <1>8, OneConnection
<1>10. HostTyped' /\ OnlyTheHolderSits'
  BY <1>0, <1>1 DEF HostTyped, EndsTyped, OnlyTheHolderSits
<1> QED
  BY <1>1, <1>4, <1>5, <1>9, <1>10, OnlyTheHost

LEMMA StopKeeps ==
  ASSUME DoorsInv, Stop
  PROVE  DoorsInv'
<1>0. EndsTyped /\ EndsInv /\ OnlyTheHolderSits /\ Typed
  BY DEF DoorsInv, Typed
<1>1. UNCHANGED <<tables, client, account>>
  BY DEF Stop, tables
<1>2. NotThere \in Sitting /\ NotThere.at = "none"
  BY DEF NotThere, Sitting, Salt
<1>3. HostTyped' /\ \A s \in Sock : host'[s].at = "none"
  BY <1>2 DEF HostTyped, Stop
<1>4. up' \in [Sock -> Seq(Request)] /\ \A s \in Sock : up'[s] = <<>>
  <2>1. <<>> \in Seq(Request)
    OBVIOUS
  <2> QED
    BY <2>1 DEF Stop
<1>5. ASSUME NEW s \in Sock
      PROVE  /\ down'[s] \in Seq(Frame)
             /\ ~Listened(s) => down'[s] = down[s]
             /\ Listened(s) => Coming(down'[s], "bye")
  <2>1. down[s] \in Seq(Frame) /\ Bye \in Frame /\ Bye.is = "bye"
    BY <1>0, OnTheWire DEF EndsTyped
  <2>2. Append(down[s], Bye) \in Seq(Frame) /\ Coming(Append(down[s], Bye), "bye")
    BY <2>1, ComingAppended
  <2>3. CASE host[s].at = "none" \/ ~Listened(s)
    <3>1. down'[s] = down[s]
      BY <2>3 DEF Stop
    <3>2. Wire(s)
      BY <1>0 DEF EndsInv
    <3> QED
      BY <2>1, <2>3, <3>1, <3>2 DEF Wire
  <2>4. CASE ~(host[s].at = "none" \/ ~Listened(s))
    <3>1. down'[s] = Append(down[s], Bye)
      BY <2>4 DEF Stop
    <3> QED
      BY <2>2, <2>4, <3>1
  <2> QED
    BY <2>3, <2>4
<1>6. down' \in [Sock -> Seq(Frame)]
  BY <1>5 DEF Stop
<1>7. ~Coming(<<>>, "bye")
  BY ComingAlone
<1>8. ASSUME NEW s \in Sock PROVE Wire(s)'
  <2>1. Wire(s)
    BY <1>0 DEF EndsInv
  <2>2. Listened(s)' <=> Listened(s)
    BY <1>1 DEF Listened
  <2>3. host'[s].at = "none" /\ up'[s] = <<>>
    BY <1>3, <1>4
  <2>4. ~Listened(s) => down'[s] = <<>>
    BY <1>5, <2>1 DEF Wire
  <2>5. ~Listened(s) => ~Coming(down'[s], "welcome")
    BY <2>4, ComingAlone
  <2> QED
    BY <1>5, <1>7, <2>2, <2>3, <2>4, <2>5 DEF Wire
<1>9. ASSUME NEW p \in Person PROVE Sits(p)'
  <2>1. CASE client[p].on # Nobody
    <3>1. client[p].on \in Sock
      BY <1>0, <2>1 DEF EndsTyped, Client
    <3>2. Listened(client[p].on)
      BY DEF Listened
    <3>3. Coming(down'[client[p].on], "bye") /\ host'[client[p].on].at = "none"
      BY <1>3, <1>5, <3>1, <3>2
    <3> QED
      BY <1>1, <2>1, <3>3 DEF Sits
  <2>2. CASE client[p].on = Nobody
    BY <1>0, <1>1, <2>2 DEF EndsInv, Sits
  <2> QED
    BY <2>1, <2>2
<1>10. EndsInv'
  BY <1>0, <1>1, <1>8, <1>9 DEF EndsInv, OnePerson
<1>11. OnlyTheHolderSits'
  BY <1>3 DEF OnlyTheHolderSits
<1> QED
  BY <1>1, <1>3, <1>4, <1>6, <1>10, <1>11, OnlyTheHost

-----------------------------------------------------------------------------
(* The tables, in the DM's hands                                           *)

(* No end of any connection moves.                                         *)
LEMMA EndsStand ==
  ASSUME EndsTyped, EndsInv, UNCHANGED <<client, up, down>>,
         \A s \in Sock : host'[s].at = host[s].at
  PROVE  EndsInv'
<1>1. ASSUME NEW s \in Sock PROVE Wire(s)'
  <2>1. Listened(s)' <=> Listened(s)
    BY DEF Listened
  <2> QED
    BY <2>1 DEF EndsInv, Wire
<1>2. ASSUME NEW p \in Person PROVE Sits(p)'
  <2>1. CASE client[p].on # Nobody
    <3>1. client[p].on \in Sock
      BY <2>1 DEF EndsTyped, Client
    <3> QED
      BY <3>1 DEF EndsInv, Sits
  <2>2. CASE client[p].on = Nobody
    BY <2>2 DEF EndsInv, Sits
  <2> QED
    BY <2>1, <2>2
<1> QED
  BY <1>1, <1>2 DEF EndsInv, OnePerson

LEMMA TablesKeep ==
  ASSUME DoorsInv, UNCHANGED <<host, client, up, down>>, TablesTyped', OnlyTheHolderSits'
  PROVE  DoorsInv'
<1>1. EndsInv'
  BY EndsStand DEF DoorsInv, Typed
<1>2. EndsTyped'
  BY DEF DoorsInv, Typed, EndsTyped
<1> QED
  BY <1>1, <1>2 DEF DoorsInv, Typed

LEMMA DmKeeps ==
  ASSUME DoorsInv,
         \/ Start
         \/ \E c \in Code : Expire(c) \/ \E e \in Character : Invite(c, e)
         \/ \E i \in Id, e \in Character \cup {Nobody} : Save(i, e)
  PROVE  DoorsInv'
<1>0. EndsTyped /\ OnlyTheHolderSits /\ TablesTyped
  BY DEF DoorsInv, Typed
<1>1. CASE Start
  BY <1>0, <1>1, TablesKeep DEF Start, TablesTyped, OnlyTheHolderSits
<1>2. ASSUME NEW c \in Code, Expire(c) PROVE DoorsInv'
  <2>1. TablesTyped'
    BY <1>0, <1>2 DEF Expire, TablesTyped
  <2>2. OnlyTheHolderSits'
    BY <1>0, <1>2 DEF Expire, OnlyTheHolderSits
  <2> QED
    BY <1>2, <2>1, <2>2, TablesKeep DEF Expire
<1>3. ASSUME NEW c \in Code, NEW e \in Character, Invite(c, e) PROVE DoorsInv'
  <2> DEFINE Row == [to : Character \cup {Nobody},
                     is : {"unmade", "live", "replaced", "used", "expired"}]
  <2>1. ASSUME NEW d \in Code
        PROVE  invite'[d] \in Row /\ (invite'[d].is = "live" => invite'[d].to \in Character)
    <3>1. invite[d] \in Row
      BY <1>0 DEF TablesTyped
    <3>3. [invite[d] EXCEPT !.is = "replaced"] \in Row
      BY <3>1
    <3>4. \/ invite'[d] = [to |-> e, is |-> "live"]
          \/ invite'[d] = [invite[d] EXCEPT !.is = "replaced"]
          \/ invite'[d] = invite[d]
      BY <1>3 DEF Invite, Replacing
    <3>5. [invite[d] EXCEPT !.is = "replaced"].is = "replaced"
      BY <3>1
    <3>6. invite[d].is = "live" => invite[d].to \in Character
      BY <1>0 DEF TablesTyped
    <3>7. CASE invite'[d] = [to |-> e, is |-> "live"]
      BY <3>7
    <3>8. CASE invite'[d] = [invite[d] EXCEPT !.is = "replaced"]
      <4> HIDE DEF Row
      <4> QED
        BY <3>3, <3>5, <3>8
    <3>9. CASE invite'[d] = invite[d]
      <4> HIDE DEF Row
      <4> QED
        BY <3>1, <3>6, <3>9
    <3> QED
      BY <3>4, <3>7, <3>8, <3>9
  <2>2. invite' \in [Code -> Row]
    <3>1. invite' = [d \in Code |-> invite'[d]]
      BY <1>3 DEF Invite, Replacing
    <3> HIDE DEF Row
    <3> QED
      BY <2>1, <3>1
  <2>3. TablesTyped'
    BY <1>0, <1>3, <2>1, <2>2 DEF Invite, TablesTyped
  <2>4. OnlyTheHolderSits'
    BY <1>0, <1>3 DEF Invite, OnlyTheHolderSits
  <2> QED
    BY <1>3, <2>3, <2>4, TablesKeep DEF Invite
<1>4. ASSUME NEW i \in Id, NEW e \in Character \cup {Nobody}, Save(i, e) PROVE DoorsInv'
  <2>1. account[i] \in Account /\ account' = [account EXCEPT ![i] = [@ EXCEPT !.plays = e]]
    BY <1>0, <1>4 DEF Save, TablesTyped
  <2> DEFINE a == [account[i] EXCEPT !.plays = e]
  <2>2. a \in Account /\ a.salt = account[i].salt /\ a # Nobody
    BY <2>1, NobodyIsNoId DEF Account
  <2>3. account' = [account EXCEPT ![i] = a]
    BY <2>1
  <2> HIDE DEF a
  <2>4. TablesTyped'
    BY <1>0, <1>4, <2>2, <2>3 DEF Save, TablesTyped
  <2>5. OnlyTheHolderSits'
    <3> SUFFICES ASSUME NEW s \in Sock, host[s].at = "in", ~host[s].going, ~host[s].orphan
                 PROVE  account'[host[s].as] # Nobody /\ account'[host[s].as].salt = host[s].salt
      BY <1>4 DEF Save, OnlyTheHolderSits
    <3>1. account[host[s].as] # Nobody /\ account[host[s].as].salt = host[s].salt
      BY <1>0 DEF OnlyTheHolderSits
    <3>2. host[s].as \in Id
      BY <1>0 DEF EndsTyped
    <3> QED
      BY <1>0, <2>2, <2>3, <3>1, <3>2 DEF TablesTyped
  <2> QED
    BY <1>4, <2>4, <2>5, TablesKeep DEF Save
<1> QED
  BY <1>1, <1>2, <1>3, <1>4

(* A login removed from under somebody is not meant by OnlyTheHolderSits.  *)
LEMMA RemoveLoginKeeps ==
  ASSUME DoorsInv, NEW i \in Id, RemoveLogin(i)
  PROVE  DoorsInv'
<1>0. EndsTyped /\ EndsInv /\ OnlyTheHolderSits /\ TablesTyped
  BY DEF DoorsInv, Typed
<1>1. ASSUME NEW s \in Sock
      PROVE  /\ host'[s] \in Sitting /\ host'[s].at = host[s].at /\ host'[s].as = host[s].as
             /\ host'[s].orphan \/ (host'[s] = host[s] /\ (host[s].at = "in" => host[s].as # i))
  <2> DEFINE h == [host[s] EXCEPT !.orphan = TRUE]
  <2>1. host[s] \in Sitting
    BY <1>0 DEF EndsTyped
  <2>2. h \in Sitting /\ h.at = host[s].at /\ h.as = host[s].as /\ h.orphan = TRUE
    BY <2>1 DEF Sitting
  <2>3. \/ host[s].at = "in" /\ host[s].as = i /\ host'[s] = h
        \/ ~(host[s].at = "in" /\ host[s].as = i) /\ host'[s] = host[s]
    BY DEF RemoveLogin
  <2> HIDE DEF h
  <2> QED
    BY <2>1, <2>2, <2>3
<1>2. host' \in [Sock -> Sitting]
  <2>1. host' = [s \in Sock |-> host'[s]]
    BY DEF RemoveLogin
  <2> QED
    BY <1>1, <2>1
<1>3. EndsTyped'
  BY <1>0, <1>1, <1>2 DEF EndsTyped, RemoveLogin
<1>4. EndsInv'
  BY <1>0, <1>1, EndsStand DEF RemoveLogin
<1>5. TablesTyped'
  BY <1>0 DEF RemoveLogin, TablesTyped
<1>6. OnlyTheHolderSits'
  <2> SUFFICES ASSUME NEW s \in Sock, host'[s].at = "in", ~host'[s].going, ~host'[s].orphan
               PROVE  /\ account'[host'[s].as] # Nobody
                      /\ account'[host'[s].as].salt = host'[s].salt
    BY DEF OnlyTheHolderSits
  <2>1. host'[s] = host[s] /\ host[s].as # i /\ host[s].at = "in"
    BY <1>1
  <2>2. account[host[s].as] # Nobody /\ account[host[s].as].salt = host[s].salt
    BY <1>0, <2>1 DEF OnlyTheHolderSits
  <2>3. account'[host[s].as] = account[host[s].as]
    BY <1>0, <2>1 DEF RemoveLogin, TablesTyped, EndsTyped
  <2> QED
    BY <2>1, <2>2, <2>3
<1> QED
  BY <1>3, <1>4, <1>5, <1>6 DEF DoorsInv, Typed

-----------------------------------------------------------------------------
(* One connection, from the client's end                                   *)

(* It lets go, and the host is told or knows.                              *)
LEMMA ClientLetsGo ==
  ASSUME EndsInv, EndsTyped, UNCHANGED host, NEW p \in Person, NEW c,
         client' = [client EXCEPT ![p] = c], c.on = Nobody, ~c.in,
         \A t \in Sock : t # client[p].on => up'[t] = up[t] /\ down'[t] = down[t],
         client[p].on # Nobody =>
           /\ down'[client[p].on] = <<>>
           /\ host[client[p].on].at # "none" => Coming(up'[client[p].on], "bye")
  PROVE  EndsInv'
<1> DEFINE s == client[p].on
<1>1. client'[p] = c /\ \A q \in Person : q # p => client'[q] = client[q]
  BY DEF EndsTyped
<1>2. OnePerson'
  BY <1>1 DEF EndsInv, OnePerson
<1>3. ASSUME NEW t \in Sock PROVE Wire(t)'
  <2>1. CASE t = s
    <3>1. ~Listened(t)'
      BY <1>1, <2>1, NobodyIsNoId DEF EndsInv, OnePerson, Listened
    <3>2. ~Coming(<<>>, "bye") /\ ~Coming(<<>>, "welcome")
      BY ComingAlone
    <3>3. s # Nobody /\ down'[t] = <<>> /\ (host[t].at # "none" => Coming(up'[t], "bye"))
      BY <2>1, NobodyIsNoId
    <3> QED
      BY <3>1, <3>2, <3>3 DEF Wire
  <2>2. CASE t # s
    <3>1. Listened(t)' <=> Listened(t)
      BY <1>1, <2>2, NobodyIsNoId DEF Listened
    <3> QED
      BY <2>2, <3>1 DEF EndsInv, Wire
  <2> QED
    BY <2>1, <2>2
<1>4. ASSUME NEW q \in Person PROVE Sits(q)'
  <2>1. CASE q = p
    BY <1>1, <2>1 DEF Sits
  <2>2. CASE q # p /\ client[q].on # Nobody
    <3>1. client[q].on \in Sock /\ client[q].on # s
      BY <2>2 DEF EndsInv, OnePerson, EndsTyped, Client
    <3> QED
      BY <1>1, <2>2, <3>1 DEF EndsInv, Sits
  <2>3. CASE q # p /\ client[q].on = Nobody
    BY <1>1, <2>3 DEF EndsInv, Sits
  <2> QED
    BY <2>1, <2>2, <2>3
<1> QED
  BY <1>2, <1>3, <1>4 DEF EndsInv

(* It reads a frame that is not the host's goodbye.                        *)
LEMMA ClientReadsIt ==
  ASSUME EndsInv, EndsTyped, UNCHANGED host, NEW p \in Person, NEW s \in Sock,
         client[p].on = s,
         \A q \in Person : client'[q].on = client[q].on,
         \A q \in Person : q # p => client'[q].in = client[q].in,
         \A t \in Sock : t # s => up'[t] = up[t] /\ down'[t] = down[t],
         Coming(up'[s], "bye") <=> Coming(up[s], "bye"),
         Coming(down'[s], "bye") <=> Coming(down[s], "bye"),
         Coming(down'[s], "welcome") => Coming(down[s], "welcome"),
         \/ /\ client'[p].in = client[p].in
            /\ Coming(down[s], "welcome") => Coming(down'[s], "welcome")
         \/ client'[p].in = TRUE /\ Coming(down[s], "welcome")
  PROVE  EndsInv'
<1>1. OnePerson'
  BY DEF EndsInv, OnePerson
<1>2. \A t \in Sock : Listened(t)' <=> Listened(t)
  BY DEF Listened
<1>3. Listened(s)
  BY DEF Listened
<1>4. ASSUME NEW t \in Sock PROVE Wire(t)'
  <2>1. CASE t = s
    BY <1>2, <1>3, <2>1 DEF EndsInv, Wire
  <2>2. CASE t # s
    BY <1>2, <2>2 DEF EndsInv, Wire
  <2> QED
    BY <2>1, <2>2
<1>5. Sits(p)'
  <2>1. Sits(p) /\ Wire(s)
    BY DEF EndsInv
  <2>2. s # Nobody
    BY NobodyIsNoId
  <2> QED
    BY <2>1, <2>2 DEF Sits, Wire
<1>6. ASSUME NEW q \in Person, q # p PROVE Sits(q)'
  <2>1. CASE client[q].on # Nobody
    <3>1. client[q].on \in Sock /\ client[q].on # s
      BY <1>6, <2>1 DEF EndsInv, OnePerson, EndsTyped, Client
    <3> QED
      BY <1>6, <2>1, <3>1 DEF EndsInv, Sits
  <2>2. CASE client[q].on = Nobody
    BY <1>6, <2>2 DEF EndsInv, Sits
  <2> QED
    BY <2>1, <2>2
<1> QED
  BY <1>1, <1>4, <1>5, <1>6 DEF EndsInv

(* A new connection, with nobody at either end of it and nothing on it.    *)
LEMMA ClientOpens ==
  ASSUME EndsInv, EndsTyped, NEW p \in Person, NEW s \in Sock, client[p].on = Nobody,
         Free(s), Opens(p, s), host'[s].at = "new",
         \A t \in Sock : t # s => host'[t].at = host[t].at /\ up'[t] = up[t],
         ~Coming(up'[s], "bye"), UNCHANGED down
  PROVE  EndsInv'
<1>1. /\ client'[p].on = s /\ client'[p].in = client[p].in
      /\ \A q \in Person : q # p => client'[q] = client[q]
  BY DEF Opens, EndsTyped, Client
<1>2. \A q \in Person : client[q].on # s
  BY DEF Free, Listened
<1>3. ~client[p].in
  BY DEF EndsInv, Sits
<1>4. down[s] = <<>> /\ ~Coming(<<>>, "bye") /\ ~Coming(<<>>, "welcome")
  BY ComingAlone DEF Free, EndsInv, Wire
<1>5. OnePerson'
  BY <1>1, <1>2 DEF EndsInv, OnePerson
<1>6. ASSUME NEW t \in Sock PROVE Wire(t)'
  <2>1. CASE t = s
    <3>1. Listened(s)'
      BY <1>1 DEF Listened
    <3> QED
      BY <1>4, <2>1, <3>1 DEF Wire
  <2>2. CASE t # s
    <3>1. Listened(t)' <=> Listened(t)
      BY <1>1, <2>2, NobodyIsNoId DEF Listened
    <3> QED
      BY <2>2, <3>1 DEF EndsInv, Wire
  <2> QED
    BY <2>1, <2>2
<1>7. ASSUME NEW q \in Person PROVE Sits(q)'
  <2>1. CASE q = p
    BY <1>1, <1>3, <2>1 DEF Sits
  <2>2. CASE q # p /\ client[q].on # Nobody
    <3>1. client[q].on \in Sock /\ client[q].on # s
      BY <1>2, <2>2 DEF EndsTyped, Client
    <3> QED
      BY <1>1, <2>2, <3>1 DEF EndsInv, Sits
  <2>3. CASE q # p /\ client[q].on = Nobody
    BY <1>1, <2>3 DEF EndsInv, Sits
  <2> QED
    BY <2>1, <2>2, <2>3
<1> QED
  BY <1>5, <1>6, <1>7 DEF EndsInv

LEMMA AwayIsTyped ==
  /\ Away \in Client /\ Away.on = Nobody /\ Away.in = FALSE /\ Away.want = FALSE
  /\ \A n \in Name, c \in Code \cup {Nobody} :
       LET a == [Away EXCEPT !.want = TRUE, !.name = n, !.code = c, !.retry = TRUE] IN
       a \in Client /\ a.on = Nobody /\ a.in = FALSE /\ a.name = n
BY DEF Away, Client

(* leave, join, enrol: whatever it goes on to want, the host is told.      *)
LEMMA HangsUp ==
  ASSUME DoorsInv, NEW p \in Person, Hangs(p), Deaf(p), UNCHANGED <<tables, host>>,
         NEW a \in Client, a.on = Nobody, a.in = FALSE, a.want => a.name \in Name,
         client' = [client EXCEPT ![p] = a]
  PROVE  DoorsInv'
<1>0. EndsTyped /\ EndsInv /\ OnlyTheHolderSits /\ TablesTyped
  BY DEF DoorsInv, Typed
<1> DEFINE s == client[p].on
<1>1. s \in Sock \cup {Nobody}
  BY <1>0 DEF EndsTyped, Client
<1>2. Bye \in Request /\ Bye.is = "bye" /\ <<>> \in Seq(Frame)
  BY OnTheWire
<1>3. \A t \in Sock : t # s => up'[t] = up[t] /\ down'[t] = down[t]
  BY <1>0, <1>1 DEF Hangs, Deaf, EndsTyped
<1>4. ASSUME s # Nobody
      PROVE  /\ up' \in [Sock -> Seq(Request)] /\ down' \in [Sock -> Seq(Frame)]
             /\ down'[s] = <<>> /\ (host[s].at # "none" => Coming(up'[s], "bye"))
  <2>1. s \in Sock /\ up[s] \in Seq(Request)
    BY <1>0, <1>1, <1>4 DEF EndsTyped
  <2>2. Append(up[s], Bye) \in Seq(Request) /\ Coming(Append(up[s], Bye), "bye")
    BY <1>2, <2>1, ComingAppended
  <2>3. CASE host[s].at = "none"
    BY <1>0, <1>2, <1>4, <2>1, <2>3 DEF Hangs, Deaf, EndsTyped
  <2>4. CASE host[s].at # "none"
    <3>1. up' = [up EXCEPT ![s] = Append(up[s], Bye)] /\ down' = [down EXCEPT ![s] = <<>>]
      BY <1>4, <2>4 DEF Hangs, Deaf
    <3> QED
      BY <1>0, <1>2, <2>1, <2>2, <3>1 DEF EndsTyped
  <2> QED
    BY <2>3, <2>4
<1>5. up' \in [Sock -> Seq(Request)] /\ down' \in [Sock -> Seq(Frame)]
  <2>1. CASE s = Nobody
    BY <1>0, <2>1 DEF Hangs, Deaf, EndsTyped
  <2> QED
    BY <1>4, <2>1
<1>6. EndsInv'
  BY <1>0, <1>3, <1>4, ClientLetsGo
<1>7. EndsTyped'
  BY <1>0, <1>5 DEF EndsTyped
<1>8. TablesTyped' /\ OnlyTheHolderSits'
  BY <1>0 DEF tables, TablesTyped, OnlyTheHolderSits
<1> QED
  BY <1>6, <1>7, <1>8 DEF DoorsInv, Typed

LEMMA WantsOrLeaves ==
  ASSUME DoorsInv, NEW p \in Person,
         \/ Leave(p) \/ OnEnrolled(p)
         \/ \E n \in Name : Join(p, n) \/ \E c \in Code : EnrolWith(p, n, c)
  PROVE  DoorsInv'
<1>1. CASE Leave(p)
  BY <1>1, AwayIsTyped, HangsUp DEF Leave
<1>2. ASSUME NEW n \in Name, NEW c \in Code \cup {Nobody}, Asks(p, n, c), Hangs(p), Deaf(p),
             UNCHANGED <<tables, host>>
      PROVE  DoorsInv'
  <2> DEFINE a == [Away EXCEPT !.want = TRUE, !.name = n, !.code = c, !.retry = TRUE]
  <2>1. a \in Client /\ a.on = Nobody /\ a.in = FALSE /\ a.name = n
    BY AwayIsTyped
  <2>2. client' = [client EXCEPT ![p] = a]
    BY <1>2 DEF Asks
  <2> HIDE DEF a
  <2> QED
    BY <1>2, <2>1, <2>2, HangsUp
<1>3. CASE OnEnrolled(p)
  <2> DEFINE s == client[p].on
             m == Head(down[s])
  <2>1. s \in Sock /\ down[s] # <<>> /\ m.is = "enrolled"
    BY <1>3 DEF OnEnrolled, Hears, At, DoorsInv, Typed, EndsTyped, Client
  <2>2. m \in Frame
    BY <2>1, ComingTakenOff DEF DoorsInv, Typed, EndsTyped
  <2>3. m.name \in Name
    BY <2>1, <2>2, FrameIsOneOf
  <2>4. Asks(p, m.name, Nobody) /\ Hangs(p) /\ Deaf(p) /\ UNCHANGED <<tables, host>>
    BY <1>3 DEF OnEnrolled, At
  <2> QED
    BY <1>2, <2>3, <2>4
<1>4. ASSUME NEW n \in Name, Join(p, n) PROVE DoorsInv'
  BY <1>2, <1>4 DEF Join
<1>5. ASSUME NEW n \in Name, NEW c \in Code, EnrolWith(p, n, c) PROVE DoorsInv'
  BY <1>2, <1>5 DEF EnrolWith
<1> QED
  BY <1>1, <1>3, <1>4, <1>5

LEMMA ConnectKeeps ==
  ASSUME DoorsInv, NEW p \in Person, Connect(p)
  PROVE  DoorsInv'
<1>0. EndsTyped /\ EndsInv /\ OnlyTheHolderSits /\ TablesTyped
  BY DEF DoorsInv, Typed
<1> DEFINE m == [is |-> "hello", name |-> client[p].name]
<1>1. PICK s \in Sock : /\ Free(s) /\ Opens(p, s)
                        /\ host' = [host EXCEPT ![s] = Fresh] /\ ToHost(s, m)
  BY DEF Connect
<1>2. client[p].want /\ client[p].on = Nobody /\ UNCHANGED <<tables, down>>
  BY DEF Connect
<1>3. Fresh \in Sitting /\ Fresh.at = "new"
  BY DEF Fresh, NotThere, Sitting, Salt
<1>4. m \in Request /\ m.is = "hello"
  BY <1>0, <1>2 DEF Request, EndsTyped
<1>5. /\ up' \in [Sock -> Seq(Request)] /\ ~Coming(up'[s], "bye")
      /\ \A t \in Sock : t # s => up'[t] = up[t]
  <2> HIDE DEF m
  <2>1. up[s] \in Seq(Request) /\ ~Coming(up[s], "bye")
    BY <1>0, <1>1, ComingAlone DEF Free, EndsTyped
  <2>2. Append(up[s], m) \in Seq(Request) /\ ~Coming(Append(up[s], m), "bye")
    BY <1>4, <2>1, ComingAppended
  <2>3. up' = [up EXCEPT ![s] = Append(up[s], m)]
    BY <1>1 DEF ToHost
  <2> QED
    BY <1>0, <2>2, <2>3 DEF EndsTyped
<1>6. /\ HostTyped' /\ host'[s] = Fresh /\ \A t \in Sock : t # s => host'[t] = host[t]
  BY <1>0, <1>1, <1>3 DEF EndsTyped, HostTyped
<1>7. client[p] \in Client /\ [client[p] EXCEPT !.on = s, !.retry = FALSE] \in Client
  BY <1>0 DEF EndsTyped, Client
<1>8. /\ client' \in [Person -> Client]
      /\ \A q \in Person : client'[q].want \/ client'[q].on # Nobody => client'[q].name \in Name
  <2> DEFINE a == [client[p] EXCEPT !.on = s, !.retry = FALSE]
  <2>1. client' = [client EXCEPT ![p] = a]
    BY <1>0, <1>1 DEF Opens, EndsTyped
  <2>2. a \in Client /\ a.name = client[p].name
    BY <1>7 DEF Client
  <2>3. client[p].name \in Name
    BY <1>0, <1>2 DEF EndsTyped
  <2> HIDE DEF a
  <2> QED
    BY <1>0, <2>1, <2>2, <2>3 DEF EndsTyped
<1>9. EndsInv'
  BY <1>0, <1>1, <1>2, <1>3, <1>5, <1>6, ClientOpens
<1>10. EndsTyped'
  BY <1>0, <1>2, <1>5, <1>6, <1>8 DEF EndsTyped, HostTyped
<1>11. TablesTyped' /\ OnlyTheHolderSits'
  BY <1>0, <1>2, <1>3, <1>6 DEF tables, TablesTyped, OnlyTheHolderSits
<1> QED
  BY <1>9, <1>10, <1>11 DEF DoorsInv, Typed

(* What is heard is taken off, and nothing of it is the host's goodbye.    *)
LEMMA HeardIt ==
  ASSUME EndsTyped, NEW p \in Person, NEW kind \in {"challenge", "welcome", "bad_login"},
         Hears(p, kind), Heard(p)
  PROVE  /\ At(p) \in Sock /\ down' \in [Sock -> Seq(Frame)]
         /\ Head(down[At(p)]) \in Frame /\ Head(down[At(p)]).is = kind
         /\ \A t \in Sock : t # At(p) => down'[t] = down[t]
         /\ \A k : Coming(down[At(p)], k) <=> k = kind \/ Coming(down'[At(p)], k)
<1> DEFINE s == At(p)
<1>1. s \in Sock /\ down[s] # <<>> /\ Head(down[s]).is = kind /\ down[s] \in Seq(Frame)
  BY DEF Hears, At, EndsTyped, Client
<1>2. /\ Tail(down[s]) \in Seq(Frame) /\ Head(down[s]) \in Frame
      /\ \A k : Coming(down[s], k) <=> Head(down[s]).is = k \/ Coming(Tail(down[s]), k)
  BY <1>1, ComingTakenOff
<1>3. down' = [down EXCEPT ![s] = Tail(down[s])]
  BY DEF Heard
<1> HIDE DEF s
<1>4. down'[s] = Tail(down[s])
  BY <1>1, <1>3 DEF EndsTyped
<1>5. \A k : Coming(down[s], k) <=> k = kind \/ Coming(down'[s], k)
  BY <1>1, <1>2, <1>4
<1>6. down' \in [Sock -> Seq(Frame)] /\ \A t \in Sock : t # s => down'[t] = down[t]
  BY <1>1, <1>2, <1>3 DEF EndsTyped
<1> QED
  BY <1>1, <1>2, <1>5, <1>6 DEF s

LEMMA AnswerChallengeKeeps ==
  ASSUME DoorsInv, NEW p \in Person, AnswerChallenge(p)
  PROVE  DoorsInv'
<1>0. EndsTyped /\ EndsInv /\ OnlyTheHolderSits /\ TablesTyped
  BY DEF DoorsInv, Typed
<1> DEFINE s == At(p)
           login == [is |-> "login", proof |-> Proof(p, Head(down[s]).salt)]
           m == IF client[p].code # Nobody THEN Seal(p) ELSE login
<1>1. /\ s \in Sock /\ down' \in [Sock -> Seq(Frame)]
      /\ Head(down[s]) \in Frame /\ Head(down[s]).is = "challenge"
      /\ \A t \in Sock : t # s => down'[t] = down[t]
      /\ \A k : Coming(down[s], k) <=> k = "challenge" \/ Coming(down'[s], k)
  BY <1>0, HeardIt DEF AnswerChallenge
<1>2. m \in Request /\ m.is # "bye"
  <2>1. Head(down[s]).salt \in Salt
    BY <1>1, FrameIsOneOf
  <2>2. login \in Request /\ login.is = "login"
    BY <2>1 DEF Request, Proof
  <2>3. client[p].name \in Name /\ client[p].code \in Code \cup {Nobody}
    BY <1>0, <1>1, NobodyIsNoId DEF At, EndsTyped, Client
  <2>4. client[p].code # Nobody => Seal(p) \in Request /\ Seal(p).is = "enrol"
    BY <2>3 DEF Seal, Request
  <2> HIDE DEF login
  <2> QED
    BY <2>2, <2>4
<1>3. up' = IF host[s].at = "none" THEN up ELSE [up EXCEPT ![s] = Append(up[s], m)]
  BY DEF AnswerChallenge
<1>4. UNCHANGED <<tables, host, client>>
  BY DEF AnswerChallenge
<1> HIDE DEF m
<1>5. /\ up' \in [Sock -> Seq(Request)]
      /\ \A t \in Sock : t # s => up'[t] = up[t]
      /\ Coming(up'[s], "bye") <=> Coming(up[s], "bye")
  <2>1. up[s] \in Seq(Request)
    BY <1>0, <1>1 DEF EndsTyped
  <2>2. /\ Append(up[s], m) \in Seq(Request)
        /\ Coming(Append(up[s], m), "bye") <=> Coming(up[s], "bye")
    BY <1>2, <2>1, ComingAppended
  <2> HIDE DEF s
  <2> QED
    BY <1>0, <1>1, <1>3, <2>2 DEF EndsTyped
<1>6. Coming(down'[s], "bye") <=> Coming(down[s], "bye")
  BY <1>1
<1>7. Coming(down'[s], "welcome") <=> Coming(down[s], "welcome")
  BY <1>1
<1>8. EndsInv'
  <2>1. client[p].on = s
    BY DEF At
  <2>2. /\ \A q \in Person : client'[q].on = client[q].on
        /\ \A q \in Person : client'[q].in = client[q].in
    BY <1>4
  <2>3. /\ s \in Sock /\ UNCHANGED host
        /\ \A t \in Sock : t # s => up'[t] = up[t] /\ down'[t] = down[t]
    BY <1>1, <1>4, <1>5
  <2>4. /\ client'[p].in = client[p].in
        /\ Coming(down[s], "welcome") => Coming(down'[s], "welcome")
    BY <1>7, <2>2
  <2>5. Coming(up'[s], "bye") <=> Coming(up[s], "bye")
    BY <1>5
  <2> HIDE DEF s
  <2> QED
    BY <1>0, <1>6, <1>7, <2>1, <2>2, <2>3, <2>4, <2>5, ClientReadsIt
<1>9. EndsTyped'
  BY <1>0, <1>1, <1>4, <1>5 DEF EndsTyped
<1>10. TablesTyped' /\ OnlyTheHolderSits'
  BY <1>0, <1>4 DEF tables, TablesTyped, OnlyTheHolderSits
<1> QED
  BY <1>8, <1>9, <1>10 DEF DoorsInv, Typed

LEMMA ToldHowItWent ==
  ASSUME DoorsInv, NEW p \in Person, OnWelcome(p) \/ OnBadLogin(p)
  PROVE  DoorsInv'
<1>0. EndsTyped /\ EndsInv /\ OnlyTheHolderSits /\ TablesTyped
  BY DEF DoorsInv, Typed
<1> DEFINE s == At(p)
<1>1. UNCHANGED <<tables, host, up>>
  BY DEF OnWelcome, OnBadLogin
<1>2. client[p] \in Client
  BY <1>0 DEF EndsTyped
<1>3. CASE OnWelcome(p)
  <2>1. /\ s \in Sock /\ down' \in [Sock -> Seq(Frame)]
        /\ \A t \in Sock : t # s => down'[t] = down[t]
        /\ \A k : Coming(down[s], k) <=> k = "welcome" \/ Coming(down'[s], k)
    BY <1>0, <1>3, HeardIt DEF OnWelcome
  <2> DEFINE a == [client[p] EXCEPT !.in = TRUE]
  <2>2. a \in Client /\ a.on = client[p].on /\ a.in = TRUE
        /\ a.want = client[p].want /\ a.name = client[p].name
    BY <1>2 DEF Client
  <2>3. client' = [client EXCEPT ![p] = a]
    BY <1>0, <1>3 DEF OnWelcome, EndsTyped
  <2> HIDE DEF a
  <2>4. client'[p] = a /\ \A q \in Person : q # p => client'[q] = client[q]
    BY <1>0, <2>3 DEF EndsTyped
  <2>5. Coming(down[s], "welcome")
    BY <2>1
  <2>6. Coming(down'[s], "bye") <=> Coming(down[s], "bye")
    BY <2>1
  <2>7. Coming(down'[s], "welcome") => Coming(down[s], "welcome")
    BY <2>1
  <2>8. EndsInv'
    BY <1>0, <1>1, <2>1, <2>2, <2>4, <2>5, <2>6, <2>7, ClientReadsIt DEF At
  <2>9. EndsTyped'
    BY <1>0, <1>1, <2>1, <2>2, <2>3, <2>4 DEF EndsTyped
  <2>10. TablesTyped' /\ OnlyTheHolderSits'
    BY <1>0, <1>1 DEF tables, TablesTyped, OnlyTheHolderSits
  <2> QED
    BY <2>8, <2>9, <2>10 DEF DoorsInv, Typed
<1>4. CASE OnBadLogin(p)
  <2>1. /\ s \in Sock /\ down' \in [Sock -> Seq(Frame)]
        /\ \A t \in Sock : t # s => down'[t] = down[t]
        /\ \A k : Coming(down[s], k) <=> k = "bad_login" \/ Coming(down'[s], k)
    BY <1>0, <1>4, HeardIt DEF OnBadLogin
  <2> DEFINE a == [client[p] EXCEPT !.want = FALSE, !.retry = FALSE]
  <2>2. a \in Client /\ a.on = client[p].on /\ a.in = client[p].in
        /\ a.want = FALSE /\ a.name = client[p].name
    BY <1>2 DEF Client
  <2>3. client' = [client EXCEPT ![p] = a]
    BY <1>0, <1>4 DEF OnBadLogin, EndsTyped
  <2> HIDE DEF a
  <2>4. client'[p] = a /\ \A q \in Person : q # p => client'[q] = client[q]
    BY <1>0, <2>3 DEF EndsTyped
  <2>5. Coming(down'[s], "bye") <=> Coming(down[s], "bye")
    BY <2>1
  <2>6. Coming(down'[s], "welcome") <=> Coming(down[s], "welcome")
    BY <2>1
  <2>7. EndsInv'
    BY <1>0, <1>1, <2>1, <2>2, <2>4, <2>5, <2>6, ClientReadsIt DEF At
  <2>8. EndsTyped'
    BY <1>0, <1>1, <2>1, <2>2, <2>3, <2>4 DEF EndsTyped
  <2>9. TablesTyped' /\ OnlyTheHolderSits'
    BY <1>0, <1>1 DEF tables, TablesTyped, OnlyTheHolderSits
  <2> QED
    BY <2>7, <2>8, <2>9 DEF DoorsInv, Typed
<1> QED
  BY <1>3, <1>4

(* The host's goodbye, and whatever came before it, is thrown away; the    *)
(* host has let go, or is being told to.                                   *)
LEMMA OnDisconnectedKeeps ==
  ASSUME DoorsInv, NEW p \in Person, OnDisconnected(p)
  PROVE  DoorsInv'
<1>0. EndsTyped /\ EndsInv /\ OnlyTheHolderSits /\ TablesTyped
  BY DEF DoorsInv, Typed
<1> DEFINE s == client[p].on
           a == [client[p] EXCEPT !.on = Nobody, !.in = FALSE, !.retry = client[p].want]
<1>1. UNCHANGED <<tables, host, up>>
  BY DEF OnDisconnected
<1>2. s \in Sock /\ down[s] # <<>> /\ Head(down[s]).is = "bye" /\ down[s] \in Seq(Frame)
  BY <1>0 DEF OnDisconnected, Hears, At, EndsTyped, Client
<1>3. Coming(down[s], "bye")
  BY <1>2, ComingTakenOff
<1>4. host[s].at # "none" => Coming(up'[s], "bye")
  BY <1>0, <1>1, <1>2, <1>3 DEF EndsInv, Wire
<1>5. a \in Client /\ a.on = Nobody /\ a.in = FALSE /\ a.want = client[p].want
      /\ a.name = client[p].name
  BY <1>0 DEF EndsTyped, Client
<1>6. client' = [client EXCEPT ![p] = a]
  BY <1>0 DEF OnDisconnected, EndsTyped
<1> HIDE DEF a
<1>7. /\ down' \in [Sock -> Seq(Frame)] /\ down'[s] = <<>>
      /\ \A t \in Sock : t # s => down'[t] = down[t]
  <2>1. <<>> \in Seq(Frame)
    OBVIOUS
  <2> QED
    BY <1>0, <1>2, <2>1 DEF OnDisconnected, At, EndsTyped
<1>8. EndsInv'
  BY <1>0, <1>1, <1>4, <1>5, <1>6, <1>7, ClientLetsGo
<1>9. EndsTyped'
  BY <1>0, <1>1, <1>5, <1>6, <1>7 DEF EndsTyped
<1>10. TablesTyped' /\ OnlyTheHolderSits'
  BY <1>0, <1>1 DEF tables, TablesTyped, OnlyTheHolderSits
<1> QED
  BY <1>8, <1>9, <1>10 DEF DoorsInv, Typed

-----------------------------------------------------------------------------
(* Getting in                                                              *)

LEMMA DoorsAtFirst ==
  ASSUME Init
  PROVE  DoorsInv
<1>1. NotThere \in Sitting /\ NotThere.at = "none"
  BY DEF NotThere, Sitting, Salt
<1>2. Away \in Client /\ Away.on = Nobody /\ Away.in = FALSE /\ Away.want = FALSE
  BY AwayIsTyped
<1>3. <<>> \in Seq(Request) /\ <<>> \in Seq(Frame)
  OBVIOUS
<1>4. TablesTyped
  BY DEF Init, TablesTyped
<1>5. EndsTyped
  BY <1>1, <1>2, <1>3 DEF Init, EndsTyped
<1>6. OnlyTheHolderSits
  BY <1>1 DEF Init, OnlyTheHolderSits
<1>7. ~Coming(<<>>, "bye") /\ ~Coming(<<>>, "welcome")
  BY ComingAlone
<1>8. EndsInv
  BY <1>1, <1>2, <1>7, NobodyIsNoId DEF Init, EndsInv, OnePerson, Wire, Sits, Listened
<1> QED
  BY <1>4, <1>5, <1>6, <1>8 DEF DoorsInv, Typed

LEMMA DoorsStep ==
  ASSUME DoorsInv, [Next]_vars
  PROVE  DoorsInv'
<1>1. ASSUME NEW s \in Sock, Hosts(s) PROVE DoorsInv'
  BY <1>1, HelloKeeps, LoginKeeps, EnrolKeeps, GoneKeeps DEF Hosts
<1>2. ASSUME NEW s \in Sock, Closing(s) \/ Break(s) PROVE DoorsInv'
  BY <1>2, ClosingKeeps, BreakKeeps
<1>3. ASSUME NEW p \in Person, Listens(p) \/ Connect(p) \/ Leave(p) PROVE DoorsInv'
  BY <1>3, AnswerChallengeKeeps, ToldHowItWent, OnDisconnectedKeeps, ConnectKeeps, WantsOrLeaves
  DEF Listens
<1>4. ASSUME NEW p \in Person, NEW n \in Name,
             Join(p, n) \/ \E c \in Code : EnrolWith(p, n, c)
      PROVE  DoorsInv'
  BY <1>4, WantsOrLeaves
<1>5. CASE Stop
  BY <1>5, StopKeeps
<1>6. CASE \/ Start
           \/ \E c \in Code : Expire(c) \/ \E e \in Character : Invite(c, e)
           \/ \E i \in Id, e \in Character \cup {Nobody} : Save(i, e)
  BY <1>6, DmKeeps
<1>7. ASSUME NEW i \in Id, RemoveLogin(i) PROVE DoorsInv'
  BY <1>7, RemoveLoginKeeps
<1>8. CASE UNCHANGED vars
  <2>1. TablesTyped' /\ OnlyTheHolderSits'
    BY <1>8 DEF DoorsInv, Typed, TablesTyped, OnlyTheHolderSits, vars, tables
  <2> QED
    BY <1>8, <2>1, TablesKeep DEF vars
<1> QED
  BY <1>1, <1>2, <1>3, <1>4, <1>5, <1>6, <1>7, <1>8 DEF Next

(* Tables, connections and clients are what they should be, and each end   *)
(* of a connection knows of the other what Wire and Sits say.              *)
THEOREM DoorsHold == Spec => []DoorsInv
<1>1. Init => DoorsInv
  BY DoorsAtFirst
<1>2. DoorsInv /\ [Next]_vars => DoorsInv'
  BY DoorsStep
<1> QED
  BY <1>1, <1>2, PTL DEF Spec

(* Nobody sits under a password a login no longer has: taking a seat over  *)
(* with a code shows out whoever had it (_show_out).                       *)
THEOREM TheSeatIsTheHolders == Spec => []OnlyTheHolderSits
<1>1. DoorsInv => OnlyTheHolderSits
  BY DEF DoorsInv
<1> QED
  BY <1>1, DoorsHold, PTL

(* Client and host agree on who is in, or the news is on its way, through  *)
(* broken connections, hosts stopped and logins timed out.                 *)
THEOREM BothEndsKnow == Spec => []EndsAgree
<1>1. DoorsInv => EndsAgree
  <2> SUFFICES ASSUME DoorsInv PROVE EndsAgree
    OBVIOUS
  <2>0. EndsTyped /\ EndsInv
    BY DEF DoorsInv, Typed
  <2>1. \A p \in Person : client[p].in =>
          At(p) # Nobody /\ (host[At(p)].at = "in" \/ Coming(down[At(p)], "bye"))
    BY <2>0 DEF EndsInv, Sits, At
  <2>2. ASSUME NEW s \in Sock, host[s].at = "in", ~Coming(up[s], "bye")
        PROVE  \E p \in Person : At(p) = s /\
                 (client[p].in \/ Coming(down[s], "welcome") \/ Coming(down[s], "bye"))
    <3>1. PICK p \in Person : client[p].on = s
      BY <2>0, <2>2 DEF EndsInv, Wire, Listened
    <3>2. s # Nobody /\ Sits(p)
      BY <2>0, NobodyIsNoId DEF EndsInv
    <3>3. client[p].in \/ Coming(down[s], "welcome") \/ Coming(down[s], "bye")
      BY <2>2, <3>1, <3>2 DEF Sits
    <3> QED
      BY <3>1, <3>3 DEF At
  <2> QED
    BY <2>1, <2>2 DEF EndsAgree
<1> QED
  BY <1>1, DoorsHold, PTL

-----------------------------------------------------------------------------
(* Handing a seat over                                                     *)

(* Only a code that opens counts.                                          *)
LEMMA OnlyACodeTakes ==
  ASSUME Next, took' # took
  PROVE  \E s \in Sock : \E c \in Code :
           /\ Reads(s) /\ Head(up[s]).is = "enrol" /\ invite[c].is = "live"
           /\ TakesItUp(s, c, Head(up[s]).name, Head(up[s]).pw)
<1>1. \E s \in Sock : Enrol(s)
  BY DEF Next, Hosts, Closing, Listens, tables, Hello, Login, Refused, Gone, Close, DropSilent,
         Break, Start, Stop, Invite, Expire, Save, RemoveLogin, Join, EnrolWith, Leave, Connect,
         AnswerChallenge, OnEnrolled, OnWelcome, OnBadLogin, OnDisconnected
<1>2. PICK s \in Sock : Enrol(s)
  BY <1>1
<1>3. PICK c \in Opened(Head(up[s])) : TakesItUp(s, c, Head(up[s]).name, Head(up[s]).pw)
  BY <1>2 DEF Enrol, Refused, EnrolRefused, tables
<1>4. c \in Code /\ invite[c].is = "live"
  BY DEF Opened, LiveInvites
<1> QED
  BY <1>2, <1>3, <1>4 DEF Enrol

(* Taking up a code never seats a second login on a character, and leaves  *)
(* every character's player who they were (take_over keeps the account).   *)
THEOREM NoSecondSeat == Spec => SeatIsHandedOver
<1>1. ASSUME DoorsInv, Next, took' # took, NEW e \in Character, Players(e) # {}
      PROVE  Players(e)' = Players(e)
  <2>0. TablesTyped /\ EndsTyped
    BY <1>1 DEF DoorsInv, Typed
  <2>1. PICK s \in Sock, c \in Code :
          /\ Reads(s) /\ Head(up[s]).is = "enrol" /\ invite[c].is = "live"
          /\ TakesItUp(s, c, Head(up[s]).name, Head(up[s]).pw)
    BY <1>1, OnlyACodeTakes
  <2> DEFINE n == Head(up[s]).name
             pw == Head(up[s]).pw
             x == invite[c].to
  <2>2. n \in Name /\ pw \in Person
    BY <2>0, <2>1, ReadTheHead, RequestIsOneOf
  <2> HIDE DEF n, pw
  <2>3. SeatTaken(c, n, pw, x)
    BY <2>0, <2>1, <2>2, SeatMadeOrMoved DEF n, pw
  <2> HIDE DEF x
  <2>4. CASE /\ Players(x) = {}
             /\ \E i \in Id :
                  /\ account[i] = Nobody
                  /\ account' = [account EXCEPT ![i] =
                                   [name |-> n, pw |-> pw, salt |-> c, plays |-> x]]
    <3>1. PICK i \in Id :
            /\ account[i] = Nobody
            /\ account' = [account EXCEPT ![i] =
                             [name |-> n, pw |-> pw, salt |-> c, plays |-> x]]
      BY <2>4
    <3>2. e # x
      BY <1>1, <2>4
    <3>3. account'[i].plays = x /\ \A j \in Id : j # i => account'[j] = account[j]
      BY <2>0, <3>1 DEF TablesTyped
    <3>4. \A j \in Id : (account'[j] # Nobody /\ account'[j].plays = e)
                          <=> (account[j] # Nobody /\ account[j].plays = e)
      BY <3>1, <3>2, <3>3
    <3> QED
      BY <3>4 DEF Players
  <2>5. CASE /\ SeatOf(x) \in Players(x)
             /\ account' = [account EXCEPT ![SeatOf(x)].name = n, ![SeatOf(x)].pw = pw,
                                           ![SeatOf(x)].salt = c]
    <3> DEFINE i == SeatOf(x)
    <3>1. i \in Id /\ account[i] # Nobody
      BY <2>5 DEF Players
    <3>2. /\ \A j \in Id : j # i => account'[j] = account[j]
          /\ account'[i] # Nobody /\ account'[i].plays = account[i].plays
      BY <2>0, <2>2, <2>5, <3>1, MovedKeepsThePlay
    <3>3. \A j \in Id : (account'[j] # Nobody /\ account'[j].plays = e)
                          <=> (account[j] # Nobody /\ account[j].plays = e)
      BY <3>1, <3>2
    <3> QED
      BY <3>3 DEF Players
  <2> QED
    BY <2>3, <2>4, <2>5 DEF SeatTaken
<1>2. DoorsInv /\ [Next]_vars =>
        [took' # took =>
           \A e \in Character : Players(e) # {} => Players(e)' = Players(e)]_vars
  BY <1>1 DEF vars, tables
<1> QED
  BY <1>2, DoorsHold, PTL DEF Spec, SeatIsHandedOver
=============================================================================
