------------------------------- MODULE Doors -------------------------------
(***************************************************************************)
(* Getting into a session: invites, enrolment, logins, and the client that *)
(* keeps trying.                                                           *)
(*                                                                         *)
(* Models the login half of SessionServer (net/server.py), AccountRepo and *)
(* InviteRepo (repo), the Players dialog (panels/table/dialogs.py) and     *)
(* SessionClient (net/client.py), over connections that keep their order   *)
(* and can break.                                                          *)
(*                                                                         *)
(* A password is its owner's, and a verifier is a password under a salt.   *)
(* Errors a client only shows are not sent.  Nonces, wording and the DM's  *)
(* own token are left out.                                                 *)
(***************************************************************************)
EXTENDS Integers, Sequences, FiniteSets, FiniteSetsExt

CONSTANTS
  Person,     \* who may try to get in, each with a password of their own
  Name,       \* usernames
  Chooses,    \* bound: who would go by which name
  Character,
  Id,         \* bound: account ids, 1 .. n
  Code,       \* bound: invite codes, 1 .. n, in the order they are made
  Sock,       \* bound: connections at once, 1 .. n
  MaxTries,   \* LOGIN and ENROL attempts on one connection (3)
  Faults,     \* bound: broken connections, hosts stopped, logins timed out
  Meddling,   \* bound: logins moved or removed, codes left to expire
  Wishes,     \* bound: times anybody sets out to join, or gives up
  First,      \* whose login the campaign may come with
  Nobody

Unsalted == 0   \* the salt of the account the campaign came with
Decoy == -1     \* what a CHALLENGE carries for a name with no account

Account == [name : Name, pw : Person, salt : Code \cup {Unsalted},
            plays : Character \cup {Nobody}]

ASSUME DoorsAssumption ==
  /\ Nobody \notin Person \cup Name \cup Character \cup Int \cup Account
  /\ Chooses \subseteq Person \X Name
  /\ IsFiniteSet(Id) /\ Id = 1 .. Cardinality(Id)
  /\ IsFiniteSet(Code) /\ Code = 1 .. Cardinality(Code)
  /\ IsFiniteSet(Sock) /\ Sock = 1 .. Cardinality(Sock)
  /\ MaxTries \in Nat \ {0} /\ Faults \in Nat /\ Meddling \in Nat
  /\ Wishes \in Nat /\ First \in Person

VARIABLES
  account,   \* the account table, by id
  owner,     \* entity.owner_account_id
  invite,    \* the invite table, by code
  hosting,   \* is_running
  host,      \* _pending and _sessions: the host's end of each connection
  client,    \* each person's SessionClient
  up, down,  \* frames on their way to the host, and to the client
  took,      \* how often each code has made or moved a login
  faults, meddling, wishes

tables == <<account, owner, invite, took>>
vars == <<tables, hosting, host, client, up, down, faults, meddling, wishes>>

NotThere == [at |-> "none", name |-> Nobody, tries |-> 0, as |-> Nobody,
             salt |-> Decoy, going |-> FALSE, orphan |-> FALSE]
Fresh == [NotThere EXCEPT !.at = "new"]
Away == [want |-> FALSE, name |-> Nobody, code |-> Nobody, on |-> Nobody,
         in |-> FALSE, retry |-> FALSE]

-----------------------------------------------------------------------------
(* The tables                                                              *)

ByUsername(n) == {i \in Id : account[i] # Nobody /\ account[i].name = n}

(* SQLite gives a new row one more than the largest id there is.           *)
NextId == 1 + Max({0} \cup {i \in Id : account[i] # Nobody})

(* The accounts that say they play it, and the first of them.              *)
Players(e) == {i \in Id : account[i] # Nobody /\ account[i].plays = e}
(* A bug: whoever plays it already is not looked for.                       *)
SeatUnasked(e) == Nobody
SeatOf(e) == IF Players(e) = {} THEN Nobody ELSE Min(Players(e))

LiveInvites == {c \in Code : invite[c].is = "live"}

(* InviteRepo.create: the end of any other for that character.             *)
Replacing(c, e) ==
  [d \in Code |-> CASE d = c -> [to |-> e, is |-> "live"]
                    [] d # c /\ invite[d].to = e /\ invite[d].is = "live" ->
                         [invite[d] EXCEPT !.is = "replaced"]
                    [] OTHER -> invite[d]]

Claimed(c) == [invite EXCEPT ![c].is = "used"]

(* A proof is of a password under a salt (auth.proof, auth.verify).         *)
Proof(pw, salt) == <<pw, salt>>
Authenticates(n, proof) ==
  {i \in ByUsername(n) : proof = Proof(account[i].pw, account[i].salt)}

(* create_with_verifier makes a login for a character; take_over gives the *)
(* one there is another name and password, and keeps what it plays.        *)
Made(n, pw, c, e) ==
  [account EXCEPT ![NextId] = [name |-> n, pw |-> pw, salt |-> c, plays |-> e]]
TakenOver(i, n, pw, c) ==
  [account EXCEPT ![i].name = n, ![i].pw = pw, ![i].salt = c]

WhyNotEnrol(n, e) ==
  \E i \in ByUsername(n) : i # SeatOf(e)

-----------------------------------------------------------------------------
(* Frames                                                                  *)

Bye == [is |-> "bye"]
ToHost(s, m) == up' = [up EXCEPT ![s] = Append(@, m)]
Listened(s) == \E p \in Person : client[p].on = s
ToClient(s, ms) == down' = IF Listened(s) THEN [down EXCEPT ![s] = @ \o ms] ELSE down
Challenge(n) ==
  [is |-> "challenge",
   salt |-> IF ByUsername(n) = {} THEN Decoy
            ELSE account[Min(ByUsername(n))].salt]
DecoyChallenge == [is |-> "challenge", salt |-> Decoy]
Welcome == [is |-> "welcome"]
BadLogin == [is |-> "bad_login"]
Enrolled(n) == [is |-> "enrolled", name |-> n]

Free(s) ==
  /\ host[s].at = "none" /\ up[s] = <<>> /\ ~Listened(s)

Reads(s) ==
  /\ hosting /\ host[s].at # "none" /\ up[s] # <<>>
  /\ up' = [up EXCEPT ![s] = Tail(@)]

(* QTimer.singleShot(200, socket.close)                                    *)
Going(h) == [h EXCEPT !.going = TRUE]

-----------------------------------------------------------------------------
(* The host                                                                *)

Hello(s) ==
  /\ Reads(s) /\ Head(up[s]).is = "hello" /\ host[s].at = "new"
  /\ host' = [host EXCEPT ![s].at = "greeted", ![s].name = Head(up[s]).name]
  /\ ToClient(s, <<Challenge(Head(up[s]).name)>>)
  /\ UNCHANGED <<tables, hosting, client, faults, meddling, wishes>>

(* A wrong proof costs an attempt; the third closes the connection, and    *)
(* any other gets a challenge whose salt is made up from the name.         *)
Refused(s, told) ==
  LET h == [host[s] EXCEPT !.tries = @ + 1]
      enough == h.tries >= MaxTries
  IN /\ host' = [host EXCEPT ![s] = IF enough THEN Going(h) ELSE h]
     /\ ToClient(s, told \o IF enough THEN <<>> ELSE <<DecoyChallenge>>)
     /\ UNCHANGED <<tables, hosting, client, faults, meddling, wishes>>

Login(s) ==
  LET m == Head(up[s])
      who == Authenticates(host[s].name, m.proof) IN
  /\ Reads(s) /\ m.is = "login" /\ host[s].at = "greeted"
  /\ \/ who = {} /\ Refused(s, <<BadLogin>>)
     \/ \E i \in who :
          /\ host' = [host EXCEPT ![s] =
                        [@ EXCEPT !.at = "in", !.as = i, !.salt = account[i].salt]]
          /\ ToClient(s, <<Welcome>>)
          /\ UNCHANGED <<tables, hosting, client, faults, meddling, wishes>>

(* Whoever was logged in as this account is told, and shown out.           *)
(* A bug: the login changes hands, the sitting goes on.                    *)
LeftSitting(h, i) == h
ShownOut(h, i) ==
  [t \in Sock |-> IF h[t].at = "in" /\ h[t].as = i THEN Going(h[t]) ELSE h[t]]

(* The code opens: the character's seat is made, or changes hands.         *)
TakesItUp(s, c, n, pw) ==
  LET e == invite[c].to
      seat == SeatOf(e)
      i == IF seat = Nobody THEN NextId ELSE seat
      h == [host EXCEPT ![s].tries = @ + 1]
  IN /\ i \in Id
     /\ invite' = Claimed(c)
     /\ account' = IF seat = Nobody THEN Made(n, pw, c, e)
                   ELSE TakenOver(seat, n, pw, c)
     /\ owner' = [owner EXCEPT ![e] = i]
     /\ took' = [took EXCEPT ![c] = @ + 1]
     /\ host' = IF seat = Nobody THEN h ELSE ShownOut(h, seat)
     /\ ToClient(s, <<Enrolled(n)>>)
     /\ UNCHANGED <<hosting, client, faults, meddling, wishes>>

(* A live code for somebody else's name, or an account that could not be   *)
(* made: said so, and nothing more comes.  What was claimed is handed back. *)
EnrolRefused(s) ==
  /\ host' = [host EXCEPT ![s].tries = @ + 1]
  /\ UNCHANGED <<tables, hosting, client, down, meddling, wishes>>

Opened(m) == {c \in LiveInvites : m.code = c}  \* enrol.unseal, on every live one
Enrol(s) ==
  LET m == Head(up[s]) IN
  /\ Reads(s) /\ m.is = "enrol" /\ host[s].at = "greeted"
  /\ \/ Opened(m) = {} /\ Refused(s, <<>>)
     \/ \E c \in Opened(m) :
          \/ /\ WhyNotEnrol(m.name, invite[c].to)
             /\ EnrolRefused(s) /\ UNCHANGED faults
          \/ /\ ~WhyNotEnrol(m.name, invite[c].to)
             /\ TakesItUp(s, c, m.name, m.pw)
          \/ /\ ~WhyNotEnrol(m.name, invite[c].to)
             /\ faults < Faults /\ faults' = faults + 1
             /\ EnrolRefused(s)

(* _on_disconnected: the client's end has closed.                          *)
Gone(s) ==
  /\ up[s] # <<>> /\ Head(up[s]).is = "bye"
  /\ up' = [up EXCEPT ![s] = <<>>]
  /\ host' = [host EXCEPT ![s] = NotThere]
  /\ UNCHANGED <<tables, hosting, client, down, faults, meddling, wishes>>

(* The host's end closes: 200 ms are over, or 20 s without a login.        *)
HostCloses(s) ==
  /\ host' = [host EXCEPT ![s] = NotThere]
  /\ up' = [up EXCEPT ![s] = <<>>]
  /\ ToClient(s, <<Bye>>)
Close(s) ==
  /\ host[s].going
  /\ HostCloses(s)
  /\ UNCHANGED <<tables, hosting, client, faults, meddling, wishes>>
DropSilent(s) ==
  /\ host[s].at \in {"new", "greeted"} /\ ~host[s].going
  /\ HostCloses(s)
  /\ \/ up[s] = <<>> /\ down[s] = <<>> /\ UNCHANGED faults
     \/ up[s] \o down[s] # <<>> /\ faults < Faults /\ faults' = faults + 1
  /\ UNCHANGED <<tables, hosting, client, meddling, wishes>>

(* _settle_ownership, before anybody can log in: each account owns what it *)
(* plays.  The last one listed has it.                                     *)
Settled ==
  [e \in Character |-> IF Players(e) = {} THEN owner[e]
                       ELSE CHOOSE i \in Players(e) : \A j \in Players(e) : j <= i]

Start ==
  /\ ~hosting /\ hosting' = TRUE
  /\ owner' = Settled
  /\ UNCHANGED <<account, invite, took, host, client, up, down, faults, meddling, wishes>>

Stop ==
  /\ hosting /\ faults < Faults /\ faults' = faults + 1
  /\ hosting' = FALSE
  /\ host' = [s \in Sock |-> NotThere]
  /\ up' = [s \in Sock |-> <<>>]
  /\ down' = [s \in Sock |-> IF host[s].at = "none" \/ ~Listened(s) THEN down[s]
                             ELSE Append(down[s], Bye)]
  /\ UNCHANGED <<tables, client, meddling, wishes>>

-----------------------------------------------------------------------------
(* The DM: the Players dialog                                              *)

Invite(c, e) ==
  /\ invite[c].is = "unmade" /\ \A d \in Code : d < c => invite[d].is # "unmade"
  /\ invite' = Replacing(c, e)
  /\ UNCHANGED <<account, owner, took, hosting, host, client, up, down, faults, meddling, wishes>>

Expire(c) ==
  /\ invite[c].is = "live" /\ meddling < Meddling /\ meddling' = meddling + 1
  /\ invite' = [invite EXCEPT ![c].is = "expired"]
  /\ UNCHANGED <<account, owner, took, hosting, host, client, up, down, faults, wishes>>

(* Change character.                                                       *)
Save(i, e) ==
  /\ account[i] # Nobody /\ meddling < Meddling /\ meddling' = meddling + 1
  /\ account' = [account EXCEPT ![i].plays = e]
  /\ owner' = IF e = Nobody THEN owner ELSE [owner EXCEPT ![e] = i]
  /\ UNCHANGED <<invite, took, hosting, host, client, up, down, faults, wishes>>

(* Remove: the row goes, and with it who owned what.  Nobody is shown out. *)
RemoveLogin(i) ==
  /\ account[i] # Nobody /\ meddling < Meddling /\ meddling' = meddling + 1
  /\ account' = [account EXCEPT ![i] = Nobody]
  /\ owner' = [e \in Character |-> IF owner[e] = i THEN Nobody ELSE owner[e]]
  /\ host' = [s \in Sock |-> IF host[s].at = "in" /\ host[s].as = i
                             THEN [host[s] EXCEPT !.orphan = TRUE] ELSE host[s]]
  /\ UNCHANGED <<invite, took, hosting, client, up, down, faults, wishes>>

-----------------------------------------------------------------------------
(* The client                                                              *)

(* leave: nothing wanted, no code, and the socket told to close.           *)
Hangs(p) ==
  up' = IF client[p].on = Nobody \/ host[client[p].on].at = "none" THEN up
        ELSE [up EXCEPT ![client[p].on] = Append(@, Bye)]
Deaf(p) ==
  down' = IF client[p].on = Nobody THEN down ELSE [down EXCEPT ![client[p].on] = <<>>]

(* join and enrol: leave, and then want to be in.                          *)
Asks(p, n, c) ==
  client' = [client EXCEPT ![p] =
               [Away EXCEPT !.want = TRUE, !.name = n, !.code = c, !.retry = TRUE]]

Join(p, n) ==
  /\ ~client[p].want /\ <<p, n>> \in Chooses
  /\ Asks(p, n, Nobody) /\ Hangs(p) /\ Deaf(p)
  /\ wishes < Wishes /\ wishes' = wishes + 1
  /\ UNCHANGED <<tables, hosting, host, faults, meddling>>

EnrolWith(p, n, c) ==
  /\ ~client[p].want /\ <<p, n>> \in Chooses /\ invite[c].is # "unmade"
  /\ Asks(p, n, c) /\ Hangs(p) /\ Deaf(p)
  /\ wishes < Wishes /\ wishes' = wishes + 1
  /\ UNCHANGED <<tables, hosting, host, faults, meddling>>

Leave(p) ==
  /\ client[p].want /\ wishes < Wishes /\ wishes' = wishes + 1
  /\ client' = [client EXCEPT ![p] = Away]
  /\ Hangs(p) /\ Deaf(p)
  /\ UNCHANGED <<tables, hosting, host, faults, meddling>>

(* _open, at once or from _reconnect.                                      *)
Opens(p, s) == client' = [client EXCEPT ![p].on = s, ![p].retry = FALSE]

(* And _on_connected: a new connection, and HELLO on it.  With no host to  *)
(* answer, the timer is simply set again.                                  *)
Connect(p) ==
  /\ client[p].want /\ client[p].retry /\ client[p].on = Nobody /\ hosting
  /\ \E s \in Sock :
       /\ Free(s) /\ \A t \in Sock : Free(t) => s <= t
       /\ Opens(p, s)
       /\ host' = [host EXCEPT ![s] = Fresh]
       /\ ToHost(s, [is |-> "hello", name |-> client[p].name])
  /\ UNCHANGED <<tables, hosting, down, faults, meddling, wishes>>

At(p) == client[p].on
Hears(p, kind) ==
  At(p) # Nobody /\ down[At(p)] # <<>> /\ Head(down[At(p)]).is = kind
Heard(p) == down' = [down EXCEPT ![At(p)] = Tail(@)]

(* _answer_with_enrolment: password material made here, sealed with the code. *)
Seal(p) ==
  [is |-> "enrol", code |-> client[p].code, name |-> client[p].name, pw |-> p]

(* _answer_challenge, whether or not anybody still wants in.               *)
AnswerChallenge(p) ==
  /\ Hears(p, "challenge") /\ Heard(p)
  /\ up' = IF host[At(p)].at = "none" THEN up  \* nobody there to read it
           ELSE [up EXCEPT ![At(p)] = Append(@,
                  IF client[p].code # Nobody THEN Seal(p)
                  ELSE [is |-> "login", proof |-> Proof(p, Head(down[At(p)]).salt)])]
  /\ UNCHANGED <<tables, hosting, host, client, faults, meddling, wishes>>

(* _on_enrolled: drop the code, and come back in by the front door.        *)
OnEnrolled(p) ==
  /\ Hears(p, "enrolled")
  /\ Asks(p, Head(down[At(p)]).name, Nobody) /\ Hangs(p) /\ Deaf(p)
  /\ UNCHANGED <<tables, hosting, host, faults, meddling, wishes>>

OnWelcome(p) ==
  /\ Hears(p, "welcome") /\ Heard(p)
  /\ client' = [client EXCEPT ![p].in = TRUE]
  /\ UNCHANGED <<tables, hosting, host, up, faults, meddling, wishes>>

(* ERROR bad_login: stop trying.                                           *)
OnBadLogin(p) ==
  /\ Hears(p, "bad_login") /\ Heard(p)
  /\ client' = [client EXCEPT ![p].want = FALSE, ![p].retry = FALSE]
  /\ UNCHANGED <<tables, hosting, host, up, faults, meddling, wishes>>

(* _on_disconnected: try again after a while, if anybody still wants in.   *)
(* A bug: it goes on believing that it is in.                              *)
StillIn(p) ==
  /\ Hears(p, "bye")
  /\ client' = [client EXCEPT ![p].on = Nobody, ![p].retry = client[p].want]
  /\ down' = [down EXCEPT ![At(p)] = <<>>]
  /\ UNCHANGED <<tables, hosting, host, up, faults, meddling, wishes>>
(* A bug: only somebody who had got in is brought back.                    *)
RetriesOnlyIfIn(p) ==
  /\ Hears(p, "bye")
  /\ client' = [client EXCEPT ![p].on = Nobody, ![p].in = FALSE,
                              ![p].retry = client[p].want /\ client[p].in]
  /\ down' = [down EXCEPT ![At(p)] = <<>>]
  /\ UNCHANGED <<tables, hosting, host, up, faults, meddling, wishes>>
OnDisconnected(p) ==
  /\ Hears(p, "bye")
  /\ client' = [client EXCEPT ![p].on = Nobody, ![p].in = FALSE,
                              ![p].retry = client[p].want]
  /\ down' = [down EXCEPT ![At(p)] = <<>>]
  /\ UNCHANGED <<tables, hosting, host, up, faults, meddling, wishes>>

(* The network: what was on its way is lost, and each end finds out.       *)
Break(s) ==
  /\ host[s].at # "none" /\ faults < Faults /\ faults' = faults + 1
  /\ up' = [up EXCEPT ![s] = <<Bye>>]
  /\ down' = [down EXCEPT ![s] = IF Listened(s) THEN <<Bye>> ELSE <<>>]
  /\ UNCHANGED <<tables, hosting, host, client, meddling, wishes>>

-----------------------------------------------------------------------------
Init ==
  /\ account \in [Id -> {Nobody} \cup Account]
  /\ \A i \in Id : account[i] # Nobody =>
       /\ i = 1 /\ account[i].plays # Nobody /\ account[i].salt = Unsalted
       /\ account[i].pw = First /\ <<First, account[i].name>> \in Chooses
  /\ owner = [e \in Character |-> Nobody]
  /\ invite = [c \in Code |-> [to |-> Nobody, is |-> "unmade"]]
  /\ hosting = FALSE
  /\ host = [s \in Sock |-> NotThere]
  /\ client = [p \in Person |-> Away]
  /\ up = [s \in Sock |-> <<>>] /\ down = [s \in Sock |-> <<>>]
  /\ took = [c \in Code |-> 0]
  /\ faults = 0 /\ meddling = 0 /\ wishes = 0

Hosts(s) ==
  Hello(s) \/ Login(s) \/ Enrol(s) \/ Gone(s)
Closing(s) == Close(s) \/ DropSilent(s)
Listens(p) ==
  \/ AnswerChallenge(p) \/ OnEnrolled(p) \/ OnWelcome(p) \/ OnBadLogin(p)
  \/ OnDisconnected(p)

Next ==
  \/ \E s \in Sock : Hosts(s) \/ Closing(s) \/ Break(s)
  \/ \E p \in Person : Listens(p) \/ Connect(p) \/ Leave(p)
  \/ \E p \in Person, n \in Name : Join(p, n) \/ \E c \in Code : EnrolWith(p, n, c)
  \/ Start \/ Stop
  \/ \E c \in Code : Expire(c) \/ \E e \in Character : Invite(c, e)
  \/ \E i \in Id : RemoveLogin(i) \/ \E e \in Character \cup {Nobody} : Save(i, e)

(* Whatever reads, answers or was promised by a timer does go on: the      *)
(* host's event loop, its 200 ms and 20 s timers, the client's and its     *)
(* retries.  People need do nothing.                                       *)
Spec ==
  /\ Init /\ [][Next]_vars
  /\ \A s \in Sock : WF_vars(Hosts(s) \/ Closing(s))
  /\ \A p \in Person : WF_vars(Listens(p) \/ Connect(p))

-----------------------------------------------------------------------------
(* Whoever is in, and is not on the way out, got in with the password that *)
(* login has now: a character handed over with a code ends the sitting of  *)
(* whoever had it, as well as their login (_show_out).  A login that was   *)
(* removed from under somebody is not shown out, and is not meant here.    *)
OnlyTheHolderSits ==
  \A s \in Sock :
    host[s].at = "in" /\ ~host[s].going /\ ~host[s].orphan =>
      /\ account[host[s].as] # Nobody
      /\ account[host[s].as].salt = host[s].salt

(* Both ends agree that somebody is in, or the one that does not know yet  *)
(* has it on its way: a WELCOME, or the other end's goodbye.               *)
Coming(q, kind) == \E k \in DOMAIN q : q[k].is = kind
EndsAgree ==
  /\ \A p \in Person : client[p].in =>
       At(p) # Nobody /\ (host[At(p)].at = "in" \/ Coming(down[At(p)], "bye"))
  /\ \A s \in Sock : host[s].at = "in" =>
       \/ Coming(up[s], "bye")
       \/ \E p \in Person : At(p) = s /\
            (client[p].in \/ Coming(down[s], "welcome") \/ Coming(down[s], "bye"))

(* Taking up a code never seats a second login on a character: the one who *)
(* plays it is kept, by id, with everything shared with it (take_over).    *)
SeatIsHandedOver ==
  [][took' # took =>
       \A e \in Character : Players(e) # {} => Players(e)' = Players(e)]_vars

(* Somebody who wants in on a login of their own is let in, or told that   *)
(* it is not right, or gives up, or the host is gone.                      *)
WhoeverKnocksIsAnswered ==
  \A p \in Person :
    (client[p].want /\ client[p].code = Nobody) ~>
      (client[p].in \/ ~client[p].want \/ ~hosting)

=============================================================================
