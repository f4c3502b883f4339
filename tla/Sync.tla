-------------------------------- MODULE Sync --------------------------------
(***************************************************************************)
(* What a player has been shown of the campaign: the host's entities and   *)
(* shares, one player's connection, the frames on their way to them, and   *)
(* the copy they keep, also while they are away.                           *)
(*                                                                         *)
(* Models SessionServer.publish_entity and _send_snapshot                  *)
(* (net/server.py), net/projection.py, repo/entities.py and repo/shares.py *)
(* on the host; net/client.py, net/state.py and net/cache.py on the other  *)
(* end.  The host treats each connection by itself, so one player is       *)
(* modelled.  The cache file is written after every frame, so it and what  *)
(* is held in memory are one variable.  What an entity says is a member of *)
(* Text; which of its fields a player may read, and the place it is in,    *)
(* are left out.                                                           *)
(***************************************************************************)
EXTENDS Integers, Sequences

CONSTANTS
  Id,          \* row ids of table entity
  Text,        \* what can be written on one
  Nothing,     \* no such row; no copy
  MaxVersion,  \* bound: versions of an entity that are explored
  MaxWire      \* bound: frames in flight

ASSUME SyncAssumption ==
  /\ Id \subseteq Nat
  /\ Nothing \notin [version : Nat, text : Text]
  /\ Nothing \notin [version : Nat, text : Text, own : BOOLEAN]
  /\ MaxVersion \in Nat \ {0}
  /\ MaxWire \in Nat \ {0}

VARIABLES
  entity,   \* the rows
  shared,   \* ids shared with this player, or with the party
  owned,    \* ids whose owner_account_id is this player
  session,  \* the host's _Session for them, below
  wire,     \* frames sent to them and not yet read
  copy      \* SharedState._entities, and the cache

store == <<entity, shared, owned>>
vars  == <<store, session, wire, copy>>

Version == 1 .. MaxVersion
Row  == [version : Version, text : Text]
Held == [version : Version, text : Text, own : BOOLEAN]

(* ENTITY, ENTITY_GONE and SNAPSHOT are alike: some entities as they stand *)
(* and some that are gone.                                                 *)
Frame == {f \in [changed : [Id -> Held \cup {Nothing}], gone : SUBSET Id] :
            \A id \in f.gone : f.changed[id] = Nothing}

Existing == {id \in Id : entity[id] # Nothing}

TypeOK ==
  /\ entity \in [Id -> Row \cup {Nothing}]
  /\ shared \subseteq Existing
  /\ owned \subseteq Existing
  /\ session \in [open : BOOLEAN,
                  owned : SUBSET Id,    \* Viewer.owned_entity_ids
                  visible : SUBSET Id,
                  sent : [Id -> 0 .. MaxVersion]]  \* 0 for no entry
  /\ wire \in Seq(Frame)
  /\ copy \in [Id -> Held \cup {Nothing}]

Closed == [open |-> FALSE, owned |-> {}, visible |-> {}, sent |-> [id \in Id |-> 0]]

Init ==
  /\ entity = [id \in Id |-> Nothing]
  /\ shared = {} /\ owned = {}
  /\ session = Closed
  /\ wire = <<>>
  /\ copy = [id \in Id |-> Nothing]

-----------------------------------------------------------------------------
(* The host                                                                *)

(* project_entity                                                          *)
Projected(row, own) == [version |-> row.version, text |-> row.text, own |-> own]

NoNews == [id \in Id |-> Nothing]

(* A bug: whether they could see it is asked after that has been updated. *)
PublishForgetting(id) ==
  LET allowed == shared' \cup session.owned
      seen == id \in allowed /\ entity'[id] # Nothing
  IN IF ~session.open THEN UNCHANGED <<session, wire>>
     ELSE /\ session' = [session EXCEPT !.visible = allowed,
                            !.sent[id] = IF seen THEN entity'[id].version ELSE 0]
          /\ wire' =
               IF seen
               THEN Append(wire, [changed |-> [NoNews EXCEPT ![id] =
                                    Projected(entity'[id], id \in session.owned)],
                                  gone |-> {}])
               ELSE IF id \in allowed
               THEN Append(wire, [changed |-> NoNews, gone |-> {id}])
               ELSE wire

(* A bug: what was sent is not remembered. *)
PublishUnremembered(id) ==
  LET allowed == shared' \cup session.owned
      seen == id \in allowed /\ entity'[id] # Nothing
  IN IF ~session.open THEN UNCHANGED <<session, wire>>
     ELSE /\ session' = [session EXCEPT !.visible = allowed]
          /\ wire' =
               IF seen
               THEN Append(wire, [changed |-> [NoNews EXCEPT ![id] =
                                    Projected(entity'[id], id \in session.owned)],
                                  gone |-> {}])
               ELSE IF id \in session.visible
               THEN Append(wire, [changed |-> NoNews, gone |-> {id}])
               ELSE wire

(* publish_entity, of an entity as it stands after the change              *)
Publish(id) ==
  LET allowed == shared' \cup session.owned
      seen == id \in allowed /\ entity'[id] # Nothing
  IN IF ~session.open THEN UNCHANGED <<session, wire>>
     ELSE /\ session' = [session EXCEPT !.visible = allowed,
                            !.sent[id] = IF seen THEN entity'[id].version ELSE 0]
          /\ wire' =
               IF seen
               THEN Append(wire, [changed |-> [NoNews EXCEPT ![id] =
                                    Projected(entity'[id], id \in session.owned)],
                                  gone |-> {}])
               ELSE IF id \in session.visible
               THEN Append(wire, [changed |-> NoNews, gone |-> {id}])
               ELSE wire

(* A bug: what was taken back while they were away is not mentioned. *)
SnapshotNotTakingBack(mine) ==
  LET allowed == shared \cup mine
      stale == {id \in allowed \cap Existing :
                  copy[id] = Nothing \/ copy[id].version # entity[id].version}
      held == {id \in Id : copy[id] # Nothing}
  IN /\ session' =
          [open |-> TRUE, owned |-> mine, visible |-> allowed,
           sent |-> [id \in Id |-> IF id \in stale THEN entity[id].version
                                   ELSE IF id \in held THEN copy[id].version
                                   ELSE 0]]
     /\ wire' = <<[changed |-> [id \in Id |-> IF id \in stale
                                  THEN Projected(entity[id], id \in mine)
                                  ELSE Nothing],
                   gone |-> {}]>>

(* snapshot_since, or snapshot when they hold nothing; with what           *)
(* _send_snapshot remembers of it.                                         *)
Snapshot(mine) ==
  LET allowed == shared \cup mine
      stale == {id \in allowed \cap Existing :
                  copy[id] = Nothing \/ copy[id].version # entity[id].version}
      held == {id \in Id : copy[id] # Nothing}
  IN /\ session' =
          [open |-> TRUE, owned |-> mine, visible |-> allowed,
           sent |-> [id \in Id |-> IF id \in stale THEN entity[id].version
                                   ELSE IF id \in held THEN copy[id].version
                                   ELSE 0]]
     /\ wire' = <<[changed |-> [id \in Id |-> IF id \in stale
                                  THEN Projected(entity[id], id \in mine)
                                  ELSE Nothing],
                   gone |-> held \ allowed]>>

(* _admit                                                                  *)
Connect ==
  /\ ~session.open
  /\ Snapshot(owned)
  /\ UNCHANGED <<store, copy>>

Disconnect ==
  /\ session.open
  /\ session' = Closed
  /\ wire' = <<>>
  /\ UNCHANGED <<store, copy>>

Room == Len(wire) < MaxWire

(* EntityRepo.create; a new row has an id above every other.               *)
Create(id, text) ==
  /\ Room
  /\ entity[id] = Nothing
  /\ \A other \in Existing : other < id
  /\ entity' = [entity EXCEPT ![id] = [version |-> 1, text |-> text]]
  /\ UNCHANGED <<shared, owned, copy>>
  /\ Publish(id)

Rewritten(id, text) ==
  /\ id \in Existing
  /\ entity[id].version < MaxVersion
  /\ entity' = [entity EXCEPT ![id] = [version |-> @.version + 1, text |-> text]]

(* EntityRepo.update, from a form, from the fight or from an approval; a   *)
(* form also says whose it is.                                             *)
Save(id, text, own) ==
  /\ Room
  /\ Rewritten(id, text)
  /\ owned' = IF own THEN owned \cup {id} ELSE owned \ {id}
  /\ UNCHANGED <<shared, copy>>
  /\ Publish(id)

(* EntityRepo.set_owner, from the Players dialog or an enrolment: the      *)
(* version goes up and nothing is published.                               *)
SetOwner(id, own) ==
  /\ Rewritten(id, entity[id].text)
  /\ owned' = IF own THEN owned \cup {id} ELSE owned \ {id}
  /\ UNCHANGED <<shared, session, wire, copy>>

(* A bug: the row goes and its shares stay. *)
DeleteLeavingShares(id) ==
  /\ Room
  /\ id \in Existing
  /\ entity' = [entity EXCEPT ![id] = Nothing]
  /\ owned' = owned \ {id}
  /\ UNCHANGED <<shared, copy>>
  /\ Publish(id)

(* Its shares go with the row.                                             *)
Delete(id) ==
  /\ Room
  /\ id \in Existing
  /\ entity' = [entity EXCEPT ![id] = Nothing]
  /\ shared' = shared \ {id}
  /\ owned' = owned \ {id}
  /\ UNCHANGED copy
  /\ Publish(id)

(* ShareRepo.set_audiences                                                 *)
Share(id, with) ==
  /\ Room
  /\ id \in Existing
  /\ shared' = IF with THEN shared \cup {id} ELSE shared \ {id}
  /\ UNCHANGED <<entity, owned, copy>>
  /\ Publish(id)

-----------------------------------------------------------------------------
(* The player                                                              *)

(* SharedState.upsert and remove, frame by frame.                          *)
Read(held, frame) ==
  [id \in Id |-> IF frame.changed[id] # Nothing THEN frame.changed[id]
                 ELSE IF id \in frame.gone THEN Nothing
                 ELSE held[id]]

Receive ==
  /\ wire # <<>>
  /\ copy' = Read(copy, Head(wire))
  /\ wire' = Tail(wire)
  /\ UNCHANGED <<store, session>>

(* cache.forget, or a cache that cannot be read.                           *)
ForgetCache ==
  /\ ~session.open
  /\ copy' = NoNews
  /\ UNCHANGED <<store, session, wire>>

-----------------------------------------------------------------------------
Next ==
  \/ Connect
  \/ Disconnect
  \/ Receive
  \/ ForgetCache
  \/ \E id \in Id :
       \/ Delete(id)
       \/ \E text \in Text : Create(id, text)
       \/ \E text \in Text, own \in BOOLEAN : Save(id, text, own)
       \/ \E own \in BOOLEAN : SetOwner(id, own)
       \/ \E with \in BOOLEAN : Share(id, with)

Spec == Init /\ [][Next]_vars

-----------------------------------------------------------------------------
(* Properties                                                              *)

Mentions(frame, id) == frame.changed[id] # Nothing \/ id \in frame.gone

LastMention(frames, i, id) ==
  /\ Mentions(frames[i], id)
  /\ \A j \in i + 1 .. Len(frames) : ~Mentions(frames[j], id)

AfterReading(held, frames, id) ==
  IF \E i \in 1 .. Len(frames) : LastMention(frames, i, id)
  THEN frames[CHOOSE i \in 1 .. Len(frames) : LastMention(frames, i, id)].changed[id]
  ELSE held[id]

(* What they will hold of id when everything in flight has arrived.        *)
OnArrival(id) == AfterReading(copy, wire, id)

(* A player ends up holding exactly what they may know exists: a share     *)
(* taken back, or a creature deleted, leaves their screen, whether they    *)
(* were connected or away at the time; and nothing they may see is missing *)
(* (publish_entity, snapshot_since).                                       *)
TheyHoldWhatTheyMaySee ==
  session.open =>
    \A id \in Id :
      OnArrival(id) # Nothing <=> id \in (shared \cup session.owned) \cap Existing

(* The version the host takes an edit of theirs to be made against is the  *)
(* one they hold, or are about to.                                         *)
SentIsWhatTheyHold ==
  session.open =>
    \A id \in (shared \cup session.owned) \cap Existing :
      OnArrival(id) # Nothing /\ session.sent[id] = OnArrival(id).version

(* All the player can tell of the wire, the cache and what the host        *)
(* remembers having sent is that frames take time: as of what is on its    *)
(* way, they know the version of everything they may see the moment it     *)
(* changes, and of nothing else (Shelf).                                   *)
VersionHeld(held) == IF held = Nothing THEN 0 ELSE held.version

Promise == INSTANCE Shelf WITH
  version <- [id \in Id |-> IF entity[id] = Nothing THEN 0 ELSE entity[id].version],
  open    <- session.open,
  mine    <- session.owned,
  known   <- [id \in Id |-> VersionHeld(OnArrival(id))]

KeepsThePromise == Promise!Spec
=============================================================================
