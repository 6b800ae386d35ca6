-------------------------------- MODULE Party --------------------------------
(***************************************************************************)
(* The consensus party of a node (party/mod.rs) with what it drives and    *)
(* what drives it: the session map and its updater (session_map.rs), the   *)
(* backups of the AlephBFT member on disk (party/backup.rs), and the       *)
(* session network behind its queue of commands                            *)
(* (network/session/service.rs). The chain is the number of the last       *)
(* finalized block; consensus and synchronisation raise it. The node       *)
(* crashes and restarts, and keeps only the chain and the disk.            *)
(***************************************************************************)
EXTENDS Naturals, Sequences, Functions

CONSTANTS SessionPeriod,      \* blocks of a session
          PruningThreshold,   \* the session map's PRUNING_THRESHOLD
          Validated,          \* the sessions whose authorities include us
          Peers,              \* the other validators
          LastSession,        \* bound: the chain stops at its first block
          MaxUnits,           \* bound on the units of a session
          MaxCrashes,         \* bound on the crashes
          MaxBackupErrors     \* bound on the failures of backup::rotate

ASSUME PartyAssumption ==
  /\ SessionPeriod \in Nat \ {0}
  /\ PruningThreshold \in Nat \ {0}
  /\ LastSession \in Nat
  /\ Validated \subseteq 0..(LastSession - 1)

VARIABLES finalized,   \* the number of the last finalized block
          party,       \* where run_session is: its location and its session
          task,        \* whether the authority task runs
          receiver,    \* the subscription to the session map the party holds
          known,       \* the sessions in the session map
          updated,     \* last_updated of the updater
          queue,       \* commands on their way to the session network
          net,         \* the session network
          disk,        \* for a session, the units in each of its backup files
          removing,    \* backups whose removal was spawned
          units,       \* the units the running member knows it created
          sent,        \* history: the units ever created in a session
          returned,    \* history: the sessions run_session returned early from
          crashes, errors

vars == <<finalized, party, task, receiver, known, updated, queue, net, disk,
          removing, units, sent, returned, crashes, errors>>

Sessions == 0..(LastSession + 2)
SessionOf(n) == n \div SessionPeriod
FirstBlock(s) == s * SessionPeriod
LastBlock(s) == (s + 1) * SessionPeriod - 1

INSTANCE SessionNetwork

-----------------------------------------------------------------------------
\* The session map

NoReceiver == [id |-> 0, state |-> "none"]
NotStarted == LastSession + 2

\* Mutant: a session that is there already is waited for.
SubscribeLate(id) == [id |-> id, state |-> "waiting"]

Subscribe(id) ==
  [id |-> id, state |-> IF id \in known THEN "data" ELSE "waiting"]

\* What inserting `ids` and then pruning below `low` does to the receiver.
Notified(ids) ==
  IF receiver.state = "waiting" /\ receiver.id \in ids
  THEN [receiver EXCEPT !.state = "data"] ELSE receiver
Pruned(r, low) ==
  IF r.state = "waiting" /\ r.id < low THEN [r EXCEPT !.state = "closed"] ELSE r

PruneBelow(s) ==
  IF s > PruningThreshold /\ s % PruningThreshold = 0
  THEN s - PruningThreshold ELSE 0

\* The sessions `ids` are inserted and the first block of s is handled.
HandleFirstBlock(ids, s) ==
  LET inserted == ids \cup {s + 1}
  IN  /\ known' = {t \in known \cup inserted : t >= PruneBelow(s)}
      /\ receiver' = Pruned(Notified(inserted), PruneBelow(s))
      /\ updated' = s

UpdaterCatchesUp ==
  /\ updated = NotStarted
  /\ LET current == SessionOf(finalized)
         start == IF current < PruningThreshold THEN 0
                  ELSE current + 1 - PruningThreshold
     IN  HandleFirstBlock(start..current, current)
  /\ UNCHANGED <<finalized, party, task, queue, net, disk, removing, units,
                 sent, returned, crashes, errors>>

UpdaterNotified ==
  /\ updated < SessionOf(finalized)
  /\ HandleFirstBlock({}, updated + 1)
  /\ UNCHANGED <<finalized, party, task, queue, net, disk, removing, units,
                 sent, returned, crashes, errors>>

-----------------------------------------------------------------------------
\* The backups


LoadBackup(files) == SumFunction(files)

\* backup::rotate: the units of all files so far, and a new file
Rotate(s) ==
  /\ units' = LoadBackup(disk[s])
  /\ disk' = [disk EXCEPT ![s] = Append(@, 0)]

\* A removal that run_session spawned gets its turn.
RemoveBackup(s) ==
  /\ s \in removing
  /\ disk' = [disk EXCEPT ![s] = << >>]
  /\ removing' = removing \ {s}
  /\ UNCHANGED <<finalized, party, task, receiver, known, updated, queue, net,
                 units, sent, returned, crashes, errors>>

\* The member saves a unit before it sends it.
CreateUnit ==
  /\ task
  /\ units < MaxUnits
  /\ LET s == party.session
     IN  /\ disk' = [disk EXCEPT ![s][Len(disk[s])] = @ + 1]
         /\ units' = units + 1
         /\ sent' = [sent EXCEPT ![s] = IF @ > units THEN @ ELSE units + 1]
  /\ UNCHANGED <<finalized, party, task, receiver, known, updated, queue, net,
                 removing, returned, crashes, errors>>

-----------------------------------------------------------------------------
\* The party. `at` is the point of run_session the party has reached.

At(at, s) == [at |-> at, session |-> s]

\* run moves on to session s, and run_session begins
Enter(s) ==
  /\ party' = At("begin", s)
  /\ removing' = removing \cup ({s - 1} \cap Nat)
  /\ task' = FALSE
  /\ receiver' = NoReceiver
  /\ units' = 0

\* catch_up, when the chain is synchronised or no longer advances
Boot ==
  /\ party.at = "off"
  /\ Enter(SessionOf(finalized))
  /\ UNCHANGED <<finalized, known, updated, queue, net, disk, sent, returned,
                 crashes, errors>>

SkipEarly ==
  /\ party.at = "begin"
  /\ finalized >= LastBlock(party.session)
  /\ Enter(party.session + 1)
  /\ returned' = returned \cup {party.session}
  /\ UNCHANGED <<finalized, known, updated, queue, net, disk, sent, crashes,
                 errors>>

AwaitAuthorities ==
  /\ party.at = "begin"
  /\ finalized < LastBlock(party.session)
  /\ party' = At("authorities", party.session)
  /\ receiver' = Subscribe(party.session)
  /\ UNCHANGED <<finalized, task, known, updated, queue, net, disk, removing,
                 units, sent, returned, crashes, errors>>

StartValidator(s, reply) == [command |-> "validator", session |-> s, reply |-> reply]
StartNonvalidator(s) == [command |-> "nonvalidator", session |-> s, reply |-> FALSE]
StopSession(s) == [command |-> "stop", session |-> s, reply |-> FALSE]

RunAsAuthority ==
  /\ party.at = "authorities"
  /\ receiver.state = "data"
  /\ party.session \in Validated
  /\ Rotate(party.session)
  /\ queue' = Append(queue, StartValidator(party.session, TRUE))
  /\ party' = At("network", party.session)
  /\ receiver' = NoReceiver
  /\ UNCHANGED <<finalized, task, known, updated, net, removing, sent,
                 returned, crashes, errors>>

BackupFails ==
  /\ party.at = "authorities"
  /\ receiver.state = "data"
  /\ party.session \in Validated
  /\ errors < MaxBackupErrors
  /\ errors' = errors + 1
  /\ Enter(party.session + 1)
  /\ returned' = returned \cup {party.session}
  /\ UNCHANGED <<finalized, known, updated, queue, net, disk, sent, crashes>>

RunAsNonauthority ==
  /\ party.at = "authorities"
  /\ receiver.state = "data"
  /\ party.session \notin Validated
  /\ queue' = Append(queue, StartNonvalidator(party.session))
  /\ party' = At("loop", party.session)
  /\ receiver' = Subscribe(party.session + 1)
  /\ UNCHANGED <<finalized, task, known, updated, net, disk, removing, units,
                 sent, returned, crashes, errors>>

\* The reply of the session network has arrived. When the last block of the
\* previous session is not in the database, the node panics instead: Crash.
SpawnAuthorityTask ==
  /\ party.at = "spawn"
  /\ task' = TRUE
  /\ party' = At("loop", party.session)
  /\ receiver' = Subscribe(party.session + 1)
  /\ UNCHANGED <<finalized, known, updated, queue, net, disk, removing, units,
                 sent, returned, crashes, errors>>

TaskEnds ==
  /\ task
  /\ task' = FALSE
  /\ UNCHANGED <<finalized, party, receiver, known, updated, queue, net, disk,
                 removing, units, sent, returned, crashes, errors>>

\* A subscription that was dropped is renewed.
NextAuthorities ==
  /\ party.at = "loop"
  /\ receiver.state \in {"data", "closed"}
  /\ LET next == party.session + 1
         start == IF next \in Validated THEN StartValidator(next, FALSE)
                  ELSE StartNonvalidator(next)
         known_ == receiver.state = "data"
     IN  /\ queue' = IF known_ THEN Append(queue, start) ELSE queue
         /\ receiver' = IF known_ THEN NoReceiver ELSE Subscribe(next)
  /\ UNCHANGED <<finalized, party, task, known, updated, net, disk, removing,
                 units, sent, returned, crashes, errors>>

\* Mutant: the session is not stopped.
FinishWithoutStop ==
  /\ party.at = "loop"
  /\ finalized >= LastBlock(party.session)
  /\ Enter(party.session + 1)
  /\ UNCHANGED <<finalized, known, updated, queue, net, disk, sent, returned,
                 crashes, errors>>

FinishSessionRun ==
  /\ party.at = "loop"
  /\ finalized >= LastBlock(party.session)
  /\ queue' = Append(queue, StopSession(party.session))
  /\ Enter(party.session + 1)
  /\ UNCHANGED <<finalized, known, updated, net, disk, sent, returned, crashes,
                 errors>>

-----------------------------------------------------------------------------
\* The session network

HandleCommand ==
  /\ queue # << >>
  /\ queue' = Tail(queue)
  /\ LET c == Head(queue)
     IN  /\ net' = CASE c.command = "validator" ->
                          UpdateValidatorSession(net, c.session, c.reply)
                     [] c.command = "nonvalidator" ->
                          UpdateNonvalidatorSession(net, c.session)
                     [] OTHER -> FinishSession(net, c.session)
         /\ party' = IF c.reply THEN At("spawn", party.session) ELSE party
  /\ UNCHANGED <<finalized, task, receiver, known, updated, disk, removing,
                 units, sent, returned, crashes, errors>>

DiscoveryMessage(s, p) ==
  /\ net.role[s] # "closed"
  /\ p \notin net.auths[s]
  /\ net' = OnDiscoveryMessage(net, s, p)
  /\ UNCHANGED <<finalized, party, task, receiver, known, updated, queue, disk,
                 removing, units, sent, returned, crashes, errors>>

-----------------------------------------------------------------------------
\* The chain and the node

\* Fewer than PruningThreshold sessions pass while the party waits for the
\* authorities of its session.
Finalize ==
  /\ finalized < FirstBlock(LastSession)
  /\ party.at = "authorities" =>
       SessionOf(finalized + 1) < party.session + PruningThreshold
  /\ finalized' = finalized + 1
  /\ UNCHANGED <<party, task, receiver, known, updated, queue, net, disk,
                 removing, units, sent, returned, crashes, errors>>

\* A crash loses everything but the chain and the disk.
Crash ==
  /\ party.at # "off"
  /\ crashes < MaxCrashes
  /\ crashes' = crashes + 1
  /\ party' = At("off", 0)
  /\ task' = FALSE
  /\ receiver' = NoReceiver
  /\ known' = {}
  /\ updated' = NotStarted
  /\ queue' = << >>
  /\ net' = NewManager
  /\ removing' = {}
  /\ units' = 0
  /\ UNCHANGED <<finalized, disk, sent, returned, errors>>

Init ==
  /\ finalized = 0
  /\ party = At("off", 0)
  /\ task = FALSE
  /\ receiver = NoReceiver
  /\ known = {}
  /\ updated = NotStarted
  /\ queue = << >>
  /\ net = NewManager
  /\ disk = [s \in Sessions |-> << >>]
  /\ removing = {}
  /\ units = 0
  /\ sent = [s \in Sessions |-> 0]
  /\ returned = {}
  /\ crashes = 0
  /\ errors = 0

Next ==
  \/ Boot \/ SkipEarly \/ AwaitAuthorities \/ RunAsAuthority \/ BackupFails
  \/ RunAsNonauthority \/ SpawnAuthorityTask \/ TaskEnds \/ NextAuthorities
  \/ FinishSessionRun \/ HandleCommand \/ UpdaterCatchesUp \/ UpdaterNotified
  \/ CreateUnit \/ Finalize \/ Crash
  \/ \E s \in Sessions : RemoveBackup(s)
  \/ \E s \in Sessions, p \in Peers : DiscoveryMessage(s, p)

\* The tasks of the node are scheduled; the chain may stop, and no unit or
\* message has to come.
PartySteps ==
  \/ Boot \/ SkipEarly \/ AwaitAuthorities \/ RunAsAuthority
  \/ RunAsNonauthority \/ SpawnAuthorityTask
PartyFairness ==
  /\ WF_vars(PartySteps) /\ WF_vars(FinishSessionRun)
  /\ WF_vars(HandleCommand)
  /\ WF_vars(UpdaterCatchesUp) /\ WF_vars(UpdaterNotified)

Spec == Init /\ [][Next]_vars /\ PartyFairness

-----------------------------------------------------------------------------

\* While the authority task of a session runs, the session network has the
\* session open as a validator and forwards its data to that task.
TaskConnected ==
  task => /\ net.role[party.session] = "validator"
          /\ net.user[party.session]

\* The clique network is asked to stay connected exactly to the peers that
\* some open validator session knows, however sessions overlap.
ReservedMatch ==
  net.reserved =
    UNION {net.auths[s] : s \in {t \in Sessions : net.role[t] = "validator"}}

\* A network session that is open although the party is past it was one that
\* run_session left early; every other one is closed once the commands on
\* their way have arrived.
SessionsClosed ==
  party.at # "off" =>
    \A s \in Sessions :
      /\ net.role[s] # "closed"
      /\ s < party.session
      /\ StopSession(s) \notin Range(queue)
      => s \in returned

\* When the last block of the party's session is finalized, the party moves
\* on, unless the node crashes: it never waits for authorities that the
\* updater dropped or will not insert, nor for a network that nobody starts.
Ended == finalized >= LastBlock(party.session)
MovesOn ==
  \A s \in 0..LastSession :
    (party.session = s /\ party.at # "off" /\ Ended)
      ~> (party.session > s \/ party.at = "off")

=============================================================================
