------------------------------ MODULE Runtime ------------------------------
(***************************************************************************)
(* Who produces blocks and who finalizes them, session after session: the  *)
(* runtime's pallets aleph, committee-management and elections, as the     *)
(* external pallets session and staking drive them.                        *)
(*                                                                         *)
(* A session ends inside one block: pallet session calls end_session for   *)
(* the session that ends, start_session for the next one and new_session   *)
(* for the one after it, and then on_new_session.  These calls pass the    *)
(* whole storage `rt` from one to the next.  Between two ends of a session *)
(* the root origin and stakers call the pallets' extrinsics.               *)
(***************************************************************************)
EXTENDS Naturals, Sequences, FiniteSetsExt, SequencesExt, Functions

CONSTANTS
  Accounts,           \* validators, each with its session keys
  GenesisReserved,    \* lists and seats of the genesis configuration
  GenesisNonReserved,
  GenesisSeats,
  Lists,              \* pairs of lists root may ask for
  SeatChoices,        \* committee sizes root may ask for
  SessionPeriod,      \* blocks in a session
  SessionsPerEra,
  MinValidators,      \* minimum_validator_count of pallet staking
  MinPerformance,     \* the fields of BanConfig, the first one a percentage
  UnderperformedThreshold,
  CleanDelay,
  BanPeriod,
  Finalizers,         \* emergency finalization keys
  Versions,           \* finality versions, the first one in force is 0
  LastSession,        \* bound on the sessions
  MaxCalls,           \* bound on the extrinsics
  None

Seats == [reserved : Nat, nonReserved : Nat, finality : Nat]

Size(seats) == seats.reserved + seats.nonReserved

\* ensure_validators_are_ok, for lists that are sets: their elements are
\* unique when the two have none in common.
ValidatorsOk(reserved, nonReserved, seats) ==
  /\ seats.finality <= seats.nonReserved
  /\ seats.reserved <= Cardinality(reserved)
  /\ seats.nonReserved <= Cardinality(nonReserved)
  /\ reserved \cap nonReserved = {}

\* Both kinds of seats exist, so that there is a committee in every session:
\* the pallets accept other sizes too, and divide by the number of seats.
ASSUME RuntimeAssumption ==
  /\ SessionPeriod \in Nat \ {0} /\ SessionsPerEra \in Nat \ {0}
  /\ MinValidators \in Nat \ {0} /\ MinPerformance \in 0..100
  /\ UnderperformedThreshold \in Nat \ {0} /\ CleanDelay \in Nat \ {0}
  /\ BanPeriod \in Nat \ {0} /\ LastSession \in Nat /\ MaxCalls \in Nat
  /\ IsFiniteSet(Accounts) /\ GenesisReserved \in Seq(Accounts)
  /\ GenesisNonReserved \in Seq(Accounts)
  /\ None \notin Finalizers
  /\ None \notin [producers : SUBSET Accounts, finality : SUBSET Accounts]
  /\ SeatChoices \subseteq Seats /\ GenesisSeats \in SeatChoices
  /\ \A seats \in SeatChoices : seats.reserved > 0 /\ seats.nonReserved > 0
  /\ ValidatorsOk(ToSet(GenesisReserved), ToSet(GenesisNonReserved), GenesisSeats)

VARIABLES
  rt,        \* the storage of the pallets
  chosen,    \* the committee chosen for a session, and the seats it has
  requested, \* the last emergency finalizer set in a session
  judged,    \* who underperformed in the session that ended last, by which blocks
  calls      \* extrinsics so far

vars == <<rt, chosen, requested, judged, calls>>

-----------------------------------------------------------------------------
(* Committees *)

ChooseForSession(validators, count, session) ==
  IF validators = <<>> THEN <<>>
  ELSE LET n == Len(validators)
       IN  [i \in 1..Min({count, n}) |->
              validators[((session * count + i - 1) % n) + 1]]

\* select_committee_inner.  Both committees are shuffled in the end, so they
\* are sets.
SelectCommittee(reserved, nonReserved, seats, session) ==
  LET chosenReserved == ChooseForSession(reserved, seats.reserved, session)
      chosenNonReserved == ChooseForSession(nonReserved, seats.nonReserved, session)
      finality == ChooseForSession(chosenNonReserved, seats.finality, session)
      producers == ToSet(chosenReserved) \cup ToSet(chosenNonReserved)
  IN  IF producers = {} THEN None
      ELSE [producers |-> producers, finality |-> ToSet(chosenReserved) \cup ToSet(finality)]

CurrentCommittee(w, session) ==
  SelectCommittee(w.reserved, w.nonReserved, w.committeeSize, session)

\* Mutant: the committee does not become the current one in time.
StoreNextOnly(w, committee) ==
  [w EXCEPT !.next =
     [committee |-> committee,
      nonCommittee |-> (ToSet(w.reserved) \cup ToSet(w.nonReserved)) \ committee]]

StoreSessionValidators(w, committee) ==
  [w EXCEPT
     !.current = w.next,
     !.next = [committee |-> committee,
               nonCommittee |-> (ToSet(w.reserved) \cup ToSet(w.nonReserved)) \ committee]]

\* rotate_committee, and on_next_session_finality_committee.
RotateCommittee(w, session) ==
  LET committee == CurrentCommittee(w, session)
  IN  IF committee = None THEN w
      ELSE [StoreSessionValidators(w, committee.producers)
              EXCEPT !.nextFinalityCommittee = committee.finality]

-----------------------------------------------------------------------------
(* Bans *)

BanExpired(start, era) == start + BanPeriod <= era

\* banned(): the validators that may not be elected for the era after the
\* active one.
Banned(w) ==
  {v \in Accounts : w.banned[v] # None /\ ~BanExpired(w.banned[v], w.activeEra + 1)}

\* Mutant: the ban counts from the active era.
BanFromActive(w, validators) ==
  LET out == validators \ w.nextReserved
  IN  [w EXCEPT
         !.banned = [v \in Accounts |-> IF v \in out THEN w.activeEra + 1 ELSE @[v]],
         !.electable = @ \ out]

\* ban_validator, for some validators: can_ban spares the reserved ones, and
\* staking forgets those that are banned.
BanValidators(w, validators) ==
  LET out == validators \ w.nextReserved
  IN  [w EXCEPT
         !.banned = [v \in Accounts |-> IF v \in out THEN w.currentEra + 1 ELSE @[v]],
         !.electable = @ \ out]

ClearExpiredBans(w) ==
  [w EXCEPT !.banned = [v \in Accounts |-> IF @[v] # None /\ BanExpired(@[v], w.activeEra)
                                           THEN None ELSE @[v]]]

BlocksToProduce(w) == SessionPeriod \div Size(w.committeeSize)

\* Whether a validator's blocks are too few of the expected ones, a ratio
\* that is capped at one, and is one when nothing is expected.
TooFew(produced, expected) ==
  LET all == Max({expected, 1})
  IN  produced = 0 \/ Min({produced, all}) * 100 <= MinPerformance * all

Underperforming(w) ==
  {v \in w.current.committee : TooFew(w.blocks[v], BlocksToProduce(w))}

\* calculate_underperforming_validators
MarkUnderperforming(w) ==
  LET marks == Underperforming(w)
      counter == [v \in Accounts |-> w.underperformed[v] + IF v \in marks THEN 1 ELSE 0]
      out == {v \in marks : counter[v] >= UnderperformedThreshold}
  IN  BanValidators([w EXCEPT !.underperformed =
                       [v \in Accounts |-> IF v \in out THEN 0 ELSE counter[v]]], out)

-----------------------------------------------------------------------------
(* Elections *)

\* elect(): the list of non-reserved validators is stored as it is elected.
Elect(w) ==
  LET eligible == (w.electable \ Banned(w)) \ w.nextReserved
  IN  [w EXCEPT !.nextNonReserved =
         IF w.openness = "Permissioned" THEN @ \cap eligible ELSE eligible]

Elected(w) == (w.nextReserved \cap w.electable) \cup w.nextNonReserved

\* on_new_era: the elected part of the lists, in an order drawn for the era.
OnNewEra(w) ==
  {[w EXCEPT !.reserved = lists[1], !.nonReserved = lists[2],
             !.committeeSize = w.nextCommitteeSize] :
     lists \in SetToSeqs(w.nextReserved \cap w.electable) \X SetToSeqs(w.nextNonReserved)}

\* Pallet staking plans an era when the current one is long enough, unless
\* too few validators are elected: then it tries again for the next session.
PlanEra(w, session) ==
  IF session - w.eraStart < SessionsPerEra THEN {w}
  ELSE LET after == Elect(w)
       IN  IF Cardinality(Elected(after)) < MinValidators THEN {after}
           ELSE OnNewEra([after EXCEPT !.currentEra = @ + 1, !.eraStart = session])

-----------------------------------------------------------------------------
(* The end of a session *)

\* The rewards, which go to pallet staking, are left out.
EndSession(w) == [MarkUnderperforming(w) EXCEPT !.blocks = [v \in Accounts |-> 0]]

\* Mutant: the change is made when its session is over.
UpdateVersionLate(w) ==
  IF w.scheduled # None /\ w.scheduled.session < w.session
  THEN [w EXCEPT !.version = w.scheduled.version, !.scheduled = None] ELSE w

\* update_version_change_history
UpdateVersion(w) ==
  IF w.scheduled # None /\ w.scheduled.session = w.session
  THEN [w EXCEPT !.version = w.scheduled.version, !.scheduled = None] ELSE w

\* Staking makes the planned era the active one when its first session starts.
StartSession(w) ==
  LET starts == w.currentEra = w.activeEra + 1 /\ w.eraStart = w.session
      started == IF starts THEN [w EXCEPT !.activeEra = @ + 1] ELSE w
      cleared == IF w.session % CleanDelay = 0
                 THEN [started EXCEPT !.underperformed = [v \in Accounts |-> 0]] ELSE started
  IN  UpdateVersion(IF starts THEN ClearExpiredBans(cleared) ELSE cleared)

UpdateAuthorities(w) ==
  [w EXCEPT !.authorities = w.nextAuthorities,
            !.nextAuthorities = w.queued \cap w.nextFinalityCommittee]

\* Mutant: the queued key is taken after it was replaced.
UpdateFinalizerAtOnce(w) ==
  [w EXCEPT !.queuedFinalizer = IF w.nextFinalizer # None THEN w.nextFinalizer ELSE @,
            !.finalizer = IF w.nextFinalizer # None THEN w.nextFinalizer
                          ELSE IF w.queuedFinalizer # None THEN w.queuedFinalizer ELSE @]

UpdateEmergencyFinalizer(w) ==
  [w EXCEPT !.finalizer = IF w.queuedFinalizer # None THEN w.queuedFinalizer ELSE @,
            !.queuedFinalizer = IF w.nextFinalizer # None THEN w.nextFinalizer ELSE @]

\* Mutant: the authorities are updated when the queued validators changed,
\* and not when those of the session that starts did.
OnNewSessionQueued(w, changed) ==
  LET updated == UpdateEmergencyFinalizer(w)
  IN  IF changed /\ w.queued # w.validators THEN UpdateAuthorities(updated) ELSE updated

OnNewSession(w, changed) ==
  LET updated == UpdateEmergencyFinalizer(w)
  IN  IF changed THEN UpdateAuthorities(updated) ELSE updated

\* Pallet session queues the committee that new_session returned.
Queue(w, committee) ==
  [w EXCEPT !.queued = IF committee = None THEN w.validators ELSE committee.producers,
            !.queuedChanged = committee # None]

\* What the storage may be after a session has ended: it depends on the order
\* drawn for an era only.
Rotated(w) ==
  LET ended == EndSession(w)
      started == StartSession([ended EXCEPT !.validators = w.queued, !.session = @ + 1])
      new == started.session + 1
  IN  {OnNewSession(Queue(RotateCommittee(planned, new), CurrentCommittee(planned, new)),
                    w.queuedChanged) : planned \in PlanEra(started, new)}

-----------------------------------------------------------------------------
Init ==
  LET all == ToSet(GenesisReserved) \cup ToSet(GenesisNonReserved)
      genesis == [committee |-> all, nonCommittee |-> {}]
  IN  /\ rt = [session |-> 0, validators |-> all, queued |-> all, queuedChanged |-> FALSE,
               currentEra |-> 0, activeEra |-> 0, eraStart |-> 0, electable |-> all,
               reserved |-> GenesisReserved, nonReserved |-> GenesisNonReserved,
               committeeSize |-> GenesisSeats,
               nextReserved |-> ToSet(GenesisReserved),
               nextNonReserved |-> ToSet(GenesisNonReserved),
               nextCommitteeSize |-> GenesisSeats, openness |-> "Permissioned",
               blocks |-> [v \in Accounts |-> 0],
               underperformed |-> [v \in Accounts |-> 0],
               banned |-> [v \in Accounts |-> None],
               current |-> genesis, next |-> genesis,
               authorities |-> all, nextAuthorities |-> all, nextFinalityCommittee |-> {},
               finalizer |-> None, queuedFinalizer |-> None, nextFinalizer |-> None,
               version |-> 0, scheduled |-> None]
      /\ chosen = [s \in 0..LastSession + 1 |-> [committee |-> None, seats |-> GenesisSeats]]
      /\ requested = [s \in 0..LastSession |-> None]
      /\ judged = [marked |-> {}, blocks |-> [v \in Accounts |-> 0]]
      /\ calls = 0

\* A block: its author is noted, and the last block of a session, which is
\* the first one of the next, ends it.
NoteAuthor(v) ==
  /\ v \in rt.validators
  /\ rt.session < LastSession
  /\ LET noted == [rt EXCEPT !.blocks[v] = @ + 1]
     IN  IF SumFunction(noted.blocks) < SessionPeriod
         THEN rt' = noted /\ UNCHANGED <<chosen, judged>>
         ELSE /\ rt' \in Rotated(noted)
              /\ chosen' = [chosen EXCEPT ![rt'.session + 1] =
                              [committee |-> CurrentCommittee(rt', rt'.session + 1),
                               seats |-> rt'.committeeSize]]
              /\ judged' = [marked |-> Underperforming(noted), blocks |-> noted.blocks]
  /\ UNCHANGED <<requested, calls>>

-----------------------------------------------------------------------------
(* Extrinsics, of the root origin and of stakers *)

Call == calls < MaxCalls /\ calls' = calls + 1

SetEmergencyFinalizer(k) ==
  /\ Call
  /\ rt' = [rt EXCEPT !.nextFinalizer = k]
  /\ requested' = [requested EXCEPT ![rt.session] = k]
  /\ UNCHANGED <<chosen, judged>>

ScheduleFinalityVersionChange(version, session) ==
  /\ Call
  /\ session >= rt.session + 2
  /\ rt' = [rt EXCEPT !.scheduled = [version |-> version, session |-> session]]
  /\ UNCHANGED <<chosen, requested, judged>>

\* Mutant: the committee size takes effect at once.
ChangeValidatorsAtOnce(lists, seats) ==
  /\ Call
  /\ ValidatorsOk(lists.reserved, lists.nonReserved, seats)
  /\ rt' = [rt EXCEPT !.nextReserved = lists.reserved, !.nextNonReserved = lists.nonReserved,
                      !.nextCommitteeSize = seats, !.committeeSize = seats]
  /\ UNCHANGED <<chosen, requested, judged>>

ChangeValidators(lists, seats) ==
  /\ Call
  /\ ValidatorsOk(lists.reserved, lists.nonReserved, seats)
  /\ rt' = [rt EXCEPT !.nextReserved = lists.reserved, !.nextNonReserved = lists.nonReserved,
                      !.nextCommitteeSize = seats]
  /\ UNCHANGED <<chosen, requested, judged>>

SetElectionsOpenness(openness) ==
  /\ Call
  /\ rt' = [rt EXCEPT !.openness = openness]
  /\ UNCHANGED <<chosen, requested, judged>>

BanFromCommittee(v) ==
  /\ Call
  /\ rt' = BanValidators(rt, {v})
  /\ UNCHANGED <<chosen, requested, judged>>

CancelBan(v) ==
  /\ Call
  /\ rt.banned[v] # None
  /\ rt' = [rt EXCEPT !.banned[v] = None]
  /\ UNCHANGED <<chosen, requested, judged>>

\* Pallet staking: an account offers to validate, or takes that back.
Validate(v) ==
  /\ Call
  /\ v \notin rt.electable
  /\ rt' = [rt EXCEPT !.electable = @ \cup {v}]
  /\ UNCHANGED <<chosen, requested, judged>>

Chill(v) ==
  /\ Call
  /\ v \in rt.electable
  /\ rt' = [rt EXCEPT !.electable = @ \ {v}]
  /\ UNCHANGED <<chosen, requested, judged>>

Next ==
  \/ \E v \in Accounts :
       NoteAuthor(v) \/ BanFromCommittee(v) \/ CancelBan(v) \/ Validate(v) \/ Chill(v)
  \/ \E k \in Finalizers : SetEmergencyFinalizer(k)
  \/ \E version \in Versions, session \in 0..LastSession :
       ScheduleFinalityVersionChange(version, session)
  \/ \E lists \in Lists, seats \in SeatChoices : ChangeValidators(lists, seats)
  \/ \E openness \in {"Permissioned", "Permissionless"} : SetElectionsOpenness(openness)

Spec == Init /\ [][Next]_vars

-----------------------------------------------------------------------------
(* Properties *)

LastRequested(session) ==
  LET set == {s \in 0..LastSession : s <= session /\ requested[s] # None}
  IN  IF set = {} THEN None ELSE requested[Max(set)]

\* The emergency key in force in a session is the last one that was set two
\* sessions before it or earlier, as set_emergency_finalizer promises
\* (pallets/aleph/src/lib.rs:261), however often it is replaced meanwhile.
EmergencyKeyInForce ==
  rt.finalizer = IF rt.session < 2 THEN None ELSE LastRequested(rt.session - 2)

NextSessionFinalityVersion(w) ==
  IF w.scheduled # None /\ w.scheduled.session = w.session + 1
  THEN w.scheduled.version ELSE w.version

\* A node takes the version of a session from next_session_finality_version in
\* the last block of the session before (finality-aleph/src/party/manager/
\* mod.rs:356): that is the version the runtime puts in force, whatever was
\* scheduled, replaced or scheduled again.
VersionForeseen ==
  [][rt'.session # rt.session => rt'.version = NextSessionFinalityVersion(rt)]_vars

\* The validators whose blocks are judged and who are rewarded in a session
\* are those that produce its blocks and those of its era: the storage of
\* committee-management (store_session_validators) keeps step with pallet
\* session and with the eras.
ProducersAreJudged ==
  /\ rt.current.committee = rt.validators
  /\ rt.next.committee = rt.queued
  /\ rt.currentEra = rt.activeEra =>
       rt.current.committee \cup rt.current.nonCommittee
         = ToSet(rt.reserved) \cup ToSet(rt.nonReserved)

\* Blocks are finalized by the finality committee chosen for the session: the
\* aleph pallet, told of the committee two sessions ahead, applies it on time
\* (update_authorities).  The genesis authorities stay until session 3.
ChosenFinalize ==
  \A s \in {rt.session, rt.session + 1} : s > 2 =>
    (IF s = rt.session THEN rt.authorities ELSE rt.nextAuthorities)
      = chosen[s].committee.finality

\* predict_session_committee_for_session answers for the sessions of the
\* planned era.
Predictable(w) == w.eraStart..(w.eraStart + SessionsPerEra - 1)

\* What is predicted for a session is what is chosen for it: no call in the
\* meantime, for instance to change_validators, makes the prediction wrong.
PredictionHolds ==
  \A s \in Predictable(rt) \cap (2..rt.session + 1) :
    chosen[s].committee = CurrentCommittee(rt, s)

\* A ban keeps a validator off the list of non-reserved validators of every
\* era it covers, though it may come when that list is already drawn up.
BanServed ==
  \A v \in Accounts :
    rt.banned[v] # None /\ rt.banned[v] <= rt.currentEra /\ ~BanExpired(rt.banned[v], rt.currentEra)
      => v \notin ToSet(rt.nonReserved)

\* Performance is the "ratio of number of blocks produced to expected number
\* of blocks for a single validator" in a session (primitives/src/lib.rs:162),
\* so the seats of the session that ended decide what was expected in it.
JudgedByOwnSeats ==
  [][rt'.session # rt.session =>
       judged'.marked = {v \in rt.validators :
         TooFew(judged'.blocks[v], SessionPeriod \div Size(chosen[rt.session].seats))}]_vars
=============================================================================
