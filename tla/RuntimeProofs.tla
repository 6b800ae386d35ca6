--------------------------- MODULE RuntimeProofs ---------------------------
(***************************************************************************)
(* Proofs about the pallets, for every configuration, any number of        *)
(* sessions and any extrinsics between them.                               *)
(***************************************************************************)
EXTENDS Runtime, NatLemmas

Fields == {"session", "version", "scheduled", "finalizer", "queuedFinalizer", "nextFinalizer",
           "validators", "queued", "queuedChanged", "currentEra", "activeEra", "eraStart",
           "electable", "reserved", "nonReserved", "committeeSize", "nextReserved",
           "nextNonReserved", "nextCommitteeSize", "openness", "blocks", "underperformed",
           "banned", "current", "next", "authorities", "nextAuthorities",
           "nextFinalityCommittee"}

Storage(w) == w = [f \in Fields |-> w[f]]

\* The finality versions and the emergency keys are left alone.
SameKeys(w, u) ==
  /\ Storage(u)
  /\ u.finalizer = w.finalizer
  /\ u.queuedFinalizer = w.queuedFinalizer
  /\ u.nextFinalizer = w.nextFinalizer

Same(w, u) ==
  /\ SameKeys(w, u)
  /\ u.session = w.session
  /\ u.version = w.version
  /\ u.scheduled = w.scheduled

LEMMA SameTrans ==
  ASSUME NEW u, NEW v, NEW w, Same(u, v), Same(v, w)
  PROVE  Same(u, w)
  BY DEF Same, SameKeys

LEMMA BanSame ==
  ASSUME NEW w, Storage(w), NEW validators
  PROVE  Same(w, BanValidators(w, validators))
  BY Zenon DEF BanValidators, Same, SameKeys, Storage, Fields

\* end_session judges, bans and forgets the blocks.
LEMMA EndSame ==
  ASSUME NEW w, Storage(w)
  PROVE  Same(w, EndSession(w))
  <1> DEFINE marked(c) == [w EXCEPT !.underperformed = c]
             u == MarkUnderperforming(w)
  <1>1. \A c : Same(w, marked(c))
    BY ZenonT(30) DEF Same, SameKeys, Storage, Fields
  <1>2. PICK c, out : u = BanValidators(marked(c), out)
    BY Zenon DEF MarkUnderperforming
  <1> HIDE DEF marked, u
  <1>3. Same(w, u)
    <2>1. Same(w, marked(c)) /\ Storage(marked(c))
      BY <1>1 DEF Same, SameKeys
    <2> QED BY <1>2, <2>1, BanSame, SameTrans
  <1>4. Storage(u)
    BY <1>3 DEF Same, SameKeys
  <1>5. Same(u, EndSession(w))
    BY <1>4, Zenon DEF EndSession, u, Same, SameKeys, Storage, Fields
  <1> QED BY <1>3, <1>5, SameTrans

\* start_session changes the version when its session comes, and no key.
LEMMA StartKeeps ==
  ASSUME NEW w, Storage(w)
  PROVE  LET u == StartSession(w)
         IN  /\ SameKeys(w, u) /\ u.session = w.session
             /\ u.version = IF w.scheduled # None /\ w.scheduled.session = w.session
                            THEN w.scheduled.version ELSE w.version
  <1> DEFINE starts == w.currentEra = w.activeEra + 1 /\ w.eraStart = w.session
             started == IF starts THEN [w EXCEPT !.activeEra = @ + 1] ELSE w
             cleared == IF w.session % CleanDelay = 0
                        THEN [started EXCEPT !.underperformed = [v \in Accounts |-> 0]]
                        ELSE started
             last == IF starts THEN ClearExpiredBans(cleared) ELSE cleared
  <1>1. Same(w, started)
    <2>1. Same(w, [w EXCEPT !.activeEra = @ + 1]) /\ Same(w, w)
      BY Zenon DEF Same, SameKeys, Storage, Fields
    <2> QED BY <2>1
  <1> HIDE DEF starts, started
  <1>2. Same(w, cleared)
    <2>1. Same(started, [started EXCEPT !.underperformed = [v \in Accounts |-> 0]])
      BY <1>1, Zenon DEF Same, SameKeys, Storage, Fields
    <2> QED BY <1>1, <2>1, SameTrans
  <1> HIDE DEF cleared
  <1>3. Same(w, last)
    <2>1. Same(cleared, ClearExpiredBans(cleared))
      BY <1>2, Zenon DEF ClearExpiredBans, Same, SameKeys, Storage, Fields
    <2> QED BY <1>2, <2>1, SameTrans
  <1>4. StartSession(w) = UpdateVersion(last)
    BY Zenon DEF StartSession, last, cleared, started, starts
  <1> HIDE DEF last
  <1>5. /\ SameKeys(last, UpdateVersion(last))
        /\ UpdateVersion(last).session = last.session
        /\ UpdateVersion(last).version =
             IF last.scheduled # None /\ last.scheduled.session = last.session
             THEN last.scheduled.version ELSE last.version
    <2>1. CASE last.scheduled # None /\ last.scheduled.session = last.session
      BY <1>3, <2>1, ZenonT(30) DEF UpdateVersion, Same, SameKeys, Storage, Fields
    <2>2. CASE ~(last.scheduled # None /\ last.scheduled.session = last.session)
      BY <1>3, <2>2, Zenon DEF UpdateVersion, Same, SameKeys, Storage, Fields
    <2> QED BY <2>1, <2>2
  <1>6. /\ last.session = w.session /\ last.version = w.version /\ last.scheduled = w.scheduled
        /\ last.finalizer = w.finalizer /\ last.queuedFinalizer = w.queuedFinalizer
        /\ last.nextFinalizer = w.nextFinalizer
    BY <1>3 DEF Same, SameKeys
  <1> QED BY <1>4, <1>5, <1>6, Zenon DEF SameKeys

\* Planning an era changes lists and seats.
LEMMA PlanSame ==
  ASSUME NEW w, Storage(w), NEW session, NEW u \in PlanEra(w, session)
  PROVE  Same(w, u)
  <1> DEFINE after == Elect(w)
             planned == [after EXCEPT !.currentEra = @ + 1, !.eraStart = session]
  <1>1. Same(w, after)
    BY Zenon DEF Elect, Same, SameKeys, Storage, Fields
  <1> HIDE DEF after
  <1>2. Same(after, planned)
    BY <1>1, Zenon DEF Same, SameKeys, Storage, Fields
  <1> HIDE DEF planned
  <1>3. u \in {w, after} \cup OnNewEra(planned)
    BY Zenon DEF PlanEra, planned, after
  <1>4. ASSUME u \in OnNewEra(planned) PROVE Same(planned, u)
    <2>1. PICK lists : u = [planned EXCEPT !.reserved = lists[1], !.nonReserved = lists[2],
                                           !.committeeSize = planned.nextCommitteeSize]
      BY <1>4, Zenon DEF OnNewEra
    <2> QED BY <1>2, <2>1, ZenonT(30) DEF Same, SameKeys, Storage, Fields
  <1>5. Same(w, w)
    BY DEF Same, SameKeys
  <1> QED BY <1>1, <1>2, <1>3, <1>4, <1>5, SameTrans, Zenon

LEMMA RotateSame ==
  ASSUME NEW w, Storage(w), NEW session
  PROVE  Same(w, RotateCommittee(w, session))
  <1> DEFINE stored(c) == StoreSessionValidators(w, c)
  <1>1. \A c : Same(w, stored(c))
    BY ZenonT(30) DEF StoreSessionValidators, Same, SameKeys, Storage, Fields
  <1> HIDE DEF stored
  <1>2. ASSUME NEW c, NEW f
        PROVE  Same(stored(c), [stored(c) EXCEPT !.nextFinalityCommittee = f])
    <2>1. Storage(stored(c))
      BY <1>1 DEF Same, SameKeys
    <2> QED BY <2>1, Zenon DEF Same, SameKeys, Storage, Fields
  <1>3. Same(w, w)
    BY DEF Same, SameKeys
  <1>4. \A c, f : Same(w, [stored(c) EXCEPT !.nextFinalityCommittee = f])
    BY <1>1, <1>2, SameTrans
  <1> QED BY <1>3, <1>4, Zenon DEF RotateCommittee, stored

LEMMA QueueSame ==
  ASSUME NEW w, Storage(w), NEW committee
  PROVE  Same(w, Queue(w, committee))
  BY Zenon DEF Queue, Same, SameKeys, Storage, Fields

LEMMA OnNewSessionKeeps ==
  ASSUME NEW w, Storage(w), NEW changed
  PROVE  LET u == OnNewSession(w, changed)
         IN  /\ Storage(u)
             /\ u.session = w.session /\ u.version = w.version
             /\ u.nextFinalizer = w.nextFinalizer
             /\ u.finalizer = IF w.queuedFinalizer # None THEN w.queuedFinalizer ELSE w.finalizer
             /\ u.queuedFinalizer = IF w.nextFinalizer # None THEN w.nextFinalizer
                                    ELSE w.queuedFinalizer
  <1> DEFINE v == UpdateEmergencyFinalizer(w)
  <1>1. /\ Storage(v)
        /\ v.session = w.session /\ v.version = w.version
        /\ v.nextFinalizer = w.nextFinalizer
        /\ v.finalizer = IF w.queuedFinalizer # None THEN w.queuedFinalizer ELSE w.finalizer
        /\ v.queuedFinalizer = IF w.nextFinalizer # None THEN w.nextFinalizer
                               ELSE w.queuedFinalizer
    BY ZenonT(30) DEF UpdateEmergencyFinalizer, Storage, Fields
  <1> HIDE DEF v
  <1>2. Same(v, UpdateAuthorities(v)) /\ Same(v, v)
    BY <1>1, Zenon DEF UpdateAuthorities, Same, SameKeys, Storage, Fields
  <1>3. Same(v, OnNewSession(w, changed))
    BY <1>2, Zenon DEF OnNewSession, v
  <1> QED BY <1>1, <1>3, Zenon DEF Same, SameKeys

\* The end of a session, for the version and the keys.
LEMMA RotatedKeeps ==
  ASSUME NEW w, Storage(w), NEW u \in Rotated(w)
  PROVE  /\ Storage(u)
         /\ u.session = w.session + 1
         /\ u.version = NextSessionFinalityVersion(w)
         /\ u.nextFinalizer = w.nextFinalizer
         /\ u.finalizer = IF w.queuedFinalizer # None THEN w.queuedFinalizer ELSE w.finalizer
         /\ u.queuedFinalizer = IF w.nextFinalizer # None THEN w.nextFinalizer
                                ELSE w.queuedFinalizer
  <1> DEFINE ended == EndSession(w)
             next == [ended EXCEPT !.validators = w.queued, !.session = @ + 1]
             started == StartSession(next)
             new == started.session + 1
  <1>1. Same(w, ended)
    BY EndSame
  <1> HIDE DEF ended
  <1>2. /\ SameKeys(ended, next) /\ next.session = ended.session + 1
        /\ next.version = ended.version /\ next.scheduled = ended.scheduled
    BY <1>1, Zenon DEF Same, SameKeys, Storage, Fields
  <1> HIDE DEF next
  <1>3. /\ SameKeys(next, started) /\ started.session = next.session
        /\ started.version = IF next.scheduled # None /\ next.scheduled.session = next.session
                             THEN next.scheduled.version ELSE next.version
    BY <1>2, StartKeeps DEF SameKeys
  <1> HIDE DEF started
  <1>4. PICK planned \in PlanEra(started, new) :
          u = OnNewSession(Queue(RotateCommittee(planned, new), CurrentCommittee(planned, new)),
                           w.queuedChanged)
    BY Zenon DEF Rotated, started, next, ended
  <1> HIDE DEF new
  <1>5. Same(started, planned)
    BY <1>3, PlanSame DEF SameKeys
  <1> DEFINE rotated == RotateCommittee(planned, new)
             queued == Queue(rotated, CurrentCommittee(planned, new))
  <1>6. Same(planned, rotated)
    BY <1>5, RotateSame DEF Same, SameKeys
  <1> HIDE DEF rotated
  <1>7. Same(rotated, queued)
    BY <1>6, QueueSame DEF Same, SameKeys
  <1>8. u = OnNewSession(queued, w.queuedChanged)
    BY <1>4 DEF rotated
  <1> HIDE DEF queued
  <1>9. Same(started, queued)
    BY <1>5, <1>6, <1>7, SameTrans
  <1>10. /\ Storage(queued) /\ queued.session = w.session + 1
         /\ queued.version = NextSessionFinalityVersion(w)
         /\ queued.nextFinalizer = w.nextFinalizer /\ queued.finalizer = w.finalizer
         /\ queued.queuedFinalizer = w.queuedFinalizer
    BY <1>1, <1>2, <1>3, <1>9, Zenon DEF Same, SameKeys, NextSessionFinalityVersion
  <1>11. /\ Storage(u)
         /\ u.session = queued.session /\ u.version = queued.version
         /\ u.nextFinalizer = queued.nextFinalizer
         /\ u.finalizer = IF queued.queuedFinalizer # None THEN queued.queuedFinalizer
                          ELSE queued.finalizer
         /\ u.queuedFinalizer = IF queued.nextFinalizer # None THEN queued.nextFinalizer
                                ELSE queued.queuedFinalizer
    BY <1>8, <1>10, OnNewSessionKeeps
  <1> QED BY <1>10, <1>11, Zenon

-----------------------------------------------------------------------------
(* The emergency key *)

\* The last key that was set in a session up to n.
Latest(req, n) ==
  LET set == {s \in 0..LastSession : s <= n /\ req[s] # None}
  IN  IF set = {} THEN None ELSE req[Max(set)]

LEMMA MaxFacts ==
  ASSUME NEW S \in SUBSET (0..LastSession), S # {}
  PROVE  Max(S) \in S /\ \A m \in S : m <= Max(S)
  <1>1. LastSession \in Nat
    BY RuntimeAssumption
  <1>2. \E n \in S : \A m \in S : n >= m
    BY <1>1, GreatestNumber, Zenon
  <1> QED BY <1>2, Zenon DEF Max

LEMMA LatestFacts ==
  ASSUME NEW req, NEW n \in Nat
  PROVE  /\ Latest(req, n) = None => \A s \in 0..LastSession : s <= n => req[s] = None
         /\ n \in 0..LastSession /\ req[n] # None => Latest(req, n) = req[n]
         /\ (\A s \in 0..LastSession : s <= n => req[s] = None) => Latest(req, n) = None
  <1> DEFINE set == {s \in 0..LastSession : s <= n /\ req[s] # None}
  <1>1. set # {} => Max(set) \in set /\ \A m \in set : m <= Max(set)
    <2>1. set \in SUBSET (0..LastSession)
      OBVIOUS
    <2> HIDE DEF set
    <2> QED BY <2>1, MaxFacts
  <1>2. Latest(req, n) = IF set = {} THEN None ELSE req[Max(set)]
    BY DEF Latest
  <1>3. Latest(req, n) = None => set = {}
    BY <1>1, <1>2
  <1>4. ASSUME n \in 0..LastSession, req[n] # None PROVE Latest(req, n) = req[n]
    <2>1. n \in set
      BY <1>4
    <2>2. Max(set) \in Nat /\ n <= Max(set) /\ Max(set) <= n
      BY <1>1, <2>1
    <2>3. Max(set) = n
      BY <2>2
    <2> HIDE DEF set
    <2> QED BY <1>2, <2>1, <2>3
  <1> QED BY <1>2, <1>3, <1>4

\* Only the sessions up to n count.
LEMMA LatestSame ==
  ASSUME NEW req, NEW req2, NEW n \in Nat, NEW m \in Nat,
         \A s \in 0..LastSession : s <= n /\ req[s] # None <=> s <= m /\ req2[s] # None,
         \A s \in 0..LastSession : s <= n /\ req[s] # None => req2[s] = req[s]
  PROVE  Latest(req, n) = Latest(req2, m)
  <1> DEFINE A == {s \in 0..LastSession : s <= n /\ req[s] # None}
             B == {s \in 0..LastSession : s <= m /\ req2[s] # None}
  <1>1. A = B
    OBVIOUS
  <1>2. A # {} => Max(A) \in A
    <2>1. A \in SUBSET (0..LastSession)
      OBVIOUS
    <2> HIDE DEF A
    <2> QED BY <2>1, MaxFacts
  <1>3. A # {} => req2[Max(A)] = req[Max(A)]
    BY <1>2
  <1>4. /\ Latest(req, n) = IF A = {} THEN None ELSE req[Max(A)]
        /\ Latest(req2, m) = IF B = {} THEN None ELSE req2[Max(B)]
    BY DEF Latest
  <1> HIDE DEF A, B
  <1> QED BY <1>1, <1>3, <1>4

\* The keys on their way: what is set in a session is queued when the session
\* ends and in force when the next one ends.
KeyInv ==
  /\ Storage(rt)
  /\ rt.session \in 0..LastSession
  /\ requested \in [0..LastSession -> Finalizers \cup {None}]
  /\ \A s \in 0..LastSession : s > rt.session => requested[s] = None
  /\ rt.nextFinalizer = Latest(requested, rt.session)
  /\ rt.queuedFinalizer = IF rt.session < 1 THEN None ELSE Latest(requested, rt.session - 1)
  /\ rt.finalizer = IF rt.session < 2 THEN None ELSE Latest(requested, rt.session - 2)

\* A step of the keys when a session ends.
LEMMA KeysRotate ==
  ASSUME NEW req \in [0..LastSession -> Finalizers \cup {None}], NEW n \in Nat,
         NEW next, NEW queued, NEW final,
         \A s \in 0..LastSession : s > n => req[s] = None,
         next = Latest(req, n),
         queued = IF n < 1 THEN None ELSE Latest(req, n - 1),
         final = IF n < 2 THEN None ELSE Latest(req, n - 2)
  PROVE  /\ next = Latest(req, n + 1)
         /\ (IF next # None THEN next ELSE queued) = Latest(req, n)
         /\ (IF queued # None THEN queued ELSE final) = IF n < 1 THEN None ELSE Latest(req, n - 1)
  <1>1. Latest(req, n) = Latest(req, n + 1)
    <2>1. \A s \in 0..LastSession : s <= n /\ req[s] # None <=> s <= n + 1 /\ req[s] # None
      OBVIOUS
    <2>2. n + 1 \in Nat
      OBVIOUS
    <2> QED BY <2>1, <2>2, LatestSame, Zenon
  <1>2. ASSUME next = None PROVE queued = None
    <2>1. \A s \in 0..LastSession : s <= n => req[s] = None
      BY <1>2, LatestFacts, Zenon
    <2>2. ASSUME n >= 1 PROVE Latest(req, n - 1) = None
      <3>1. n - 1 \in Nat /\ \A s \in 0..LastSession : s <= n - 1 => req[s] = None
        BY <2>1, <2>2
      <3> QED BY <3>1, LatestFacts, Zenon
    <2> QED BY <2>2
  <1>3. ASSUME queued = None, n >= 1 PROVE final = None
    <2>1. n - 1 \in Nat /\ Latest(req, n - 1) = None
      BY <1>3
    <2>2. \A s \in 0..LastSession : s <= n - 1 => req[s] = None
      BY <2>1, LatestFacts, Zenon
    <2>3. ASSUME n >= 2 PROVE Latest(req, n - 2) = None
      <3>1. n - 2 \in Nat /\ \A s \in 0..LastSession : s <= n - 2 => req[s] = None
        BY <2>2, <2>3
      <3> QED BY <3>1, LatestFacts, Zenon
    <2> QED BY <2>3
  <1>4. n < 1 => queued = None /\ final = None
    OBVIOUS
  <1>5. n >= 1 => queued = Latest(req, n - 1)
    OBVIOUS
  <1> QED BY <1>1, <1>2, <1>3, <1>4, <1>5

LEMMA InitKeys == Init => KeyInv
  <1> SUFFICES ASSUME Init PROVE KeyInv
    OBVIOUS
  <1>1. LastSession \in Nat
    BY RuntimeAssumption
  <1>2. Storage(rt)
    BY ZenonT(30) DEF Init, Storage, Fields
  <1>3. /\ rt.session = 0 /\ rt.finalizer = None /\ rt.queuedFinalizer = None
        /\ rt.nextFinalizer = None
        /\ requested = [s \in 0..LastSession |-> None]
    BY Zenon DEF Init
  <1>4. Latest(requested, 0) = None
    <2>1. 0 \in Nat /\ \A s \in 0..LastSession : s <= 0 => requested[s] = None
      BY <1>3
    <2> QED BY <2>1, LatestFacts, Zenon
  <1> QED BY <1>1, <1>2, <1>3, <1>4 DEF KeyInv

\* An extrinsic that is not about the keys leaves them alone.
LEMMA OtherKeys ==
  ASSUME KeyInv, SameKeys(rt, rt'), rt'.session = rt.session, requested' = requested
  PROVE  KeyInv'
  BY DEF KeyInv, SameKeys

LEMMA StepKeys == KeyInv /\ [Next]_vars => KeyInv'
  <1> SUFFICES ASSUME KeyInv, [Next]_vars PROVE KeyInv'
    OBVIOUS
  <1>0. Storage(rt) /\ rt.session \in Nat /\ LastSession \in Nat
    BY RuntimeAssumption DEF KeyInv
  <1>1. ASSUME NEW v \in Accounts, NoteAuthor(v) PROVE KeyInv'
    <2> DEFINE noted == [rt EXCEPT !.blocks[v] = @ + 1]
    <2>1. Same(rt, noted)
      BY <1>0, Zenon DEF Same, SameKeys, Storage, Fields
    <2>2. requested' = requested /\ rt.session < LastSession
      BY <1>1 DEF NoteAuthor
    <2>3. rt' = noted \/ rt' \in Rotated(noted)
      BY <1>1, Zenon DEF NoteAuthor
    <2> HIDE DEF noted
    <2>4. CASE rt' = noted
      BY <2>1, <2>2, <2>4, OtherKeys DEF Same
    <2>5. CASE rt' \in Rotated(noted)
      <3>1. /\ Storage(rt') /\ rt'.session = noted.session + 1
            /\ rt'.nextFinalizer = noted.nextFinalizer
            /\ rt'.finalizer = IF noted.queuedFinalizer # None THEN noted.queuedFinalizer
                               ELSE noted.finalizer
            /\ rt'.queuedFinalizer = IF noted.nextFinalizer # None THEN noted.nextFinalizer
                                     ELSE noted.queuedFinalizer
        BY <2>1, <2>5, RotatedKeeps DEF Same, SameKeys
      <3>2. /\ rt'.session = rt.session + 1
            /\ rt'.nextFinalizer = rt.nextFinalizer
            /\ rt'.finalizer = IF rt.queuedFinalizer # None THEN rt.queuedFinalizer
                               ELSE rt.finalizer
            /\ rt'.queuedFinalizer = IF rt.nextFinalizer # None THEN rt.nextFinalizer
                                     ELSE rt.queuedFinalizer
        BY <2>1, <3>1, Zenon DEF Same, SameKeys
      <3>3. /\ requested \in [0..LastSession -> Finalizers \cup {None}]
            /\ \A s \in 0..LastSession : s > rt.session => requested[s] = None
            /\ rt.nextFinalizer = Latest(requested, rt.session)
            /\ rt.queuedFinalizer = IF rt.session < 1 THEN None
                                    ELSE Latest(requested, rt.session - 1)
            /\ rt.finalizer = IF rt.session < 2 THEN None ELSE Latest(requested, rt.session - 2)
        BY DEF KeyInv
      <3>4. /\ rt.nextFinalizer = Latest(requested, rt.session + 1)
            /\ (IF rt.nextFinalizer # None THEN rt.nextFinalizer ELSE rt.queuedFinalizer)
                 = Latest(requested, rt.session)
            /\ (IF rt.queuedFinalizer # None THEN rt.queuedFinalizer ELSE rt.finalizer)
                 = IF rt.session < 1 THEN None ELSE Latest(requested, rt.session - 1)
        BY <1>0, <3>3, KeysRotate, SMTT(30)
      <3> DEFINE n == rt'.session
      <3>5. /\ n - 1 = rt.session /\ n \in 0..LastSession /\ n >= 1
            /\ n < 2 <=> rt.session < 1
            /\ n - 2 = rt.session - 1 \/ rt.session < 1
            /\ \A s \in 0..LastSession : s > n => s > rt.session
        BY <1>0, <2>2, <3>2
      <3>6. rt'.nextFinalizer = Latest(requested', n)
        BY <2>2, <3>2, <3>4
      <3>7. rt'.queuedFinalizer = IF n < 1 THEN None ELSE Latest(requested', n - 1)
        BY <2>2, <3>2, <3>4, <3>5
      <3>8. rt'.finalizer = IF n < 2 THEN None ELSE Latest(requested', n - 2)
        BY <2>2, <3>2, <3>4, <3>5
      <3> QED BY <2>2, <3>1, <3>3, <3>5, <3>6, <3>7, <3>8, SMTT(30) DEF KeyInv
    <2> QED BY <2>3, <2>4, <2>5
  <1>2. ASSUME NEW k \in Finalizers, SetEmergencyFinalizer(k) PROVE KeyInv'
    <2> DEFINE n == rt.session
    <2>1. /\ Storage(rt') /\ rt'.session = n /\ rt'.nextFinalizer = k
          /\ rt'.finalizer = rt.finalizer /\ rt'.queuedFinalizer = rt.queuedFinalizer
      BY <1>0, <1>2, Zenon DEF SetEmergencyFinalizer, Storage, Fields
    <2>2. /\ requested' = [requested EXCEPT ![n] = k]
          /\ requested \in [0..LastSession -> Finalizers \cup {None}] /\ n \in 0..LastSession
      BY <1>2 DEF SetEmergencyFinalizer, KeyInv
    <2>3. requested'[n] = k /\ \A s \in 0..LastSession : s # n => requested'[s] = requested[s]
      BY <2>2
    <2>4. k # None
      BY RuntimeAssumption
    <2>5. Latest(requested', n) = k
      BY <1>0, <2>2, <2>3, <2>4, LatestFacts, Zenon
    <2>6. ASSUME NEW m \in Nat, m < n PROVE Latest(requested', m) = Latest(requested, m)
      <3>1. \A s \in 0..LastSession : s <= m => requested'[s] = requested[s]
        BY <1>0, <2>3, <2>6
      <3>2. /\ \A s \in 0..LastSession : s <= m /\ requested'[s] # None
                                        <=> s <= m /\ requested[s] # None
            /\ \A s \in 0..LastSession : s <= m /\ requested'[s] # None
                                        => requested[s] = requested'[s]
        BY <3>1
      <3> HIDE DEF n
      <3> QED BY <3>2, LatestSame, Zenon
    <2>7. n >= 1 => Latest(requested', n - 1) = Latest(requested, n - 1)
      BY <1>0, <2>6
    <2>8. n >= 2 => Latest(requested', n - 2) = Latest(requested, n - 2)
      BY <1>0, <2>6
    <2>9. /\ requested' \in [0..LastSession -> Finalizers \cup {None}]
          /\ \A s \in 0..LastSession : s > n => requested'[s] = None
      BY <1>0, <2>2, <2>3 DEF KeyInv
    <2> QED BY <1>0, <2>1, <2>2, <2>5, <2>7, <2>8, <2>9, SMTT(30) DEF KeyInv
  <1>3. ASSUME NEW v \in Accounts, BanFromCommittee(v) PROVE KeyInv'
    BY <1>0, <1>3, BanSame, OtherKeys DEF BanFromCommittee, Same
  <1>4. ASSUME NEW v \in Accounts, CancelBan(v) \/ Validate(v) \/ Chill(v) PROVE KeyInv'
    <2>1. Same(rt, rt')
      BY <1>0, <1>4, ZenonT(30) DEF CancelBan, Validate, Chill, Same, SameKeys, Storage, Fields
    <2> QED BY <1>4, <2>1, OtherKeys DEF CancelBan, Validate, Chill, Same
  <1>5. ASSUME NEW version, NEW session, ScheduleFinalityVersionChange(version, session)
        PROVE  KeyInv'
    <2>1. SameKeys(rt, rt') /\ rt'.session = rt.session
      BY <1>0, <1>5, Zenon DEF ScheduleFinalityVersionChange, SameKeys, Storage, Fields
    <2> QED BY <1>5, <2>1, OtherKeys DEF ScheduleFinalityVersionChange
  <1>6. ASSUME NEW lists, NEW seats, ChangeValidators(lists, seats) PROVE KeyInv'
    <2>1. Same(rt, rt')
      BY <1>0, <1>6, Zenon DEF ChangeValidators, Same, SameKeys, Storage, Fields
    <2> QED BY <1>6, <2>1, OtherKeys DEF ChangeValidators, Same
  <1>7. ASSUME NEW openness, SetElectionsOpenness(openness) PROVE KeyInv'
    <2>1. Same(rt, rt')
      BY <1>0, <1>7, Zenon DEF SetElectionsOpenness, Same, SameKeys, Storage, Fields
    <2> QED BY <1>7, <2>1, OtherKeys DEF SetElectionsOpenness, Same
  <1>8. CASE UNCHANGED vars
    BY <1>8 DEF vars, KeyInv
  <1> QED BY <1>1, <1>2, <1>3, <1>4, <1>5, <1>6, <1>7, <1>8 DEF Next

LEMMA KeysAlways == Spec => []KeyInv
  BY InitKeys, StepKeys, PTL DEF Spec

\* The emergency key in force is the last one that was set at least two
\* sessions ago, for any number of sessions and whatever keys are set when:
\* update_emergency_finalizer never skips, repeats or reorders one.
THEOREM KeyIsOnTime == Spec => []EmergencyKeyInForce
  <1>1. KeyInv => EmergencyKeyInForce
    BY Zenon DEF KeyInv, EmergencyKeyInForce, LastRequested, Latest
  <1> QED BY <1>1, KeysAlways, PTL

\* The version of a session is the one next_session_finality_version told in
\* the session before, for every schedule of changes.
THEOREM VersionIsForeseen == Spec => VersionForeseen
  <1>1. KeyInv /\ [Next]_vars =>
          [rt'.session # rt.session => rt'.version = NextSessionFinalityVersion(rt)]_vars
    <2> SUFFICES ASSUME KeyInv, [Next]_vars, rt'.session # rt.session
                 PROVE  rt'.version = NextSessionFinalityVersion(rt)
      OBVIOUS
    <2>0. Storage(rt)
      BY DEF KeyInv
    <2>1. ASSUME NEW v \in Accounts, NoteAuthor(v)
          PROVE  rt'.version = NextSessionFinalityVersion(rt)
      <3> DEFINE noted == [rt EXCEPT !.blocks[v] = @ + 1]
      <3>1. Same(rt, noted)
        BY <2>0, Zenon DEF Same, SameKeys, Storage, Fields
      <3>2. rt' = noted \/ rt' \in Rotated(noted)
        BY <2>1, Zenon DEF NoteAuthor
      <3> HIDE DEF noted
      <3>3. rt' \in Rotated(noted) /\ Storage(noted)
        BY <3>1, <3>2 DEF Same, SameKeys
      <3>4. rt'.version = NextSessionFinalityVersion(noted)
        BY <3>3, RotatedKeeps
      <3> QED BY <3>1, <3>4, Zenon DEF Same, NextSessionFinalityVersion
    <2>2. ASSUME NEW v \in Accounts, BanFromCommittee(v) \/ CancelBan(v) \/ Validate(v) \/ Chill(v)
          PROVE  rt'.session = rt.session
      <3>1. CASE BanFromCommittee(v)
        BY <2>0, <3>1, BanSame DEF BanFromCommittee, Same
      <3>2. CASE CancelBan(v) \/ Validate(v) \/ Chill(v)
        BY <2>0, <3>2, Zenon DEF CancelBan, Validate, Chill, Storage, Fields
      <3> QED BY <2>2, <3>1, <3>2
    <2>3. ASSUME NEW k, SetEmergencyFinalizer(k) PROVE rt'.session = rt.session
      BY <2>0, <2>3, Zenon DEF SetEmergencyFinalizer, Storage, Fields
    <2>4. ASSUME NEW version, NEW session, ScheduleFinalityVersionChange(version, session)
          PROVE  rt'.session = rt.session
      BY <2>0, <2>4, Zenon DEF ScheduleFinalityVersionChange, Storage, Fields
    <2>5. ASSUME NEW lists, NEW seats, ChangeValidators(lists, seats)
          PROVE  rt'.session = rt.session
      BY <2>0, <2>5, Zenon DEF ChangeValidators, Storage, Fields
    <2>6. ASSUME NEW openness, SetElectionsOpenness(openness) PROVE rt'.session = rt.session
      BY <2>0, <2>6, Zenon DEF SetElectionsOpenness, Storage, Fields
    <2>7. CASE UNCHANGED vars
      BY <2>7 DEF vars
    <2> QED BY <2>1, <2>2, <2>3, <2>4, <2>5, <2>6, <2>7 DEF Next
  <1> QED BY <1>1, KeysAlways, PTL DEF Spec, VersionForeseen
=============================================================================
