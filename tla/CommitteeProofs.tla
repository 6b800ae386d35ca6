--------------------------- MODULE CommitteeProofs ---------------------------
(***************************************************************************)
(* Proofs about committees, for every configuration, any lists and any     *)
(* number of sessions and eras: the committee that is chosen is the one    *)
(* that produces, is judged and finalizes, and it is the one predicted.    *)
(***************************************************************************)
EXTENDS RuntimeProofs, FiniteSetTheorems

-----------------------------------------------------------------------------
(* Choosing a committee *)

LEMMA MinFacts ==
  ASSUME NEW a \in Nat, NEW b \in Nat
  PROVE  Min({a, b}) \in Nat /\ Min({a, b}) \in {a, b} /\ Min({a, b}) <= a /\ Min({a, b}) <= b
  <1>1. \E x \in {a, b} : \A y \in {a, b} : x <= y
    OBVIOUS
  <1>2. Min({a, b}) \in {a, b} /\ \A y \in {a, b} : Min({a, b}) <= y
    BY <1>1, Zenon DEF Min
  <1> QED BY <1>2

LEMMA ModFacts ==
  ASSUME NEW x \in Nat, NEW n \in Nat \ {0}
  PROVE  (x % n) + 1 \in 1..n
  OBVIOUS

\* choose_for_session takes validators of the list, and some if it can.
LEMMA ChooseFacts ==
  ASSUME NEW S, NEW list \in Seq(S), NEW count \in Nat, NEW session \in Nat
  PROVE  LET c == ChooseForSession(list, count, session)
         IN  /\ c \in Seq(S)
             /\ ToSet(c) \subseteq ToSet(list)
             /\ list # <<>> /\ count > 0 => ToSet(c) # {}
  <1> DEFINE n == Len(list)
             k == Min({count, n})
             at(i) == ((session * count + i - 1) % n) + 1
             c == [i \in 1..k |-> list[at(i)]]
  <1>1. CASE list = <<>>
    <2>1. ChooseForSession(list, count, session) = <<>>
      BY <1>1 DEF ChooseForSession
    <2>2. ToSet(<<>>) = {}
      BY DEF ToSet
    <2> QED BY <1>1, <2>1, <2>2, Zenon
  <1>2. CASE list # <<>>
    <2>1. n \in Nat /\ n # 0 /\ DOMAIN list = 1..n /\ \A i \in 1..n : list[i] \in S
      BY <1>2
    <2>2. k \in Nat /\ k \in {count, n}
      BY <2>1, MinFacts
    <2>3. ASSUME NEW i \in 1..k PROVE at(i) \in 1..n
      <3>1. session * count \in Nat
        OBVIOUS
      <3>2. session * count + i - 1 \in Nat
        BY <2>2, <3>1
      <3> HIDE DEF n
      <3> QED BY <2>1, <3>2, ModFacts
    <2>4. ChooseForSession(list, count, session) = c
      BY <1>2, Zenon DEF ChooseForSession
    <2> HIDE DEF n, k, at
    <2>5. \A i \in 1..k : c[i] = list[at(i)] /\ c[i] \in S /\ c[i] \in ToSet(list)
      BY <2>1, <2>3 DEF ToSet
    <2>6. c \in Seq(S)
      BY <2>2, <2>5
    <2>7. DOMAIN c = 1..k
      OBVIOUS
    <2>8. ToSet(c) \subseteq ToSet(list)
      BY <2>5, <2>7, Zenon DEF ToSet
    <2>9. count > 0 => ToSet(c) # {}
      <3>1. count > 0 => 1 \in 1..k
        BY <2>1, <2>2
      <3> HIDE DEF c
      <3> QED BY <2>7, <3>1, Zenon DEF ToSet
    <2> HIDE DEF c
    <2> QED BY <2>4, <2>6, <2>8, <2>9
  <1> QED BY <1>1, <1>2

LEMMA ToSetType ==
  ASSUME NEW S, NEW list \in Seq(S)
  PROVE  ToSet(list) \subseteq S
  BY DEF ToSet

\* The lists of the running era, one of them with somebody in it, and seats.
Seated(w) ==
  /\ w.reserved \in Seq(Accounts) /\ w.nonReserved \in Seq(Accounts)
  /\ w.reserved # <<>> \/ w.nonReserved # <<>>
  /\ w.committeeSize \in SeatChoices

Listed(w) == ToSet(w.reserved) \cup ToSet(w.nonReserved)

\* There is a committee in every session, it comes from the lists, and those
\* who finalize are among those who produce.
LEMMA CommitteeFacts ==
  ASSUME NEW w, Seated(w), NEW session \in Nat
  PROVE  LET committee == CurrentCommittee(w, session)
         IN  /\ committee # None
             /\ committee.finality \subseteq committee.producers
             /\ committee.producers \subseteq Listed(w)
  <1> DEFINE seats == w.committeeSize
             reserved == ChooseForSession(w.reserved, seats.reserved, session)
             nonReserved == ChooseForSession(w.nonReserved, seats.nonReserved, session)
             finality == ChooseForSession(nonReserved, seats.finality, session)
             producers == ToSet(reserved) \cup ToSet(nonReserved)
             finalizers == ToSet(reserved) \cup ToSet(finality)
             record == [producers |-> producers, finality |-> finalizers]
  <1>1. /\ seats.reserved \in Nat /\ seats.nonReserved \in Nat /\ seats.finality \in Nat
        /\ seats.reserved > 0 /\ seats.nonReserved > 0
    BY RuntimeAssumption DEF Seated, Seats
  <1>2. /\ reserved \in Seq(Accounts) /\ ToSet(reserved) \subseteq ToSet(w.reserved)
        /\ w.reserved # <<>> => ToSet(reserved) # {}
    <2> HIDE DEF seats
    <2> QED BY <1>1, ChooseFacts, Zenon DEF Seated
  <1>3. /\ nonReserved \in Seq(Accounts) /\ ToSet(nonReserved) \subseteq ToSet(w.nonReserved)
        /\ w.nonReserved # <<>> => ToSet(nonReserved) # {}
    <2> HIDE DEF seats
    <2> QED BY <1>1, ChooseFacts, Zenon DEF Seated
  <1> HIDE DEF reserved, nonReserved, seats
  <1>4. ToSet(finality) \subseteq ToSet(nonReserved)
    BY <1>1, <1>3, ChooseFacts, Zenon
  <1> HIDE DEF finality
  <1>5. producers # {} /\ finalizers \subseteq producers /\ producers \subseteq Listed(w)
    BY <1>2, <1>3, <1>4 DEF Seated, Listed
  <1>6. producers \subseteq Accounts
    BY <1>2, <1>3, ToSetType
  <1> HIDE DEF producers, finalizers
  <1>7. record \in [producers : SUBSET Accounts, finality : SUBSET Accounts]
    BY <1>5, <1>6
  <1>8. record # None
    BY <1>7, RuntimeAssumption
  <1>9. CurrentCommittee(w, session) = record
    BY <1>5, Zenon DEF CurrentCommittee, SelectCommittee, producers, finalizers, finality,
                       nonReserved, reserved, seats
  <1> QED BY <1>5, <1>8, <1>9

-----------------------------------------------------------------------------
(* What the calls at the end of a session leave alone *)

\* Bans are lifted, or given for the eras after the planned one.
BansKept(w, u) ==
  /\ DOMAIN w.banned = Accounts => DOMAIN u.banned = Accounts
  /\ \A v \in Accounts : u.banned[v] \in {w.banned[v], None, w.currentEra + 1}

\* The committees, the lists and seats they are chosen from, and who is banned
\* from them.
SameCommittees(w, u) ==
  /\ Storage(u)
  /\ u.queued = w.queued /\ u.queuedChanged = w.queuedChanged
  /\ u.reserved = w.reserved /\ u.nonReserved = w.nonReserved
  /\ u.committeeSize = w.committeeSize
  /\ u.current = w.current /\ u.next = w.next
  /\ u.authorities = w.authorities /\ u.nextAuthorities = w.nextAuthorities
  /\ u.nextFinalityCommittee = w.nextFinalityCommittee
  /\ u.currentEra = w.currentEra /\ u.eraStart = w.eraStart
  /\ BansKept(w, u)

SameSeats(w, u) ==
  /\ SameCommittees(w, u)
  /\ u.nextCommitteeSize = w.nextCommitteeSize

\* Also the session, its validators and the active era.
SameTimes(w, u) ==
  /\ SameSeats(w, u)
  /\ u.session = w.session /\ u.validators = w.validators /\ u.activeEra = w.activeEra

LEMMA TimesSelf ==
  ASSUME NEW w, Storage(w)
  PROVE  SameTimes(w, w)
  <1>1. BansKept(w, w)
    BY Zenon DEF BansKept
  <1> QED BY <1>1 DEF SameTimes, SameSeats, SameCommittees

LEMMA SeatsTrans ==
  ASSUME NEW u, NEW v, NEW w, SameSeats(u, v), SameSeats(v, w)
  PROVE  SameSeats(u, w)
  <1>1. BansKept(u, v) /\ BansKept(v, w) /\ v.currentEra = u.currentEra
    BY DEF SameSeats, SameCommittees
  <1>2. BansKept(u, w)
    BY <1>1, Zenon DEF BansKept
  <1> QED BY <1>2 DEF SameSeats, SameCommittees

LEMMA TimesTrans ==
  ASSUME NEW u, NEW v, NEW w, SameTimes(u, v), SameTimes(v, w)
  PROVE  SameTimes(u, w)
  BY SeatsTrans DEF SameTimes

LEMMA BanTimes ==
  ASSUME NEW w, Storage(w), NEW validators
  PROVE  LET u == BanValidators(w, validators)
         IN  SameTimes(w, u) /\ u.electable \subseteq w.electable
  <1>1. SameTimes(w, BanValidators(w, validators))
    BY ZenonT(30) DEF BanValidators, SameTimes, SameSeats, SameCommittees, BansKept, Storage, Fields
  <1>2. BanValidators(w, validators).electable = w.electable \ (validators \ w.nextReserved)
    BY Zenon DEF BanValidators, Storage, Fields
  <1> QED BY <1>1, <1>2

LEMMA EndTimes ==
  ASSUME NEW w, Storage(w)
  PROVE  LET u == EndSession(w)
         IN  SameTimes(w, u) /\ u.electable \subseteq w.electable
  <1> DEFINE marked(c) == [w EXCEPT !.underperformed = c]
             u == MarkUnderperforming(w)
  <1>1. \A c : SameTimes(w, marked(c)) /\ marked(c).electable = w.electable
    BY ZenonT(30) DEF SameTimes, SameSeats, SameCommittees, BansKept, Storage, Fields
  <1>2. PICK c, out : u = BanValidators(marked(c), out)
    BY Zenon DEF MarkUnderperforming
  <1> HIDE DEF marked, u
  <1>3. SameTimes(w, u) /\ u.electable \subseteq w.electable
    <2>1. SameTimes(w, marked(c)) /\ Storage(marked(c)) /\ marked(c).electable = w.electable
      BY <1>1 DEF SameTimes, SameSeats, SameCommittees
    <2>2. SameTimes(marked(c), u) /\ u.electable \subseteq marked(c).electable
      BY <1>2, <2>1, BanTimes
    <2> QED BY <2>1, <2>2, TimesTrans
  <1>4. Storage(u)
    BY <1>3 DEF SameTimes, SameSeats, SameCommittees
  <1>5. SameTimes(u, EndSession(w)) /\ EndSession(w).electable = u.electable
    BY <1>4, ZenonT(30) DEF EndSession, u, SameTimes, SameSeats, SameCommittees, BansKept, Storage, Fields
  <1> QED BY <1>3, <1>5, TimesTrans

\* start_session makes the planned era the active one when it is due.
LEMMA StartTimes ==
  ASSUME NEW w, Storage(w)
  PROVE  LET u == StartSession(w)
         IN  /\ SameSeats(w, u) /\ u.session = w.session /\ u.validators = w.validators
             /\ u.electable = w.electable
             /\ u.activeEra = IF w.currentEra = w.activeEra + 1 /\ w.eraStart = w.session
                              THEN w.activeEra + 1 ELSE w.activeEra
  <1> DEFINE starts == w.currentEra = w.activeEra + 1 /\ w.eraStart = w.session
             started == IF starts THEN [w EXCEPT !.activeEra = @ + 1] ELSE w
             cleared == IF w.session % CleanDelay = 0
                        THEN [started EXCEPT !.underperformed = [v \in Accounts |-> 0]]
                        ELSE started
             last == IF starts THEN ClearExpiredBans(cleared) ELSE cleared
             Kept(v, u) == SameTimes(v, u) /\ u.electable = v.electable
  <1>0. \A t, u, v : Kept(t, u) /\ Kept(u, v) => Kept(t, v)
    BY TimesTrans
  <1>1. /\ SameSeats(w, started) /\ started.session = w.session
        /\ started.validators = w.validators /\ started.electable = w.electable
        /\ started.activeEra = IF starts THEN w.activeEra + 1 ELSE w.activeEra
    <2> HIDE DEF starts
    <2>1. CASE starts
      <3>1. started = [w EXCEPT !.activeEra = @ + 1]
        BY <2>1
      <3> HIDE DEF started
      <3> QED BY <2>1, <3>1, ZenonT(30) DEF SameSeats, SameCommittees, BansKept, Storage, Fields
    <2>2. CASE ~starts
      BY <2>2, TimesSelf DEF SameTimes
    <2> QED BY <2>1, <2>2
  <1> HIDE DEF starts, started
  <1>2. Storage(started)
    BY <1>1 DEF SameSeats, SameCommittees
  <1>3. Kept(started, cleared)
    <2>1. Kept(started, [started EXCEPT !.underperformed = [v \in Accounts |-> 0]])
      BY <1>2, ZenonT(30) DEF SameTimes, SameSeats, SameCommittees, BansKept, Storage, Fields
    <2>2. Kept(started, started)
      BY <1>2, TimesSelf
    <2> HIDE DEF Kept
    <2> QED BY <2>1, <2>2
  <1> HIDE DEF cleared
  <1>4. Kept(cleared, last)
    <2>0. Storage(cleared)
      BY <1>3 DEF SameTimes, SameSeats, SameCommittees
    <2>1. Kept(cleared, ClearExpiredBans(cleared))
      BY <2>0, ZenonT(30) DEF ClearExpiredBans, SameTimes, SameSeats, SameCommittees, BansKept, Storage, Fields
    <2>2. Kept(cleared, cleared)
      BY <2>0, TimesSelf
    <2> HIDE DEF Kept
    <2> QED BY <2>1, <2>2
  <1>5. StartSession(w) = UpdateVersion(last)
    BY Zenon DEF StartSession, last, cleared, started, starts
  <1> HIDE DEF last
  <1>6. Kept(last, UpdateVersion(last))
    <2>0. Storage(last)
      BY <1>4 DEF SameTimes, SameSeats, SameCommittees
    <2>1. Kept(last, [last EXCEPT !.version = last.scheduled.version, !.scheduled = None])
      BY <2>0, ZenonT(30) DEF SameTimes, SameSeats, SameCommittees, BansKept, Storage, Fields
    <2>2. Kept(last, last)
      BY <2>0, TimesSelf
    <2> HIDE DEF Kept
    <2> QED BY <2>1, <2>2 DEF UpdateVersion
  <1>7. Kept(started, UpdateVersion(last))
    <2> HIDE DEF Kept
    <2> QED BY <1>0, <1>3, <1>4, <1>6
  <1>8. /\ SameTimes(started, StartSession(w))
        /\ StartSession(w).electable = started.electable
    BY <1>5, <1>7
  <1>9. SameSeats(w, StartSession(w))
    BY <1>1, <1>8, SeatsTrans DEF SameTimes
  <1> QED BY <1>1, <1>8, <1>9, Zenon DEF SameTimes, starts

-----------------------------------------------------------------------------
(* Planning an era and choosing a committee *)

LEMMA OrderFacts ==
  ASSUME NEW S \in SUBSET Accounts, NEW list \in SetToSeqs(S)
  PROVE  list \in Seq(Accounts) /\ ToSet(list) \subseteq S /\ (S # {} => list # <<>>)
  <1>1. IsFiniteSet(S)
    BY RuntimeAssumption, FS_Subset
  <1>2. Cardinality(S) \in Nat /\ (Cardinality(S) = 0 <=> S = {})
    BY <1>1, FS_CardinalityType, FS_EmptySet
  <1>3. list \in [1..Cardinality(S) -> S]
    BY Zenon DEF SetToSeqs
  <1>4. ToSet(list) \subseteq S
    BY <1>3 DEF ToSet
  <1> QED BY <1>2, <1>3, <1>4

\* The storage can be planned for: whoever may be elected has an account.
Ready(w) ==
  /\ Storage(w) /\ Seated(w)
  /\ w.electable \subseteq Accounts /\ w.nextCommitteeSize \in SeatChoices

\* A ban that covers the planned era keeps its validator off the list.
Served(w) ==
  /\ DOMAIN w.banned = Accounts
  /\ \A v \in Accounts : w.banned[v] # None =>
       /\ w.banned[v] \in Nat
       /\ w.banned[v] <= w.currentEra /\ ~BanExpired(w.banned[v], w.currentEra)
            => v \notin ToSet(w.nonReserved)

LEMMA ServedKept ==
  ASSUME NEW w, Served(w), w.currentEra \in Nat, NEW u, SameCommittees(w, u)
  PROVE  Served(u)
  <1>1. /\ u.currentEra = w.currentEra /\ u.nonReserved = w.nonReserved
        /\ DOMAIN u.banned = Accounts
        /\ \A v \in Accounts : u.banned[v] \in {w.banned[v], None, w.currentEra + 1}
    BY DEF Served, SameCommittees, BansKept
  <1>2. ASSUME NEW v \in Accounts, u.banned[v] # None
        PROVE  /\ u.banned[v] \in Nat
               /\ u.banned[v] <= u.currentEra /\ ~BanExpired(u.banned[v], u.currentEra)
                    => v \notin ToSet(u.nonReserved)
    <2>1. CASE u.banned[v] = w.banned[v]
      BY <1>1, <1>2, <2>1, Zenon DEF Served
    <2>2. CASE u.banned[v] = w.currentEra + 1
      BY <1>1, <2>2
    <2> QED BY <1>1, <1>2, <2>1, <2>2
  <1> QED BY <1>1, <1>2 DEF Served

\* What planning an era changes, and what it does not.
LEMMA PlanSeats ==
  ASSUME NEW w, Ready(w), Served(w), w.currentEra = w.activeEra, w.activeEra \in Nat,
         NEW session, NEW u \in PlanEra(w, session)
  PROVE  /\ Ready(u) /\ Served(u)
         /\ u.session = w.session /\ u.validators = w.validators /\ u.activeEra = w.activeEra
         /\ u.current = w.current /\ u.next = w.next
         /\ u.authorities = w.authorities /\ u.nextAuthorities = w.nextAuthorities
         /\ \/ /\ u.currentEra = w.currentEra + 1 /\ u.eraStart = session
            \/ /\ u.currentEra = w.currentEra /\ u.eraStart = w.eraStart
               /\ u.reserved = w.reserved /\ u.nonReserved = w.nonReserved
               /\ u.committeeSize = w.committeeSize
  <1> DEFINE after == Elect(w)
             planned == [after EXCEPT !.currentEra = @ + 1, !.eraStart = session]
  <1>1. SameTimes(w, after) /\ after.electable = w.electable
    BY ZenonT(30) DEF Elect, SameTimes, SameSeats, SameCommittees, BansKept, Storage, Fields, Ready
  <1>2. /\ after.nextNonReserved \subseteq w.electable
        /\ after.nextNonReserved \cap Banned(w) = {}
        /\ after.banned = w.banned
    <2> DEFINE eligible == (w.electable \ Banned(w)) \ w.nextReserved
    <2>1. after.nextNonReserved = IF w.openness = "Permissioned"
                                  THEN w.nextNonReserved \cap eligible ELSE eligible
      BY Zenon DEF Elect, Storage, Fields, Ready
    <2>2. after.banned = w.banned
      BY Zenon DEF Elect, Storage, Fields, Ready
    <2> HIDE DEF after
    <2> QED BY <2>1, <2>2
  <1> HIDE DEF after
  <1>3. CASE u = w
    BY <1>3
  <1>4. CASE u = after
    <2>1. Served(after)
      BY <1>1, ServedKept DEF SameTimes, SameSeats
    <2> QED BY <1>1, <1>4, <2>1, Zenon DEF Ready, Seated, SameTimes, SameSeats, SameCommittees
  <1>5. CASE ~(Cardinality(Elected(after)) < MinValidators) /\ u \in OnNewEra(planned)
    <2>0. Storage(after)
      BY <1>1 DEF SameTimes, SameSeats, SameCommittees
    <2>1. /\ Storage(planned) /\ planned.session = after.session
          /\ planned.validators = after.validators /\ planned.activeEra = after.activeEra
          /\ planned.current = after.current /\ planned.next = after.next
          /\ planned.authorities = after.authorities
          /\ planned.nextAuthorities = after.nextAuthorities
          /\ planned.electable = after.electable
          /\ planned.nextCommitteeSize = after.nextCommitteeSize
          /\ planned.currentEra = after.currentEra + 1 /\ planned.eraStart = session
          /\ planned.nextReserved = after.nextReserved
          /\ planned.nextNonReserved = after.nextNonReserved
          /\ planned.banned = after.banned
      BY <2>0, ZenonT(30) DEF Storage, Fields
    <2> HIDE DEF planned
    <2> DEFINE R == planned.nextReserved \cap planned.electable
               N == planned.nextNonReserved
    <2>2. PICK lists \in SetToSeqs(R) \X SetToSeqs(N) :
            u = [planned EXCEPT !.reserved = lists[1], !.nonReserved = lists[2],
                                !.committeeSize = planned.nextCommitteeSize]
      BY <1>5, Zenon DEF OnNewEra
    <2>3. lists[1] \in SetToSeqs(R) /\ lists[2] \in SetToSeqs(N)
      OBVIOUS
    <2>4. R \subseteq Accounts /\ N \subseteq Accounts
      BY <1>1, <1>2, <2>1 DEF Ready
    <2>5. R # {} \/ N # {}
      <3>1. Elected(after) = R \cup N
        BY <2>1, Zenon DEF Elected
      <3>2. Cardinality(Elected(after)) # 0
        <4>1. MinValidators > 0
          BY RuntimeAssumption
        <4> QED BY <1>5, <4>1
      <3>3. R \cup N # {}
        BY <3>1, <3>2, FS_EmptySet, Zenon
      <3> QED BY <3>3
    <2> HIDE DEF R, N
    <2>6. /\ lists[1] \in Seq(Accounts) /\ lists[2] \in Seq(Accounts)
          /\ lists[1] # <<>> \/ lists[2] # <<>>
          /\ ToSet(lists[2]) \subseteq N
      BY <2>3, <2>4, <2>5, OrderFacts
    <2>7. /\ Storage(u) /\ u.session = planned.session
          /\ u.validators = planned.validators /\ u.activeEra = planned.activeEra
          /\ u.current = planned.current /\ u.next = planned.next
          /\ u.authorities = planned.authorities
          /\ u.nextAuthorities = planned.nextAuthorities
          /\ u.electable = planned.electable
          /\ u.nextCommitteeSize = planned.nextCommitteeSize
          /\ u.currentEra = planned.currentEra /\ u.eraStart = planned.eraStart
          /\ u.reserved = lists[1] /\ u.nonReserved = lists[2]
          /\ u.committeeSize = planned.nextCommitteeSize
          /\ u.banned = planned.banned
      BY <2>1, <2>2, ZenonT(30) DEF Storage, Fields
    <2>8. w.nextCommitteeSize \in SeatChoices /\ w.electable \subseteq Accounts
      BY DEF Ready
    <2>9. Ready(u)
      BY <1>1, <2>1, <2>6, <2>7, <2>8, Zenon DEF Ready, Seated, SameTimes, SameSeats, SameCommittees
    <2>10. Served(u)
      <3>1. /\ u.banned = w.banned /\ u.currentEra = w.activeEra + 1
            /\ ToSet(u.nonReserved) \cap Banned(w) = {}
        BY <1>1, <1>2, <2>1, <2>6, <2>7, Zenon
           DEF SameTimes, SameSeats, SameCommittees, N
      <3>2. \A v \in Accounts : w.banned[v] # None /\ ~BanExpired(w.banned[v], w.activeEra + 1)
                               => v \in Banned(w)
        BY DEF Banned
      <3> QED BY <3>1, <3>2, Zenon DEF Served
    <2> QED BY <1>1, <2>1, <2>7, <2>9, <2>10, Zenon DEF SameTimes, SameSeats, SameCommittees
  <1>6. \/ u = w
        \/ u = after
        \/ ~(Cardinality(Elected(after)) < MinValidators) /\ u \in OnNewEra(planned)
    BY Zenon DEF PlanEra, planned, after
  <1> QED BY <1>3, <1>4, <1>5, <1>6

\* u is w with the committee c chosen, stored, queued and, when the validators
\* changed, handed to the aleph pallet.
Appointed(w, c, changed, u) ==
  /\ Ready(u)
  /\ u.session = w.session /\ u.validators = w.validators
  /\ u.activeEra = w.activeEra /\ u.currentEra = w.currentEra
  /\ u.eraStart = w.eraStart /\ u.reserved = w.reserved
  /\ u.nonReserved = w.nonReserved /\ u.committeeSize = w.committeeSize
  /\ u.banned = w.banned
  /\ u.current = w.next
  /\ u.next = [committee |-> c.producers, nonCommittee |-> Listed(w) \ c.producers]
  /\ u.queued = c.producers /\ u.queuedChanged = TRUE
  /\ u.authorities = IF changed THEN w.nextAuthorities ELSE w.authorities
  /\ changed => u.nextAuthorities = c.producers \cap c.finality

\* The rest of the end of a session: new_session stores the committee, pallet
\* session queues it and the aleph pallet takes its finality committee over.
LEMMA RotateSeats ==
  ASSUME NEW w, Ready(w), NEW session \in Nat, NEW changed,
         NEW c, c = CurrentCommittee(w, session),
         NEW u, u = OnNewSession(Queue(RotateCommittee(w, session), c), changed)
  PROVE  Appointed(w, c, changed, u)
  <1> DEFINE stored == StoreSessionValidators(w, c.producers)
             rotated == [stored EXCEPT !.nextFinalityCommittee = c.finality]
             queued == Queue(rotated, c)
             updated == UpdateEmergencyFinalizer(queued)
             last == OnNewSession(queued, changed)
             Kept(v, t) == /\ Storage(t)
                           /\ t.session = v.session /\ t.validators = v.validators
                           /\ t.activeEra = v.activeEra /\ t.currentEra = v.currentEra
                           /\ t.eraStart = v.eraStart /\ t.reserved = v.reserved
                           /\ t.nonReserved = v.nonReserved
                           /\ t.committeeSize = v.committeeSize
                           /\ t.electable = v.electable /\ t.banned = v.banned
                           /\ t.nextCommitteeSize = v.nextCommitteeSize
             Stored(v, t) == /\ t.current = v.current /\ t.next = v.next
             Queues(v, t) == /\ t.queued = v.queued /\ t.queuedChanged = v.queuedChanged
                             /\ t.nextFinalityCommittee = v.nextFinalityCommittee
             Auths(v, t) == /\ t.authorities = v.authorities
                            /\ t.nextAuthorities = v.nextAuthorities
  <1>1. c # None
    BY CommitteeFacts, Zenon DEF Ready
  <1>2. RotateCommittee(w, session) = rotated
    BY <1>1, Zenon DEF RotateCommittee
  <1>3. Storage(w)
    BY DEF Ready
  <1>4. /\ Kept(w, stored) /\ Auths(w, stored) /\ stored.current = w.next
        /\ stored.next = [committee |-> c.producers, nonCommittee |-> Listed(w) \ c.producers]
    BY <1>3, ZenonT(30) DEF StoreSessionValidators, Storage, Fields, Listed
  <1> HIDE DEF stored
  <1>5. /\ Kept(stored, rotated) /\ Auths(stored, rotated) /\ Stored(stored, rotated)
        /\ rotated.nextFinalityCommittee = c.finality
    <2>1. Storage(stored)
      BY <1>4
    <2> QED BY <2>1, ZenonT(30) DEF Storage, Fields
  <1> HIDE DEF rotated
  <1>6. /\ Kept(rotated, queued) /\ Auths(rotated, queued) /\ Stored(rotated, queued)
        /\ queued.nextFinalityCommittee = rotated.nextFinalityCommittee
        /\ queued.queued = c.producers /\ queued.queuedChanged = TRUE
    <2>1. Storage(rotated)
      BY <1>5
    <2>2. queued = [rotated EXCEPT !.queued = c.producers, !.queuedChanged = TRUE]
      BY <1>1, Zenon DEF Queue
    <2> HIDE DEF queued
    <2> QED BY <2>1, <2>2, ZenonT(30) DEF Storage, Fields
  <1> HIDE DEF queued
  <1>7. Kept(queued, updated) /\ Auths(queued, updated) /\ Stored(queued, updated)
        /\ Queues(queued, updated)
    <2>1. Storage(queued)
      BY <1>6
    <2> QED BY <2>1, ZenonT(30) DEF Storage, Fields, UpdateEmergencyFinalizer
  <1> HIDE DEF updated
  <1>8. /\ Kept(updated, last) /\ Stored(updated, last) /\ Queues(updated, last)
        /\ last.authorities = IF changed THEN updated.nextAuthorities ELSE updated.authorities
        /\ changed => last.nextAuthorities = updated.queued \cap updated.nextFinalityCommittee
    <2>1. Storage(updated)
      BY <1>7
    <2>2. CASE changed
      <3>1. last = UpdateAuthorities(updated)
        BY <2>2, Zenon DEF OnNewSession, updated
      <3> HIDE DEF last
      <3> QED BY <2>1, <2>2, <3>1, ZenonT(30) DEF Storage, Fields, UpdateAuthorities
    <2>3. CASE ~changed
      <3>1. last = updated
        BY <2>3, Zenon DEF OnNewSession, updated
      <3> HIDE DEF last
      <3> QED BY <2>1, <2>3, <3>1, Zenon
    <2> QED BY <2>2, <2>3
  <1> HIDE DEF last
  <1>9. Kept(w, last)
    <2>1. Kept(w, rotated)
      BY <1>4, <1>5, Zenon
    <2>2. Kept(w, queued)
      BY <1>6, <2>1, Zenon
    <2>3. Kept(w, updated)
      BY <1>7, <2>2, Zenon
    <2> QED BY <1>8, <2>3, Zenon
  <1>10. Stored(stored, last)
    BY <1>5, <1>6, <1>7, <1>8, Zenon
  <1>11. last.queued = c.producers /\ last.queuedChanged = TRUE
    BY <1>6, <1>7, <1>8, Zenon
  <1>12. Auths(w, updated)
    BY <1>4, <1>5, <1>6, <1>7, Zenon
  <1>13. changed => last.nextAuthorities = c.producers \cap c.finality
    BY <1>5, <1>6, <1>7, <1>8, Zenon
  <1>14. Ready(last)
    BY <1>9, Zenon DEF Ready, Seated
  <1>15. u = last
    BY <1>2 DEF last, queued
  <1> QED BY <1>4, <1>8, <1>9, <1>10, <1>11, <1>12, <1>13, <1>14, <1>15, Zenon DEF Appointed

\* An era is planned one session before it starts, and then it is active.
ErasInStep(w) ==
  /\ w.session \in Nat /\ w.activeEra \in Nat /\ w.eraStart \in Nat
  /\ \/ w.currentEra = w.activeEra
     \/ w.currentEra = w.activeEra + 1 /\ w.eraStart = w.session + 1

\* The end of a session, for the committees.
LEMMA RotatedSeats ==
  ASSUME NEW w, Ready(w), ErasInStep(w), Served(w), NEW u \in Rotated(w)
  PROVE  LET c == CurrentCommittee(u, u.session + 1)
         IN  /\ Ready(u) /\ ErasInStep(u) /\ Served(u)
             /\ u.session = w.session + 1 /\ u.validators = w.queued
             /\ u.current = w.next
             /\ u.next = [committee |-> c.producers, nonCommittee |-> Listed(u) \ c.producers]
             /\ u.queued = c.producers /\ u.queuedChanged = TRUE
             /\ u.authorities = IF w.queuedChanged THEN w.nextAuthorities ELSE w.authorities
             /\ w.queuedChanged => u.nextAuthorities = c.producers \cap c.finality
             /\ \/ u.currentEra = u.activeEra + 1 /\ u.eraStart = u.session + 1
                \/ /\ u.currentEra = u.activeEra /\ u.eraStart = w.eraStart
                   /\ u.reserved = w.reserved /\ u.nonReserved = w.nonReserved
                   /\ u.committeeSize = w.committeeSize
  <1> DEFINE ended == EndSession(w)
             next == [ended EXCEPT !.validators = w.queued, !.session = @ + 1]
             started == StartSession(next)
             new == started.session + 1
  <1>0. Storage(w)
    BY DEF Ready
  <1>1. SameTimes(w, ended) /\ ended.electable \subseteq w.electable
    BY <1>0, EndTimes
  <1> HIDE DEF ended
  <1>2. /\ SameSeats(ended, next) /\ next.session = ended.session + 1
        /\ next.validators = w.queued /\ next.electable = ended.electable
        /\ next.activeEra = ended.activeEra
    <2>1. Storage(ended)
      BY <1>1 DEF SameTimes, SameSeats, SameCommittees
    <2> QED BY <2>1, ZenonT(30) DEF SameSeats, SameCommittees, BansKept, Storage, Fields
  <1> HIDE DEF next
  <1>3. /\ SameSeats(next, started) /\ started.session = next.session
        /\ started.validators = next.validators /\ started.electable = next.electable
        /\ started.activeEra = IF next.currentEra = next.activeEra + 1
                                  /\ next.eraStart = next.session
                               THEN next.activeEra + 1 ELSE next.activeEra
    BY <1>2, StartTimes DEF SameSeats, SameCommittees
  <1> HIDE DEF started
  <1>4. SameSeats(w, started)
    BY <1>1, <1>2, <1>3, SeatsTrans DEF SameTimes
  <1>5. /\ started.session = w.session + 1 /\ started.validators = w.queued
        /\ started.electable \subseteq w.electable
    BY <1>1, <1>2, <1>3 DEF SameTimes
  <1>6. started.currentEra = started.activeEra /\ started.activeEra \in Nat
    <2>1. /\ next.activeEra = w.activeEra /\ next.currentEra = w.currentEra
          /\ next.eraStart = w.eraStart /\ next.session = w.session + 1
          /\ started.currentEra = w.currentEra
      BY <1>1, <1>2, <1>4, Zenon DEF SameTimes, SameSeats, SameCommittees
    <2> QED BY <1>3, <2>1 DEF ErasInStep
  <1>7. Ready(started) /\ Served(started)
    <2>1. w.currentEra \in Nat /\ SameCommittees(w, started)
      BY <1>4 DEF SameSeats, ErasInStep
    <2>2. Served(started)
      BY <2>1, ServedKept
    <2> QED BY <1>4, <1>5, <2>2 DEF SameSeats, SameCommittees, Ready, Seated
  <1>8. PICK planned \in PlanEra(started, new) :
          u = OnNewSession(Queue(RotateCommittee(planned, new), CurrentCommittee(planned, new)),
                           w.queuedChanged)
    BY Zenon DEF Rotated, started, next, ended
  <1>9. new \in Nat /\ new = w.session + 2
    BY <1>5 DEF ErasInStep
  <1> HIDE DEF new
  <1>10. /\ Ready(planned) /\ Served(planned)
         /\ planned.session = started.session /\ planned.validators = started.validators
         /\ planned.activeEra = started.activeEra /\ planned.next = started.next
         /\ planned.authorities = started.authorities
         /\ planned.nextAuthorities = started.nextAuthorities
         /\ \/ /\ planned.currentEra = started.currentEra + 1 /\ planned.eraStart = new
            \/ /\ planned.currentEra = started.currentEra /\ planned.eraStart = started.eraStart
               /\ planned.reserved = started.reserved
               /\ planned.nonReserved = started.nonReserved
               /\ planned.committeeSize = started.committeeSize
    BY <1>6, <1>7, <1>8, PlanSeats
  <1> DEFINE c == CurrentCommittee(planned, new)
  <1>11. Appointed(planned, c, w.queuedChanged, u)
    <2>1. Ready(planned) /\ new \in Nat /\ c = CurrentCommittee(planned, new)
      BY <1>9, <1>10
    <2>2. u = OnNewSession(Queue(RotateCommittee(planned, new), c), w.queuedChanged)
      BY <1>8
    <2> HIDE DEF c
    <2> QED BY <2>1, <2>2, RotateSeats, Zenon
  <1>12. Listed(u) = Listed(planned) /\ CurrentCommittee(u, new) = c
    BY <1>11, Zenon DEF Appointed, Listed, CurrentCommittee
  <1> HIDE DEF c
  <1>13. u.session = w.session + 1 /\ new = u.session + 1
    BY <1>5, <1>9, <1>10, <1>11 DEF Appointed, ErasInStep
  <1>14. /\ started.next = w.next /\ started.authorities = w.authorities
         /\ started.nextAuthorities = w.nextAuthorities /\ started.eraStart = w.eraStart
         /\ started.reserved = w.reserved /\ started.nonReserved = w.nonReserved
         /\ started.committeeSize = w.committeeSize
    BY <1>4, Zenon DEF SameSeats, SameCommittees
  <1>15. \/ u.currentEra = u.activeEra + 1 /\ u.eraStart = u.session + 1
         \/ /\ u.currentEra = u.activeEra /\ u.eraStart = w.eraStart
            /\ u.reserved = w.reserved /\ u.nonReserved = w.nonReserved
            /\ u.committeeSize = w.committeeSize
    BY <1>6, <1>10, <1>11, <1>13, <1>14, Zenon DEF Appointed
  <1>16. ErasInStep(u)
    <2>1. u.session \in Nat /\ u.activeEra \in Nat /\ w.eraStart \in Nat /\ u.session + 1 \in Nat
      BY <1>6, <1>10, <1>11, <1>13 DEF Appointed, ErasInStep
    <2> QED BY <1>15, <2>1, Zenon DEF ErasInStep
  <1>17. CurrentCommittee(u, u.session + 1) = c
    BY <1>12, <1>13
  <1>18. Served(u)
    BY <1>10, <1>11, Zenon DEF Appointed, Served
  <1> QED BY <1>5, <1>10, <1>11, <1>12, <1>13, <1>14, <1>15, <1>16, <1>17, <1>18, Zenon
          DEF Appointed

-----------------------------------------------------------------------------
(* The invariant *)

\* chosen, as far as the storage still knows: from the first session of the
\* planned era on, and for the session after this one at least.
ChosenInStep(w, ch) ==
  /\ ch = [s \in 0..LastSession + 1 |-> ch[s]]
  /\ w.session > 2 => w.authorities = ch[w.session].committee.finality
  /\ w.session > 1 => w.nextAuthorities = ch[w.session + 1].committee.finality
  /\ \A s \in 2..w.session + 1 :
       s >= w.eraStart => ch[s].committee = CurrentCommittee(w, s)

CommitteesInStep(w) ==
  /\ w.current.committee = w.validators /\ w.next.committee = w.queued
  /\ w.next.committee \cup w.next.nonCommittee = Listed(w)
  /\ w.currentEra = w.activeEra =>
       w.current.committee \cup w.current.nonCommittee = Listed(w)
  /\ w.session > 0 => w.queuedChanged

SeatInv ==
  /\ Ready(rt) /\ ErasInStep(rt) /\ rt.session <= LastSession
  /\ CommitteesInStep(rt) /\ Served(rt)
  /\ ChosenInStep(rt, chosen)

LEMMA InitSeats == Init => SeatInv
  <1> SUFFICES ASSUME Init PROVE SeatInv
    OBVIOUS
  <1> DEFINE all == ToSet(GenesisReserved) \cup ToSet(GenesisNonReserved)
             genesis == [committee |-> all, nonCommittee |-> {}]
  <1>1. Storage(rt)
    BY ZenonT(30) DEF Init, Storage, Fields
  <1>2. /\ rt.session = 0 /\ rt.validators = all /\ rt.queued = all
        /\ rt.currentEra = 0 /\ rt.activeEra = 0 /\ rt.eraStart = 0 /\ rt.electable = all
        /\ rt.reserved = GenesisReserved /\ rt.nonReserved = GenesisNonReserved
        /\ rt.committeeSize = GenesisSeats /\ rt.nextCommitteeSize = GenesisSeats
        /\ rt.current = genesis /\ rt.next = genesis
        /\ rt.banned = [v \in Accounts |-> None]
        /\ chosen = [s \in 0..LastSession + 1 |-> [committee |-> None, seats |-> GenesisSeats]]
    BY ZenonT(30) DEF Init
  <1>3. /\ GenesisReserved \in Seq(Accounts) /\ GenesisNonReserved \in Seq(Accounts)
        /\ GenesisSeats \in SeatChoices /\ LastSession \in Nat
    BY RuntimeAssumption
  <1>4. GenesisReserved # <<>>
    <2>1. GenesisSeats.reserved > 0 /\ GenesisSeats.reserved \in Nat
      BY RuntimeAssumption DEF Seats
    <2>2. GenesisSeats.reserved <= Cardinality(ToSet(GenesisReserved))
      BY RuntimeAssumption DEF ValidatorsOk
    <2>3. Cardinality(ToSet(GenesisReserved)) # 0
      BY <2>1, <2>2
    <2>4. ToSet(<<>>) = {}
      BY DEF ToSet
    <2> QED BY <2>3, <2>4, FS_EmptySet, Zenon
  <1>5. all \subseteq Accounts
    BY <1>3, ToSetType
  <1>6. Listed(rt) = all
    BY <1>2, Zenon DEF Listed
  <1> HIDE DEF all
  <1>7. Ready(rt)
    BY <1>1, <1>2, <1>3, <1>4, <1>5, Zenon DEF Ready, Seated
  <1>8. ErasInStep(rt) /\ rt.session <= LastSession
    BY <1>2, <1>3 DEF ErasInStep
  <1>9. CommitteesInStep(rt)
    BY <1>2, <1>6 DEF CommitteesInStep
  <1>10. ChosenInStep(rt, chosen)
    BY <1>2 DEF ChosenInStep
  <1>11. Served(rt)
    BY <1>2, Zenon DEF Served
  <1> QED BY <1>7, <1>8, <1>9, <1>10, <1>11 DEF SeatInv

\* A call that leaves the committees alone, and whom it makes electable.
LEMMA OtherSeats ==
  ASSUME SeatInv, SameCommittees(rt, rt'), rt'.nextCommitteeSize \in SeatChoices,
         rt'.session = rt.session, rt'.validators = rt.validators,
         rt'.activeEra = rt.activeEra, rt'.electable \subseteq Accounts, chosen' = chosen
  PROVE  SeatInv'
  <1>1. /\ Storage(rt')
        /\ rt'.queued = rt.queued /\ rt'.queuedChanged = rt.queuedChanged
        /\ rt'.reserved = rt.reserved /\ rt'.nonReserved = rt.nonReserved
        /\ rt'.committeeSize = rt.committeeSize
        /\ rt'.current = rt.current /\ rt'.next = rt.next
        /\ rt'.authorities = rt.authorities /\ rt'.nextAuthorities = rt.nextAuthorities
        /\ rt'.currentEra = rt.currentEra /\ rt'.eraStart = rt.eraStart
    BY Zenon DEF SameCommittees
  <1>2. Listed(rt') = Listed(rt) /\ \A s : CurrentCommittee(rt', s) = CurrentCommittee(rt, s)
    BY <1>1, Zenon DEF Listed, CurrentCommittee
  <1>3. Ready(rt') /\ rt'.session <= LastSession
    BY <1>1, Zenon DEF SeatInv, Ready, Seated
  <1>4. ErasInStep(rt')
    BY <1>1, Zenon DEF SeatInv, ErasInStep
  <1>5. CommitteesInStep(rt')
    BY <1>1, <1>2, Zenon DEF SeatInv, CommitteesInStep
  <1>6. ChosenInStep(rt', chosen')
    BY <1>1, <1>2, Zenon DEF SeatInv, ChosenInStep
  <1>7. Served(rt')
    <2>1. Served(rt) /\ rt.currentEra \in Nat
      BY DEF SeatInv, ErasInStep
    <2> QED BY <2>1, ServedKept
  <1> QED BY <1>3, <1>4, <1>5, <1>6, <1>7 DEF SeatInv

LEMMA EntryFacts ==
  ASSUME NEW D, NEW f, f = [s \in D |-> f[s]], NEW i \in D, NEW e,
         NEW g, g = [f EXCEPT ![i] = e]
  PROVE  g = [s \in D |-> g[s]] /\ g[i] = e /\ \A s \in D : s # i => g[s] = f[s]
  OBVIOUS

\* The end of a session.
LEMMA RotatedInv ==
  ASSUME SeatInv, rt.session < LastSession,
         NEW w, SameTimes(rt, w), w.electable = rt.electable, rt' \in Rotated(w),
         chosen' = [chosen EXCEPT ![rt'.session + 1] =
                      [committee |-> CurrentCommittee(rt', rt'.session + 1),
                       seats |-> rt'.committeeSize]]
  PROVE  SeatInv'
  <1> DEFINE n == rt.session
             c == CurrentCommittee(rt', rt'.session + 1)
  <1>1. /\ w.session = n /\ w.queued = rt.queued /\ w.queuedChanged = rt.queuedChanged
        /\ w.next = rt.next /\ w.authorities = rt.authorities
        /\ w.nextAuthorities = rt.nextAuthorities /\ w.eraStart = rt.eraStart
        /\ w.currentEra = rt.currentEra /\ w.activeEra = rt.activeEra
        /\ w.reserved = rt.reserved /\ w.nonReserved = rt.nonReserved
        /\ w.committeeSize = rt.committeeSize /\ w.nextCommitteeSize = rt.nextCommitteeSize
        /\ Storage(w)
    BY Zenon DEF SameTimes, SameSeats, SameCommittees
  <1>2. Ready(w) /\ ErasInStep(w) /\ Served(w)
    <2>1. Served(rt) /\ rt.currentEra \in Nat /\ SameCommittees(rt, w)
      BY DEF SeatInv, ErasInStep, SameTimes, SameSeats
    <2>2. Served(w)
      BY <2>1, ServedKept
    <2> QED BY <1>1, <2>2, Zenon DEF SeatInv, Ready, Seated, ErasInStep
  <1>3. /\ Ready(rt') /\ ErasInStep(rt') /\ Served(rt')
        /\ rt'.session = w.session + 1 /\ rt'.validators = w.queued
        /\ rt'.current = w.next
        /\ rt'.next = [committee |-> c.producers, nonCommittee |-> Listed(rt') \ c.producers]
        /\ rt'.queued = c.producers /\ rt'.queuedChanged = TRUE
        /\ rt'.authorities = IF w.queuedChanged THEN w.nextAuthorities ELSE w.authorities
        /\ w.queuedChanged => rt'.nextAuthorities = c.producers \cap c.finality
        /\ \/ rt'.currentEra = rt'.activeEra + 1 /\ rt'.eraStart = rt'.session + 1
           \/ /\ rt'.currentEra = rt'.activeEra /\ rt'.eraStart = w.eraStart
              /\ rt'.reserved = w.reserved /\ rt'.nonReserved = w.nonReserved
              /\ rt'.committeeSize = w.committeeSize
    BY <1>2, RotatedSeats, Zenon
  <1>4. n \in Nat /\ rt'.session = n + 1 /\ LastSession \in Nat /\ rt'.session + 1 \in Nat
    BY <1>1, <1>3, RuntimeAssumption DEF SeatInv, ErasInStep
  <1>5. c.finality \subseteq c.producers /\ c.producers \subseteq Listed(rt')
    <2>1. Seated(rt')
      BY <1>3 DEF Ready
    <2> QED BY <1>4, <2>1, CommitteeFacts
  <1>6. rt'.next.committee = c.producers
        /\ rt'.next.nonCommittee = Listed(rt') \ c.producers
    BY <1>3
  <1>7. CommitteesInStep(rt')
    <2>1. rt'.next.committee \cup rt'.next.nonCommittee = Listed(rt')
      BY <1>5, <1>6
    <2>2. rt.next.committee = rt.queued
          /\ rt.next.committee \cup rt.next.nonCommittee = Listed(rt)
      BY DEF SeatInv, CommitteesInStep
    <2>3. ASSUME rt'.currentEra = rt'.activeEra PROVE Listed(rt') = Listed(rt)
      <3>1. rt'.reserved = rt.reserved /\ rt'.nonReserved = rt.nonReserved
        BY <1>1, <1>3, <2>3 DEF ErasInStep
      <3> QED BY <3>1 DEF Listed
    <2> QED BY <1>1, <1>3, <1>6, <2>1, <2>2, <2>3, Zenon DEF CommitteesInStep
  <1>8. ChosenInStep(rt', chosen')
    <2>1. /\ chosen = [s \in 0..LastSession + 1 |-> chosen[s]]
          /\ n > 1 => rt.nextAuthorities = chosen[n + 1].committee.finality
          /\ \A s \in 2..n + 1 :
               s >= rt.eraStart => chosen[s].committee = CurrentCommittee(rt, s)
      BY Zenon DEF SeatInv, ChosenInStep
    <2>2. n + 2 \in 0..LastSession + 1 /\ rt'.session + 1 = n + 2
      BY <1>4
    <2>3. /\ chosen' = [s \in 0..LastSession + 1 |-> chosen'[s]]
          /\ chosen'[n + 2].committee = c
          /\ \A s \in 0..LastSession + 1 : s # n + 2 => chosen'[s] = chosen[s]
      <3> DEFINE entry == [committee |-> c, seats |-> rt'.committeeSize]
      <3>1. chosen' = [chosen EXCEPT ![n + 2] = entry]
        BY <2>2, Zenon
      <3>2. entry.committee = c
        OBVIOUS
      <3> HIDE DEF c, n, entry
      <3>3. /\ chosen' = [s \in 0..LastSession + 1 |-> chosen'[s]]
            /\ chosen'[n + 2] = entry
            /\ \A s \in 0..LastSession + 1 : s # n + 2 => chosen'[s] = chosen[s]
        BY <2>1, <2>2, <3>1, EntryFacts, Zenon
      <3> QED BY <3>2, <3>3, Zenon
    <2> HIDE DEF c
    <2>4. n > 0 => rt.queuedChanged
      BY DEF SeatInv, CommitteesInStep
    <2>5. rt'.session > 2 => rt'.authorities = chosen'[rt'.session].committee.finality
      <3> SUFFICES ASSUME n > 1 PROVE rt'.authorities = chosen'[n + 1].committee.finality
        BY <1>4
      <3>1. rt'.authorities = chosen[n + 1].committee.finality
        BY <1>1, <1>3, <1>4, <2>1, <2>4
      <3>2. chosen'[n + 1] = chosen[n + 1]
        BY <1>4, <2>2, <2>3
      <3> QED BY <3>1, <3>2
    <2>6. rt'.session > 1 => rt'.nextAuthorities = chosen'[rt'.session + 1].committee.finality
      <3> SUFFICES ASSUME n > 0 PROVE rt'.nextAuthorities = c.finality
        BY <1>4, <2>2, <2>3
      <3>1. rt'.nextAuthorities = c.producers \cap c.finality
        BY <1>1, <1>3, <1>4, <2>4
      <3> QED BY <1>5, <3>1
    <2>7. ASSUME NEW s \in 2..rt'.session + 1, s >= rt'.eraStart
          PROVE  chosen'[s].committee = CurrentCommittee(rt', s)
      <3>1. CASE s = n + 2
        BY <2>2, <2>3, <3>1 DEF c
      <3>2. CASE s # n + 2
        <4>1. s \in 2..n + 1 /\ s \in 0..LastSession + 1
          BY <1>4, <2>2, <3>2
        <4>2. /\ rt'.eraStart = w.eraStart
              /\ rt'.reserved = w.reserved /\ rt'.nonReserved = w.nonReserved
              /\ rt'.committeeSize = w.committeeSize
          BY <1>3, <1>4, <2>7, <4>1
        <4>3. CurrentCommittee(rt', s) = CurrentCommittee(rt, s)
          BY <1>1, <4>2, Zenon DEF CurrentCommittee
        <4>4. s >= rt.eraStart
          BY <1>1, <2>7, <4>2
        <4> QED BY <2>1, <2>3, <3>2, <4>1, <4>3, <4>4
      <3> QED BY <3>1, <3>2
    <2> QED BY <2>3, <2>5, <2>6, <2>7 DEF ChosenInStep
  <1>9. rt'.session <= LastSession
    BY <1>4
  <1> QED BY <1>3, <1>7, <1>8, <1>9 DEF SeatInv

LEMMA StepSeats == SeatInv /\ [Next]_vars => SeatInv'
  <1> SUFFICES ASSUME SeatInv, [Next]_vars PROVE SeatInv'
    OBVIOUS
  <1>0. /\ Storage(rt) /\ rt.electable \subseteq Accounts
        /\ rt.nextCommitteeSize \in SeatChoices /\ DOMAIN rt.banned = Accounts
    BY DEF SeatInv, Ready, Served
  <1>1. ASSUME SameTimes(rt, rt'), rt'.electable \subseteq Accounts, chosen' = chosen
        PROVE  SeatInv'
    BY <1>0, <1>1, OtherSeats DEF SameTimes, SameSeats
  <1>2. ASSUME NEW v \in Accounts, NoteAuthor(v) PROVE SeatInv'
    <2> DEFINE noted == [rt EXCEPT !.blocks[v] = @ + 1]
    <2>1. SameTimes(rt, noted) /\ noted.electable = rt.electable
      BY <1>0, ZenonT(30) DEF SameTimes, SameSeats, SameCommittees, BansKept, Storage, Fields
    <2>2. /\ rt.session < LastSession
          /\ \/ rt' = noted /\ chosen' = chosen
             \/ /\ rt' \in Rotated(noted)
                /\ chosen' = [chosen EXCEPT ![rt'.session + 1] =
                                [committee |-> CurrentCommittee(rt', rt'.session + 1),
                                 seats |-> rt'.committeeSize]]
      BY <1>2, Zenon DEF NoteAuthor
    <2> HIDE DEF noted
    <2>3. CASE rt' = noted /\ chosen' = chosen
      BY <1>0, <1>1, <2>1, <2>3
    <2>4. CASE /\ rt' \in Rotated(noted)
               /\ chosen' = [chosen EXCEPT ![rt'.session + 1] =
                               [committee |-> CurrentCommittee(rt', rt'.session + 1),
                                seats |-> rt'.committeeSize]]
      BY <2>1, <2>2, <2>4, RotatedInv, Zenon
    <2> QED BY <2>2, <2>3, <2>4
  <1>3. ASSUME NEW v \in Accounts, BanFromCommittee(v) PROVE SeatInv'
    <2>1. SameTimes(rt, rt') /\ rt'.electable \subseteq rt.electable /\ chosen' = chosen
      BY <1>0, <1>3, BanTimes DEF BanFromCommittee
    <2> QED BY <1>0, <1>1, <2>1
  <1>4. ASSUME NEW v \in Accounts, CancelBan(v) PROVE SeatInv'
    <2>1. /\ rt' = [rt EXCEPT !.banned = [rt.banned EXCEPT ![v] = None]] /\ chosen' = chosen
      BY <1>4, Zenon DEF CancelBan
    <2> DEFINE bans == [rt.banned EXCEPT ![v] = None]
    <2>2. DOMAIN bans = Accounts /\ \A x \in Accounts : bans[x] \in {rt.banned[x], None}
      BY <1>0
    <2> HIDE DEF bans
    <2>3. SameTimes(rt, rt') /\ rt'.electable = rt.electable
      BY <1>0, <2>1, <2>2, ZenonT(30)
         DEF bans, SameTimes, SameSeats, SameCommittees, BansKept, Storage, Fields
    <2> QED BY <1>0, <1>1, <2>1, <2>3
  <1>5. ASSUME NEW v \in Accounts, Validate(v) \/ Chill(v) PROVE SeatInv'
    <2>1. SameTimes(rt, rt') /\ chosen' = chosen
      BY <1>0, <1>5, ZenonT(30)
         DEF Validate, Chill, SameTimes, SameSeats, SameCommittees, BansKept, Storage, Fields
    <2>2. rt'.electable \in {rt.electable \cup {v}, rt.electable \ {v}}
      BY <1>0, <1>5, ZenonT(30) DEF Validate, Chill, Storage, Fields
    <2>3. rt'.electable \subseteq Accounts
      BY <1>0, <2>2
    <2> QED BY <1>1, <2>1, <2>3
  <1>6. ASSUME NEW k, SetEmergencyFinalizer(k) PROVE SeatInv'
    <2>1. SameTimes(rt, rt') /\ rt'.electable = rt.electable /\ chosen' = chosen
      BY <1>0, <1>6, ZenonT(30)
         DEF SetEmergencyFinalizer, SameTimes, SameSeats, SameCommittees, BansKept, Storage, Fields
    <2> QED BY <1>0, <1>1, <2>1
  <1>7. ASSUME NEW version, NEW session, ScheduleFinalityVersionChange(version, session)
        PROVE  SeatInv'
    <2>1. SameTimes(rt, rt') /\ rt'.electable = rt.electable /\ chosen' = chosen
      BY <1>0, <1>7, ZenonT(30)
         DEF ScheduleFinalityVersionChange, SameTimes, SameSeats, SameCommittees, BansKept, Storage, Fields
    <2> QED BY <1>0, <1>1, <2>1
  <1>8. ASSUME NEW lists, NEW seats \in SeatChoices, ChangeValidators(lists, seats)
        PROVE  SeatInv'
    <2>1. /\ SameCommittees(rt, rt') /\ rt'.electable = rt.electable /\ chosen' = chosen
          /\ rt'.nextCommitteeSize = seats /\ rt'.session = rt.session
          /\ rt'.validators = rt.validators /\ rt'.activeEra = rt.activeEra
      BY <1>0, <1>8, ZenonT(30) DEF ChangeValidators, SameCommittees, BansKept, Storage, Fields
    <2> QED BY <1>0, <2>1, OtherSeats
  <1>9. ASSUME NEW openness, SetElectionsOpenness(openness) PROVE SeatInv'
    <2>1. SameTimes(rt, rt') /\ rt'.electable = rt.electable /\ chosen' = chosen
      BY <1>0, <1>9, ZenonT(30)
         DEF SetElectionsOpenness, SameTimes, SameSeats, SameCommittees, BansKept, Storage, Fields
    <2> QED BY <1>0, <1>1, <2>1
  <1>10. CASE UNCHANGED vars
    BY <1>10, Zenon DEF vars, SeatInv
  <1> QED BY <1>2, <1>3, <1>4, <1>5, <1>6, <1>7, <1>8, <1>9, <1>10 DEF Next

LEMMA SeatsAlways == Spec => []SeatInv
  BY InitSeats, StepSeats, PTL DEF Spec

\* The finality committee chosen for a session finalizes it, from session 3
\* on, for any lists, seats, bans and eras: the aleph pallet, which hears of
\* a committee two sessions ahead, never applies another one.
THEOREM ChosenDoFinalize == Spec => []ChosenFinalize
  <1>1. SeatInv => ChosenFinalize
    <2> SUFFICES ASSUME SeatInv, NEW s \in {rt.session, rt.session + 1}, s > 2
                 PROVE  (IF s = rt.session THEN rt.authorities ELSE rt.nextAuthorities)
                          = chosen[s].committee.finality
      BY DEF ChosenFinalize
    <2>1. /\ rt.session \in Nat
          /\ rt.session > 2 => rt.authorities = chosen[rt.session].committee.finality
          /\ rt.session > 1 => rt.nextAuthorities = chosen[rt.session + 1].committee.finality
      BY DEF SeatInv, ErasInStep, ChosenInStep
    <2> QED BY <2>1
  <1> QED BY <1>1, SeatsAlways, PTL

\* Those who are judged and rewarded in a session are those who produce its
\* blocks, and with the others on the lists they are those of its era.
THEOREM JudgedAreProducers == Spec => []ProducersAreJudged
  <1>1. SeatInv => ProducersAreJudged
    BY Zenon DEF SeatInv, CommitteesInStep, ProducersAreJudged, Listed
  <1> QED BY <1>1, SeatsAlways, PTL

\* A ban keeps its validator off the list of every era it covers, for any
\* bans, given by end_session or by ban_from_committee, and any elections.
THEOREM BansAreServed == Spec => []BanServed
  <1>1. SeatInv => BanServed
    BY Zenon DEF SeatInv, Served, BanServed
  <1> QED BY <1>1, SeatsAlways, PTL

\* The committee predicted for a session of the planned era is the one that
\* is chosen, whatever is called in the meantime.
THEOREM PredictionIsRight == Spec => []PredictionHolds
  <1>1. SeatInv => PredictionHolds
    <2> SUFFICES ASSUME SeatInv, NEW s \in Predictable(rt) \cap (2..rt.session + 1)
                 PROVE  chosen[s].committee = CurrentCommittee(rt, s)
      BY DEF PredictionHolds
    <2>1. rt.session \in Nat /\ rt.eraStart \in Nat
      BY DEF SeatInv, ErasInStep
    <2>2. s \in 2..rt.session + 1 /\ s >= rt.eraStart
      BY <2>1 DEF Predictable
    <2> QED BY <2>2, Zenon DEF SeatInv, ChosenInStep
  <1> QED BY <1>1, SeatsAlways, PTL
=============================================================================
