---------------------------- MODULE PartyProofs ----------------------------
(***************************************************************************)
(* Proofs about the consensus party and the session network, for any       *)
(* number of sessions, peers and crashes.                                  *)
(***************************************************************************)
EXTENDS Party, TLAPS

-----------------------------------------------------------------------------
\* The session network

\* What the manager keeps in its own structures, the handlers of the sessions
\* and the clique network says the same thing.
NetInv(n) ==
  /\ n \in NetworkType
  /\ \A s \in Sessions : n.bySession[s] = IF n.role[s] = "validator" THEN n.auths[s] ELSE {}
  /\ \A s \in Sessions : n.role[s] = "closed" => n.auths[s] = {}
  /\ \A p \in Peers, s \in Sessions : s \in n.associated[p] <=> p \in n.bySession[s]
  /\ n.reserved = {p \in Peers : n.associated[p] # {}}

LEMMA NewManagerInv == NetInv(NewManager)
  BY DEF NetInv, NewManager, NetworkType, Roles

\* The fields of a state of the manager.
LEMMA NetTypes ==
  ASSUME NEW n \in NetworkType
  PROVE  /\ n.role \in [Sessions -> Roles] /\ n.user \in [Sessions -> BOOLEAN]
         /\ n.auths \in [Sessions -> SUBSET Peers] /\ n.associated \in [Peers -> SUBSET Sessions]
         /\ n.bySession \in [Sessions -> SUBSET Peers] /\ n.reserved \subseteq Peers
  BY DEF NetworkType

LEMMA FinishSessionInv ==
  ASSUME NEW n, NetInv(n), NEW s \in Sessions
  PROVE  /\ NetInv(FinishSession(n, s))
         /\ FinishSession(n, s).role = [n.role EXCEPT ![s] = "closed"]
         /\ FinishSession(n, s).user = [n.user EXCEPT ![s] = FALSE]
  <1> DEFINE f == FinishSession(n, s)
  <1>1. /\ n.role \in [Sessions -> Roles] /\ n.user \in [Sessions -> BOOLEAN]
        /\ n.auths \in [Sessions -> SUBSET Peers] /\ n.associated \in [Peers -> SUBSET Sessions]
        /\ n.bySession \in [Sessions -> SUBSET Peers] /\ n.reserved \subseteq Peers
        /\ n \in NetworkType
    BY NetTypes DEF NetInv
  <1>2. /\ f.role = [n.role EXCEPT ![s] = "closed"]
        /\ f.user = [n.user EXCEPT ![s] = FALSE]
        /\ f.auths = [n.auths EXCEPT ![s] = {}]
        /\ f.associated = [p \in Peers |-> IF p \in n.bySession[s] THEN n.associated[p] \ {s}
                                           ELSE n.associated[p]]
        /\ f.bySession = [n.bySession EXCEPT ![s] = {}]
        /\ f.reserved = n.reserved \ Unneeded(n, s)
    BY <1>1 DEF FinishSession, RemoveSession, NetworkType
  <1>3. f \in NetworkType
    BY <1>1, Zenon DEF FinishSession, RemoveSession, NetworkType, Roles
  <1> HIDE DEF f
  <1>4. \A t \in Sessions : /\ f.bySession[t] = IF f.role[t] = "validator" THEN f.auths[t] ELSE {}
                            /\ f.role[t] = "closed" => f.auths[t] = {}
    BY <1>1, <1>2 DEF NetInv
  <1>5. \A p \in Peers, t \in Sessions : t \in f.associated[p] <=> p \in f.bySession[t]
    BY <1>1, <1>2 DEF NetInv
  <1>6. \A p \in Peers : p \in f.reserved <=> f.associated[p] # {}
    BY <1>1, <1>2 DEF NetInv, Unneeded
  <1>7. f.reserved = {p \in Peers : f.associated[p] # {}}
    BY <1>1, <1>2, <1>6
  <1> QED BY <1>2, <1>3, <1>4, <1>5, <1>7, SMTT(30) DEF NetInv, f

LEMMA UpdateValidatorSessionInv ==
  ASSUME NEW n, NetInv(n), NEW s \in Sessions, NEW reply \in BOOLEAN
  PROVE  LET u == UpdateValidatorSession(n, s, reply)
         IN  /\ NetInv(u)
             /\ n.role[s] = "nonvalidator" => u = n
             /\ n.role[s] # "nonvalidator" => /\ u.role = [n.role EXCEPT ![s] = "validator"]
                                              /\ u.user = [n.user EXCEPT ![s] = reply]
  <1> DEFINE u == UpdateValidatorSession(n, s, reply)
  <1>1. /\ n.role \in [Sessions -> Roles] /\ n.user \in [Sessions -> BOOLEAN]
        /\ n.auths \in [Sessions -> SUBSET Peers] /\ n.associated \in [Peers -> SUBSET Sessions]
        /\ n.bySession \in [Sessions -> SUBSET Peers] /\ n.reserved \subseteq Peers
        /\ n \in NetworkType
    BY NetTypes DEF NetInv
  <1>2. CASE n.role[s] = "closed"
    <2>1. u = [n EXCEPT !.role[s] = "validator", !.user[s] = reply]
      BY <1>2 DEF UpdateValidatorSession
    <2>2. /\ u.role = [n.role EXCEPT ![s] = "validator"] /\ u.user = [n.user EXCEPT ![s] = reply]
          /\ u.auths = n.auths /\ u.associated = n.associated /\ u.bySession = n.bySession
          /\ u.reserved = n.reserved
      BY <1>1, <2>1 DEF NetworkType
    <2>3. [n.role EXCEPT ![s] = "validator"] \in [Sessions -> Roles]
      BY <1>1 DEF Roles
    <2>4. u \in NetworkType
      <3>1. [n.user EXCEPT ![s] = reply] \in [Sessions -> BOOLEAN]
        BY <1>1
      <3>2. u = [n EXCEPT !.role = [n.role EXCEPT ![s] = "validator"],
                          !.user = [n.user EXCEPT ![s] = reply]]
        BY <1>1, <2>1 DEF NetworkType
      <3> HIDE DEF u
      <3> QED BY <1>1, <2>3, <3>1, <3>2, Zenon DEF NetworkType
    <2> HIDE DEF u
    <2>5. \A t \in Sessions : u.role[t] = IF t = s THEN "validator" ELSE n.role[t]
      BY <1>1, <2>2
    <2>6. n.auths[s] = {} /\ n.bySession[s] = {}
      BY <1>2 DEF NetInv
    <2>7. \A t \in Sessions : /\ u.bySession[t] = IF u.role[t] = "validator" THEN u.auths[t] ELSE {}
                              /\ u.role[t] = "closed" => u.auths[t] = {}
      <3> SUFFICES ASSUME NEW t \in Sessions
                   PROVE  /\ u.bySession[t] = IF u.role[t] = "validator" THEN u.auths[t] ELSE {}
                          /\ u.role[t] = "closed" => u.auths[t] = {}
        OBVIOUS
      <3>1. CASE t = s
        BY <2>2, <2>5, <2>6, <3>1, Zenon
      <3>2. CASE t # s
        <4>1. u.role[t] = n.role[t] /\ u.bySession[t] = n.bySession[t] /\ u.auths[t] = n.auths[t]
          BY <2>2, <2>5, <3>2
        <4> QED BY <4>1 DEF NetInv
      <3> QED BY <3>1, <3>2
    <2>8. NetInv(u)
      BY <2>2, <2>4, <2>7 DEF NetInv
    <2> QED BY <1>2, <2>2, <2>8 DEF u
  <1>3. CASE n.role[s] = "nonvalidator"
    BY <1>3 DEF UpdateValidatorSession
  <1>4. CASE n.role[s] = "validator"
    <2> DEFINE removed == [RemoveSession(n, s) EXCEPT
                             !.user[s] = reply, !.reserved = @ \ (Unneeded(n, s) \ n.auths[s])]
    <2>1. u = AddPeers(removed, s, n.auths[s])
      BY <1>4, SMTT(30) DEF UpdateValidatorSession
    <2>2. /\ removed.role = n.role /\ removed.user = [n.user EXCEPT ![s] = reply]
          /\ removed.auths = n.auths
          /\ removed.associated = [p \in Peers |-> IF p \in n.bySession[s] THEN n.associated[p] \ {s}
                                                   ELSE n.associated[p]]
          /\ removed.bySession = [n.bySession EXCEPT ![s] = {}]
          /\ removed.reserved = n.reserved \ (Unneeded(n, s) \ n.auths[s])
          /\ removed \in NetworkType
      BY <1>1, Zenon DEF RemoveSession, NetworkType
    <2> HIDE DEF removed
    <2>3. /\ u.role = removed.role /\ u.user = removed.user /\ u.auths = removed.auths
          /\ u.associated = [p \in Peers |-> IF p \in n.auths[s] THEN removed.associated[p] \cup {s}
                                             ELSE removed.associated[p]]
          /\ u.bySession = [removed.bySession EXCEPT ![s] = @ \cup n.auths[s]]
          /\ u.reserved = removed.reserved
      BY <2>1, <2>2, Zenon DEF AddPeers, NetworkType
    <2>4. u \in NetworkType
      <3>1. /\ [p \in Peers |-> IF p \in n.auths[s] THEN removed.associated[p] \cup {s}
                                ELSE removed.associated[p]] \in [Peers -> SUBSET Sessions]
            /\ [removed.bySession EXCEPT ![s] = @ \cup n.auths[s]] \in [Sessions -> SUBSET Peers]
        BY <1>1, <2>2, NetTypes
      <3> QED BY <2>1, <2>2, <3>1, Zenon DEF AddPeers, NetworkType
    <2> HIDE DEF u
    <2>5. n.bySession[s] = n.auths[s]
      BY <1>4 DEF NetInv
    <2>6. u.reserved = n.reserved
      BY <2>2, <2>3, <2>5 DEF Unneeded
    <2>7. \A t \in Sessions : u.bySession[t] = n.bySession[t]
      <3>1. removed.bySession \in [Sessions -> SUBSET Peers] /\ removed.bySession[s] = {}
        BY <1>1, <2>2
      <3>2. \A t \in Sessions \ {s} : removed.bySession[t] = n.bySession[t]
        BY <1>1, <2>2
      <3>3. u.bySession[s] = n.auths[s] /\ \A t \in Sessions \ {s} : u.bySession[t] = removed.bySession[t]
        BY <2>3, <3>1
      <3> QED BY <2>5, <3>2, <3>3
    <2>8. \A p \in Peers : u.associated[p] = n.associated[p]
      BY <1>1, <2>2, <2>3, <2>5 DEF NetInv
    <2>9. u.role = [n.role EXCEPT ![s] = "validator"]
      BY <1>1, <1>4, <2>2, <2>3
    <2>10. u.role = n.role /\ u.auths = n.auths
      BY <2>2, <2>3
    <2>11. \A p \in Peers : u.associated[p] # {} <=> n.associated[p] # {}
      BY <2>8
    <2>12. NetInv(u)
      BY <2>4, <2>6, <2>7, <2>8, <2>10, <2>11 DEF NetInv
    <2> QED BY <1>4, <2>2, <2>3, <2>9, <2>12 DEF u
  <1> QED BY <1>1, <1>2, <1>3, <1>4 DEF Roles

LEMMA UpdateNonvalidatorSessionInv ==
  ASSUME NEW n, NetInv(n), NEW s \in Sessions
  PROVE  LET u == UpdateNonvalidatorSession(n, s)
         IN  /\ NetInv(u)
             /\ u.user = n.user
             /\ u.role = IF n.role[s] = "closed" THEN [n.role EXCEPT ![s] = "nonvalidator"]
                         ELSE n.role
  <1> DEFINE u == UpdateNonvalidatorSession(n, s)
  <1>1. /\ n.role \in [Sessions -> Roles] /\ n \in NetworkType
    BY NetTypes DEF NetInv
  <1>2. CASE n.role[s] = "closed"
    <2>1. /\ u.role = [n.role EXCEPT ![s] = "nonvalidator"] /\ u.user = n.user
          /\ u.auths = n.auths /\ u.associated = n.associated /\ u.bySession = n.bySession
          /\ u.reserved = n.reserved /\ u \in NetworkType
      BY <1>1, <1>2 DEF UpdateNonvalidatorSession, NetworkType, Roles
    <2> HIDE DEF u
    <2>2. NetInv(u)
      BY <1>1, <1>2, <2>1 DEF NetInv
    <2> QED BY <1>2, <2>1, <2>2 DEF u
  <1>3. CASE n.role[s] # "closed"
    BY <1>3 DEF UpdateNonvalidatorSession
  <1> QED BY <1>2, <1>3

LEMMA OnDiscoveryMessageInv ==
  ASSUME NEW n, NetInv(n), NEW s \in Sessions, NEW p \in Peers, n.role[s] # "closed"
  PROVE  LET d == OnDiscoveryMessage(n, s, p)
         IN  NetInv(d) /\ d.role = n.role /\ d.user = n.user
  <1> DEFINE d == OnDiscoveryMessage(n, s, p)
             heard == [n EXCEPT !.auths[s] = @ \cup {p}]
  <1>1. /\ n.role \in [Sessions -> Roles] /\ n.user \in [Sessions -> BOOLEAN]
        /\ n.auths \in [Sessions -> SUBSET Peers] /\ n.associated \in [Peers -> SUBSET Sessions]
        /\ n.bySession \in [Sessions -> SUBSET Peers] /\ n.reserved \subseteq Peers
        /\ n \in NetworkType
    BY NetTypes DEF NetInv
  <1>2. /\ heard.role = n.role /\ heard.user = n.user
        /\ heard.auths = [n.auths EXCEPT ![s] = @ \cup {p}]
        /\ heard.associated = n.associated /\ heard.bySession = n.bySession
        /\ heard.reserved = n.reserved /\ heard \in NetworkType
    BY <1>1 DEF NetworkType
  <1>3. CASE n.role[s] = "validator"
    <2>1. d = [AddPeers(heard, s, {p}) EXCEPT !.reserved = @ \cup {p}]
      BY <1>3 DEF OnDiscoveryMessage
    <2> HIDE DEF heard
    <2>2. /\ d.role = heard.role /\ d.user = heard.user /\ d.auths = heard.auths
          /\ d.associated = [q \in Peers |-> IF q \in {p} THEN heard.associated[q] \cup {s}
                                             ELSE heard.associated[q]]
          /\ d.bySession = [heard.bySession EXCEPT ![s] = @ \cup {p}]
          /\ d.reserved = heard.reserved \cup {p}
      BY <1>2, <2>1, Zenon DEF AddPeers, NetworkType
    <2>3. d \in NetworkType
      <3>1. /\ [q \in Peers |-> IF q \in {p} THEN heard.associated[q] \cup {s}
                                ELSE heard.associated[q]] \in [Peers -> SUBSET Sessions]
            /\ [heard.bySession EXCEPT ![s] = @ \cup {p}] \in [Sessions -> SUBSET Peers]
            /\ heard.reserved \cup {p} \in SUBSET Peers
        BY <1>2, NetTypes
      <3> QED BY <1>2, <2>1, <3>1, Zenon DEF AddPeers, NetworkType
    <2> HIDE DEF d
    <2>4. \A t \in Sessions : d.bySession[t] = IF d.role[t] = "validator" THEN d.auths[t] ELSE {}
      <3>1. d.bySession[s] = n.bySession[s] \cup {p} /\ d.auths[s] = n.auths[s] \cup {p}
        BY <1>1, <1>2, <2>2
      <3>2. \A t \in Sessions \ {s} : d.bySession[t] = n.bySession[t] /\ d.auths[t] = n.auths[t]
        BY <1>1, <1>2, <2>2
      <3>3. d.role = n.role /\ n.bySession[s] = n.auths[s]
        BY <1>2, <1>3, <2>2 DEF NetInv
      <3>4. \A t \in Sessions \ {s} : n.bySession[t] = IF n.role[t] = "validator" THEN n.auths[t] ELSE {}
        BY DEF NetInv
      <3> QED BY <1>3, <3>1, <3>2, <3>3, <3>4, Zenon
    <2>5. \A t \in Sessions : d.role[t] = "closed" => d.auths[t] = {}
      BY <1>1, <1>2, <1>3, <2>2 DEF NetInv
    <2>6. \A q \in Peers, t \in Sessions : t \in d.associated[q] <=> q \in d.bySession[t]
      BY <1>1, <1>2, <2>2 DEF NetInv
    <2>7. d.reserved = {q \in Peers : d.associated[q] # {}}
      BY <1>1, <1>2, <2>2 DEF NetInv
    <2> QED BY <1>2, <2>2, <2>3, <2>4, <2>5, <2>6, <2>7, Zenon DEF NetInv, d
  <1>4. CASE n.role[s] # "validator"
    <2>1. d = heard
      BY <1>4 DEF OnDiscoveryMessage
    <2> HIDE DEF heard, d
    <2>2. NetInv(d)
      BY <1>1, <1>2, <1>4, <2>1 DEF NetInv
    <2> QED BY <1>2, <2>1, <2>2 DEF d
  <1> QED BY <1>3, <1>4

-----------------------------------------------------------------------------
\* The party and its commands

Places == {"off", "begin", "authorities", "network", "spawn", "loop"}

Commands == [command : {"validator", "nonvalidator", "stop"}, session : Sessions, reply : BOOLEAN]

Types ==
  /\ finalized \in 0..FirstBlock(LastSession)
  /\ party \in [at : Places, session : 0..(LastSession + 1)]
  /\ queue \in Seq(Commands)
  /\ NetInv(net)

\* A session is started as what it is.
RightRoles ==
  /\ \A s \in Sessions : /\ net.role[s] = "validator" => s \in Validated
                         /\ net.role[s] = "nonvalidator" => s \notin Validated
  /\ \A i \in 1..Len(queue) : /\ queue[i].command = "validator" => queue[i].session \in Validated
                              /\ queue[i].command = "nonvalidator" => queue[i].session \notin Validated

\* While the party waits for the network, the command it waits for is the last
\* one on its way, and no other command has a reply.
Replies ==
  \A i \in 1..Len(queue) :
    queue[i].reply => /\ party.at = "network" /\ i = Len(queue)
                      /\ queue[i].command = "validator" /\ queue[i].session = party.session

\* From the reply on, the session is open and no command on its way is about it.
Served ==
  /\ party.at \in {"network", "spawn"} => party.session \in Validated
  /\ task => party.at = "loop" /\ party.session \in Validated
  /\ party.at \in {"spawn", "loop"} /\ party.session \in Validated =>
       /\ net.role[party.session] = "validator" /\ net.user[party.session]
       /\ \A i \in 1..Len(queue) : queue[i].session # party.session

\* A session that the party has run is closed, or its stop is on its way, after
\* every start of it.
Closing ==
  party.at # "off" =>
    \A s \in Sessions : s < party.session /\ s \notin returned =>
      /\ net.role[s] # "closed" => \E j \in 1..Len(queue) : queue[j] = StopSession(s)
      /\ \A i \in 1..Len(queue) :
           queue[i].command # "stop" /\ queue[i].session = s =>
             \E j \in (i + 1)..Len(queue) : queue[j] = StopSession(s)

\* A node that starts has no commands and no sessions.
Fresh == party.at = "off" => queue = << >> /\ net = NewManager

Inv == Types /\ RightRoles /\ Replies /\ Served /\ Closing /\ Fresh

USE PartyAssumption

LEMMA Ranges ==
  /\ Sessions \subseteq Nat
  /\ \A s \in 0..(LastSession + 1) : s \in Sessions /\ s + 1 \in Sessions
  /\ \A s \in Validated : s \in Sessions /\ s + 1 \in 0..(LastSession + 1)
  BY DEF Sessions

\* The chain ends with the first block of the last session, so no later
\* session is ever entered.
LEMMA SessionRange ==
  ASSUME NEW n \in 0..FirstBlock(LastSession)
  PROVE  /\ SessionOf(n) \in 0..LastSession
         /\ \A s \in 0..(LastSession + 1) : n >= LastBlock(s) => s + 1 \in 0..(LastSession + 1)
  <1>1. FirstBlock(LastSession) \in Nat
    BY DEF FirstBlock
  <1>2. n \in Nat /\ n <= LastSession * SessionPeriod
    BY <1>1 DEF FirstBlock
  <1>3. SessionOf(n) \in Nat /\ SessionOf(n) * SessionPeriod <= n
    BY <1>2 DEF SessionOf
  <1>4. \A a, b \in Nat : a > b => a * SessionPeriod >= b * SessionPeriod + SessionPeriod
    OBVIOUS
  <1>5. SessionOf(n) <= LastSession
    BY <1>2, <1>3, <1>4
  <1>6. ASSUME NEW s \in 0..(LastSession + 1), n >= LastBlock(s) PROVE s + 1 \in 0..(LastSession + 1)
    <2>1. (s + 1) * SessionPeriod - 1 <= LastSession * SessionPeriod
      BY <1>2, <1>6 DEF LastBlock
    <2>2. CASE s = LastSession + 1
      <3>1. (LastSession + 2) * SessionPeriod = LastSession * SessionPeriod + 2 * SessionPeriod
        OBVIOUS
      <3>2. (s + 1) * SessionPeriod = (LastSession + 2) * SessionPeriod
        BY <2>2
      <3>3. LastSession * SessionPeriod \in Nat
        OBVIOUS
      <3> HIDE <2>2
      <3> QED BY <2>1, <3>1, <3>2, <3>3
    <2> QED BY <2>2
  <1> QED BY <1>3, <1>5, <1>6

LEMMA InitInv == Init => Inv
  <1> SUFFICES ASSUME Init PROVE Inv
    OBVIOUS
  <1>1. /\ party = [at |-> "off", session |-> 0] /\ queue = << >> /\ net = NewManager
        /\ finalized = 0 /\ task = FALSE
    BY DEF Init, At
  <1>2. Len(queue) = 0 /\ queue \in Seq(Commands)
    BY <1>1
  <1>3. FirstBlock(LastSession) \in Nat
    BY DEF FirstBlock
  <1>4. Types
    BY <1>1, <1>2, <1>3, NewManagerInv DEF Types, Places
  <1>5. \A s \in Sessions : net.role[s] = "closed"
    BY <1>1 DEF NewManager
  <1>6. RightRoles /\ Replies /\ Served /\ Closing /\ Fresh
    BY <1>1, <1>2, <1>5 DEF RightRoles, Replies, Served, Closing, Fresh
  <1> QED BY <1>4, <1>6 DEF Inv

\* Steps that leave the party where it is, its commands and the network alone.
LEMMA StaysPut ==
  ASSUME Inv, party' = party, queue' = queue, net' = net, returned' = returned,
         task' => task, finalized' \in 0..FirstBlock(LastSession)
  PROVE  Inv'
  <1>1. Types' /\ RightRoles' /\ Replies' /\ Fresh'
    BY DEF Inv, Types, RightRoles, Replies, Fresh, NetInv
  <1>2. Served'
    BY DEF Inv, Served
  <1>3. Closing'
    BY DEF Inv, Closing
  <1> QED BY <1>1, <1>2, <1>3 DEF Inv

\* run_session begins with a session: what is left of the one before it closes,
\* and nobody waits for a reply.
LEMMA Entered ==
  ASSUME Inv, NEW s \in 0..(LastSession + 1), Enter(s), net' = net, finalized' = finalized,
         party.at # "network", queue' = queue, returned \subseteq returned',
         \/ party.at = "off"
         \/ party.at # "off" /\ s = party.session + 1 /\ party.session \in returned'
  PROVE  Inv'
  <1>1. party' = [at |-> "begin", session |-> s] /\ task' = FALSE
    BY DEF Enter, At
  <1>2. party'.at = "begin" /\ party'.session = s
    BY <1>1
  <1>3. Types'
    BY <1>1 DEF Inv, Types, Places, NetInv
  <1>4. RightRoles' /\ Replies' /\ Served' /\ Fresh'
    BY <1>1, <1>2 DEF Inv, RightRoles, Replies, Served, Fresh
  <1>5. Closing'
    <2>1. CASE party.at = "off"
      <3>1. Len(queue') = 0 /\ \A t \in Sessions : net'.role[t] = "closed"
        BY <2>1 DEF Inv, Fresh, NewManager
      <3> QED BY <3>1 DEF Closing
    <2>2. CASE party.at # "off"
      <3>1. party.session \in Nat /\ s = party.session + 1
        BY <2>2 DEF Inv, Types
      <3>2. \A t \in Sessions : t < s /\ t \notin returned' => t < party.session /\ t \notin returned
        BY <2>2, <3>1, Ranges
      <3> QED BY <1>2, <2>2, <3>2 DEF Inv, Closing
    <2> QED BY <2>1, <2>2
  <1> QED BY <1>3, <1>4, <1>5 DEF Inv

LEMMA MovesInv ==
  ASSUME Inv, Boot \/ SkipEarly \/ BackupFails
  PROVE  Inv'
  <1>1. finalized \in 0..FirstBlock(LastSession) /\ party.session \in 0..(LastSession + 1)
    BY DEF Inv, Types
  <1>2. CASE Boot
    <2>1. SessionOf(finalized) \in 0..(LastSession + 1)
      BY <1>1, SessionRange
    <2> QED BY <1>2, <2>1, Entered DEF Boot
  <1>3. CASE SkipEarly
    <2>1. party.session + 1 \in 0..(LastSession + 1)
      BY <1>1, <1>3, SessionRange DEF SkipEarly
    <2> QED BY <1>3, <2>1, Entered DEF SkipEarly
  <1>4. CASE BackupFails
    <2>1. party.session + 1 \in 0..(LastSession + 1)
      BY <1>4, Ranges, Zenon DEF BackupFails
    <2> QED BY <1>4, <2>1, Entered DEF BackupFails
  <1> QED BY <1>2, <1>3, <1>4

LEMMA AwaitAuthoritiesInv ==
  ASSUME Inv, AwaitAuthorities
  PROVE  Inv'
  <1>1. /\ party' = [at |-> "authorities", session |-> party.session] /\ party.at = "begin"
        /\ queue' = queue /\ net' = net /\ returned' = returned /\ task' = task
        /\ finalized' = finalized
    BY DEF AwaitAuthorities, At
  <1>2. party'.at = "authorities" /\ party'.session = party.session
    BY <1>1
  <1>3. Types'
    BY <1>1 DEF Inv, Types, Places, NetInv
  <1>4. RightRoles' /\ Replies' /\ Served' /\ Fresh'
    BY <1>1, <1>2 DEF Inv, RightRoles, Replies, Served, Fresh
  <1>5. Closing'
    BY <1>1, <1>2 DEF Inv, Closing
  <1> QED BY <1>3, <1>4, <1>5 DEF Inv

LEMMA SpawnInv ==
  ASSUME Inv, SpawnAuthorityTask
  PROVE  Inv'
  <1>1. /\ party' = [at |-> "loop", session |-> party.session] /\ party.at = "spawn"
        /\ queue' = queue /\ net' = net /\ returned' = returned /\ finalized' = finalized
    BY DEF SpawnAuthorityTask, At
  <1>2. party'.at = "loop" /\ party'.session = party.session
    BY <1>1
  <1>3. Types'
    BY <1>1 DEF Inv, Types, Places, NetInv
  <1>4. RightRoles' /\ Replies' /\ Served' /\ Fresh'
    BY <1>1, <1>2 DEF Inv, RightRoles, Replies, Served, Fresh
  <1>5. Closing'
    BY <1>1, <1>2 DEF Inv, Closing
  <1> QED BY <1>3, <1>4, <1>5 DEF Inv

\* The commands on their way when one is added.
LEMMA Appended ==
  ASSUME NEW q \in Seq(Commands), NEW c \in Commands
  PROVE  /\ Append(q, c) \in Seq(Commands)
         /\ Len(q) \in Nat
         /\ Len(Append(q, c)) = Len(q) + 1
         /\ \A i \in 1..Len(q) : Append(q, c)[i] = q[i]
         /\ Append(q, c)[Len(q) + 1] = c
         /\ \A i \in 1..(Len(q) + 1) : i \in 1..Len(q) \/ i = Len(q) + 1
  OBVIOUS

\* A start of the party's session, or of the next one, closes nothing.
LEMMA StartKeepsClosing ==
  ASSUME Types, Closing, NEW c \in Commands, queue' = Append(queue, c), net' = net,
         returned' = returned, party.at # "off", party'.session = party.session,
         c.session >= party.session
  PROVE  Closing'
  <1> DEFINE n == Len(queue)
  <1>1. /\ n \in Nat /\ Len(queue') = n + 1 /\ queue'[n + 1] = c
        /\ \A i \in 1..n : queue'[i] = queue[i]
        /\ \A i \in 1..(n + 1) : i \in 1..n \/ i = n + 1
    BY Appended DEF Types
  <1> HIDE DEF n
  <1> SUFFICES ASSUME NEW s \in Sessions, s < party.session, s \notin returned
               PROVE  /\ net.role[s] # "closed" => \E j \in 1..(n + 1) : queue'[j] = StopSession(s)
                      /\ \A i \in 1..(n + 1) : queue'[i].command # "stop" /\ queue'[i].session = s =>
                           \E j \in (i + 1)..(n + 1) : queue'[j] = StopSession(s)
    BY <1>1 DEF Closing
  <1>2. /\ net.role[s] # "closed" => \E j \in 1..n : queue[j] = StopSession(s)
        /\ \A i \in 1..n : queue[i].command # "stop" /\ queue[i].session = s =>
              \E j \in (i + 1)..n : queue[j] = StopSession(s)
    BY DEF Closing, n
  <1>3. net.role[s] # "closed" => \E j \in 1..(n + 1) : queue'[j] = StopSession(s)
    BY <1>1, <1>2
  <1>4. ASSUME NEW i \in 1..(n + 1), queue'[i].command # "stop", queue'[i].session = s
        PROVE  \E j \in (i + 1)..(n + 1) : queue'[j] = StopSession(s)
    <2>1. s # c.session
      BY Ranges DEF Types, Commands
    <2>2. i \in 1..n
      BY <1>1, <1>4, <2>1
    <2>3. PICK j \in (i + 1)..n : queue[j] = StopSession(s)
      BY <1>1, <1>2, <1>4, <2>2
    <2>4. j \in 1..n /\ j \in (i + 1)..(n + 1)
      BY <1>1, <2>2
    <2> QED BY <1>1, <2>3, <2>4
  <1> QED BY <1>3, <1>4, Zenon

LEMMA RunAsAuthorityInv ==
  ASSUME Inv, RunAsAuthority
  PROVE  Inv'
  <1> DEFINE c == StartValidator(party.session, TRUE)
             n == Len(queue)
  <1>1. /\ party' = [at |-> "network", session |-> party.session] /\ party.at = "authorities"
        /\ queue' = Append(queue, c) /\ net' = net /\ returned' = returned /\ task' = task
        /\ finalized' = finalized /\ party.session \in Validated
    BY DEF RunAsAuthority, At
  <1>2. c \in Commands /\ c.command = "validator" /\ c.session = party.session
    BY <1>1, Ranges, Zenon DEF StartValidator, Commands
  <1> HIDE DEF c
  <1>3. /\ n \in Nat /\ Len(queue') = n + 1 /\ queue'[n + 1] = c /\ queue' \in Seq(Commands)
        /\ \A i \in 1..n : queue'[i] = queue[i]
        /\ \A i \in 1..(n + 1) : i \in 1..n \/ i = n + 1
    BY <1>1, <1>2, Appended DEF Inv, Types
  <1>4. party'.at = "network" /\ party'.session = party.session
    BY <1>1
  <1>5. Types'
    BY <1>1, <1>3 DEF Inv, Types, Places, NetInv
  <1>6. RightRoles'
    BY <1>1, <1>2, <1>3 DEF Inv, RightRoles
  <1>7. \A i \in 1..n : ~queue[i].reply
    BY <1>1 DEF Inv, Replies
  <1>8. Replies'
    BY <1>2, <1>3, <1>4, <1>7 DEF Replies
  <1>9. Served' /\ Fresh'
    BY <1>1, <1>4 DEF Inv, Served, Fresh
  <1>10. Closing'
    <2>1. c.session >= party.session
      BY <1>2 DEF Inv, Types
    <2> QED BY <1>1, <1>2, <1>4, <2>1, StartKeepsClosing DEF Inv
  <1> QED BY <1>5, <1>6, <1>8, <1>9, <1>10 DEF Inv

\* A start without a reply.
LEMMA StartedQuietly ==
  ASSUME Inv, NEW c \in Commands, queue' = Append(queue, c), net' = net, returned' = returned,
         task' = task, finalized' = finalized, party'.session = party.session, ~c.reply,
         party' \in [at : Places, session : 0..(LastSession + 1)],
         c.command = "validator" => c.session \in Validated,
         c.command = "nonvalidator" => c.session \notin Validated,
         party.at \in {"authorities", "loop"}, party'.at = "loop",
         c.session >= party.session, 
         party.session \in Validated => party.at = "loop" /\ c.session # party.session
  PROVE  Inv'
  <1> DEFINE n == Len(queue)
  <1>1. /\ n \in Nat /\ Len(queue') = n + 1 /\ queue'[n + 1] = c /\ queue' \in Seq(Commands)
        /\ \A i \in 1..n : queue'[i] = queue[i]
        /\ \A i \in 1..(n + 1) : i \in 1..n \/ i = n + 1
    BY Appended DEF Inv, Types
  <1>2. Types'
    BY <1>1 DEF Inv, Types, Places, NetInv
  <1>3. RightRoles'
    BY <1>1 DEF Inv, RightRoles
  <1>4. \A i \in 1..n : ~queue[i].reply
    BY DEF Inv, Replies
  <1>5. Replies'
    BY <1>1, <1>4 DEF Replies
  <1>6. Served' /\ Fresh'
    BY <1>1 DEF Inv, Served, Fresh
  <1>7. Closing'
    BY StartKeepsClosing DEF Inv
  <1> QED BY <1>2, <1>3, <1>5, <1>6, <1>7 DEF Inv

LEMMA StartsInv ==
  ASSUME Inv, RunAsNonauthority \/ NextAuthorities
  PROVE  Inv'
  <1>1. party \in [at : Places, session : 0..(LastSession + 1)] /\ party.session \in 0..(LastSession + 1)
    BY DEF Inv, Types
  <1>2. CASE RunAsNonauthority
    <2> DEFINE c == StartNonvalidator(party.session)
    <2>1. /\ party' = [at |-> "loop", session |-> party.session] /\ party.at = "authorities"
          /\ queue' = Append(queue, c) /\ net' = net /\ returned' = returned /\ task' = task
          /\ finalized' = finalized /\ party.session \notin Validated
      BY <1>2 DEF RunAsNonauthority, At
    <2>2. /\ c \in Commands /\ c.command = "nonvalidator" /\ c.session = party.session /\ ~c.reply
          /\ c.session >= party.session
      BY <1>1, Ranges DEF StartNonvalidator, Commands
    <2>3. /\ party' \in [at : Places, session : 0..(LastSession + 1)]
          /\ party'.at = "loop" /\ party'.session = party.session
      BY <1>1, <2>1 DEF Places
    <2> HIDE DEF c
    <2> QED BY <2>1, <2>2, <2>3, StartedQuietly
  <1>3. CASE NextAuthorities
    <2> DEFINE next == party.session + 1
               c == IF next \in Validated THEN StartValidator(next, FALSE) ELSE StartNonvalidator(next)
    <2>1. /\ party' = party /\ party.at = "loop" /\ net' = net /\ returned' = returned /\ task' = task
          /\ finalized' = finalized /\ (queue' = queue \/ queue' = Append(queue, c))
      BY <1>3, Zenon DEF NextAuthorities
    <2>2. /\ c \in Commands /\ ~c.reply /\ c.session >= party.session /\ c.session # party.session
          /\ c.command = "validator" => c.session \in Validated
          /\ c.command = "nonvalidator" => c.session \notin Validated
      BY <1>1, Ranges DEF StartNonvalidator, StartValidator, Commands
    <2> HIDE DEF c
    <2>3. CASE queue' = queue
      BY <2>1, <2>3, StaysPut DEF Inv, Types
    <2>4. CASE queue' = Append(queue, c)
      BY <1>1, <2>1, <2>2, <2>4, StartedQuietly
    <2> QED BY <2>1, <2>3, <2>4
  <1> QED BY <1>2, <1>3

LEMMA FinishSessionRunInv ==
  ASSUME Inv, FinishSessionRun
  PROVE  Inv'
  <1> DEFINE p == party.session
             c == StopSession(p)
             n == Len(queue)
  <1>1. /\ party' = [at |-> "begin", session |-> p + 1] /\ party.at = "loop" /\ task' = FALSE
        /\ queue' = Append(queue, c) /\ net' = net /\ returned' = returned
        /\ finalized' = finalized /\ finalized >= LastBlock(p)
    BY DEF FinishSessionRun, Enter, At
  <1>2. p \in 0..(LastSession + 1) /\ p \in Sessions /\ finalized \in 0..FirstBlock(LastSession)
    BY Ranges DEF Inv, Types
  <1>3. p + 1 \in 0..(LastSession + 1)
    BY <1>1, <1>2, SessionRange
  <1>4. c \in Commands /\ c.command = "stop" /\ c.session = p /\ ~c.reply
    BY <1>2 DEF StopSession, Commands
  <1> HIDE DEF c
  <1>5. /\ n \in Nat /\ Len(queue') = n + 1 /\ queue'[n + 1] = c /\ queue' \in Seq(Commands)
        /\ \A i \in 1..n : queue'[i] = queue[i]
        /\ \A i \in 1..(n + 1) : i \in 1..n \/ i = n + 1
    BY <1>1, <1>4, Appended DEF Inv, Types
  <1>6. party'.at = "begin" /\ party'.session = p + 1
    BY <1>1
  <1>7. Types'
    BY <1>1, <1>3, <1>5 DEF Inv, Types, Places, NetInv
  <1>8. RightRoles'
    BY <1>1, <1>4, <1>5 DEF Inv, RightRoles
  <1>9. \A i \in 1..n : ~queue[i].reply
    BY <1>1 DEF Inv, Replies
  <1>10. Replies'
    BY <1>4, <1>5, <1>9 DEF Replies
  <1>11. Served' /\ Fresh'
    BY <1>1, <1>6 DEF Served, Fresh
  <1>12. Closing'
    <2> HIDE DEF n
    <2> SUFFICES ASSUME NEW s \in Sessions, s < p + 1, s \notin returned
                 PROVE  /\ net.role[s] # "closed" => \E j \in 1..(n + 1) : queue'[j] = StopSession(s)
                        /\ \A i \in 1..(n + 1) : queue'[i].command # "stop" /\ queue'[i].session = s =>
                             \E j \in (i + 1)..(n + 1) : queue'[j] = StopSession(s)
      BY <1>1, <1>5, <1>6 DEF Closing
    <2>1. CASE s = p
      <3>1. queue'[n + 1] = StopSession(s)
        BY <1>5, <2>1 DEF c
      <3>2. \A i \in 1..(n + 1) : queue'[i].command # "stop" => n + 1 \in (i + 1)..(n + 1)
        BY <1>4, <1>5
      <3> QED BY <1>5, <3>1, <3>2
    <2>2. CASE s # p
      <3>1. s < p
        BY <1>2, <2>2, Ranges
      <3>2. /\ net.role[s] # "closed" => \E j \in 1..n : queue[j] = StopSession(s)
            /\ \A i \in 1..n : queue[i].command # "stop" /\ queue[i].session = s =>
                  \E j \in (i + 1)..n : queue[j] = StopSession(s)
        BY <1>1, <3>1 DEF Inv, Closing, n
      <3>3. net.role[s] # "closed" => \E j \in 1..(n + 1) : queue'[j] = StopSession(s)
        BY <1>5, <3>2
      <3>4. ASSUME NEW i \in 1..(n + 1), queue'[i].command # "stop", queue'[i].session = s
            PROVE  \E j \in (i + 1)..(n + 1) : queue'[j] = StopSession(s)
        <4>1. i \in 1..n
          BY <1>4, <1>5, <3>4
        <4>2. PICK j \in (i + 1)..n : queue[j] = StopSession(s)
          BY <1>5, <3>2, <3>4, <4>1
        <4>3. j \in 1..n /\ j \in (i + 1)..(n + 1)
          BY <1>5, <4>1
        <4> QED BY <1>5, <4>2, <4>3
      <3> QED BY <3>3, <3>4
    <2> QED BY <2>1, <2>2
  <1> QED BY <1>7, <1>8, <1>10, <1>11, <1>12 DEF Inv

\* What a command does to the sessions, its own and the others.
LEMMA CommandDone ==
  ASSUME NEW n, NetInv(n), NEW c \in Commands, NEW u,
         u = CASE c.command = "validator" -> UpdateValidatorSession(n, c.session, c.reply)
               [] c.command = "nonvalidator" -> UpdateNonvalidatorSession(n, c.session)
               [] OTHER -> FinishSession(n, c.session)
  PROVE  /\ NetInv(u)
         /\ \A t \in Sessions \ {c.session} : u.role[t] = n.role[t] /\ u.user[t] = n.user[t]
         /\ c.command = "stop" => u.role[c.session] = "closed"
         /\ c.command = "nonvalidator" => u.role[c.session] \in {n.role[c.session], "nonvalidator"}
         /\ c.command = "validator" /\ n.role[c.session] # "nonvalidator" =>
              u.role[c.session] = "validator" /\ u.user[c.session] = c.reply
         /\ c.command = "validator" /\ n.role[c.session] = "nonvalidator" => u = n
  <1>1. c.session \in Sessions /\ c.reply \in BOOLEAN /\ c.command \in {"validator", "nonvalidator", "stop"}
    BY DEF Commands
  <1>2. n.role \in [Sessions -> Roles] /\ n.user \in [Sessions -> BOOLEAN]
    BY NetTypes DEF NetInv
  <1>3. CASE c.command = "validator"
    <2>1. u = UpdateValidatorSession(n, c.session, c.reply)
      BY <1>3
    <2>2. /\ NetInv(u) /\ (n.role[c.session] = "nonvalidator" => u = n)
          /\ n.role[c.session] # "nonvalidator" => /\ u.role = [n.role EXCEPT ![c.session] = "validator"]
                                                   /\ u.user = [n.user EXCEPT ![c.session] = c.reply]
      BY <1>1, <2>1, UpdateValidatorSessionInv
    <2> QED BY <1>1, <1>2, <1>3, <2>2
  <1>4. CASE c.command = "nonvalidator"
    <2>1. u = UpdateNonvalidatorSession(n, c.session)
      BY <1>4
    <2>2. /\ NetInv(u) /\ u.user = n.user
          /\ u.role = IF n.role[c.session] = "closed" THEN [n.role EXCEPT ![c.session] = "nonvalidator"]
                      ELSE n.role
      BY <1>1, <2>1, UpdateNonvalidatorSessionInv
    <2> QED BY <1>1, <1>2, <1>4, <2>2
  <1>5. CASE c.command = "stop"
    <2>1. u = FinishSession(n, c.session)
      BY <1>5
    <2>2. /\ NetInv(u) /\ u.role = [n.role EXCEPT ![c.session] = "closed"]
          /\ u.user = [n.user EXCEPT ![c.session] = FALSE]
      BY <1>1, <2>1, FinishSessionInv, SMTT(30)
    <2> QED BY <1>1, <1>2, <1>5, <2>2
  <1> QED BY <1>1, <1>3, <1>4, <1>5

LEMMA HandleCommandInv ==
  ASSUME Inv, HandleCommand
  PROVE  Inv'
  <1> DEFINE c == Head(queue)
             n == Len(queue)
             p == party.session
  <1>1. /\ queue # << >> /\ queue' = Tail(queue) /\ task' = task /\ returned' = returned
        /\ finalized' = finalized
        /\ party' = IF c.reply THEN [at |-> "spawn", session |-> p] ELSE party
        /\ net' = CASE c.command = "validator" -> UpdateValidatorSession(net, c.session, c.reply)
                    [] c.command = "nonvalidator" -> UpdateNonvalidatorSession(net, c.session)
                    [] OTHER -> FinishSession(net, c.session)
    BY DEF HandleCommand, At
  <1>2. /\ queue \in Seq(Commands) /\ NetInv(net) /\ p \in 0..(LastSession + 1) /\ p \in Sessions
        /\ party \in [at : Places, session : 0..(LastSession + 1)]
    BY Ranges DEF Inv, Types
  <1>3. /\ n \in Nat /\ n >= 1 /\ c \in Commands /\ c = queue[1] /\ 1 \in 1..n
        /\ queue' \in Seq(Commands) /\ Len(queue') = n - 1
        /\ \A i \in 1..(n - 1) : queue'[i] = queue[i + 1] /\ i + 1 \in 1..n
    BY <1>1, <1>2
  <1> HIDE DEF c
  <1>4. /\ NetInv(net')
        /\ \A t \in Sessions \ {c.session} : net'.role[t] = net.role[t] /\ net'.user[t] = net.user[t]
        /\ c.command = "stop" => net'.role[c.session] = "closed"
        /\ c.command = "nonvalidator" => net'.role[c.session] \in {net.role[c.session], "nonvalidator"}
        /\ c.command = "validator" /\ net.role[c.session] # "nonvalidator" =>
             net'.role[c.session] = "validator" /\ net'.user[c.session] = c.reply
        /\ c.command = "validator" /\ net.role[c.session] = "nonvalidator" => net' = net
    BY <1>1, <1>2, <1>3, CommandDone, SMTT(30)
  <1>5. /\ c.session \in Sessions /\ c.reply \in BOOLEAN
        /\ c.command \in {"validator", "nonvalidator", "stop"}
    BY <1>3 DEF Commands
  <1>6. party'.session = p /\ party'.at = IF c.reply THEN "spawn" ELSE party.at
    BY <1>1, <1>2, <1>5
  <1>7. Types'
    <2>1. party' \in [at : Places, session : 0..(LastSession + 1)]
      BY <1>1, <1>2, <1>5 DEF Places
    <2>2. finalized' \in 0..FirstBlock(LastSession)
      BY <1>1 DEF Inv, Types
    <2> QED BY <1>3, <1>4, <2>1, <2>2 DEF Types, NetInv
  <1>8. RightRoles'
    <2>1. /\ c.command = "validator" => c.session \in Validated
          /\ c.command = "nonvalidator" => c.session \notin Validated
      BY <1>3 DEF Inv, RightRoles
    <2>2. \A s \in Sessions : /\ net.role[s] = "validator" => s \in Validated
                              /\ net.role[s] = "nonvalidator" => s \notin Validated
      BY DEF Inv, RightRoles
    <2>3. \A s \in Sessions : /\ net'.role[s] = "validator" => s \in Validated
                              /\ net'.role[s] = "nonvalidator" => s \notin Validated
      BY <1>4, <1>5, <2>1, <2>2
    <2>4. ASSUME NEW i \in 1..(n - 1)
          PROVE  /\ queue'[i].command = "validator" => queue'[i].session \in Validated
                 /\ queue'[i].command = "nonvalidator" => queue'[i].session \notin Validated
      <3>1. queue'[i] = queue[i + 1] /\ i + 1 \in 1..n
        BY <1>3
      <3>2. /\ queue[i + 1].command = "validator" => queue[i + 1].session \in Validated
            /\ queue[i + 1].command = "nonvalidator" => queue[i + 1].session \notin Validated
        BY <3>1 DEF Inv, RightRoles
      <3> QED BY <3>1, <3>2
    <2>5. 1..Len(queue') = 1..(n - 1)
      BY <1>3
    <2>6. \A i \in 1..Len(queue') :
            /\ queue'[i].command = "validator" => queue'[i].session \in Validated
            /\ queue'[i].command = "nonvalidator" => queue'[i].session \notin Validated
      BY <2>4, <2>5, Zenon
    <2> QED BY <2>3, <2>6 DEF RightRoles
  <1>9. c.reply => /\ party.at = "network" /\ n = 1 /\ c.command = "validator" /\ c.session = p
    BY <1>3 DEF Inv, Replies
  <1>10. Replies'
    <2>1. CASE c.reply
      <3>1. n = 1
        BY <1>9, <2>1
      <3>2. Len(queue') = 0
        BY <1>3, <3>1
      <3> QED BY <3>2 DEF Replies
    <2>2. CASE ~c.reply
      <3>1. party'.at = party.at
        BY <1>6, <2>2
      <3> SUFFICES ASSUME NEW i \in 1..(n - 1), queue'[i].reply
                   PROVE  /\ party.at = "network" /\ i = n - 1
                          /\ queue'[i].command = "validator" /\ queue'[i].session = p
        BY <1>3, <1>6, <3>1 DEF Replies
      <3>2. queue'[i] = queue[i + 1] /\ i + 1 \in 1..n
        BY <1>3
      <3>3. /\ party.at = "network" /\ i + 1 = n
            /\ queue[i + 1].command = "validator" /\ queue[i + 1].session = p
        BY <3>2 DEF Inv, Replies
      <3> QED BY <1>3, <3>2, <3>3
    <2> QED BY <1>5, <2>1, <2>2
  <1>11. Served'
    <2>1. CASE c.reply
      <3>1. p \in Validated /\ ~task
        BY <1>9, <2>1 DEF Inv, Served
      <3>2. net'.role[p] = "validator" /\ net'.user[p]
        BY <1>2, <1>4, <1>9, <2>1, <3>1, Zenon DEF Inv, RightRoles
      <3>3. Len(queue') = 0
        <4>1. n = 1
          BY <1>9, <2>1
        <4> QED BY <1>3, <4>1
      <3>4. party'.at = "spawn" /\ party'.session = p
        BY <1>6, <2>1
      <3>5. \A i \in 1..Len(queue') : queue'[i].session # party'.session
        BY <3>3
      <3>6. ~task'
        BY <1>1, <3>1
      <3> HIDE DEF p
      <3> QED BY <3>1, <3>2, <3>4, <3>5, <3>6 DEF Served
    <2>2. CASE ~c.reply
      <3>1. party' = party
        BY <1>1, <2>2
      <3>2. CASE party.at \in {"spawn", "loop"} /\ p \in Validated
        <4>1. c.session # p /\ \A i \in 1..(n - 1) : queue'[i].session # p
          BY <1>3, <3>2 DEF Inv, Served
        <4>2. net'.role[p] = "validator" /\ net'.user[p]
          <5>1. net.role[p] = "validator" /\ net.user[p]
            BY <3>2 DEF Inv, Served
          <5>2. net'.role[p] = net.role[p] /\ net'.user[p] = net.user[p]
            BY <1>2, <1>4, <4>1
          <5> QED BY <5>1, <5>2
        <4> QED BY <1>1, <1>3, <3>1, <3>2, <4>1, <4>2 DEF Inv, Served
      <3>3. CASE ~(party.at \in {"spawn", "loop"} /\ p \in Validated)
        BY <1>1, <3>1, <3>3 DEF Inv, Served
      <3> QED BY <3>2, <3>3
    <2> QED BY <1>5, <2>1, <2>2
  <1>12. Closing'
    <2>1. party.at # "off"
      BY <1>1 DEF Inv, Fresh
    <2> HIDE DEF n
    <2> SUFFICES ASSUME NEW s \in Sessions, s < p, s \notin returned
                 PROVE  /\ net'.role[s] # "closed" => \E j \in 1..(n - 1) : queue'[j] = StopSession(s)
                        /\ \A i \in 1..(n - 1) : queue'[i].command # "stop" /\ queue'[i].session = s =>
                             \E j \in (i + 1)..(n - 1) : queue'[j] = StopSession(s)
      BY <1>1, <1>3, <1>6 DEF Closing
    <2>2. /\ net.role[s] # "closed" => \E j \in 1..n : queue[j] = StopSession(s)
          /\ \A i \in 1..n : queue[i].command # "stop" /\ queue[i].session = s =>
                \E j \in (i + 1)..n : queue[j] = StopSession(s)
      BY <2>1 DEF Inv, Closing, n
    <2>3. \A j \in 2..n : j - 1 \in 1..(n - 1) /\ queue'[j - 1] = queue[j]
      <3> SUFFICES ASSUME NEW j \in 2..n PROVE j - 1 \in 1..(n - 1) /\ queue'[j - 1] = queue[j]
        OBVIOUS
      <3>1. j - 1 \in 1..(n - 1) /\ (j - 1) + 1 = j
        BY <1>3
      <3>2. queue'[j - 1] = queue[(j - 1) + 1]
        BY <1>3, <3>1
      <3> QED BY <3>1, <3>2
    <2>4. ASSUME NEW i \in 1..(n - 1), queue'[i].command # "stop", queue'[i].session = s
          PROVE  \E j \in (i + 1)..(n - 1) : queue'[j] = StopSession(s)
      <3>1. i + 1 \in 1..n /\ queue'[i] = queue[i + 1]
        BY <1>3
      <3>2. PICK j \in (i + 2)..n : queue[j] = StopSession(s)
        BY <1>3, <2>2, <2>4, <3>1
      <3>3. j \in 2..n /\ j - 1 \in (i + 1)..(n - 1)
        BY <1>3
      <3> QED BY <2>3, <3>2, <3>3
    <2>5. ASSUME net'.role[s] # "closed" PROVE \E j \in 1..(n - 1) : queue'[j] = StopSession(s)
      <3>1. CASE c.session = s
        <4>1. c.command # "stop"
          BY <1>4, <2>5, <3>1
        <4>2. PICK j \in 2..n : queue[j] = StopSession(s)
          BY <1>3, <2>2, <3>1, <4>1
        <4> QED BY <2>3, <4>2
      <3>2. CASE c.session # s
        <4>1. PICK j \in 1..n : queue[j] = StopSession(s)
          BY <1>4, <2>2, <2>5, <3>2
        <4>2. j # 1
          BY <1>3, <3>2, <4>1 DEF StopSession
        <4>3. j \in 2..n
          BY <1>3, <4>2
        <4> QED BY <2>3, <4>1, <4>3
      <3> QED BY <3>1, <3>2
    <2> QED BY <2>4, <2>5
  <1>13. Fresh'
    BY <1>1, <1>6 DEF Inv, Fresh
  <1> QED BY <1>7, <1>8, <1>10, <1>11, <1>12, <1>13 DEF Inv

LEMMA DiscoveryInv ==
  ASSUME Inv, NEW s \in Sessions, NEW p \in Peers, DiscoveryMessage(s, p)
  PROVE  Inv'
  <1>1. /\ net' = OnDiscoveryMessage(net, s, p) /\ net.role[s] # "closed"
        /\ party' = party /\ queue' = queue /\ task' = task /\ returned' = returned
        /\ finalized' = finalized
    BY DEF DiscoveryMessage
  <1>2. NetInv(net') /\ net'.role = net.role /\ net'.user = net.user
    BY <1>1, OnDiscoveryMessageInv DEF Inv, Types
  <1>3. Types'
    BY <1>1, <1>2 DEF Inv, Types, NetInv
  <1>4. RightRoles' /\ Replies' /\ Served' /\ Closing'
    BY <1>1, <1>2 DEF Inv, RightRoles, Replies, Served, Closing
  <1>5. Fresh'
    BY <1>1 DEF Inv, Fresh, NewManager
  <1> QED BY <1>3, <1>4, <1>5 DEF Inv

LEMMA CrashInv ==
  ASSUME Inv, Crash
  PROVE  Inv'
  <1>1. /\ party' = [at |-> "off", session |-> 0] /\ queue' = << >> /\ net' = NewManager
        /\ task' = FALSE /\ finalized' = finalized
    BY DEF Crash, At
  <1>2. Len(queue') = 0 /\ queue' \in Seq(Commands)
    BY <1>1
  <1>3. Types'
    BY <1>1, <1>2, NewManagerInv DEF Inv, Types, Places, NetInv
  <1>4. \A s \in Sessions : net'.role[s] = "closed"
    BY <1>1 DEF NewManager
  <1>5. RightRoles' /\ Replies' /\ Served' /\ Closing' /\ Fresh'
    BY <1>1, <1>2, <1>4 DEF RightRoles, Replies, Served, Closing, Fresh
  <1> QED BY <1>3, <1>5 DEF Inv

LEMMA NextInv == Inv /\ [Next]_vars => Inv'
  <1> SUFFICES ASSUME Inv, [Next]_vars PROVE Inv'
    OBVIOUS
  <1>1. finalized \in 0..FirstBlock(LastSession) /\ FirstBlock(LastSession) \in Nat
    BY DEF Inv, Types, FirstBlock
  <1>2. CASE \/ TaskEnds \/ UpdaterCatchesUp \/ UpdaterNotified \/ CreateUnit
             \/ \E s \in Sessions : RemoveBackup(s)
    BY <1>1, <1>2, StaysPut DEF TaskEnds, UpdaterCatchesUp, UpdaterNotified, CreateUnit, RemoveBackup
  <1>3. CASE Finalize
    BY <1>1, <1>3, StaysPut DEF Finalize
  <1>4. CASE UNCHANGED vars
    BY <1>1, <1>4, StaysPut DEF vars
  <1>5. CASE \E s \in Sessions, p \in Peers : DiscoveryMessage(s, p)
    BY <1>5, DiscoveryInv
  <1>6. CASE Boot \/ SkipEarly \/ BackupFails
    BY <1>6, MovesInv
  <1>7. CASE RunAsNonauthority \/ NextAuthorities
    BY <1>7, StartsInv
  <1> QED BY <1>2, <1>3, <1>4, <1>5, <1>6, <1>7, AwaitAuthoritiesInv, SpawnInv, RunAsAuthorityInv,
             FinishSessionRunInv, HandleCommandInv, CrashInv DEF Next

LEMMA SpecInv == Spec => []Inv
  BY InitInv, NextInv, PTL DEF Spec

\* While the authority task of a session runs, the session network has that
\* session open as a validator and forwards its data to the task: the reply
\* the party waits for is to the last command on its way, and afterwards no
\* command about the session is sent until the task has ended (run_session in
\* party/mod.rs, handle_command in network/session/service.rs).
THEOREM TaskIsConnected == Spec => []TaskConnected
  <1>1. Inv => TaskConnected
    BY DEF Inv, Served, TaskConnected
  <1> QED BY <1>1, SpecInv, PTL

\* The peers the clique network is asked to stay connected to are those that
\* some open validator session knows, whatever sessions open, overlap and
\* close, and whatever is heard (network/session/manager.rs, connections.rs).
THEOREM ReservedIsExact == Spec => []ReservedMatch
  <1>1. Inv => ReservedMatch
    <2> SUFFICES ASSUME NetInv(net) PROVE ReservedMatch
      BY DEF Inv, Types
    <2>1. /\ net.auths \in [Sessions -> SUBSET Peers] /\ net.associated \in [Peers -> SUBSET Sessions]
          /\ net.bySession \in [Sessions -> SUBSET Peers]
      BY NetTypes DEF NetInv
    <2>2. \A p \in Peers : p \in net.reserved <=> \E s \in Sessions : p \in net.bySession[s]
      BY <2>1 DEF NetInv
    <2>3. \A p \in Peers, s \in Sessions :
            p \in net.bySession[s] <=> net.role[s] = "validator" /\ p \in net.auths[s]
      BY DEF NetInv
    <2>4. net.reserved \subseteq Peers
      BY DEF NetInv
    <2>5. \A p : p \in net.reserved <=>
                 \E s \in Sessions : net.role[s] = "validator" /\ p \in net.auths[s]
      BY <2>1, <2>2, <2>3, <2>4
    <2> QED BY <2>5 DEF ReservedMatch
  <1> QED BY <1>1, SpecInv, PTL

\* Every network session the party is past is closed, or its stop is on its
\* way, unless run_session returned early from it (party/mod.rs).
THEOREM SessionsAreClosed == Spec => []SessionsClosed
  <1>1. Inv => SessionsClosed
    <2> SUFFICES ASSUME Inv, party.at # "off", NEW s \in Sessions, net.role[s] # "closed",
                        s < party.session, s \notin returned
                 PROVE  StopSession(s) \in Range(queue)
      BY DEF SessionsClosed
    <2>1. PICK j \in 1..Len(queue) : queue[j] = StopSession(s)
      BY DEF Inv, Closing
    <2>2. DOMAIN queue = 1..Len(queue)
      BY DEF Inv, Types
    <2> QED BY <2>1, <2>2 DEF Range
  <1> QED BY <1>1, SpecInv, PTL
=============================================================================
