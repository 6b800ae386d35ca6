---------------------------- MODULE CliqueProofs ----------------------------
(***************************************************************************)
(* Proofs about the clique network, for any number of workers, commands    *)
(* and failures.                                                           *)
(***************************************************************************)
EXTENDS Clique, TLAPS

Results == [worker : Workers, connected : BOOLEAN]

TypeInv ==
  /\ callerWants \in BOOLEAN
  /\ listenerWants \in BOOLEAN
  /\ out \in [Workers -> OutStates]
  /\ callerHave \in Workers \cup {Nobody, Dead}
  /\ listenerHave \in Workers \cup {Nobody, Dead}
  /\ callerResults \in Seq(Results)
  /\ listenerResults \in Seq(Workers)

\* The reports of a worker that its service has not read yet agree with the
\* state of its task, and arrive in the order of its life.
ReportsInOrder ==
  /\ \A i \in 1..Len(callerResults) :
       LET r == callerResults[i]
       IN  /\ r.connected => out[r.worker] \in {"up", "sleeping", "reporting"}
           /\ ~r.connected => out[r.worker] = "reporting"
  /\ \A i, j \in 1..Len(callerResults) :
       i < j /\ callerResults[i].worker = callerResults[j].worker =>
         callerResults[i].connected /\ ~callerResults[j].connected

Inv == TypeInv /\ HaveWithinWanted /\ ReportsInOrder /\ NeverAbandoned

USE CliqueAssumption

LEMMA InitInv == Init => Inv
  <1> SUFFICES ASSUME Init PROVE Inv
    OBVIOUS
  <1>1. TypeInv
    <2>1. callerResults \in Seq(Results)
      BY DEF Init
    <2>2. out \in [Workers -> OutStates]
      BY DEF Init, OutStates
    <2>3. listenerResults \in Seq(Workers)
      BY DEF Init
    <2> QED BY <2>1, <2>2, <2>3, Zenon DEF Init, TypeInv
  <1>2. HaveWithinWanted /\ NeverAbandoned
    BY DEF Init, HaveWithinWanted, NeverAbandoned
  <1>3. Len(callerResults) = 0
    BY DEF Init
  <1>4. ReportsInOrder
    BY <1>3 DEF ReportsInOrder
  <1> QED BY <1>1, <1>2, <1>4 DEF Inv

\* What is in a queue of reports, before and after a report is added.
LEMMA AppendRange ==
  ASSUME NEW q \in Seq(Results), NEW r \in Results
  PROVE  /\ Append(q, r) \in Seq(Results)
         /\ Range(Append(q, r)) = Range(q) \cup {r}
  <1>1. Append(q, r) \in Seq(Results) /\ Len(Append(q, r)) = Len(q) + 1
    OBVIOUS
  <1>2. \A i \in 1..Len(q) : Append(q, r)[i] = q[i]
    OBVIOUS
  <1>3. Append(q, r)[Len(q) + 1] = r
    OBVIOUS
  <1> QED BY <1>1, <1>2, <1>3 DEF Range

LEMMA TailRange ==
  ASSUME NEW q \in Seq(Results), q # << >>
  PROVE  /\ Tail(q) \in Seq(Results)
         /\ Head(q) \in Results
         /\ Head(q) = q[1]
         /\ Len(Tail(q)) = Len(q) - 1
         /\ \A i \in 1..Len(Tail(q)) : Tail(q)[i] = q[i + 1]
         /\ Range(q) = {Head(q)} \cup Range(Tail(q))
  <1>1. /\ Tail(q) \in Seq(Results)
        /\ Head(q) \in Results
        /\ Head(q) = q[1]
        /\ Len(Tail(q)) = Len(q) - 1
        /\ \A i \in 1..Len(Tail(q)) : Tail(q)[i] = q[i + 1]
    OBVIOUS
  <1>2. \A i \in 1..Len(q) : i = 1 \/ (i - 1 \in 1..Len(Tail(q)) /\ q[i] = Tail(q)[i - 1])
    BY <1>1
  <1>3. \A i \in 1..Len(Tail(q)) : i + 1 \in 1..Len(q)
    BY <1>1
  <1>4. 1 \in 1..Len(q)
    OBVIOUS
  <1>5. DOMAIN q = 1..Len(q) /\ DOMAIN Tail(q) = 1..Len(Tail(q))
    BY <1>1
  <1>6. ASSUME NEW x \in Range(q) PROVE x \in {Head(q)} \cup Range(Tail(q))
    <2>1. PICK i \in 1..Len(q) : x = q[i]
      BY <1>5 DEF Range
    <2>2. CASE i = 1
      BY <1>1, <2>1, <2>2
    <2>3. CASE i # 1
      <3>1. i - 1 \in DOMAIN Tail(q) /\ x = Tail(q)[i - 1]
        BY <1>2, <1>5, <2>1, <2>3
      <3> QED BY <3>1, Zenon DEF Range
    <2> QED BY <2>2, <2>3
  <1>7. ASSUME NEW x \in {Head(q)} \cup Range(Tail(q)) PROVE x \in Range(q)
    BY <1>1, <1>3, <1>4, <1>5 DEF Range
  <1> QED BY <1>1, <1>6, <1>7

\* No report of a worker waits whose task has not reported.
LEMMA Unreported ==
  ASSUME TypeInv, ReportsInOrder, NEW i \in 1..Len(callerResults)
  PROVE  /\ callerResults[i] \in Results
         /\ out[callerResults[i].worker] \in {"up", "sleeping", "reporting"}
         /\ out[callerResults[i].worker] \in {"up", "sleeping"} => callerResults[i].connected
  <1>1. callerResults[i] \in Results
    BY DEF TypeInv
  <1>2. /\ callerResults[i].connected => out[callerResults[i].worker] \in {"up", "sleeping", "reporting"}
        /\ ~callerResults[i].connected => out[callerResults[i].worker] = "reporting"
    BY DEF ReportsInOrder
  <1>3. callerResults[i].connected \in BOOLEAN
    BY <1>1 DEF Results
  <1> QED BY <1>1, <1>2, <1>3

\* The order survives a report that is added at the right moment.
LEMMA ReportAdded ==
  ASSUME TypeInv, ReportsInOrder, NEW w \in Workers, NEW c \in BOOLEAN,
         callerResults' = Append(callerResults, [worker |-> w, connected |-> c]),
         c => out[w] = "dialing" /\ out' = [out EXCEPT ![w] = "up"],
         ~c => out[w] = "sleeping" /\ out' = [out EXCEPT ![w] = "reporting"]
  PROVE  ReportsInOrder'
  <1> DEFINE r == [worker |-> w, connected |-> c]
             n == Len(callerResults)
  <1>1. /\ r \in Results /\ callerResults \in Seq(Results) /\ out \in [Workers -> OutStates]
        /\ r.worker = w /\ r.connected = c
    BY DEF TypeInv, Results
  <1>2. Len(callerResults') = n + 1 /\ callerResults'[n + 1] = r
    BY <1>1
  <1>3. \A i \in 1..n : callerResults'[i] = callerResults[i] /\ callerResults[i] \in Results
    BY <1>1
  <1>4. \A i \in 1..n : callerResults[i].worker = w => ~c /\ callerResults[i].connected
    BY Unreported
  <1>6. out'[w] = IF c THEN "up" ELSE "reporting"
    BY <1>1
  <1>7. n \in Nat
    BY <1>1
  <1> HIDE DEF r, n
  <1>8. \A i \in 1..(n + 1) : i \in 1..n \/ i = n + 1
    BY <1>7
  <1>9. \A i, j \in 1..(n + 1) : i < j /\ callerResults'[i].worker = callerResults'[j].worker =>
            callerResults'[i].connected /\ ~callerResults'[j].connected
    <2> SUFFICES ASSUME NEW i \in 1..(n + 1), NEW j \in 1..(n + 1), i < j,
                        callerResults'[i].worker = callerResults'[j].worker
                 PROVE  callerResults'[i].connected /\ ~callerResults'[j].connected
      BY Zenon
    <2>1. i \in 1..n
      BY <1>7
    <2>2. CASE j \in 1..n
      BY <2>1, <2>2, <1>3 DEF ReportsInOrder, n
    <2>3. CASE j = n + 1
      BY <2>1, <2>3, <1>1, <1>2, <1>3, <1>4
    <2> QED BY <2>2, <2>3, <1>8, Zenon
  <1>10. \A i \in 1..(n + 1) : LET s == callerResults'[i]
                              IN  /\ s.connected => out'[s.worker] \in {"up", "sleeping", "reporting"}
                                  /\ ~s.connected => out'[s.worker] = "reporting"
    <2> SUFFICES ASSUME NEW i \in 1..(n + 1)
                 PROVE  LET s == callerResults'[i]
                        IN  /\ s.connected => out'[s.worker] \in {"up", "sleeping", "reporting"}
                            /\ ~s.connected => out'[s.worker] = "reporting"
      BY Zenon
    <2>1. CASE i \in 1..n
      <3>1. callerResults'[i] = callerResults[i] /\ callerResults[i].worker \in Workers
        BY <1>3, <2>1, Zenon DEF Results
      <3>2. LET s == callerResults[i]
            IN  /\ s.connected => out[s.worker] \in {"up", "sleeping", "reporting"}
                /\ ~s.connected => out[s.worker] = "reporting"
        BY <2>1 DEF ReportsInOrder, n
      <3>3. CASE callerResults[i].worker = w
        <4>1. callerResults[i].connected /\ ~c
          BY <1>4, <2>1, <3>3 DEF n
        <4>2. out'[callerResults[i].worker] = "reporting"
          BY <1>6, <3>3, <4>1
        <4> QED BY <3>1, <4>1, <4>2, Zenon
      <3>4. CASE callerResults[i].worker # w
        <4>1. out'[callerResults[i].worker] = out[callerResults[i].worker]
          BY <1>1, <3>1, <3>4
        <4> QED BY <3>1, <3>2, <4>1, Zenon
      <3> QED BY <3>3, <3>4, Zenon
    <2>2. CASE i = n + 1
      BY <2>2, <1>1, <1>2, <1>6
    <2> QED BY <2>1, <2>2, <1>8, Zenon
  <1> QED BY <1>2, <1>9, <1>10 DEF ReportsInOrder

\* A report that is taken leaves the order of the others.
LEMMA ReportTaken ==
  ASSUME TypeInv, ReportsInOrder, callerResults # << >>, callerResults' = Tail(callerResults),
         \A i \in 2..Len(callerResults) : out'[callerResults[i].worker] = out[callerResults[i].worker]
  PROVE  ReportsInOrder'
  <1> DEFINE n == Len(callerResults)
  <1>1. callerResults \in Seq(Results) /\ n \in Nat
    BY DEF TypeInv
  <1>2. Len(callerResults') = n - 1 /\ \A i \in 1..(n - 1) : callerResults'[i] = callerResults[i + 1]
    BY <1>1, TailRange
  <1>3. \A i \in 1..(n - 1) : i + 1 \in 1..n /\ i + 1 \in 2..n
    BY <1>1
  <1> HIDE DEF n
  <1>4. ASSUME NEW i \in 1..(n - 1)
        PROVE  LET r == callerResults'[i]
               IN  /\ r.connected => out'[r.worker] \in {"up", "sleeping", "reporting"}
                   /\ ~r.connected => out'[r.worker] = "reporting"
    <2>1. callerResults'[i] = callerResults[i + 1] /\ i + 1 \in 1..n /\ i + 1 \in 2..n
      BY <1>2, <1>3
    <2>2. LET r == callerResults[i + 1]
          IN  /\ r.connected => out[r.worker] \in {"up", "sleeping", "reporting"}
              /\ ~r.connected => out[r.worker] = "reporting"
      BY <2>1 DEF ReportsInOrder, n
    <2>3. out'[callerResults[i + 1].worker] = out[callerResults[i + 1].worker]
      BY <2>1 DEF n
    <2> QED BY <2>1, <2>2, <2>3, Zenon
  <1>5. ASSUME NEW i \in 1..(n - 1), NEW j \in 1..(n - 1), i < j,
               callerResults'[i].worker = callerResults'[j].worker
        PROVE  callerResults'[i].connected /\ ~callerResults'[j].connected
    <2>1. callerResults'[i] = callerResults[i + 1] /\ callerResults'[j] = callerResults[j + 1]
      BY <1>2
    <2>2. i + 1 \in 1..n /\ j + 1 \in 1..n /\ i + 1 < j + 1
      BY <1>3, <1>5
    <2> HIDE <1>2
    <2>3. callerResults[i + 1].connected /\ ~callerResults[j + 1].connected
      BY <1>5, <2>1, <2>2 DEF ReportsInOrder, n
    <2> QED BY <2>1, <2>3, Zenon
  <1> QED BY <1>2, <1>4, <1>5 DEF ReportsInOrder

\* Tasks that end without a report, or that have not reported, move freely.
LEMMA TaskMoved ==
  ASSUME TypeInv, ReportsInOrder, callerResults' = callerResults,
         \A i \in 1..Len(callerResults) :
           \/ out'[callerResults[i].worker] = out[callerResults[i].worker]
           \/ out[callerResults[i].worker] = "up" /\ out'[callerResults[i].worker] = "sleeping"
  PROVE  ReportsInOrder'
  <1>1. ASSUME NEW i \in 1..Len(callerResults)
        PROVE  LET r == callerResults'[i]
               IN  /\ r.connected => out'[r.worker] \in {"up", "sleeping", "reporting"}
                   /\ ~r.connected => out'[r.worker] = "reporting"
    <2>1. LET r == callerResults[i]
          IN  /\ r.connected => out[r.worker] \in {"up", "sleeping", "reporting"}
              /\ ~r.connected => out[r.worker] = "reporting"
      BY DEF ReportsInOrder
    <2> QED BY <2>1
  <1> QED BY <1>1 DEF ReportsInOrder

\* What a change of one task does to the tasks.
LEMMA OutMoved ==
  ASSUME TypeInv, NEW w \in Workers, NEW state \in OutStates, out' = [out EXCEPT ![w] = state]
  PROVE  /\ out' \in [Workers -> OutStates]
         /\ out'[w] = state
         /\ \A v \in Workers \ {w} : out'[v] = out[v]
  BY DEF TypeInv

\* The steps that neither touch the caller's tasks nor its queue of reports.
LEMMA ListenerSteps ==
  ASSUME Inv, out' = out, callerResults' = callerResults, callerHave' = callerHave,
         callerWants' = callerWants, listenerWants' \in BOOLEAN,
         listenerHave' \in Workers \cup {Nobody, Dead}, listenerResults' \in Seq(Workers),
         listenerHave' # Nobody => listenerWants'
  PROVE  Inv'
  BY DEF Inv, TypeInv, HaveWithinWanted, ReportsInOrder, NeverAbandoned, CallerHolds

LEMMA CallerCommands == Inv /\ (CallerAdds \/ CallerRemoves) => Inv'
  <1>1. ASSUME Inv, CallerAdds PROVE Inv'
    <2>1. CASE callerWants
      <3>1. /\ callerWants' = callerWants /\ out' = out /\ callerHave' = callerHave
            /\ callerResults' = callerResults
            /\ listenerHave' = listenerHave /\ listenerWants' = listenerWants
            /\ listenerResults' = listenerResults
        BY <1>1, <2>1 DEF CallerAdds
      <3> QED BY <1>1, <3>1, ListenerSteps DEF Inv, TypeInv, HaveWithinWanted
    <2>2. CASE ~callerWants
      <3>1. PICK w \in NewIds : out' = [out EXCEPT ![w] = "dialing"]
        BY <1>1, <2>2 DEF CallerAdds
      <3>2. w \in Workers /\ out[w] = "none"
        BY DEF NewIds, Free
      <3>3. /\ callerWants' = TRUE /\ callerHave' = callerHave /\ callerResults' = callerResults
            /\ listenerHave' = listenerHave /\ listenerWants' = listenerWants
            /\ listenerResults' = listenerResults
        BY <1>1 DEF CallerAdds
      <3>4. /\ out' \in [Workers -> OutStates] /\ out'[w] = "dialing"
            /\ \A v \in Workers \ {w} : out'[v] = out[v]
        BY <1>1, <3>1, <3>2, OutMoved, Zenon DEF Inv, OutStates
      <3>5. TypeInv' /\ HaveWithinWanted'
        BY <1>1, <3>3, <3>4 DEF Inv, TypeInv, HaveWithinWanted
      <3>6. NeverAbandoned'
        BY <3>2, <3>4 DEF NeverAbandoned
      <3>7. \A i \in 1..Len(callerResults) :
              out'[callerResults[i].worker] = out[callerResults[i].worker]
        BY <1>1, <3>2, <3>4, Unreported DEF Inv, Results
      <3>8. ReportsInOrder'
        BY <1>1, <3>3, <3>7, TaskMoved DEF Inv
      <3> QED BY <3>5, <3>6, <3>8 DEF Inv
    <2> QED BY <2>1, <2>2
  <1>2. ASSUME Inv, CallerRemoves PROVE Inv'
    <2>1. /\ callerWants' = FALSE /\ callerHave' = Nobody /\ out' = out
          /\ callerResults' = callerResults
          /\ listenerHave' = listenerHave /\ listenerWants' = listenerWants
          /\ listenerResults' = listenerResults
      BY <1>2 DEF CallerRemoves
    <2> QED BY <1>2, <2>1, Zenon DEF Inv, TypeInv, HaveWithinWanted, ReportsInOrder, NeverAbandoned
  <1> QED BY <1>1, <1>2

LEMMA ListenerCommands ==
  Inv /\ (ListenerAdds \/ ListenerRemoves \/ ListenerResult) => Inv'
  <1>1. ASSUME Inv, ListenerAdds PROVE Inv'
    BY <1>1, ListenerSteps DEF ListenerAdds, Inv, TypeInv, HaveWithinWanted
  <1>2. ASSUME Inv, ListenerRemoves PROVE Inv'
    BY <1>2, ListenerSteps, Zenon DEF ListenerRemoves, Inv, TypeInv, HaveWithinWanted
  <1>3. ASSUME Inv, ListenerResult PROVE Inv'
    <2>1. Tail(listenerResults) \in Seq(Workers) /\ Head(listenerResults) \in Workers
      BY <1>3 DEF ListenerResult, Inv, TypeInv
    <2> QED BY <1>3, <2>1, ListenerSteps DEF ListenerResult, Inv, TypeInv, HaveWithinWanted, Kept
  <1> QED BY <1>1, <1>2, <1>3

\* The caller's task reports: a connection, or that it failed.
LEMMA Reports ==
  ASSUME NEW w \in Workers, Inv, Handshake(w) \/ Report(w)
  PROVE  Inv'
  <1> DEFINE up == out[w] = "dialing"
             r == [worker |-> w, connected |-> up]
             state == IF up THEN "up" ELSE "reporting"
  <1>1. /\ out' = [out EXCEPT ![w] = state] /\ callerResults' = Append(callerResults, r)
        /\ ~up => out[w] = "sleeping"
        /\ callerWants' = callerWants /\ callerHave' = callerHave
        /\ listenerHave' = listenerHave /\ listenerWants' = listenerWants
        /\ listenerResults' = listenerResults
    BY Zenon DEF Handshake, Report, Established, Failed
  <1>2. TypeInv /\ state \in OutStates /\ r \in Results /\ callerResults \in Seq(Results)
    BY DEF Inv, TypeInv, OutStates, Results
  <1>3. out' \in [Workers -> OutStates] /\ out'[w] = state
    BY <1>1, <1>2, OutMoved, Zenon
  <1>4. callerResults' \in Seq(Results) /\ r \in Range(callerResults')
    BY <1>1, <1>2, AppendRange
  <1>5. TypeInv' /\ HaveWithinWanted'
    BY <1>1, <1>3, <1>4 DEF Inv, TypeInv, HaveWithinWanted
  <1>6. ReportsInOrder'
    BY <1>1, <1>2, ReportAdded, Zenon DEF Inv
  <1>7. NeverAbandoned'
    BY <1>3, <1>4, Zenon DEF NeverAbandoned, CallerHolds, Established
  <1> QED BY <1>5, <1>6, <1>7 DEF Inv

LEMMA DialFailures ==
  ASSUME NEW w \in Workers, Inv, DialFails(w) \/ CallerNotices(w)
  PROVE  Inv'
  <1>1. /\ out' = [out EXCEPT ![w] = "sleeping"] /\ out[w] \in {"dialing", "up"}
        /\ callerResults' = callerResults /\ callerWants' = callerWants
        /\ callerHave' \in {callerHave, Dead} /\ (callerHave' # callerHave => callerHave = w)
        /\ listenerHave' = listenerHave /\ listenerWants' = listenerWants
        /\ listenerResults' = listenerResults
    BY DEF DialFails, CallerNotices
  <1>2. TypeInv /\ "sleeping" \in OutStates
    BY DEF Inv, OutStates
  <1>3. /\ out' \in [Workers -> OutStates] /\ out'[w] = "sleeping"
        /\ \A v \in Workers \ {w} : out'[v] = out[v]
    BY <1>1, <1>2, OutMoved, Zenon
  <1>4. w # Nobody
    BY DEF Workers, Nobody
  <1>5. TypeInv' /\ HaveWithinWanted'
    BY <1>1, <1>3, <1>4 DEF Inv, TypeInv, HaveWithinWanted
  <1>6. \A i \in 1..Len(callerResults) :
          \/ out'[callerResults[i].worker] = out[callerResults[i].worker]
          \/ out[callerResults[i].worker] = "up" /\ out'[callerResults[i].worker] = "sleeping"
    <2> SUFFICES ASSUME NEW i \in 1..Len(callerResults)
                 PROVE  \/ out'[callerResults[i].worker] = out[callerResults[i].worker]
                        \/ /\ out[callerResults[i].worker] = "up"
                           /\ out'[callerResults[i].worker] = "sleeping"
      OBVIOUS
    <2>1. /\ callerResults[i] \in Results
          /\ out[callerResults[i].worker] \in {"up", "sleeping", "reporting"}
      BY Unreported DEF Inv
    <2>2. callerResults[i].worker \in Workers
      BY <2>1 DEF Results
    <2> QED BY <1>1, <1>3, <2>1, <2>2
  <1>7. ReportsInOrder'
    BY <1>1, <1>2, <1>6, TaskMoved DEF Inv
  <1>8. NeverAbandoned'
    BY <1>3 DEF NeverAbandoned
  <1> QED BY <1>5, <1>7, <1>8 DEF Inv

\* A task ends silently only when nobody holds its connection, and then the
\* task that works on the peer is another one.
LEMMA CallerEndsInv ==
  ASSUME NEW w \in Workers, Inv, CallerEnds(w)
  PROVE  Inv'
  <1>1. /\ out' = [out EXCEPT ![w] = "none"] /\ out[w] = "up" /\ ~CallerHolds(w)
        /\ callerResults' = callerResults /\ callerWants' = callerWants
        /\ callerHave' = callerHave
        /\ listenerHave' = listenerHave /\ listenerWants' = listenerWants
        /\ listenerResults' = listenerResults
    BY DEF CallerEnds
  <1>2. TypeInv /\ "none" \in OutStates
    BY DEF Inv, OutStates
  <1>3. /\ out' \in [Workers -> OutStates]
        /\ \A v \in Workers \ {w} : out'[v] = out[v]
    BY <1>1, <1>2, OutMoved, Zenon
  <1>4. TypeInv' /\ HaveWithinWanted'
    BY <1>1, <1>3 DEF Inv, TypeInv, HaveWithinWanted
  <1>5. \A i \in 1..Len(callerResults) : callerResults[i].worker \in Workers \ {w}
    <2> SUFFICES ASSUME NEW i \in 1..Len(callerResults), callerResults[i].worker \notin Workers \ {w}
                 PROVE  FALSE
      OBVIOUS
    <2>1. callerResults[i] \in Results
      BY Unreported DEF Inv
    <2>2. callerResults[i].worker = w
      BY <2>1 DEF Results
    <2>3. callerResults[i].connected
      BY <1>1, <2>2, Unreported DEF Inv
    <2>4. callerResults[i] = Established(w)
      BY <2>1, <2>2, <2>3, Zenon DEF Results, Established
    <2>5. callerResults[i] \in Range(callerResults)
      BY <1>2 DEF Range, TypeInv
    <2> QED BY <1>1, <2>4, <2>5 DEF CallerHolds
  <1>6. ReportsInOrder'
    BY <1>1, <1>2, <1>3, <1>5, TaskMoved DEF Inv
  <1>7. NeverAbandoned'
    <2>1. CallerHolds(w)' = CallerHolds(w) /\ \A v \in Workers : CallerHolds(v)' = CallerHolds(v)
      BY <1>1 DEF CallerHolds
    <2> QED BY <1>1, <1>3, <2>1 DEF Inv, NeverAbandoned
  <1> QED BY <1>4, <1>6, <1>7 DEF Inv

\* A report is read: the connection is kept, or a new task takes over.
LEMMA CallerResultInv ==
  ASSUME Inv, CallerResult
  PROVE  Inv'
  <1> DEFINE r == Head(callerResults)
             w == r.worker
  <1>1. /\ callerResults # << >> /\ callerResults' = Tail(callerResults)
        /\ IF r.connected THEN AddConnection(w) ELSE Respawn(w)
        /\ callerWants' = callerWants
        /\ listenerHave' = listenerHave /\ listenerWants' = listenerWants
        /\ listenerResults' = listenerResults
    BY DEF CallerResult
  <1>2. TypeInv /\ callerResults \in Seq(Results)
    BY DEF Inv, TypeInv
  <1>3. /\ callerResults' \in Seq(Results) /\ r \in Results /\ r = callerResults[1]
        /\ 1 \in 1..Len(callerResults)
    BY <1>1, <1>2, TailRange
  <1>4. w \in Workers /\ r.connected \in BOOLEAN
    BY <1>3 DEF Results
  <1>5. /\ out[w] \in {"up", "sleeping", "reporting"}
        /\ ~r.connected => out[w] = "reporting"
    BY <1>3, Unreported DEF Inv, ReportsInOrder
  <1>6. CASE r.connected
    <2>1. out' = out /\ callerHave' = (IF callerWants THEN Kept(w, out) ELSE callerHave)
      BY <1>1, <1>6 DEF AddConnection
    <2>2. TypeInv' /\ HaveWithinWanted'
      BY <1>1, <1>2, <1>3, <1>4, <2>1 DEF Inv, TypeInv, HaveWithinWanted, Kept
    <2>3. ReportsInOrder'
      BY <1>1, <1>2, <2>1, ReportTaken DEF Inv
    <2>4. NeverAbandoned'
      BY <1>1, <1>4, <1>5, <2>1 DEF NeverAbandoned, CallerHolds, Kept
    <2> QED BY <2>2, <2>3, <2>4 DEF Inv
  <1>7. CASE ~r.connected
    <2>1. callerHave' = callerHave
      BY <1>1, <1>7 DEF Respawn
    <2>2. \A i \in 2..Len(callerResults) : callerResults[i].worker \in Workers \ {w}
      <3> SUFFICES ASSUME NEW i \in 2..Len(callerResults)
                   PROVE  callerResults[i].worker \in Workers \ {w}
        OBVIOUS
      <3>1. i \in 1..Len(callerResults) /\ 1 < i
        OBVIOUS
      <3>2. callerResults[i].worker \in Workers
        BY <3>1, Unreported DEF Inv, Results
      <3>3. callerResults[i].worker # w
        BY <1>3, <1>7, <3>1 DEF Inv, ReportsInOrder
      <3> QED BY <3>2, <3>3
    <2>3. CASE callerWants
      <3>1. PICK v \in (IF Unused(w) THEN {w} ELSE NewIds) :
              out' = [out EXCEPT ![w] = "none", ![v] = "dialing"]
        BY <1>1, <1>7, <2>3 DEF Respawn
      <3>2. v \in Workers /\ (v # w => out[v] = "none")
        BY <1>4 DEF NewIds, Free
      <3>3. /\ out' \in [Workers -> OutStates] /\ out'[v] = "dialing"
            /\ \A u \in Workers \ {v, w} : out'[u] = out[u]
        BY <1>2, <1>4, <3>1, <3>2, SMTT(30) DEF TypeInv, OutStates
      <3>4. TypeInv' /\ HaveWithinWanted'
        BY <1>1, <1>2, <1>3, <2>1, <3>3 DEF Inv, TypeInv, HaveWithinWanted
      <3>5. \A i \in 2..Len(callerResults) :
              out'[callerResults[i].worker] = out[callerResults[i].worker]
        <4> SUFFICES ASSUME NEW i \in 2..Len(callerResults)
                     PROVE  out'[callerResults[i].worker] = out[callerResults[i].worker]
          OBVIOUS
        <4>1. callerResults[i].worker \in Workers \ {w} /\ i \in 1..Len(callerResults)
          BY <2>2
        <4>2. callerResults[i].worker # v
          BY <3>2, <4>1, Unreported DEF Inv
        <4> QED BY <3>3, <4>1, <4>2
      <3>6. ReportsInOrder'
        BY <1>1, <1>2, <3>5, ReportTaken DEF Inv
      <3>7. NeverAbandoned'
        BY <3>2, <3>3 DEF NeverAbandoned
      <3> QED BY <3>4, <3>6, <3>7 DEF Inv
    <2>4. CASE ~callerWants
      <3>1. out' = [out EXCEPT ![w] = "none"]
        BY <1>1, <1>7, <2>4 DEF Respawn
      <3>2. /\ out' \in [Workers -> OutStates]
            /\ \A u \in Workers \ {w} : out'[u] = out[u]
        BY <1>2, <1>4, <3>1 DEF TypeInv, OutStates
      <3>3. TypeInv' /\ HaveWithinWanted'
        BY <1>1, <1>2, <1>3, <2>1, <3>2 DEF Inv, TypeInv, HaveWithinWanted
      <3>4. ReportsInOrder'
        BY <1>1, <1>2, <2>2, <3>2, ReportTaken DEF Inv
      <3>5. NeverAbandoned'
        BY <1>1, <2>4 DEF NeverAbandoned
      <3> QED BY <3>3, <3>4, <3>5 DEF Inv
    <2> QED BY <2>3, <2>4
  <1> QED BY <1>4, <1>6, <1>7

LEMMA IncomingInv ==
  ASSUME NEW w \in Workers, Inv,
         Authorize(w) \/ ListenerEnds(w) \/ ListenerNotices(w) \/ LinkFails(w)
  PROVE  Inv'
  <1>1. w # Nobody
    BY DEF Workers, Nobody
  <1>2. listenerResults' \in Seq(Workers)
    BY DEF Authorize, ListenerEnds, ListenerNotices, LinkFails, Inv, TypeInv
  <1> QED BY <1>1, <1>2, ListenerSteps
          DEF Authorize, ListenerEnds, ListenerNotices, LinkFails, Inv, TypeInv, HaveWithinWanted

LEMMA NextInv == Inv /\ [Next]_vars => Inv'
  <1> SUFFICES ASSUME Inv, [Next]_vars PROVE Inv'
    OBVIOUS
  <1>1. ASSUME NEW w \in Workers, TaskStep(w) \/ DialFails(w) \/ LinkFails(w) PROVE Inv'
    BY <1>1, Reports, DialFailures, CallerEndsInv, IncomingInv DEF TaskStep
  <1>2. CASE UNCHANGED vars
    BY <1>2, ListenerSteps DEF vars, Inv, TypeInv, HaveWithinWanted
  <1> QED BY <1>1, <1>2, CallerCommands, ListenerCommands, CallerResultInv DEF Next

\* Manager::have is always a part of what the node wants, on both sides, for
\* any number of workers, commands and failures (clique/src/manager/mod.rs).
THEOREM ConnectionsAreWanted == Spec => []HaveWithinWanted
  <1>1. Inv => HaveWithinWanted
    BY DEF Inv
  <1> QED BY <1>1, InitInv, NextInv, PTL DEF Spec

\* A peer the node wants and should call always has a task that works on it,
\* so no order of stale reports, failed links, removals and additions makes
\* the service forget to dial (clique/src/service.rs, outgoing.rs).
THEOREM PeersAreNotAbandoned == Spec => []NeverAbandoned
  <1>1. Inv => NeverAbandoned
    BY DEF Inv
  <1> QED BY <1>1, InitInv, NextInv, PTL DEF Spec
=============================================================================
