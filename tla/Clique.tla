------------------------------- MODULE Clique -------------------------------
(***************************************************************************)
(* The clique network (src/clique) between two nodes. The managers keep    *)
(* their peers apart, so a pair shows everything: the node that should     *)
(* call by manager/direction.rs, and the one that listens. A worker is an  *)
(* outgoing task of the caller together with the connection it dials and   *)
(* the incoming task that connection has at the listener; its id is used   *)
(* again once nothing refers to it. Both services are told to add and to   *)
(* remove the other node, and links fail.                                  *)
(***************************************************************************)
EXTENDS Naturals, Sequences, Functions

CONSTANTS MaxWorkers,    \* bound on the workers at a time
          MaxCommands,   \* bound on the commands each service gets
          MaxFailures    \* bound on dials and links that fail

ASSUME CliqueAssumption == MaxWorkers \in Nat

VARIABLES callerWants,     \* the listener is in the caller's `outgoing`
          listenerWants,   \* the caller is in the listener's `incoming`
          out,             \* the outgoing task of a worker
          in,              \* the incoming task of its connection
          broken,          \* connections that were closed or died
          callerHave,      \* the worker whose sender is in the caller's `have`
          listenerHave,    \* the same at the listener
          callerResults,   \* worker_results of the caller's service
          listenerResults, \* worker_results of the listener's service
          commands, failures

vars == <<callerWants, listenerWants, out, in, broken, callerHave,
          listenerHave, callerResults, listenerResults, commands, failures>>

Workers == 1..MaxWorkers
Nobody == 0                \* no entry in `have`
Dead == MaxWorkers + 1     \* an entry whose task has ended

OutStates == {"none", "dialing", "up", "sleeping", "reporting"}
InStates == {"none", "authorizing", "up"}

Established(w) == [worker |-> w, connected |-> TRUE]
Failed(w) == [worker |-> w, connected |-> FALSE]

\* Nothing of an earlier connection of w is left; the smallest free id.
Unused(w) ==
  /\ in[w] = "none"
  /\ w \notin {callerHave, listenerHave}
  /\ w \notin Range(listenerResults)
Free == {w \in Workers : out[w] = "none" /\ Unused(w)}
NewIds == {w \in Free : \A v \in Free : w <= v}

Init ==
  /\ callerWants = FALSE
  /\ listenerWants = FALSE
  /\ out = [w \in Workers |-> "none"]
  /\ in = [w \in Workers |-> "none"]
  /\ broken = {}
  /\ callerHave = Nobody
  /\ listenerHave = Nobody
  /\ callerResults = << >>
  /\ listenerResults = << >>
  /\ commands = [caller |-> 0, listener |-> 0]
  /\ failures = 0

-----------------------------------------------------------------------------
\* Commands of the interface

Command(node) ==
  /\ commands[node] < MaxCommands
  /\ commands' = [commands EXCEPT ![node] = @ + 1]

\* Only a peer that was not wanted yet gets a worker.
CallerAdds ==
  /\ Command("caller")
  /\ callerWants' = TRUE
  /\ IF callerWants THEN out' = out
     ELSE \E w \in NewIds : out' = [out EXCEPT ![w] = "dialing"]
  /\ UNCHANGED <<listenerWants, in, broken, callerHave, listenerHave,
                 callerResults, listenerResults, failures>>

CallerRemoves ==
  /\ Command("caller")
  /\ callerWants' = FALSE
  /\ callerHave' = Nobody
  /\ UNCHANGED <<listenerWants, out, in, broken, listenerHave, callerResults,
                 listenerResults, failures>>

ListenerAdds ==
  /\ Command("listener")
  /\ listenerWants' = TRUE
  /\ UNCHANGED <<callerWants, out, in, broken, callerHave, listenerHave,
                 callerResults, listenerResults, failures>>

ListenerRemoves ==
  /\ Command("listener")
  /\ listenerWants' = FALSE
  /\ listenerHave' = Nobody
  /\ UNCHANGED <<callerWants, out, in, broken, callerHave, callerResults,
                 listenerResults, failures>>

-----------------------------------------------------------------------------
\* The outgoing task

\* Dialing, negotiation and handshake succeed; the caller's task reports the
\* connection at once, before the listener authorizes it.
Handshake(w) ==
  /\ out[w] = "dialing"
  /\ out' = [out EXCEPT ![w] = "up"]
  /\ in' = [in EXCEPT ![w] = "authorizing"]
  /\ broken' = broken \ {w}
  /\ callerResults' = Append(callerResults, Established(w))
  /\ UNCHANGED <<callerWants, listenerWants, callerHave, listenerHave,
                 listenerResults, commands, failures>>

DialFails(w) ==
  /\ out[w] = "dialing"
  /\ failures < MaxFailures
  /\ failures' = failures + 1
  /\ out' = [out EXCEPT ![w] = "sleeping"]
  /\ UNCHANGED <<callerWants, listenerWants, in, broken, callerHave,
                 listenerHave, callerResults, listenerResults, commands>>

\* The sender was dropped: the task ends without a report.
CallerHolds(w) == callerHave = w \/ Established(w) \in Range(callerResults)
CallerEnds(w) ==
  /\ out[w] = "up"
  /\ ~CallerHolds(w)
  /\ out' = [out EXCEPT ![w] = "none"]
  /\ broken' = broken \cup {w}
  /\ UNCHANGED <<callerWants, listenerWants, in, callerHave, listenerHave,
                 callerResults, listenerResults, commands, failures>>

\* The task sees an error of the connection, or misses the heartbeats.
CallerNotices(w) ==
  /\ out[w] = "up"
  /\ w \in broken
  /\ out' = [out EXCEPT ![w] = "sleeping"]
  /\ callerHave' = IF callerHave = w THEN Dead ELSE callerHave
  /\ UNCHANGED <<callerWants, listenerWants, in, broken, listenerHave,
                 callerResults, listenerResults, commands, failures>>

Report(w) ==
  /\ out[w] = "sleeping"
  /\ out' = [out EXCEPT ![w] = "reporting"]
  /\ callerResults' = Append(callerResults, Failed(w))
  /\ UNCHANGED <<callerWants, listenerWants, in, broken, callerHave,
                 listenerHave, listenerResults, commands, failures>>

-----------------------------------------------------------------------------
\* The incoming task

Authorize(w) ==
  /\ in[w] = "authorizing"
  /\ in' = [in EXCEPT ![w] = IF listenerWants THEN "up" ELSE "none"]
  /\ broken' = IF listenerWants THEN broken ELSE broken \cup {w}
  /\ listenerResults' = IF listenerWants THEN Append(listenerResults, w)
                        ELSE listenerResults
  /\ UNCHANGED <<callerWants, listenerWants, out, callerHave, listenerHave,
                 callerResults, commands, failures>>

ListenerEnds(w) ==
  /\ in[w] = "up"
  /\ listenerHave # w
  /\ w \notin Range(listenerResults)
  /\ in' = [in EXCEPT ![w] = "none"]
  /\ broken' = broken \cup {w}
  /\ UNCHANGED <<callerWants, listenerWants, out, callerHave, listenerHave,
                 callerResults, listenerResults, commands, failures>>

ListenerNotices(w) ==
  /\ in[w] = "up"
  /\ w \in broken
  /\ in' = [in EXCEPT ![w] = "none"]
  /\ listenerHave' = IF listenerHave = w THEN Dead ELSE listenerHave
  /\ UNCHANGED <<callerWants, listenerWants, out, broken, callerHave,
                 callerResults, listenerResults, commands, failures>>

LinkFails(w) ==
  /\ out[w] = "up"
  /\ w \notin broken
  /\ failures < MaxFailures
  /\ failures' = failures + 1
  /\ broken' = broken \cup {w}
  /\ UNCHANGED <<callerWants, listenerWants, out, in, callerHave,
                 listenerHave, callerResults, listenerResults, commands>>

-----------------------------------------------------------------------------
\* The results that the tasks send to their services

\* A sender is kept only for a peer that is wanted; one whose task has ended
\* in the meantime is kept like any other.
Kept(w, task) == IF task[w] = "up" THEN w ELSE Dead

\* Mutant: any connection is kept.
AddAnyConnection(w) ==
  /\ callerHave' = Kept(w, out)
  /\ out' = out

AddConnection(w) ==
  /\ callerHave' = IF callerWants THEN Kept(w, out) ELSE callerHave
  /\ out' = out

\* Mutant: a failed worker is not replaced.
RespawnNever(w) ==
  /\ out' = [out EXCEPT ![w] = "none"]
  /\ callerHave' = callerHave

\* A worker that failed is replaced while its peer is wanted.
Respawn(w) ==
  /\ IF callerWants
     THEN \E v \in IF Unused(w) THEN {w} ELSE NewIds :
            out' = [out EXCEPT ![w] = "none", ![v] = "dialing"]
     ELSE out' = [out EXCEPT ![w] = "none"]
  /\ callerHave' = callerHave

CallerResult ==
  /\ callerResults # << >>
  /\ callerResults' = Tail(callerResults)
  /\ LET r == Head(callerResults)
     IN  IF r.connected THEN AddConnection(r.worker) ELSE Respawn(r.worker)
  /\ UNCHANGED <<callerWants, listenerWants, in, broken, listenerHave,
                 listenerResults, commands, failures>>

\* Mutant: a new connection does not replace an old one.
ListenerKeepsOld ==
  /\ listenerResults # << >>
  /\ listenerResults' = Tail(listenerResults)
  /\ listenerHave' = IF listenerWants /\ listenerHave = Nobody
                     THEN Kept(Head(listenerResults), in) ELSE listenerHave
  /\ UNCHANGED <<callerWants, listenerWants, out, in, broken, callerHave,
                 callerResults, commands, failures>>

ListenerResult ==
  /\ listenerResults # << >>
  /\ listenerResults' = Tail(listenerResults)
  /\ listenerHave' = IF listenerWants THEN Kept(Head(listenerResults), in)
                     ELSE listenerHave
  /\ UNCHANGED <<callerWants, listenerWants, out, in, broken, callerHave,
                 callerResults, commands, failures>>

TaskStep(w) ==
  \/ Handshake(w) \/ CallerEnds(w) \/ CallerNotices(w) \/ Report(w)
  \/ Authorize(w) \/ ListenerEnds(w) \/ ListenerNotices(w)

Next ==
  \/ CallerAdds \/ CallerRemoves \/ ListenerAdds \/ ListenerRemoves
  \/ CallerResult \/ ListenerResult
  \/ \E w \in Workers : TaskStep(w) \/ DialFails(w) \/ LinkFails(w)

\* Every task and both services are scheduled; a timeout or a retry delay
\* passes. Nothing has to fail and no command has to come.
Fairness ==
  /\ WF_vars(CallerResult) /\ WF_vars(ListenerResult)
  /\ \A w \in Workers : WF_vars(TaskStep(w))

Spec == Init /\ [][Next]_vars /\ Fairness

-----------------------------------------------------------------------------
\* "We ensure that this is always a subset of what we want" (Manager::have):
\* a node has a connection only with a peer that it wants, whatever tasks
\* report about connections made before the peer was removed.
HaveWithinWanted ==
  /\ callerHave # Nobody => callerWants
  /\ listenerHave # Nobody => listenerWants

\* While the caller wants the listener, some task works on it: one that
\* dials, one that will report a failure, or one whose connection is in
\* `have` or on its way there. The service keeps no timer of its own, so a
\* peer without such a task would never be dialed again.
NeverAbandoned ==
  callerWants =>
    \E w \in Workers :
      \/ out[w] \in {"dialing", "sleeping", "reporting"}
      \/ out[w] = "up" /\ CallerHolds(w)

\* When both nodes want each other from some point on, they are again and
\* again connected by a connection that both sides send on, however many
\* commands, failed links and stale reports came before.
Connected ==
  \E w \in Workers :
    /\ callerHave = w /\ listenerHave = w
    /\ out[w] = "up" /\ in[w] = "up" /\ w \notin broken
EventuallyConnected ==
  <>[](callerWants /\ listenerWants) => []<>Connected
=============================================================================
