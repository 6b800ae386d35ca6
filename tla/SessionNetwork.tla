--------------------------- MODULE SessionNetwork ---------------------------
(***************************************************************************)
(* The validator network split into sessions: network/session/manager.rs   *)
(* with the handlers of its sessions and its bookkeeping of connections.   *)
(* The state is one record, and every operation of the manager maps a      *)
(* state to a state:                                                       *)
(*   role        whether a session is open, and as what;                   *)
(*   user        whether somebody holds the receiving end of the channel   *)
(*               the session's data is forwarded to;                       *)
(*   auths       the peers whose authentication the session's handler      *)
(*               accepted;                                                 *)
(*   associated  for a peer, the sessions that need a connection to it;    *)
(*   bySession   for a session, the peers it needs;                        *)
(*   reserved    the peers the clique network was told to connect to.      *)
(* A peer has one address, and an authentication that fails verification   *)
(* changes nothing, so an authentication is the peer that signed it.       *)
(***************************************************************************)
CONSTANTS Sessions, Peers

Roles == {"closed", "validator", "nonvalidator"}

NetworkType ==
  [role: [Sessions -> Roles], user: [Sessions -> BOOLEAN],
   auths: [Sessions -> SUBSET Peers],
   associated: [Peers -> SUBSET Sessions],
   bySession: [Sessions -> SUBSET Peers], reserved: SUBSET Peers]

NewManager ==
  [role |-> [s \in Sessions |-> "closed"],
   user |-> [s \in Sessions |-> FALSE],
   auths |-> [s \in Sessions |-> {}],
   associated |-> [p \in Peers |-> {}],
   bySession |-> [s \in Sessions |-> {}],
   reserved |-> {}]

\* Connections::add_peers
AddPeers(net, s, peers) ==
  [net EXCEPT
     !.associated = [p \in Peers |-> IF p \in peers THEN @[p] \cup {s} ELSE @[p]],
     !.bySession[s] = @ \cup peers]

\* Connections::remove_session, and the peers that it returns
RemoveSession(net, s) ==
  [net EXCEPT
     !.associated =
        [p \in Peers |-> IF p \in net.bySession[s] THEN @[p] \ {s} ELSE @[p]],
     !.bySession[s] = {}]

\* Mutant: peers that other sessions need go too.
UnneededAll(net, s) == net.bySession[s]

Unneeded(net, s) == {p \in net.bySession[s] : net.associated[p] \ {s} = {}}

FinishSession(net, s) ==
  [RemoveSession(net, s) EXCEPT !.role[s] = "closed",
                                !.user[s] = FALSE,
                                !.auths[s] = {},
                                !.reserved = @ \ Unneeded(net, s)]

\* Mutant: an open session keeps its old channel.
UpdateKeepsChannel(net, s, reply) ==
  IF net.role[s] = "closed"
  THEN [net EXCEPT !.role[s] = "validator", !.user[s] = reply] ELSE net

\* `reply`: the caller keeps the receiving end of the data channel. The role
\* of a session that is already open as the other kind cannot change.
UpdateValidatorSession(net, s, reply) ==
  CASE net.role[s] = "closed" ->
         [net EXCEPT !.role[s] = "validator", !.user[s] = reply]
    [] net.role[s] = "nonvalidator" -> net
    [] OTHER ->
         AddPeers([RemoveSession(net, s) EXCEPT
                     !.user[s] = reply,
                     !.reserved = @ \ (Unneeded(net, s) \ net.auths[s])],
                  s, net.auths[s])

UpdateNonvalidatorSession(net, s) ==
  IF net.role[s] = "closed" THEN [net EXCEPT !.role[s] = "nonvalidator"] ELSE net

\* A message about a session that is not open is ignored.
OnDiscoveryMessage(net, s, p) ==
  LET heard == [net EXCEPT !.auths[s] = @ \cup {p}]
  IN  IF net.role[s] = "validator"
      THEN [AddPeers(heard, s, {p}) EXCEPT !.reserved = @ \cup {p}]
      ELSE heard
=============================================================================
