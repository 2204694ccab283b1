------------------------------ MODULE HubRouter ------------------------------
(* How a hub's Router (pandamux-server/src/router.rs) sends calls about      *)
(* threads and terminals to the node they live on: resolve_target_environment*)
(* and the forwarding part of handle_request, over the transports of         *)
(* EnvironmentRouter (environment_router.rs).  Threads are rows of a store,  *)
(* on the hub and on the node; remote_terminals and a node's terminals are   *)
(* memory.  Several calls run at once: each is resolved, then answered.      *)
(*                                                                           *)
(* Left out: calls that resolve to the hub itself (the other modules), what  *)
(* a call says, event relays (ClientView), the copies of attachments before  *)
(* a remote turn (AttachmentUpload).                                         *)
EXTENDS Naturals, FiniteSets, Functions

CONSTANTS
  HbEnvs,      \* remote environments
  HbThreads,   \* thread ids, made by the node that creates the thread
  HbTerms,     \* terminal ids, made by the client or the node, new each time
  HbCallers,   \* connections: one call each at a time
  HbMaxFaults  \* bound: links lost, restarts, rows not written

ASSUME HbAssumption == HbMaxFaults \in Nat

VARIABLES
  hbLinks,   \* environments with a registered transport
  hbRoute,   \* id -> environment: the hub's threads and remote_terminals
  hbHolds,   \* per node: the ids that live there
  hbMade,    \* ids some node has made: they are never made again
  hbTold,    \* ids whose creation a client was told of since the hub started
  hbUnsaved, \* threads whose row the hub's store failed to write
  hbAstray,  \* ids a client asked to close at an environment they are not on
  hbCall,    \* per caller: the call and how far it is
  hbFaults

hbVars == <<hbLinks, hbRoute, hbHolds, hbMade, hbTold, hbUnsaved, hbAstray, hbCall, hbFaults>>

HbIds == HbThreads \cup HbTerms
HbIdle == [op |-> "none", id |-> CHOOSE x \in HbIds : TRUE, env |-> CHOOSE e \in HbEnvs : TRUE, at |-> "idle"]

HbInit ==
  /\ hbLinks = HbEnvs
  /\ hbRoute = << >>
  /\ hbHolds = [e \in HbEnvs |-> {}]
  /\ hbMade = {} /\ hbTold = {} /\ hbUnsaved = {} /\ hbAstray = {}
  /\ hbCall = [c \in HbCallers |-> HbIdle]
  /\ hbFaults = 0

-----------------------------------------------------------------------------
(* resolve_target_environment: the environment a call names, else that of    *)
(* the thread or terminal it is about; a call that names none about an id    *)
(* without a route is answered by the hub itself ("not found").              *)
HbResolved(named, id, e) == named \/ (id \in DOMAIN hbRoute /\ hbRoute[id] = e)

HbBegin(c) ==
  /\ hbCall[c].at = "idle"
  /\ \E op \in {"create", "use", "close"}, id \in HbIds, e \in HbEnvs, named \in BOOLEAN :
       /\ HbResolved(named, id, e)
       /\ op = "create" => /\ named /\ id \notin hbMade
                           /\ \A d \in HbCallers : hbCall[d].op = "create" /\ hbCall[d].at = "sent" => hbCall[d].id # id
       /\ op = "close" => id \in HbTerms
       /\ hbAstray' = IF op = "close" /\ named /\ id \notin hbHolds[e] THEN hbAstray \cup {id} ELSE hbAstray
       /\ hbCall' = [hbCall EXCEPT ![c] = [op |-> op, id |-> id, env |-> e, at |-> "sent"]]
  /\ UNCHANGED <<hbLinks, hbRoute, hbHolds, hbMade, hbTold, hbUnsaved, hbFaults>>

(* forward_request with a live transport: the node answers, with an error    *)
(* when it does not hold the id.                                             *)
HbNodeAnswers(c) ==
  LET call == hbCall[c]
      known == call.id \in hbHolds[call.env]
  IN /\ call.at = "sent" /\ call.env \in hbLinks
     /\ hbHolds' = [hbHolds EXCEPT ![call.env] =
          CASE call.op = "create" -> @ \cup {call.id}
            [] call.op = "close"  -> @ \ {call.id}
            [] call.op = "use"    -> @]
     /\ hbMade' = IF call.op = "create" THEN hbMade \cup {call.id} ELSE hbMade
     /\ hbCall' = [hbCall EXCEPT ![c].at = IF call.op = "create" \/ known THEN "ok" ELSE "error"]
     /\ UNCHANGED <<hbLinks, hbRoute, hbTold, hbUnsaved, hbAstray, hbFaults>>

(* Without a transport the call fails at once; one that was on its way may   *)
(* have been done when its answer is lost.                                   *)
HbForwardFails(c) ==
  /\ hbCall[c].at \in {"sent", "ok", "error"} /\ hbCall[c].env \notin hbLinks
  /\ hbCall' = [hbCall EXCEPT ![c].at = "failed"]
  /\ UNCHANGED <<hbLinks, hbRoute, hbHolds, hbMade, hbTold, hbUnsaved, hbAstray, hbFaults>>

HbWithRoute(call) ==
  [id \in DOMAIN hbRoute \cup {call.id} |-> IF id = call.id THEN call.env ELSE hbRoute[id]]

\* Mutant of HbRouteAfter: a close forgets the terminal before it is known
\* that the node was reached.
HbRouteAfterEarly(call) ==
  CASE call.op = "create" /\ call.at = "ok" -> HbWithRoute(call)
    [] call.op = "close" -> Restrict(hbRoute, DOMAIN hbRoute \ {call.id})
    [] OTHER -> hbRoute

(* After an answer of the node (also an error): a thread it made is saved, a *)
(* terminal it opened is remembered, one that was closed is forgotten.       *)
HbRouteAfter(call) ==
  CASE call.op = "create" /\ call.at = "ok" -> HbWithRoute(call)
    [] call.op = "close" /\ call.at # "failed" -> Restrict(hbRoute, DOMAIN hbRoute \ {call.id})
    [] OTHER -> hbRoute

HbReturn(c) ==
  /\ hbCall[c].at \in {"ok", "error", "failed"}
  /\ hbRoute' = HbRouteAfter(hbCall[c])
  /\ hbTold' = IF hbCall[c].op = "create" /\ hbCall[c].at = "ok" THEN hbTold \cup {hbCall[c].id} ELSE hbTold
  /\ hbCall' = [hbCall EXCEPT ![c] = HbIdle]
  /\ UNCHANGED <<hbLinks, hbHolds, hbMade, hbUnsaved, hbAstray, hbFaults>>

(* save_thread fails: the error is dropped, and the client is told all the   *)
(* same.                                                                     *)
HbReturnUnsaved(c) ==
  /\ hbCall[c].op = "create" /\ hbCall[c].at = "ok" /\ hbCall[c].id \in HbThreads
  /\ hbFaults < HbMaxFaults /\ hbFaults' = hbFaults + 1
  /\ hbTold' = hbTold \cup {hbCall[c].id}
  /\ hbUnsaved' = hbUnsaved \cup {hbCall[c].id}
  /\ hbCall' = [hbCall EXCEPT ![c] = HbIdle]
  /\ UNCHANGED <<hbLinks, hbRoute, hbHolds, hbMade, hbAstray>>

-----------------------------------------------------------------------------
(* unregister_transport and register_transport.                              *)
HbUnlink(e) ==
  /\ e \in hbLinks /\ hbFaults < HbMaxFaults
  /\ hbLinks' = hbLinks \ {e} /\ hbFaults' = hbFaults + 1
  /\ UNCHANGED <<hbRoute, hbHolds, hbMade, hbTold, hbUnsaved, hbAstray, hbCall>>

HbLink(e) ==
  /\ e \notin hbLinks
  /\ hbLinks' = hbLinks \cup {e}
  /\ UNCHANGED <<hbRoute, hbHolds, hbMade, hbTold, hbUnsaved, hbAstray, hbCall, hbFaults>>

(* A node's terminals end with it; the hub is not told.                      *)
HbNodeRestarts(e) ==
  /\ hbFaults < HbMaxFaults /\ hbFaults' = hbFaults + 1
  /\ hbHolds' = [hbHolds EXCEPT ![e] = @ \cap HbThreads]
  /\ UNCHANGED <<hbLinks, hbRoute, hbMade, hbTold, hbUnsaved, hbAstray, hbCall>>

(* The hub's store keeps the threads; remote_terminals is gone, and with it  *)
(* every call.                                                               *)
HbHubRestarts ==
  /\ hbFaults < HbMaxFaults /\ hbFaults' = hbFaults + 1
  /\ hbRoute' = Restrict(hbRoute, DOMAIN hbRoute \cap HbThreads)
  /\ hbTold' = hbTold \cap HbThreads
  /\ hbCall' = [c \in HbCallers |-> HbIdle]
  /\ UNCHANGED <<hbLinks, hbHolds, hbMade, hbUnsaved, hbAstray>>

HbNext ==
  \/ HbHubRestarts
  \/ \E c \in HbCallers : HbBegin(c) \/ HbNodeAnswers(c) \/ HbForwardFails(c) \/ HbReturn(c) \/ HbReturnUnsaved(c)
  \/ \E e \in HbEnvs : HbUnlink(e) \/ HbLink(e) \/ HbNodeRestarts(e)

HbSpec == HbInit /\ [][HbNext]_hbVars

-----------------------------------------------------------------------------
(* The hub never sends a call that names no environment to a node that does  *)
(* not have what another node has.  And what a client was told it has, and   *)
(* that is still there, the hub can reach, whatever closes, losses and       *)
(* restarts of nodes came in between, unless the row of the thread could not *)
(* be written, which nobody is told, or a client asked to close the terminal *)
(* at an environment it is not on: the node answers with an error, and the   *)
(* hub forgets the route all the same.  (After a restart of the hub this is  *)
(* true of threads only: open remote terminals are lost to it.)              *)
HbToldIsReachable ==
  \A e \in HbEnvs : \A id \in hbHolds[e] :
    /\ id \in DOMAIN hbRoute => hbRoute[id] = e
    /\ id \in hbTold \ (hbUnsaved \cup hbAstray) => id \in DOMAIN hbRoute
=============================================================================
