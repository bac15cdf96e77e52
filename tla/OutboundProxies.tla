--------------------------- MODULE OutboundProxies ---------------------------
(***************************************************************************)
(* The pool of outbound proxies: what administrators store (control plane, *)
(* app/core_handlers/billing_runtime.rs, store/postgres/.../               *)
(* outbound_proxies.rs), the copy the data plane routes by                 *)
(* (data-plane/outbound_proxy_runtime.rs) and the control plane's own use  *)
(* of it for the model catalogue (control-plane/outbound_proxy_runtime.rs).*)
(*                                                                         *)
(* The data plane keeps settings, nodes and failures behind three locks,   *)
(* so a new configuration arrives in three steps and a selection reads in  *)
(* two.                                                                    *)
(***************************************************************************)
EXTENDS Integers, Sequences, SequencesExt, FiniteSets

CONSTANTS ProxyIds, Weights, Selectors, MaxPoolEdits

ASSUME OutboundAssumption ==
  /\ MaxPoolEdits \in Nat
  /\ Weights \subseteq Nat \ {0}

VARIABLES
  team,           \* Postgres edition: edits read before their transaction
  stored,         \* [settings, nodes, revision]
  edit,           \* an edit between its read and its write
  runtime,        \* data plane: [settings, nodes, down, revision]
  replacing,      \* a configuration being put in place, and its next step
  selection,      \* selector -> where its request stands
  sync            \* the control plane's catalogue request

proxyVars == <<team, stored, edit, runtime, replacing, selection, sync>>

FailModes == {"strict_proxy", "allow_direct_fallback"}
PoolSettings == [enabled : BOOLEAN, mode : FailModes]
NoEdit == [id |-> "none"]
NotReplacing == [step |-> "none"]
NoSelection == [pc |-> "idle", settings |-> "none", route |-> "none", allowed |-> FALSE]
Direct == "direct"
ProxyRefused == "refused"

NodeIds(nodes) == {nodes[n].id : n \in DOMAIN nodes}
DirectAllowed(s) == ~s.enabled \/ s.mode = "allow_direct_fallback"

-----------------------------------------------------------------------------
\* The store.  Every edit bumps the revision the data plane polls.

Save(nodes, settings) ==
  /\ stored.revision < MaxPoolEdits
  /\ stored' = [settings |-> settings, nodes |-> nodes, revision |-> stored.revision + 1]

UpdatePoolSettings(s) ==
  /\ Save(stored.nodes, s)
  /\ UNCHANGED <<team, edit, runtime, replacing, selection, sync>>

ListNodes == stored.nodes

CreateNode(id, weight) ==
  /\ id \notin NodeIds(ListNodes)
  /\ Save(Append(stored.nodes, [id |-> id, enabled |-> TRUE, weight |-> weight]), stored.settings)
  /\ UNCHANGED <<team, edit, runtime, replacing, selection, sync>>

DeleteNode(id) ==
  /\ id \in NodeIds(ListNodes)
  /\ Save(SelectSeq(stored.nodes, LAMBDA n : n.id # id), stored.settings)
  /\ UNCHANGED <<team, edit, runtime, replacing, selection, sync>>

\* An edit names the fields it changes; the others keep the value read first.
ReadNodeForUpdate(id) ==
  /\ team /\ edit = NoEdit /\ stored.revision < MaxPoolEdits
  /\ \E n \in DOMAIN stored.nodes : stored.nodes[n].id = id /\ edit' = stored.nodes[n]
  /\ UNCHANGED <<team, stored, runtime, replacing, selection, sync>>

Replaced(nodes, new) == [n \in DOMAIN nodes |-> IF nodes[n].id = new.id THEN new ELSE nodes[n]]

UpdateNode(old, field, value) ==
  LET new == IF field = "enabled" THEN [old EXCEPT !.enabled = value]
             ELSE [old EXCEPT !.weight = value]
  IN  Save(Replaced(stored.nodes, new), stored.settings)

\* The row may be gone by now: the transaction fails.
WriteNodeUpdate ==
  /\ edit # NoEdit
  /\ edit' = NoEdit
  /\ IF edit.id \in NodeIds(stored.nodes)
     THEN \/ \E e \in BOOLEAN : UpdateNode(edit, "enabled", e)
          \/ \E w \in Weights : UpdateNode(edit, "weight", w)
     ELSE UNCHANGED stored
  /\ UNCHANGED <<team, runtime, replacing, selection, sync>>

UpdateNodeInMemory(id) ==
  /\ ~team
  /\ \E n \in DOMAIN stored.nodes :
       /\ stored.nodes[n].id = id
       /\ \/ \E e \in BOOLEAN : UpdateNode(stored.nodes[n], "enabled", e)
          \/ \E w \in Weights : UpdateNode(stored.nodes[n], "weight", w)
  /\ UNCHANGED <<team, edit, runtime, replacing, selection, sync>>

\* A connectivity test records its result on the row, which is an edit too.
RecordTestResult(id) ==
  /\ id \in NodeIds(ListNodes)
  /\ Save(stored.nodes, stored.settings)
  /\ UNCHANGED <<team, edit, runtime, replacing, selection, sync>>

-----------------------------------------------------------------------------
\* The data plane takes over a configuration: settings, nodes, then the
\* failures of nodes that are gone.

PollPool ==
  /\ replacing = NotReplacing /\ runtime.revision # stored.revision
  /\ replacing' = [step |-> "settings", settings |-> stored.settings, nodes |-> stored.nodes,
                   revision |-> stored.revision]
  /\ UNCHANGED <<team, stored, edit, runtime, selection, sync>>

ReplaceConfig ==
  /\ replacing # NotReplacing
  /\ IF replacing.step = "settings"
     THEN /\ runtime' = [runtime EXCEPT !.settings = replacing.settings]
          /\ replacing' = [replacing EXCEPT !.step = "nodes"]
          /\ selection' = [d \in Selectors |->
               IF selection[d].pc = "settings"
               THEN [selection[d] EXCEPT !.allowed = @ \/ DirectAllowed(replacing.settings)]
               ELSE selection[d]]
     ELSE IF replacing.step = "nodes"
     THEN /\ runtime' = [runtime EXCEPT !.nodes = replacing.nodes]
          /\ replacing' = [replacing EXCEPT !.step = "down"]
          /\ UNCHANGED selection
     ELSE /\ runtime' = [runtime EXCEPT !.down = @ \cap NodeIds(replacing.nodes),
                                        !.revision = replacing.revision]
          /\ replacing' = NotReplacing
          /\ UNCHANGED selection
  /\ UNCHANGED <<team, stored, edit, sync>>

-----------------------------------------------------------------------------
\* Choosing a proxy.

AvailableNodes(nodes, down) ==
  SelectSeq(nodes, LAMBDA n : n.enabled /\ n.weight > 0 /\ n.id \notin down)

TotalWeight(nodes) == FoldLeft(LAMBDA sum, n : sum + n.weight, 0, nodes)
WeightBefore(nodes, k) == TotalWeight(SubSeq(nodes, 1, k))

PickWeightedInclusive(nodes, sequence) ==
  LET slot == sequence % TotalWeight(nodes)
  IN  nodes[CHOOSE k \in DOMAIN nodes :
              /\ slot <= WeightBefore(nodes, k)
              /\ \A j \in DOMAIN nodes : slot <= WeightBefore(nodes, j) => k <= j].id

PickWeighted(nodes, sequence) ==
  LET slot == sequence % TotalWeight(nodes)
  IN  nodes[CHOOSE k \in DOMAIN nodes :
              /\ slot < WeightBefore(nodes, k)
              /\ \A j \in DOMAIN nodes : slot < WeightBefore(nodes, j) => k <= j].id

\* The counter is shared by all requests, so a selection may meet any value.
Sequences(nodes) == 0 .. (TotalWeight(nodes) - 1)

BeginSelect(d) ==
  /\ selection[d].pc = "idle"
  /\ selection' = [selection EXCEPT
       ![d] = [pc |-> "settings", settings |-> runtime.settings, route |-> "none",
               allowed |-> DirectAllowed(runtime.settings)]]
  /\ UNCHANGED <<team, stored, edit, runtime, replacing, sync>>

SelectRoute(d) ==
  /\ selection[d].pc = "settings"
  /\ LET s == selection[d].settings
         nodes == AvailableNodes(runtime.nodes, runtime.down)
         routed(r) == selection' = [selection EXCEPT ![d].pc = "routed", ![d].route = r]
     IN  IF ~s.enabled THEN routed(Direct)
         ELSE IF nodes # <<>> THEN \E n \in Sequences(nodes) : routed(PickWeighted(nodes, n))
         ELSE routed(IF s.mode = "allow_direct_fallback" THEN Direct ELSE ProxyRefused)
  /\ UNCHANGED <<team, stored, edit, runtime, replacing, sync>>

-----------------------------------------------------------------------------
\* What a proxy answers to a tunnel request.  Every refusal is an I/O error.

SendHttpConnect(reply) == IF reply = "200" THEN "ok" ELSE "io"

SendSocks5Connect(p) ==
  IF p.greeting # "v5" THEN "io"
  ELSE IF p.method \notin {"none", "password"} THEN "io"
  ELSE IF p.method = "password" /\ ~p.accepted THEN "io"
  ELSE IF p.connect # "granted" \/ p.address \notin {"ipv4", "name", "ipv6"} THEN "io"
  ELSE "ok"

SocksReplies == [greeting : {"v5", "other"}, method : {"none", "password", "rejected", "other"},
                 accepted : BOOLEAN, connect : {"granted", "denied", "not_v5"},
                 address : {"ipv4", "name", "ipv6", "other"}]

\* Then the websocket handshake itself, over the tunnel or direct.
ConnectOutcome(tunnel) == IF tunnel = "ok" THEN {"ok", "io", "http_407", "http_error", "tls"} ELSE {tunnel}
ConnectWebsocket(route) ==
  UNION {ConnectOutcome(t) :
           t \in IF route = Direct THEN {"ok"}
                 ELSE {SendHttpConnect(r) : r \in {"200", "other", "eof", "too_long"}}
                      \cup {SendSocks5Connect(p) : p \in SocksReplies}}

HttpOutcomes == {"transport_error", "http_407", "answered"}

MarkProxy(down, id, outcome) ==
  IF id \in {Direct, ProxyRefused} \/ outcome \in {"http_error", "tls"} THEN down
  ELSE IF outcome \in {"io", "transport_error", "http_407"} THEN down \cup {id}
  ELSE down \ {id}

\* The request is over; the mark may come after the node was removed.
FinishRequest(d) ==
  /\ selection[d].pc = "routed"
  /\ \E o \in ConnectWebsocket(selection[d].route) \cup HttpOutcomes :
       runtime' = [runtime EXCEPT !.down = MarkProxy(@, selection[d].route, o)]
  /\ selection' = [selection EXCEPT ![d] = NoSelection]
  /\ UNCHANGED <<team, stored, edit, replacing, sync>>

\* Half a minute after a failure.
ProxyRecovers ==
  /\ \/ \E p \in runtime.down : runtime' = [runtime EXCEPT !.down = @ \ {p}] /\ UNCHANGED sync
     \/ \E p \in sync.down : sync' = [sync EXCEPT !.down = @ \ {p}] /\ UNCHANGED runtime
  /\ UNCHANGED <<team, stored, edit, replacing, selection>>

-----------------------------------------------------------------------------
\* The control plane fetches the model catalogue: it reads the store at every
\* step, and after a transport error through a proxy may go direct.

SyncSelectSettings ==
  /\ sync.pc = "idle"
  /\ sync' = [sync EXCEPT !.pc = IF stored.settings.enabled THEN "nodes" ELSE "sent",
                          !.mode = stored.settings.mode, !.route = Direct]
  /\ UNCHANGED <<team, stored, edit, runtime, replacing, selection>>

SyncSelectNode ==
  /\ sync.pc = "nodes"
  /\ LET nodes == AvailableNodes(stored.nodes, sync.down)
     IN  IF nodes # <<>>
         THEN \E n \in Sequences(nodes) :
                sync' = [sync EXCEPT !.pc = "sent", !.route = PickWeighted(nodes, n)]
         ELSE sync' = [sync EXCEPT !.pc = IF sync.mode = "allow_direct_fallback"
                                          THEN "sent" ELSE "idle"]
  /\ UNCHANGED <<team, stored, edit, runtime, replacing, selection>>

\* The fallback asks for the mode again: the failure may have taken a while.
RetryDirect(mode, outcome) ==
  mode = "allow_direct_fallback" /\ sync.route # Direct /\ outcome = "transport_error"

SyncFinishes ==
  /\ sync.pc = "sent"
  /\ \E o \in HttpOutcomes :
       sync' = IF RetryDirect(stored.settings.mode, o)
               THEN [sync EXCEPT !.pc = "sent", !.route = Direct,
                                 !.down = MarkProxy(@, sync.route, o)]
               ELSE [sync EXCEPT !.pc = "idle", !.route = Direct]
  /\ UNCHANGED <<team, stored, edit, runtime, replacing, selection>>

-----------------------------------------------------------------------------

\* The pool as earlier edits left it: empty, or one node of each weight.
InitialNodes ==
  {<<>>} \cup {[n \in 1 .. Cardinality(Weights) |->
                 [id |-> SetToSeq(ProxyIds)[n], enabled |-> TRUE, weight |-> ws[n]]] :
                ws \in {SetToSeq(Weights)}}

ProxyPoolInit ==
  /\ team \in BOOLEAN
  /\ \E s \in PoolSettings, nodes \in InitialNodes :
       stored = [settings |-> s, nodes |-> nodes, revision |-> 0]
  /\ edit = NoEdit
  /\ runtime = [settings |-> stored.settings, nodes |-> stored.nodes, down |-> {}, revision |-> 0]
  /\ replacing = NotReplacing
  /\ selection = [d \in Selectors |-> NoSelection]
  /\ sync = [pc |-> "idle", mode |-> "strict_proxy", route |-> Direct, down |-> {}]

AdminStep ==
  \/ \E s \in PoolSettings \ {stored.settings} : UpdatePoolSettings(s)
  \/ \E id \in ProxyIds :
       \/ \E w \in Weights : CreateNode(id, w)
       \/ DeleteNode(id) \/ ReadNodeForUpdate(id) \/ UpdateNodeInMemory(id) \/ RecordTestResult(id)
  \/ WriteNodeUpdate

ProxyPoolNext ==
  \/ AdminStep \/ PollPool \/ ReplaceConfig \/ ProxyRecovers
  \/ \E d \in Selectors : BeginSelect(d) \/ SelectRoute(d) \/ FinishRequest(d)
  \/ SyncSelectSettings \/ SyncSelectNode \/ SyncFinishes

-----------------------------------------------------------------------------
\* The traffic follows the weights: whatever the counter stands at, the next
\* TotalWeight picks among the available nodes give every node exactly its
\* weight (pick_weighted).
PicksFollowWeights ==
  LET nodes == AvailableNodes(runtime.nodes, runtime.down)
      total == TotalWeight(nodes)
  IN  nodes # <<>> =>
        \A start \in 0 .. (total - 1), n \in DOMAIN nodes :
          Cardinality({s \in start .. (start + total - 1) :
                         PickWeighted(nodes, s) = nodes[n].id}) = nodes[n].weight

=============================================================================
