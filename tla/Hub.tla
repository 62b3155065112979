-------------------------------- MODULE Hub --------------------------------
(***************************************************************************)
(* The server's WebSocket hub (server/api/hub.go, websocket.go): one       *)
(* goroutine, Run, owns the set of clients and every send channel; the     *)
(* HTTP handlers talk to it over buffered channels that its select picks   *)
(* from in any order.                                                      *)
(***************************************************************************)
EXTENDS Naturals, Sequences, FiniteSets, Functions

CONSTANTS
  WsClients,
  HubBuffer,                 \* capacity of register, unregister and broadcast
  SendBuffer,                \* capacity of a client's send channel
  MaxBroadcasts              \* bound: Broadcast calls

ASSUME HubAssumption == {HubBuffer, SendBuffer} \subseteq Nat \ {0} /\ MaxBroadcasts \in Nat

VARIABLES
  members, registerQ, unregisterQ, broadcastQ,
  hubDone, hubRunning,       \* done is closed; Run has not returned
  wsFilter,                  \* per client: its topic, or "" for all
  handler,                   \* per client: upgrade is "new", "reading", "leaving" or "gone"
  writePump,                 \* per client: its goroutine is "none", "running" or "exited"
  connOpen, sendOpen, sendQ, \* per client: the connection, its send channel, messages in it
  asked,                     \* Broadcast calls so far
  overtaken,                 \* clients whose unregister was handled before their register
  sendPanics                 \* the hub sent on a closed channel

hubChans == <<registerQ, unregisterQ, broadcastQ>>
clientState == <<handler, writePump, connOpen, sendOpen, sendQ>>
hubVars == <<members, hubChans, hubDone, hubRunning, wsFilter, clientState, asked, overtaken, sendPanics>>

HubInit ==
  /\ members = {} /\ registerQ = <<>> /\ unregisterQ = <<>> /\ broadcastQ = <<>>
  /\ hubDone = FALSE /\ hubRunning = TRUE
  /\ wsFilter \in [WsClients -> {"", "a"}]
  /\ handler = [c \in WsClients |-> "new"] /\ writePump = [c \in WsClients |-> "none"]
  /\ connOpen = [c \in WsClients |-> TRUE] /\ sendOpen = [c \in WsClients |-> TRUE]
  /\ sendQ = [c \in WsClients |-> 0]
  /\ asked = 0 /\ overtaken = {} /\ sendPanics = FALSE

\* upgrade: register, or give up once the hub is shutting down.
Upgrade(c) ==
  /\ handler[c] = "new"
  /\ \/ /\ Len(registerQ) < HubBuffer
        /\ registerQ' = Append(registerQ, c)
        /\ handler' = [handler EXCEPT ![c] = "reading"]
        /\ writePump' = [writePump EXCEPT ![c] = "running"]
        /\ UNCHANGED connOpen
     \/ /\ hubDone
        /\ handler' = [handler EXCEPT ![c] = "gone"]
        /\ connOpen' = [connOpen EXCEPT ![c] = FALSE]
        /\ UNCHANGED <<registerQ, writePump>>
  /\ UNCHANGED <<members, unregisterQ, broadcastQ, hubDone, hubRunning, wsFilter, sendOpen, sendQ, asked, overtaken, sendPanics>>

\* readPump returns: the peer left, or the connection was closed on this side.
ReadPumpEnds(c) ==
  /\ handler[c] = "reading"
  /\ handler' = [handler EXCEPT ![c] = "leaving"]
  /\ connOpen' = [connOpen EXCEPT ![c] = FALSE]
  /\ UNCHANGED <<members, hubChans, hubDone, hubRunning, wsFilter, writePump, sendOpen, sendQ, asked, overtaken, sendPanics>>

\* The last line of upgrade waits for room, whether or not Run still reads.
Unregister(c) ==
  /\ handler[c] = "leaving" /\ Len(unregisterQ) < HubBuffer
  /\ unregisterQ' = Append(unregisterQ, c)
  /\ handler' = [handler EXCEPT ![c] = "gone"]
  /\ UNCHANGED <<members, registerQ, broadcastQ, hubDone, hubRunning, wsFilter, writePump, connOpen, sendOpen, sendQ, asked, overtaken, sendPanics>>

\* Broadcast drops the message when the channel is full.
Broadcast(topic) ==
  /\ asked < MaxBroadcasts /\ asked' = asked + 1
  /\ broadcastQ' = IF Len(broadcastQ) < HubBuffer THEN Append(broadcastQ, topic) ELSE broadcastQ
  /\ UNCHANGED <<members, registerQ, unregisterQ, hubDone, hubRunning, wsFilter, clientState, overtaken, sendPanics>>

StopHub ==
  /\ ~hubDone /\ hubDone' = TRUE
  /\ UNCHANGED <<members, hubChans, hubRunning, wsFilter, clientState, asked, overtaken, sendPanics>>

\* The hub's non-blocking send to the clients of a set.
SendTo(cs) ==
  /\ sendQ' = [c \in WsClients |-> IF c \in cs /\ sendQ[c] < SendBuffer THEN sendQ[c] + 1 ELSE sendQ[c]]
  /\ sendPanics' = (sendPanics \/ \E c \in cs : ~sendOpen[c])

\* case c := <-h.register, with the welcome
RunRegister ==
  /\ hubRunning /\ registerQ # <<>>
  /\ registerQ' = Tail(registerQ)
  /\ members' = members \cup {Head(registerQ)}
  /\ SendTo({Head(registerQ)})
  /\ UNCHANGED <<unregisterQ, broadcastQ, hubDone, hubRunning, wsFilter, handler, writePump, connOpen, sendOpen, asked, overtaken>>

\* Variant: the channel is closed and the client stays in the set.
RunUnregisterKeeps ==
  /\ hubRunning /\ unregisterQ # <<>>
  /\ unregisterQ' = Tail(unregisterQ)
  /\ sendOpen' = [sendOpen EXCEPT ![Head(unregisterQ)] = @ /\ Head(unregisterQ) \notin members]
  /\ overtaken' = overtaken \cup ({Head(unregisterQ)} \ members)
  /\ UNCHANGED <<members, registerQ, broadcastQ, hubDone, hubRunning, wsFilter, handler, writePump, connOpen, sendQ, asked, sendPanics>>

\* case c := <-h.unregister
RunUnregister ==
  /\ hubRunning /\ unregisterQ # <<>>
  /\ unregisterQ' = Tail(unregisterQ)
  /\ members' = members \ {Head(unregisterQ)}
  /\ sendOpen' = [sendOpen EXCEPT ![Head(unregisterQ)] = @ /\ Head(unregisterQ) \notin members]
  /\ overtaken' = overtaken \cup ({Head(unregisterQ)} \ members)
  /\ UNCHANGED <<registerQ, broadcastQ, hubDone, hubRunning, wsFilter, handler, writePump, connOpen, sendQ, asked, sendPanics>>

\* clientWantsMessage
ClientWantsMessage(c, topic) == wsFilter[c] = "" \/ topic = "" \/ wsFilter[c] = topic

\* case msg := <-h.broadcast
RunBroadcast ==
  /\ hubRunning /\ broadcastQ # <<>>
  /\ broadcastQ' = Tail(broadcastQ)
  /\ SendTo({c \in members : ClientWantsMessage(c, Head(broadcastQ))})
  /\ UNCHANGED <<members, registerQ, unregisterQ, hubDone, hubRunning, wsFilter, handler, writePump, connOpen, sendOpen, asked, overtaken>>

\* case <-h.done
RunDone ==
  /\ hubRunning /\ hubDone
  /\ hubRunning' = FALSE /\ members' = {}
  /\ sendOpen' = [c \in WsClients |-> sendOpen[c] /\ c \notin members]
  /\ connOpen' = [c \in WsClients |-> connOpen[c] /\ c \notin members]
  /\ UNCHANGED <<hubChans, hubDone, wsFilter, handler, writePump, sendQ, asked, overtaken, sendPanics>>

\* writePump: a message goes out; it ends on a failed write or ping, or when
\* the channel is closed and empty, and closes the connection.
WritePump(c) ==
  /\ writePump[c] = "running"
  /\ \/ /\ sendQ[c] > 0 /\ connOpen[c]
        /\ sendQ' = [sendQ EXCEPT ![c] = @ - 1]
        /\ UNCHANGED <<writePump, connOpen>>
     \/ /\ ~connOpen[c] \/ (~sendOpen[c] /\ sendQ[c] = 0)
        /\ writePump' = [writePump EXCEPT ![c] = "exited"]
        /\ connOpen' = [connOpen EXCEPT ![c] = FALSE]
        /\ UNCHANGED sendQ
  /\ UNCHANGED <<members, hubChans, hubDone, hubRunning, wsFilter, handler, sendOpen, asked, overtaken, sendPanics>>

HubNext ==
  \/ \E c \in WsClients : Upgrade(c) \/ ReadPumpEnds(c) \/ Unregister(c) \/ WritePump(c)
  \/ \E topic \in {"", "a", "b"} : Broadcast(topic)
  \/ StopHub \/ RunRegister \/ RunUnregister \/ RunBroadcast \/ RunDone

HubSpec == HubInit /\ [][HubNext]_hubVars

-----------------------------------------------------------------------------
(* Properties                                                               *)

(***************************************************************************)
(* The hub never sends on a channel it closed.  Once it has returned, every *)
(* client that registered had its channel closed, except those still in    *)
(* the register buffer.  A client whose handler has returned is out of the *)
(* set once its unregister is read, unless the select read it before the   *)
(* register (hub.go Run, closeSend; websocket.go upgrade).                 *)
(***************************************************************************)
HubSettles ==
  /\ ~sendPanics
  /\ \A c \in WsClients :
       /\ ~hubRunning /\ writePump[c] # "none" /\ sendOpen[c] => c \in Range(registerQ)
       /\ handler[c] = "gone" /\ c \notin Range(unregisterQ) => c \notin members \/ c \in overtaken
=============================================================================
