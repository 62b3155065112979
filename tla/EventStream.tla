---------------------------- MODULE EventStream ----------------------------
(***************************************************************************)
(* The generic broker (eventstream/eventstream.go).  Publish holds the     *)
(* read lock while it visits the subscribers, so publishers overlap each   *)
(* other; Subscribe, remove and Close hold the write lock while they       *)
(* change the map and close channels after they have released it.          *)
(***************************************************************************)
EXTENDS Naturals, FiniteSets

CONSTANTS
  Publishers, Subscribers,
  SubBuffer,                 \* capacity of a subscriber's channel
  MaxSeq                     \* bound: events published

ASSUME EventStreamAssumption == SubBuffer \in Nat \ {0} /\ MaxSeq \in Nat

VARIABLES
  subs,                      \* the broker's map
  brokerClosed, seq,
  publisher,                 \* per publisher: the event it sends and who is still to be visited
  channel,                   \* per subscriber: "none", "open" or "closed"
  buffered,                  \* per subscriber: events in its channel
  got, lost,                 \* per subscriber: events queued to it, and dropped
  from, upto,                \* per subscriber: seq when it joined and when it was removed
  sentOnClosed               \* a send met a closed channel, which panics

streamVars == <<subs, brokerClosed, seq, publisher, channel, buffered, got, lost, from, upto, sentOnClosed>>

NotPublishing == [event |-> 0, todo |-> {}]

StreamInit ==
  /\ subs = {} /\ brokerClosed = FALSE /\ seq = 0
  /\ publisher = [p \in Publishers |-> NotPublishing]
  /\ channel = [s \in Subscribers |-> "none"]
  /\ buffered = [s \in Subscribers |-> 0]
  /\ got = [s \in Subscribers |-> {}] /\ lost = [s \in Subscribers |-> {}]
  /\ from = [s \in Subscribers |-> 0] /\ upto = [s \in Subscribers |-> 0]
  /\ sentOnClosed = FALSE

\* No publisher holds the read lock.
WriteLock == \A p \in Publishers : publisher[p] = NotPublishing

\* Subscribe; on a closed broker the channel is closed at once.
Subscribe(s) ==
  /\ WriteLock /\ channel[s] = "none"
  /\ channel' = [channel EXCEPT ![s] = IF brokerClosed THEN "closed" ELSE "open"]
  /\ subs' = IF brokerClosed THEN subs ELSE subs \cup {s}
  /\ from' = [from EXCEPT ![s] = seq] /\ upto' = [upto EXCEPT ![s] = seq]
  /\ UNCHANGED <<brokerClosed, seq, publisher, buffered, got, lost, sentOnClosed>>

\* Publish takes the read lock, a sequence number and the subscribers of now.
StartPublish(p) ==
  /\ publisher[p] = NotPublishing /\ ~brokerClosed /\ seq < MaxSeq
  /\ seq' = seq + 1
  /\ publisher' = [publisher EXCEPT ![p] = [event |-> seq', todo |-> subs]]
  /\ UNCHANGED <<subs, brokerClosed, channel, buffered, got, lost, from, upto, sentOnClosed>>

\* One subscriber of the loop: a send that never blocks.
Visit(p, s) ==
  /\ s \in publisher[p].todo
  /\ publisher' = [publisher EXCEPT ![p].todo = @ \ {s}]
  /\ IF buffered[s] < SubBuffer
       THEN /\ buffered' = [buffered EXCEPT ![s] = @ + 1]
            /\ got' = [got EXCEPT ![s] = @ \cup {publisher[p].event}] /\ lost' = lost
       ELSE /\ lost' = [lost EXCEPT ![s] = @ \cup {publisher[p].event}] /\ UNCHANGED <<buffered, got>>
  /\ sentOnClosed' = (sentOnClosed \/ channel[s] = "closed")
  /\ UNCHANGED <<subs, brokerClosed, seq, channel, from, upto>>

FinishPublish(p) ==
  /\ publisher[p] # NotPublishing /\ publisher[p].todo = {}
  /\ publisher' = [publisher EXCEPT ![p] = NotPublishing]
  /\ UNCHANGED <<subs, brokerClosed, seq, channel, buffered, got, lost, from, upto, sentOnClosed>>

\* Variant: remove changes the map without the lock.
DetachUnlocked(s) ==
  /\ s \in subs
  /\ subs' = subs \ {s} /\ upto' = [upto EXCEPT ![s] = seq]
  /\ UNCHANGED <<brokerClosed, seq, publisher, channel, buffered, got, lost, from, sentOnClosed>>

\* remove under the lock
Detach(s) ==
  /\ WriteLock /\ s \in subs
  /\ subs' = subs \ {s} /\ upto' = [upto EXCEPT ![s] = seq]
  /\ UNCHANGED <<brokerClosed, seq, publisher, channel, buffered, got, lost, from, sentOnClosed>>

\* Close under the lock
CloseBroker ==
  /\ WriteLock /\ ~brokerClosed
  /\ brokerClosed' = TRUE /\ subs' = {}
  /\ upto' = [s \in Subscribers |-> IF s \in subs THEN seq ELSE upto[s]]
  /\ UNCHANGED <<seq, publisher, channel, buffered, got, lost, from, sentOnClosed>>

\* closeCh, after the lock of remove or Close is released
CloseCh(s) ==
  /\ channel[s] = "open" /\ s \notin subs
  /\ channel' = [channel EXCEPT ![s] = "closed"]
  /\ UNCHANGED <<subs, brokerClosed, seq, publisher, buffered, got, lost, from, upto, sentOnClosed>>

\* The subscriber reads its channel.
Receive(s) ==
  /\ buffered[s] > 0 /\ buffered' = [buffered EXCEPT ![s] = @ - 1]
  /\ UNCHANGED <<subs, brokerClosed, seq, publisher, channel, got, lost, from, upto, sentOnClosed>>

StreamNext ==
  \/ \E s \in Subscribers : Subscribe(s) \/ Detach(s) \/ CloseCh(s) \/ Receive(s)
  \/ \E p \in Publishers : StartPublish(p) \/ FinishPublish(p) \/ \E s \in Subscribers : Visit(p, s)
  \/ CloseBroker

StreamSpec == StreamInit /\ [][StreamNext]_streamVars

-----------------------------------------------------------------------------
(* Properties                                                               *)

\* Events whose publisher has still to visit s.
Due(s) == {publisher[p].event : p \in {q \in Publishers : s \in publisher[q].todo}}

(***************************************************************************)
(* Whoever joins, leaves or closes while publishers are at work, every     *)
(* event published while s was subscribed was queued to s or counted as    *)
(* dropped, never both, and no send meets a channel that remove or Close   *)
(* closed (eventstream.go Publish, remove, Close).  Arrival order is not   *)
(* promised: two publishers may queue 2 before 1 (Publish:156).            *)
(***************************************************************************)
EventsAccounted ==
  /\ ~sentOnClosed
  /\ \A s \in Subscribers :
       /\ got[s] \cap lost[s] = {}
       /\ got[s] \cup lost[s] =
            ((from[s] + 1)..(IF s \in subs THEN seq ELSE upto[s])) \ Due(s)
=============================================================================
