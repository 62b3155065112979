---------------------------- MODULE MemoryStore ----------------------------
(***************************************************************************)
(* The in-memory store (store/memory.go, and the entry helpers of          *)
(* scripts_memory.go): a concurrent map of entries with an expiry, and a   *)
(* count of the keys that is kept beside the map and limits it to MaxKeys. *)
(*                                                                         *)
(* Every access to the map, to the count or to a locked entry is a step.   *)
(* Values are left out: an update in place is one step under the entry's   *)
(* lock.  What an entry is to a call that holds it is whether it is still  *)
(* the entry of its key: lost says that it has been taken out or replaced. *)
(* Of time, what matters is whether an entry has expired, and whether it   *)
(* did so after a call, which reads the clock as it begins, had begun.     *)
(***************************************************************************)
EXTENDS Integers, FiniteSets

CONSTANTS
  StoreClients,
  StoreKeys,
  MaxKeys,          \* maxKeys; 0 is no limit
  MaxDrift          \* bound on slotDrift

ASSUME StoreAssumption ==
  IsFiniteSet(StoreClients) /\ IsFiniteSet(StoreKeys) /\ MaxKeys \in Nat /\ MaxDrift \in Nat

VARIABLES
  entries,          \* per key: "absent", "forever", "live" or "expired"
  keyCount,
  client,           \* per client: its call
  storeClosed,
  slotDrift             \* how often a late reservation failed and found its entry gone

storeVars == <<entries, keyCount, client, storeClosed, slotDrift>>

NoCall == [pc |-> "idle", op |-> "none", key |-> "none", ttl |-> FALSE, reserved |-> FALSE, lost |-> FALSE, early |-> FALSE]

StoreInit ==
  /\ entries = [k \in StoreKeys |-> "absent"] /\ keyCount = 0
  /\ client = [c \in StoreClients |-> NoCall]
  /\ storeClosed = FALSE /\ slotDrift = 0

Expiry(ttl) == IF ttl THEN "live" ELSE "forever"

\* The calls that hold the entry of k no longer hold the entry of k.
Replaced(k, cs) ==
  [d \in StoreClients |->
     IF cs[d].key = k /\ cs[d].pc \in {"update", "evict", "release"} /\ cs[d].op # "set"
       THEN [cs[d] EXCEPT !.lost = TRUE, !.early = FALSE] ELSE cs[d]]

To(c, pc) == [client EXCEPT ![c] = IF pc = "idle" THEN NoCall ELSE [@ EXCEPT !.pc = pc]]

-----------------------------------------------------------------------------

\* A call reads the time first; Set reserves at once, Del removes, and the
\* others look the key up.  With no limit nothing is reserved.
StoreCall(c, op, k, ttl) ==
  /\ client[c].pc = "idle" /\ slotDrift <= MaxDrift
  /\ ttl => op \notin {"get", "del"}
  /\ client' = [client EXCEPT ![c] =
       [NoCall EXCEPT !.op = op, !.key = k, !.ttl = ttl,
          !.pc = CASE op = "set" -> IF MaxKeys > 0 THEN "reserve" ELSE "swap"
                   [] op = "del" -> "remove"
                   [] op \in {"get", "eval"} -> "load"
                   [] op \in {"setnx", "getset", "incr"} -> IF MaxKeys > 0 THEN "load" ELSE "publish"]]
  /\ UNCHANGED <<entries, keyCount, storeClosed, slotDrift>>

\* Load.  Get reads the expiry under the entry's lock and evicts what has
\* expired; a script's loadOrCreateRaw empties it in place.
Load(c) ==
  LET me == client[c]
      x == entries[me.key]
  IN  /\ me.pc = "load"
      /\ client' = To(c, CASE me.op = "get" -> IF x = "expired" THEN "evict" ELSE "idle"
                           [] me.op = "eval" /\ x # "absent" -> "update"
                           [] me.op # "get" /\ x = "absent" -> IF MaxKeys > 0 THEN "reserve" ELSE "publish"
                           [] OTHER -> "publish")
      /\ entries' = IF me.op = "eval" /\ x = "expired" THEN [entries EXCEPT ![me.key] = "forever"] ELSE entries
      /\ UNCHANGED <<keyCount, storeClosed, slotDrift>>

\* reserveSlot adds one and looks at the result.
ReserveSlot(c) ==
  LET full == keyCount + 1 > MaxKeys
  IN  /\ client[c].pc = "reserve"
      /\ keyCount' = keyCount + 1
      /\ client' = [client EXCEPT ![c].pc = IF full THEN "undo"
                                            ELSE IF client[c].op = "set" THEN "swap" ELSE "publish",
                                  ![c].reserved = ~full]
      /\ UNCHANGED <<entries, storeClosed, slotDrift>>

\* ... and takes it back at the limit; the call fails.
UndoReserve(c) ==
  /\ client[c].pc = "undo"
  /\ keyCount' = keyCount - 1 /\ client' = To(c, "idle")
  /\ UNCHANGED <<entries, storeClosed, slotDrift>>

\* Variant: Set never gives back the slot of a key that was there.
SwapKeeps(c) ==
  LET me == client[c]
  IN  /\ me.pc = "swap"
      /\ entries' = [entries EXCEPT ![me.key] = Expiry(me.ttl)]
      /\ client' = Replaced(me.key, To(c, "idle"))
      /\ UNCHANGED <<keyCount, storeClosed, slotDrift>>

\* Set's Swap: an entry it replaced was counted already.
Swap(c) ==
  LET me == client[c]
  IN  /\ me.pc = "swap"
      /\ entries' = [entries EXCEPT ![me.key] = Expiry(me.ttl)]
      /\ client' = Replaced(me.key, To(c, IF me.reserved /\ entries[me.key] # "absent" THEN "release" ELSE "idle"))
      /\ UNCHANGED <<keyCount, storeClosed, slotDrift>>

\* LoadOrStore of SetNX, GetSet, IncrBy and the scripts: a new key whose slot
\* was not reserved, because the key was there at Load, is reserved late.
Publish(c) ==
  LET me == client[c]
      new == entries[me.key] = "absent"
  IN  /\ me.pc = "publish"
      /\ entries' = IF new THEN [entries EXCEPT ![me.key] = IF me.op = "eval" THEN "forever" ELSE Expiry(me.ttl)]
                    ELSE entries
      /\ client' = To(c, CASE new -> IF MaxKeys > 0 /\ ~me.reserved THEN "late"
                                      ELSE IF me.op = "eval" THEN "update" ELSE "idle"
                           [] ~new /\ me.reserved -> "release"
                           [] OTHER -> "update")
      /\ UNCHANGED <<keyCount, storeClosed, slotDrift>>

\* The late reservation.
LateReserve(c) ==
  /\ client[c].pc = "late"
  /\ keyCount' = keyCount + 1
  /\ client' = To(c, IF keyCount + 1 > MaxKeys THEN "lateUndo" ELSE "idle")
  /\ UNCHANGED <<entries, storeClosed, slotDrift>>

LateUndo(c) ==
  /\ client[c].pc = "lateUndo"
  /\ keyCount' = keyCount - 1 /\ client' = To(c, "lateDelete")
  /\ UNCHANGED <<entries, storeClosed, slotDrift>>

\* ... which deletes the key if it fails, whatever entry that is.
LateDelete(c) ==
  LET k == client[c].key
  IN  /\ client[c].pc = "lateDelete"
      /\ entries' = [entries EXCEPT ![k] = "absent"]
      /\ client' = Replaced(k, To(c, "idle"))
      /\ slotDrift' = IF entries[k] = "absent" THEN slotDrift + 1 ELSE slotDrift
      /\ UNCHANGED <<keyCount, storeClosed>>

\* A reservation that was not needed is given back.
Release(c) ==
  /\ client[c].pc = "release"
  /\ keyCount' = keyCount - 1 /\ client' = To(c, IF client[c].op = "set" THEN "idle" ELSE "update")
  /\ UNCHANGED <<entries, storeClosed, slotDrift>>

\* The update of the entry under its lock, by the time the call began: an
\* expired one is renewed in place; GetSet always sets the expiry, IncrBy and
\* SetNX leave that of a live one, a script sets it by the time it is now.
UpdateEntry(c) ==
  LET me == client[c]
      x == entries[me.key]
      renewed == CASE me.op = "getset" -> Expiry(me.ttl)
                   [] me.op \in {"incr", "setnx"} -> IF x = "expired" /\ ~me.early THEN Expiry(me.ttl) ELSE x
                   [] me.op = "eval" -> IF me.ttl THEN "live" ELSE x
  IN  /\ me.pc = "update"
      /\ entries' = IF me.lost THEN entries ELSE [entries EXCEPT ![me.key] = renewed]
      /\ client' = To(c, "idle")
      /\ UNCHANGED <<keyCount, storeClosed, slotDrift>>

\* removeEntry: Del takes out whatever is there; an eviction only the entry it
\* looked at.
RemoveKey(c) ==
  LET me == client[c]
      removes == IF me.pc = "evict" THEN ~me.lost ELSE entries[me.key] # "absent"
  IN  /\ me.pc \in {"remove", "evict"}
      /\ entries' = IF removes THEN [entries EXCEPT ![me.key] = "absent"] ELSE entries
      /\ client' = IF removes THEN Replaced(me.key, To(c, IF MaxKeys > 0 THEN "decrement" ELSE "idle"))
                   ELSE To(c, "idle")
      /\ UNCHANGED <<keyCount, storeClosed, slotDrift>>

Decrement(c) ==
  /\ client[c].pc = "decrement"
  /\ keyCount' = keyCount - 1 /\ client' = To(c, "idle")
  /\ UNCHANGED <<entries, storeClosed, slotDrift>>

\* The cleanup goroutine meets an expired entry: it evicts as Get does.  The
\* goroutine is any of the clients, as long as the store is open.
Sweep(c, k) ==
  /\ ~storeClosed /\ client[c].pc = "idle"
  /\ entries[k] = "expired"
  /\ client' = [client EXCEPT ![c] = [NoCall EXCEPT !.pc = "evict", !.op = "get", !.key = k]]
  /\ UNCHANGED <<entries, keyCount, storeClosed, slotDrift>>

\* Close ends the cleanup; the entries stay.
CloseStore ==
  /\ ~storeClosed /\ storeClosed' = TRUE
  /\ UNCHANGED <<entries, keyCount, client, slotDrift>>

\* The clock passes the expiry of k.
Expire(k) ==
  /\ entries[k] = "live"
  /\ entries' = [entries EXCEPT ![k] = "expired"]
  /\ client' = [d \in StoreClients |->
                  IF client[d].key = k /\ client[d].op \in {"setnx", "incr"} /\ ~client[d].lost
                    THEN [client[d] EXCEPT !.early = TRUE] ELSE client[d]]
  /\ UNCHANGED <<keyCount, storeClosed, slotDrift>>

StoreOps == {"get", "set", "setnx", "getset", "incr", "eval", "del"}

StoreNext ==
  \/ \E c \in StoreClients :
       \/ \E op \in StoreOps, k \in StoreKeys, ttl \in BOOLEAN : StoreCall(c, op, k, ttl)
       \/ Load(c) \/ ReserveSlot(c) \/ UndoReserve(c) \/ Swap(c) \/ Publish(c)
       \/ LateReserve(c) \/ LateUndo(c) \/ LateDelete(c) \/ Release(c) \/ UpdateEntry(c)
       \/ RemoveKey(c) \/ Decrement(c)
       \/ \E k \in StoreKeys : Sweep(c, k)
  \/ CloseStore \/ \E k \in StoreKeys : Expire(k)

StoreSpec == StoreInit /\ [][StoreNext]_storeVars

-----------------------------------------------------------------------------
(* Properties                                                               *)

Present == {k \in StoreKeys : entries[k] # "absent"}
In(pcs) == {c \in StoreClients : client[c].pc \in pcs}
Unpaid == In({"late", "lateUndo", "lateDelete"})

\* Reservations and removals whose other half is still to come.
InFlight == {c \in StoreClients : client[c].pc \in {"undo", "lateUndo", "release", "decrement"}
                                    \/ (client[c].pc \in {"swap", "publish"} /\ client[c].reserved)}

(***************************************************************************)
(* The count and the map agree at every point of every interleaving of     *)
(* calls, evictions and deletions ("so that keyCount stays in sync across  *)
(* Del, lazy expiry, and GC", memory.go:102): they differ by what calls in *)
(* flight have taken and not used, or published and not yet reserved, so   *)
(* the map holds at most MaxKeys keys and those.  The one way they part is *)
(* a late reservation that fails after its entry has been deleted: each    *)
(* such call leaves room for one key more, for good.                       *)
(***************************************************************************)
StoreLedger ==
  MaxKeys > 0 =>
    /\ keyCount = Cardinality(Present) + Cardinality(InFlight) - Cardinality(Unpaid) - slotDrift
    /\ Cardinality(Present) <= MaxKeys + Cardinality(Unpaid) + slotDrift
=============================================================================
