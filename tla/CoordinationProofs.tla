------------------------- MODULE CoordinationProofs -------------------------
(***************************************************************************)
(* Parties that act on what the others left, for every number of them:     *)
(* limiters made of limiters, the debouncer and throttler, the WebSocket   *)
(* hub and the distributed circuit breaker.                                *)
(***************************************************************************)
EXTENDS CombinedLimiters, Debounce, Hub, DistributedCircuitBreaker, TLAPS

\* What proves a step that names no prover.
USE SMTT(30), Z3T(30), Zenon

-----------------------------------------------------------------------------
(* Limiters made of limiters                                                *)

CombRecords ==
  [pc : {"new", "peek", "deny", "commit", "rollback", "try", "allowed", "denied", "over"},
   n : Nat, i : Children, refilled : BOOLEAN, peek : [Children -> Nat], took : [Children -> Nat]]

CombType ==
  /\ mode \in {"AND", "OR", "TIERED"} /\ crediters \subseteq Children
  /\ tokens \in [Children -> Nat] /\ comb \in [CombinedCalls -> CombRecords]

\* A call of the AND and tiered limiters holds the mutex from its start to its return.
Turn(c) ==
  \/ comb[c].pc \in {"new", "over"}
  \/ mode = "OR" /\ comb[c].pc \in {"try", "allowed", "denied"}
  \/ mode # "OR" /\ comb[c].pc \in {"peek", "deny", "commit", "rollback", "allowed", "denied"} /\ combMu = {c}

Lacks(me, j) == me.peek[j] < me.n
Untouched(me) == ~outsiders /\ ~me.refilled /\ blind = {}
KeepsFirstHalf == ~outsiders \/ (mode = "TIERED" /\ crediters = Children)

\* What a call has taken and seen at each of its steps.
Taken(me) ==
  /\ me.pc \notin {"new", "over"} => me.n > 0
  /\ me.pc = "new" => me.i = 1
  /\ me.pc \in {"new", "peek", "try"} => \A j \in Children : me.took[j] = 0
  /\ me.pc = "peek" /\ mode = "TIERED" => \A j \in 1..(me.i - 1) : ~Lacks(me, j)
  /\ me.pc = "deny" => \A j \in Children : me.took[j] > 0 => Lacks(me, j)
  /\ me.pc = "deny" /\ mode = "TIERED" => Lacks(me, me.i)
  /\ me.pc = "commit" => \A j \in Children : ~Lacks(me, j) /\ me.took[j] = IF j < me.i THEN me.n ELSE 0
  /\ me.pc = "rollback" => mode = "TIERED" /\ outsiders
  /\ me.pc = "rollback" /\ crediters = Children => \A j \in Children : j > me.i => me.took[j] = 0
  /\ me.pc = "allowed" /\ mode = "OR" => \E i \in Children : \A j \in Children : me.took[j] > 0 <=> j = i
  /\ me.pc = "allowed" /\ mode # "OR" => \A j \in Children : me.took[j] > 0
  /\ me.pc = "denied" /\ KeepsFirstHalf => \A j \in Children : me.took[j] > 0 => Lacks(me, j)
  /\ me.pc \in {"deny", "denied"} /\ Untouched(me) => \A j \in Children : me.took[j] = 0

\* What Peek reported is still there, as long as only this call takes from the
\* children; and no more than that is there, if besides nothing was refilled.
StillThere(me) ==
  /\ me.pc = "peek" /\ ~outsiders => \A j \in 1..(me.i - 1) : tokens[j] >= me.peek[j]
  /\ me.pc = "peek" /\ Untouched(me) => \A j \in 1..(me.i - 1) : tokens[j] = me.peek[j]
  /\ me.pc = "deny" /\ Untouched(me) /\ mode = "TIERED" => tokens[me.i] = me.peek[me.i]
  /\ me.pc = "deny" /\ Untouched(me) /\ mode = "AND" => \A j \in Children : tokens[j] = me.peek[j]
  /\ me.pc = "commit" /\ ~outsiders => \A j \in Children : j >= me.i => tokens[j] >= me.n

CombInv == CombType /\ \A c \in CombinedCalls : Turn(c) /\ Taken(comb[c]) /\ StillThere(comb[c])

\* What a call has taken is nobody else's affair.
LEMMA TakenStays ==
  ASSUME UNCHANGED <<mode, outsiders, blind, crediters>>, NEW me, Taken(me) PROVE Taken(me)'
<1>1. (KeepsFirstHalf' <=> KeepsFirstHalf) /\ (Untouched(me)' <=> Untouched(me)) /\ \A j : Lacks(me, j)' <=> Lacks(me, j)
  BY Zenon DEF Lacks, Untouched, KeepsFirstHalf
<1>2. mode' = mode /\ outsiders' = outsiders /\ crediters' = crediters
  BY Zenon
<1> QED
  BY <1>1, <1>2 DEF Taken

\* A call that does not move keeps what it has taken.
LEMMA OthersStay ==
  ASSUME UNCHANGED <<mode, outsiders, blind, crediters>>, NEW d, Taken(comb[d]), comb'[d] = comb[d]
  PROVE  Taken(comb[d])'
<1>1. PICK me : me = comb[d]
  BY Zenon
<1>2. Taken(me)'
  BY <1>1, TakenStays, Zenon
<1> QED
  BY <1>1, <1>2 DEF Taken, Lacks, Untouched

\* The step of one call: no other call holds the mutex, or has seen anything
\* that this step could change.
LEMMA OneCallSteps ==
  ASSUME CombInv, UNCHANGED <<combinedConf, combMu>>, NEW c \in CombinedCalls, NEW r \in CombRecords,
         comb' = [comb EXCEPT ![c] = r], tokens' \in [Children -> Nat],
         comb[c].pc \notin {"new", "over"}, Turn(c)', Taken(r), StillThere(r)'
  PROVE  CombInv'
<1>1. UNCHANGED <<mode, outsiders, blind, crediters, combMu>>
  BY Zenon DEF combinedConf
<1>2. comb' \in [CombinedCalls -> CombRecords] /\ \A d \in CombinedCalls : comb'[d] = IF d = c THEN r ELSE comb[d]
  BY Zenon DEF CombInv, CombType
<1>3. CombType'
  BY <1>1, <1>2, Zenon DEF CombInv, CombType
<1>5. ASSUME NEW d \in CombinedCalls, d # c PROVE Turn(d)' /\ Taken(comb[d])' /\ StillThere(comb[d])'
  <2>1. comb'[d] = comb[d]
    BY <1>2, <1>5, Zenon
  <2>2. Turn(d)'
    BY <1>1, <2>1, Zenon DEF CombInv, Turn
  <2>3. Taken(comb[d])'
    BY <1>1, <2>1, OthersStay, Zenon DEF CombInv
  <2>4. comb[d].pc \notin {"peek", "deny", "commit"}
    <3>1. Turn(c) /\ Turn(d)
      BY Zenon DEF CombInv
    <3> QED
      BY <1>5, <3>1, Zenon DEF Turn
  <2>5. StillThere(comb[d])'
    BY <2>1, <2>4, Zenon DEF StillThere
  <2> QED
    BY <2>2, <2>3, <2>5, Zenon
<1>6. Taken(comb[c])' /\ StillThere(comb[c])'
  <2>1. comb'[c] = r
    BY <1>2, Zenon
  <2>2. Taken(r)'
    BY <1>1, TakenStays, Zenon
  <2>3. Taken(comb[c])'
    BY <2>1, <2>2 DEF Taken, Lacks, Untouched
  <2>4. StillThere(comb[c])'
    BY <2>1, Zenon DEF StillThere, Untouched
  <2> QED
    BY <2>3, <2>4, Zenon
<1> QED
  BY <1>3, <1>5, <1>6, Zenon DEF CombInv

\* The record of a call whose step is not an update of what it saw or took.
LEMMA OnwardFields ==
  ASSUME NEW c \in CombinedCalls, comb[c] \in CombRecords, NEW end \in {"deny", "commit", "allowed", "denied"}
  PROVE  /\ Onward(c, end) \in CombRecords /\ Onward(c, end).n = comb[c].n /\ Onward(c, end).peek = comb[c].peek
         /\ Onward(c, end).took = comb[c].took /\ Onward(c, end).refilled = comb[c].refilled
         /\ IF AtLastChild(c) THEN Onward(c, end).pc = end /\ Onward(c, end).i = 1
            ELSE Onward(c, end).pc = comb[c].pc /\ Onward(c, end).i = comb[c].i + 1
<1>1. PICK me \in CombRecords : me = comb[c]
  BY Zenon
<1>2. ChildCount \in Nat \ {0} /\ me.i \in 1..ChildCount
  BY CombinedAssumption, Zenon DEF CombRecords, Children
<1>3. CASE AtLastChild(c)
  <2>1. PICK r : r = [me EXCEPT !.pc = end, !.i = 1]
    BY Zenon
  <2>2. 1 \in Children
    BY <1>2 DEF Children
  <2>3. r \in CombRecords
    BY <2>1, <2>2, Zenon DEF CombRecords
  <2> QED
    BY <1>1, <1>3, <2>1, <2>3, Zenon DEF CombRecords, Onward
<1>4. CASE ~AtLastChild(c)
  <2>1. PICK r : r = [me EXCEPT !.i = @ + 1]
    BY Zenon
  <2>2. me.i + 1 \in Children
    BY <1>1, <1>2, <1>4 DEF AtLastChild, Children
  <2>3. r \in CombRecords
    BY <2>1, <2>2, Zenon DEF CombRecords
  <2> QED
    BY <1>1, <1>4, <2>1, <2>3, Zenon DEF CombRecords, Onward
<1> QED
  BY <1>3, <1>4, Zenon

\* child.AllowN: the two outcomes of a call on the child at which call c is.
LEMMA ChildOutcomes ==
  ASSUME NEW c \in CombinedCalls, CombInv, NEW yes \in CombRecords, NEW no \in CombRecords,
         ChildAllowN(c, yes, no)
  PROVE  \E r \in CombRecords :
           /\ comb' = [comb EXCEPT ![c] = r] /\ tokens' \in [Children -> Nat]
           /\ \/ /\ tokens[comb[c].i] < comb[c].n /\ tokens' = tokens /\ r = no
              \/ /\ tokens[comb[c].i] >= comb[c].n
                 /\ \A j \in Children : tokens'[j] = IF j = comb[c].i THEN tokens[j] - comb[c].n ELSE tokens[j]
                 /\ r.pc = yes.pc /\ r.n = yes.n /\ r.i = yes.i /\ r.peek = yes.peek /\ r.refilled = yes.refilled
                 /\ \A j \in Children : r.took[j] = IF j = comb[c].i THEN comb[c].n ELSE yes.took[j]
<1>1. PICK me \in CombRecords : me = comb[c]
  BY Zenon DEF CombInv, CombType
<1>2. me.i \in Children /\ me.n \in Nat /\ tokens \in [Children -> Nat] /\ tokens[me.i] \in Nat
  BY Zenon DEF CombInv, CombType, CombRecords
<1>3. CASE tokens[me.i] >= me.n
  <2>1. PICK r : r = [yes EXCEPT !.took[me.i] = me.n]
    BY Zenon
  <2>2. /\ r \in CombRecords /\ r.pc = yes.pc /\ r.n = yes.n /\ r.i = yes.i /\ r.peek = yes.peek
        /\ r.refilled = yes.refilled /\ r.took = [yes.took EXCEPT ![me.i] = me.n]
    BY <1>2, <2>1, Zenon DEF CombRecords
  <2>3. \A j \in Children : r.took[j] = IF j = me.i THEN me.n ELSE yes.took[j]
    BY <1>2, <2>2, Zenon DEF CombRecords
  <2>4. comb' = [comb EXCEPT ![c] = r] /\ tokens' = [tokens EXCEPT ![me.i] = @ - me.n]
    BY <1>1, <1>3, <2>1, Zenon DEF ChildAllowN
  <2>5. tokens' \in [Children -> Nat] /\ \A j \in Children : tokens'[j] = IF j = me.i THEN tokens[j] - me.n ELSE tokens[j]
    BY <1>2, <1>3, <2>4
  <2> USE <2>2
  <2> WITNESS r \in CombRecords
  <2> QED
    BY <1>1, <1>3, <2>2, <2>3, <2>4, <2>5, Zenon
<1>4. CASE ~(tokens[me.i] >= me.n)
  <2>1. comb' = [comb EXCEPT ![c] = no] /\ tokens' = tokens
    BY <1>1, <1>4, Zenon DEF ChildAllowN
  <2>2. tokens[me.i] < me.n
    BY <1>2, <1>4
  <2> QED
    BY <1>1, <1>2, <2>1, <2>2, Zenon
<1> QED
  BY <1>3, <1>4, Zenon

\* Phase 1: Peek on the next child.
LEMMA PeekStepOf ==
  ASSUME CombInv, NEW c \in CombinedCalls, CombinedPeek(c)
  PROVE  CombInv'
<1>1. PICK me \in CombRecords : me = comb[c]
  BY Zenon DEF CombInv, CombType
<1>2. PICK i \in Children : i = me.i
  BY Zenon DEF CombRecords
<1>3. PICK seen \in Nat : seen = IF i \in blind THEN 0 ELSE tokens[i]
  BY Zenon DEF CombInv, CombType
<1>4. /\ me.pc = "peek" /\ Turn(c) /\ Taken(me) /\ StillThere(me) /\ UNCHANGED <<combinedConf, tokens, combMu>>
      /\ tokens \in [Children -> Nat] /\ me.n \in Nat /\ me.peek \in [Children -> Nat]
  BY <1>1, Zenon DEF CombInv, CombinedPeek, CombType, CombRecords
<1>5. UNCHANGED <<mode, outsiders, blind, crediters>>
  BY <1>4, Zenon DEF combinedConf
<1>6. PICK some \in BOOLEAN : some <=> (seen < me.n \/ \E j \in 1..(i - 1) : Lacks(me, j))
  BY Zenon
<1>7. PICK next \in CombRecords :
         /\ comb' = [comb EXCEPT ![c] = [next EXCEPT !.peek[i] = seen]]
         /\ next.n = me.n /\ next.peek = me.peek /\ next.took = me.took /\ next.refilled = me.refilled
         /\ \/ mode = "TIERED" /\ seen < me.n /\ next.pc = "deny" /\ next.i = i
            \/ ~(mode = "TIERED" /\ seen < me.n) /\ i # ChildCount /\ next.pc = "peek" /\ next.i = i + 1
            \/ ~(mode = "TIERED" /\ seen < me.n) /\ i = ChildCount /\ some /\ next.pc = "deny" /\ next.i = 1
            \/ ~(mode = "TIERED" /\ seen < me.n) /\ i = ChildCount /\ ~some /\ next.pc = "commit" /\ next.i = 1
  <2>1. CASE mode = "TIERED" /\ seen < me.n
    <3>1. PICK next : next = [me EXCEPT !.pc = "deny"]
      BY Zenon
    <3>2. next \in CombRecords /\ next.pc = "deny" /\ next.i = i /\ next.n = me.n /\ next.peek = me.peek
          /\ next.took = me.took /\ next.refilled = me.refilled
      BY <1>2, <3>1, Zenon DEF CombRecords
    <3>3. comb' = [comb EXCEPT ![c] = [next EXCEPT !.peek[i] = seen]]
      BY <1>1, <1>2, <1>3, <2>1, <3>1, Zenon DEF CombinedPeek
    <3> QED
      BY <2>1, <3>2, <3>3, Zenon
  <2>2. CASE ~(mode = "TIERED" /\ seen < me.n)
    <3>1. PICK end \in {"deny", "commit"} : end = IF some THEN "deny" ELSE "commit"
      BY Zenon
    <3>2. PICK next : next = Onward(c, end)
      BY Zenon
    <3>3. comb' = [comb EXCEPT ![c] = [next EXCEPT !.peek[i] = seen]]
      <4>1. end = IF seen < me.n \/ \E j \in 1..(i - 1) : Short(c, j) THEN "deny" ELSE "commit"
        BY <1>1, <1>6, <3>1, Zenon DEF Lacks, Short
      <4> QED
        BY <1>1, <1>2, <1>3, <2>2, <3>2, <4>1, Zenon DEF CombinedPeek
    <3>4. end \in {"deny", "commit", "allowed", "denied"}
      BY Zenon
    <3>5. next \in CombRecords /\ next.n = me.n /\ next.peek = me.peek /\ next.took = me.took /\ next.refilled = me.refilled
      BY <1>1, <3>2, <3>4, OnwardFields, Zenon
    <3>6. IF AtLastChild(c) THEN next.pc = end /\ next.i = 1 ELSE next.pc = comb[c].pc /\ next.i = comb[c].i + 1
      BY <1>1, <3>2, <3>4, OnwardFields, Zenon
    <3> QED
      BY <1>1, <1>2, <1>4, <2>2, <3>1, <3>3, <3>5, <3>6, Zenon DEF AtLastChild
  <2> QED
    BY <2>1, <2>2, Zenon
<1>8. PICK r \in CombRecords :
         /\ comb' = [comb EXCEPT ![c] = r]
         /\ r.pc = next.pc /\ r.n = me.n /\ r.i = next.i /\ r.took = me.took /\ r.refilled = me.refilled
         /\ \A j \in Children : r.peek[j] = IF j = i THEN seen ELSE me.peek[j]
  <2>1. PICK r : r = [next EXCEPT !.peek[i] = seen]
    BY Zenon
  <2>2. r \in CombRecords /\ r.pc = next.pc /\ r.n = next.n /\ r.i = next.i /\ r.took = next.took
        /\ r.refilled = next.refilled /\ r.peek = [next.peek EXCEPT ![i] = seen]
    BY <2>1, Zenon DEF CombRecords
  <2>3. \A j \in Children : r.peek[j] = IF j = i THEN seen ELSE me.peek[j]
    BY <1>7, <2>2 DEF CombRecords
  <2> QED
    BY <1>7, <2>1, <2>2, <2>3, Zenon
<1>9. Turn(c)'
  <2>1. comb'[c] = r
    BY <1>8, Zenon DEF CombInv, CombType
  <2>2. mode # "OR" /\ combMu' = {c}
    BY <1>1, <1>4, Zenon DEF Turn
  <2>3. r.pc \in {"peek", "deny", "commit"}
    BY <1>7, <1>8, Zenon
  <2> QED
    BY <1>5, <2>1, <2>2, <2>3, Zenon DEF Turn
<1>10. /\ \A j \in Children : r.took[j] = 0
       /\ me.n > 0 /\ (mode = "TIERED" => \A j \in 1..(i - 1) : ~Lacks(me, j))
  BY <1>2, <1>4, <1>8, Zenon DEF Taken
<1>11. i \in 1..ChildCount /\ ChildCount \in Nat \ {0}
  BY CombinedAssumption, Zenon DEF Children
<1>12. \A j \in Children : Lacks(r, j) <=> IF j = i THEN seen < me.n ELSE Lacks(me, j)
  BY <1>8, Zenon DEF Lacks
<1>13. Taken(r)
  <2>1. r.pc = "peek" /\ mode = "TIERED" => \A j \in 1..(r.i - 1) : ~Lacks(r, j)
    <3>1. r.pc = "peek" => \A j \in 1..(r.i - 1) : j \in Children /\ (j = i \/ j \in 1..(i - 1))
      BY <1>7, <1>8, <1>11 DEF Children
    <3>2. r.pc = "peek" /\ mode = "TIERED" => ~(seen < me.n)
      BY <1>4, <1>7, <1>8
    <3> QED
      BY <1>10, <1>12, <3>1, <3>2, Zenon
  <2>2. r.pc = "deny" /\ mode = "TIERED" => Lacks(r, r.i)
    BY <1>4, <1>6, <1>7, <1>8, <1>10, <1>11, <1>12, Zenon DEF Children
  <2>3. r.pc = "commit" => \A j \in Children : ~Lacks(r, j) /\ r.took[j] = IF j < r.i THEN r.n ELSE 0
    BY <1>4, <1>6, <1>7, <1>8, <1>10, <1>11, <1>12 DEF Children
  <2>4. r.pc \in {"peek", "deny", "commit"} /\ r.n > 0
    BY <1>7, <1>8, <1>10, Zenon
  <2> QED
    BY <1>10, <2>1, <2>2, <2>3, <2>4 DEF Taken
<1>14. StillThere(r)'
  <2>1. Untouched(r)' => Untouched(me) /\ seen = tokens[i]
    BY <1>3, <1>5, <1>8, Zenon DEF Untouched
  <2>2. seen <= tokens[i]
    BY <1>3, <1>4
  <2>3. /\ ~outsiders => \A j \in 1..(i - 1) : tokens[j] >= me.peek[j]
        /\ Untouched(me) => \A j \in 1..(i - 1) : tokens[j] = me.peek[j]
    BY <1>2, <1>4, Zenon DEF StillThere
  <2>4. r.pc = "peek" /\ ~outsiders => \A j \in 1..(r.i - 1) : tokens[j] >= r.peek[j]
    BY <1>4, <1>7, <1>8, <1>11, <2>2, <2>3 DEF Children
  <2>5. r.pc = "peek" /\ Untouched(r)' => \A j \in 1..(r.i - 1) : tokens[j] = r.peek[j]
    BY <1>4, <1>7, <1>8, <1>11, <2>1, <2>3 DEF Children
  <2>6. r.pc = "deny" /\ Untouched(r)' /\ mode = "TIERED" => tokens[r.i] = r.peek[r.i]
    BY <1>6, <1>7, <1>8, <1>10, <1>11, <2>1, Zenon
  <2>7. r.pc = "deny" /\ Untouched(r)' /\ mode = "AND" => \A j \in Children : tokens[j] = r.peek[j]
    BY <1>4, <1>7, <1>8, <1>11, <2>1, <2>3 DEF Children
  <2>8. r.pc = "commit" /\ ~outsiders => \A j \in Children : j >= r.i => tokens[j] >= r.n
    <3>1. ASSUME r.pc = "commit", ~outsiders, NEW j \in Children PROVE tokens[j] >= r.peek[j]
      <4>1. i = ChildCount /\ (j = i \/ j \in 1..(i - 1))
        BY <1>7, <1>8, <1>11, <3>1 DEF Children
      <4> QED
        BY <1>4, <1>8, <2>2, <2>3, <3>1, <4>1, Zenon
    <3>2. r.pc = "commit" => \A j \in Children : ~Lacks(r, j)
      BY <1>13, Zenon DEF Taken
    <3> QED
      BY <1>4, <3>1, <3>2 DEF Lacks, CombRecords
  <2> QED
    BY <1>4, <1>5, <2>4, <2>5, <2>6, <2>7, <2>8, Zenon DEF StillThere
<1> QED
  BY <1>1, <1>4, <1>8, <1>9, <1>13, <1>14, OneCallSteps, Zenon

\* The record of the call after a step that is not a start or a return keeps its turn.
LEMMA KeepsTurn ==
  ASSUME CombInv, NEW c \in CombinedCalls, NEW r \in CombRecords, comb' = [comb EXCEPT ![c] = r],
         UNCHANGED <<mode, combMu>>, comb[c].pc \notin {"new", "over"},
         mode = "OR" => r.pc \in {"try", "allowed", "denied"},
         mode # "OR" => r.pc \in {"peek", "deny", "commit", "rollback", "allowed", "denied"}
  PROVE  Turn(c)'
<1>1. comb'[c] = r
  BY Zenon DEF CombInv, CombType
<1>2. Turn(c)
  BY Zenon DEF CombInv
<1> QED
  BY <1>1, <1>2, Zenon DEF Turn

\* denyResultAND and denyResult: only children that were short may be debited.
LEMMA DenyStep ==
  ASSUME CombInv, NEW c \in CombinedCalls, CombinedDeny(c)
  PROVE  CombInv'
<1>1. PICK me \in CombRecords : me = comb[c]
  BY DEF CombInv, CombType
<1>2. PICK i \in Children : i = me.i
  BY DEF CombRecords
<1>3. /\ me.pc = "deny" /\ Turn(c) /\ Taken(me) /\ StillThere(me) /\ UNCHANGED <<combinedConf, combMu>>
      /\ tokens \in [Children -> Nat] /\ me.n \in Nat /\ me.peek \in [Children -> Nat] /\ me.took \in [Children -> Nat]
  BY <1>1, Zenon DEF CombInv, CombinedDeny, CombType, CombRecords
<1>4. UNCHANGED <<mode, outsiders, blind, crediters>> /\ mode # "OR"
  BY <1>1, <1>3, Zenon DEF combinedConf, Turn
<1>5. mode \in {"AND", "TIERED"}
  BY <1>4, Zenon DEF CombInv, CombType
<1>6. i \in 1..ChildCount /\ ChildCount \in Nat \ {0}
  BY CombinedAssumption, Zenon DEF Children
<1>7. /\ me.n > 0 /\ \A j \in Children : me.took[j] > 0 => Lacks(me, j)
      /\ (mode = "TIERED" => Lacks(me, i)) /\ (Untouched(me) => \A j \in Children : me.took[j] = 0)
  BY <1>2, <1>3, Zenon DEF Taken
<1>8. PICK next \in CombRecords :
         /\ next.n = me.n /\ next.peek = me.peek /\ next.took = me.took /\ next.refilled = me.refilled
         /\ (mode = "TIERED" => next.pc = "denied") /\ next.pc \in {"deny", "denied"}
         /\ IF Lacks(me, i) THEN ChildAllowN(c, next, next) ELSE comb' = [comb EXCEPT ![c] = next] /\ UNCHANGED tokens
  <2>1. Lacks(me, i) <=> Short(c, comb[c].i)
    BY <1>1, <1>2, Zenon DEF Lacks, Short
  <2>2. CASE mode = "TIERED"
    <3>1. PICK next : next = [me EXCEPT !.pc = "denied"]
      BY Zenon
    <3>2. next \in CombRecords /\ next.pc = "denied" /\ next.n = me.n /\ next.peek = me.peek
          /\ next.took = me.took /\ next.refilled = me.refilled
      BY <3>1, Zenon DEF CombRecords
    <3>3. ChildAllowN(c, next, next)
      BY <1>1, <1>7, <2>1, <2>2, <3>1, Zenon DEF CombinedDeny
    <3> QED
      BY <1>7, <2>2, <3>2, <3>3, Zenon
  <2>3. CASE mode # "TIERED"
    <3>1. PICK next : next = Onward(c, "denied")
      BY Zenon
    <3>2. next \in CombRecords /\ next.n = me.n /\ next.peek = me.peek /\ next.took = me.took /\ next.refilled = me.refilled
      BY <1>1, <3>1, OnwardFields, Zenon
    <3>3. IF AtLastChild(c) THEN next.pc = "denied" /\ next.i = 1 ELSE next.pc = comb[c].pc /\ next.i = comb[c].i + 1
      BY <1>1, <3>1, OnwardFields, Zenon
    <3>4. next.pc \in {"deny", "denied"}
      BY <1>1, <1>3, <3>3, Zenon
    <3>5. IF Lacks(me, i) THEN ChildAllowN(c, next, next) ELSE comb' = [comb EXCEPT ![c] = next] /\ UNCHANGED tokens
      BY <2>1, <2>3, <3>1, Zenon DEF CombinedDeny
    <3> QED
      BY <2>3, <3>2, <3>4, <3>5, Zenon
  <2> QED
    BY <2>2, <2>3, Zenon
<1>9. PICK r \in CombRecords :
         /\ comb' = [comb EXCEPT ![c] = r] /\ tokens' \in [Children -> Nat]
         /\ r.pc = next.pc /\ r.n = me.n /\ r.peek = me.peek /\ r.refilled = me.refilled
         /\ \/ tokens' = tokens /\ \A j \in Children : r.took[j] = me.took[j]
            \/ Lacks(me, i) /\ tokens[i] >= me.n /\ \A j \in Children : r.took[j] = IF j = i THEN me.n ELSE me.took[j]
  <2>1. CASE Lacks(me, i)
    <3>1. ChildAllowN(c, next, next)
      BY <1>8, <2>1, Zenon
    <3>2. PICK r \in CombRecords :
           /\ comb' = [comb EXCEPT ![c] = r] /\ tokens' \in [Children -> Nat]
           /\ \/ /\ tokens[comb[c].i] < comb[c].n /\ tokens' = tokens /\ r = next
              \/ /\ tokens[comb[c].i] >= comb[c].n
                 /\ \A j \in Children : tokens'[j] = IF j = comb[c].i THEN tokens[j] - comb[c].n ELSE tokens[j]
                 /\ r.pc = next.pc /\ r.n = next.n /\ r.i = next.i /\ r.peek = next.peek /\ r.refilled = next.refilled
                 /\ \A j \in Children : r.took[j] = IF j = comb[c].i THEN comb[c].n ELSE next.took[j]
      BY <3>1, ChildOutcomes
    <3>3. /\ r.pc = next.pc /\ r.n = me.n /\ r.peek = me.peek /\ r.refilled = me.refilled
          /\ \/ tokens' = tokens /\ \A j \in Children : r.took[j] = me.took[j]
             \/ tokens[i] >= me.n /\ \A j \in Children : r.took[j] = IF j = i THEN me.n ELSE me.took[j]
      BY <1>1, <1>2, <1>8, <3>2
    <3> QED
      BY <2>1, <3>2, <3>3, Zenon
  <2>2. CASE ~Lacks(me, i)
    BY <1>3, <1>8, <2>2, Zenon
  <2> QED
    BY <2>1, <2>2, Zenon
<1>10. Untouched(r) <=> Untouched(me)
  BY <1>9, Zenon DEF Untouched
<1>11. ASSUME Untouched(me) PROVE tokens' = tokens /\ \A j \in Children : r.took[j] = me.took[j]
  <2>1. tokens[i] = me.peek[i]
    BY <1>2, <1>3, <1>5, <1>11, Zenon DEF StillThere
  <2>2. ~(Lacks(me, i) /\ tokens[i] >= me.n)
    BY <1>3, <2>1 DEF Lacks
  <2> QED
    BY <1>9, <2>2, Zenon
<1>12. \A j \in Children : Lacks(r, j) <=> Lacks(me, j)
  BY <1>9, Zenon DEF Lacks
<1>13. \A j \in Children : r.took[j] > 0 => Lacks(r, j)
  BY <1>7, <1>9, <1>12, Zenon
<1>14. Taken(r)
  <2>1. Untouched(r) => \A j \in Children : r.took[j] = 0
    BY <1>7, <1>10, <1>11, Zenon
  <2>2. r.n > 0 /\ r.pc \in {"deny", "denied"} /\ (mode = "TIERED" => r.pc = "denied")
    BY <1>7, <1>8, <1>9, Zenon
  <2> QED
    BY <1>13, <2>1, <2>2, Zenon DEF Taken
<1>15. StillThere(r)'
  <2>1. Untouched(r)' => Untouched(me)
    BY <1>4, <1>9, Zenon DEF Untouched
  <2>2. Untouched(r)' /\ mode = "AND" => \A j \in Children : tokens'[j] = r.peek[j]
    BY <1>3, <1>9, <1>11, <2>1, Zenon DEF StillThere
  <2>3. r.pc \in {"deny", "denied"} /\ (mode = "TIERED" => r.pc = "denied")
    BY <1>8, <1>9, Zenon
  <2> QED
    BY <1>4, <2>2, <2>3, Zenon DEF StillThere
<1>16. Turn(c)'
  BY <1>1, <1>3, <1>4, <1>8, <1>9, KeepsTurn, Zenon
<1> QED
  BY <1>1, <1>3, <1>9, <1>14, <1>15, <1>16, OneCallSteps, Zenon

\* Phase 2: the children that Peek found with capacity are debited one by one.
LEMMA CommitStep ==
  ASSUME CombInv, NEW c \in CombinedCalls, CombinedCommit(c)
  PROVE  CombInv'
<1>1. PICK me \in CombRecords : me = comb[c]
  BY DEF CombInv, CombType
<1>2. PICK i \in Children : i = me.i
  BY DEF CombRecords
<1>3. /\ me.pc = "commit" /\ Turn(c) /\ Taken(me) /\ StillThere(me) /\ UNCHANGED <<combinedConf, combMu>>
      /\ tokens \in [Children -> Nat] /\ me.n \in Nat /\ me.peek \in [Children -> Nat] /\ me.took \in [Children -> Nat]
  BY <1>1, Zenon DEF CombInv, CombinedCommit, CombType, CombRecords
<1>4. UNCHANGED <<mode, outsiders, blind, crediters>> /\ mode # "OR"
  BY <1>1, <1>3, Zenon DEF combinedConf, Turn
<1>5. i \in 1..ChildCount /\ ChildCount \in Nat \ {0}
  BY CombinedAssumption DEF Children
<1>6. /\ me.n > 0 /\ \A j \in Children : ~Lacks(me, j) /\ me.took[j] = IF j < i THEN me.n ELSE 0
      /\ ~outsiders => \A j \in Children : j >= i => tokens[j] >= me.n
  BY <1>2, <1>3, Zenon DEF Taken, StillThere
<1>7. PICK yes : yes = Onward(c, "allowed")
  BY Zenon
<1>8. yes \in CombRecords /\ yes.n = me.n /\ yes.peek = me.peek /\ yes.took = me.took /\ yes.refilled = me.refilled
  BY <1>1, <1>7, OnwardFields, Zenon
<1>9. IF i = ChildCount THEN yes.pc = "allowed" /\ yes.i = 1 ELSE yes.pc = "commit" /\ yes.i = i + 1
  <2>1. IF AtLastChild(c) THEN yes.pc = "allowed" /\ yes.i = 1 ELSE yes.pc = comb[c].pc /\ yes.i = comb[c].i + 1
    BY <1>1, <1>7, OnwardFields, Zenon
  <2> QED
    BY <1>1, <1>2, <1>3, <2>1, Zenon DEF AtLastChild
<1>10. PICK no : no = [me EXCEPT !.pc = IF mode = "TIERED" THEN "rollback" ELSE "denied"]
  BY Zenon
<1>11. /\ no \in CombRecords /\ no.n = me.n /\ no.i = i /\ no.peek = me.peek /\ no.took = me.took
       /\ no.pc = IF mode = "TIERED" THEN "rollback" ELSE "denied"
  BY <1>2, <1>10, Zenon DEF CombRecords
<1>12. PICK r \in CombRecords :
         /\ comb' = [comb EXCEPT ![c] = r] /\ tokens' \in [Children -> Nat]
         /\ \/ /\ tokens[comb[c].i] < comb[c].n /\ tokens' = tokens /\ r = no
            \/ /\ tokens[comb[c].i] >= comb[c].n
               /\ \A j \in Children : tokens'[j] = IF j = comb[c].i THEN tokens[j] - comb[c].n ELSE tokens[j]
               /\ r.pc = yes.pc /\ r.n = yes.n /\ r.i = yes.i /\ r.peek = yes.peek /\ r.refilled = yes.refilled
               /\ \A j \in Children : r.took[j] = IF j = comb[c].i THEN comb[c].n ELSE yes.took[j]
  <2>1. ChildAllowN(c, yes, no)
    BY <1>1, <1>7, <1>10, Zenon DEF CombinedCommit
  <2> QED
    BY <1>8, <1>11, <2>1, ChildOutcomes
<1>13. \/ tokens[i] < me.n /\ tokens' = tokens /\ r = no
       \/ /\ tokens[i] >= me.n /\ r.pc = yes.pc /\ r.n = me.n /\ r.i = yes.i /\ r.peek = me.peek
          /\ \A j \in Children : tokens'[j] = IF j = i THEN tokens[j] - me.n ELSE tokens[j]
          /\ \A j \in Children : r.took[j] = IF j = i THEN me.n ELSE me.took[j]
  BY <1>1, <1>2, <1>8, <1>12
<1>14. CASE tokens[i] < me.n /\ tokens' = tokens /\ r = no
  <2>1. outsiders
    <3>1. ASSUME ~outsiders PROVE FALSE
      <4>1. i >= i /\ tokens[i] \in Nat
        BY <1>3, <1>5
      <4>2. tokens[i] >= me.n
        BY <1>6, <3>1, <4>1, Zenon
      <4> QED
        BY <1>3, <1>14, <4>1, <4>2
    <3> QED
      BY <3>1, Zenon
  <2>2. r.n > 0 /\ r.pc = (IF mode = "TIERED" THEN "rollback" ELSE "denied")
        /\ \A j \in Children : j > r.i => r.took[j] = 0
    BY <1>5, <1>6, <1>11, <1>14 DEF Children
  <2>3. Taken(r)
    BY <2>1, <2>2, Zenon DEF Taken, KeepsFirstHalf, Untouched
  <2>4. StillThere(r)'
    BY <2>2, Zenon DEF StillThere
  <2>5. Turn(c)'
    BY <1>1, <1>3, <1>4, <1>12, <2>2, KeepsTurn, Zenon
  <2> QED
    BY <1>1, <1>3, <1>12, <2>3, <2>4, <2>5, OneCallSteps, Zenon
<1>15. CASE /\ tokens[i] >= me.n /\ r.pc = yes.pc /\ r.n = me.n /\ r.i = yes.i /\ r.peek = me.peek
            /\ \A j \in Children : tokens'[j] = IF j = i THEN tokens[j] - me.n ELSE tokens[j]
            /\ \A j \in Children : r.took[j] = IF j = i THEN me.n ELSE me.took[j]
  <2>1. r.n > 0 /\ r.pc \in {"commit", "allowed"}
    BY <1>6, <1>9, <1>15, Zenon
  <2>2. r.pc = "commit" => r.i = i + 1
    BY <1>9, <1>15, Zenon
  <2>3. r.pc = "commit" => \A j \in Children : ~Lacks(r, j) /\ r.took[j] = IF j < r.i THEN r.n ELSE 0
    BY <1>5, <1>6, <1>15, <2>2 DEF Lacks, Children
  <2>4. r.pc = "allowed" => \A j \in Children : r.took[j] > 0
    BY <1>5, <1>6, <1>9, <1>15 DEF Children
  <2>5. Taken(r)
    BY <1>4, <2>1, <2>3, <2>4, Zenon DEF Taken
  <2>6. r.pc = "commit" /\ ~outsiders => \A j \in Children : j >= r.i => tokens'[j] >= r.n
    BY <1>5, <1>6, <1>15, <2>2 DEF Children
  <2>7. StillThere(r)'
    BY <1>4, <2>1, <2>6, Zenon DEF StillThere
  <2>8. Turn(c)'
    BY <1>1, <1>3, <1>4, <1>12, <2>1, KeepsTurn, Zenon
  <2> QED
    BY <1>1, <1>3, <1>12, <2>5, <2>7, <2>8, OneCallSteps, Zenon
<1> QED
  BY <1>13, <1>14, <1>15, Zenon

\* rollback: a tier is credited, or passed over.
LEMMA RollbackStep ==
  ASSUME CombInv, NEW c \in CombinedCalls, CombinedRollback(c)
  PROVE  CombInv'
<1>1. PICK me \in CombRecords : me = comb[c]
  BY DEF CombInv, CombType
<1>2. PICK i \in Children : i = me.i
  BY DEF CombRecords
<1>3. /\ me.pc = "rollback" /\ Turn(c) /\ Taken(me) /\ UNCHANGED <<combinedConf, combMu>>
      /\ tokens \in [Children -> Nat] /\ me.n \in Nat /\ me.took \in [Children -> Nat]
      /\ comb \in [CombinedCalls -> CombRecords]
  BY <1>1, Zenon DEF CombInv, CombinedRollback, CombType, CombRecords
<1>4. UNCHANGED <<mode, outsiders, blind, crediters>> /\ mode = "TIERED" /\ outsiders /\ me.n > 0
  BY <1>1, <1>3, Zenon DEF combinedConf, Taken
<1>5. i \in 1..ChildCount /\ ChildCount \in Nat \ {0}
  BY CombinedAssumption DEF Children
<1>6. crediters = Children => \A j \in Children : j > i => me.took[j] = 0
  BY <1>2, <1>3, Zenon DEF Taken
<1>7. ASSUME NEW r \in CombRecords, comb' = [comb EXCEPT ![c] = r], tokens' \in [Children -> Nat],
             r.n = me.n, r.pc \in {"rollback", "denied"},
             crediters = Children => \A j \in Children : (r.pc = "rollback" => j > r.i) => r.took[j] = 0
      PROVE  CombInv'
  <2>1. Taken(r)
    BY <1>4, <1>7 DEF Taken, KeepsFirstHalf, Untouched
  <2>2. StillThere(r)'
    BY <1>7, Zenon DEF StillThere
  <2>3. Turn(c)'
    BY <1>1, <1>3, <1>4, <1>7, KeepsTurn, Zenon
  <2> QED
    BY <1>1, <1>3, <1>7, <2>1, <2>2, <2>3, OneCallSteps, Zenon
<1>8. CASE i \in crediters /\ me.took[i] > 0
  <2>1. tokens' = [tokens EXCEPT ![i] = @ + me.took[i]] /\ comb' = [comb EXCEPT ![c].took[i] = 0]
    BY <1>1, <1>2, <1>8, Zenon DEF CombinedRollback
  <2>2. PICK r : r = [me EXCEPT !.took[i] = 0]
    BY Zenon
  <2>3. r \in CombRecords /\ r.pc = "rollback" /\ r.n = me.n /\ r.i = i /\ r.took = [me.took EXCEPT ![i] = 0]
    BY <1>2, <1>3, <2>2, Zenon DEF CombRecords
  <2>4. comb' = [comb EXCEPT ![c] = r]
    BY <1>1, <1>3, <2>1, <2>2, Zenon
  <2>5. tokens' \in [Children -> Nat]
    BY <1>3, <2>1
  <2>6. crediters = Children => \A j \in Children : j > r.i => r.took[j] = 0
    BY <1>3, <1>6, <2>3, Zenon
  <2> QED
    BY <1>7, <2>3, <2>4, <2>5, <2>6, Zenon
<1>9. CASE ~(i \in crediters /\ me.took[i] > 0)
  <2>1. tokens' = tokens /\ comb' = [comb EXCEPT ![c] = IF i = 1 THEN [me EXCEPT !.pc = "denied"] ELSE [me EXCEPT !.i = i - 1]]
    BY <1>1, <1>2, <1>3, <1>9, Zenon DEF CombinedRollback
  <2>2. PICK r : r = IF i = 1 THEN [me EXCEPT !.pc = "denied"] ELSE [me EXCEPT !.i = i - 1]
    BY Zenon
  <2>3. i # 1 => i - 1 \in Children
    BY <1>5 DEF Children
  <2>4. /\ r \in CombRecords /\ r.n = me.n /\ r.took = me.took
        /\ r.pc = (IF i = 1 THEN "denied" ELSE "rollback") /\ r.i = (IF i = 1 THEN 1 ELSE i - 1)
    BY <1>2, <1>3, <2>2, <2>3, Zenon DEF CombRecords
  <2>5. crediters = Children => me.took[i] = 0
    BY <1>3, <1>9
  <2>6. crediters = Children => \A j \in Children : (r.pc = "rollback" => j > r.i) => r.took[j] = 0
    BY <1>5, <1>6, <2>4, <2>5 DEF Children
  <2> QED
    BY <1>3, <1>7, <2>1, <2>2, <2>4, <2>6, Zenon
<1> QED
  BY <1>8, <1>9, Zenon

\* allowOR: the next child allows, and is the only one debited, or denies.
LEMMA TryStep ==
  ASSUME CombInv, NEW c \in CombinedCalls, CombinedTry(c)
  PROVE  CombInv'
<1>1. PICK me \in CombRecords : me = comb[c]
  BY DEF CombInv, CombType
<1>2. PICK i \in Children : i = me.i
  BY DEF CombRecords
<1>3. me.pc = "try" /\ Turn(c) /\ Taken(me) /\ UNCHANGED <<combinedConf, combMu>> /\ me.n \in Nat
  BY <1>1, Zenon DEF CombInv, CombinedTry, CombType, CombRecords
<1>4. UNCHANGED <<mode, outsiders, blind, crediters>> /\ mode = "OR"
  BY <1>1, <1>3, Zenon DEF combinedConf, Turn
<1>5. me.n > 0 /\ \A j \in Children : me.took[j] = 0
  BY <1>3, Zenon DEF Taken
<1>6. PICK no : no = Onward(c, "denied")
  OBVIOUS
<1>7. no \in CombRecords /\ no.n = me.n /\ no.took = me.took
  BY <1>1, <1>6, OnwardFields, Zenon
<1>8. no.pc \in {"try", "denied"}
  <2>1. IF AtLastChild(c) THEN no.pc = "denied" /\ no.i = 1 ELSE no.pc = comb[c].pc /\ no.i = comb[c].i + 1
    BY <1>1, <1>6, OnwardFields
  <2> QED
    BY <1>1, <1>3, <2>1, Zenon
<1>9. PICK yes : yes = [me EXCEPT !.pc = "allowed"]
  BY Zenon
<1>10. yes \in CombRecords /\ yes.pc = "allowed" /\ yes.n = me.n /\ yes.took = me.took
  BY <1>9, Zenon DEF CombRecords
<1>11. PICK r \in CombRecords :
         /\ comb' = [comb EXCEPT ![c] = r] /\ tokens' \in [Children -> Nat]
         /\ \/ /\ tokens[comb[c].i] < comb[c].n /\ tokens' = tokens /\ r = no
            \/ /\ tokens[comb[c].i] >= comb[c].n
               /\ \A j \in Children : tokens'[j] = IF j = comb[c].i THEN tokens[j] - comb[c].n ELSE tokens[j]
               /\ r.pc = yes.pc /\ r.n = yes.n /\ r.i = yes.i /\ r.peek = yes.peek /\ r.refilled = yes.refilled
               /\ \A j \in Children : r.took[j] = IF j = comb[c].i THEN comb[c].n ELSE yes.took[j]
  <2>1. ChildAllowN(c, yes, no)
    BY <1>1, <1>6, <1>9, Zenon DEF CombinedTry
  <2> QED
    BY <1>7, <1>10, <2>1, ChildOutcomes
<1>12. \/ r.pc \in {"try", "denied"} /\ \A j \in Children : r.took[j] = 0
       \/ r.pc = "allowed" /\ \A j \in Children : r.took[j] > 0 <=> j = i
  BY <1>1, <1>2, <1>5, <1>7, <1>8, <1>10, <1>11
<1>13. r.n = me.n
  BY <1>7, <1>10, <1>11, Zenon
<1>14. Taken(r)
  BY <1>4, <1>5, <1>12, <1>13 DEF Taken
<1>15. StillThere(r)'
  BY <1>12, Zenon DEF StillThere
<1>16. Turn(c)'
  BY <1>1, <1>3, <1>4, <1>11, <1>12, KeepsTurn, Zenon
<1> QED
  BY <1>1, <1>3, <1>11, <1>14, <1>15, <1>16, OneCallSteps, Zenon

\* A call starts, with nothing seen and nothing taken.
LEMMA CombStartStep ==
  ASSUME CombInv, NEW c \in CombinedCalls, NEW n \in CallSizes, CombinedStart(c, n)
  PROVE  CombInv'
<1>1. PICK me \in CombRecords : me = comb[c]
  BY Zenon DEF CombInv, CombType
<1>2. /\ me.pc = "new" /\ Taken(me) /\ UNCHANGED <<combinedConf, tokens>>
      /\ comb \in [CombinedCalls -> CombRecords] /\ tokens \in [Children -> Nat]
  BY <1>1, Zenon DEF CombInv, CombinedStart, CombType
<1>3. UNCHANGED <<mode, outsiders, blind, crediters>> /\ n \in Nat /\ n > 0
  BY <1>2, CombinedAssumption DEF combinedConf
<1>4. PICK r : r = [me EXCEPT !.n = n, !.pc = IF mode = "OR" THEN "try" ELSE "peek"]
  BY Zenon
<1>5. r \in CombRecords /\ r.n = n /\ r.pc = (IF mode = "OR" THEN "try" ELSE "peek") /\ r.i = me.i /\ r.took = me.took
  BY <1>3, <1>4, Zenon DEF CombRecords
<1>6. comb' = [comb EXCEPT ![c] = r]
  BY <1>1, <1>2, <1>4, Zenon DEF CombinedStart
<1>7. \A d \in CombinedCalls : comb'[d] = IF d = c THEN r ELSE comb[d]
  BY <1>2, <1>6, Zenon
<1>8. CombType'
  <2>1. comb' \in [CombinedCalls -> CombRecords]
    BY <1>2, <1>5, <1>6, Zenon
  <2> QED
    BY <1>2, <1>3, <2>1, Zenon DEF CombInv, CombType
<1>9. ASSUME NEW d \in CombinedCalls, d # c PROVE Turn(d)' /\ Taken(comb[d])' /\ StillThere(comb[d])'
  <2>1. PICK it : it = comb[d] /\ it = comb'[d]
    BY <1>7, <1>9, Zenon
  <2>2. Turn(d) /\ Taken(it) /\ StillThere(it)
    BY <2>1, Zenon DEF CombInv
  <2>3. Turn(d)'
    <3>1. mode # "OR" => combMu = {}
      BY Zenon DEF CombinedStart
    <3>2. mode # "OR" => it.pc \in {"new", "over"}
      BY <2>1, <2>2, <3>1, Zenon DEF Turn
    <3> QED
      BY <1>3, <2>1, <2>2, <3>2, Zenon DEF Turn
  <2>4. Taken(comb[d])'
    BY <1>3, <2>1, <2>2, OthersStay, Zenon
  <2>5. StillThere(comb[d])'
    BY <1>2, <1>3, <2>1, <2>2, Zenon DEF StillThere, Untouched
  <2> QED
    BY <2>3, <2>4, <2>5, Zenon
<1>10. Turn(c)' /\ Taken(comb[c])' /\ StillThere(comb[c])'
  <2>1. comb'[c] = r
    BY <1>7, Zenon
  <2>2. me.i = 1 /\ \A j \in Children : r.took[j] = 0
    BY <1>2, <1>5, Zenon DEF Taken
  <2>3. mode' # "OR" => combMu' = {c}
    BY <1>3, Zenon DEF CombinedStart
  <2>4. Turn(c)'
    BY <1>3, <1>5, <2>1, <2>3, Zenon DEF Turn
  <2>5. \A j : j \notin 1..(r.i - 1)
    BY <1>5, <2>2
  <2>6. Taken(comb[c])'
    BY <1>3, <1>5, <2>1, <2>2, <2>5, Zenon DEF Taken
  <2>7. StillThere(comb[c])'
    BY <1>5, <2>1, <2>5, Zenon DEF StillThere
  <2> QED
    BY <2>4, <2>6, <2>7, Zenon
<1> QED
  BY <1>8, <1>9, <1>10, Zenon DEF CombInv

\* A call returns and unlocks.
LEMMA CombReturnStep ==
  ASSUME CombInv, NEW c \in CombinedCalls, CombinedReturn(c)
  PROVE  CombInv'
<1>1. /\ UNCHANGED <<combinedConf, tokens>> /\ comb' = [comb EXCEPT ![c] = CallAt("over")]
      /\ comb \in [CombinedCalls -> CombRecords] /\ combMu' = combMu \ {c} /\ comb[c].pc \in {"allowed", "denied"}
  BY Zenon DEF CombInv, CombinedReturn, CombType
<1>2. UNCHANGED <<mode, outsiders, blind, crediters, tokens>>
  BY <1>1, Zenon DEF combinedConf
<1>3. PICK r \in CombRecords : r = CallAt("over") /\ r.pc = "over"
  <2>1. 1 \in Children
    BY CombinedAssumption DEF Children
  <2>2. PICK r : r = CallAt("over")
    BY Zenon
  <2>3. r \in CombRecords /\ r.pc = "over"
    BY <2>1, <2>2, Zenon DEF CallAt, CombRecords
  <2> QED
    BY <2>2, <2>3, Zenon
<1>4. \A d \in CombinedCalls : comb'[d] = IF d = c THEN r ELSE comb[d]
  BY <1>1, <1>3, Zenon
<1>5. CombType'
  <2>1. comb' \in [CombinedCalls -> CombRecords]
    BY <1>1, <1>3, Zenon
  <2> QED
    BY <1>2, <2>1, Zenon DEF CombInv, CombType
<1>6. ASSUME NEW d \in CombinedCalls, d # c PROVE Turn(d)' /\ Taken(comb[d])' /\ StillThere(comb[d])'
  <2>1. PICK it : it = comb[d] /\ it = comb'[d]
    BY <1>4, <1>6, Zenon
  <2>2. Turn(d) /\ Taken(it) /\ StillThere(it) /\ Turn(c)
    BY <2>1, Zenon DEF CombInv
  <2>3. Turn(d)'
    <3>1. mode # "OR" => it.pc \in {"new", "over"}
      BY <1>1, <1>6, <2>1, <2>2, ZenonT(60) DEF Turn
    <3> QED
      BY <1>2, <2>1, <2>2, <3>1, Zenon DEF Turn
  <2>4. Taken(comb[d])'
    BY <1>2, <2>1, <2>2, OthersStay, Zenon
  <2>5. StillThere(comb[d])'
    BY <1>2, <2>1, <2>2, Zenon DEF StillThere, Untouched
  <2> QED
    BY <2>3, <2>4, <2>5, Zenon
<1>7. Turn(c)' /\ Taken(comb[c])' /\ StillThere(comb[c])'
  BY <1>3, <1>4, Zenon DEF Turn, Taken, StillThere
<1> QED
  BY <1>5, <1>6, <1>7, Zenon DEF CombInv

\* A token comes back to a child: the call that holds the mutex is marked.
LEMMA ChildRefillStep ==
  ASSUME CombInv, NEW i \in Children, ChildRefill(i)
  PROVE  CombInv'
<1>1. /\ UNCHANGED <<mode, outsiders, blind, crediters, combMu>> /\ tokens' = [tokens EXCEPT ![i] = @ + 1]
      /\ comb' = [c \in CombinedCalls |-> [comb[c] EXCEPT !.refilled = @ \/ c \in combMu]]
      /\ comb \in [CombinedCalls -> CombRecords] /\ tokens \in [Children -> Nat]
  BY Zenon DEF CombInv, CombType, ChildRefill, combinedConf
<1>2. tokens' \in [Children -> Nat] /\ \A j \in Children : tokens'[j] >= tokens[j]
  BY <1>1
<1>3. ASSUME NEW c \in CombinedCalls
      PROVE  /\ comb'[c] \in CombRecords /\ comb'[c].pc = comb[c].pc /\ comb'[c].n = comb[c].n /\ comb'[c].i = comb[c].i
             /\ comb'[c].peek = comb[c].peek /\ comb'[c].took = comb[c].took
             /\ ~comb'[c].refilled => ~comb[c].refilled /\ c \notin combMu
  <2>1. PICK me \in CombRecords : me = comb[c]
    BY <1>1, Zenon
  <2>2. PICK b \in BOOLEAN : b <=> (me.refilled \/ c \in combMu)
    BY Zenon
  <2>3. (me.refilled \/ c \in combMu) \in BOOLEAN
    BY Zenon
  <2>4. comb'[c] = [me EXCEPT !.refilled = (me.refilled \/ c \in combMu)]
    BY <1>1, <2>1, Zenon
  <2>5. comb'[c].pc = me.pc /\ comb'[c].n = me.n /\ comb'[c].i = me.i /\ comb'[c].peek = me.peek /\ comb'[c].took = me.took
    BY <2>4, Zenon DEF CombRecords
  <2>6. comb'[c].refilled = (me.refilled \/ c \in combMu)
    BY <2>4, Zenon DEF CombRecords
  <2>7. comb'[c] \in CombRecords
    BY <2>3, <2>4, Zenon DEF CombRecords
  <2> QED
    BY <2>1, <2>5, <2>6, <2>7, Zenon
<1>4. CombType'
  <2>1. comb' \in [CombinedCalls -> CombRecords]
    BY <1>1, <1>3, Zenon
  <2> QED
    BY <1>1, <1>2, <2>1, Zenon DEF CombInv, CombType
<1>5. ASSUME NEW c \in CombinedCalls PROVE Turn(c)' /\ Taken(comb[c])' /\ StillThere(comb[c])'
  <2>1. PICK me : me = comb[c]
    BY Zenon
  <2>2. PICK r : r = comb'[c]
    BY Zenon
  <2>3. /\ me \in CombRecords /\ r.pc = me.pc /\ r.n = me.n /\ r.i = me.i /\ r.peek = me.peek /\ r.took = me.took
        /\ ~r.refilled => ~me.refilled /\ c \notin combMu
    BY <1>1, <1>3, <2>1, <2>2, ZenonT(60)
  <2>4. Turn(c) /\ Taken(me) /\ StillThere(me)
    BY <2>1, Zenon DEF CombInv
  <2>5. Turn(c)'
    BY <1>1, <2>1, <2>2, <2>3, <2>4, Zenon DEF Turn
  <2>6. Untouched(r)' => Untouched(me) /\ c \notin combMu
    BY <1>1, <2>3, Zenon DEF Untouched
  <2>7. \A j : Lacks(r, j) <=> Lacks(me, j)
    BY <2>3, Zenon DEF Lacks
  <2>8. Taken(comb[c])'
    <3>1. (KeepsFirstHalf' <=> KeepsFirstHalf) /\ (\A j : Lacks(r, j)' <=> Lacks(me, j))
      BY <1>1, <2>7, Zenon DEF KeepsFirstHalf, Lacks
    <3>2. Taken(r)'
      BY <1>1, <2>3, <2>4, <2>6, <3>1 DEF Taken
    <3> QED
      BY <2>2, <3>2 DEF Taken, Lacks, Untouched
  <2>9. StillThere(comb[c])'
    <3>1. r.pc \in {"peek", "deny"} => ~Untouched(r)'
      BY <2>1, <2>3, <2>4, <2>6, Zenon DEF Turn
    <3>2. r.pc = "peek" /\ ~outsiders => \A j \in 1..(r.i - 1) : tokens'[j] >= r.peek[j]
      <4>1. \A j \in 1..(r.i - 1) : j \in Children
        BY <2>3, CombinedAssumption DEF CombRecords, Children
      <4> QED
        BY <1>1, <1>2, <2>3, <2>4, <4>1 DEF StillThere, CombRecords
    <3>3. r.pc = "commit" /\ ~outsiders => \A j \in Children : j >= r.i => tokens'[j] >= r.n
      BY <1>1, <1>2, <2>3, <2>4 DEF StillThere, CombRecords
    <3>4. StillThere(r)'
      BY <1>1, <3>1, <3>2, <3>3, Zenon DEF StillThere
    <3> QED
      BY <2>2, <3>4, Zenon DEF StillThere, Untouched
  <2> QED
    BY <2>5, <2>8, <2>9, Zenon
<1> QED
  BY <1>4, <1>5, Zenon DEF CombInv

\* Someone uses a child directly.
LEMMA DirectStep ==
  ASSUME CombInv, NEW i \in Children, DirectAllow(i)
  PROVE  CombInv'
<1>1. /\ UNCHANGED <<mode, outsiders, blind, crediters, combMu, comb>> /\ tokens' = [tokens EXCEPT ![i] = @ - 1]
      /\ tokens \in [Children -> Nat] /\ tokens[i] > 0 /\ outsiders
  BY Zenon DEF CombInv, CombType, DirectAllow, combinedConf
<1>2. CombType'
  <2>1. tokens' \in [Children -> Nat]
    BY <1>1
  <2> QED
    BY <1>1, <2>1, Zenon DEF CombInv, CombType
<1>3. ASSUME NEW c \in CombinedCalls PROVE Turn(c)' /\ Taken(comb[c])' /\ StillThere(comb[c])'
  <2>1. Turn(c) /\ Taken(comb[c])
    BY Zenon DEF CombInv
  <2>2. Turn(c)'
    BY <1>1, <2>1, Zenon DEF Turn
  <2>3. Taken(comb[c])'
    BY <1>1, <2>1, OthersStay, Zenon
  <2>4. StillThere(comb[c])'
    BY <1>1, Zenon DEF StillThere, Untouched
  <2> QED
    BY <2>2, <2>3, <2>4
<1> QED
  BY <1>2, <1>3, Zenon DEF CombInv

\* TakesAllOrNothing for the AND, OR and tiered limiters, any number of children
\* and calls, and any sizes.
THEOREM CombinationTakesAllOrNothing == CombinedSpec => []TakesAllOrNothing
<1>1. CombinedInit => CombInv
  <2> SUFFICES ASSUME CombinedInit PROVE CombInv
    BY Zenon
  <2>1. PICK r : r = CallAt("new")
    BY Zenon
  <2>2. r \in CombRecords /\ r.pc = "new" /\ r.i = 1 /\ \A j \in Children : r.took[j] = 0
    <3>1. 1 \in Children
      BY CombinedAssumption DEF Children
    <3> QED
      BY <2>1, <3>1, Zenon DEF CallAt, CombRecords
  <2>3. comb \in [CombinedCalls -> CombRecords] /\ \A c \in CombinedCalls : comb[c] = r
    BY <2>1, <2>2, Zenon DEF CombinedInit
  <2>4. CombType
    BY <2>3, CombinedAssumption, Zenon DEF CombinedInit, CombType
  <2>5. Taken(r) /\ StillThere(r)
    BY <2>2, Zenon DEF Taken, StillThere
  <2> QED
    BY <2>2, <2>3, <2>4, <2>5, Zenon DEF CombInv, Turn
<1>2. CombInv /\ [CombinedNext]_combinedVars => CombInv'
  <2> SUFFICES ASSUME CombInv, [CombinedNext]_combinedVars PROVE CombInv'
    BY Zenon
  <2>1. CASE CombinedNext
    BY Zenon, <2>1, CombStartStep, PeekStepOf, DenyStep, CommitStep, RollbackStep, TryStep, CombReturnStep,
       ChildRefillStep, DirectStep DEF CombinedNext
  <2>2. CASE UNCHANGED combinedVars
    <3>1. UNCHANGED <<mode, outsiders, blind, crediters>> /\ combMu' = combMu /\ tokens' = tokens /\ comb' = comb
      BY <2>2, Zenon DEF combinedVars
    <3>2. CombType'
      BY <3>1, Zenon DEF CombInv, CombType
    <3>3. ASSUME NEW c \in CombinedCalls PROVE Turn(c)' /\ Taken(comb[c])' /\ StillThere(comb[c])'
      <4>1. Turn(c) /\ Taken(comb[c]) /\ StillThere(comb[c])
        BY Zenon DEF CombInv
      <4>2. Turn(c)'
        BY <3>1, <4>1, Zenon DEF Turn
      <4>3. Taken(comb[c])'
        BY <3>1, <4>1, OthersStay, Zenon
      <4>4. StillThere(comb[c])'
        BY <3>1, <4>1, Zenon DEF StillThere, Untouched
      <4> QED
        BY <4>2, <4>3, <4>4, Zenon
    <3> QED
      BY <3>2, <3>3, Zenon DEF CombInv
  <2> QED
    BY <2>1, <2>2, Zenon
<1>3. CombInv => TakesAllOrNothing
  <2> SUFFICES ASSUME CombInv, NEW c \in CombinedCalls
               PROVE  /\ comb[c].pc = "allowed" =>
                           IF mode = "OR" THEN \E i \in Children : Debited(c) = {i} ELSE Debited(c) = Children
                      /\ comb[c].pc = "denied" /\ KeepsFirstHalf =>
                           /\ \A i \in Debited(c) : Short(c, i)
                           /\ ~outsiders /\ ~comb[c].refilled /\ blind = {} => Debited(c) = {}
    BY Zenon DEF TakesAllOrNothing, KeepsFirstHalf
  <2>1. PICK me : me = comb[c]
    BY Zenon
  <2>2. Taken(me) /\ Debited(c) = {i \in Children : me.took[i] > 0} /\ \A j : Short(c, j) <=> Lacks(me, j)
    BY <2>1, Zenon DEF CombInv, Debited, Short, Lacks
  <2>3. ASSUME me.pc = "allowed", mode = "OR" PROVE \E i \in Children : Debited(c) = {i}
    <3>1. PICK i \in Children : \A j \in Children : me.took[j] > 0 <=> j = i
      BY <2>2, <2>3, Zenon DEF Taken
    <3>2. Debited(c) = {i}
      BY <2>2, <3>1, Zenon
    <3> QED
      BY <3>2, Zenon
  <2>4. me.pc = "allowed" /\ mode # "OR" => Debited(c) = Children
    BY <2>2, Zenon DEF Taken
  <2>5. me.pc = "denied" /\ KeepsFirstHalf => \A i \in Debited(c) : Short(c, i)
    BY <2>2, Zenon DEF Taken
  <2>6. me.pc = "denied" /\ ~outsiders /\ ~me.refilled /\ blind = {} => Debited(c) = {}
    <3>1. me.pc = "denied" /\ ~outsiders /\ ~me.refilled /\ blind = {} => \A j \in Children : me.took[j] = 0
      BY <2>2, Zenon DEF Taken, Untouched
    <3> QED
      BY <2>2, <3>1
  <2> QED
    BY <2>1, <2>3, <2>4, <2>5, <2>6, Zenon
<1> QED
  BY <1>1, <1>2, <1>3, PTL DEF CombinedSpec

-----------------------------------------------------------------------------
(* The debouncer and the throttler                                          *)

\* The only call of its burst, which the leading edge has run.
LoneLeading == leadingDone /\ callCount <= 1

Flags ==
  /\ throttle \in BOOLEAN /\ leading \in BOOLEAN /\ trailing \in BOOLEAN /\ hasMaxWait \in BOOLEAN
  /\ timerRef \in BOOLEAN /\ timerArmed \in BOOLEAN /\ maxArmed \in BOOLEAN
  /\ leadingDone \in BOOLEAN /\ stopped \in BOOLEAN

Counts ==
  /\ stray \in Nat /\ fired \in Nat /\ maxFired \in Nat /\ callCount \in Nat
  /\ triggered \in 0..MaxTriggers /\ pending \in 0..triggered
  /\ started \in [1..MaxTriggers -> Nat]

BounceType == Flags /\ Counts

\* Functions yet to come have not run, the pending one neither unless it was
\* the leading call; a stopped object has no timer and nothing pending; a
\* throttler uses one timer only.
BounceInv ==
  /\ BounceType
  /\ \A i \in 1..MaxTriggers : started[i] <= 1 /\ (i > triggered => started[i] = 0)
  /\ pending # 0 => timerRef /\ (timerArmed \/ fired > 0) /\ (started[pending] = 0 \/ LoneLeading)
  /\ stopped => pending = 0 /\ ~timerRef
  /\ throttle => ~leadingDone /\ stray = 0 /\ ~maxArmed /\ maxFired = 0
  /\ throttle /\ ~stopped => (IF timerArmed THEN 1 ELSE 0) + fired = (IF timerRef THEN 1 ELSE 0)
  /\ ~startedLate

\* A function that has not run is started, or none.
LEMMA StartOnce ==
  ASSUME BounceInv, NEW i \in 0..MaxTriggers, Start(i), i # 0 => ~stopped /\ started[i] = 0
  PROVE  /\ started' \in [1..MaxTriggers -> Nat] /\ ~startedLate'
         /\ \A j \in 1..MaxTriggers : started'[j] <= 1 /\ (j # i => started'[j] = started[j])
<1>1. MaxTriggers \in Nat /\ started \in [1..MaxTriggers -> Nat]
  BY DebounceAssumption, Zenon DEF BounceInv, BounceType, Flags, Counts
<1>2. CASE i = 0
  BY <1>1, <1>2, Zenon DEF Start, BounceInv
<1>3. CASE i # 0
  <2>1. i \in 1..MaxTriggers /\ started' = [started EXCEPT ![i] = started[i] + 1]
    BY <1>1, <1>3 DEF Start
  <2>2. started[i] = 0 /\ started'[i] = 1 /\ (\A j \in 1..MaxTriggers : j # i => started'[j] = started[j])
    BY <1>1, <1>3, <2>1
  <2>3. ~startedLate'
    BY <1>3, Zenon DEF Start, BounceInv
  <2> QED
    BY <1>1, <2>1, <2>2, <2>3 DEF BounceInv
<1> QED
  BY <1>2, <1>3, Zenon

\* Debouncer.Trigger
LEMMA TriggerStep == BounceInv /\ Trigger => BounceInv'
<1> SUFFICES ASSUME BounceInv, Trigger PROVE BounceInv'
  BY Zenon
<1>1. /\ MaxTriggers \in Nat /\ triggered \in Nat /\ triggered' = triggered + 1 /\ triggered' \in 1..MaxTriggers
      /\ ~throttle /\ ~throttle'
  BY DebounceAssumption DEF BounceInv, BounceType, Flags, Counts, Trigger, bounceConf
<1>2. CASE stopped
  BY <1>1, <1>2 DEF Trigger, BounceInv, BounceType, Flags, Counts, LoneLeading, bounceConf, timers, burst
<1>3. CASE ~stopped
  <2>1. PICK i \in 0..MaxTriggers : i = (IF ~timerRef /\ leading THEN triggered' ELSE 0) /\ Start(i)
    BY <1>1, <1>3 DEF Trigger
  <2>2. /\ started' \in [1..MaxTriggers -> Nat] /\ ~startedLate'
        /\ \A j \in 1..MaxTriggers : started'[j] <= 1 /\ (j # i => started'[j] = started[j])
    <3>1. i # 0 => ~stopped /\ started[i] = 0
      BY <1>1, <1>3, <2>1 DEF BounceInv
    <3> QED
      BY <2>1, <3>1, StartOnce, Zenon
  <2>3. /\ pending' = triggered' /\ timerRef' = TRUE /\ timerArmed' = TRUE
        /\ callCount' = (IF timerRef THEN callCount + 1 ELSE 1)
        /\ leadingDone' = (IF timerRef THEN leadingDone ELSE leading)
        /\ UNCHANGED <<fired, maxFired, stopped, bounceConf>>
    BY <1>3, Zenon DEF Trigger
  <2>4. BounceType'
    <3>1. Flags'
      <4>1. maxArmed' \in BOOLEAN
        BY <1>3, Zenon DEF Trigger, BounceInv, BounceType, Flags
      <4>2. leadingDone' \in BOOLEAN
        BY <2>3, Zenon DEF BounceInv, BounceType, Flags
      <4> QED
        BY <2>3, <4>1, <4>2, Zenon DEF BounceInv, BounceType, Flags, bounceConf
    <3>2. stray' \in Nat
      BY <1>3 DEF Trigger, BounceInv, BounceType, Counts
    <3> QED
      BY <1>1, <2>2, <2>3, <3>1, <3>2 DEF BounceInv, BounceType, Counts
  <2>5. \A j \in 1..MaxTriggers : started'[j] <= 1 /\ (j > triggered' => started'[j] = 0)
    BY <1>1, <2>1, <2>2 DEF BounceInv
  <2>6. started'[pending'] = 0 \/ LoneLeading'
    <3>1. CASE i = 0
      BY <1>1, <2>2, <2>3, <3>1 DEF BounceInv
    <3>2. CASE i # 0
      BY <2>1, <2>3, <3>2 DEF LoneLeading
    <3> QED
      BY <3>1, <3>2, Zenon
  <2> QED
    BY <1>1, <1>3, <2>2, <2>3, <2>4, <2>5, <2>6, Zenon DEF BounceInv
<1> QED
  BY <1>2, <1>3, Zenon

\* What takeAndResetLocked hands out has not run.
LEMMA TakenHasNotRun ==
  ASSUME BounceInv, NEW i \in 0..MaxTriggers, TakeAndReset(i), i # 0
  PROVE  ~stopped /\ started[i] = 0 /\ i = pending
BY Zenon DEF TakeAndReset, BounceInv, LoneLeading

\* onTrailing and onMaxWait end the burst.
LEMMA EndOfBurst ==
  ASSUME BounceInv, NEW i \in 0..MaxTriggers, TakeAndReset(i), Start(i), EndBurst,
         stray' \in Nat, fired' \in Nat, maxFired' \in Nat, callCount' \in Nat,
         UNCHANGED <<bounceConf, stopped, triggered>>, ~throttle
  PROVE  BounceInv'
<1>1. /\ started' \in [1..MaxTriggers -> Nat] /\ ~startedLate'
      /\ \A j \in 1..MaxTriggers : started'[j] <= 1 /\ (j # i => started'[j] = started[j])
  BY TakenHasNotRun, StartOnce, Zenon
<1>2. BounceType'
  <2>1. Flags'
    BY Zenon DEF EndBurst, BounceInv, BounceType, Flags, bounceConf
  <2> QED
    BY <1>1, <2>1, DebounceAssumption DEF EndBurst, BounceInv, BounceType, Counts
<1>3. \A j \in 1..MaxTriggers : j > triggered => j # i
  <2>1. i <= triggered
    BY TakenHasNotRun DEF BounceInv, BounceType, Flags, Counts
  <2> QED
    BY <2>1 DEF BounceInv, BounceType, Flags, Counts
<1> QED
  BY <1>1, <1>2, <1>3, Zenon DEF EndBurst, BounceInv, bounceConf

\* The throttler: Trigger and onInterval.
LEMMA ThrottleStep == BounceInv /\ (ThrottleTrigger \/ OnInterval) => BounceInv'
<1> SUFFICES ASSUME BounceInv, ThrottleTrigger \/ OnInterval PROVE BounceInv'
  BY Zenon
<1>1. /\ MaxTriggers \in Nat /\ triggered \in Nat /\ throttle /\ throttle' /\ UNCHANGED bounceConf
      /\ pending \in Nat /\ pending <= triggered /\ triggered <= MaxTriggers
  BY DebounceAssumption DEF BounceInv, BounceType, Flags, Counts, ThrottleTrigger, OnInterval, bounceConf
<1>2. CASE ThrottleTrigger /\ stopped
  BY <1>1, <1>2 DEF ThrottleTrigger, BounceInv, BounceType, Flags, Counts, LoneLeading, bounceConf, timers, burst
<1>3. CASE ThrottleTrigger /\ ~stopped /\ ~timerRef
  <2>1. PICK i \in 1..MaxTriggers : i = triggered' /\ i = triggered + 1
    BY <1>1, <1>3 DEF ThrottleTrigger
  <2>2. /\ Start(i) /\ timerRef' = TRUE /\ timerArmed' = TRUE
        /\ UNCHANGED <<stray, fired, maxFired, maxArmed, pending, callCount, leadingDone, stopped>>
    BY <1>3, <2>1, Zenon DEF ThrottleTrigger, burst
  <2>3. /\ started' \in [1..MaxTriggers -> Nat] /\ ~startedLate'
        /\ \A j \in 1..MaxTriggers : started'[j] <= 1 /\ (j # i => started'[j] = started[j])
    BY <1>1, <1>3, <2>1, <2>2, StartOnce DEF BounceInv
  <2>4. BounceType'
    BY <1>1, <2>1, <2>2, <2>3 DEF BounceInv, BounceType, Flags, Counts, bounceConf
  <2>5. pending = 0 /\ fired = 0 /\ ~timerArmed
    BY <1>1, <1>3 DEF BounceInv, BounceType, Flags, Counts
  <2> QED
    BY <1>1, <1>3, <2>1, <2>2, <2>3, <2>4, <2>5 DEF BounceInv
<1>4. CASE ThrottleTrigger /\ ~stopped /\ timerRef
  <2>1. PICK i \in 1..MaxTriggers : i = triggered' /\ i = triggered + 1
    BY <1>1, <1>4 DEF ThrottleTrigger
  <2>2. /\ pending' = (IF trailing THEN i ELSE pending)
        /\ UNCHANGED <<timers, callCount, leadingDone, stopped, started, startedLate>>
    BY <1>4, <2>1, Zenon DEF ThrottleTrigger
  <2>3. BounceType'
    BY <1>1, <2>1, <2>2 DEF BounceInv, BounceType, Flags, Counts, bounceConf, timers
  <2>4. started[i] = 0 /\ ~leadingDone /\ (timerArmed \/ fired > 0)
    BY <1>1, <1>4, <2>1 DEF BounceInv, BounceType, Flags, Counts
  <2> QED
    BY <1>1, <1>4, <2>1, <2>2, <2>3, <2>4 DEF BounceInv, LoneLeading, timers
<1>5. CASE OnInterval /\ stopped
  BY <1>1, <1>5 DEF OnInterval, BounceInv, BounceType, Flags, Counts, LoneLeading, bounceConf
<1>6. CASE OnInterval /\ ~stopped
  <2>1. PICK i \in 0..MaxTriggers : i = pending
    BY <1>1
  <2>2. /\ Start(i) /\ timerRef' = (i # 0) /\ timerArmed' = (i # 0) /\ pending' = 0
        /\ fired > 0 /\ fired' = fired - 1
        /\ UNCHANGED <<maxArmed, stray, maxFired, callCount, leadingDone, stopped, triggered>>
    BY <1>6, <2>1, Zenon DEF OnInterval
  <2>3. i # 0 => started[i] = 0
    BY <1>1, <2>1, Zenon DEF BounceInv, LoneLeading
  <2>4. /\ started' \in [1..MaxTriggers -> Nat] /\ ~startedLate'
        /\ \A j \in 1..MaxTriggers : started'[j] <= 1 /\ (j # i => started'[j] = started[j])
    BY <1>6, <2>2, <2>3, StartOnce, Zenon
  <2>5. fired = 1 /\ fired \in Nat
    BY <1>1, <1>6, <2>2 DEF BounceInv, BounceType, Flags, Counts
  <2>6. BounceType'
    BY <1>1, <2>1, <2>2, <2>4, <2>5 DEF BounceInv, BounceType, Flags, Counts, bounceConf
  <2> QED
    BY <1>1, <1>6, <2>1, <2>2, <2>4, <2>5, <2>6 DEF BounceInv
<1> QED
  BY <1>2, <1>3, <1>4, <1>5, <1>6, Zenon DEF ThrottleTrigger

\* Trigger, onTrailing, onMaxWait and onInterval: however late callbacks, new
\* triggers and Stop interleave, no function runs twice, none after Stop, and
\* a pending one has a callback on the way; for any number of triggers.
THEOREM FunctionsRunOnce == BounceSpec => []TriggersRunOnce
<1>1. BounceInit => BounceInv
  <2> SUFFICES ASSUME BounceInit PROVE BounceInv
    OBVIOUS
  <2>1. BounceType
    <3>1. Flags
      BY Zenon DEF BounceInit, Flags
    <3> QED
      BY <3>1, DebounceAssumption DEF BounceInit, BounceType, Counts
  <2> QED
    BY <2>1, DebounceAssumption DEF BounceInit, BounceInv
<1>2. BounceInv /\ [BounceNext]_bounceVars => BounceInv'
  <2> SUFFICES ASSUME BounceInv, [BounceNext]_bounceVars PROVE BounceInv'
    OBVIOUS
  <2>1. CASE OnTrailing
    <3>1. PICK i \in 0..MaxTriggers : TakeAndReset(i) /\ Start(i)
      BY <2>1, Zenon DEF OnTrailing
    <3>2. stray' \in Nat /\ fired' \in Nat /\ maxFired' \in Nat /\ callCount' \in Nat
      BY <2>1 DEF OnTrailing, BounceInv, BounceType, Flags, Counts
    <3> QED
      BY <2>1, <3>1, <3>2, EndOfBurst, Zenon DEF OnTrailing
  <2>2. CASE OnMaxWait
    <3>1. ~throttle /\ maxFired' \in Nat
      BY <2>2 DEF OnMaxWait, BounceInv, BounceType, Flags, Counts
    <3>2. CASE ~timerRef
      BY <2>2, <3>1, <3>2, Zenon DEF OnMaxWait, BounceInv, BounceType, Flags, Counts, LoneLeading, burst, bounceConf
    <3>3. CASE timerRef
      <4>1. PICK i \in 0..MaxTriggers : TakeAndReset(i) /\ Start(i)
        BY <2>2, <3>3, Zenon DEF OnMaxWait
      <4>2. stray' \in Nat /\ fired' \in Nat /\ maxFired' \in Nat /\ callCount' \in Nat
        BY <2>2, <3>1, <3>3, Zenon DEF OnMaxWait, BounceInv, BounceType, Flags, Counts
      <4> QED
        BY <2>2, <3>1, <3>3, <4>1, <4>2, EndOfBurst, Zenon DEF OnMaxWait
    <3> QED
      BY <3>2, <3>3, Zenon DEF BounceInv, BounceType, Flags, Counts
  <2>3. CASE Fire
    <3>1. BounceType'
      <4>1. Flags'
        BY <2>3, Zenon DEF Fire, BounceInv, BounceType, Flags, burst, bounceConf
      <4> QED
        BY <2>3, <4>1, DebounceAssumption DEF Fire, BounceInv, BounceType, Counts, burst
    <3>2. CASE timerArmed /\ timerArmed' = FALSE /\ fired' = fired + 1 /\ UNCHANGED <<maxArmed, maxFired, stray>>
      BY <2>3, <3>1, <3>2 DEF Fire, BounceInv, BounceType, Flags, Counts, LoneLeading, burst, bounceConf
    <3>3. CASE stray > 0 /\ stray' = stray - 1 /\ fired' = fired + 1 /\ UNCHANGED <<timerArmed, maxArmed, maxFired>>
      BY <2>3, <3>1, <3>3 DEF Fire, BounceInv, BounceType, Flags, Counts, LoneLeading, burst, bounceConf
    <3>4. CASE maxArmed /\ maxArmed' = FALSE /\ maxFired' = maxFired + 1 /\ UNCHANGED <<timerArmed, fired, stray>>
      BY <2>3, <3>1, <3>4, Zenon DEF Fire, BounceInv, BounceType, Flags, Counts, LoneLeading, burst, bounceConf
    <3> QED
      BY <2>3, <3>2, <3>3, <3>4, Zenon DEF Fire
  <2>4. CASE Stop
    <3>1. BounceType'
      <4>1. Flags'
        BY <2>4, Zenon DEF Stop, BounceInv, BounceType, Flags, bounceConf
      <4> QED
        BY <2>4, <4>1, DebounceAssumption DEF Stop, BounceInv, BounceType, Counts
    <3> QED
      BY <2>4, <3>1, Zenon DEF Stop, BounceInv, bounceConf
  <2>5. CASE UNCHANGED bounceVars
    BY <2>5, ZenonT(60) DEF bounceVars, timers, burst, bounceConf, BounceInv, BounceType, Flags, Counts, LoneLeading
  <2> QED
    BY <2>1, <2>2, <2>3, <2>4, <2>5, TriggerStep, ThrottleStep, Zenon DEF BounceNext
<1>3. BounceInv => TriggersRunOnce
  BY Zenon DEF BounceInv, BounceType, Flags, Counts, TriggersRunOnce
<1> QED
  BY <1>1, <1>2, <1>3, PTL DEF BounceSpec

-----------------------------------------------------------------------------
(* The WebSocket hub                                                        *)

HubType ==
  /\ members \subseteq WsClients
  /\ registerQ \in Seq(WsClients) /\ unregisterQ \in Seq(WsClients)
  /\ handler \in [WsClients -> {"new", "reading", "leaving", "gone"}]
  /\ writePump \in [WsClients -> {"none", "running", "exited"}]
  /\ sendOpen \in [WsClients -> BOOLEAN]

Waits(c) == c \in Range(registerQ)
Leaves(c) == c \in Range(unregisterQ)

NoDuplicates(s) == \A i, j \in 1..Len(s) : s[i] = s[j] => i = j

\* A client waits to be registered once, before it is a member, and its channel
\* is open until it is a member no more.
MembersInv ==
  /\ NoDuplicates(registerQ)
  /\ \A c \in WsClients : handler[c] = "new" => writePump[c] = "none" /\ c \notin members /\ ~Waits(c)
  /\ \A c \in WsClients : writePump[c] = "none" => c \notin members /\ ~Waits(c)
  /\ \A c \in WsClients : Waits(c) => c \notin members
  /\ ~hubRunning => members = {}

ChannelsInv ==
  /\ \A c \in WsClients : Waits(c) \/ c \in members \/ writePump[c] = "none" <=> sendOpen[c]
  /\ ~sendPanics

\* A client whose leave was read is gone, or was not yet there when it was read.
GoneInv == \A c \in WsClients : handler[c] = "gone" /\ ~Leaves(c) => c \in overtaken \/ (c \notin members /\ ~Waits(c))

HubInv == HubType /\ MembersInv /\ ChannelsInv /\ GoneInv

\* A channel after a send (the register and unregister buffers).
LEMMA AfterSend ==
  ASSUME NEW S, NEW s \in Seq(S), NEW x \in S
  PROVE  /\ Append(s, x) \in Seq(S)
         /\ \A c : c \in Range(Append(s, x)) <=> c \in Range(s) \/ c = x
         /\ NoDuplicates(s) /\ x \notin Range(s) => NoDuplicates(Append(s, x))
<1>1. Append(s, x) \in Seq(S) /\ Len(s) \in Nat /\ Len(Append(s, x)) = Len(s) + 1
  OBVIOUS
<1>2. Append(s, x)[Len(s) + 1] = x /\ \A i \in 1..Len(s) : Append(s, x)[i] = s[i]
  OBVIOUS
<1>3. ASSUME NEW c PROVE c \in Range(Append(s, x)) <=> c \in Range(s) \/ c = x
  <2>1. ASSUME c \in Range(Append(s, x)), c # x PROVE c \in Range(s)
    <3>1. PICK i \in 1..Len(Append(s, x)) : Append(s, x)[i] = c
      BY <2>1 DEF Range
    <3>2. i \in 1..Len(s) /\ s[i] = c
      BY <1>1, <1>2, <2>1, <3>1
    <3> QED
      BY <3>2 DEF Range
  <2>2. ASSUME c \in Range(s) PROVE c \in Range(Append(s, x))
    <3>1. PICK i \in 1..Len(s) : s[i] = c
      BY <2>2 DEF Range
    <3>2. i \in 1..Len(Append(s, x)) /\ Append(s, x)[i] = c
      BY <1>1, <1>2, <3>1
    <3> QED
      BY <3>2 DEF Range
  <2>3. x \in Range(Append(s, x))
    BY <1>1, <1>2 DEF Range
  <2> QED
    BY <2>1, <2>2, <2>3, Zenon
<1>4. ASSUME NoDuplicates(s), x \notin Range(s) PROVE NoDuplicates(Append(s, x))
  BY <1>1, <1>2, <1>4 DEF NoDuplicates, Range
<1> QED
  BY <1>1, <1>3, <1>4, Zenon

\* A channel after a receive (the select of Run).
LEMMA AfterReceive ==
  ASSUME NEW S, NEW s \in Seq(S), s # <<>>
  PROVE  /\ Tail(s) \in Seq(S) /\ Head(s) \in S
         /\ \A c : c \in Range(s) <=> c = Head(s) \/ c \in Range(Tail(s))
         /\ NoDuplicates(s) => NoDuplicates(Tail(s)) /\ Head(s) \notin Range(Tail(s))
<1>1. Tail(s) \in Seq(S) /\ Head(s) \in S /\ Len(s) \in Nat /\ Len(s) > 0
  OBVIOUS
<1>2. Len(Tail(s)) = Len(s) - 1 /\ Head(s) = s[1] /\ \A i \in 1..Len(Tail(s)) : Tail(s)[i] = s[i + 1]
  OBVIOUS
<1>3. ASSUME NEW c PROVE c \in Range(s) <=> c = Head(s) \/ c \in Range(Tail(s))
  <2>1. ASSUME c \in Range(s), c # Head(s) PROVE c \in Range(Tail(s))
    <3>1. PICK i \in 1..Len(s) : s[i] = c
      BY <2>1 DEF Range
    <3>2. i - 1 \in 1..Len(Tail(s)) /\ Tail(s)[i - 1] = c
      BY <1>1, <1>2, <2>1, <3>1
    <3>3. DOMAIN Tail(s) = 1..Len(Tail(s))
      BY <1>1
    <3> QED
      BY <3>2, <3>3, Zenon DEF Range
  <2>2. ASSUME c \in Range(Tail(s)) PROVE c \in Range(s)
    <3>1. PICK i \in 1..Len(Tail(s)) : Tail(s)[i] = c
      BY <2>2 DEF Range
    <3>2. i + 1 \in 1..Len(s) /\ s[i + 1] = c
      BY <1>1, <1>2, <3>1
    <3> QED
      BY <3>2 DEF Range
  <2>3. Head(s) \in Range(s)
    BY <1>1, <1>2 DEF Range
  <2> QED
    BY <2>1, <2>2, <2>3, Zenon
<1>4. ASSUME NoDuplicates(s) PROVE NoDuplicates(Tail(s)) /\ Head(s) \notin Range(Tail(s))
  <2>1. NoDuplicates(Tail(s))
    BY <1>1, <1>2, <1>4 DEF NoDuplicates
  <2>2. Head(s) \notin Range(Tail(s))
    BY <1>1, <1>2, <1>4 DEF NoDuplicates, Range
  <2> QED
    BY <2>1, <2>2, Zenon
<1> QED
  BY <1>1, <1>3, <1>4, Zenon
\* A client connects, or is turned away once the hub shuts down (upgrade).
LEMMA UpgradeStep == ASSUME HubInv, NEW c \in WsClients, Upgrade(c) PROVE HubInv'
<1>1. handler[c] = "new" /\ UNCHANGED <<members, unregisterQ, hubRunning, sendOpen, overtaken, sendPanics>>
  BY Zenon DEF Upgrade
<1>2. writePump[c] = "none" /\ c \notin members /\ ~Waits(c)
  BY <1>1, Zenon DEF HubInv, MembersInv
<1>3. CASE registerQ' = Append(registerQ, c) /\ handler' = [handler EXCEPT ![c] = "reading"]
             /\ writePump' = [writePump EXCEPT ![c] = "running"]
  <2>1. registerQ' \in Seq(WsClients) /\ NoDuplicates(registerQ') /\ \A d : Waits(d)' <=> Waits(d) \/ d = c
    BY <1>2, <1>3, AfterSend, Zenon DEF HubInv, HubType, MembersInv, Waits
  <2>2. HubType'
    BY <1>1, <1>3, <2>1, Zenon DEF HubInv, HubType
  <2>3. \A d \in WsClients : /\ handler'[d] = IF d = c THEN "reading" ELSE handler[d]
                             /\ writePump'[d] = IF d = c THEN "running" ELSE writePump[d]
    BY <1>3, Zenon DEF HubInv, HubType
  <2>4. MembersInv'
    BY <1>1, <1>2, <2>1, <2>3, Zenon DEF HubInv, MembersInv
  <2>5. ChannelsInv'
    BY <1>1, <1>2, <2>1, <2>3, Zenon DEF HubInv, ChannelsInv
  <2>6. GoneInv'
    BY <1>1, <2>1, <2>3, Zenon DEF HubInv, GoneInv, Leaves
  <2> QED
    BY <2>2, <2>4, <2>5, <2>6, Zenon DEF HubInv
<1>4. CASE handler' = [handler EXCEPT ![c] = "gone"] /\ UNCHANGED <<registerQ, writePump>>
  <2>1. HubType'
    BY <1>1, <1>4, Zenon DEF HubInv, HubType
  <2>2. \A d \in WsClients : handler'[d] = IF d = c THEN "gone" ELSE handler[d]
    BY <1>4, Zenon DEF HubInv, HubType
  <2>3. MembersInv'
    BY <1>1, <1>4, <2>2, Zenon DEF HubInv, MembersInv, Waits
  <2>4. ChannelsInv'
    BY <1>1, <1>4, Zenon DEF HubInv, ChannelsInv, Waits
  <2>5. GoneInv'
    BY <1>1, <1>2, <1>4, <2>2, Zenon DEF HubInv, GoneInv, Leaves, Waits
  <2> QED
    BY <2>1, <2>3, <2>4, <2>5 DEF HubInv
<1> QED
  BY <1>3, <1>4, Zenon DEF Upgrade

\* A client's read pump ends; its handler asks the hub to let it go (upgrade).
LEMMA LeaveStep ==
  ASSUME HubInv, NEW c \in WsClients, ReadPumpEnds(c) \/ Unregister(c) PROVE HubInv'
<1>1. UNCHANGED <<members, registerQ, hubRunning, writePump, sendOpen, overtaken, sendPanics>>
  BY Zenon DEF ReadPumpEnds, Unregister, hubChans
<1>2. PICK h \in {"leaving", "gone"} :
        /\ handler' = [handler EXCEPT ![c] = h] /\ handler[c] # "gone"
        /\ h = "leaving" => unregisterQ' = unregisterQ
        /\ h = "gone" => unregisterQ' = Append(unregisterQ, c)
  BY Zenon DEF ReadPumpEnds, Unregister, hubChans
<1>3. unregisterQ' \in Seq(WsClients) /\ \A d : Leaves(d)' <=> Leaves(d) \/ (h = "gone" /\ d = c)
  <2>1. CASE h = "leaving"
    BY <1>2, <2>1, Zenon DEF HubInv, HubType, Leaves
  <2>2. CASE h = "gone"
    <3>1. unregisterQ \in Seq(WsClients) /\ unregisterQ' = Append(unregisterQ, c)
      BY <1>2, <2>2, Zenon DEF HubInv, HubType
    <3>2. /\ Append(unregisterQ, c) \in Seq(WsClients)
          /\ \A d : d \in Range(Append(unregisterQ, c)) <=> d \in Range(unregisterQ) \/ d = c
      BY <3>1, AfterSend, Zenon
    <3> QED
      BY <2>2, <3>1, <3>2, Zenon DEF Leaves
  <2> QED
    BY <2>1, <2>2, Zenon
<1>4. HubType'
  BY <1>1, <1>2, <1>3, Zenon DEF HubInv, HubType
<1>5. \A d \in WsClients : handler'[d] = IF d = c THEN h ELSE handler[d]
  BY <1>2, Zenon DEF HubInv, HubType
<1>6. MembersInv'
  BY <1>1, <1>2, <1>5, Zenon DEF HubInv, MembersInv, Waits
<1>7. ChannelsInv'
  BY <1>1, Zenon DEF HubInv, ChannelsInv, Waits
<1>8. GoneInv'
  BY <1>1, <1>3, <1>5, Zenon DEF HubInv, GoneInv, Waits
<1> QED
  BY <1>4, <1>6, <1>7, <1>8, Zenon DEF HubInv

\* Run registers a client and sends it the welcome.
LEMMA RegisterStep == ASSUME HubInv, RunRegister PROVE HubInv'
<1>1. PICK c \in WsClients : c = Head(registerQ)
  BY AfterReceive, Zenon DEF RunRegister, HubInv, HubType
<1>2. /\ registerQ # <<>> /\ registerQ' = Tail(registerQ) /\ members' = members \cup {c} /\ hubRunning
      /\ sendPanics' = (sendPanics \/ ~sendOpen[c])
      /\ UNCHANGED <<unregisterQ, hubRunning, handler, writePump, sendOpen, overtaken>>
  BY <1>1, Zenon DEF RunRegister, SendTo
<1>3. /\ registerQ' \in Seq(WsClients) /\ NoDuplicates(registerQ') /\ Waits(c) /\ ~Waits(c)'
      /\ \A d : Waits(d) <=> d = c \/ Waits(d)'
  BY <1>1, <1>2, AfterReceive, Zenon DEF HubInv, HubType, MembersInv, Waits
<1>4. HubType'
  BY <1>2, <1>3, Zenon DEF HubInv, HubType
<1>5. handler[c] # "new" /\ writePump[c] # "none" /\ sendOpen[c]
  BY <1>3, Zenon DEF HubInv, MembersInv, ChannelsInv
<1>6. MembersInv'
  BY <1>2, <1>3, <1>5, Zenon DEF HubInv, MembersInv
<1>7. ChannelsInv'
  BY <1>2, <1>3, <1>5, Zenon DEF HubInv, ChannelsInv
<1>8. GoneInv'
  BY <1>2, <1>3, Zenon DEF HubInv, GoneInv, Leaves
<1> QED
  BY <1>4, <1>6, <1>7, <1>8, Zenon DEF HubInv

\* Run lets a client go and closes its channel, if it is a member.
LEMMA UnregisterStep == ASSUME HubInv, RunUnregister PROVE HubInv'
<1>1. PICK c \in WsClients : c = Head(unregisterQ)
  BY AfterReceive, Zenon DEF RunUnregister, HubInv, HubType
<1>2. /\ unregisterQ # <<>> /\ unregisterQ' = Tail(unregisterQ) /\ members' = members \ {c}
      /\ sendOpen' = [sendOpen EXCEPT ![c] = sendOpen[c] /\ c \notin members]
      /\ overtaken' = overtaken \cup ({c} \ members)
      /\ UNCHANGED <<registerQ, hubRunning, handler, writePump, sendPanics>>
  BY <1>1, Zenon DEF RunUnregister
<1>3. unregisterQ' \in Seq(WsClients) /\ \A d : Leaves(d) <=> d = c \/ Leaves(d)'
  BY <1>1, <1>2, AfterReceive, Zenon DEF HubInv, HubType, Leaves
<1>4. \A d \in WsClients : sendOpen'[d] <=> sendOpen[d] /\ ~(d = c /\ c \in members)
  BY <1>2, Zenon DEF HubInv, HubType
<1>5. HubType'
  <2>1. sendOpen' \in [WsClients -> BOOLEAN]
    BY <1>2, Zenon DEF HubInv, HubType
  <2> QED
    BY <1>2, <1>3, <2>1, Zenon DEF HubInv, HubType
<1>6. MembersInv'
  BY <1>2, Zenon DEF HubInv, MembersInv, Waits
<1>7. ChannelsInv'
  <2>1. \A d \in WsClients : d \in members' <=> d \in members /\ d # c
    BY <1>2, Zenon
  <2>2. \A d \in WsClients : Waits(d)' <=> Waits(d)
    BY <1>2, Zenon DEF Waits
  <2>3. c \in members => ~Waits(c) /\ writePump[c] # "none"
    BY Zenon DEF HubInv, MembersInv
  <2> QED
    BY <1>2, <1>4, <2>1, <2>2, <2>3, Zenon DEF HubInv, ChannelsInv
<1>8. GoneInv'
  BY <1>2, <1>3, Zenon DEF HubInv, GoneInv, MembersInv, Waits
<1> QED
  BY <1>5, <1>6, <1>7, <1>8 DEF HubInv

\* Run hands a message to the members that want it.
LEMMA BroadcastStep == ASSUME HubInv, RunBroadcast PROVE HubInv'
<1>1. PICK cs \in SUBSET members :
        /\ sendPanics' = (sendPanics \/ \E c \in cs : ~sendOpen[c])
        /\ UNCHANGED <<members, registerQ, unregisterQ, hubRunning, handler, writePump, sendOpen, overtaken>>
  <2>1. {c \in members : ClientWantsMessage(c, Head(broadcastQ))} \in SUBSET members
    BY Zenon
  <2> QED
    BY <2>1, Zenon DEF RunBroadcast, SendTo
<1>2. \A c \in cs : sendOpen[c]
  BY Zenon DEF HubInv, HubType, ChannelsInv
<1>3. ~sendPanics'
  BY <1>1, <1>2, Zenon DEF HubInv, ChannelsInv
<1> QED
  BY <1>1, <1>3, Zenon DEF HubInv, HubType, MembersInv, ChannelsInv, GoneInv, Waits, Leaves

\* Run ends: it closes the channel of every member.
LEMMA DoneStep == ASSUME HubInv, RunDone PROVE HubInv'
<1>1. /\ ~hubRunning' /\ members' = {}
      /\ sendOpen' = [c \in WsClients |-> sendOpen[c] /\ c \notin members]
      /\ UNCHANGED <<registerQ, unregisterQ, handler, writePump, overtaken, sendPanics>>
  BY Zenon DEF RunDone, hubChans
<1>2. \A c \in WsClients : sendOpen'[c] <=> sendOpen[c] /\ c \notin members
  BY <1>1, Zenon
<1>3. HubType'
  <2>1. sendOpen' \in [WsClients -> BOOLEAN]
    BY <1>1, Zenon
  <2> QED
    BY <1>1, <2>1, Zenon DEF HubInv, HubType
<1>4. MembersInv'
  BY <1>1, Zenon DEF HubInv, MembersInv, Waits
<1>5. ChannelsInv'
  <2>1. \A c \in WsClients : c \in members => ~Waits(c) /\ writePump[c] # "none"
    BY Zenon DEF HubInv, MembersInv
  <2>2. \A c \in WsClients : (Waits(c)' <=> Waits(c)) /\ c \notin members'
    BY <1>1, Zenon DEF Waits
  <2> QED
    BY <1>1, <1>2, <2>1, <2>2, Zenon DEF HubInv, ChannelsInv
<1>6. GoneInv'
  BY <1>1, Zenon DEF HubInv, GoneInv, Waits, Leaves
<1> QED
  BY <1>3, <1>4, <1>5, <1>6, Zenon DEF HubInv

(***************************************************************************)
(* The hub keeps order, for every number of clients and sizes of the       *)
(* buffers: it never sends on a channel it closed, and leaves no member    *)
(* behind, however its select orders registers, unregisters, broadcasts    *)
(* and the shutdown (hub.go Run, websocket.go upgrade).                    *)
(***************************************************************************)
THEOREM HubKeepsOrder == HubSpec => []HubSettles
<1>1. HubInit => HubInv
  <2> SUFFICES ASSUME HubInit PROVE HubInv
    OBVIOUS
  <2>1. /\ members = {} /\ registerQ = <<>> /\ unregisterQ = <<>> /\ hubRunning
        /\ handler = [c \in WsClients |-> "new"] /\ writePump = [c \in WsClients |-> "none"]
    BY Zenon DEF HubInit
  <2>2. HubType
    <3>1. sendOpen \in [WsClients -> BOOLEAN]
      BY Zenon DEF HubInit
    <3> QED
      BY <2>1, <3>1 DEF HubType
  <2>3. \A c : ~Waits(c)
    BY <2>1 DEF Waits, Range
  <2>4. MembersInv
    BY <2>1, <2>3 DEF MembersInv, NoDuplicates
  <2>5. ChannelsInv
    BY <2>3, Zenon DEF HubInit, ChannelsInv
  <2>6. GoneInv
    BY <2>1, Zenon DEF GoneInv
  <2> QED
    BY <2>2, <2>4, <2>5, <2>6, Zenon DEF HubInv
<1>2. HubInv /\ [HubNext]_hubVars => HubInv'
  <2> SUFFICES ASSUME HubInv, [HubNext]_hubVars PROVE HubInv'
    OBVIOUS
  <2>1. ASSUME NEW c \in WsClients, WritePump(c) PROVE HubInv'
    <3>1. /\ UNCHANGED <<members, registerQ, unregisterQ, hubRunning, handler, sendOpen, overtaken, sendPanics>>
          /\ writePump[c] = "running" /\ (writePump' = writePump \/ writePump' = [writePump EXCEPT ![c] = "exited"])
      BY <2>1, Zenon DEF WritePump, hubChans
    <3>2. HubType' /\ \A d \in WsClients : writePump'[d] = "none" <=> writePump[d] = "none"
      BY <3>1, Zenon DEF HubInv, HubType
    <3>3. MembersInv' /\ GoneInv'
      BY <3>1, <3>2, Zenon DEF HubInv, MembersInv, GoneInv, Waits, Leaves
    <3>4. ChannelsInv'
      BY <3>1, <3>2, Zenon DEF HubInv, ChannelsInv, Waits
    <3> QED
      BY <3>2, <3>3, <3>4, Zenon DEF HubInv
  <2>2. CASE \/ \E topic \in {"", "a", "b"} : Broadcast(topic)
             \/ StopHub
             \/ UNCHANGED hubVars
    <3>1. UNCHANGED <<members, registerQ, unregisterQ, hubRunning, handler, writePump, sendOpen, overtaken, sendPanics>>
      BY <2>2, Zenon DEF Broadcast, StopHub, hubVars, hubChans, clientState
    <3> QED
      BY <3>1, Zenon DEF HubInv, HubType, MembersInv, ChannelsInv, GoneInv, Waits, Leaves
  <2> QED
    BY <2>1, <2>2, UpgradeStep, LeaveStep, RegisterStep, UnregisterStep, BroadcastStep, DoneStep, Zenon DEF HubNext
<1>3. HubInv => HubSettles
  BY Zenon DEF HubInv, MembersInv, ChannelsInv, GoneInv, Waits, Leaves, HubSettles
<1> QED
  BY <1>1, <1>2, <1>3, PTL DEF HubSpec

-----------------------------------------------------------------------------
(* The distributed circuit breaker                                          *)

Record5 ==
  [state : {"Closed", "Open", "HalfOpen"}, failures : 0..(FailureThreshold - 1),
   successes : 0..(SuccessThreshold - 1), inflight : 0..HalfOpenMaxRequests,
   age : 0..OpenTimeout]

-----------------------------------------------------------------------------
(* What the scripts do to a well-formed record.                             *)

\* A key that does not exist reads as a well-formed record.
LEMMA FreshType == Fresh \in Record5 /\ Opened \in Record5
BY DistributedAssumption DEF Fresh, Opened, Record5

\* The acquire script keeps the record well-formed and a fresh one as it is.
LEMMA AcquireType ==
  ASSUME NEW s \in Record5
  PROVE  /\ Promoted(s) \in Record5 /\ Reserved(Promoted(s)) \in Record5
         /\ s = Fresh => Reserved(Promoted(s)) = Fresh
<1>1. Promoted(s) \in Record5
  <2>1. 0 \in 0..(SuccessThreshold - 1) /\ 0 \in 0..HalfOpenMaxRequests
    BY DistributedAssumption
  <2>2. [s EXCEPT !.state = "HalfOpen", !.successes = 0, !.inflight = 0] \in Record5
    BY <2>1, Zenon DEF Record5
  <2> QED BY <2>2, Zenon DEF Promoted
<1>2. \A q \in Record5 : Reserved(q) \in Record5
  BY DistributedAssumption DEF Reserved, Record5
<1>3. s = Fresh => Reserved(Promoted(s)) = Fresh
  BY DEF Reserved, Promoted, Fresh
<1> QED BY <1>1, <1>2, <1>3, Zenon

\* So does the record script.
LEMMA RecordType ==
  ASSUME NEW s \in Record5, NEW p \in BOOLEAN, NEW f \in BOOLEAN
  PROVE  AfterOutcome(Released(s, p), f) \in Record5
<1>1. Released(s, p) \in Record5
  BY DistributedAssumption DEF Released, Record5
<1>2. \A q \in Record5 : AfterOutcome(q, f) \in Record5
  <2> TAKE q \in Record5
  <2>1. CASE q.state = "HalfOpen"
    BY <2>1, FreshType, DistributedAssumption DEF AfterOutcome, Record5
  <2>2. CASE q.state = "Closed"
    BY <2>2, FreshType, DistributedAssumption DEF AfterOutcome, Record5
  <2>3. CASE q.state = "Open"
    BY <2>3, Zenon DEF AfterOutcome
  <2> QED BY <2>1, <2>2, <2>3, Zenon DEF Record5
<1> QED BY <1>1, <1>2, Zenon

-----------------------------------------------------------------------------
(* Type correctness.                                                        *)

\* The state predicate of the runs, with its record set named.
LEMMA TypeOKDef ==
  TypeOK <=> /\ st \in Record5 /\ ttl \in 0..TTL /\ (ttl = 0 => st = Fresh)
             /\ pc \in [Calls -> {"idle", "fn", "record"}]
             /\ probe \in [Calls -> BOOLEAN] /\ failed \in [Calls -> BOOLEAN]
BY Zenon DEF TypeOK, Record5

\* The acquire script, whether or not its reply arrives.
LEMMA AcquireScriptType ==
  ASSUME TypeOK, AcquireScript
  PROVE  st' \in Record5 /\ ttl' \in 0..TTL /\ (ttl' = 0 => st' = Fresh)
<1>1. st \in Record5 /\ ttl \in 0..TTL /\ (ttl = 0 => st = Fresh)
  BY TypeOKDef, Zenon
<1>2. TTL \in 0..TTL /\ TTL # 0
  BY DistributedAssumption
<1>3. st' \in Record5 /\ (st = Fresh => st' = Fresh)
  BY <1>1, AcquireType, Zenon DEF AcquireScript
<1> QED BY <1>1, <1>2, <1>3, Zenon DEF AcquireScript

\* The stored record is well-formed in every reachable state.
THEOREM TypeCorrect == Spec => []TypeOK
<1>1. Init => TypeOK
  BY FreshType, TypeOKDef, DistributedAssumption DEF Init
<1>2. TypeOK /\ [Next]_vars => TypeOK'
  <2> SUFFICES ASSUME TypeOK, [Next]_vars PROVE TypeOK'
    OBVIOUS
  <2> DEFINE Good == st' \in Record5 /\ ttl' \in 0..TTL /\ (ttl' = 0 => st' = Fresh)
             Local == /\ pc' \in [Calls -> {"idle", "fn", "record"}]
                      /\ probe' \in [Calls -> BOOLEAN] /\ failed' \in [Calls -> BOOLEAN]
  <2>0. /\ st \in Record5 /\ ttl \in 0..TTL /\ (ttl = 0 => st = Fresh)
        /\ pc \in [Calls -> {"idle", "fn", "record"}]
        /\ probe \in [Calls -> BOOLEAN] /\ failed \in [Calls -> BOOLEAN]
    BY TypeOKDef, Zenon
  <2> SUFFICES Good /\ Local
    BY Zenon DEF TypeOK, Record5
  <2>1. CASE UNCHANGED vars
    BY <2>0, <2>1, Zenon DEF vars
  <2>2. CASE Tick
    <3>1. ttl' \in 0..TTL /\ (ttl' = 0 => ttl = 1)
      BY <2>0, <2>2, DistributedAssumption DEF Tick
    <3>2. st' \in Record5
      <4>1. st.state # "Closed" /\ st.age < OpenTimeout => [st EXCEPT !.age = @ + 1] \in Record5
        BY <2>0, DistributedAssumption DEF Record5
      <4> QED BY <2>0, <2>2, <4>1, FreshType, Zenon DEF Tick
    <3> QED BY <2>0, <2>2, <3>1, <3>2, Zenon DEF Tick
  <2>3. ASSUME NEW c \in Calls, Acquire(c) PROVE Good /\ Local
    <3>1. Good
      BY <2>3, AcquireScriptType, Zenon DEF Acquire
    <3>2. Local
      BY <2>0, <2>3, Zenon DEF Acquire, Goto, Admits
    <3> QED BY <3>1, <3>2, Zenon
  <2>4. ASSUME NEW c \in Calls, AcquireErrs(c) PROVE Good /\ Local
    <3>1. Good
      BY <2>0, <2>4, AcquireScriptType, Zenon DEF AcquireErrs
    <3>2. Local
      BY <2>0, <2>4, Zenon DEF AcquireErrs, Goto
    <3> QED BY <3>1, <3>2
  <2>5. ASSUME NEW c \in Calls, RunFn(c) \/ FnPanics(c) \/ Crash(c) \/ RecordErrs(c)
        PROVE  Good /\ Local
    BY <2>0, <2>5, Zenon DEF RunFn, FnPanics, Crash, RecordErrs, Goto
  <2>6. ASSUME NEW c \in Calls, Record(c) PROVE Good /\ Local
    <3>1. st' \in Record5
      BY <2>0, <2>6, RecordType, Zenon DEF Record
    <3> QED BY <2>0, <2>6, <3>1, DistributedAssumption DEF Record, Goto
  <2> QED BY <2>1, <2>2, <2>3, <2>4, <2>5, <2>6, Zenon DEF Next
<1> QED BY <1>1, <1>2, PTL DEF Spec

-----------------------------------------------------------------------------
(* Refinement.                                                              *)

\* What the abstract breaker sees of a record.
View(s) == <<s.state, s.failures, s.successes, s.age>>

\* The acquire script promotes as BreakerFSM does, or changes slots only.
LEMMA AcquireRefines ==
  ASSUME st \in Record5, AcquireScript
  PROVE  [FSM!Next]_FSM!vars
<1>1. CASE st.state = "Open" /\ st.age >= OpenTimeout
  <2>1. /\ st'.state = "HalfOpen" /\ st'.successes = 0
        /\ st'.failures = st.failures /\ st'.age = st.age
    BY <1>1, Zenon DEF AcquireScript, Promoted, Reserved, Record5
  <2>2. FSM!Promote
    BY <1>1, <2>1, Zenon DEF FSM!Promote
  <2> QED BY <2>2, Zenon DEF FSM!Next
<1>2. CASE ~(st.state = "Open" /\ st.age >= OpenTimeout)
  <2>1. View(st)' = View(st)
    BY <1>2, Zenon DEF AcquireScript, Promoted, Reserved, Record5, View
  <2> QED BY <2>1, Zenon DEF FSM!vars, View
<1> QED BY <1>1, <1>2, Zenon

\* Recording an outcome is what BreakerFSM does with it.
LEMMA RecordRefines ==
  ASSUME st \in Record5, NEW p \in BOOLEAN, NEW f \in BOOLEAN,
         st' = AfterOutcome(Released(st, p), f)
  PROVE  [FSM!Next]_FSM!vars
<1> DEFINE r == Released(st, p)
<1>1. /\ r \in Record5
      /\ r.state = st.state /\ r.failures = st.failures
      /\ r.successes = st.successes /\ r.age = st.age
  BY DistributedAssumption DEF Released, Record5
<1>2. st' = AfterOutcome(r, f)
  BY Zenon
<1> HIDE DEF r
<1>3. CASE st.state = "HalfOpen" /\ f
  <2>1. st' = Opened
    BY <1>1, <1>2, <1>3, Zenon DEF AfterOutcome
  <2>2. FSM!FailHalfOpen
    BY <1>3, <2>1, Zenon DEF FSM!FailHalfOpen, FSM!Become, Opened, Fresh
  <2> QED BY <2>2, Zenon DEF FSM!Next
<1>4. CASE st.state = "HalfOpen" /\ ~f
  <2>1. CASE st.successes + 1 >= SuccessThreshold
    <3>1. st' = Fresh
      BY <1>1, <1>2, <1>4, <2>1, Zenon DEF AfterOutcome
    <3>2. FSM!SucceedHalfOpen
      BY <1>4, <2>1, <3>1 DEF FSM!SucceedHalfOpen, FSM!Become, Fresh
    <3> QED BY <3>2, Zenon DEF FSM!Next
  <2>2. CASE ~(st.successes + 1 >= SuccessThreshold)
    <3>1. st' = [r EXCEPT !.successes = @ + 1]
      BY <1>1, <1>2, <1>4, <2>2, Zenon DEF AfterOutcome
    <3>2. FSM!SucceedHalfOpen
      BY <1>1, <1>4, <2>2, <3>1, Zenon DEF FSM!SucceedHalfOpen, Record5
    <3> QED BY <3>2 DEF FSM!Next
  <2> QED BY <2>1, <2>2, Zenon
<1>5. CASE st.state = "Closed" /\ f
  <2>1. CASE st.failures + 1 >= FailureThreshold
    <3>1. st' = Opened
      BY <1>1, <1>2, <1>5, <2>1, Zenon DEF AfterOutcome
    <3>2. FSM!FailClosed
      BY <1>5, <2>1, <3>1, Zenon DEF FSM!FailClosed, FSM!Become, Opened, Fresh
    <3> QED BY <3>2, Zenon DEF FSM!Next
  <2>2. CASE ~(st.failures + 1 >= FailureThreshold)
    <3>1. st' = [r EXCEPT !.failures = @ + 1]
      BY <1>1, <1>2, <1>5, <2>2, Zenon DEF AfterOutcome
    <3>2. FSM!FailClosed
      BY <1>1, <1>5, <2>2, <3>1, Zenon DEF FSM!FailClosed, Record5
    <3> QED BY <3>2 DEF FSM!Next
  <2> QED BY <2>1, <2>2, Zenon
<1>6. CASE st.state = "Open" \/ (st.state = "Closed" /\ ~f)
  <2>1. st' = r
    BY <1>1, <1>2, <1>6, Zenon DEF AfterOutcome
  <2> QED BY <1>1, <2>1, Zenon DEF FSM!vars
<1> QED BY <1>3, <1>4, <1>5, <1>6, Zenon DEF Record5

(***************************************************************************)
(* The shared breaker implements the promised state machine: no            *)
(* interleaving, store error, lost reply, panic or crash makes it take an  *)
(* edge the machine does not have, or one of its edges early.              *)
(***************************************************************************)
THEOREM Refinement == Spec => ImplementsFSM
<1>1. Init => FSM!Init
  BY DEF Init, Fresh, FSM!Init
<1>2. TypeOK /\ [Next]_vars => [FSM!Next]_FSM!vars
  <2> SUFFICES ASSUME TypeOK, [Next]_vars PROVE [FSM!Next]_FSM!vars
    BY Zenon
  <2>0. st \in Record5 /\ probe \in [Calls -> BOOLEAN] /\ failed \in [Calls -> BOOLEAN]
    BY TypeOKDef, Zenon
  <2>1. CASE UNCHANGED st
    BY <2>1, Zenon DEF FSM!vars
  <2>2. CASE Tick
    <3>1. CASE ttl = 1
      BY <2>2, <3>1, Zenon DEF Tick, Fresh, FSM!Next, FSM!Forget, FSM!Become
    <3>2. CASE ttl # 1 /\ st.state # "Closed" /\ st.age < OpenTimeout
      <4>1. st' = [st EXCEPT !.age = @ + 1]
        BY <2>2, <3>2, Zenon DEF Tick
      <4>2. FSM!Pass
        BY <2>0, <3>2, <4>1, Zenon DEF FSM!Pass, Record5
      <4> QED BY <4>2, Zenon DEF FSM!Next
    <3>3. CASE ttl # 1 /\ ~(st.state # "Closed" /\ st.age < OpenTimeout)
      BY <2>1, <2>2, <3>3, Zenon DEF Tick
    <3> QED BY <3>1, <3>2, <3>3, Zenon
  <2>3. ASSUME NEW c \in Calls, Acquire(c) \/ AcquireErrs(c)
        PROVE  [FSM!Next]_FSM!vars
    BY <2>0, <2>1, <2>3, AcquireRefines, Zenon DEF Acquire, AcquireErrs
  <2>4. ASSUME NEW c \in Calls, Record(c)
        PROVE  [FSM!Next]_FSM!vars
    BY <2>0, <2>4, RecordRefines, Zenon DEF Record
  <2> QED BY <2>1, <2>2, <2>3, <2>4, Zenon
      DEF Next, vars, RunFn, FnPanics, Crash, RecordErrs
<1> QED BY <1>1, <1>2, TypeCorrect, PTL DEF Spec, ImplementsFSM, FSM!Spec
=============================================================================
