-------------------------- MODULE CombinedLimiters --------------------------
(***************************************************************************)
(* The limiters made of limiters: composite.CompositeLimiter in its AND    *)
(* and OR modes and tiered.TieredLimiter.  A child is seen through the     *)
(* Limiter interface: AllowN(n) takes n of its tokens or nothing, Peek     *)
(* reports them, and they come back with time.  Each call on a child is    *)
(* atomic and time, and whoever uses a child directly, may come between    *)
(* two of them.  The children are consulted in the order 1, 2, ...         *)
(***************************************************************************)
EXTENDS Integers

CONSTANTS
  CombinedCalls, ChildCount, ChildCapacity,
  CallSizes         \* the n of AllowN

ASSUME CombinedAssumption ==
  ChildCount \in Nat \ {0} /\ ChildCapacity \in Nat /\ CallSizes \subseteq Nat \ {0}

Children == 1..ChildCount

VARIABLES
  mode,        \* "AND", "OR" or "TIERED"
  outsiders,   \* TRUE when the children are also used directly
  blind,       \* children whose Peek reports Remaining = 0: the distributed limiters
  crediters,   \* tiers that implement Crediter
  tokens,      \* per child
  combMu,      \* the calls that hold c.mu (t.mu)
  comb         \* per call: step, n, next child, what Peek reported, what it took

combinedVars == <<mode, outsiders, blind, crediters, tokens, combMu, comb>>
combinedConf == <<mode, outsiders, blind, crediters>>

CallAt(step) ==
  [pc |-> step, n |-> 0, i |-> 1, refilled |-> FALSE,
   peek |-> [j \in Children |-> 0], took |-> [j \in Children |-> 0]]

CombinedInit ==
  /\ mode \in {"AND", "OR", "TIERED"} /\ outsiders \in BOOLEAN
  /\ blind \in {{}, {ChildCount}} /\ (mode = "OR" => blind = {})
  /\ crediters \in {{}, Children} /\ (mode # "TIERED" => crediters = {})
  /\ tokens = [i \in Children |-> ChildCapacity]
  /\ combMu = {}
  /\ comb = [c \in CombinedCalls |-> CallAt("new")]

\* child.AllowN by call c; next is where it goes on, by the answer.
ChildAllowN(c, ifAllowed, ifDenied) ==
  LET i == comb[c].i
      n == comb[c].n
  IN  IF tokens[i] >= n
        THEN /\ tokens' = [tokens EXCEPT ![i] = @ - n]
             /\ comb' = [comb EXCEPT ![c] = [ifAllowed EXCEPT !.took[i] = n]]
        ELSE comb' = [comb EXCEPT ![c] = ifDenied] /\ UNCHANGED tokens

AtLastChild(c) == comb[c].i = ChildCount

\* The record of call c at its next child, or at step "end" past the last one.
Onward(c, end) ==
  IF AtLastChild(c) THEN [comb[c] EXCEPT !.pc = end, !.i = 1] ELSE [comb[c] EXCEPT !.i = @ + 1]

CombinedStart(c, n) ==
  /\ comb[c].pc = "new"
  /\ mode # "OR" => combMu = {}
  /\ combMu' = IF mode = "OR" THEN combMu ELSE {c}
  /\ comb' = [comb EXCEPT ![c].n = n, ![c].pc = IF mode = "OR" THEN "try" ELSE "peek"]
  /\ UNCHANGED <<combinedConf, tokens>>

Short(c, i) == comb[c].peek[i] < comb[c].n

\* Phase 1.  A tiered limiter stops at the first tier that is short.
CombinedPeek(c) ==
  LET i == comb[c].i
      seen == IF i \in blind THEN 0 ELSE tokens[i]
      some == seen < comb[c].n \/ \E j \in 1..(i - 1) : Short(c, j)
      next == IF mode = "TIERED" /\ seen < comb[c].n THEN [comb[c] EXCEPT !.pc = "deny"]
              ELSE Onward(c, IF some THEN "deny" ELSE "commit")
  IN  /\ comb[c].pc = "peek"
      /\ comb' = [comb EXCEPT ![c] = [next EXCEPT !.peek[i] = seen]]
      /\ UNCHANGED <<combinedConf, tokens, combMu>>

\* Variant: the deny path asks every child for its RetryAfter.
CombinedDenyAll(c) ==
  /\ comb[c].pc = "deny"
  /\ ChildAllowN(c, Onward(c, "denied"), Onward(c, "denied"))
  /\ UNCHANGED <<combinedConf, combMu>>

\* denyResultAND and denyResult: AllowN on the children that were short, for
\* their RetryAfter, and the answer is a denial whatever they say.
CombinedDeny(c) ==
  /\ comb[c].pc = "deny"
  /\ IF Short(c, comb[c].i)
       THEN LET next == IF mode = "TIERED" THEN [comb[c] EXCEPT !.pc = "denied"]
                        ELSE Onward(c, "denied")
            IN  ChildAllowN(c, next, next)
       ELSE comb' = [comb EXCEPT ![c] = Onward(c, "denied")] /\ UNCHANGED tokens
  /\ UNCHANGED <<combinedConf, combMu>>

\* Phase 2.  A denial here ends the call; a tiered limiter rolls back first.
CombinedCommit(c) ==
  /\ comb[c].pc = "commit"
  /\ ChildAllowN(c, Onward(c, "allowed"),
                 [comb[c] EXCEPT !.pc = IF mode = "TIERED" THEN "rollback" ELSE "denied"])
  /\ UNCHANGED <<combinedConf, combMu>>

\* rollback: the committed tiers from the last one, credited where they can be.
CombinedRollback(c) ==
  LET i == comb[c].i
  IN  /\ comb[c].pc = "rollback"
      /\ IF i \in crediters /\ comb[c].took[i] > 0
           THEN /\ tokens' = [tokens EXCEPT ![i] = @ + comb[c].took[i]]
                /\ comb' = [comb EXCEPT ![c].took[i] = 0]
           ELSE /\ comb' = [comb EXCEPT ![c] = IF i = 1 THEN [@ EXCEPT !.pc = "denied"]
                                               ELSE [@ EXCEPT !.i = i - 1]]
                /\ UNCHANGED tokens
      /\ UNCHANGED <<combinedConf, combMu>>

\* allowOR: the first child that allows wins.
CombinedTry(c) ==
  /\ comb[c].pc = "try"
  /\ ChildAllowN(c, [comb[c] EXCEPT !.pc = "allowed"], Onward(c, "denied"))
  /\ UNCHANGED <<combinedConf, combMu>>

CombinedReturn(c) ==
  /\ comb[c].pc \in {"allowed", "denied"}
  /\ combMu' = combMu \ {c}
  /\ comb' = [comb EXCEPT ![c] = CallAt("over")]
  /\ UNCHANGED <<combinedConf, tokens>>

\* Time gives a child a token back.
ChildRefill(i) ==
  /\ tokens[i] < ChildCapacity
  /\ tokens' = [tokens EXCEPT ![i] = @ + 1]
  /\ comb' = [c \in CombinedCalls |-> [comb[c] EXCEPT !.refilled = @ \/ c \in combMu]]
  /\ UNCHANGED <<combinedConf, combMu>>

DirectAllow(i) ==
  /\ outsiders /\ tokens[i] > 0
  /\ tokens' = [tokens EXCEPT ![i] = @ - 1]
  /\ UNCHANGED <<combinedConf, combMu, comb>>

CombinedNext ==
  \/ \E c \in CombinedCalls :
       \/ \E n \in CallSizes : CombinedStart(c, n)
       \/ CombinedPeek(c) \/ CombinedDeny(c) \/ CombinedCommit(c) \/ CombinedRollback(c)
       \/ CombinedTry(c) \/ CombinedReturn(c)
  \/ \E i \in Children : ChildRefill(i) \/ DirectAllow(i)

CombinedSpec == CombinedInit /\ [][CombinedNext]_combinedVars

-----------------------------------------------------------------------------
(* Properties                                                               *)

Debited(c) == {i \in Children : comb[c].took[i] > 0}

(***************************************************************************)
(* What a call takes from the children.  Allowed: n from every child (AND  *)
(* and tiers), or from exactly one (OR).  Denied: nothing from a child     *)
(* that Peek had found with capacity, as long as the children are used     *)
(* through the combination only (composite.go:205 "deny without consuming  *)
(* from the *allowing* limiters", tiered.go:179); and nothing at all if    *)
(* besides no child was refilled during the call and every Peek tells the  *)
(* truth, because composite.go:265 and tiered.go:277 call AllowN on the    *)
(* short children and trust that it still denies.  With Crediters a tiered *)
(* limiter keeps the first half even when its tiers are used directly.     *)
(***************************************************************************)
TakesAllOrNothing ==
  \A c \in CombinedCalls :
    /\ comb[c].pc = "allowed" =>
         IF mode = "OR" THEN \E i \in Children : Debited(c) = {i} ELSE Debited(c) = Children
    /\ comb[c].pc = "denied" /\ (~outsiders \/ (mode = "TIERED" /\ crediters = Children)) =>
         /\ \A i \in Debited(c) : Short(c, i)
         /\ ~outsiders /\ ~comb[c].refilled /\ blind = {} => Debited(c) = {}
=============================================================================
