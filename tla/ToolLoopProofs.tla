--------------------------- MODULE ToolLoopProofs ---------------------------
(***************************************************************************)
(* For any loops, requests, keys and limits: the limits of the executor    *)
(* count right, and a side effect is taken once unless it is excused.      *)
(*                                                                         *)
(* EffectsOnce is not inductive.  It holds because an operation that is    *)
(* under way and not excused is alone and has taken no effect yet          *)
(* (Single), and because an effect that is not excused is in the cache,    *)
(* with nothing in the cache that was not done (Kept).                     *)
(***************************************************************************)
EXTENDS ToolLoop, FiniteSetTheorems, TLAPS

LoopType == [pc : {"idle", "model", "calling", "executing", "done", "failed"},
             aborted : BOOLEAN, round : 0..MaxRounds, left : 0..MaxFanout,
             req : Requests \cup {NoRequest}, timed : BOOLEAN]

Executing == At("executing")

LoopsOK ==
    /\ loop \in [Loops -> LoopType]
    /\ \A l \in Executing : loop[l].req \in Requests /\ loop[l].left > 0
    /\ \A l \in At("calling") : loop[l].left > 0

Counted == inFlight = Cardinality(Executing)

(* The count of a circuit is that of the failures in a row, until it opens. *)
Rows ==
    \A o \in Operations :
        /\ o \in open => row[o] = Threshold
        /\ row[o] < Threshold => failures[o] = row[o]

Single ==
    \A r \in Requests \ excused :
        /\ abandoned[r] = 0
        /\ \A l, m \in Executing : loop[l].req = r /\ loop[m].req = r => l = m
        /\ r \in SideEffects /\ UnderWay(r) => effects[r] = 0
        /\ r \in SideEffects => effects[r] < 2

Known(k) == \E q \in Requests : KeyOf[q] = k /\ effects[q] > 0

Kept ==
    /\ \A r \in SideEffects \ excused : effects[r] > 0 => cache[KeyOf[r]] = "live"
    /\ \A k \in Keys : cache[k] = "live" \/ k \in store => Known(k)
    /\ \A r \in told \cap SideEffects : Known(KeyOf[r])

Inv ==
    /\ ExecutorTypeOK /\ LoopsOK /\ told \subseteq Requests /\ crashes \in 0..MaxCrashes
    /\ Counted /\ Rows /\ Single /\ Kept

-----------------------------------------------------------------------------
LEMMA Constants ==
    /\ SideEffects \subseteq Requests
    /\ \A r \in Requests : KeyOf[r] \in Keys /\ OperationOf[r] \in Operations
    /\ Threshold \in Nat \ {0} /\ MaxInFlight \in Nat \ {0} /\ MaxAbandoned \in Nat
    /\ IsFiniteSet(Loops) /\ NoRequest \notin Requests
    /\ MaxRounds \in Nat /\ MaxFanout \in Nat \ {0} /\ MaxCrashes \in Nat
  BY ToolExecutorAssumption, ToolLoopAssumption
  DEF ToolExecutorAssumption, ToolLoopAssumption, Keys, Operations

LEMMA TypeParts ==
    Inv => TypeOK
  BY DEF Inv, TypeOK, LoopsOK, LoopType, Executing

(* What a step of one loop does to the operations under way. *)
LEMMA Becoming ==
  ASSUME LoopsOK, NEW l \in Loops, NEW next \in LoopType, Becomes(l, next),
         next.pc = "executing" => next.req \in Requests /\ next.left > 0,
         next.pc = "calling" => next.left > 0
  PROVE  /\ LoopsOK'
         /\ Executing' = IF next.pc = "executing" THEN Executing \cup {l} ELSE Executing \ {l}
         /\ loop'[l] = next
         /\ \A m \in Loops : m # l => loop'[m] = loop[m]
<1>1. /\ loop' \in [Loops -> LoopType]
      /\ loop'[l] = next
      /\ \A m \in Loops : m # l => loop'[m] = loop[m]
  BY DEF LoopsOK, Becomes
<1>2. Executing' = IF next.pc = "executing" THEN Executing \cup {l} ELSE Executing \ {l}
  BY <1>1 DEF Executing, At
<1>3. At("calling")' \subseteq At("calling") \cup {l} /\ (next.pc # "calling" => l \notin At("calling")')
  BY <1>1 DEF At
<1>4. \A m \in Executing' : loop'[m].req \in Requests /\ loop'[m].left > 0
  BY <1>1, <1>2 DEF LoopsOK, Executing, At
<1>5. \A m \in At("calling")' : loop'[m].left > 0
  BY <1>1, <1>3 DEF LoopsOK, At
<1>6. QED
  BY <1>1, <1>2, <1>4, <1>5 DEF LoopsOK

LEMMA Counting ==
  ASSUME Counted
  PROVE  /\ IsFiniteSet(Executing) /\ inFlight \in Nat
         /\ \A l \in Loops \ Executing : Cardinality(Executing \cup {l}) = inFlight + 1
         /\ \A l \in Executing : Cardinality(Executing \ {l}) = inFlight - 1
<1>1. IsFiniteSet(Executing)
  BY Constants, FS_Subset DEF Executing, At
<1>2. QED
  BY <1>1, FS_CardinalityType, FS_AddElement, FS_RemoveElement DEF Counted

(* The circuits. *)
Circuits == /\ failures \in [Operations -> 0..(Threshold - 1)]
            /\ row \in [Operations -> 0..Threshold]
            /\ open \subseteq Operations
            /\ Rows

LEMMA SuccessRecorded ==
  ASSUME Circuits, NEW o \in Operations, RecordSuccess(o)
  PROVE  Circuits'
  BY Constants DEF Circuits, Rows, RecordSuccess

LEMMA Wraps ==
  ASSUME NEW x \in 0..(Threshold - 1)
  PROVE  (x + 1) % Threshold = IF x + 1 = Threshold THEN 0 ELSE x + 1
  BY Constants

LEMMA FailureRecorded ==
  ASSUME Circuits, NEW o \in Operations, RecordFailure(o)
  PROVE  Circuits'
<1>1. failures[o] \in 0..(Threshold - 1) /\ row[o] \in 0..Threshold /\ Threshold \in Nat \ {0}
  BY Constants DEF Circuits
<1>2. failures' = [failures EXCEPT ![o] = IF failures[o] + 1 = Threshold THEN 0 ELSE failures[o] + 1]
  BY <1>1, Wraps DEF RecordFailure
<1>3. /\ failures' \in [Operations -> 0..(Threshold - 1)] /\ row' \in [Operations -> 0..Threshold]
      /\ open' \subseteq Operations
  BY <1>1, <1>2 DEF RecordFailure, Circuits
<1>4. Rows'
  BY <1>1, <1>2 DEF RecordFailure, Circuits, Rows
<1>5. QED
  BY <1>3, <1>4 DEF Circuits

LEMMA Writing ==
  ASSUME NEW entries, store \subseteq Keys, Persist(entries)
  PROVE  store' \subseteq Keys /\ \A k \in store' : k \in store \/ entries[k] = "live"
  BY DEF Persist

LEMMA LookingUp ==
  ASSUME ExecutorTypeOK, Kept, NEW r \in Requests, NEW skipCache \in BOOLEAN,
         LookedUp(r, skipCache), UNCHANGED effects, excused \subseteq excused', UNCHANGED told
  PROVE  /\ cache' \in [Keys -> {"none", "live", "expired"}] /\ store' \subseteq Keys
         /\ Kept'
<1>1. CASE UNCHANGED <<cache, store>>
  BY <1>1 DEF Kept, Known, ExecutorTypeOK
<1>2. CASE /\ cache[KeyOf[r]] = "expired"
           /\ cache' = [cache EXCEPT ![KeyOf[r]] = "none"] /\ Persist(cache')
  <2>1. /\ cache' \in [Keys -> {"none", "live", "expired"}]
        /\ \A k \in Keys : cache'[k] = "live" <=> cache[k] = "live"
    BY <1>2, Constants DEF ExecutorTypeOK
  <2>2. store' \subseteq Keys /\ \A k \in store' : k \in store \/ cache[k] = "live"
    BY <1>2, <2>1, Writing DEF ExecutorTypeOK
  <2>3. \A k : Known(k)' <=> Known(k)
    BY DEF Known
  <2>4. Kept'
    BY <2>1, <2>2, <2>3, Constants DEF Kept
  <2>5. QED
    BY <2>1, <2>2, <2>4
<1>3. QED
  BY <1>1, <1>2 DEF LookedUp

-----------------------------------------------------------------------------
(* A step of a loop that the executor takes no part in. *)
LEMMA Quiet ==
  ASSUME Inv, NEW l \in Loops, NEW next \in LoopType, Becomes(l, next),
         next.pc = "executing" <=> l \in Executing,
         l \in Executing => next.req = loop[l].req /\ next.left > 0,
         next.pc = "calling" => next.left > 0,
         UNCHANGED <<executorVars, effectVars, told>>
  PROVE  Inv'
<1>1. LoopsOK' /\ Executing' = Executing /\ \A m \in Executing : loop'[m].req = loop[m].req
  BY Becoming DEF Inv, LoopsOK, Executing, At
<1>2. \A r : UnderWay(r)' <=> UnderWay(r)
  BY <1>1 DEF UnderWay, Executing
<1>3. Single'
  BY <1>1, <1>2 DEF Inv, Single, executorVars, effectVars
<1>4. Counted' /\ Rows' /\ Kept' /\ ExecutorTypeOK'
  BY <1>1 DEF Inv, Counted, Rows, Kept, Known, ExecutorTypeOK, executorVars, effectVars
<1>5. QED
  BY <1>1, <1>3, <1>4 DEF Inv, Becomes

LEMMA AnsweredFacts ==
  ASSUME LoopsOK, NEW l \in At("calling") \cup Executing, Answered(l)
  PROVE  /\ LoopsOK' /\ Executing' = Executing \ {l}
         /\ \A m \in Executing' : loop'[m] = loop[m]
         /\ UNCHANGED crashes
<1> DEFINE next == [loop[l] EXCEPT !.pc = IF loop[l].left = 1 THEN "model" ELSE "calling",
                                   !.left = @ - 1, !.req = NoRequest, !.timed = FALSE]
<1>1. l \in Loops /\ loop[l] \in LoopType /\ loop[l].left > 0 /\ loop[l].left \in 0..MaxFanout
  BY DEF LoopsOK, LoopType, Executing, At
<1>2. loop[l].left - 1 \in 0..MaxFanout /\ (loop[l].left # 1 => loop[l].left - 1 > 0)
  BY <1>1, Constants
<1>3. /\ next \in LoopType
      /\ next.pc = IF loop[l].left = 1 THEN "model" ELSE "calling"
      /\ next.left = loop[l].left - 1
  <2> DEFINE n == loop[l].left - 1
  <2>1. n \in 0..MaxFanout
    BY <1>2
  <2>2. next = [loop[l] EXCEPT !.pc = IF loop[l].left = 1 THEN "model" ELSE "calling",
                               !.left = n, !.req = NoRequest, !.timed = FALSE]
    OBVIOUS
  <2> HIDE DEF n, next
  <2>3. next \in LoopType /\ next.left = n
        /\ next.pc = IF loop[l].left = 1 THEN "model" ELSE "calling"
    BY <1>1, <2>1, <2>2 DEF LoopType
  <2>4. QED
    BY <2>3 DEF n
<1>4. next \in LoopType /\ next.pc # "executing" /\ (next.pc = "calling" => next.left > 0)
  BY <1>2, <1>3
<1>5. Becomes(l, next)
  BY DEF Answered
<1> HIDE DEF next
<1>6. QED
  BY <1>1, <1>4, <1>5, Becoming DEF Executing, At, Becomes

(* The operations under way are those of the loops that go on. *)
LEMMA Left ==
  ASSUME Inv, NEW l \in Executing, Executing' = Executing \ {l},
         \A m \in Executing' : loop'[m] = loop[m], NEW r, r = loop[l].req
  PROVE  /\ \A q : UnderWay(q)' => UnderWay(q)
         /\ UnderWay(r) /\ r \in Requests
         /\ r \notin excused => ~UnderWay(r)'
<1>1. \A q : UnderWay(q) <=> \E m \in Executing : loop[m].req = q
  BY DEF UnderWay, Executing
<1>2. \A q : UnderWay(q)' <=> \E m \in Executing' : loop'[m].req = q
  BY DEF UnderWay, Executing
<1>3. r \in Requests
  BY DEF Inv, LoopsOK
<1>4. QED
  BY <1>1, <1>2, <1>3 DEF Inv, Single

LEMMA EffectTaken ==
  ASSUME effects \in [Requests -> 0..2], NEW r \in Requests, effects' = Taken(r)
  PROVE  /\ effects' \in [Requests -> 0..2]
         /\ \A q \in Requests : q # r => effects'[q] = effects[q]
         /\ effects'[r] > 0 /\ (effects[r] = 0 => effects'[r] = 1)
         /\ \A k : Known(k) => Known(k)'
         /\ Known(KeyOf[r])'
<1>1. /\ effects' \in [Requests -> 0..2]
      /\ \A q \in Requests : q # r => effects'[q] = effects[q]
      /\ effects'[r] > 0 /\ (effects[r] = 0 => effects'[r] = 1)
  BY DEF Taken
<1>2. \A q \in Requests : effects[q] > 0 => effects'[q] > 0
  BY <1>1
<1>3. QED
  BY <1>1, <1>2 DEF Known

LEMMA RejectedStep ==
  ASSUME Inv, NEW l \in At("calling"), Answered(l), NEW r \in Requests, NEW skipCache \in BOOLEAN,
         Rejected(r, skipCache), UNCHANGED told
  PROVE  Inv'
<1>1. LoopsOK' /\ Executing' = Executing /\ UNCHANGED crashes
      /\ \A m \in Executing : loop'[m] = loop[m]
  BY AnsweredFacts DEF Inv, Executing, At
<1>2. \A q : UnderWay(q)' <=> UnderWay(q)
  BY <1>1 DEF UnderWay, Executing
<1>3. UNCHANGED <<durable, inFlight, failures, open, abandoned, effects, row, excused>>
  BY DEF Rejected, effectVars
<1>4. cache' \in [Keys -> {"none", "live", "expired"}] /\ store' \subseteq Keys /\ Kept'
  BY <1>3, LookingUp DEF Rejected, Inv
<1>5. Single' /\ Counted' /\ Rows'
  BY <1>1, <1>2, <1>3 DEF Inv, Single, Counted, Rows
<1>6. ExecutorTypeOK'
  BY <1>3, <1>4 DEF Inv, ExecutorTypeOK
<1>7. QED
  BY <1>1, <1>3, <1>4, <1>5, <1>6 DEF Inv

LEMMA ServedStep ==
  ASSUME Inv, NEW l \in At("calling"), Answered(l), NEW r \in Requests, NEW skipCache \in BOOLEAN,
         Served(r, skipCache), told' = told \cup {r}
  PROVE  Inv'
<1>1. LoopsOK' /\ Executing' = Executing /\ UNCHANGED crashes
      /\ \A m \in Executing : loop'[m] = loop[m]
  BY AnsweredFacts DEF Inv, Executing, At
<1>2. \A q : UnderWay(q)' <=> UnderWay(q)
  BY <1>1 DEF UnderWay, Executing
<1>3. UNCHANGED <<executorVars, effectVars>>
  BY DEF Served
<1>4. Known(KeyOf[r])
  BY Constants DEF Served, Hit, Inv, Kept
<1>5. Kept'
  BY <1>3, <1>4 DEF Inv, Kept, Known, executorVars, effectVars
<1>6. Single' /\ Counted' /\ Rows' /\ ExecutorTypeOK'
  BY <1>1, <1>2, <1>3 DEF Inv, Single, Counted, Rows, ExecutorTypeOK, executorVars, effectVars
<1>7. QED
  BY <1>1, <1>5, <1>6 DEF Inv

LEMMA StartedStep ==
  ASSUME Inv, NEW l \in At("calling"), NEW r \in Requests, NEW skipCache \in BOOLEAN,
         NEW timed \in BOOLEAN, Started(r, skipCache, UnderWay(r)), UNCHANGED told,
         Becomes(l, [loop[l] EXCEPT !.pc = "executing", !.req = r, !.timed = timed])
  PROVE  Inv'
<1> DEFINE next == [loop[l] EXCEPT !.pc = "executing", !.req = r, !.timed = timed]
<1>1. l \in Loops /\ loop[l] \in LoopType /\ loop[l].left > 0 /\ l \notin Executing
  BY DEF Inv, LoopsOK, Executing, At
<1>2. next \in LoopType /\ next.pc = "executing" /\ next.req = r /\ next.left > 0
  BY <1>1 DEF LoopType
<1> HIDE DEF next
<1>3. /\ LoopsOK' /\ Executing' = Executing \cup {l} /\ loop'[l].req = r
      /\ \A m \in Executing : loop'[m] = loop[m]
  BY <1>1, <1>2, Becoming DEF Inv, next, Executing, At
<1>4. /\ UNCHANGED <<durable, failures, open, abandoned, effects, row, crashes>>
      /\ inFlight' = inFlight + 1 /\ inFlight < MaxInFlight
      /\ excused' = IF skipCache \/ UnderWay(r) \/ abandoned[r] > 0
                    THEN excused \cup {r} ELSE excused
  BY DEF Started, Becomes
<1>5. cache' \in [Keys -> {"none", "live", "expired"}] /\ store' \subseteq Keys /\ Kept'
  BY <1>4, LookingUp DEF Started, Inv
<1>6. Counted'
  BY <1>1, <1>3, <1>4, Counting DEF Inv, Counted
<1>7. ExecutorTypeOK'
  BY <1>4, <1>5, Constants DEF Inv, ExecutorTypeOK
<1>8. \A q : UnderWay(q)' <=> UnderWay(q) \/ q = r
  BY <1>3 DEF UnderWay, Executing
<1>9. r \in SideEffects \ excused' => effects[r] = 0
  <2>1. SUFFICES ASSUME r \in SideEffects, r \notin excused' PROVE effects[r] = 0
    OBVIOUS
  <2>2. ~skipCache /\ ~Hit(r, skipCache) /\ r \notin excused
    BY <1>4, <2>1 DEF Started
  <2>3. cache[KeyOf[r]] # "live"
    BY <2>1, <2>2 DEF Hit, Looks
  <2>4. QED
    BY <2>1, <2>2, <2>3 DEF Inv, Kept, ExecutorTypeOK
<1>10. Single'
  <2>1. SUFFICES ASSUME NEW q \in Requests, q \notin excused'
                 PROVE  /\ abandoned'[q] = 0
                        /\ \A m, n \in Executing' : loop'[m].req = q /\ loop'[n].req = q => m = n
                        /\ q \in SideEffects /\ UnderWay(q)' => effects'[q] = 0
                        /\ q \in SideEffects => effects'[q] < 2
    BY DEF Single
  <2>2. q \notin excused /\ (q = r => ~UnderWay(q))
    BY <1>4, <2>1
  <2>3. \A m, n \in Executing' : loop'[m].req = q /\ loop'[n].req = q => m = n
    BY <1>3, <2>2 DEF Inv, Single, UnderWay, Executing
  <2>4. QED
    BY <1>4, <1>8, <1>9, <2>1, <2>2, <2>3 DEF Inv, Single
<1>11. QED
  BY <1>3, <1>4, <1>5, <1>6, <1>7, <1>10 DEF Inv, Rows

(* An operation that a loop waits for ends. *)
LEMMA EndFacts ==
  ASSUME Inv, NEW l \in Executing, Answered(l), inFlight' = inFlight - 1
  PROVE  /\ LoopsOK' /\ Counted' /\ inFlight' \in 0..MaxInFlight /\ UNCHANGED crashes
         /\ Executing' = Executing \ {l}
         /\ \A m \in Executing' : loop'[m] = loop[m]
<1>1. /\ LoopsOK' /\ Executing' = Executing \ {l} /\ UNCHANGED crashes
      /\ \A m \in Executing' : loop'[m] = loop[m]
  BY AnsweredFacts DEF Inv
<1>2. Counted' /\ Cardinality(Executing \ {l}) = inFlight'
  BY <1>1, Counting DEF Inv, Counted
<1>3. Cardinality(Executing \ {l}) \in Nat
  BY Counting, FS_RemoveElement, FS_CardinalityType DEF Inv
<1>4. inFlight' \in 0..MaxInFlight
  BY <1>2, <1>3, Constants DEF Inv, ExecutorTypeOK
<1>5. QED
  BY <1>1, <1>2, <1>4

LEMMA SucceededStep ==
  ASSUME Inv, NEW l \in Executing, NEW r \in Requests, r = loop[l].req, Answered(l),
         Succeeded(r), told' = told \cup {r}
  PROVE  Inv'
<1>1. /\ UNCHANGED <<durable, abandoned, excused>> /\ inFlight' = inFlight - 1
      /\ RecordSuccess(OperationOf[r]) /\ effects' = Taken(r)
  BY DEF Succeeded
<1>2. /\ LoopsOK' /\ Counted' /\ inFlight' \in 0..MaxInFlight /\ UNCHANGED crashes
      /\ Executing' = Executing \ {l}
      /\ \A m \in Executing' : loop'[m] = loop[m]
  BY <1>1, EndFacts
<1>3. Circuits'
  BY <1>1, SuccessRecorded, Constants DEF Inv, ExecutorTypeOK, Circuits
<1>4. /\ effects' \in [Requests -> 0..2]
      /\ \A q \in Requests : q # r => effects'[q] = effects[q]
      /\ effects'[r] > 0 /\ (effects[r] = 0 => effects'[r] = 1)
      /\ \A k : Known(k) => Known(k)'
      /\ Known(KeyOf[r])'
  BY <1>1, EffectTaken DEF Inv, ExecutorTypeOK
<1>5. /\ \A q : UnderWay(q)' => UnderWay(q)
      /\ UnderWay(r) /\ (r \notin excused => ~UnderWay(r)')
  BY <1>2, Left
<1>6. /\ cache' \in [Keys -> {"none", "live", "expired"}] /\ store' \subseteq Keys
      /\ \A k \in Keys : cache[k] = "live" => cache'[k] = "live"
      /\ \A k \in Keys : cache'[k] = "live" => cache[k] = "live" \/ k = KeyOf[r]
      /\ \A k \in store' : k \in store \/ cache'[k] = "live"
      /\ r \in SideEffects => cache'[KeyOf[r]] = "live"
  <2>1. CASE r \notin SideEffects
    BY <2>1 DEF Succeeded, Inv, ExecutorTypeOK
  <2>2. CASE r \in SideEffects
    <3>1. cache' = [cache EXCEPT ![KeyOf[r]] = "live"] /\ Persist(cache')
      BY <2>2 DEF Succeeded, Put
    <3>2. store' \subseteq Keys /\ \A k \in store' : k \in store \/ cache'[k] = "live"
      BY <3>1, Writing DEF Inv, ExecutorTypeOK
    <3>3. QED
      BY <3>1, <3>2, Constants DEF Inv, ExecutorTypeOK
  <2>3. QED
    BY <2>1, <2>2
<1>7. Kept'
  <2>1. \A q \in SideEffects \ excused' : effects'[q] > 0 => cache'[KeyOf[q]] = "live"
    BY <1>1, <1>4, <1>6, Constants DEF Inv, Kept
  <2>2. \A k \in Keys : cache'[k] = "live" \/ k \in store' => Known(k)'
    BY <1>4, <1>6 DEF Inv, Kept
  <2>3. \A q \in told' \cap SideEffects : Known(KeyOf[q])'
    BY <1>4 DEF Inv, Kept
  <2>4. QED
    BY <2>1, <2>2, <2>3 DEF Kept, Known
<1>8. Single'
  BY <1>1, <1>2, <1>4, <1>5 DEF Inv, Single
<1>9. ExecutorTypeOK'
  BY <1>1, <1>2, <1>3, <1>4, <1>6 DEF Inv, ExecutorTypeOK, Circuits
<1>10. QED
  BY <1>2, <1>3, <1>7, <1>8, <1>9 DEF Inv, Circuits

(* What the cache and the histories keep when an effect may have been taken that
   is excused. *)
LEMMA ExcusedEffect ==
  ASSUME Inv, NEW r \in Requests, effects' \in {Taken(r), effects},
         excused \subseteq excused', effects' # effects => r \in excused',
         UNCHANGED <<cache, store, told>>
  PROVE  /\ effects' \in [Requests -> 0..2]
         /\ Kept'
         /\ \A q \in Requests \ excused' : effects'[q] = effects[q]
<1>1. CASE effects' = effects
  BY <1>1 DEF Inv, ExecutorTypeOK, Kept, Known
<1>2. CASE effects' = Taken(r) /\ effects' # effects
  <2>1. /\ effects' \in [Requests -> 0..2] /\ r \in excused'
        /\ \A q \in Requests : q # r => effects'[q] = effects[q]
        /\ \A k : Known(k) => Known(k)'
    BY <1>2, EffectTaken DEF Inv, ExecutorTypeOK
  <2>2. \A q \in SideEffects \ excused' : effects'[q] > 0 => cache[KeyOf[q]] = "live"
    BY <2>1, Constants DEF Inv, Kept
  <2>3. Kept'
    BY <2>1, <2>2 DEF Inv, Kept
  <2>4. QED
    BY <2>1, <2>3
<1>3. QED
  BY <1>1, <1>2

LEMMA FailedStep ==
  ASSUME Inv, NEW l \in Executing, NEW r \in Requests, r = loop[l].req, Answered(l),
         Failed(r), UNCHANGED told
  PROVE  Inv'
<1>1. /\ UNCHANGED <<cache, store, durable, abandoned>> /\ inFlight' = inFlight - 1
      /\ RecordFailure(OperationOf[r]) /\ effects' \in {Taken(r), effects}
      /\ excused \subseteq excused' /\ excused' \subseteq Requests
      /\ effects' # effects => r \in excused'
  BY DEF Failed, Inv, ExecutorTypeOK
<1>2. /\ LoopsOK' /\ Counted' /\ inFlight' \in 0..MaxInFlight /\ UNCHANGED crashes
      /\ Executing' = Executing \ {l}
      /\ \A m \in Executing' : loop'[m] = loop[m]
  BY <1>1, EndFacts
<1>3. Circuits'
  BY <1>1, FailureRecorded, Constants DEF Inv, ExecutorTypeOK, Circuits
<1>4. /\ effects' \in [Requests -> 0..2] /\ Kept'
      /\ \A q \in Requests \ excused' : effects'[q] = effects[q]
  BY <1>1, ExcusedEffect
<1>5. \A q : UnderWay(q)' => UnderWay(q)
  BY <1>2, Left
<1>6. Single'
  BY <1>1, <1>2, <1>4, <1>5 DEF Inv, Single
<1>7. ExecutorTypeOK'
  BY <1>1, <1>2, <1>3, <1>4 DEF Inv, ExecutorTypeOK, Circuits
<1>8. QED
  BY <1>2, <1>3, <1>4, <1>6, <1>7 DEF Inv, Circuits

LEMMA TimedOutStep ==
  ASSUME Inv, NEW l \in Executing, NEW r \in Requests, r = loop[l].req, Answered(l),
         TimedOut(r), UNCHANGED told
  PROVE  Inv'
<1>1. /\ UNCHANGED <<cache, store, durable, effects>> /\ inFlight' = inFlight - 1
      /\ RecordFailure(OperationOf[r]) /\ excused' = excused \cup {r}
      /\ abandoned' \in [Requests -> 0..MaxAbandoned]
      /\ \A q \in Requests : q # r => abandoned'[q] = abandoned[q]
  BY Constants DEF TimedOut, Inv, ExecutorTypeOK
<1>2. /\ LoopsOK' /\ Counted' /\ inFlight' \in 0..MaxInFlight /\ UNCHANGED crashes
      /\ Executing' = Executing \ {l}
      /\ \A m \in Executing' : loop'[m] = loop[m]
  BY <1>1, EndFacts
<1>3. Circuits'
  BY <1>1, FailureRecorded, Constants DEF Inv, ExecutorTypeOK, Circuits
<1>4. Kept'
  BY <1>1, ExcusedEffect
<1>5. \A q : UnderWay(q)' => UnderWay(q)
  BY <1>2, Left
<1>6. Single'
  BY <1>1, <1>2, <1>5 DEF Inv, Single
<1>7. ExecutorTypeOK'
  BY <1>1, <1>2, <1>3 DEF Inv, ExecutorTypeOK, Circuits
<1>8. QED
  BY <1>2, <1>3, <1>4, <1>6, <1>7 DEF Inv, Circuits

-----------------------------------------------------------------------------
LEMMA TimeStep ==
  ASSUME Inv, Time
  PROVE  Inv'
<1>1. UNCHANGED <<loop, told, crashes>> /\ LoopsOK' /\ Executing' = Executing
      /\ \A q : UnderWay(q)' <=> UnderWay(q)
  BY DEF Time, loopVars, Inv, LoopsOK, Executing, UnderWay, At
<1>2. ASSUME NEW k \in Keys, Expire(k) PROVE Inv'
  <2>1. /\ UNCHANGED <<durable, inFlight, failures, open, abandoned, effects, row>>
        /\ excused' = excused \cup KeptAs(k) /\ store' \subseteq store
        /\ cache' \in [Keys -> {"none", "live", "expired"}]
        /\ \A j \in Keys : cache'[j] = "live" => cache[j] = "live"
        /\ \A j \in Keys : j # k => cache'[j] = cache[j]
    BY <1>2 DEF Expire, Inv, ExecutorTypeOK
  <2>2. \A j : Known(j)' <=> Known(j)
    BY <2>1 DEF Known
  <2>3. \A q \in Requests \ excused' : q \notin excused /\ KeyOf[q] \in Keys /\ KeyOf[q] # k
    BY <2>1, Constants DEF KeptAs
  <2>4. Kept'
    BY <1>1, <2>1, <2>2, <2>3, Constants DEF Inv, Kept
  <2>5. Single' /\ Counted' /\ Rows' /\ ExecutorTypeOK'
    BY <1>1, <2>1, <2>3 DEF Inv, Single, Counted, Rows, ExecutorTypeOK, KeptAs
  <2>6. QED
    BY <1>1, <2>4, <2>5 DEF Inv
<1>3. ASSUME NEW o \in Operations, CoolDown(o) PROVE Inv'
  <2>1. open' = open \ {o} /\ UNCHANGED <<cache, store, durable, inFlight, failures, abandoned,
                                          effects, row, excused>>
    BY <1>3 DEF CoolDown, effectVars
  <2>2. Kept' /\ Single' /\ Counted' /\ Rows' /\ ExecutorTypeOK'
    BY <1>1, <2>1 DEF Inv, Kept, Known, Single, Counted, Rows, ExecutorTypeOK
  <2>3. QED
    BY <1>1, <2>2 DEF Inv
<1>4. ASSUME NEW r \in Requests, LateAnswer(r) PROVE Inv'
  <2>1. /\ UNCHANGED <<cache, store, durable, inFlight, failures, open, row, excused>>
        /\ abandoned' = [abandoned EXCEPT ![r] = @ - 1] /\ abandoned[r] > 0
        /\ effects' \in {Taken(r), effects}
    BY <1>4 DEF LateAnswer
  <2>2. r \in excused
    BY <2>1 DEF Inv, Single
  <2>3. /\ abandoned' \in [Requests -> 0..MaxAbandoned]
        /\ \A q \in Requests : q # r => abandoned'[q] = abandoned[q]
    BY <2>1, Constants DEF Inv, ExecutorTypeOK
  <2>4. /\ effects' \in [Requests -> 0..2] /\ Kept'
        /\ \A q \in Requests \ excused' : effects'[q] = effects[q]
    BY <1>1, <2>1, <2>2, ExcusedEffect
  <2>5. Single' /\ Counted' /\ Rows' /\ ExecutorTypeOK'
    BY <1>1, <2>1, <2>2, <2>3, <2>4 DEF Inv, Single, Counted, Rows, ExecutorTypeOK
  <2>6. QED
    BY <1>1, <2>4, <2>5 DEF Inv
<1>5. QED
  BY <1>2, <1>3, <1>4 DEF Time

LEMMA CrashStep ==
  ASSUME Inv, Crash
  PROVE  Inv'
<1> DEFINE under == {loop[l].req : l \in Executing}
<1>1. /\ cache' = [k \in Keys |-> IF k \in store THEN "live" ELSE "none"]
      /\ inFlight' = 0 /\ open' = {}
      /\ failures' = [o \in Operations |-> 0] /\ row' = [o \in Operations |-> 0]
      /\ abandoned' = [r \in Requests |-> IF r \in under THEN abandoned[r] + 1 ELSE abandoned[r]]
      /\ \A r \in under : abandoned[r] < MaxAbandoned
      /\ excused' = excused \cup under
                       \cup {r \in Requests : cache[KeyOf[r]] = "live" /\ KeyOf[r] \notin store}
      /\ UNCHANGED <<durable, store, effects, told>>
      /\ crashes' \in 0..MaxCrashes
      /\ loop' = [l \in Loops |-> IF l \in Going THEN Resting("failed") ELSE loop[l]]
  BY Constants DEF Crash, Restarted, Loaded, Executing, Inv
<1>2. Resting("failed") \in LoopType /\ Resting("failed").pc = "failed"
  BY Constants DEF Resting, LoopType
<1>3. loop' \in [Loops -> LoopType] /\ Executing' = {} /\ At("calling")' = {}
  BY <1>1, <1>2 DEF Inv, LoopsOK, Going, Executing, At
<1>4. LoopsOK' /\ Counted'
  BY <1>1, <1>3, FS_EmptySet DEF LoopsOK, Counted
<1>5. \A q : ~UnderWay(q)'
  BY <1>3 DEF UnderWay, Executing
<1>6. under \subseteq Requests
  BY DEF Inv, LoopsOK
<1> HIDE DEF under
<1>7. ExecutorTypeOK' /\ Rows'
  BY <1>1, <1>6, Constants DEF Inv, ExecutorTypeOK, Rows
<1>8. Kept'
  BY <1>1, Constants DEF Inv, Kept, Known
<1>9. Single'
  BY <1>1, <1>3, <1>5 DEF Inv, Single
<1>10. QED
  BY <1>1, <1>4, <1>7, <1>8, <1>9 DEF Inv

-----------------------------------------------------------------------------
LEMMA RestingType ==
  ASSUME NEW pc \in {"idle", "model", "done", "failed"}
  PROVE  Resting(pc) \in LoopType /\ Resting(pc).pc = pc
  BY Constants DEF Resting, LoopType

LEMMA LoopSteps ==
  ASSUME Inv, NEW l \in Loops, Begin(l) \/ Model(l) \/ Refused(l) \/ Cancel(l)
  PROVE  Inv'
<1>1. loop[l] \in LoopType
  BY DEF Inv, LoopsOK
<1>2. ASSUME NEW pc \in {"model", "done", "failed"}, Becomes(l, Resting(pc)), l \notin Executing,
             UNCHANGED <<executorVars, effectVars, told>>
      PROVE  Inv'
  BY <1>2, RestingType, Quiet
<1>3. CASE Begin(l)
  BY <1>2, <1>3 DEF Begin, Executing, At
<1>4. CASE EndsLoop(l)
  BY <1>2, <1>4 DEF EndsLoop, Executing, At
<1>5. CASE Refused(l)
  BY <1>2, <1>5 DEF Refused, Executing, At
<1>6. CASE CallsTools(l)
  <2>1. PICK calls \in 1..MaxFanout :
          Becomes(l, [loop[l] EXCEPT !.pc = "calling", !.round = @ + 1, !.left = calls])
    BY <1>6 DEF CallsTools
  <2> DEFINE next == [loop[l] EXCEPT !.pc = "calling", !.round = @ + 1, !.left = calls]
  <2>2. loop[l].round + 1 \in 0..MaxRounds /\ calls \in 0..MaxFanout /\ calls > 0
    BY <1>1, <1>6, Constants DEF CallsTools, LoopType
  <2>3. next \in LoopType /\ next.pc = "calling" /\ next.left > 0
    BY <1>1, <2>2 DEF LoopType
  <2>4. l \notin Executing /\ UNCHANGED <<executorVars, effectVars, told>>
    BY <1>6 DEF CallsTools, Executing, At
  <2> HIDE DEF next
  <2>5. Becomes(l, next)
    BY <2>1 DEF next
  <2>6. QED
    BY <2>3, <2>4, <2>5, Quiet
<1>7. CASE Cancel(l)
  <2> DEFINE next == [loop[l] EXCEPT !.aborted = TRUE]
  <2>1. next \in LoopType /\ next.pc = loop[l].pc /\ next.req = loop[l].req
        /\ next.left = loop[l].left
    BY <1>1 DEF LoopType
  <2>2. Becomes(l, next) /\ UNCHANGED <<executorVars, effectVars, told>>
    BY <1>7 DEF Cancel
  <2> HIDE DEF next
  <2>3. /\ next.pc = "executing" <=> l \in Executing
        /\ l \in Executing => next.left > 0
        /\ next.pc = "calling" => next.left > 0
    BY <2>1 DEF Inv, LoopsOK, Executing, At
  <2>4. QED
    BY <2>1, <2>2, <2>3, Quiet
<1>8. QED
  BY <1>3, <1>4, <1>5, <1>6, <1>7 DEF Model

LEMMA CallSteps ==
  ASSUME Inv, NEW l \in Loops, CallAnswered(l) \/ CallStarted(l) \/ Tool(l)
  PROVE  Inv'
<1>1. CASE CallAnswered(l)
  <2>1. l \in At("calling") /\ Answered(l)
    BY <1>1 DEF CallAnswered
  <2>2. CASE UNCHANGED <<executorVars, effectVars, told>>
    <3>1. LoopsOK' /\ Executing' = Executing /\ UNCHANGED crashes
          /\ \A m \in Executing : loop'[m] = loop[m]
      BY <2>1, AnsweredFacts DEF Inv, Executing, At
    <3>2. \A r : UnderWay(r)' <=> UnderWay(r)
      BY <3>1 DEF UnderWay, Executing
    <3>3. Single'
      BY <2>2, <3>1, <3>2 DEF Inv, Single, executorVars, effectVars
    <3>4. Counted' /\ Rows' /\ Kept' /\ ExecutorTypeOK'
      BY <2>2, <3>1 DEF Inv, Counted, Rows, Kept, Known, ExecutorTypeOK, executorVars, effectVars
    <3>5. QED
      BY <2>2, <3>1, <3>3, <3>4 DEF Inv
  <2>3. QED
    BY <1>1, <2>1, <2>2, ServedStep, RejectedStep DEF CallAnswered
<1>2. CASE CallStarted(l)
  BY <1>2, StartedStep DEF CallStarted
<1>3. CASE Tool(l)
  <2>1. l \in Executing /\ Answered(l) /\ loop[l].req \in Requests
    BY <1>3 DEF Tool, ToolAnswers, ToolTimesOut, Executing, At, Inv, LoopsOK
  <2>2. PICK r \in Requests : r = loop[l].req
    BY <2>1
  <2>3. \/ Succeeded(r) /\ told' = told \cup {r}
        \/ (Failed(r) \/ TimedOut(r)) /\ UNCHANGED told
    BY <1>3, <2>2 DEF Tool, ToolAnswers, ToolTimesOut
  <2>4. QED
    BY <2>1, <2>2, <2>3, SucceededStep, FailedStep, TimedOutStep
<1>4. QED
  BY <1>1, <1>2, <1>3

(* The invariant of the loops and the executor they share (tool-loop.ts,
   tool-executor.ts, adapter-result-cache.ts). *)
THEOREM Invariance == Spec => []Inv
<1>1. Init => Inv
  <2>1. SUFFICES ASSUME Init PROVE Inv
    OBVIOUS
  <2>2. LoopsOK /\ Executing = {}
    BY <2>1, RestingType DEF Init, LoopsOK, Executing, At
  <2>3. ExecutorTypeOK /\ Rows
    BY <2>1, Constants DEF Init, ExecutorInit, ExecutorTypeOK, Rows
  <2>4. Counted
    BY <2>1, <2>2, FS_EmptySet DEF Init, ExecutorInit, Counted
  <2>5. Single
    BY <2>1, <2>2 DEF Init, ExecutorInit, Single, UnderWay, Executing
  <2>6. Kept
    BY <2>1, Constants DEF Init, ExecutorInit, Kept
  <2>7. told \subseteq Requests /\ crashes \in 0..MaxCrashes
    BY <2>1, Constants DEF Init
  <2>8. QED
    BY <2>2, <2>3, <2>4, <2>5, <2>6, <2>7 DEF Inv
<1>2. Inv /\ [Next]_vars => Inv'
  <2>1. SUFFICES ASSUME Inv, [Next]_vars PROVE Inv'
    OBVIOUS
  <2>2. CASE UNCHANGED vars
    BY <2>1, <2>2
    DEF vars, executorVars, effectVars, loopVars, Inv, ExecutorTypeOK, LoopsOK, Counted, Rows,
        Single, Kept, Known, UnderWay, Executing, At
  <2>3. ASSUME NEW l \in Loops, Begin(l) \/ Proceed(l) \/ Cancel(l) PROVE Inv'
    BY <2>1, <2>3, LoopSteps, CallSteps DEF Proceed, Call
  <2>4. QED
    BY <2>1, <2>2, <2>3, TimeStep, CrashStep DEF Next
<1>3. QED
  BY <1>1, <1>2, PTL DEF Spec

(* The variables of the loops and of the executor have their types. *)
THEOREM TypeCorrect == Spec => []TypeOK
<1>1. QED
  BY TypeParts, Invariance, PTL

(* A side effect is not taken twice by retries, restarts or several attempts of
   an agent, but in the cases that the cache cannot know of; and no loop is told
   of a success that did not happen. *)
THEOREM NoDuplicateEffects == Spec => []EffectsOnce
<1>1. Inv => EffectsOnce
  <2>1. SUFFICES ASSUME Inv, NEW r \in SideEffects
                 PROVE  /\ r \in told => \E q \in Requests : KeyOf[q] = KeyOf[r] /\ effects[q] > 0
                        /\ effects[r] > 1 => r \in excused
    BY DEF EffectsOnce
  <2>2. r \in Requests /\ effects[r] \in 0..2
    BY <2>1, Constants DEF Inv, ExecutorTypeOK
  <2>3. r \notin excused => effects[r] < 2
    BY <2>1, <2>2 DEF Inv, Single
  <2>4. r \in told => \E q \in Requests : KeyOf[q] = KeyOf[r] /\ effects[q] > 0
    BY <2>1 DEF Inv, Kept, Known
  <2>5. QED
    BY <2>2, <2>3, <2>4
<1>2. QED
  BY <1>1, Invariance, PTL

(* The count of operations in flight is exact after every end an operation can
   have, so that the limit neither leaks nor overflows, and a circuit is open
   only after enough failures in a row. *)
THEOREM LimitsAreExact == Spec => []LimitsExact
<1>1. Inv => LimitsExact
  BY DEF Inv, LimitsExact, Counted, Executing, Rows, ExecutorTypeOK
<1>2. QED
  BY <1>1, Invariance, PTL
=============================================================================
