------------------------ MODULE AgentExecutionProofs ------------------------
(***************************************************************************)
(* For any groups, runs, budgets and numbers of slots: the semaphore of a  *)
(* group is exact, no call runs out of attempts while it backs off, a run  *)
(* that was cancelled stays so, a run can be aborted until it ends, and    *)
(* the tracker follows the runs.                                           *)
(*                                                                         *)
(* The steps of runs leave the groups alone and the other way round, so    *)
(* the inductive invariant falls in parts: the budgets of every call       *)
(* (Budgets), the records of the runs (Records, TrackerFollows), the queue *)
(* of a group (Waits) and its slots (SlotsExact).                          *)
(***************************************************************************)
EXTENDS AgentExecution, FiniteSetTheorems, SequenceTheorems, TLAPS

CallType == [at : Places, attempt : Nat, retries : 0..MaxRetries,
             revisions : 0..MaxRevisions, signal : {"heard", "deaf"}]

(* Every attempt after the first is paid for by a retry or a revision. *)
Paid(x) ==
    IF x.at = "invoking" THEN x.attempt <= x.retries + x.revisions + 1
    ELSE IF x.at = "backoff" THEN x.attempt <= x.retries + x.revisions
    ELSE x.attempt = 0

Budgets == \A c \in Calls : Paid(call[c])

(* While execute is under way, the record says that the run is running, and then
   it is stored and can be aborted, or that it is cancelled, and then it has
   been aborted. *)
Records ==
    \A r \in Runs :
        /\ r \in aborted => job[r] = "cancelled"
        /\ r \in Going => job[r] \in {"running", "cancelled"}
        /\ r \in Going /\ job[r] = "running" => r \in stored \cap controllers
        /\ r \in Going /\ job[r] = "cancelled" => r \in aborted

(* The queue holds the waiting calls of the current group, once each; the calls
   of later groups are untouched. *)
Waits ==
    /\ \A k \in DOMAIN Groups : k > level => \A c \in Groups[k] : call[c].at = "idle"
    /\ \A c \in Holding \cup Woken \cup Waiting : level > 0 /\ c \in Groups[level]
    /\ \A i, j \in DOMAIN semaphoreQueue :
         semaphoreQueue[i] = semaphoreQueue[j] => i = j
    /\ Waiting = {semaphoreQueue[i] : i \in DOMAIN semaphoreQueue}

Inv == TypeOK /\ Budgets /\ Records /\ TrackerFollows /\ Waits /\ SlotsExact

-----------------------------------------------------------------------------
LEMMA GroupFacts ==
    /\ Grouped \subseteq Calls /\ Runs \subseteq Calls /\ Runs \cap Grouped = {}
    /\ \A k \in DOMAIN Groups : Groups[k] \subseteq Grouped /\ IsFiniteSet(Groups[k])
    /\ DOMAIN Groups = 1..Len(Groups) /\ Len(Groups) \in Nat
  BY DispatcherAssumption, AgentExecutionAssumption
  DEF DispatcherAssumption, AgentExecutionAssumption, Grouped

(* The records that a step may leave behind. *)
LEMMA RestingType ==
  ASSUME NEW place \in Places
  PROVE  /\ Resting(place) \in CallType
         /\ Resting(place).at = place /\ Resting(place).attempt = 0
<1>1. 0 \in 0..MaxRetries /\ 0 \in 0..MaxRevisions
  BY DispatcherAssumption DEF DispatcherAssumption
<1>2. QED
  BY <1>1 DEF CallType, Resting

LEMMA MovedType ==
  ASSUME NEW x \in CallType, NEW place \in Places
  PROVE  /\ [x EXCEPT !.at = place] \in CallType
         /\ [x EXCEPT !.at = place].at = place
         /\ [x EXCEPT !.at = place].attempt = x.attempt
  BY DEF CallType

LEMMA AttemptType ==
  ASSUME TypeOK, NEW c \in Calls
  PROVE  /\ Attempt(c) \in CallType
         /\ Attempt(c).at = "invoking" /\ Attempt(c).attempt = call[c].attempt + 1
         /\ Attempt(c).retries = call[c].retries
         /\ Attempt(c).revisions = call[c].revisions
<1>1. PICK x \in CallType : x = call[c]
  BY DEF TypeOK, CallType
<1>2. PICK b \in {"heard", "deaf"} : b = IF c \in aborted THEN "deaf" ELSE "heard"
  OBVIOUS
<1>3. PICK n \in Nat : n = x.attempt + 1
  BY <1>1 DEF CallType
<1>4. Attempt(c) = [x EXCEPT !.at = "invoking", !.attempt = n, !.signal = b]
  BY <1>1, <1>2, <1>3 DEF Attempt
<1>5. "invoking" \in Places
  BY DEF Places
<1>6. QED
  BY <1>1, <1>3, <1>4, <1>5 DEF CallType

-----------------------------------------------------------------------------
(* A step of a call inside invoke. *)
LEMMA AgainStep ==
  ASSUME Inv, NEW c \in Calls, Again(c)
  PROVE  /\ call' \in [Calls -> CallType]
         /\ \A d \in Calls \ {c} : call'[d] = call[d]
         /\ call[c].at \in {"invoking", "backoff"}
         /\ call'[c].at \in {"invoking", "backoff"}
         /\ Budgets'
<1>1. call[c] \in CallType /\ call \in [Calls -> CallType]
  BY DEF Inv, TypeOK, CallType
<1>2. "backoff" \in Places /\ call[c].attempt \in Nat
      /\ call[c].retries \in 0..MaxRetries /\ call[c].revisions \in 0..MaxRevisions
      /\ MaxRetries \in Nat /\ MaxRevisions \in Nat
  BY <1>1, DispatcherAssumption DEF DispatcherAssumption, CallType, Places
<1>3. ASSUME NEW m \in 0..MaxRetries, NEW k \in 0..MaxRevisions,
             call[c].at = "invoking", m + k > call[c].retries + call[c].revisions,
             call' = [call EXCEPT ![c].at = "backoff", ![c].retries = m,
                                  ![c].revisions = k]
      PROVE  /\ call' \in [Calls -> CallType]
             /\ \A d \in Calls \ {c} : call'[d] = call[d]
             /\ call'[c].at = "backoff"
             /\ Budgets'
  <2> PICK x \in CallType : x = call[c]
    BY <1>1
  <2>1. call'[c] = [x EXCEPT !.at = "backoff", !.retries = m, !.revisions = k]
    BY <1>1, <1>3
  <2>2. /\ call'[c] \in CallType /\ call'[c].at = "backoff"
        /\ call'[c].attempt = call[c].attempt
        /\ call'[c].retries = m /\ call'[c].revisions = k
    BY <1>2, <2>1 DEF CallType
  <2>3. call' \in [Calls -> CallType] /\ \A d \in Calls \ {c} : call'[d] = call[d]
    BY <1>1, <1>3, <2>1, <2>2
  <2>4. call[c].attempt <= call[c].retries + call[c].revisions + 1
    BY <1>3 DEF Inv, Budgets, Paid
  <2>5. call'[c].attempt <= m + k
    BY <1>2, <2>2, <2>4, <1>3
  <2>6. Budgets'
    BY <2>2, <2>3, <2>5 DEF Inv, Budgets, Paid
  <2>7. QED
    BY <2>2, <2>3, <2>6
<1>5. CASE Revise(c)
  <2>1. PICK k \in 0..MaxRevisions : k = call[c].revisions + 1
    BY <1>2, <1>5 DEF Revise
  <2>2. call' = [call EXCEPT ![c].at = "backoff", ![c].retries = call[c].retries,
                             ![c].revisions = k]
    <3>1. call' = [call EXCEPT ![c].at = "backoff", ![c].revisions = k]
      BY <1>1, <1>5, <2>1 DEF Revise
    <3>2. QED
      BY <1>1, <3>1 DEF CallType
  <2>3. call[c].at = "invoking" /\ call[c].retries + k > call[c].retries + call[c].revisions
    BY <1>2, <1>5, <2>1 DEF Revise
  <2>4. QED
    BY <1>2, <1>3, <2>2, <2>3
<1>6. CASE Retry(c)
  <2>1. PICK n \in 0..1 :
          /\ call[c].revisions + n <= MaxRevisions
          /\ call' = [call EXCEPT ![c].at = "backoff", ![c].retries = @ + 1,
                                  ![c].revisions = @ + n]
    BY <1>6 DEF Retry
  <2>2. PICK m \in 0..MaxRetries : m = call[c].retries + 1
    BY <1>2, <1>6 DEF Retry
  <2>3. PICK k \in 0..MaxRevisions : k = call[c].revisions + n
    BY <1>2, <2>1
  <2>4. call' = [call EXCEPT ![c].at = "backoff", ![c].retries = m, ![c].revisions = k]
    BY <1>1, <2>1, <2>2, <2>3
  <2>5. call[c].at = "invoking" /\ m + k > call[c].retries + call[c].revisions
    BY <1>2, <1>6, <2>1, <2>2, <2>3 DEF Retry
  <2>6. QED
    BY <1>3, <2>4, <2>5
<1>4. CASE NextAttempt(c)
  <2>1. call'[c] = Attempt(c) /\ \A d \in Calls \ {c} : call'[d] = call[d]
    BY <1>1, <1>4 DEF NextAttempt
  <2>2. call' \in [Calls -> CallType]
    BY <1>1, <1>4, AttemptType DEF NextAttempt, Inv
  <2>3. Budgets'
    BY <1>1, <1>4, <2>1, AttemptType DEF NextAttempt, Inv, Budgets, Paid, CallType
  <2>4. QED
    BY <1>4, <2>1, <2>2, <2>3, AttemptType DEF NextAttempt, Inv
<1>7. QED
  BY <1>4, <1>5, <1>6 DEF Again

-----------------------------------------------------------------------------
(* Any other step gives one or several calls a new record. *)
LEMMA Replaced ==
  ASSUME Inv, NEW c \in Calls, NEW x \in CallType, Paid(x),
         call' = [call EXCEPT ![c] = x]
  PROVE  /\ call' \in [Calls -> CallType] /\ Budgets'
         /\ call'[c] = x /\ \A d \in Calls \ {c} : call'[d] = call[d]
<1>1. call \in [Calls -> CallType]
  BY DEF Inv, TypeOK, CallType
<1>2. /\ call' \in [Calls -> CallType]
      /\ call'[c] = x /\ \A d \in Calls \ {c} : call'[d] = call[d]
  BY <1>1
<1>3. ASSUME NEW d \in Calls PROVE Paid(call'[d])
  BY <1>2 DEF Inv, Budgets
<1>4. QED
  BY <1>2, <1>3 DEF Budgets

LEMMA FirstAttempt ==
  ASSUME Inv, NEW c \in Calls, call[c].at \notin {"invoking", "backoff"}
  PROVE  /\ Attempt(c) \in CallType /\ Attempt(c).at = "invoking" /\ Paid(Attempt(c))
         /\ call[c].attempt = 0
<1>1. call[c].attempt = 0 /\ call[c].retries \in Nat /\ call[c].revisions \in Nat
  BY DispatcherAssumption DEF DispatcherAssumption, Inv, TypeOK, Budgets, Paid
<1>2. QED
  BY <1>1, AttemptType DEF Inv, Paid

LEMMA PaidResting ==
  ASSUME NEW place \in Places, place \notin {"invoking", "backoff"}
  PROVE  Resting(place) \in CallType /\ Resting(place).at = place /\ Paid(Resting(place))
  BY RestingType DEF Paid

LEMMA PaidMove ==
  ASSUME Inv, NEW c \in Calls, call[c].at \notin {"invoking", "backoff"},
         NEW place \in Places, place \notin {"invoking", "backoff"}
  PROVE  /\ [call[c] EXCEPT !.at = place] \in CallType
         /\ [call[c] EXCEPT !.at = place].at = place
         /\ Paid([call[c] EXCEPT !.at = place])
<1>1. PICK x \in CallType : x = call[c]
  BY DEF Inv, TypeOK, CallType
<1>2. x.attempt = 0
  BY <1>1, FirstAttempt
<1>3. QED
  BY <1>1, <1>2, MovedType DEF Paid

-----------------------------------------------------------------------------
(* What does not touch the places of the grouped calls leaves the groups alone;
   what does not touch the runs leaves their records alone. *)
LEMMA GroupsKept ==
  ASSUME Inv, UNCHANGED <<level, activeCount, semaphoreQueue>>,
         \A c \in Grouped : \/ call'[c].at = call[c].at
                            \/ {call[c].at, call'[c].at} \subseteq {"invoking", "backoff"}
  PROVE  Waits' /\ SlotsExact'
<1>1. Holding' = Holding /\ Woken' = Woken /\ Waiting' = Waiting
  BY DEF Holding, Woken, Waiting
<1>2. \A c \in Grouped : call[c].at = "idle" => call'[c].at = "idle"
  OBVIOUS
<1>3. Waits'
  BY <1>1, <1>2, GroupFacts DEF Inv, Waits
<1>4. SlotsExact'
  BY <1>1 DEF Inv, SlotsExact
<1>5. QED
  BY <1>3, <1>4

LEMMA RunsKept ==
  ASSUME Inv, UNCHANGED <<aborted, job, stored, controllers, tracker>>,
         \A r \in Runs : \/ call'[r].at = call[r].at
                         \/ {call[r].at, call'[r].at} \subseteq {"invoking", "backoff"}
  PROVE  Records' /\ TrackerFollows'
<1>1. \A r \in Runs : /\ r \in Going' <=> r \in Going
                      /\ r \in At("lost")' <=> r \in At("lost")
  BY GroupFacts DEF Going, At
<1>2. Records'
  BY <1>1 DEF Inv, Records
<1>3. TrackerFollows'
  BY <1>1 DEF Inv, TrackerFollows
<1>4. QED
  BY <1>2, <1>3

(* A step of a run leaves the groups alone. *)
LEMMA GroupsKeptByRuns ==
  ASSUME Inv, NEW r \in Runs, UNCHANGED <<level, activeCount, semaphoreQueue>>,
         \A d \in Calls \ {r} : call'[d] = call[d]
  PROVE  Waits' /\ SlotsExact'
<1>1. \A c \in Grouped : call'[c] = call[c]
  BY GroupFacts
<1>2. QED
  BY <1>1, GroupsKept

(* The records of the other runs and the tracker after a step of run r. *)
LEMMA RecordsKept ==
  ASSUME Inv, NEW r \in Runs,
         \A d \in Calls \ {r} : call'[d] = call[d],
         \A q \in Runs \ {r} : /\ job'[q] = job[q]
                               /\ q \in aborted' <=> q \in aborted
                               /\ q \in controllers => q \in controllers'
                               /\ q \in stored /\ job[q] = "running" => q \in stored',
         r \in aborted' => job'[r] = "cancelled",
         r \in Going' => \/ job'[r] = "running" /\ r \in stored' \cap controllers'
                         \/ job'[r] = "cancelled" /\ r \in aborted'
  PROVE  Records'
<1>1. \A q \in Runs \ {r} : q \in Going' <=> q \in Going
  BY GroupFacts DEF Going, At
<1>2. ASSUME NEW q \in Runs \ {r}
      PROVE  /\ q \in aborted' => job'[q] = "cancelled"
             /\ q \in Going' => job'[q] \in {"running", "cancelled"}
             /\ q \in Going' /\ job'[q] = "running" => q \in stored' \cap controllers'
             /\ q \in Going' /\ job'[q] = "cancelled" => q \in aborted'
  BY <1>1 DEF Inv, Records
<1>3. QED
  BY <1>2 DEF Records

LEMMA TrackerKept ==
  ASSUME Inv, NEW r \in Runs,
         \A d \in Calls \ {r} : call'[d] = call[d],
         aborted \subseteq aborted',
         \A a \in Agents \ {AgentOf[r]} : tracker'[a] = tracker[a],
         \/ r \in Going' \cup At("lost")' \cup aborted'
         \/ tracker'[AgentOf[r]] # "running"
  PROVE  TrackerFollows'
<1>1. \A q \in Runs \ {r} : /\ q \in Going' <=> q \in Going
                            /\ q \in At("lost")' <=> q \in At("lost")
  BY GroupFacts DEF Going, At
<1>2. ASSUME NEW a \in Agents, tracker'[a] = "running"
      PROVE  \E q \in Runs :
                AgentOf[q] = a /\ (q \in Going' \cup At("lost")' \/ q \in aborted')
  <2>1. CASE a = AgentOf[r]
    BY <1>2, <2>1
  <2>2. CASE a # AgentOf[r]
    <3>1. tracker[a] = "running"
      BY <1>2, <2>2
    <3>2. PICK q \in Runs :
                AgentOf[q] = a /\ (q \in Going \cup At("lost") \/ q \in aborted)
      BY <3>1 DEF Inv, TrackerFollows
    <3>3. q # r
      BY <2>2, <3>2
    <3>4. QED
      BY <1>1, <3>2, <3>3
  <2>3. QED
    BY <2>1, <2>2
<1>3. QED
  BY <1>2 DEF TrackerFollows

LEMMA PrunedKeeps ==
  ASSUME NEW status
  PROVE  /\ Pruned(status) \subseteq stored
         /\ \A q \in stored : status[q] = "running" => q \in Pruned(status)
  BY DEF Pruned

(* The places of a run that execute has not left. *)
LEMMA GoingPlaces ==
  ASSUME NEW r \in Runs
  PROVE  /\ r \in Going <=> call[r].at \in {"preparing", "invoking", "backoff"}
         /\ r \in Going' <=> call'[r].at \in {"preparing", "invoking", "backoff"}
         /\ r \in At("lost")' <=> call'[r].at = "lost"
  BY GroupFacts DEF Going, At

LEMMA ExecuteStep ==
  ASSUME Inv, NEW r \in Runs, Execute(r)
  PROVE  Inv'
<1>1. r \in Calls /\ AgentOf[r] \in Agents /\ job \in [Runs -> Statuses]
  BY GroupFacts, AgentExecutionAssumption DEF AgentExecutionAssumption, Inv, TypeOK
<1>2. call[r].at \notin {"invoking", "backoff", "preparing"}
  BY GoingPlaces DEF Inv, Records, Execute
<1>3. DEFINE x == [call[r] EXCEPT !.at = "preparing"]
<1>4. x \in CallType /\ x.at = "preparing" /\ Paid(x)
  BY <1>1, <1>2, PaidMove DEF Places
<1>5. call' = [call EXCEPT ![r] = x]
  BY DEF Execute
<1>6. /\ call' \in [Calls -> CallType] /\ Budgets'
      /\ call'[r] = x /\ \A d \in Calls \ {r} : call'[d] = call[d]
  BY <1>1, <1>4, <1>5, Replaced
<1>7. job'[r] = "running" /\ \A q \in Runs \ {r} : job'[q] = job[q]
  BY <1>1 DEF Execute
<1>8. r \notin aborted
  BY DEF Execute, Inv, Records
<1>9. Records'
  <2>1. r \in stored' \cap controllers' /\ r \notin aborted'
    BY <1>8 DEF Execute
  <2>2. \A q \in Runs \ {r} :
          /\ job'[q] = job[q]
          /\ q \in aborted' <=> q \in aborted
          /\ q \in controllers => q \in controllers'
          /\ q \in stored /\ job[q] = "running" => q \in stored'
    BY <1>7 DEF Execute
  <2>3. /\ r \in aborted' => job'[r] = "cancelled"
        /\ r \in Going' => \/ job'[r] = "running" /\ r \in stored' \cap controllers'
                           \/ job'[r] = "cancelled" /\ r \in aborted'
    BY <1>7, <2>1
  <2>4. QED
    BY <1>6, <2>2, <2>3, RecordsKept
<1>10. \A a \in Agents \ {AgentOf[r]} : tracker'[a] = tracker[a]
  BY <1>1 DEF Execute, Inv, TypeOK
<1>11. r \in Going'
  BY <1>4, <1>6, GoingPlaces
<1>12. TrackerFollows'
  BY <1>6, <1>10, <1>11, TrackerKept DEF Execute
<1>13. Waits' /\ SlotsExact'
  BY <1>6, GroupsKeptByRuns DEF Execute
<1>14. TypeOK'
  <2>1. 1 + Cardinality({s \in Runs : job[s] # "none"}) \in Nat
    <3>1. {s \in Runs : job[s] # "none"} \in SUBSET Runs
      OBVIOUS
    <3>2. IsFiniteSet({s \in Runs : job[s] # "none"})
      BY <3>1, FS_Subset, AgentExecutionAssumption DEF AgentExecutionAssumption
    <3>3. QED
      BY <3>2, FS_CardinalityType
  <2>2. since' \in [Runs -> Nat]
    BY <2>1 DEF Execute, Inv, TypeOK
  <2>3. job' \in [Runs -> Statuses] /\ tracker' \in [Agents -> Statuses \ {"cancelled"}]
    BY DEF Execute, Inv, TypeOK, Statuses
  <2>4. QED
    BY <1>6, <2>2, <2>3 DEF Execute, Inv, TypeOK, CallType
<1>15. QED
  BY <1>6, <1>9, <1>12, <1>13, <1>14 DEF Inv

(* A run that loses its call, or makes the first attempt. *)
LEMMA PreparedStep ==
  ASSUME Inv, NEW r \in Runs, Invoke(r) \/ Lose(r)
  PROVE  Inv'
<1>1. r \in Calls /\ call[r].at = "preparing"
  BY GroupFacts DEF Invoke, Lose
<1>2. PICK x \in CallType : /\ Paid(x) /\ call' = [call EXCEPT ![r] = x]
                            /\ x.at \in {"invoking", "lost"}
  <2>1. CASE Invoke(r)
    BY <1>1, <2>1, FirstAttempt DEF Invoke
  <2>2. CASE Lose(r)
    <3>1. "lost" \in Places
      BY DEF Places
    <3>2. call' = [call EXCEPT ![r] = [call[r] EXCEPT !.at = "lost"]]
      BY <2>2 DEF Lose
    <3>3. QED
      BY <1>1, <3>1, <3>2, PaidMove
  <2>3. QED
    BY <2>1, <2>2
<1>3. UNCHANGED <<aborted, level, activeCount, semaphoreQueue, onFailure, serving,
                  job, stored, since, controllers, tracker>>
  BY DEF Invoke, Lose, serviceVars
<1>4. /\ call' \in [Calls -> CallType] /\ Budgets'
      /\ call'[r] = x /\ \A d \in Calls \ {r} : call'[d] = call[d]
  BY <1>1, <1>2, Replaced
<1>5. r \in Going /\ (r \in Going' \/ r \in At("lost")')
  BY <1>1, <1>2, <1>4, GoingPlaces
<1>6. Records'
  <2>1. \A q \in Runs \ {r} :
          /\ job'[q] = job[q]
          /\ q \in aborted' <=> q \in aborted
          /\ q \in controllers => q \in controllers'
          /\ q \in stored /\ job[q] = "running" => q \in stored'
    BY <1>3
  <2>2. /\ r \in aborted' => job'[r] = "cancelled"
        /\ r \in Going' => \/ job'[r] = "running" /\ r \in stored' \cap controllers'
                           \/ job'[r] = "cancelled" /\ r \in aborted'
    BY <1>3, <1>5 DEF Inv, Records
  <2>3. QED
    BY <1>4, <2>1, <2>2, RecordsKept
<1>7. TrackerFollows'
  BY <1>3, <1>4, <1>5, TrackerKept
<1>8. Waits' /\ SlotsExact'
  BY <1>3, <1>4, GroupsKeptByRuns
<1>9. TypeOK'
  BY <1>3, <1>4 DEF Inv, TypeOK, CallType
<1>10. QED
  BY <1>4, <1>6, <1>7, <1>8, <1>9 DEF Inv

(* A run that ends as a cancelled one. *)
LEMMA DropStep ==
  ASSUME Inv, NEW r \in Runs, Drop(r),
         r \in aborted', aborted' \in {aborted, aborted \cup {r}},
         UNCHANGED <<level, activeCount, semaphoreQueue, onFailure, serving>>
  PROVE  Inv'
<1>1. r \in Calls /\ job \in [Runs -> Statuses]
  BY GroupFacts DEF Inv, TypeOK
<1>2. "failure" \in Places /\ call' = [call EXCEPT ![r] = Resting("failure")]
  BY DEF Places, Outcomes, Drop
<1>3. /\ call' \in [Calls -> CallType] /\ Budgets'
      /\ call'[r].at = "failure" /\ \A d \in Calls \ {r} : call'[d] = call[d]
  BY <1>1, <1>2, PaidResting, Replaced
<1>4. job'[r] = "cancelled" /\ \A q \in Runs \ {r} : job'[q] = job[q]
  BY <1>1 DEF Drop
<1>5. r \notin Going'
  BY <1>3, GoingPlaces
<1>6. stored' = Pruned(job') /\ controllers' = controllers \ {r}
  BY DEF Drop, Unwind
<1>7. Records'
  <2>1. \A q \in Runs \ {r} :
          /\ job'[q] = job[q]
          /\ q \in aborted' <=> q \in aborted
          /\ q \in controllers => q \in controllers'
          /\ q \in stored /\ job[q] = "running" => q \in stored'
    BY <1>4, <1>6, PrunedKeeps
  <2>2. QED
    BY <1>3, <1>4, <1>5, <2>1, RecordsKept
<1>8. TrackerFollows'
  BY <1>3, TrackerKept DEF Drop
<1>9. Waits' /\ SlotsExact'
  BY <1>3, GroupsKeptByRuns
<1>10. TypeOK'
  <2>1. stored' \subseteq stored
    BY <1>6, PrunedKeeps
  <2>2. job' \in [Runs -> Statuses]
    BY <1>1 DEF Drop, Statuses
  <2>3. UNCHANGED <<since, tracker>>
    BY DEF Drop, Unwind
  <2>4. QED
    BY <1>3, <1>6, <2>1, <2>2, <2>3 DEF Inv, TypeOK, CallType
<1>11. QED
  BY <1>3, <1>7, <1>8, <1>9, <1>10 DEF Inv

(* A run that was not cancelled and ends. *)
LEMMA RecordStep ==
  ASSUME Inv, NEW r \in Runs, NEW how \in Outcomes, Record(r, how),
         call[r].at = "invoking", r \notin aborted,
         UNCHANGED <<aborted, level, activeCount, semaphoreQueue, onFailure, serving>>
  PROVE  Inv'
<1>1. r \in Calls /\ job \in [Runs -> Statuses] /\ AgentOf[r] \in Agents
  BY GroupFacts, AgentExecutionAssumption DEF AgentExecutionAssumption, Inv, TypeOK
<1>2. how \in Places /\ how \notin {"invoking", "backoff", "preparing"}
      /\ call' = [call EXCEPT ![r] = Resting(how)]
  BY DEF Places, Outcomes, Record
<1>3. /\ call' \in [Calls -> CallType] /\ Budgets'
      /\ call'[r].at = how /\ \A d \in Calls \ {r} : call'[d] = call[d]
  BY <1>1, <1>2, PaidResting, Replaced
<1>4. job' \in [Runs -> Statuses] /\ \A q \in Runs \ {r} : job'[q] = job[q]
  BY <1>1 DEF Record, Completed, Failed, FailedHalfway, Statuses
<1>5. r \notin Going'
  BY <1>2, <1>3, GoingPlaces
<1>6. stored' = Pruned(job') /\ controllers' = controllers \ {r} /\ UNCHANGED since
  BY DEF Record, Unwind
<1>7. Records'
  <2>1. \A q \in Runs \ {r} :
          /\ job'[q] = job[q]
          /\ q \in aborted' <=> q \in aborted
          /\ q \in controllers => q \in controllers'
          /\ q \in stored /\ job[q] = "running" => q \in stored'
    BY <1>4, <1>6, PrunedKeeps
  <2>2. QED
    BY <1>3, <1>5, <2>1, RecordsKept
<1>8. /\ tracker' \in [Agents -> Statuses \ {"cancelled"}]
      /\ tracker'[AgentOf[r]] # "running"
      /\ \A a \in Agents \ {AgentOf[r]} : tracker'[a] = tracker[a]
  BY <1>1 DEF Record, Completed, Failed, FailedHalfway, Track, Inv, TypeOK, Statuses
<1>9. TrackerFollows'
  BY <1>3, <1>8, TrackerKept
<1>10. Waits' /\ SlotsExact'
  BY <1>3, GroupsKeptByRuns
<1>11. TypeOK'
  <2>1. stored' \subseteq stored
    BY <1>6, PrunedKeeps
  <2>2. QED
    BY <1>3, <1>4, <1>6, <1>8, <2>1 DEF Inv, TypeOK, CallType
<1>12. QED
  BY <1>3, <1>7, <1>9, <1>10, <1>11 DEF Inv

LEMMA CancelStep ==
  ASSUME Inv, NEW r \in Runs, Cancel(r)
  PROVE  Inv'
<1>1. CASE CancelJob(r)
  <2>1. r \in controllers
    BY <1>1, GoingPlaces DEF CancelJob, Mark, Inv, Records
  <2>2. aborted' = aborted \cup {r}
    BY <1>1, <2>1 DEF CancelJob, Mark
  <2>3. QED
    BY <1>1, <2>2, DropStep DEF CancelJob, Mark
<1>2. CASE CancelUnheard(r)
  <2>1. /\ UNCHANGED <<call, stored, since, tracker, level, activeCount, semaphoreQueue,
                       onFailure, serving>>
        /\ controllers' = controllers \ {r}
        /\ aborted' = aborted \cup (controllers \cap {r})
    BY <1>2 DEF CancelUnheard, Mark
  <2>2. job'[r] = "cancelled" /\ \A q \in Runs \ {r} : job'[q] = job[q]
    BY <1>2 DEF CancelUnheard, Inv, TypeOK
  <2>3. Going' = Going /\ At("lost")' = At("lost")
    BY <2>1 DEF Going, At
  <2>4. r \in Going => r \in controllers
    BY <1>2 DEF CancelUnheard, Mark, Inv, Records
  <2>5. Records'
    <3>1. \A q \in Runs \ {r} :
            /\ job'[q] = job[q]
            /\ q \in aborted' <=> q \in aborted
            /\ q \in controllers => q \in controllers'
            /\ q \in stored /\ job[q] = "running" => q \in stored'
      BY <2>1, <2>2
    <3>2. /\ r \in aborted' => job'[r] = "cancelled"
          /\ r \in Going' => \/ job'[r] = "running" /\ r \in stored' \cap controllers'
                             \/ job'[r] = "cancelled" /\ r \in aborted'
      BY <2>1, <2>2, <2>3, <2>4
    <3>3. QED
      BY <2>1, <3>1, <3>2, RecordsKept
  <2>6. TrackerFollows'
    BY <2>1, <2>3 DEF Inv, TrackerFollows
  <2>7. Waits' /\ SlotsExact'
    BY <2>1, GroupsKept
  <2>8. TypeOK' /\ Budgets'
    BY <1>2, <2>1 DEF CancelUnheard, Inv, TypeOK, Budgets, Statuses
  <2>9. QED
    BY <2>5, <2>6, <2>7, <2>8 DEF Inv
<1>3. QED
  BY <1>1, <1>2 DEF Cancel

LEMMA PrepareStep ==
  ASSUME Inv, NEW r \in Runs, Prepare(r)
  PROVE  Inv'
<1>1. CASE CancelledBefore(r)
  BY <1>1, DropStep DEF CancelledBefore
<1>2. QED
  BY <1>1, PreparedStep DEF Prepare

LEMMA ReturnedStep ==
  ASSUME Inv, NEW r \in Runs, NEW how \in Answers(r), Returned(r, how), UNCHANGED serving
  PROVE  Inv'
<1>1. call[r].at = "invoking" /\ how \in Outcomes
  BY DEF Answers
<1>2. CASE r \in aborted
  BY <1>2, DropStep DEF Returned
<1>3. CASE r \notin aborted
  BY <1>1, <1>3, RecordStep DEF Returned
<1>4. QED
  BY <1>2, <1>3

LEMMA AgainKeeps ==
  ASSUME Inv, NEW c \in Calls, Again(c)
  PROVE  Inv'
<1>1. UNCHANGED <<aborted, level, activeCount, semaphoreQueue, onFailure, serving,
                  job, stored, since, controllers, tracker>>
  BY DEF Again, serviceVars
<1>2. \A d \in Calls : \/ call'[d].at = call[d].at
                       \/ {call[d].at, call'[d].at} \subseteq {"invoking", "backoff"}
  BY AgainStep
<1>3. Waits' /\ SlotsExact'
  BY <1>1, <1>2, GroupFacts, GroupsKept
<1>4. Records' /\ TrackerFollows'
  BY <1>1, <1>2, GroupFacts, RunsKept
<1>5. TypeOK' /\ Budgets'
  BY <1>1, AgainStep DEF Inv, TypeOK, CallType
<1>6. QED
  BY <1>3, <1>4, <1>5 DEF Inv

-----------------------------------------------------------------------------
(* Sequences without repetitions. *)
Distinct(q) == \A i, j \in DOMAIN q : q[i] = q[j] => i = j
Elements(q) == {q[i] : i \in DOMAIN q}

LEMMA DistinctTail ==
  ASSUME NEW S, NEW q \in Seq(S), q # <<>>, Distinct(q)
  PROVE  /\ Tail(q) \in Seq(S) /\ Distinct(Tail(q))
         /\ Head(q) \in Elements(q) /\ Elements(Tail(q)) = Elements(q) \ {Head(q)}
<1>1. /\ Len(q) \in Nat \ {0} /\ DOMAIN q = 1..Len(q) /\ Head(q) = q[1]
  BY EmptySeq, LenProperties
<1>2. /\ Tail(q) \in Seq(S) /\ Len(Tail(q)) = Len(q) - 1
      /\ \A i \in 1..Len(q) - 1 : Tail(q)[i] = q[i + 1]
  BY HeadTailProperties
<1>3. DOMAIN Tail(q) = 1..Len(q) - 1
  BY <1>2, LenProperties
<1>4. Distinct(Tail(q))
  <2>1. SUFFICES ASSUME NEW i \in 1..Len(q) - 1, NEW j \in 1..Len(q) - 1,
                        Tail(q)[i] = Tail(q)[j]
                 PROVE  i = j
    BY <1>3 DEF Distinct
  <2>2. q[i + 1] = q[j + 1] /\ i + 1 \in DOMAIN q /\ j + 1 \in DOMAIN q
    BY <1>1, <1>2, <2>1
  <2>3. i + 1 = j + 1
    BY <2>2 DEF Distinct
  <2>4. QED
    BY <2>3
<1>5. Elements(Tail(q)) \subseteq Elements(q) \ {Head(q)}
  <2>1. SUFFICES ASSUME NEW i \in 1..Len(q) - 1
                 PROVE  Tail(q)[i] \in Elements(q) \ {Head(q)}
    BY <1>3 DEF Elements
  <2>2. Tail(q)[i] = q[i + 1] /\ i + 1 \in DOMAIN q /\ 1 \in DOMAIN q /\ i + 1 # 1
    BY <1>1, <1>2
  <2>3. q[i + 1] # q[1]
    BY <2>2 DEF Distinct
  <2>4. QED
    BY <1>1, <2>2, <2>3 DEF Elements
<1>6. Elements(q) \ {Head(q)} \subseteq Elements(Tail(q))
  <2>1. SUFFICES ASSUME NEW i \in 1..Len(q), q[i] # q[1]
                 PROVE  q[i] \in Elements(Tail(q))
    BY <1>1 DEF Elements
  <2>2. PICK j \in 1..Len(q) - 1 : i = j + 1
    BY <1>1, <2>1
  <2>3. q[i] = Tail(q)[j]
    BY <1>2, <2>2
  <2>4. QED
    BY <1>3, <2>3 DEF Elements
<1>7. Head(q) \in Elements(q)
  BY <1>1 DEF Elements
<1>8. QED
  BY <1>2, <1>4, <1>5, <1>6, <1>7

(* An order of a finite set is a sequence of its members. *)
LEMMA OrderLength ==
  ASSUME NEW S, IsFiniteSet(S), NEW line \in Orders(S)
  PROVE  line \in Seq(S) /\ Len(line) \in Nat /\ Len(line) = Cardinality(S)
<1> DEFINE n == Cardinality(S)
<1>1. n \in Nat
  BY FS_CardinalityType
<1>2. line \in [1..n -> S]
  BY DEF Orders
<1> HIDE DEF n
<1>3. line \in Seq(S)
  <2>1. line = [i \in 1..n |-> line[i]]
    BY <1>2
  <2>2. QED
    BY <1>1, <1>2, <2>1
<1>4. Len(line) = n
  BY <1>1, <1>2, <1>3, LenProperties
<1>5. QED
  BY <1>1, <1>3, <1>4 DEF n

(* The first k members of an order, and what comes after them. *)
Front(line, k) == {line[i] : i \in 1..k}
Rest(line, k) == SubSeq(line, k + 1, Len(line))

(* An order of a finite set, cut after its first k members. *)
LEMMA CutOrder ==
  ASSUME NEW S, IsFiniteSet(S), NEW line \in Orders(S),
         NEW k \in Nat, k <= Len(line)
  PROVE  /\ Front(line, k) \subseteq S
         /\ Cardinality(Front(line, k)) = k
         /\ Rest(line, k) \in Seq(S)
         /\ Distinct(Rest(line, k))
         /\ Elements(Rest(line, k)) = S \ Front(line, k)
         /\ (S \ Front(line, k) # {} => k < Len(line))
<1> DEFINE n == Cardinality(S)
           rest == SubSeq(line, k + 1, Len(line))
           first == {line[i] : i \in 1..k}
<1>1. n \in Nat
  BY FS_CardinalityType
<1>2. line \in [1..n -> S] /\ \A i, j \in 1..n : line[i] = line[j] => i = j
  BY DEF Orders
<1>3. line \in Seq(S)
  <2>1. line = [i \in 1..n |-> line[i]]
    BY <1>2
  <2>2. QED
    BY <1>1, <1>2
<1>4. Len(line) = n
  BY <1>1, <1>2, <1>3, LenProperties
<1>5. \A x \in S : \E i \in 1..n : line[i] = x
  <2>1. line \in Injection(1..n, S)
    BY <1>2 DEF Injection, IsInjective
  <2>2. Cardinality(1..n) = n
    BY <1>1, FS_Interval
  <2>3. line \in Surjection(1..n, S)
    BY <2>1, <2>2, FS_Injection
  <2>4. QED
    BY <2>3 DEF Surjection
<1>6. first \subseteq S /\ IsFiniteSet(first) /\ Cardinality(first) = k
  <2>1. first \subseteq S
    BY <1>2, <1>4
  <2> DEFINE f == [i \in 1..k |-> line[i]]
  <2>2. f \in [1..k -> first] /\ \A x \in first : \E i \in 1..k : f[i] = x
    OBVIOUS
  <2>3. \A i, j \in 1..k : f[i] = f[j] => i = j
    BY <1>1, <1>2, <1>4
  <2>4. f \in Bijection(1..k, first)
    BY <2>2, <2>3 DEF Bijection, Injection, IsInjective, Surjection
  <2>5. IsFiniteSet(1..k) /\ Cardinality(1..k) = k
    BY FS_Interval
  <2>6. QED
    BY <2>1, <2>4, <2>5, FS_Bijection DEF ExistsBijection
<1>7. /\ rest \in Seq(S) /\ DOMAIN rest = 1..n - k
      /\ \A i \in 1..n - k : rest[i] = line[k + i]
  <2>1. \A i \in k + 1..n : line[i] \in S
    BY <1>1, <1>2
  <2>2. /\ rest \in Seq(S) /\ Len(rest) = IF k + 1 <= n THEN n - (k + 1) + 1 ELSE 0
        /\ \A i \in 1..n - (k + 1) + 1 : rest[i] = line[k + 1 + i - 1]
    BY <1>1, <1>4, <2>1, SubSeqProperties
  <2>3. Len(rest) = n - k
    BY <1>1, <1>4, <2>2
  <2>4. DOMAIN rest = 1..n - k
    BY <2>2, <2>3, LenProperties
  <2>5. \A i \in 1..n - k : i \in 1..n - (k + 1) + 1 /\ k + 1 + i - 1 = k + i
    BY <1>1
  <2>6. QED
    BY <2>2, <2>4, <2>5
<1>8. Distinct(rest)
  <2>1. SUFFICES ASSUME NEW i \in 1..n - k, NEW j \in 1..n - k, rest[i] = rest[j]
                 PROVE  i = j
    BY <1>7 DEF Distinct
  <2>2. line[k + i] = line[k + j] /\ k + i \in 1..n /\ k + j \in 1..n
    BY <1>1, <1>7, <2>1
  <2>3. k + i = k + j
    BY <1>2, <2>2
  <2>4. QED
    BY <2>3
<1>9. ASSUME NEW x
      PROVE  x \in Elements(rest) <=> x \in S \ first
  <2>1. ASSUME x \in Elements(rest) PROVE x \in S \ first
    <3>1. PICK i \in 1..n - k : x = line[k + i]
      BY <1>7, <2>1 DEF Elements
    <3>2. k + i \in 1..n /\ \A j \in 1..k : j \in 1..n /\ j # k + i
      BY <1>1, <1>4
    <3>3. QED
      BY <1>2, <3>1, <3>2
  <2>2. ASSUME x \in S \ first PROVE x \in Elements(rest)
    <3>1. PICK i \in 1..n : line[i] = x
      BY <1>5, <2>2
    <3>2. i \notin 1..k
      BY <2>2, <3>1
    <3>3. PICK j \in 1..n - k : i = k + j
      BY <1>1, <3>2
    <3>4. rest[j] = x
      BY <1>7, <3>1, <3>3
    <3>5. QED
      BY <1>7, <3>4 DEF Elements
  <2>3. QED
    BY <2>1, <2>2
<1>10. S \ first # {} => k < Len(line)
  <2>1. SUFFICES ASSUME k = n PROVE S \subseteq first
    BY <1>1, <1>4
  <2>2. QED
    BY <1>5, <2>1
<1>11. first = Front(line, k) /\ rest = Rest(line, k)
  BY DEF Front, Rest
<1>12. Elements(rest) = S \ first
  BY <1>9
<1> HIDE DEF first, rest, n
<1>13. QED
  BY <1>6, <1>7, <1>8, <1>10, <1>11, <1>12

-----------------------------------------------------------------------------
(* The sets of calls a group is made of, and what is the same in every step of a
   group. *)
LEMMA SlotSets ==
  ASSUME Inv
  PROVE  /\ \A S \in {Holding, Woken, Waiting} :
               IsFiniteSet(S) /\ Cardinality(S) \in Nat /\ S \subseteq Grouped
         /\ Holding \cap Woken = {} /\ Holding \cap Waiting = {} /\ Woken \cap Waiting = {}
<1>1. ASSUME NEW S \in {Holding, Woken, Waiting}
      PROVE  IsFiniteSet(S) /\ S \subseteq Grouped
  <2>1. CASE S = {}
    BY <2>1, FS_EmptySet
  <2>2. CASE S # {}
    <3>1. level \in DOMAIN Groups /\ S \subseteq Groups[level]
      <4>1. \A d \in S : level > 0 /\ d \in Groups[level]
        BY DEF Inv, Waits
      <4>2. level > 0 /\ level \in 0..Len(Groups)
        BY <2>2, <4>1 DEF Inv, TypeOK
      <4>3. QED
        BY <4>1, <4>2, GroupFacts
    <3>2. QED
      BY <3>1, GroupFacts, FS_Subset
  <2>3. QED
    BY <2>1, <2>2
<1>2. QED
  BY <1>1, FS_CardinalityType DEF Holding, Woken, Waiting

LEMMA ServiceKept ==
  ASSUME Inv, UNCHANGED <<aborted, onFailure, serving, serviceVars>>,
         call' \in [Calls -> CallType], Budgets',
         level' \in 0..Len(Groups), activeCount' \in Nat, semaphoreQueue' \in Seq(Grouped),
         Waits', SlotsExact',
         \A r \in Runs : call'[r] = call[r]
  PROVE  Inv'
<1>1. Records' /\ TrackerFollows'
  BY RunsKept DEF serviceVars
<1>2. TypeOK'
  BY DEF Inv, TypeOK, CallType, serviceVars
<1>3. QED
  BY <1>1, <1>2 DEF Inv

LEMMA ReleaseStep ==
  ASSUME Inv, NEW c \in Grouped, NEW how \in Answers(c), Release(c, how),
         UNCHANGED <<serving, serviceVars>>
  PROVE  Inv'
<1>1. c \in Calls /\ c \in Holding /\ how \in Outcomes /\ how \in Places
      /\ how \notin {"invoking", "backoff", "woken", "waiting", "idle"}
  BY GroupFacts DEF Answers, Holding, Outcomes, Places
<1>2. /\ Resting(how) \in CallType /\ Resting(how).at = how /\ Paid(Resting(how))
  BY <1>1, PaidResting
<1>3. IsFiniteSet(Holding \ {c}) /\ Cardinality(Holding \ {c}) = Cardinality(Holding) - 1
  BY <1>1, SlotSets, FS_RemoveElement
<1>4. Cardinality(Holding) \in Nat \ {0}
  BY <1>1, SlotSets, FS_EmptySet
<1>5. /\ activeCount = Cardinality(Holding) /\ activeCount' = activeCount - 1
      /\ activeCount + Cardinality(Woken) <= MaxConcurrency
      /\ Waiting # {} => activeCount + Cardinality(Woken) = MaxConcurrency
      /\ UNCHANGED <<aborted, level, onFailure>>
  BY DEF Release, Inv, SlotsExact
<1>6. activeCount' \in Nat /\ activeCount' = Cardinality(Holding \ {c})
  BY <1>3, <1>4, <1>5
<1>7. semaphoreQueue \in Seq(Grouped) /\ Distinct(semaphoreQueue)
      /\ Waiting = Elements(semaphoreQueue)
  BY DEF Inv, TypeOK, Waits, Distinct, Elements
<1>8. MaxConcurrency \in Nat
  BY DispatcherAssumption DEF DispatcherAssumption
<1>9. CASE ReleaseNobody(c, how)
  <2>1. /\ call' \in [Calls -> CallType] /\ Budgets'
        /\ call'[c].at = how /\ \A d \in Calls \ {c} : call'[d] = call[d]
    BY <1>1, <1>2, <1>9, Replaced DEF ReleaseNobody
  <2>2. /\ Holding' = Holding \ {c} /\ Woken' = Woken /\ Waiting' = Waiting
    BY <1>1, <2>1, GroupFacts DEF Holding, Woken, Waiting
  <2>3. UNCHANGED semaphoreQueue /\ semaphoreQueue = <<>>
    BY <1>9 DEF ReleaseNobody
  <2>4. Waiting = {}
    BY <1>7, <2>3, EmptySeq, LenProperties DEF Elements
  <2>5. SlotsExact'
    BY <1>3, <1>4, <1>5, <1>6, <1>8, <2>2, <2>4, SlotSets DEF SlotsExact
  <2>6. Waits'
    <3>1. \A k \in DOMAIN Groups : k > level => \A d \in Groups[k] : call'[d].at = "idle"
      BY <1>1, <2>1, GroupFacts DEF Inv, Waits, Holding
    <3>2. QED
      BY <1>5, <2>2, <2>3, <3>1 DEF Inv, Waits
  <2>7. QED
    BY <1>1, <1>5, <1>6, <1>7, <2>1, <2>3, <2>5, <2>6, GroupFacts, ServiceKept
    DEF Inv, TypeOK
<1>10. CASE ReleaseWaking(c, how)
  <2> DEFINE h == Head(semaphoreQueue)
             x == [call[h] EXCEPT !.at = "woken"]
  <2>1. /\ Tail(semaphoreQueue) \in Seq(Grouped) /\ Distinct(Tail(semaphoreQueue))
        /\ h \in Waiting /\ Elements(Tail(semaphoreQueue)) = Waiting \ {h}
    BY <1>7, <1>10, DistinctTail DEF ReleaseWaking
  <2>2. h \in Grouped /\ h \in Calls /\ call[h].at = "waiting" /\ h # c /\ h \notin Woken
        /\ h \notin Holding /\ c \notin Woken /\ c \notin Waiting
    BY <1>1, <2>1, GroupFacts DEF Waiting, Holding, Woken
  <2>3. x \in CallType /\ x.at = "woken" /\ Paid(x)
    BY <2>2, PaidMove DEF Places
  <2>4. /\ call \in [Calls -> CallType] /\ semaphoreQueue' = Tail(semaphoreQueue)
        /\ call' = [call EXCEPT ![c] = Resting(how), ![h].at = "woken"]
    BY <1>10 DEF ReleaseWaking, Inv, TypeOK, CallType
  <2>5. /\ call'[c] = Resting(how) /\ call'[h] = x
        /\ \A d \in Calls \ {c, h} : call'[d] = call[d]
        /\ DOMAIN call' = Calls
    BY <1>1, <2>2, <2>4
  <2>6. call' \in [Calls -> CallType] /\ Budgets'
    <3>1. \A d \in Calls : call'[d] \in CallType /\ Paid(call'[d])
      BY <1>2, <2>3, <2>4, <2>5 DEF Inv, Budgets
    <3>2. call' = [d \in Calls |-> call'[d]]
      BY <2>4
    <3>3. QED
      BY <3>1, <3>2 DEF Budgets
  <2>7. /\ Holding' = Holding \ {c} /\ Woken' = Woken \cup {h} /\ Waiting' = Waiting \ {h}
    <3>1. call'[c].at = how /\ call'[h].at = "woken"
      BY <1>2, <2>3, <2>5
    <3>2. \A d \in Grouped \ {c, h} : call'[d] = call[d]
      BY <2>5, GroupFacts
    <3>3. Holding' = Holding \ {c}
      BY <1>1, <2>2, <3>1, <3>2 DEF Holding
    <3>4. Woken' = Woken \cup {h}
      BY <1>1, <2>2, <3>1, <3>2 DEF Woken
    <3>5. Waiting' = Waiting \ {h}
      BY <1>1, <2>2, <3>1, <3>2 DEF Waiting
    <3>6. QED
      BY <3>3, <3>4, <3>5
  <2>8. Cardinality(Woken \cup {h}) = Cardinality(Woken) + 1
    BY <2>2, SlotSets, FS_AddElement
  <2>9. SlotsExact'
    BY <1>3, <1>4, <1>5, <1>6, <1>8, <2>1, <2>7, <2>8, SlotSets DEF SlotsExact
  <2>10. Waits'
    <3>1. \A k \in DOMAIN Groups : k > level => \A d \in Groups[k] : call'[d].at = "idle"
      <4>1. ASSUME NEW k \in DOMAIN Groups, k > level, NEW d \in Groups[k]
            PROVE  call'[d].at = "idle"
        <5>1. call[d].at = "idle" /\ d \in Calls
          BY <4>1, GroupFacts DEF Inv, Waits
        <5>2. d # c /\ d # h
          BY <1>1, <2>2, <5>1 DEF Holding
        <5>3. QED
          BY <2>5, <5>1, <5>2
      <4>2. QED
        BY <4>1
    <3>2. \A d \in Holding' \cup Woken' \cup Waiting' : level > 0 /\ d \in Groups[level]
      BY <2>1, <2>7 DEF Inv, Waits
    <3>3. QED
      BY <1>5, <2>1, <2>4, <2>7, <3>1, <3>2 DEF Waits, Distinct, Elements
  <2>11. \A r \in Runs : call'[r] = call[r]
    BY <2>2, <2>5, GroupFacts
  <2>12. QED
    BY <1>5, <1>6, <2>1, <2>4, <2>6, <2>9, <2>10, <2>11, ServiceKept DEF Inv, TypeOK
<1>11. QED
  BY <1>9, <1>10 DEF Release

LEMMA AcquireStep ==
  ASSUME Inv, NEW c \in Grouped, Acquire(c), UNCHANGED <<serving, serviceVars>>
  PROVE  Inv'
<1>1. c \in Calls /\ c \in Woken /\ c \notin Holding /\ c \notin Waiting
      /\ call[c].at = "woken"
  BY GroupFacts DEF Acquire, Woken, Holding, Waiting
<1>2. Attempt(c) \in CallType /\ Attempt(c).at = "invoking" /\ Paid(Attempt(c))
  BY <1>1, FirstAttempt
<1>3. /\ call' \in [Calls -> CallType] /\ Budgets'
      /\ call'[c].at = "invoking" /\ \A d \in Calls \ {c} : call'[d] = call[d]
  BY <1>1, <1>2, Replaced DEF Acquire
<1>4. /\ Holding' = Holding \cup {c} /\ Woken' = Woken \ {c} /\ Waiting' = Waiting
  BY <1>1, <1>3, GroupFacts DEF Holding, Woken, Waiting
<1>5. /\ Cardinality(Holding \cup {c}) = Cardinality(Holding) + 1
      /\ Cardinality(Woken \ {c}) = Cardinality(Woken) - 1
  BY <1>1, SlotSets, FS_AddElement, FS_RemoveElement
<1>6. activeCount' = activeCount + 1 /\ UNCHANGED <<aborted, level, semaphoreQueue, onFailure>>
  BY DEF Acquire
<1>7. MaxConcurrency \in Nat
  BY DispatcherAssumption DEF DispatcherAssumption
<1>8. SlotsExact' /\ activeCount' \in Nat
  BY <1>4, <1>5, <1>6, <1>7, SlotSets DEF Inv, SlotsExact
<1>9. Waits'
  <2>1. \A k \in DOMAIN Groups : k > level => \A d \in Groups[k] : call'[d].at = "idle"
    BY <1>1, <1>3, GroupFacts DEF Inv, Waits
  <2>2. QED
    BY <1>1, <1>4, <1>6, <2>1 DEF Inv, Waits
<1>10. QED
  BY <1>3, <1>6, <1>8, <1>9, GroupFacts, ServiceKept DEF Inv, TypeOK

(* A new group: all the calls of the one before have ended, so the semaphore is
   free; the calls that are admitted fill it as far as they can. *)
LEMMA StartGroupStep ==
  ASSUME Inv, StartGroup, UNCHANGED <<serving, serviceVars>>
  PROVE  Inv'
<1> DEFINE k == level + 1
<1>1. k \in DOMAIN Groups /\ level' = k /\ level' \in 0..Len(Groups) /\ level \in Nat
      /\ UNCHANGED <<aborted, onFailure>>
  BY GroupFacts DEF StartGroup, Inv, TypeOK
<1>2. Holding = {} /\ Woken = {} /\ Waiting = {}
  <2>1. SUFFICES ASSUME NEW c \in Holding \cup Woken \cup Waiting PROVE FALSE
    OBVIOUS
  <2>2. level > 0 /\ c \in Groups[level]
    BY DEF Inv, Waits
  <2>3. c \in Ended
    BY <2>2 DEF StartGroup, GroupSettled
  <2>4. QED
    BY <2>3 DEF Ended, Outcomes, Holding, Woken, Waiting
<1>3. PICK leftOut \in SUBSET Groups[k] : \E line \in Orders(Groups[k] \ leftOut) :
         LET slots == IF MaxConcurrency < Len(line) THEN MaxConcurrency ELSE Len(line)
             admitted == {line[i] : i \in 1..slots}
         IN  /\ activeCount' = slots
             /\ semaphoreQueue' = SubSeq(line, slots + 1, Len(line))
             /\ call' = [c \in Calls |->
                    IF c \in leftOut THEN [call[c] EXCEPT !.at = "failure"]
                    ELSE IF c \in admitted THEN Attempt(c)
                    ELSE IF c \in Groups[k] THEN [call[c] EXCEPT !.at = "waiting"]
                    ELSE call[c]]
  BY DEF StartGroup
<1> DEFINE S == Groups[k] \ leftOut
<1>4. PICK line \in Orders(S) :
         LET slots == IF MaxConcurrency < Len(line) THEN MaxConcurrency ELSE Len(line)
             admitted == {line[i] : i \in 1..slots}
         IN  /\ activeCount' = slots
             /\ semaphoreQueue' = SubSeq(line, slots + 1, Len(line))
             /\ call' = [c \in Calls |->
                    IF c \in leftOut THEN [call[c] EXCEPT !.at = "failure"]
                    ELSE IF c \in admitted THEN Attempt(c)
                    ELSE IF c \in Groups[k] THEN [call[c] EXCEPT !.at = "waiting"]
                    ELSE call[c]]
  BY <1>3
<1> DEFINE slots == IF MaxConcurrency < Len(line) THEN MaxConcurrency ELSE Len(line)
           admitted == {line[i] : i \in 1..slots}
           rest == SubSeq(line, slots + 1, Len(line))
<1>5. IsFiniteSet(S) /\ S \subseteq Grouped /\ leftOut \subseteq Grouped
      /\ Groups[k] \subseteq Grouped /\ Grouped \subseteq Calls
  BY <1>1, GroupFacts, FS_Subset
<1>6. Len(line) \in Nat
  BY <1>5, OrderLength
<1>7. slots \in Nat /\ slots <= Len(line) /\ slots <= MaxConcurrency
      /\ (slots < Len(line) => slots = MaxConcurrency)
  BY <1>6, DispatcherAssumption DEF DispatcherAssumption
<1>8. /\ admitted \subseteq S /\ Cardinality(admitted) = slots
      /\ rest \in Seq(S) /\ Distinct(rest) /\ Elements(rest) = S \ admitted
      /\ (S \ admitted # {} => slots < Len(line))
  <2>1. admitted = Front(line, slots) /\ rest = Rest(line, slots)
    BY DEF Front, Rest
  <2> HIDE DEF slots, S, admitted, rest
  <2>2. QED
    BY <1>5, <1>7, <2>1, CutOrder
<1>9. /\ activeCount' = slots /\ semaphoreQueue' = rest
      /\ call' = [c \in Calls |->
             IF c \in leftOut THEN [call[c] EXCEPT !.at = "failure"]
             ELSE IF c \in admitted THEN Attempt(c)
             ELSE IF c \in Groups[k] THEN [call[c] EXCEPT !.at = "waiting"]
             ELSE call[c]]
  BY <1>4
<1> HIDE DEF slots, admitted, rest
<1>10. \A c \in Groups[k] : c \in Calls /\ call[c].at = "idle"
  BY <1>1, <1>5 DEF Inv, Waits
<1>11. \A c \in leftOut : call'[c] \in CallType /\ call'[c].at = "failure" /\ Paid(call'[c])
  <2>1. SUFFICES ASSUME NEW c \in leftOut
                 PROVE  call'[c] \in CallType /\ call'[c].at = "failure" /\ Paid(call'[c])
    OBVIOUS
  <2>2. call'[c] = [call[c] EXCEPT !.at = "failure"] /\ c \in Calls /\ call[c].at = "idle"
    BY <1>5, <1>9, <1>10
  <2>3. QED
    BY <2>2, PaidMove DEF Places, Outcomes
<1>12. \A c \in admitted : call'[c] \in CallType /\ call'[c].at = "invoking" /\ Paid(call'[c])
  <2>1. SUFFICES ASSUME NEW c \in admitted
                 PROVE  call'[c] \in CallType /\ call'[c].at = "invoking" /\ Paid(call'[c])
    OBVIOUS
  <2>2. c \in Calls /\ call[c].at = "idle" /\ c \notin leftOut
    BY <1>8, <1>10
  <2>3. call'[c] = Attempt(c)
    BY <1>9, <2>2
  <2>4. QED
    BY <2>2, <2>3, FirstAttempt
<1>13. \A c \in S \ admitted :
         call'[c] \in CallType /\ call'[c].at = "waiting" /\ Paid(call'[c])
  <2>1. SUFFICES ASSUME NEW c \in S \ admitted
                 PROVE  call'[c] \in CallType /\ call'[c].at = "waiting" /\ Paid(call'[c])
    OBVIOUS
  <2>2. call'[c] = [call[c] EXCEPT !.at = "waiting"] /\ c \in Calls /\ call[c].at = "idle"
    BY <1>9, <1>10
  <2>3. QED
    BY <2>2, PaidMove DEF Places
<1>14. \A c \in Calls \ Groups[k] : call'[c] = call[c]
  BY <1>8, <1>9
<1>15. call' \in [Calls -> CallType] /\ Budgets'
  <2>1. \A c \in Calls : call'[c] \in CallType /\ Paid(call'[c])
    BY <1>11, <1>12, <1>13, <1>14 DEF Inv, TypeOK, CallType, Budgets
  <2>2. call' = [c \in Calls |-> call'[c]]
    BY <1>9
  <2>3. QED
    BY <2>1, <2>2 DEF Budgets
<1>16. Holding' = admitted /\ Woken' = {} /\ Waiting' = S \ admitted
  <2>1. \A c \in Grouped : \/ (c \in leftOut /\ call'[c].at = "failure")
                          \/ (c \in admitted /\ call'[c].at = "invoking")
                          \/ (c \in S \ admitted /\ call'[c].at = "waiting")
                          \/ /\ c \notin Groups[k]
                             /\ call'[c].at \notin {"invoking", "backoff", "woken", "waiting"}
    BY <1>2, <1>5, <1>11, <1>12, <1>13, <1>14 DEF Holding, Woken, Waiting
  <2>2. admitted \subseteq Grouped /\ S \subseteq Grouped /\ admitted \cap leftOut = {}
        /\ admitted \subseteq Groups[k]
    BY <1>5, <1>8
  <2>3. Holding' = admitted
    BY <2>1, <2>2 DEF Holding
  <2>4. Woken' = {}
    BY <2>1 DEF Woken
  <2>5. Waiting' = S \ admitted
    BY <2>1, <2>2 DEF Waiting
  <2>6. QED
    BY <2>3, <2>4, <2>5
<1>17. SlotsExact'
  <2>1. Cardinality(Woken') = 0
    BY <1>16, FS_EmptySet
  <2>2. MaxConcurrency \in Nat
    BY DispatcherAssumption DEF DispatcherAssumption
  <2>3. QED
    BY <1>7, <1>8, <1>9, <1>16, <2>1, <2>2 DEF SlotsExact
<1>18. Waits'
  <2>1. ASSUME NEW j \in DOMAIN Groups, j > level', NEW c \in Groups[j]
        PROVE  call'[c].at = "idle"
    <3>1. j \in Nat /\ j > level /\ j # k
      BY <1>1, <2>1, GroupFacts
    <3>2. Groups[j] \cap Groups[k] = {} /\ Groups[j] \subseteq Calls
      BY <1>1, <3>1, GroupFacts, DispatcherAssumption DEF DispatcherAssumption
    <3>3. call[c].at = "idle"
      BY <3>1 DEF Inv, Waits
    <3>4. QED
      BY <1>14, <3>2, <3>3
  <2>2. level' > 0 /\ \A c \in Holding' \cup Woken' \cup Waiting' : c \in Groups[level']
    BY <1>1, <1>8, <1>16
  <2>3. QED
    BY <1>8, <1>9, <1>16, <2>1, <2>2 DEF Waits, Distinct, Elements
<1>19. activeCount' \in Nat /\ semaphoreQueue' \in Seq(Grouped)
  <2>1. ASSUME NEW q \in Seq(S) PROVE q \in Seq(Grouped)
    BY <1>5
  <2>2. QED
    BY <1>7, <1>8, <1>9, <2>1
<1>20. \A r \in Runs : call'[r] = call[r]
  BY <1>5, <1>14, GroupFacts
<1>21. QED
  BY <1>1, <1>15, <1>17, <1>18, <1>19, <1>20, ServiceKept

-----------------------------------------------------------------------------
LEMMA InvInit == Init => Inv
<1> SUFFICES ASSUME Init PROVE Inv
  OBVIOUS
<1>1. "idle" \in Places
  BY DEF Places
<1>2. /\ Resting("idle") \in CallType /\ Paid(Resting("idle"))
      /\ \A c \in Calls : call[c] = Resting("idle") /\ call[c].at = "idle"
  BY <1>1, PaidResting DEF Init
<1>3. call \in [Calls -> CallType] /\ Budgets
  BY <1>2 DEF Init, Budgets
<1>4. <<>> \in Seq(Grouped) /\ DOMAIN <<>> = {}
  BY EmptySeq
<1>5. TypeOK
  BY <1>3, <1>4, GroupFacts DEF Init, TypeOK, CallType, Statuses
<1>6. Holding = {} /\ Woken = {} /\ Waiting = {}
  BY <1>2, GroupFacts DEF Holding, Woken, Waiting
<1>7. Waits
  BY <1>2, <1>4, <1>6, GroupFacts DEF Init, Waits
<1>8. MaxConcurrency \in Nat \ {0}
  BY DispatcherAssumption DEF DispatcherAssumption
<1>9. SlotsExact
  BY <1>6, <1>8, FS_EmptySet DEF Init, SlotsExact
<1>10. Records
  BY <1>2, GroupFacts DEF Init, Records, Going, At
<1>11. TrackerFollows
  BY DEF Init, TrackerFollows
<1>12. QED
  BY <1>3, <1>5, <1>7, <1>9, <1>10, <1>11 DEF Inv

LEMMA InvNext == Inv /\ [Next]_vars => Inv'
<1> SUFFICES ASSUME Inv, [Next]_vars PROVE Inv'
  OBVIOUS
<1>1. ASSUME NEW c \in Calls, Proceed(c) PROVE Inv'
  <2>1. CASE Again(c)
    BY <2>1, AgainKeeps
  <2>2. CASE Answer(c)
    BY <2>2, ReleaseStep, ReturnedStep DEF Answer
  <2>3. QED
    BY <1>1, <2>1, <2>2 DEF Proceed
<1>2. CASE Dispatch
  BY <1>2, StartGroupStep, AcquireStep DEF Dispatch
<1>3. ASSUME NEW r \in Runs, Execute(r) \/ Prepare(r) \/ Cancel(r) PROVE Inv'
  BY <1>3, ExecuteStep, PrepareStep, CancelStep
<1>4. CASE UNCHANGED vars
  <2>1. UNCHANGED <<call, aborted, level, activeCount, semaphoreQueue, onFailure, serving,
                    job, stored, since, controllers, tracker>>
    BY <1>4 DEF vars, dispatcherVars, serviceVars
  <2>2. QED
    BY <2>1 DEF Inv, TypeOK, Budgets, Paid, Records, TrackerFollows, Waits, SlotsExact,
         Going, At, Holding, Woken, Waiting
<1>5. QED
  BY <1>1, <1>2, <1>3, <1>4 DEF Next

(* The inductive invariant of the dispatcher and of the service, which the
   properties below follow from. *)
THEOREM Invariance == Spec => []Inv
<1>1. QED
  BY InvInit, InvNext, PTL DEF Spec

(* The types of the dispatcher and of the service, for any calls and budgets. *)
THEOREM TypeCorrect == Spec => []TypeOK
<1>1. Inv => TypeOK
  BY DEF Inv
<1>2. QED
  BY <1>1, Invariance, PTL

(* The semaphore of a group never admits more calls than it has slots, and never
   keeps one waiting for a free slot (_runBoundedGroup). *)
THEOREM SemaphoreExact == Spec => []SlotsExact
<1>1. Inv => SlotsExact
  BY DEF Inv
<1>2. QED
  BY <1>1, Invariance, PTL

(* The loop of invoke never runs out of attempts: each way to go on is paid for
   by a budget, and the budgets add up to one less than the attempts. *)
THEOREM LoopNeverRunsOut == Spec => []AttemptLeft
<1>1. Inv => AttemptLeft
  <2>1. SUFFICES ASSUME Inv, NEW c \in Calls, call[c].at = "backoff"
                 PROVE  call[c].attempt <= MaxRetries + MaxRevisions
    BY DEF AttemptLeft, At
  <2>2. call[c] \in CallType /\ call[c].attempt <= call[c].retries + call[c].revisions
    BY <2>1 DEF Inv, TypeOK, CallType, Budgets, Paid
  <2>3. QED
    BY <2>2, DispatcherAssumption DEF DispatcherAssumption, CallType
<1>2. QED
  BY <1>1, Invariance, PTL

(* A run can be cancelled, and its agent's attempt aborted, until execute has
   left it, however many records are pruned meanwhile. *)
THEOREM AlwaysCancellable == Spec => []CanBeCancelled
<1>1. Inv => CanBeCancelled
  BY DEF Inv, Records, CanBeCancelled
<1>2. QED
  BY <1>1, Invariance, PTL

(* The tracker shows an agent as running only while one of its runs is under
   way, or after one was cancelled or lost. *)
THEOREM TrackerFollowsRuns == Spec => []TrackerFollows
<1>1. Inv => TrackerFollows
  BY DEF Inv
<1>2. QED
  BY <1>1, Invariance, PTL

(* No answer that comes after a cancellation changes the record of the run. *)
THEOREM CancelledForGood == Spec => CancelledStays
<1>1. ASSUME Inv, [Next]_vars, NEW r \in Runs, job[r] = "cancelled"
      PROVE  job'[r] = "cancelled"
  <2>1. job \in [Runs -> Statuses]
    BY <1>1 DEF Inv, TypeOK
  <2>2. ASSUME NEW c \in Calls, Proceed(c) PROVE job'[r] = "cancelled"
    <3>1. CASE Again(c)
      BY <1>1, <3>1 DEF Again, serviceVars
    <3>2. CASE Answer(c)
      <4>1. CASE UNCHANGED serviceVars
        BY <1>1, <4>1 DEF serviceVars
      <4>2. ASSUME c \in Runs, NEW how \in Answers(c), Returned(c, how)
            PROVE  job'[r] = "cancelled"
        <5>1. c \in aborted \/ c # r
          BY <1>1, <4>2, GoingPlaces DEF Inv, Records, Answers
        <5>2. QED
          BY <1>1, <2>1, <4>2, <5>1
          DEF Returned, Drop, Record, Completed, Failed, FailedHalfway
      <4>3. QED
        BY <3>2, <4>1, <4>2 DEF Answer
    <3>3. QED
      BY <2>2, <3>1, <3>2 DEF Proceed
  <2>3. CASE Dispatch
    BY <1>1, <2>3 DEF Dispatch, serviceVars
  <2>4. ASSUME NEW q \in Runs, Execute(q) PROVE job'[r] = "cancelled"
    BY <1>1, <2>1, <2>4 DEF Execute
  <2>5. ASSUME NEW q \in Runs, Prepare(q) PROVE job'[r] = "cancelled"
    BY <1>1, <2>1, <2>5 DEF Prepare, Invoke, Lose, CancelledBefore, Drop, serviceVars
  <2>6. ASSUME NEW q \in Runs, Cancel(q) PROVE job'[r] = "cancelled"
    BY <1>1, <2>1, <2>6 DEF Cancel, CancelJob, CancelUnheard, Drop
  <2>7. CASE UNCHANGED vars
    BY <1>1, <2>7 DEF vars, serviceVars
  <2>8. QED
    BY <1>1, <2>2, <2>3, <2>4, <2>5, <2>6, <2>7 DEF Next
<1>2. Inv /\ [Next]_vars => [\A r \in Runs : job[r] = "cancelled" => job'[r] = "cancelled"]_vars
  BY <1>1
<1>3. QED
  BY <1>2, Invariance, PTL DEF Spec, CancelledStays
=============================================================================
