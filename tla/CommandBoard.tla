----------------------------- MODULE CommandBoard -----------------------------
(***************************************************************************)
(* What the command queue promises (AutoDispatchCommandEntry and           *)
(* claimNextPendingCommand in services/auto-orchestration.ts, appendToQueue *)
(* in services/commands-service.ts): commands are taken in the order of    *)
(* their arrival, one at a time, and the outcome of a command is final.    *)
(***************************************************************************)
EXTENDS Naturals, Sequences

CONSTANTS MaxQueue      \* entries kept, the newest ones

VARIABLES
    queue,              \* the entries: cmd and status
    arrived             \* commands are numbered in the order of arrival

boardVars == <<queue, arrived>>

Entry(c, s) == [cmd |-> c, status |-> s]
Outcomes == {"DONE", "ERROR"}

Init == queue = <<>> /\ arrived = 0

Newest(q) ==
    IF Len(q) <= MaxQueue THEN q ELSE SubSeq(q, Len(q) - MaxQueue + 1, Len(q))

Arrive ==
    /\ arrived' = arrived + 1
    /\ queue' = Newest(Append(queue, Entry(arrived', "PENDING")))

Take ==
    /\ \A i \in DOMAIN queue : queue[i].status # "PROCESSING"
    /\ \E i \in DOMAIN queue :
        /\ queue[i].status = "PENDING"
        /\ \A j \in 1..(i - 1) : queue[j].status \in Outcomes
        /\ queue' = [queue EXCEPT ![i].status = "PROCESSING"]
    /\ UNCHANGED arrived

Settle ==
    /\ \E i \in DOMAIN queue, s \in Outcomes :
        /\ queue[i].status = "PROCESSING"
        /\ queue' = [queue EXCEPT ![i].status = s]
    /\ UNCHANGED arrived

Next == Arrive \/ Take \/ Settle

Spec == Init /\ [][Next]_boardVars
=============================================================================
