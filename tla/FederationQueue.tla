-------------------------- MODULE FederationQueue --------------------------
(***************************************************************************)
(* Sending federation PDUs: table federation_queues and the worker loop    *)
(* Service.StartWorker.                                                    *)
(*                                                                         *)
(* After a claim the worker has one context, itemCtx, for everything it    *)
(* does with the item: the friction delay, the calls to the target and to  *)
(* its alternatives, and the database statement that ends the claim.       *)
(*                                                                         *)
(* Times are timers that count down to 0, one tick being a second or more. *)
(* A timer at 0 includes the last second before the instant it stands for, *)
(* in which the text comparison of the times may go either way.            *)
(***************************************************************************)
EXTENDS Integers, FiniteSets

CONSTANTS
    Items,        \* queued PDUs: records with id, friction (ticks), secret
                  \* (needs the capability check) and routes (endpoints)
    Workers,      \* worker loops that share the database
    Tokens,       \* lease owner tokens (uuids)
    MaxAttempts,  \* 10
    BackoffUnit,  \* 10 seconds
    Lease,        \* 2 minutes
    Budget,       \* itemCtx, 40 seconds
    Timeout,      \* timeout of one HTTP call, 30 seconds
    Period,       \* of the ticker, 5 seconds
    MaxFaults     \* bound on crashes and database errors

ASSUME QueueAssumption ==
    /\ MaxAttempts \in Nat \ {0}
    /\ BackoffUnit \in Nat \ {0}
    /\ Lease \in Nat /\ Budget \in Nat /\ Timeout \in Nat /\ Period \in Nat \ {0}
    /\ Budget < Lease
    /\ MaxFaults \in Nat
    /\ \A i \in Items : i.friction \in Nat /\ i.secret \in BOOLEAN /\ i.routes \in Nat \ {0}

VARIABLES
    row,       \* federation_queues, by item
    worker,    \* what each worker is doing and the claim it holds
    answered,  \* items some endpoint has answered with success
    faults     \* crashes and database errors so far

vars == <<row, worker, answered, faults>>

NoOwner == "no owner"
ASSUME TokenAssumption == NoOwner \notin Tokens

NewRow == [status |-> "new", attempts |-> 0, wait |-> 0, owner |-> NoOwner, lease |-> 0]
Waiting == [pc |-> "waiting", timer |-> Period]
Claiming == [pc |-> "claiming"]

Init ==
    /\ row = [i \in Items |-> NewRow]
    /\ worker = [w \in Workers |-> Waiting]
    /\ answered = {}
    /\ faults = 0
-----------------------------------------------------------------------------
Become(w, task) == worker' = [worker EXCEPT ![w] = task]

\* AddFederationQueueItem, for a PDU with a fresh id.
AddFederationQueueItem(i) ==
    /\ row[i].status = "new"
    /\ row' = [row EXCEPT ![i].status = "pending"]
    /\ UNCHANGED <<worker, answered, faults>>

\* The ticker fires.
Wake(w) ==
    /\ worker[w].pc = "waiting" /\ worker[w].timer = 0
    /\ Become(w, Claiming)
    /\ UNCHANGED <<row, answered, faults>>
-----------------------------------------------------------------------------
Holding(w) == worker[w].pc \notin {"waiting", "claiming"}

\* uuid.New: a token that neither a row nor a worker has.
Unused == {t \in Tokens : /\ \A i \in Items : row[i].owner # t
                          /\ \A w \in Workers : Holding(w) => worker[w].owner # t}

\* Deviant: a claim under way does not keep others from the item.
DueAnyLease(i) ==
    \/ row[i].status = "pending" /\ row[i].wait = 0
    \/ row[i].status = "sending"

\* Deviant: rows left in sending are never recovered.
DuePending(i) == row[i].status = "pending" /\ row[i].wait = 0

\* Deviant: the claim looks at the times only.
DueByTime(i) == row[i].status # "new" /\ row[i].wait = 0 /\ row[i].lease = 0

Due(i) ==
    \/ row[i].status = "pending" /\ row[i].wait = 0
    \/ row[i].status = "sending" /\ row[i].lease = 0

\* Deviant: the attempt is not counted.
Uncounted(attempts) == attempts

\* The attempts matter only up to MaxAttempts, so the count stops there.
Counted(attempts) == IF attempts < MaxAttempts THEN attempts + 1 ELSE attempts

\* sendTransaction begins with the friction delay, if the sender has one,
\* and a call to an endpoint begins with the capability check, if the PDU is
\* top secret.
Call(i) == IF i.secret THEN "checking" ELSE "posting"
Start(i) == IF i.friction > 0 THEN "delaying" ELSE Call(i)

\* ClaimNextFederationQueueItem: one transaction.  An item whose lease has
\* passed goes before a pending one; the order among the rest is left open.
ClaimNextFederationQueueItem(w, i) ==
    /\ worker[w].pc = "claiming"
    /\ Due(i)
    /\ row[i].status = "pending" => \A j \in Items : Due(j) => row[j].status = "pending"
    /\ Unused # {}
    /\ LET token == CHOOSE t \in Unused : TRUE
           attempts == Counted(row[i].attempts)
       IN /\ row' = [row EXCEPT ![i] = [status |-> "sending", attempts |-> attempts, wait |-> @.wait,
                                        owner |-> token, lease |-> Lease]]
          /\ Become(w, [pc |-> Start(i), item |-> i, owner |-> token, attempts |-> attempts,
                        left |-> Budget, timer |-> IF i.friction > 0 THEN i.friction ELSE Timeout,
                        to |-> 1])
    /\ UNCHANGED <<answered, faults>>

\* Nothing is due: the worker waits for the ticker.
ClaimNothing(w) ==
    /\ worker[w].pc = "claiming"
    /\ \A i \in Items : ~Due(i)
    /\ Become(w, Waiting)
    /\ UNCHANGED <<row, answered, faults>>
-----------------------------------------------------------------------------
\* The friction delay is over, and the first call begins; or the context is,
\* and sendTransaction returns without a call.
Delayed(w) ==
    LET t == worker[w] IN
    /\ t.pc = "delaying"
    /\ \/ t.timer = 0 /\ Become(w, [t EXCEPT !.pc = Call(t.item), !.timer = Timeout])
       \/ t.left = 0 /\ Become(w, [t EXCEPT !.pc = "rescheduling"])
    /\ UNCHANGED <<row, answered, faults>>

\* An answer comes only while neither the call nor the context has timed out.
InTime(t) == t.left > 0 /\ t.timer > 0

\* ensureRemoteTopSecretCapability succeeds.
Capable(w) ==
    LET t == worker[w] IN
    /\ t.pc = "checking" /\ InTime(t)
    /\ Become(w, [t EXCEPT !.pc = "posting", !.timer = Timeout])
    /\ UNCHANGED <<row, answered, faults>>

\* sendToTarget succeeds: the endpoint answers with a status below 400.
Answer(w) ==
    LET t == worker[w] IN
    /\ t.pc = "posting" /\ InTime(t)
    /\ Become(w, [t EXCEPT !.pc = "deleting"])
    /\ answered' = answered \cup {t.item}
    /\ UNCHANGED <<row, faults>>

\* sendToTarget fails, at any time: the endpoint refuses or cannot be
\* reached, or the call or the context times out.  The next endpoint is
\* tried, and after the last one sendTransaction fails.
Fail(w) ==
    LET t == worker[w] IN
    /\ t.pc \in {"checking", "posting"}
    /\ Become(w, IF t.to < t.item.routes
                 THEN [t EXCEPT !.pc = Call(t.item), !.timer = Timeout, !.to = @ + 1]
                 ELSE [t EXCEPT !.pc = "rescheduling"])
    /\ UNCHANGED <<row, answered, faults>>
-----------------------------------------------------------------------------
\* The statements that end a claim name the item, the status and the owner.
OwnsRow(t) == row[t.item].status = "sending" /\ row[t.item].owner = t.owner

DeleteFederationQueueItem(w) ==
    LET t == worker[w] IN
    /\ t.pc = "deleting" /\ t.left > 0
    /\ OwnsRow(t)
    /\ row' = [row EXCEPT ![t.item] = [NewRow EXCEPT !.status = "gone"]]
    /\ Become(w, Claiming)
    /\ UNCHANGED <<answered, faults>>

\* Deviant: the attempt that reaches the limit is retried.
GivesUpLate(t) == t.attempts > MaxAttempts
GivesUp(t) == t.attempts >= MaxAttempts
Backoff(attempts) == BackoffUnit * attempts * attempts

\* rescheduleForRetry and SaveFederationQueueItem.
rescheduleForRetry(w) ==
    LET t == worker[w] IN
    /\ t.pc = "rescheduling" /\ t.left > 0
    /\ OwnsRow(t)
    /\ row' = [row EXCEPT ![t.item] =
                 [status |-> IF GivesUp(t) THEN "failed" ELSE "pending",
                  attempts |-> t.attempts,
                  wait |-> IF GivesUp(t) THEN @.wait ELSE Backoff(t.attempts),
                  owner |-> NoOwner, lease |-> 0]]
    /\ Become(w, Claiming)
    /\ UNCHANGED <<answered, faults>>

\* Either statement has no effect when the context is over or the row is no
\* longer this claim's; the error is ignored and the loop goes on.
EndLost(w) ==
    LET t == worker[w] IN
    /\ t.pc \in {"deleting", "rescheduling"}
    /\ t.left = 0 \/ ~OwnsRow(t)
    /\ Become(w, Claiming)
    /\ UNCHANGED <<row, answered, faults>>
-----------------------------------------------------------------------------
\* A database error: a failed claim leaves the inner loop, a failed end of a
\* claim is ignored.
DatabaseError(w) ==
    /\ faults < MaxFaults
    /\ faults' = faults + 1
    /\ \/ worker[w].pc = "claiming" /\ Become(w, Waiting)
       \/ worker[w].pc \in {"deleting", "rescheduling"} /\ Become(w, Claiming)
    /\ UNCHANGED <<row, answered>>

\* The process dies and starts again.
Crash(w) ==
    /\ faults < MaxFaults
    /\ faults' = faults + 1
    /\ Become(w, Waiting)
    /\ UNCHANGED <<row, answered>>

Down(n) == IF n > 0 THEN n - 1 ELSE 0

Tick ==
    /\ row' = [i \in Items |-> [row[i] EXCEPT !.wait = Down(@), !.lease = Down(@)]]
    /\ worker' = [w \in Workers |->
                    IF Holding(w) THEN [worker[w] EXCEPT !.left = Down(@), !.timer = Down(@)]
                    ELSE IF worker[w].pc = "waiting" THEN [worker[w] EXCEPT !.timer = Down(@)]
                    ELSE worker[w]]
    /\ UNCHANGED <<answered, faults>>

\* A step of the worker's own.
Work(w) ==
    \/ Wake(w)
    \/ \E i \in Items : ClaimNextFederationQueueItem(w, i)
    \/ ClaimNothing(w)
    \/ Delayed(w) \/ Capable(w) \/ Answer(w) \/ Fail(w)
    \/ DeleteFederationQueueItem(w) \/ rescheduleForRetry(w) \/ EndLost(w)

Act ==
    \/ \E i \in Items : AddFederationQueueItem(i)
    \/ \E w \in Workers : Work(w) \/ DatabaseError(w) \/ Crash(w)

Next == Act \/ Tick

Spec == Init /\ [][Next]_vars

\* Liveness is about a machine that keeps up: a worker with a statement to
\* run or a timer that has gone off acts within the tick.
Urgent(w) ==
    \/ worker[w].pc \in {"claiming", "deleting", "rescheduling"}
    \/ worker[w].pc = "waiting" /\ worker[w].timer = 0
    \/ Holding(w) /\ (worker[w].left = 0 \/ worker[w].timer = 0)
PromptTick == (\A w \in Workers : ~Urgent(w)) /\ Tick

FairSpec ==
    /\ Init /\ [][Act \/ PromptTick]_vars
    /\ WF_vars(PromptTick)
    /\ \A w \in Workers : WF_vars(Work(w))
-----------------------------------------------------------------------------
Rows == [status : {"new", "pending", "sending", "failed", "gone"}, attempts : 0..MaxAttempts,
         wait : Nat, owner : Tokens \cup {NoOwner}, lease : Nat]
Claims == [pc : {"delaying", "checking", "posting", "deleting", "rescheduling"},
           item : Items, owner : Tokens, attempts : 1..MaxAttempts,
           left : Nat, timer : Nat, to : Nat]

\* Rows and workers have the shapes of the code.
TypeOK ==
    /\ row \in [Items -> Rows]
    /\ worker \in [Workers -> {Claiming} \cup [pc : {"waiting"}, timer : Nat] \cup Claims]
    /\ answered \in SUBSET Items
    /\ faults \in 0..MaxFaults

\* Whoever's context is alive has the item for itself: two workers never
\* deliver one item at the same time, because a claim's context ends before
\* its lease does.
SingleSender ==
    \A v, w \in Workers :
        /\ Holding(v) /\ worker[v].left > 0
        /\ Holding(w) /\ worker[w].left > 0
        /\ worker[v].item = worker[w].item
        => v = w

\* An item leaves the queue only when an endpoint has answered it, and it is
\* given up only after its last attempt.
EndsForAReason ==
    \A i \in Items :
        /\ row[i].status = "gone" => i \in answered
        /\ row[i].status = "failed" => row[i].attempts = MaxAttempts
        /\ row[i].status = "pending" => row[i].attempts < MaxAttempts

\* Items that left the queue or were given up stay so, whatever stale workers
\* do.
EndIsFinal ==
    [][\A i \in Items : row[i].status \in {"gone", "failed"} => row'[i].status = row[i].status]_vars

\* Every queued item is delivered or given up.
EventuallySettled ==
    \A i \in Items : row[i].status = "pending" ~> row[i].status \in {"gone", "failed"}
=============================================================================
