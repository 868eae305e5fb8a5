-------------------------- MODULE TransportOutbox --------------------------
(***************************************************************************)
(* The durable outbox of an embedded node: table transport_outbox and the  *)
(* operations Enqueue, Claim, Complete and Defer of the SQL store, called  *)
(* by concurrent transport workers through EmbeddedNode and mobileapi.     *)
(*                                                                         *)
(* Claim is three SQL statements and another worker may run between any    *)
(* two of them; Enqueue, Complete and Defer are one statement each.  A     *)
(* worker reads its clock before it calls, so the time an operation uses   *)
(* may already be old when its statement runs.                             *)
(***************************************************************************)
EXTENDS SqlTime, FiniteSets, TLC

CONSTANTS
    Envelopes,    \* the envelopes callers may submit, records with fields
                  \* id, content, allowed, priority and ttl
    Workers,      \* transport workers of the node
    Transports,   \* internet, local network, bluetooth
    MaxAttempts,  \* claims an envelope is given before it is dead-lettered
    Lease,        \* ticks a claim is valid for
    Horizon       \* bound on the clock

ASSUME OutboxAssumption ==
    /\ MaxAttempts \in Nat \ {0}
    /\ Lease \in Nat \ {0}
    /\ Horizon \in Nat
    /\ \A e \in Envelopes :
          /\ e.allowed \in SUBSET Transports
          /\ e.priority \in 0..100
          /\ e.ttl \in Nat \ {0}

VARIABLES
    clock,    \* wall clock, in ticks
    row,      \* transport_outbox, by envelope id
    issued,   \* number of lease owner tokens handed out
    worker    \* what each worker is doing and the lease it holds

vars == <<clock, row, issued, worker>>

Ids == {e.id : e \in Envelopes}
NoOwner == 0
Settled == {"delivered", "dead_letter"}

\* A stored row, and the absence of one.  env is the immutable part of the
\* row; sound says that the payload still has the stored hash.
Absent == [status |-> "absent"]
Stored(e, now) ==
    [status |-> "pending", env |-> e, attempts |-> 0, next |-> now,
     owner |-> NoOwner, until |-> 0, created |-> now, expires |-> now + e.ttl,
     via |-> {}, sound |-> TRUE]

\* transportqueue.RetryDelay, in ticks: 1 << (attempt - 1) seconds, with the
\* attempt clamped to 1..10.
RetryDelay(attempt) ==
    LET clamped == IF attempt < 1 THEN 1 ELSE IF attempt > 10 THEN 10 ELSE attempt
    IN  TicksPerSecond * <<1, 2, 4, 8, 16, 32, 64, 128, 256, 512>>[clamped]

Idle == [pc |-> "idle"]
Holding(w) == worker[w].pc \in {"holding", "rejecting"}

Init ==
    /\ clock = 0
    /\ row = [i \in Ids |-> Absent]
    /\ issued = 0
    /\ worker = [w \in Workers |-> Idle]
-----------------------------------------------------------------------------
\* Enqueue, first call for the id: INSERT OR IGNORE inserts.  When the id is
\* already stored the statement changes nothing and verifyExistingEnvelope
\* only decides what is returned, so that call is a stuttering step.
Enqueue(e) ==
    /\ row[e.id] = Absent
    /\ row' = [row EXCEPT ![e.id] = Stored(e, clock)]
    /\ UNCHANGED <<clock, issued, worker>>
-----------------------------------------------------------------------------
\* Claim begins: the caller's clock reading is fixed.
ClaimBegin(w) ==
    /\ worker[w].pc = "idle"
    /\ worker' = [worker EXCEPT ![w] = [pc |-> "sweep", now |-> clock]]
    /\ UNCHANGED <<clock, row, issued>>

\* Deviant: the sweep looks at rows of every status.
UnfilteredOverdue(i, now) ==
    /\ row[i] # Absent
    /\ TextLeq(row[i].expires, now) \/ row[i].attempts >= MaxAttempts

Overdue(i, now) ==
    /\ row[i].status \in {"pending", "leased"}
    /\ TextLeq(row[i].expires, now) \/ row[i].attempts >= MaxAttempts

\* First statement of Claim: expired and exhausted rows are dead-lettered,
\* rows under a lease included.  Its error is ignored, hence the second
\* disjunct.
ClaimSweep(w) ==
    /\ worker[w].pc = "sweep"
    /\ worker' = [worker EXCEPT ![w].pc = "take"]
    /\ \/ row' = [i \in Ids |-> IF Overdue(i, worker[w].now)
                                THEN [row[i] EXCEPT !.status = "dead_letter",
                                                    !.owner = NoOwner, !.until = 0]
                                ELSE row[i]]
       \/ UNCHANGED row
    /\ UNCHANGED <<clock, issued>>

\* Deviant: Claim relies on the sweep for the attempt limit.
UnlimitedClaimable(i, now) ==
    /\ row[i].status \in {"pending", "leased"}
    /\ TextLess(now, row[i].expires)
    /\ \/ row[i].status = "pending" /\ TextLeq(row[i].next, now)
       \/ row[i].status = "leased" /\ TextLeq(row[i].until, now)

\* Deviant: Claim takes leased rows whose lease is still running.
ImpatientClaimable(i, now) ==
    /\ row[i].status \in {"pending", "leased"}
    /\ TextLess(now, row[i].expires)
    /\ row[i].attempts < MaxAttempts
    /\ TextLeq(row[i].next, now)

Claimable(i, now) ==
    /\ row[i].status \in {"pending", "leased"}
    /\ TextLess(now, row[i].expires)
    /\ row[i].attempts < MaxAttempts
    /\ \/ row[i].status = "pending" /\ TextLeq(row[i].next, now)
       \/ row[i].status = "leased" /\ TextLeq(row[i].until, now)

\* ORDER BY priority DESC, next_attempt_at ASC, created_at ASC: i before j.
Before(i, j) ==
    LET a == row[i]
        b == row[j]
    IN \/ a.env.priority > b.env.priority
       \/ /\ a.env.priority = b.env.priority
          /\ \/ TextLess(a.next, b.next)
             \/ a.next = b.next /\ TextLess(a.created, b.created)

\* transportqueue.NewLeaseOwner: 32 random bytes, so a token no lease had.
\* Deviant: one token per process.
ProcessLeaseOwner == 1
NewLeaseOwner == issued + 1

\* Second statement of Claim: one row is leased to a fresh random owner.
ClaimTake(w, i) ==
    LET now == worker[w].now IN
    /\ worker[w].pc = "take"
    /\ Claimable(i, now)
    /\ \A j \in Ids : Claimable(j, now) => ~Before(j, i)
    /\ issued' = issued + 1
    /\ row' = [row EXCEPT ![i].status = "leased", ![i].attempts = @ + 1,
                          ![i].owner = NewLeaseOwner, ![i].until = now + Lease]
    /\ worker' = [worker EXCEPT ![w] =
                    [pc |-> IF row[i].sound THEN "holding" ELSE "rejecting",
                     id |-> i, owner |-> NewLeaseOwner,
                     attempts |-> row[i].attempts + 1,
                     expires |-> row[i].expires]]
    /\ UNCHANGED clock

\* Second statement of Claim, no row to lease: Claim returns nil.
ClaimNothing(w) ==
    /\ worker[w].pc = "take"
    /\ \A i \in Ids : ~Claimable(i, worker[w].now)
    /\ worker' = [worker EXCEPT ![w] = Idle]
    /\ UNCHANGED <<clock, row, issued>>

\* Third statement of Claim, when the payload no longer has its hash: the
\* row is dead-lettered if this claim still owns it, and the claim fails.
ClaimReject(w) ==
    LET l == worker[w] IN
    /\ l.pc = "rejecting"
    /\ row' = IF row[l.id].owner = l.owner
              THEN [row EXCEPT ![l.id].status = "dead_letter",
                               ![l.id].owner = NoOwner, ![l.id].until = 0]
              ELSE row
    /\ worker' = [worker EXCEPT ![w] = Idle]
    /\ UNCHANGED <<clock, issued>>
-----------------------------------------------------------------------------
\* The WHERE clause that Complete and Defer share.  Both get their caller's
\* clock reading, taken at some time since the claim.
OwnsRow(l) == row[l.id].status = "leased" /\ row[l.id].owner = l.owner

\* Complete with a lease that is still valid at the caller's time; any other
\* call returns ErrLeaseLost and changes nothing.
Complete(w, via, now) ==
    LET l == worker[w] IN
    /\ l.pc = "holding"
    /\ OwnsRow(l)
    /\ now \in (row[l.id].until - Lease)..clock
    /\ TextLess(now, row[l.id].until)
    /\ via \in row[l.id].env.allowed
    /\ row' = [row EXCEPT ![l.id].status = "delivered", ![l.id].via = {via},
                          ![l.id].owner = NoOwner, ![l.id].until = 0]
    /\ worker' = [worker EXCEPT ![w] = Idle]
    /\ UNCHANGED <<clock, issued>>

\* Deviant: the attempt limit is off by one.
GivesUpLate(l, deadLetter) == deadLetter \/ l.attempts > MaxAttempts
GivesUp(l, deadLetter) == deadLetter \/ l.attempts >= MaxAttempts

\* Defer: back to pending for a later attempt, or to dead_letter when the
\* caller gives up or the attempts recorded in the lease are used up.  The
\* lease's end is not looked at.  A next attempt after the envelope's expiry
\* is refused with ErrInvalidInput and changes nothing.
Defer(w, now, deadLetter) ==
    LET l == worker[w]
        nextAttempt == now + RetryDelay(l.attempts)
        dead == GivesUp(l, deadLetter)
    IN
    /\ l.pc = "holding"
    /\ OwnsRow(l)
    /\ now \in (row[l.id].until - Lease)..clock
    /\ dead \/ nextAttempt <= l.expires
    /\ row' = [row EXCEPT ![l.id].status = IF dead THEN "dead_letter" ELSE "pending",
                          ![l.id].next = nextAttempt,
                          ![l.id].owner = NoOwner, ![l.id].until = 0]
    /\ worker' = [worker EXCEPT ![w] = Idle]
    /\ UNCHANGED <<clock, issued>>

\* QueuedEnvelope.Close: the holder forgets its lease, the row keeps it.
Drop(w) ==
    /\ worker[w].pc = "holding"
    /\ worker' = [worker EXCEPT ![w] = Idle]
    /\ UNCHANGED <<clock, row, issued>>
-----------------------------------------------------------------------------
\* The process dies and starts again: only the database survives.
Restart ==
    /\ worker' = [w \in Workers |-> Idle]
    /\ UNCHANGED <<clock, row, issued>>

\* A stored payload is damaged on the medium.
Damage(i) ==
    /\ row[i].status \in {"pending", "leased"}
    /\ row[i].sound
    /\ row' = [row EXCEPT ![i].sound = FALSE]
    /\ UNCHANGED <<clock, issued, worker>>

Tick ==
    /\ clock < Horizon
    /\ clock' = clock + 1
    /\ UNCHANGED <<row, issued, worker>>

Next ==
    \/ \E e \in Envelopes : Enqueue(e)
    \/ \E w \in Workers :
          \/ ClaimBegin(w) \/ ClaimSweep(w) \/ ClaimNothing(w) \/ ClaimReject(w)
          \/ Drop(w)
          \/ \E i \in Ids : ClaimTake(w, i)
          \/ \E via \in Transports, now \in 0..Horizon : Complete(w, via, now)
          \/ \E now \in 0..Horizon, dead \in BOOLEAN : Defer(w, now, dead)
    \/ Restart
    \/ \E i \in Ids : Damage(i)
    \/ Tick

Spec == Init /\ [][Next]_vars
-----------------------------------------------------------------------------
Rows ==
    [status : {"pending", "leased", "delivered", "dead_letter"},
     env : Envelopes, attempts : 0..MaxAttempts, next : Nat, owner : Nat,
     until : Nat, created : Nat, expires : Nat, via : SUBSET Transports,
     sound : BOOLEAN]

Tasks ==
    {Idle} \cup [pc : {"sweep", "take"}, now : Nat]
           \cup [pc : {"holding", "rejecting"}, id : Ids, owner : Nat,
                 attempts : 1..MaxAttempts, expires : Nat]

\* Every row and every worker is in one of the shapes of the schema; in
\* particular no claim ever pushes a row past MaxAttempts.
TypeOK ==
    /\ clock \in 0..Horizon
    /\ row \in [Ids -> Rows \cup {Absent}]
    /\ issued \in Nat
    /\ worker \in [Workers -> Tasks]

\* A row that waits for a retry still has an attempt left: Defer settles the
\* row when the attempts recorded in the caller's lease are used up, and that
\* record is never behind the table.
PendingHasBudget ==
    \A i \in Ids : row[i].status = "pending" => row[i].attempts < MaxAttempts

\* Fencing.  As long as a worker's owner token is the one in the table, what
\* the worker remembers of the row (attempts, expiry) is what the table says,
\* the row is leased, and no other worker has that token.
LeaseIsCurrent ==
    \A w \in Workers : Holding(w) =>
        LET l == worker[w] IN
        row[l.id].status # "absent" /\ (row[l.id].owner = l.owner =>
          /\ row[l.id].status = "leased"
          /\ row[l.id].attempts = l.attempts
          /\ row[l.id].expires = l.expires
          /\ \A v \in Workers : Holding(v) /\ worker[v].owner = l.owner => v = w)

\* Delivered and dead-lettered rows never change again, and the envelope an id
\* stands for never changes, whatever stale workers, sweeps, restarts or
\* conflicting Enqueue calls do.
SettledIsFinal ==
    [][\A i \in Ids :
         /\ row[i].status \in Settled => row'[i] = row[i]
         /\ row[i] # Absent => row'[i].env = row[i].env]_vars

\* A lease that has not reached its last second is ended by its own holder, or
\* by the sweep of another worker's Claim and then only because the envelope
\* is in its last second or its last attempt is the one in flight.
LeaseHonoured ==
    [][\A i \in Ids :
         /\ row[i].status = "leased"
         /\ Second(clock) < Second(row[i].until)
         /\ row'[i].status # "leased" \/ row'[i].owner # row[i].owner
         => \/ \E w \in Workers :
                 /\ Holding(w) /\ worker[w].owner = row[i].owner
                 /\ worker'[w] = Idle
            \/ /\ row'[i].status = "dead_letter"
               /\ \/ Second(row[i].expires) <= Second(clock)
                  \/ row[i].attempts = MaxAttempts]_vars

\* No retry starts before the time Defer gave it.
RetryNotEarly ==
    [][\A i \in Ids :
         row[i].status = "pending" /\ row'[i].status = "leased"
            => row[i].next <= clock]_vars

-----------------------------------------------------------------------------
(* The small instance that is model-checked: workers are alike, and of     *)
(* three submissions the second reuses the id of the first with another    *)
(* content.                                                                *)
WorkerSymmetry == Permutations(Workers)

ThreeSubmissions ==
    {[id |-> "e1", content |-> "a", allowed |-> {"lan"}, priority |-> 1, ttl |-> 6],
     [id |-> "e1", content |-> "b", allowed |-> {"lan"}, priority |-> 1, ttl |-> 6],
     [id |-> "e2", content |-> "a", allowed |-> {"lan", "net"}, priority |-> 0, ttl |-> 1]}
=============================================================================
