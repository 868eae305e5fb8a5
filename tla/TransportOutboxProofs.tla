----------------------- MODULE TransportOutboxProofs -----------------------
(***************************************************************************)
(* Proofs that the outbox keeps its promises for every set of envelopes,   *)
(* workers and transports, every lease length and every attempt limit.     *)
(*                                                                         *)
(* PendingHasBudget and LeaseIsCurrent are not inductive alone: a stale    *)
(* Defer must be known to miss the row, which needs that owner tokens are  *)
(* never reused (Tokens).                                                  *)
(***************************************************************************)
EXTENDS TransportOutbox, TLAPS

-----------------------------------------------------------------------------
(* What the order of stored times guarantees, for every tick length: across *)
(* seconds it is the order of the instants.  Nothing is promised inside a   *)
(* second.                                                                  *)

\* Second(t) is the quotient: t lies in the tick range of its second.
LEMMA Division ==
    ASSUME NEW t \in Nat
    PROVE  /\ Second(t) \in Nat
           /\ Second(t) * TicksPerSecond <= t
           /\ t < Second(t) * TicksPerSecond + TicksPerSecond
BY TicksAssumption DEF Second

\* Seconds a < b are at least TicksPerSecond ticks apart.
LEMMA Scale ==
    ASSUME NEW a \in Nat, NEW b \in Nat, a < b
    PROVE  a * TicksPerSecond + TicksPerSecond <= b * TicksPerSecond
PROOF
<1>1. b - a - 1 \in Nat /\ TicksPerSecond \in Nat BY TicksAssumption
<1>2. (b - a - 1) * TicksPerSecond \in Nat BY <1>1
<1>3. (b - a - 1) * TicksPerSecond = b * TicksPerSecond - a * TicksPerSecond - TicksPerSecond
  BY <1>1
<1>4. a * TicksPerSecond \in Nat /\ b * TicksPerSecond \in Nat BY <1>1
<1> QED BY <1>1, <1>2, <1>3, <1>4

\* A later instant is not in an earlier second.
LEMMA SecondMonotone ==
    ASSUME NEW a \in Nat, NEW b \in Nat, a <= b PROVE Second(a) <= Second(b)
PROOF
<1> SUFFICES ASSUME Second(b) < Second(a) PROVE FALSE BY Division
<1>1. Second(b) * TicksPerSecond + TicksPerSecond <= Second(a) * TicksPerSecond
  BY Division, Scale, Zenon
<1>2. TicksPerSecond \in Nat /\ Second(a) \in Nat /\ Second(b) \in Nat BY Division, TicksAssumption, Zenon
<1>3. Second(a) * TicksPerSecond \in Nat /\ Second(b) * TicksPerSecond \in Nat BY <1>2
<1> HIDE DEF Second
<1> QED BY <1>1, <1>2, <1>3, Division

\* The fraction of a second that formatTime ranks is less than a second.
LEMMA FractionBound ==
    ASSUME NEW t \in Nat
    PROVE  (t + TicksPerSecond - 1) % TicksPerSecond \in 0..(TicksPerSecond - 1)
BY TicksAssumption

\* An instant in an earlier second is stored as a smaller text: SQL orders
\* times of different seconds as Go orders the instants.
THEOREM EarlierSecondSortsFirst ==
    ASSUME NEW a \in Nat, NEW b \in Nat, Second(a) < Second(b)
    PROVE  TextLess(a, b)
PROOF
<1> DEFINE fr(t) == (t + TicksPerSecond - 1) % TicksPerSecond
<1>1. fr(a) \in 0..(TicksPerSecond - 1) /\ fr(b) \in 0..(TicksPerSecond - 1)
  BY FractionBound, Zenon
<1> HIDE DEF fr
<1>2. Second(a) * TicksPerSecond + TicksPerSecond <= Second(b) * TicksPerSecond
  BY Division, Scale, Zenon
<1>3. TicksPerSecond \in Nat /\ Second(a) \in Nat /\ Second(b) \in Nat
  BY Division, TicksAssumption, Zenon
<1>4. Second(a) * TicksPerSecond \in Nat /\ Second(b) * TicksPerSecond \in Nat BY <1>3
<1>5. Second(a) * TicksPerSecond + fr(a) < Second(b) * TicksPerSecond + fr(b)
  BY <1>1, <1>2, <1>3, <1>4
<1> QED BY <1>5, Zenon DEF TextLess, formatTime, fr

\* A row that a statement's  a <= b  selects is at most in its last second:
\* the comparison is never wrong by a second or more.
THEOREM TextRespectsSeconds ==
    ASSUME NEW a \in Nat, NEW b \in Nat, TextLeq(a, b)
    PROVE  Second(a) <= Second(b)
PROOF
<1> DEFINE fa == formatTime(a)
           fb == formatTime(b)
<1>1. SUFFICES ASSUME Second(b) < Second(a) PROVE FALSE BY Division
<1>2. fb < fa BY <1>1, EarlierSecondSortsFirst, Zenon DEF TextLess
<1>3. fa <= fb BY Zenon DEF TextLeq
<1>4. fa \in Int /\ fb \in Int
  BY Division, FractionBound, TicksAssumption DEF formatTime
<1> QED BY <1>2, <1>3, <1>4

-----------------------------------------------------------------------------
(* The outbox.                                                             *)

\* Owner tokens are handed out once: those in rows and in leases are at most
\* issued, a row has one exactly when it is leased, and no two leases share one.
Tokens ==
    /\ \A i \in Ids : row[i] # Absent =>
          /\ row[i].owner <= issued
          /\ row[i].owner = NoOwner <=> row[i].status # "leased"
    /\ \A w \in Workers : Holding(w) => worker[w].owner \in 1..issued
    /\ \A v, w \in Workers :
          Holding(v) /\ Holding(w) /\ worker[v].owner = worker[w].owner => v = w

IInv == TypeOK /\ Tokens /\ PendingHasBudget /\ LeaseIsCurrent

USE DEF Absent, Idle, NoOwner, NewLeaseOwner, GivesUp

\* The assumption on the constants, with the types that the steps need.
LEMMA Constants ==
    /\ MaxAttempts \in Nat \ {0} /\ Lease \in Nat \ {0} /\ Horizon \in Nat
    /\ \A e \in Envelopes : e.id \in Ids /\ e.ttl \in Nat /\ e.allowed \in SUBSET Transports
BY OutboxAssumption, Zenon DEF Ids

\* A retry delay is a natural number of ticks.
LEMMA RetryDelayType ==
    ASSUME NEW n \in Nat PROVE RetryDelay(n) \in Nat
PROOF
<1> DEFINE clamped == IF n < 1 THEN 1 ELSE IF n > 10 THEN 10 ELSE n
           delays == <<1, 2, 4, 8, 16, 32, 64, 128, 256, 512>>
<1>1. clamped \in 1..10 OBVIOUS
<1>2. \A k \in 1..10 : delays[k] \in Nat OBVIOUS
<1>3. delays[clamped] \in Nat BY <1>1, <1>2
<1> HIDE DEF delays
<1>4. TicksPerSecond * delays[clamped] \in Nat BY <1>3, TicksAssumption
<1> QED BY <1>4, Zenon DEF RetryDelay, delays

\* An empty outbox with idle workers satisfies the invariant.
LEMMA InitIInv == Init => IInv
BY Constants DEF Init, IInv, TypeOK, Tokens, PendingHasBudget, LeaseIsCurrent,
   Holding, Tasks

\* The conjuncts other than the types are about rows and workers only.
LEMMA StutterIInv == IInv /\ UNCHANGED vars => IInv'
BY DEF IInv, TypeOK, Tokens, PendingHasBudget, LeaseIsCurrent, Holding, vars

\* Inserting a row: no worker holds a lease on an absent row.
LEMMA EnqueueIInv ==
    ASSUME IInv, NEW e \in Envelopes, Enqueue(e) PROVE IInv'
PROOF
<1> USE Constants DEF IInv, Enqueue
<1>1. Stored(e, clock) \in Rows /\ Stored(e, clock).status = "pending"
  BY DEF Stored, Rows, TypeOK
<1>2. TypeOK' BY <1>1, Zenon DEF TypeOK
<1>3. Tokens' BY <1>1 DEF Tokens, TypeOK, Stored, Holding
<1>4. PendingHasBudget' BY <1>1 DEF PendingHasBudget, TypeOK, Stored
<1>5. LeaseIsCurrent' BY <1>1 DEF LeaseIsCurrent, TypeOK, Holding
<1> QED BY <1>2, <1>3, <1>4, <1>5, Zenon

\* Steps that only move a worker to a state without a lease.
LEMMA WorkerOnlyIInv ==
    ASSUME IInv, UNCHANGED <<clock, row, issued>>,
           worker' \in [Workers -> Tasks],
           \A w \in Workers : Holding(w)' => Holding(w) /\ worker'[w] = worker[w]
    PROVE  IInv'
PROOF
<1> USE DEF IInv
<1>1. TypeOK' BY Zenon DEF TypeOK
<1>2. Tokens' BY Zenon DEF Tokens
<1>3. PendingHasBudget' BY Zenon DEF PendingHasBudget
<1>4. LeaseIsCurrent' BY DEF LeaseIsCurrent
<1> QED BY <1>1, <1>2, <1>3, <1>4, Zenon

\* Reading the clock touches no row and no lease.
LEMMA ClaimBeginIInv ==
    ASSUME IInv, NEW w \in Workers, ClaimBegin(w) PROVE IInv'
PROOF
<1>1. worker' \in [Workers -> Tasks]
  BY DEF ClaimBegin, IInv, TypeOK, Tasks
<1>2. \A v \in Workers : Holding(v)' => Holding(v) /\ worker'[v] = worker[v]
  BY Zenon DEF ClaimBegin, IInv, TypeOK, Holding
<1> QED BY <1>1, <1>2, WorkerOnlyIInv, Zenon DEF ClaimBegin

\* Forgetting a lease keeps the invariant: the row keeps its token.
LEMMA IdleIInv ==
    ASSUME IInv, NEW w \in Workers, UNCHANGED <<clock, row, issued>>,
           worker' = [worker EXCEPT ![w] = Idle]
    PROVE  IInv'
PROOF
<1>1. worker' \in [Workers -> Tasks]
  BY Zenon DEF IInv, TypeOK, Tasks
<1>2. \A v \in Workers : Holding(v)' => Holding(v) /\ worker'[v] = worker[v]
  BY Zenon DEF IInv, TypeOK, Holding
<1> QED BY <1>1, <1>2, WorkerOnlyIInv, Zenon

\* A restart forgets every lease at once.
LEMMA RestartIInv == IInv /\ Restart => IInv'
PROOF
<1> SUFFICES ASSUME IInv, Restart PROVE IInv' BY Zenon
<1>1. worker' \in [Workers -> Tasks] BY Zenon DEF Restart, Tasks
<1>2. \A v \in Workers : Holding(v)' => Holding(v) /\ worker'[v] = worker[v]
  BY Zenon DEF Restart, Holding
<1> QED BY <1>1, <1>2, WorkerOnlyIInv, Zenon DEF Restart

\* A row gives up its lease: it becomes r, in a status other than leased, with
\* no owner, and the worker that did it becomes idle.
LEMMA ReleaseIInv ==
    ASSUME IInv, NEW w \in Workers, NEW i \in Ids, NEW r \in Rows,
           row[i] # Absent, r.status # "leased", r.owner = NoOwner,
           r.status = "pending" => r.attempts < MaxAttempts,
           row' = [row EXCEPT ![i] = r],
           worker' = [worker EXCEPT ![w] = Idle],
           UNCHANGED <<clock, issued>>
    PROVE  IInv'
PROOF
<1> USE DEF IInv
<1>1. TypeOK' BY Zenon DEF TypeOK, Tasks
<1>2. \A v \in Workers : Holding(v)' => Holding(v) /\ worker'[v] = worker[v]
  BY Zenon DEF TypeOK, Holding
<1>3. Tokens' BY <1>2 DEF Tokens, TypeOK, Rows
<1>4. PendingHasBudget' BY Zenon DEF PendingHasBudget, TypeOK
<1>5. LeaseIsCurrent'
  <2> SUFFICES ASSUME NEW v \in Workers, Holding(v)'
               PROVE  /\ row'[worker'[v].id].status # "absent"
                      /\ row'[worker'[v].id].owner = worker'[v].owner =>
                           /\ row'[worker'[v].id].status = "leased"
                           /\ row'[worker'[v].id].attempts = worker'[v].attempts
                           /\ row'[worker'[v].id].expires = worker'[v].expires
                           /\ \A u \in Workers : Holding(u)' /\ worker'[u].owner = worker'[v].owner
                                 => u = v
    BY Zenon DEF LeaseIsCurrent
  <2>1. Holding(v) /\ worker'[v] = worker[v] /\ worker[v].id \in Ids /\ worker[v].owner # NoOwner
    BY <1>2 DEF TypeOK, Tasks, Holding, Tokens
  <2>2. \A u \in Workers : Holding(u)' /\ worker'[u].owner = worker'[v].owner => u = v
    BY <2>1, <1>2, Zenon DEF Tokens
  <2>3. CASE worker[v].id = i BY <2>1, <2>2, <2>3, Zenon DEF TypeOK, Rows
  <2>4. CASE worker[v].id # i BY <2>1, <2>2, <2>4 DEF TypeOK, LeaseIsCurrent
  <2> QED BY <2>3, <2>4, Zenon
<1> QED BY <1>1, <1>3, <1>4, <1>5, Zenon

\* The lease a worker holds names a stored row.
LEMMA HeldRow ==
    ASSUME IInv, NEW w \in Workers, Holding(w)
    PROVE  /\ worker[w].id \in Ids /\ row[worker[w].id] \in Rows
           /\ worker[w].attempts \in 1..MaxAttempts /\ worker[w].owner \in 1..issued
           /\ worker[w].expires \in Nat
BY DEF IInv, TypeOK, Tasks, Holding, LeaseIsCurrent, Tokens

\* Rejecting a damaged payload keeps the invariant, lease lost or not.
LEMMA ClaimRejectIInv ==
    ASSUME IInv, NEW w \in Workers, ClaimReject(w) PROVE IInv'
PROOF
<1> DEFINE l == worker[w]
           r == [row[l.id] EXCEPT !.status = "dead_letter", !.owner = NoOwner, !.until = 0]
<1>1. l.id \in Ids /\ row[l.id] \in Rows
  BY HeldRow, Zenon DEF ClaimReject, Holding
<1>2. CASE row[l.id].owner = l.owner
  <2>1. r \in Rows /\ r.status = "dead_letter" /\ r.owner = NoOwner BY <1>1, Zenon DEF Rows
  <2>2. row' = [row EXCEPT ![l.id] = r] BY <1>1, <1>2, Zenon DEF ClaimReject, IInv, TypeOK
  <2>3. row[l.id] # Absent BY <1>1 DEF Rows
  <2> QED BY <1>1, <2>1, <2>2, <2>3, ReleaseIInv, Zenon DEF ClaimReject
<1>3. CASE row[l.id].owner # l.owner
  BY <1>3, IdleIInv, Zenon DEF ClaimReject
<1> QED BY <1>2, <1>3, Zenon

\* Complete settles the row of the current lease.
LEMMA CompleteIInv ==
    ASSUME IInv, NEW w \in Workers, NEW via \in Transports, NEW now \in 0..Horizon,
           Complete(w, via, now)
    PROVE  IInv'
PROOF
<1> DEFINE l == worker[w]
           r == [row[l.id] EXCEPT !.status = "delivered", !.via = {via},
                                  !.owner = NoOwner, !.until = 0]
<1>1. l.id \in Ids /\ row[l.id] \in Rows
  BY HeldRow, Zenon DEF Complete, Holding
<1>2. r \in Rows /\ r.status = "delivered" /\ r.owner = NoOwner BY <1>1, Zenon DEF Rows
<1>3. row' = [row EXCEPT ![l.id] = r] BY <1>1, Zenon DEF Complete, IInv, TypeOK
<1>4. row[l.id] # Absent BY <1>1 DEF Rows
<1> QED BY <1>1, <1>2, <1>3, <1>4, ReleaseIInv, ZenonT(30) DEF Complete

\* Defer decides between pending and dead_letter from the attempts in the
\* lease; LeaseIsCurrent says that they are the attempts in the row.
LEMMA DeferIInv ==
    ASSUME IInv, NEW w \in Workers, NEW now \in 0..Horizon, NEW deadLetter \in BOOLEAN,
           Defer(w, now, deadLetter)
    PROVE  IInv'
PROOF
<1> DEFINE l == worker[w]
           dead == deadLetter \/ l.attempts >= MaxAttempts
           r == [row[l.id] EXCEPT !.status = IF dead THEN "dead_letter" ELSE "pending",
                                  !.next = now + RetryDelay(l.attempts),
                                  !.owner = NoOwner, !.until = 0]
<1>1. l.id \in Ids /\ row[l.id] \in Rows /\ l.attempts \in 1..MaxAttempts
  BY HeldRow, Zenon DEF Defer, Holding
<1>2. row[l.id].attempts = l.attempts
  BY Zenon DEF IInv, LeaseIsCurrent, Defer, OwnsRow, Holding
<1>3. now + RetryDelay(l.attempts) \in Nat BY <1>1, RetryDelayType, Constants
<1>4. r \in Rows BY <1>1, <1>3, Zenon DEF Rows
<1>5. r.status # "leased" /\ r.owner = NoOwner /\ r.attempts = row[l.id].attempts
      /\ (r.status = "pending" => ~dead)
  BY <1>1, Zenon DEF Rows
<1>6. r.status = "pending" => r.attempts < MaxAttempts
  BY <1>1, <1>2, <1>5, Constants
<1>7. row' = [row EXCEPT ![l.id] = r] BY <1>1, ZenonT(30) DEF Defer, IInv, TypeOK
<1>8. row[l.id] # Absent BY <1>1 DEF Rows
<1> HIDE DEF r, dead
<1> QED BY <1>1, <1>4, <1>5, <1>6, <1>7, <1>8, ReleaseIInv, Zenon DEF Defer

\* The sweep changes any number of rows, each of them to dead_letter.
LEMMA ClaimSweepIInv ==
    ASSUME IInv, NEW w \in Workers, ClaimSweep(w) PROVE IInv'
PROOF
<1> USE DEF IInv
<1> DEFINE t == [worker[w] EXCEPT !.pc = "take"]
<1>a. worker[w] \in [pc : {"sweep", "take"}, now : Nat]
  <2>1. worker[w] \in Tasks /\ worker[w].pc = "sweep" BY Zenon DEF ClaimSweep, TypeOK
  <2> QED BY <2>1 DEF Tasks
<1>b. t \in [pc : {"sweep", "take"}, now : Nat] /\ t.pc = "take" BY <1>a, Zenon
<1>c. worker' = [worker EXCEPT ![w] = t] BY Zenon DEF ClaimSweep, TypeOK
<1> HIDE DEF t
<1>1. worker' \in [Workers -> Tasks]
  BY <1>b, <1>c, Zenon DEF TypeOK, Tasks
<1>2. \A v \in Workers : Holding(v)' => Holding(v) /\ worker'[v] = worker[v]
  BY <1>b, <1>c, Zenon DEF TypeOK, Holding
<1>3. CASE UNCHANGED row BY <1>1, <1>2, <1>3, WorkerOnlyIInv, Zenon DEF ClaimSweep
<1>4. CASE row' = [i \in Ids |-> IF Overdue(i, worker[w].now)
                                 THEN [row[i] EXCEPT !.status = "dead_letter",
                                                     !.owner = NoOwner, !.until = 0]
                                 ELSE row[i]]
  <2>1. \A i \in Ids :
          \/ row'[i] = row[i]
          \/ /\ row[i] \in Rows /\ row'[i] \in Rows /\ row'[i].status = "dead_letter"
             /\ row'[i].owner = NoOwner
    <3> SUFFICES ASSUME NEW i \in Ids, Overdue(i, worker[w].now)
                 PROVE  /\ row[i] \in Rows /\ row'[i] \in Rows
                        /\ row'[i].status = "dead_letter" /\ row'[i].owner = NoOwner
      BY <1>4, Zenon
    <3>1. row[i] \in Rows BY DEF Overdue, TypeOK
    <3> QED BY <1>4, <3>1, ZenonT(30) DEF Rows
  <2>2. row' \in [Ids -> Rows \cup {Absent}] BY <1>4, <2>1, ZenonT(30) DEF TypeOK
  <2>3. TypeOK' BY <1>1, <2>2, Zenon DEF TypeOK, ClaimSweep
  <2>4. Tokens'
    <3>1. issued' = issued BY Zenon DEF ClaimSweep
    <3>2. \A i \in Ids : row'[i] # Absent =>
            /\ row'[i].owner <= issued'
            /\ row'[i].owner = NoOwner <=> row'[i].status # "leased"
      BY <2>1, <3>1 DEF Tokens, TypeOK, Rows
    <3> QED BY <1>2, <3>1, <3>2, Zenon DEF Tokens
  <2>5. PendingHasBudget' BY <2>1, Zenon DEF PendingHasBudget
  <2>6. LeaseIsCurrent'
    <3> SUFFICES ASSUME NEW v \in Workers, Holding(v)'
                 PROVE  /\ row'[worker'[v].id].status # "absent"
                        /\ row'[worker'[v].id].owner = worker'[v].owner =>
                             /\ row'[worker'[v].id].status = "leased"
                             /\ row'[worker'[v].id].attempts = worker'[v].attempts
                             /\ row'[worker'[v].id].expires = worker'[v].expires
                             /\ \A u \in Workers : Holding(u)' /\ worker'[u].owner = worker'[v].owner
                                   => u = v
      BY Zenon DEF LeaseIsCurrent
    <3>1. Holding(v) /\ worker'[v] = worker[v] /\ worker[v].id \in Ids /\ worker[v].owner # NoOwner
      BY <1>2, HeldRow
    <3>2. \A u \in Workers : Holding(u)' /\ worker'[u].owner = worker'[v].owner => u = v
      BY <3>1, <1>2, Zenon DEF Tokens
    <3> QED BY <3>1, <3>2, <2>1 DEF LeaseIsCurrent
  <2> QED BY <2>3, <2>4, <2>5, <2>6
<1> QED BY <1>3, <1>4, Zenon DEF ClaimSweep

\* A claim takes a fresh token, so every lease already out on the row stops
\* matching it.
LEMMA ClaimTakeIInv ==
    ASSUME IInv, NEW w \in Workers, NEW i \in Ids, ClaimTake(w, i) PROVE IInv'
PROOF
<1> DEFINE now == worker[w].now
           r == [row[i] EXCEPT !.status = "leased", !.attempts = row[i].attempts + 1,
                               !.owner = issued + 1, !.until = now + Lease]
           l == [pc |-> IF row[i].sound THEN "holding" ELSE "rejecting",
                 id |-> i, owner |-> issued + 1,
                 attempts |-> row[i].attempts + 1, expires |-> row[i].expires]
<1> USE DEF IInv
<1>1. row[i] \in Rows /\ row[i].attempts < MaxAttempts BY DEF ClaimTake, Claimable, TypeOK
<1>2. now \in Nat BY DEF ClaimTake, TypeOK, Tasks
<1>3. issued \in Nat BY Zenon DEF TypeOK
<1>4. r \in Rows /\ r.status = "leased" /\ r.owner = issued + 1
      /\ r.attempts = l.attempts /\ r.expires = l.expires
  <2>1. row[i].attempts + 1 \in 0..MaxAttempts /\ now + Lease \in Nat /\ issued + 1 \in Nat
    BY <1>1, <1>2, <1>3, Constants DEF Rows
  <2> HIDE DEF now
  <2> QED BY <1>1, <2>1, Zenon DEF Rows
<1>5. l \in Tasks BY <1>1, <1>3, Constants DEF Tasks, Rows
<1>6. row' = [row EXCEPT ![i] = r] /\ worker' = [worker EXCEPT ![w] = l]
      /\ issued' = issued + 1 /\ clock' = clock
  BY <1>1, Zenon DEF ClaimTake, TypeOK
<1>7. l.owner = issued + 1 /\ l.id = i BY Zenon
<1> HIDE DEF r, l
<1>8. TypeOK' BY <1>3, <1>4, <1>5, <1>6 DEF TypeOK
<1>9. \A v \in Workers \ {w} : (Holding(v)' <=> Holding(v)) /\ worker'[v] = worker[v]
  BY <1>6, Zenon DEF TypeOK, Holding
<1>10. \A v \in Workers \ {w} : Holding(v) => worker[v].owner \in 1..issued
  BY Zenon DEF Tokens
<1>11. worker'[w] = l BY <1>6, Zenon DEF TypeOK
<1>12. Tokens'
  <2>1. \A j \in Ids : row'[j] # Absent =>
          /\ row'[j].owner <= issued'
          /\ row'[j].owner = NoOwner <=> row'[j].status # "leased"
    BY <1>3, <1>4, <1>6 DEF Tokens, TypeOK, Rows
  <2>2. \A v \in Workers : Holding(v)' => worker'[v].owner \in 1..issued'
    BY <1>3, <1>6, <1>7, <1>9, <1>10, <1>11
  <2>3. \A u, v \in Workers :
          Holding(u)' /\ Holding(v)' /\ worker'[u].owner = worker'[v].owner => u = v
    BY <1>3, <1>7, <1>9, <1>10, <1>11 DEF Tokens
  <2> QED BY <2>1, <2>2, <2>3, Zenon DEF Tokens
<1>13. PendingHasBudget' BY <1>4, <1>6, Zenon DEF PendingHasBudget, TypeOK
<1>14. LeaseIsCurrent'
  <2> SUFFICES ASSUME NEW v \in Workers, Holding(v)'
               PROVE  /\ row'[worker'[v].id].status # "absent"
                      /\ row'[worker'[v].id].owner = worker'[v].owner =>
                           /\ row'[worker'[v].id].status = "leased"
                           /\ row'[worker'[v].id].attempts = worker'[v].attempts
                           /\ row'[worker'[v].id].expires = worker'[v].expires
                           /\ \A u \in Workers : Holding(u)' /\ worker'[u].owner = worker'[v].owner
                                 => u = v
    BY Zenon DEF LeaseIsCurrent
  <2>1. \A u \in Workers : Holding(u)' /\ worker'[u].owner = worker'[v].owner => u = v
    BY <1>12, Zenon DEF Tokens
  <2>2. CASE v = w BY <2>1, <2>2, <1>4, <1>6, <1>7, <1>11, Zenon DEF TypeOK, Rows
  <2>3. CASE v # w
    <3>1. Holding(v) /\ worker'[v] = worker[v] /\ worker[v].id \in Ids BY <2>3, <1>9, HeldRow, Zenon
    <3>2. CASE worker[v].id = i
      BY <3>1, <3>2, <2>3, <1>3, <1>4, <1>6, <1>10 DEF TypeOK, Rows
    <3>3. CASE worker[v].id # i
      BY <3>1, <3>3, <2>1, <1>6 DEF TypeOK, LeaseIsCurrent
    <3> QED BY <3>2, <3>3, Zenon
  <2> QED BY <2>2, <2>3, Zenon
<1> QED BY <1>8, <1>12, <1>13, <1>14, Zenon

\* Damage on the medium changes no column the invariant is about.
LEMMA DamageIInv ==
    ASSUME IInv, NEW i \in Ids, Damage(i) PROVE IInv'
PROOF
<1> DEFINE r == [row[i] EXCEPT !.sound = FALSE]
<1> USE DEF IInv
<1>1. row[i] \in Rows BY DEF Damage, TypeOK
<1>2. r \in Rows /\ r.status = row[i].status /\ r.owner = row[i].owner
      /\ r.attempts = row[i].attempts /\ r.expires = row[i].expires
  BY <1>1, Zenon DEF Rows
<1>3. row' = [row EXCEPT ![i] = r] BY <1>1, Zenon DEF Damage, TypeOK
<1> HIDE DEF r
<1>4. TypeOK' BY <1>2, <1>3, Zenon DEF TypeOK, Damage
<1>5. Tokens' BY <1>1, <1>2, <1>3 DEF Tokens, TypeOK, Damage, Holding, Rows
<1>6. PendingHasBudget' BY <1>2, <1>3, Zenon DEF PendingHasBudget, TypeOK, Damage
<1>7. LeaseIsCurrent' BY <1>1, <1>2, <1>3 DEF LeaseIsCurrent, TypeOK, Damage, Holding, Rows
<1> QED BY <1>4, <1>5, <1>6, <1>7, Zenon

\* The passing of time changes no row.
LEMMA TickIInv == IInv /\ Tick => IInv'
BY Constants DEF IInv, Tick, TypeOK, Tokens, PendingHasBudget, LeaseIsCurrent, Holding

\* The invariant is inductive.
LEMMA NextIInv == IInv /\ [Next]_vars => IInv'
PROOF
<1> SUFFICES ASSUME IInv, [Next]_vars PROVE IInv' BY Zenon
<1>1. ASSUME NEW w \in Workers, ClaimNothing(w) \/ Drop(w) PROVE IInv'
  BY <1>1, IdleIInv, Zenon DEF ClaimNothing, Drop
<1> QED
  BY <1>1, StutterIInv, EnqueueIInv, ClaimBeginIInv, ClaimSweepIInv, ClaimTakeIInv,
     ClaimRejectIInv, CompleteIInv, DeferIInv, RestartIInv, DamageIInv, TickIInv, Zenon
  DEF Next

\* Every behaviour of the outbox keeps the types, the retry budget and the
\* fencing of leases, for any number of workers, envelopes and attempts.
THEOREM OutboxInvariant == Spec => []IInv
BY InitIInv, NextIInv, PTL DEF Spec

\* Spec => []TypeOK: no claim pushes a row past MaxAttempts and every row has
\* the shape of the schema.
THEOREM OutboxTypes == Spec => []TypeOK
BY OutboxInvariant, PTL DEF IInv

\* A pending row always has an attempt left.
THEOREM OutboxBudget == Spec => []PendingHasBudget
BY OutboxInvariant, PTL DEF IInv

\* A lease whose token is still in the table is current and held once.
THEOREM OutboxFencing == Spec => []LeaseIsCurrent
BY OutboxInvariant, PTL DEF IInv
-----------------------------------------------------------------------------
\* A worker's clock reading is never ahead of the clock.
Readings == \A w \in Workers : worker[w].pc \in {"sweep", "take"} => worker[w].now <= clock

\* The clock readings Claim works with are never in the future.
LEMMA ReadingsStep == TypeOK /\ Readings /\ [Next]_vars => Readings'
PROOF
<1> SUFFICES ASSUME TypeOK, Readings, [Next]_vars PROVE Readings' BY Zenon
<1> USE DEF Readings, TypeOK
<1>1. ASSUME NEW w \in Workers, NEW t, worker' = [worker EXCEPT ![w] = t], clock' = clock,
             t.pc \in {"sweep", "take"} => t.now <= clock
      PROVE  Readings'
  BY <1>1, Zenon
<1>2. ASSUME NEW w \in Workers, ClaimBegin(w) PROVE Readings'
  BY <1>2 DEF ClaimBegin
<1>3. ASSUME NEW w \in Workers, ClaimSweep(w) PROVE Readings'
  <2>1. worker[w].now <= clock BY <1>3, ZenonT(30) DEF ClaimSweep
  <2>2. worker[w] \in Tasks /\ worker[w].pc = "sweep" BY <1>3, Zenon DEF ClaimSweep
  <2>3. worker[w] \in [pc : {"sweep", "take"}, now : Nat] BY <2>2 DEF Tasks
  <2>4. [worker[w] EXCEPT !.pc = "take"].now = worker[w].now BY <2>3, Zenon
  <2> QED BY <1>1, <1>3, <2>1, <2>4, ZenonT(30) DEF ClaimSweep
<1>4. ASSUME NEW w \in Workers, ClaimNothing(w) \/ Drop(w) \/ ClaimReject(w) PROVE Readings'
  BY <1>4 DEF ClaimNothing, Drop, ClaimReject
<1>5. ASSUME NEW w \in Workers, NEW i \in Ids, ClaimTake(w, i) PROVE Readings'
  BY <1>5, Zenon DEF ClaimTake
<1>6. ASSUME NEW w \in Workers, NEW via \in Transports, NEW now \in 0..Horizon,
             Complete(w, via, now)
      PROVE  Readings'
  BY <1>6, Zenon DEF Complete
<1>7. ASSUME NEW w \in Workers, NEW now \in 0..Horizon, NEW dead \in BOOLEAN,
             Defer(w, now, dead)
      PROVE  Readings'
  BY <1>7, Zenon DEF Defer
<1>8. ASSUME Restart PROVE Readings' BY <1>8, Zenon DEF Restart
<1>9. ASSUME Tick PROVE Readings'
  <2>1. \A w \in Workers : worker[w].pc \in {"sweep", "take"} => worker[w].now \in Nat
    BY DEF Tasks
  <2> QED BY <1>9, <2>1 DEF Tick
<1>10. CASE UNCHANGED vars BY <1>10, Zenon DEF vars
<1>11. ASSUME NEW e \in Envelopes, Enqueue(e) PROVE Readings' BY <1>11, Zenon DEF Enqueue
<1>12. ASSUME NEW i \in Ids, Damage(i) PROVE Readings' BY <1>12, Zenon DEF Damage
<1> QED
  BY <1>2, <1>3, <1>4, <1>5, <1>6, <1>7, <1>8, <1>9, <1>10, <1>11, <1>12, Zenon DEF Next

\* The ways a step may change row i.
Inserted(i) == row[i] = Absent
SweptAt(i, now) ==
    /\ Overdue(i, now) /\ row'[i].status = "dead_letter"
    /\ row'[i].env = row[i].env
TakenAt(i, now) == Claimable(i, now) /\ row'[i].env = row[i].env
EndedBy(i, w) ==
    /\ Holding(w) /\ worker[w].owner = row[i].owner /\ worker'[w] = Idle
    /\ row[i].status = "leased" /\ row'[i].env = row[i].env
Damaged(i) ==
    /\ row[i].status \in {"pending", "leased"}
    /\ row'[i].status = row[i].status /\ row'[i].owner = row[i].owner
    /\ row'[i].env = row[i].env

RowChange(i) ==
    \/ row'[i] = row[i]
    \/ Inserted(i)
    \/ \E now \in 0..clock : SweptAt(i, now) \/ TakenAt(i, now)
    \/ \E w \in Workers : EndedBy(i, w)
    \/ Damaged(i)

\* A statement that ends the lease of worker w changes w's row only.
LEMMA EndedRow ==
    ASSUME IInv, NEW w \in Workers, Holding(w), OwnsRow(worker[w]),
           worker' = [worker EXCEPT ![w] = Idle],
           NEW r, row' = [row EXCEPT ![worker[w].id] = r],
           r.env = row[worker[w].id].env
    PROVE  \A i \in Ids : RowChange(i)
PROOF
<1>1. worker[w].id \in Ids BY HeldRow, Zenon
<1>2. EndedBy(worker[w].id, w) BY <1>1, Zenon DEF EndedBy, OwnsRow, IInv, TypeOK
<1>3. \A i \in Ids : i # worker[w].id => row'[i] = row[i] BY Zenon DEF IInv, TypeOK
<1> QED BY <1>2, <1>3, Zenon DEF RowChange

\* Every step of the outbox changes a row in one of these ways.
LEMMA RowChanges ==
    ASSUME IInv, Readings, Next PROVE \A i \in Ids : RowChange(i)
PROOF
<1>1. CASE UNCHANGED row BY <1>1, Zenon DEF RowChange
<1>2. ASSUME NEW e \in Envelopes, Enqueue(e) PROVE \A i \in Ids : RowChange(i)
  BY <1>2, Zenon DEF Enqueue, RowChange, Inserted, IInv, TypeOK
<1>3. ASSUME NEW w \in Workers, ClaimSweep(w) PROVE \A i \in Ids : RowChange(i)
  <2> SUFFICES ASSUME NEW i \in Ids, row'[i] # row[i] PROVE RowChange(i) BY Zenon DEF RowChange
  <2>1. worker[w].now \in 0..clock
    <3>1. worker[w] \in Tasks /\ worker[w].pc = "sweep" BY <1>3, Zenon DEF ClaimSweep, IInv, TypeOK
    <3>2. worker[w].now \in Nat BY <3>1 DEF Tasks
    <3> QED BY <3>1, <3>2 DEF Readings, IInv, TypeOK
  <2>2. /\ Overdue(i, worker[w].now)
        /\ row'[i] = [row[i] EXCEPT !.status = "dead_letter", !.owner = NoOwner, !.until = 0]
    BY <1>3, Zenon DEF ClaimSweep
  <2>3. row[i] \in Rows BY <2>2 DEF Overdue, IInv, TypeOK
  <2>4. SweptAt(i, worker[w].now) BY <2>2, <2>3, Zenon DEF SweptAt, Rows
  <2> QED BY <2>1, <2>4, Zenon DEF RowChange
<1>4. ASSUME NEW w \in Workers, NEW j \in Ids, ClaimTake(w, j)
      PROVE  \A i \in Ids : RowChange(i)
  <2>1. worker[w].now \in 0..clock
    <3>1. worker[w] \in Tasks /\ worker[w].pc = "take" BY <1>4, Zenon DEF ClaimTake, IInv, TypeOK
    <3>2. worker[w].now \in Nat BY <3>1 DEF Tasks
    <3> QED BY <3>1, <3>2 DEF Readings, IInv, TypeOK
  <2>2. Claimable(j, worker[w].now) BY <1>4, Zenon DEF ClaimTake
  <2>3. row[j] \in Rows BY <2>2 DEF Claimable, IInv, TypeOK
  <2>4. row'[j].env = row[j].env /\ \A i \in Ids \ {j} : row'[i] = row[i]
    BY <1>4, <2>3, Zenon DEF ClaimTake, IInv, TypeOK, Rows
  <2>5. TakenAt(j, worker[w].now) BY <2>2, <2>4, Zenon DEF TakenAt
  <2> QED BY <2>1, <2>4, <2>5, Zenon DEF RowChange
<1>5. ASSUME NEW w \in Workers, ClaimReject(w) PROVE \A i \in Ids : RowChange(i)
  <2>1. CASE row[worker[w].id].owner = worker[w].owner
    <3> DEFINE r == [row[worker[w].id] EXCEPT !.status = "dead_letter",
                                              !.owner = NoOwner, !.until = 0]
    <3>1. Holding(w) /\ worker' = [worker EXCEPT ![w] = Idle] BY <1>5, Zenon DEF ClaimReject, Holding
    <3>2. OwnsRow(worker[w]) BY <2>1, <3>1, Zenon DEF OwnsRow, IInv, LeaseIsCurrent
    <3>3. row[worker[w].id] \in Rows /\ worker[w].id \in Ids
      BY <3>1, <3>2, HeldRow, Zenon DEF OwnsRow, IInv, TypeOK
    <3>4. r.env = row[worker[w].id].env BY <3>3, Zenon DEF Rows
    <3>5. row' = [row EXCEPT ![worker[w].id] = r] BY <1>5, <2>1, <3>3, Zenon DEF ClaimReject, IInv, TypeOK
    <3> HIDE DEF r
    <3> QED BY <3>1, <3>2, <3>4, <3>5, EndedRow, Zenon
  <2> QED BY <1>5, <2>1, Zenon DEF ClaimReject, RowChange
<1>6. ASSUME NEW w \in Workers, NEW via \in Transports, NEW now \in 0..Horizon,
             Complete(w, via, now)
      PROVE  \A i \in Ids : RowChange(i)
  <2> DEFINE r == [row[worker[w].id] EXCEPT !.status = "delivered", !.via = {via},
                                            !.owner = NoOwner, !.until = 0]
  <2>1. Holding(w) /\ OwnsRow(worker[w]) /\ worker' = [worker EXCEPT ![w] = Idle]
    BY <1>6, Zenon DEF Complete, Holding
  <2>2. row[worker[w].id] \in Rows /\ worker[w].id \in Ids
    BY <2>1, HeldRow, Zenon DEF OwnsRow, IInv, TypeOK
  <2>3. r.env = row[worker[w].id].env BY <2>2, Zenon DEF Rows
  <2>4. row' = [row EXCEPT ![worker[w].id] = r] BY <1>6, <2>2, Zenon DEF Complete, IInv, TypeOK
  <2> HIDE DEF r
  <2> QED BY <2>1, <2>3, <2>4, EndedRow, Zenon
<1>7. ASSUME NEW w \in Workers, NEW now \in 0..Horizon, NEW dead \in BOOLEAN,
             Defer(w, now, dead)
      PROVE  \A i \in Ids : RowChange(i)
  <2> DEFINE l == worker[w]
             r == [row[l.id] EXCEPT
                     !.status = IF dead \/ l.attempts >= MaxAttempts
                                THEN "dead_letter" ELSE "pending",
                     !.next = now + RetryDelay(l.attempts),
                     !.owner = NoOwner, !.until = 0]
  <2>1. Holding(w) /\ OwnsRow(worker[w]) /\ worker' = [worker EXCEPT ![w] = Idle]
    BY <1>7, Zenon DEF Defer, Holding
  <2>2. row[worker[w].id] \in Rows /\ worker[w].id \in Ids
    BY <2>1, HeldRow, Zenon DEF OwnsRow, IInv, TypeOK
  <2>3. r.env = row[worker[w].id].env BY <2>2 DEF Rows
  <2>4. row' = [row EXCEPT ![worker[w].id] = r] BY <1>7, <2>2, Zenon DEF Defer, IInv, TypeOK
  <2> HIDE DEF r, l
  <2> QED BY <2>1, <2>3, <2>4, EndedRow, Zenon DEF l
<1>8. ASSUME NEW j \in Ids, Damage(j) PROVE \A i \in Ids : RowChange(i)
  <2>1. row[j] \in Rows BY <1>8 DEF Damage, IInv, TypeOK
  <2>2. Damaged(j) BY <1>8, <2>1, Zenon DEF Damage, Damaged, IInv, TypeOK, Rows
  <2> QED BY <1>8, <2>2, Zenon DEF Damage, RowChange, IInv, TypeOK
<1>9. ASSUME NEW w \in Workers, ClaimBegin(w) \/ ClaimNothing(w) \/ Drop(w)
      PROVE  UNCHANGED row
  BY <1>9, Zenon DEF ClaimBegin, ClaimNothing, Drop
<1>10. ASSUME Restart \/ Tick PROVE UNCHANGED row BY <1>10, Zenon DEF Restart, Tick
<1> QED BY <1>1, <1>2, <1>3, <1>4, <1>5, <1>6, <1>7, <1>8, <1>9, <1>10, Zenon DEF Next

\* Readings starts true, so with TypeOK it always holds.
LEMMA OutboxReadings == Spec => []Readings
PROOF
<1>1. Init => Readings BY DEF Init, Readings
<1> QED BY <1>1, ReadingsStep, OutboxTypes, PTL DEF Spec

\* Spec => SettledIsFinal: neither a stale Complete or Defer, nor a sweep, nor
\* a conflicting Enqueue touches a settled row or swaps a row's envelope.
THEOREM OutboxSettledIsFinal == Spec => SettledIsFinal
PROOF
<1> DEFINE A == \A i \in Ids :
                  /\ row[i].status \in Settled => row'[i] = row[i]
                  /\ row[i] # Absent => row'[i].env = row[i].env
<1>1. ASSUME IInv, Readings, Next PROVE A
  <2> SUFFICES ASSUME NEW i \in Ids
               PROVE  /\ row[i].status \in Settled => row'[i] = row[i]
                      /\ row[i] # Absent => row'[i].env = row[i].env
    BY Zenon
  <2>1. RowChange(i) BY <1>1, RowChanges, Zenon
  <2> QED BY <2>1 DEF RowChange, Inserted, SweptAt, TakenAt, EndedBy, Damaged,
                      Overdue, Claimable, Settled
<1>2. IInv /\ Readings /\ [Next]_vars => [A]_vars BY <1>1, Zenon
<1> QED BY <1>2, OutboxInvariant, OutboxReadings, PTL DEF Spec, SettledIsFinal

\* Spec => LeaseHonoured: until its last second a lease is ended by its holder
\* only, except that a sweep may dead-letter an envelope in its last second or
\* with its last attempt in flight.
THEOREM OutboxLeaseHonoured == Spec => LeaseHonoured
PROOF
<1> DEFINE B(i) == \/ \E w \in Workers :
                         /\ Holding(w) /\ worker[w].owner = row[i].owner
                         /\ worker'[w] = Idle
                   \/ /\ row'[i].status = "dead_letter"
                      /\ \/ Second(row[i].expires) <= Second(clock)
                         \/ row[i].attempts = MaxAttempts
           A == \A i \in Ids :
                  /\ row[i].status = "leased"
                  /\ Second(clock) < Second(row[i].until)
                  /\ row'[i].status # "leased" \/ row'[i].owner # row[i].owner
                  => B(i)
<1>1. ASSUME IInv, Readings, Next PROVE A
  <2> SUFFICES ASSUME NEW i \in Ids, row[i].status = "leased",
                      Second(clock) < Second(row[i].until),
                      row'[i].status # "leased" \/ row'[i].owner # row[i].owner
               PROVE  B(i)
    BY Zenon
  <2>1. RowChange(i) BY <1>1, RowChanges, Zenon
  <2>2. row[i] \in Rows /\ clock \in Nat BY <1>1, Constants DEF IInv, TypeOK
  <2>3. row[i].until \in Nat /\ row[i].expires \in Nat /\ row[i].attempts \in 0..MaxAttempts
    BY <2>2, Zenon DEF Rows
  <2>4. ASSUME NEW now \in 0..clock PROVE Second(now) <= Second(clock) /\ now \in Nat
    BY <2>2, SecondMonotone
  <2>5. Second(clock) \in Nat /\ Second(row[i].until) \in Nat /\ Second(row[i].expires) \in Nat
    BY <2>2, <2>3, Division, Zenon
  <2>6. ASSUME NEW now \in 0..clock, SweptAt(i, now) PROVE B(i)
    <3>1. CASE TextLeq(row[i].expires, now)
      <4>1. Second(row[i].expires) <= Second(now) BY <3>1, <2>3, <2>4, TextRespectsSeconds, Zenon
      <4>2. Second(now) \in Nat BY <2>4, Division, Zenon
      <4>3. Second(row[i].expires) <= Second(clock) BY <4>1, <4>2, <2>4, <2>5
      <4> QED BY <4>3, <2>6, Zenon DEF SweptAt
    <3>2. CASE row[i].attempts >= MaxAttempts
      BY <3>2, <2>3, <2>6, Constants DEF SweptAt
    <3> QED BY <2>6, <3>1, <3>2, Zenon DEF SweptAt, Overdue
  <2>7. ASSUME NEW now \in 0..clock, TakenAt(i, now) PROVE FALSE
    <3>1. TextLeq(row[i].until, now) BY <2>7, Zenon DEF TakenAt, Claimable
    <3>2. Second(row[i].until) <= Second(now) BY <3>1, <2>3, <2>4, TextRespectsSeconds, Zenon
    <3>3. Second(now) \in Nat BY <2>4, Division, Zenon
    <3> QED BY <3>2, <3>3, <2>4, <2>5
  <2>8. ASSUME NEW w \in Workers, EndedBy(i, w) PROVE B(i) BY <2>8, Zenon DEF EndedBy
  <2>9. ~Inserted(i) /\ ~Damaged(i) /\ row'[i] # row[i]
    BY DEF Inserted, Damaged
  <2> QED BY <2>1, <2>6, <2>7, <2>8, <2>9, Zenon DEF RowChange
<1>2. IInv /\ Readings /\ [Next]_vars => [A]_vars BY <1>1, Zenon
<1> QED BY <1>2, OutboxInvariant, OutboxReadings, PTL DEF Spec, LeaseHonoured
=============================================================================
