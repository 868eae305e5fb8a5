--------------------------- MODULE DeliveryProofs ---------------------------
(***************************************************************************)
(* Proofs about the two ends of a delivery: the contacts whose pinned keys *)
(* a message is encrypted for (Contacts), for every number of peers, keys  *)
(* and overlapping requests; and the queue that carries it to other nodes  *)
(* (FederationQueue), for every number of items, workers, attempts and     *)
(* every length of the timers with Budget < Lease.                         *)
(*                                                                         *)
(* SingleSender is not inductive: that no live claim is taken over rests   *)
(* on a claim's lease outliving its context, tick by tick (Covered), and   *)
(* on no two claims sharing a token (OneHolder).                           *)
(***************************************************************************)
EXTENDS FederationQueue, TLAPS

\* A claim whose context is alive is the one in the table, and the lease in
\* the table ends after the context.
Covered ==
    \A w \in Workers : Holding(w) /\ worker[w].left > 0 =>
        /\ OwnsRow(worker[w])
        /\ row[worker[w].item].lease > worker[w].left

\* A token belongs to one claim.
OneHolder ==
    \A v, w \in Workers : Holding(v) /\ Holding(w) /\ worker[v].owner = worker[w].owner => v = w

\* Only an answered item is about to be deleted, and a new one is unused.
Reasons ==
    /\ \A w \in Workers : worker[w].pc = "deleting" => worker[w].item \in answered
    /\ \A i \in Items : row[i].status = "new" => row[i].attempts = 0

IInv == TypeOK /\ Covered /\ OneHolder /\ Reasons /\ EndsForAReason

Pauses == {Claiming} \cup [pc : {"waiting"}, timer : Nat]

\* The assumptions in the form the proofs use.
LEMMA Constants ==
    /\ MaxAttempts \in Nat /\ MaxAttempts > 0
    /\ Lease \in Nat /\ Budget \in Nat /\ Timeout \in Nat /\ Period \in Nat
    /\ BackoffUnit \in Nat /\ Budget < Lease /\ MaxFaults \in Nat
    /\ NoOwner \notin Tokens
    /\ \A i \in Items : i.friction \in Nat /\ i.secret \in BOOLEAN /\ i.routes \in Nat
BY QueueAssumption, TokenAssumption

\* A worker either pauses or holds a claim.
LEMMA HoldingClaims ==
    ASSUME TypeOK, NEW w \in Workers
    PROVE  /\ Holding(w) <=> worker[w] \in Claims
           /\ ~Holding(w) => worker[w] \in Pauses
           /\ worker[w].pc \notin {"waiting", "claiming"} => worker[w] \in Claims
BY DEF TypeOK, Holding, Claims, Claiming, Pauses

\* The initial state satisfies the invariant.
LEMMA InitIInv == Init => IInv
BY Constants DEF Init, IInv, TypeOK, Rows, NewRow, Waiting, Covered, OneHolder, Reasons,
   EndsForAReason, Holding

\* A worker that stops working on a claim, the table being as it was.
LEMMA PauseIInv ==
    ASSUME IInv, NEW w \in Workers, NEW task \in Pauses, Become(w, task),
           UNCHANGED <<row, answered>>, faults' \in 0..MaxFaults
    PROVE  IInv'
PROOF
<1>1. task.pc \in {"waiting", "claiming"} BY DEF Pauses, Claiming
<1>2. TypeOK' BY Zenon DEF IInv, TypeOK, Become, Pauses
<1>3. /\ worker'[w] = task
      /\ \A v \in Workers \ {w} : worker'[v] = worker[v]
  BY Zenon DEF IInv, TypeOK, Become
<1>4. \A v \in Workers : Holding(v)' => v # w /\ Holding(v) /\ worker'[v] = worker[v]
  BY <1>1, <1>3, Zenon DEF Holding
<1>5. Covered' BY <1>4, Zenon DEF IInv, Covered, OwnsRow
<1>6. OneHolder' BY <1>4, Zenon DEF IInv, OneHolder
<1>7. Reasons' BY <1>1, <1>3, Zenon DEF IInv, Reasons
<1>8. EndsForAReason' BY Zenon DEF IInv, EndsForAReason
<1> QED BY <1>2, <1>5, <1>6, <1>7, <1>8, Zenon DEF IInv

\* A worker that goes on with its claim, the table being as it was.
LEMMA GoOnIInv ==
    ASSUME IInv, NEW w \in Workers, Holding(w), NEW task \in Claims, Become(w, task),
           task.item = worker[w].item, task.owner = worker[w].owner, task.left = worker[w].left,
           UNCHANGED <<row, faults>>, answered' \in SUBSET Items, answered \subseteq answered',
           task.pc = "deleting" => task.item \in answered'
    PROVE  IInv'
PROOF
<1>1. TypeOK' BY Zenon DEF IInv, TypeOK, Become
<1>2. /\ worker'[w] = task
      /\ \A v \in Workers \ {w} : worker'[v] = worker[v]
  BY Zenon DEF IInv, TypeOK, Become
<1>3. \A v \in Workers : Holding(v)' =>
         /\ Holding(v)
         /\ worker'[v].item = worker[v].item
         /\ worker'[v].owner = worker[v].owner
         /\ worker'[v].left = worker[v].left
  BY <1>2, Zenon DEF Holding
<1>4. Covered' BY <1>3 DEF IInv, Covered, OwnsRow
<1>5. OneHolder' BY <1>3, Zenon DEF IInv, OneHolder
<1>6. Reasons' BY <1>2, Zenon DEF IInv, Reasons
<1>7. EndsForAReason' BY Zenon DEF IInv, EndsForAReason
<1> QED BY <1>1, <1>4, <1>5, <1>6, <1>7, Zenon DEF IInv

\* A claim: nobody alive has the item, and nobody has the token.
LEMMA ClaimIInv ==
    ASSUME IInv, NEW w \in Workers, NEW i \in Items, ClaimNextFederationQueueItem(w, i)
    PROVE  IInv'
PROOF
<1> DEFINE token == CHOOSE t \in Unused : TRUE
           attempts == Counted(row[i].attempts)
           r == [status |-> "sending", attempts |-> attempts, wait |-> row[i].wait,
                 owner |-> token, lease |-> Lease]
           task == [pc |-> Start(i), item |-> i, owner |-> token, attempts |-> attempts,
                    left |-> Budget, timer |-> IF i.friction > 0 THEN i.friction ELSE Timeout,
                    to |-> 1]
<1>1. token \in Unused BY Zenon DEF ClaimNextFederationQueueItem
<1>2. token \in Tokens /\ token # NoOwner BY <1>1, Constants, Zenon DEF Unused
<1>3. attempts \in 1..MaxAttempts
  <2>1. row[i].attempts \in 0..MaxAttempts BY Zenon DEF IInv, TypeOK, Rows
  <2> QED BY <2>1, Constants DEF Counted
<1>4. Start(i) \in {"delaying", "checking", "posting"} BY Zenon DEF Start, Call
<1>5. row[i].wait \in Nat BY Zenon DEF IInv, TypeOK, Rows
<1>6. row' = [row EXCEPT ![i] = r] /\ Become(w, task) /\ UNCHANGED <<answered, faults>>
  BY Zenon DEF ClaimNextFederationQueueItem
<1>7. \A v \in Workers : Holding(v) => worker[v].owner # token BY <1>1, Zenon DEF Unused
<1> HIDE DEF token, attempts
<1>8. r \in Rows BY <1>2, <1>3, <1>5, Constants DEF Rows
<1>9. task \in Claims BY <1>2, <1>3, <1>4, Constants, Zenon DEF Claims
<1>10. /\ r.status = "sending" /\ r.owner = token /\ r.lease = Lease
       /\ task.pc = Start(i) /\ task.item = i /\ task.owner = token /\ task.left = Budget
  BY Zenon
<1> HIDE DEF r, task
<1>11. TypeOK' BY <1>6, <1>8, <1>9, Zenon DEF IInv, TypeOK, Become
<1>12. /\ worker'[w] = task /\ row'[i] = r
       /\ \A v \in Workers \ {w} : worker'[v] = worker[v]
       /\ \A j \in Items \ {i} : row'[j] = row[j]
  BY <1>6, Zenon DEF IInv, TypeOK, Become
<1>13. \A v \in Workers : Holding(v) /\ worker[v].left > 0 => worker[v].item # i
  <2> SUFFICES ASSUME NEW v \in Workers, Holding(v), worker[v].left > 0, worker[v].item = i PROVE FALSE
    BY Zenon
  <2>1. row[i].status = "sending" /\ row[i].lease > worker[v].left BY Zenon DEF IInv, Covered, OwnsRow
  <2>2. worker[v].left \in Nat /\ row[i].lease \in Nat
    BY HoldingClaims, Zenon DEF IInv, TypeOK, Claims, Rows
  <2> QED BY <2>1, <2>2 DEF ClaimNextFederationQueueItem, Due
<1>14. Covered'
  <2> SUFFICES ASSUME NEW v \in Workers, Holding(v)', worker'[v].left > 0
               PROVE  OwnsRow(worker[v])' /\ row'[worker'[v].item].lease > worker'[v].left
    BY Zenon DEF Covered
  <2>1. CASE v = w BY <2>1, <1>10, <1>12, Constants, Zenon DEF OwnsRow
  <2>2. CASE v # w
    <3>1. worker'[v] = worker[v] /\ Holding(v) BY <2>2, <1>12, Zenon DEF Holding
    <3>2. worker[v].item # i /\ worker[v].item \in Items
      BY <3>1, <1>13, HoldingClaims, Zenon DEF IInv, Claims
    <3>3. row'[worker[v].item] = row[worker[v].item] BY <3>2, <1>12, Zenon
    <3> QED BY <3>1, <3>3, Zenon DEF IInv, Covered, OwnsRow
  <2> QED BY <2>1, <2>2, Zenon
<1>15. OneHolder'
  <2> SUFFICES ASSUME NEW u \in Workers, NEW v \in Workers, Holding(u)', Holding(v)',
                      worker'[u].owner = worker'[v].owner
               PROVE  u = v
    BY Zenon DEF OneHolder
  <2>1. \A x \in Workers \ {w} : Holding(x)' => Holding(x) /\ worker'[x].owner = worker[x].owner
    BY <1>12, Zenon DEF Holding
  <2>2. worker'[w].owner = token BY <1>10, <1>12, Zenon
  <2> QED BY <2>1, <2>2, <1>7, Zenon DEF IInv, OneHolder
<1>16. Reasons' BY <1>4, <1>6, <1>10, <1>12, Zenon DEF IInv, Reasons
<1>17. EndsForAReason' BY <1>6, <1>10, <1>12 DEF IInv, EndsForAReason
<1> QED BY <1>11, <1>14, <1>15, <1>16, <1>17, Zenon DEF IInv

\* The end of a claim: no other live claim is on the item, because it would
\* have the same token.
LEMMA EndIInv ==
    ASSUME IInv, NEW w \in Workers, DeleteFederationQueueItem(w) \/ rescheduleForRetry(w)
    PROVE  IInv'
PROOF
<1> DEFINE t == worker[w]
           gone == [NewRow EXCEPT !.status = "gone"]
           back == [status |-> IF GivesUp(t) THEN "failed" ELSE "pending",
                    attempts |-> t.attempts,
                    wait |-> IF GivesUp(t) THEN row[t.item].wait ELSE Backoff(t.attempts),
                    owner |-> NoOwner, lease |-> 0]
<1>1. t \in Claims /\ Holding(w) /\ OwnsRow(t)
  BY HoldingClaims, Zenon DEF IInv, DeleteFederationQueueItem, rescheduleForRetry, Holding
<1>2. t.item \in Items /\ t.attempts \in 1..MaxAttempts /\ t.pc # "waiting" BY <1>1, Zenon DEF Claims
<1>3. gone \in Rows /\ gone.status = "gone" BY Constants DEF Rows, NewRow
<1>4. Backoff(t.attempts) \in Nat BY <1>2, Constants DEF Backoff
<1>5. row[t.item].wait \in Nat BY <1>2, Zenon DEF IInv, TypeOK, Rows
<1>6. back \in Rows /\ back.attempts = t.attempts
      /\ back.status = IF GivesUp(t) THEN "failed" ELSE "pending"
  BY <1>2, <1>4, <1>5, Constants DEF Rows
<1>7. \E r \in Rows :
        /\ row' = [row EXCEPT ![t.item] = r]
        /\ r.status \in {"gone", "failed", "pending"}
        /\ r.status = "gone" => t.item \in answered
        /\ r.status = "failed" => r.attempts = MaxAttempts
        /\ r.status = "pending" => r.attempts < MaxAttempts
  <2>1. CASE DeleteFederationQueueItem(w)
    <3>1. row' = [row EXCEPT ![t.item] = gone] BY <2>1, Zenon DEF DeleteFederationQueueItem
    <3>2. t.item \in answered BY <2>1, Zenon DEF IInv, Reasons, DeleteFederationQueueItem
    <3> QED BY <1>3, <3>1, <3>2, Zenon
  <2>2. CASE rescheduleForRetry(w)
    <3>1. row' = [row EXCEPT ![t.item] = back] BY <2>2, <1>2, Zenon DEF rescheduleForRetry, IInv, TypeOK
    <3>2. GivesUp(t) => t.attempts = MaxAttempts BY <1>2, Constants DEF GivesUp
    <3>3. ~GivesUp(t) => t.attempts < MaxAttempts BY <1>2, Constants DEF GivesUp
    <3> HIDE DEF back
    <3> QED BY <1>6, <3>1, <3>2, <3>3, Zenon
  <2> QED BY <2>1, <2>2, Zenon
<1> PICK r \in Rows :
        /\ row' = [row EXCEPT ![t.item] = r]
        /\ r.status \in {"gone", "failed", "pending"}
        /\ r.status = "gone" => t.item \in answered
        /\ r.status = "failed" => r.attempts = MaxAttempts
        /\ r.status = "pending" => r.attempts < MaxAttempts
  BY <1>7, Zenon
<1>8. Become(w, Claiming) /\ UNCHANGED <<answered, faults>>
  BY Zenon DEF DeleteFederationQueueItem, rescheduleForRetry
<1>9. TypeOK' BY <1>2, <1>8, Zenon DEF IInv, TypeOK, Become
<1>10. /\ worker'[w] = Claiming /\ row'[t.item] = r
       /\ \A v \in Workers \ {w} : worker'[v] = worker[v]
       /\ \A j \in Items \ {t.item} : row'[j] = row[j]
  BY <1>2, <1>8, Zenon DEF IInv, TypeOK, Become
<1>11. \A v \in Workers : Holding(v)' => v # w /\ Holding(v) /\ worker'[v] = worker[v]
  BY <1>10 DEF Holding, Claiming
<1>12. Covered'
  <2> SUFFICES ASSUME NEW v \in Workers, Holding(v)', worker'[v].left > 0
               PROVE  OwnsRow(worker[v])' /\ row'[worker'[v].item].lease > worker'[v].left
    BY Zenon DEF Covered
  <2>1. v # w /\ Holding(v) /\ worker'[v] = worker[v] BY <1>11, Zenon
  <2>2. OwnsRow(worker[v]) /\ row[worker[v].item].lease > worker[v].left
    BY <2>1, Zenon DEF IInv, Covered
  <2>3. worker[v].item # t.item
    BY <1>1, <2>1, <2>2, Zenon DEF OwnsRow, IInv, OneHolder
  <2>4. worker[v].item \in Items BY <2>1, HoldingClaims, Zenon DEF IInv, Claims
  <2>5. row'[worker[v].item] = row[worker[v].item] BY <1>10, <2>3, <2>4, Zenon
  <2> QED BY <2>1, <2>2, <2>5, Zenon DEF OwnsRow
<1>13. OneHolder' BY <1>11, Zenon DEF IInv, OneHolder
<1>14. Reasons' BY <1>2, <1>8, <1>10 DEF IInv, Reasons, Claiming
<1>15. EndsForAReason' BY <1>2, <1>8, <1>10 DEF IInv, EndsForAReason
<1> QED BY <1>9, <1>12, <1>13, <1>14, <1>15, Zenon DEF IInv

\* A new item disturbs nobody.
LEMMA AddIInv == ASSUME IInv, NEW i \in Items, AddFederationQueueItem(i) PROVE IInv'
PROOF
<1> DEFINE r == [row[i] EXCEPT !.status = "pending"]
<1>1. row' = [row EXCEPT ![i] = r] /\ row[i].status = "new"
      /\ UNCHANGED <<worker, answered, faults>>
  BY Zenon DEF AddFederationQueueItem, IInv, TypeOK
<1>2. row[i] \in Rows BY Zenon DEF IInv, TypeOK
<1>3. r \in Rows /\ r.status = "pending" /\ r.attempts = row[i].attempts BY <1>2, Zenon DEF Rows
<1> HIDE DEF r
<1>4. TypeOK' BY <1>1, <1>3, Zenon DEF IInv, TypeOK
<1>5. row'[i] = r /\ \A j \in Items \ {i} : row'[j] = row[j] BY <1>1, Zenon DEF IInv, TypeOK
<1>6. Covered'
  <2> SUFFICES ASSUME NEW v \in Workers, Holding(v), worker[v].left > 0
               PROVE  OwnsRow(worker[v])' /\ row'[worker[v].item].lease > worker[v].left
    BY <1>1, Zenon DEF Covered, Holding
  <2>1. OwnsRow(worker[v]) /\ row[worker[v].item].lease > worker[v].left BY Zenon DEF IInv, Covered
  <2>2. worker[v].item \in Items BY HoldingClaims, Zenon DEF IInv, Claims
  <2>3. worker[v].item # i BY <1>1, <2>1, Zenon DEF OwnsRow
  <2>4. row'[worker[v].item] = row[worker[v].item] BY <1>5, <2>2, <2>3, Zenon
  <2> QED BY <1>1, <2>1, <2>4, Zenon DEF OwnsRow
<1>7. OneHolder' BY <1>1, Zenon DEF IInv, OneHolder, Holding
<1>8. Reasons' BY <1>1, <1>3, <1>5, Zenon DEF IInv, Reasons
<1>9. EndsForAReason' BY <1>1, <1>3, <1>5, Constants DEF IInv, EndsForAReason, Reasons
<1> QED BY <1>4, <1>6, <1>7, <1>8, <1>9, Zenon DEF IInv

\* Time: a lease and the context of its claim count down together.
LEMMA TickIInv == ASSUME IInv, Tick PROVE IInv'
PROOF
<1>0. \A n \in Nat : Down(n) \in Nat BY DEF Down
<1>1. \A i \in Items :
        /\ row'[i] \in Rows
        /\ row'[i].status = row[i].status
        /\ row'[i].attempts = row[i].attempts
        /\ row'[i].owner = row[i].owner
        /\ row'[i].lease = Down(row[i].lease)
  <2> SUFFICES ASSUME NEW i \in Items
               PROVE  /\ row'[i] \in Rows
                      /\ row'[i].status = row[i].status
                      /\ row'[i].attempts = row[i].attempts
                      /\ row'[i].owner = row[i].owner
                      /\ row'[i].lease = Down(row[i].lease)
    BY Zenon
  <2>1. row[i] \in Rows BY Zenon DEF IInv, TypeOK
  <2>2. row[i].wait \in Nat /\ row[i].lease \in Nat BY <2>1, Zenon DEF Rows
  <2>3. row'[i] = [row[i] EXCEPT !.wait = Down(row[i].wait), !.lease = Down(row[i].lease)]
    BY Zenon DEF Tick
  <2> HIDE DEF Down
  <2> QED BY <1>0, <2>1, <2>2, <2>3, ZenonT(30) DEF Rows
<1>2. \A w \in Workers : Holding(w) =>
        /\ worker'[w] \in Claims
        /\ worker'[w].pc = worker[w].pc
        /\ worker'[w].item = worker[w].item
        /\ worker'[w].owner = worker[w].owner
        /\ worker'[w].left = Down(worker[w].left)
  <2> SUFFICES ASSUME NEW w \in Workers, Holding(w)
               PROVE  /\ worker'[w] \in Claims
                      /\ worker'[w].pc = worker[w].pc
                      /\ worker'[w].item = worker[w].item
                      /\ worker'[w].owner = worker[w].owner
                      /\ worker'[w].left = Down(worker[w].left)
    BY Zenon
  <2>1. worker[w] \in Claims BY HoldingClaims, Zenon DEF IInv
  <2>2. worker[w].left \in Nat /\ worker[w].timer \in Nat BY <2>1, Zenon DEF Claims
  <2>3. worker'[w] = [worker[w] EXCEPT !.left = Down(worker[w].left), !.timer = Down(worker[w].timer)]
    BY Zenon DEF Tick
  <2> HIDE DEF Down
  <2> QED BY <1>0, <2>1, <2>2, <2>3, ZenonT(30) DEF Claims
<1>3. \A w \in Workers : ~Holding(w) => worker'[w] \in Pauses /\ worker'[w].pc = worker[w].pc
  <2> SUFFICES ASSUME NEW w \in Workers, ~Holding(w)
               PROVE  worker'[w] \in Pauses /\ worker'[w].pc = worker[w].pc
    BY Zenon
  <2>1. worker[w] \in Pauses BY HoldingClaims, Zenon DEF IInv
  <2>2. CASE worker[w].pc = "waiting"
    <3>1. worker[w] \in [pc : {"waiting"}, timer : Nat] BY <2>1, <2>2 DEF Pauses, Claiming
    <3>2. worker'[w] = [worker[w] EXCEPT !.timer = Down(worker[w].timer)] BY <2>2, ZenonT(30) DEF Tick
    <3> HIDE DEF Down
    <3> QED BY <1>0, <3>1, <3>2, Zenon DEF Pauses
  <2>3. CASE worker[w].pc # "waiting"
    <3>1. worker'[w] = worker[w] BY <2>3, Zenon DEF Tick
    <3> QED BY <2>1, <3>1, Zenon
  <2> QED BY <2>2, <2>3, Zenon
<1>4. \A w \in Workers : (Holding(w)' <=> Holding(w)) /\ worker'[w].pc = worker[w].pc
  BY <1>2, <1>3, Zenon DEF Holding
<1>5. TypeOK'
  <2>1. row' \in [Items -> Rows] BY <1>1, ZenonT(30) DEF Tick
  <2>2. DOMAIN worker' = Workers /\ worker' = [w \in Workers |-> worker'[w]] BY Zenon DEF Tick
  <2>3. worker' \in [Workers -> {Claiming} \cup [pc : {"waiting"}, timer : Nat] \cup Claims]
    <3>1. \A w \in Workers : worker'[w] \in {Claiming} \cup [pc : {"waiting"}, timer : Nat] \cup Claims
      BY <1>2, <1>3, Zenon DEF Pauses
    <3> QED BY <2>2, <3>1, Zenon
  <2> QED BY <2>1, <2>3, ZenonT(30) DEF Tick, IInv, TypeOK
<1>6. Covered'
  <2> SUFFICES ASSUME NEW w \in Workers, Holding(w)', worker'[w].left > 0
               PROVE  OwnsRow(worker[w])' /\ row'[worker'[w].item].lease > worker'[w].left
    BY Zenon DEF Covered
  <2>1. Holding(w) /\ worker[w] \in Claims BY <1>4, HoldingClaims, Zenon DEF IInv
  <2>2. worker[w].left \in Nat /\ worker[w].item \in Items BY <2>1, Zenon DEF Claims
  <2>3. worker[w].left > 0 /\ worker'[w].left = worker[w].left - 1
    BY <1>2, <2>1, <2>2 DEF Down
  <2>4. OwnsRow(worker[w]) /\ row[worker[w].item].lease > worker[w].left
    BY <2>1, <2>3, Zenon DEF IInv, Covered
  <2>5. row[worker[w].item].lease \in Nat BY <2>2, Zenon DEF IInv, TypeOK, Rows
  <2>6. row'[worker[w].item].lease = row[worker[w].item].lease - 1
    BY <1>1, <2>2, <2>3, <2>4, <2>5 DEF Down
  <2>7. OwnsRow(worker[w])' BY <1>1, <1>2, <2>1, <2>2, <2>4 DEF OwnsRow
  <2> QED BY <1>2, <2>1, <2>2, <2>3, <2>4, <2>5, <2>6, <2>7
<1>7. OneHolder' BY <1>2, <1>4, Zenon DEF IInv, OneHolder
<1>8. Reasons'
  <2>1. \A w \in Workers : worker'[w].pc = "deleting" => worker'[w].item \in answered'
    <3> SUFFICES ASSUME NEW w \in Workers, worker'[w].pc = "deleting" PROVE worker'[w].item \in answered'
      BY Zenon
    <3>1. worker[w].pc = "deleting" BY <1>4, Zenon
    <3>2. Holding(w) BY <3>1, Zenon DEF Holding
    <3>3. worker[w].item \in answered BY <3>1, Zenon DEF IInv, Reasons
    <3>4. answered' = answered BY ZenonT(30) DEF Tick
    <3> QED BY <1>2, <3>2, <3>3, <3>4, Zenon
  <2> QED BY <1>1, <2>1, Zenon DEF IInv, Reasons
<1>9. EndsForAReason' BY <1>1, ZenonT(30) DEF IInv, EndsForAReason, Tick
<1> QED BY <1>5, <1>6, <1>7, <1>8, <1>9, Zenon DEF IInv

\* The calls of a delivery leave the claim as it is.
LEMMA CallIInv ==
    ASSUME IInv, NEW w \in Workers, Delayed(w) \/ Capable(w) \/ Answer(w) \/ Fail(w)
    PROVE  IInv'
PROOF
<1> DEFINE t == worker[w]
<1>1. t \in Claims /\ Holding(w)
  BY HoldingClaims, Zenon DEF IInv, Delayed, Capable, Answer, Fail, Holding
<1>2. Call(t.item) \in {"checking", "posting"} BY Zenon DEF Call
<1>3. t.item \in Items /\ t.to + 1 \in Nat BY <1>1 DEF Claims
<1>4. UNCHANGED <<row, faults>> BY Zenon DEF Delayed, Capable, Answer, Fail
<1>5. CASE Delayed(w)
  <2>1. UNCHANGED answered BY <1>5, Zenon DEF Delayed
  <2>2. CASE Become(w, [t EXCEPT !.pc = Call(t.item), !.timer = Timeout])
    <3>1. [t EXCEPT !.pc = Call(t.item), !.timer = Timeout] \in Claims
      BY <1>1, <1>2, Constants, Zenon DEF Claims
    <3> QED BY <1>1, <1>2, <1>4, <2>1, <2>2, <3>1, GoOnIInv, Zenon DEF IInv, TypeOK, Claims
  <2>3. CASE Become(w, [t EXCEPT !.pc = "rescheduling"])
    <3>1. [t EXCEPT !.pc = "rescheduling"] \in Claims BY <1>1, Zenon DEF Claims
    <3> QED BY <1>1, <1>4, <2>1, <2>3, <3>1, GoOnIInv, Zenon DEF IInv, TypeOK, Claims
  <2> QED BY <1>5, <2>2, <2>3, Zenon DEF Delayed
<1>6. CASE Capable(w)
  <2>1. UNCHANGED answered /\ Become(w, [t EXCEPT !.pc = "posting", !.timer = Timeout])
    BY <1>6, Zenon DEF Capable
  <2>2. [t EXCEPT !.pc = "posting", !.timer = Timeout] \in Claims BY <1>1, Constants, Zenon DEF Claims
  <2> QED BY <1>1, <1>4, <2>1, <2>2, GoOnIInv, Zenon DEF IInv, TypeOK, Claims
<1>7. CASE Answer(w)
  <2>1. answered' = answered \cup {t.item} /\ Become(w, [t EXCEPT !.pc = "deleting"])
    BY <1>7, Zenon DEF Answer
  <2>2. [t EXCEPT !.pc = "deleting"] \in Claims BY <1>1, Zenon DEF Claims
  <2> QED BY <1>1, <1>3, <1>4, <2>1, <2>2, GoOnIInv, Zenon DEF IInv, TypeOK, Claims
<1>8. CASE Fail(w)
  <2>1. UNCHANGED answered BY <1>8, Zenon DEF Fail
  <2>2. CASE Become(w, [t EXCEPT !.pc = Call(t.item), !.timer = Timeout, !.to = t.to + 1])
    <3>1. [t EXCEPT !.pc = Call(t.item), !.timer = Timeout, !.to = t.to + 1] \in Claims
      BY <1>1, <1>2, <1>3, Constants, Zenon DEF Claims
    <3> QED BY <1>1, <1>2, <1>4, <2>1, <2>2, <3>1, GoOnIInv, Zenon DEF IInv, TypeOK, Claims
  <2>3. CASE Become(w, [t EXCEPT !.pc = "rescheduling"])
    <3>1. [t EXCEPT !.pc = "rescheduling"] \in Claims BY <1>1, Zenon DEF Claims
    <3> QED BY <1>1, <1>4, <2>1, <2>3, <3>1, GoOnIInv, Zenon DEF IInv, TypeOK, Claims
  <2> QED BY <1>8, <2>2, <2>3, Zenon DEF Fail
<1> QED BY <1>5, <1>6, <1>7, <1>8, Zenon

\* The steps after which a worker holds no claim.
LEMMA StopIInv ==
    ASSUME IInv, NEW w \in Workers,
           Wake(w) \/ ClaimNothing(w) \/ EndLost(w) \/ DatabaseError(w) \/ Crash(w)
    PROVE  IInv'
PROOF
<1>1. Waiting \in Pauses /\ Claiming \in Pauses BY Constants, Zenon DEF Waiting, Pauses
<1>2. Become(w, Waiting) \/ Become(w, Claiming)
  BY Zenon DEF Wake, ClaimNothing, EndLost, DatabaseError, Crash
<1>3. UNCHANGED <<row, answered>> BY Zenon DEF Wake, ClaimNothing, EndLost, DatabaseError, Crash
<1>4. faults' \in 0..MaxFaults
  BY Constants DEF Wake, ClaimNothing, EndLost, DatabaseError, Crash, IInv, TypeOK
<1> QED BY <1>1, <1>2, <1>3, <1>4, PauseIInv, Zenon

\* The invariant is inductive.
LEMMA NextIInv == IInv /\ [Next]_vars => IInv'
PROOF
<1> SUFFICES ASSUME IInv, [Next]_vars PROVE IInv' BY Zenon
<1>1. CASE UNCHANGED vars
  BY <1>1, Zenon DEF vars, IInv, TypeOK, Covered, OneHolder, Reasons, EndsForAReason, Holding, OwnsRow
<1>2. CASE Next
  BY <1>2, AddIInv, TickIInv, ClaimIInv, EndIInv, CallIInv, StopIInv, Zenon DEF Next, Act, Work
<1> QED BY <1>1, <1>2, Zenon

\* Rows and workers keep their shapes, every live claim is covered by its
\* lease and every end of an item has its reason.
THEOREM QueueInvariant == Spec => []IInv
BY InitIInv, NextIInv, PTL DEF Spec

\* Rows, workers, timers and the clock keep their types.
THEOREM QueueTypes == Spec => []TypeOK
PROOF
<1>1. IInv => TypeOK BY Zenon DEF IInv
<1> QED BY <1>1, QueueInvariant, PTL

\* Two workers never deliver one item at the same time.
THEOREM QueueSingleSender == Spec => []SingleSender
PROOF
<1>1. IInv => SingleSender BY Zenon DEF IInv, Covered, OneHolder, SingleSender, OwnsRow
<1> QED BY <1>1, QueueInvariant, PTL

\* An item leaves the queue only answered, is given up only after its last
\* attempt, and waits for a retry only with an attempt left.
THEOREM QueueEndsForAReason == Spec => []EndsForAReason
PROOF
<1>1. IInv => EndsForAReason BY Zenon DEF IInv
<1> QED BY <1>1, QueueInvariant, PTL

\* Items that left the queue or were given up stay so.
THEOREM QueueEndIsFinal == Spec => EndIsFinal
PROOF
<1> DEFINE A == \A i \in Items : row[i].status \in {"gone", "failed"} => row'[i].status = row[i].status
<1>1. ASSUME IInv, Next PROVE A
  <2> SUFFICES ASSUME NEW i \in Items, row[i].status \in {"gone", "failed"}
               PROVE  row'[i].status = row[i].status
    BY Zenon
  <2>1. ASSUME NEW j \in Items, AddFederationQueueItem(j) PROVE row'[i].status = row[i].status
    BY <1>1, <2>1, Zenon DEF AddFederationQueueItem, IInv, TypeOK
  <2>2. ASSUME NEW w \in Workers, NEW j \in Items, ClaimNextFederationQueueItem(w, j)
        PROVE  row'[i].status = row[i].status
    <3>1. Due(j) BY <2>2, Zenon DEF ClaimNextFederationQueueItem
    <3>2. i # j BY <3>1, Zenon DEF Due
    <3> QED BY <1>1, <2>2, <3>2, Zenon DEF ClaimNextFederationQueueItem, IInv, TypeOK
  <2>3. ASSUME NEW w \in Workers, DeleteFederationQueueItem(w) \/ rescheduleForRetry(w)
        PROVE  row'[i].status = row[i].status
    <3>1. row[worker[w].item].status = "sending"
      BY <2>3, Zenon DEF DeleteFederationQueueItem, rescheduleForRetry, OwnsRow
    <3>2. i # worker[w].item BY <3>1, Zenon
    <3> QED BY <1>1, <2>3, <3>2, Zenon DEF DeleteFederationQueueItem, rescheduleForRetry, IInv, TypeOK
  <2>4. CASE Tick
    <3>1. row[i] \in Rows BY <1>1, Zenon DEF IInv, TypeOK
    <3> QED BY <2>4, <3>1, Zenon DEF Tick, Rows
  <2>5. CASE UNCHANGED row BY <2>5, Zenon
  <2> QED
    BY <1>1, <2>1, <2>2, <2>3, <2>4, <2>5, Zenon
    DEF Next, Act, Work, Wake, ClaimNothing, Delayed, Capable, Answer, Fail, EndLost,
        DatabaseError, Crash
<1>2. IInv /\ [Next]_vars => [A]_vars BY <1>1, Zenon
<1> QED BY <1>2, QueueInvariant, PTL DEF Spec, EndIsFinal

-----------------------------------------------------------------------------
(* The contacts of an account, for any number of peers, keys and requests. *)
(* Every list the page works with, also the copies that a request or a     *)
(* warning took along, pins accepted keys only as long as no list with     *)
(* another key was ever put in place; and a send compares each recipient's *)
(* key with the one its own copy pins.                                     *)

CONSTANTS Peers, NoPeer, PqCapable, Recipients, Others, MaxKey, MaxTasks, MaxReloads, MaxOps
VARIABLES dir, server, contacts, cache, active, profile, checked, looked, warning, tasks, ops,
          ghost

Book == INSTANCE Contacts

(* What a history has: the keys accepted of each peer, and two findings.   *)
History(g) == {"accepted", "swapped", "wrong"} \subseteq DOMAIN g /\ DOMAIN g.accepted = Peers

(* A record with a key, a list of such records of peers, and a list that   *)
(* pins accepted keys only.                                                *)
Keyed(r) == "key" \in DOMAIN r
Listed(l) == DOMAIN l \subseteq Peers /\ \A p \in DOMAIN l : Keyed(l[p])
Pinned(l, a) == \A p \in DOMAIN l : l[p].key \in a[p]

(* What the history h keeps of g: nothing accepted is forgotten.           *)
Grown(g, h) ==
  /\ History(h) /\ (h.swapped = FALSE => g.swapped = FALSE)
  /\ \A p \in Peers : g.accepted[p] \subseteq h.accepted[p]

(* The lists the page works with.                                          *)
Lists == {contacts, cache, warning.base} \cup {tasks[t].base : t \in 1..MaxTasks}

TasksKept ==
  /\ tasks = [t \in 1..MaxTasks |-> [k |-> tasks[t].k, p |-> tasks[t].p, rec |-> tasks[t].rec,
                                     base |-> tasks[t].base, rs |-> tasks[t].rs]]
  /\ \A t \in 1..MaxTasks :
       /\ tasks[t].k \in {"lookup", "ask", "add", "search"} => tasks[t].p \in Peers
       /\ Keyed(tasks[t].rec)

WarningKept ==
  /\ warning = [kind |-> warning.kind, p |-> warning.p, old |-> warning.old, new |-> warning.new,
                rec |-> warning.rec, base |-> warning.base]
  /\ Keyed(warning.rec) \/ (warning.kind = "send" /\ warning.p \notin DOMAIN warning.base)

ChatKept(c) == "rec" \in DOMAIN c /\ Keyed(c.rec)

ListInv ==
  /\ TasksKept /\ WarningKept /\ ChatKept(active) /\ ChatKept(profile)
  /\ \A l \in Lists : Listed(l)

PinInv ==
  /\ History(ghost) /\ ListInv /\ ghost.swapped \in BOOLEAN
  /\ ghost.swapped = FALSE => ghost.wrong = FALSE /\ \A l \in Lists : Pinned(l, ghost.accepted)

(* A page that is loaded for the first time has no contacts.               *)
LEMMA BookInit == ASSUME Book!ContactsAssumption, Book!Init PROVE PinInv
<1>1. Listed(Book!Empty) /\ \A a : Pinned(Book!Empty, a)
  BY Zenon DEF Listed, Pinned, Book!Empty
<1>2. /\ contacts = Book!Empty /\ cache = Book!Empty /\ warning = Book!NoWarning
      /\ tasks = [t \in 1..MaxTasks |-> IF t = 1 THEN [Book!Idle EXCEPT !.k = "load"] ELSE Book!Idle]
  BY Zenon DEF Book!Init
<1>3. warning.base = Book!Empty /\ \A t \in 1..MaxTasks : tasks[t].base = Book!Empty
  BY <1>2, Zenon DEF Book!NoWarning, Book!Idle
<1>4. \A l \in Lists : l = Book!Empty
  BY <1>2, <1>3, Zenon DEF Lists
<1>a. TasksKept
  <2> DEFINE fst == [k |-> "load", p |-> NoPeer, rec |-> Book!Blank, base |-> Book!Empty, rs |-> <<>>]
             rst == [k |-> "idle", p |-> NoPeer, rec |-> Book!Blank, base |-> Book!Empty, rs |-> <<>>]
  <2>1. Book!Idle = rst /\ [Book!Idle EXCEPT !.k = "load"] = fst
    BY DEF Book!Idle
  <2>2. tasks = [t \in 1..MaxTasks |-> IF t = 1 THEN fst ELSE rst]
    BY <1>2, <2>1, Zenon
  <2>3. Keyed(Book!Blank)
    BY Zenon DEF Keyed, Book!Blank
  <2> QED
    BY <2>2, <2>3, Zenon DEF TasksKept
<1>b. WarningKept
  BY <1>2, Zenon DEF WarningKept, Book!NoWarning, Keyed, Book!Blank
<1>c. ChatKept(active) /\ ChatKept(profile)
  BY Zenon DEF Book!Init, Book!NoChat, ChatKept, Keyed, Book!Blank
<1>5. ListInv
  BY <1>1, <1>4, <1>a, <1>b, <1>c, Zenon DEF ListInv
<1>6. History(ghost) /\ ghost.swapped = FALSE /\ ghost.wrong = FALSE
  BY Zenon DEF Book!Init, History
<1> QED
  BY <1>1, <1>4, <1>5, <1>6, Zenon DEF PinInv

(* Noting a list in the history keeps what it is and what was accepted.    *)
LEMMA NotedGrown ==
  ASSUME NEW g, NEW l, History(g), g.swapped \in BOOLEAN
  PROVE  /\ Grown(g, Book!Noted(g, l)) /\ Book!Noted(g, l).swapped \in BOOLEAN
         /\ Book!Noted(g, l).accepted = g.accepted /\ Book!Noted(g, l).wrong = g.wrong
         /\ Book!Noted(g, l).swapped = FALSE => Pinned(l, g.accepted)
<1> DEFINE other == \E p \in DOMAIN l : l[p].key \notin g.accepted[p]
           s == g.swapped \/ other
           d == g.dropped \/ \E p \in DOMAIN l \cap DOMAIN g.wish : l[p].blocked # g.wish[p]
           h == [g EXCEPT !.swapped = s, !.dropped = d]
<1>1. Book!Noted(g, l) = h
  BY Zenon DEF Book!Noted
<1>2. s \in BOOLEAN /\ (s = FALSE => g.swapped = FALSE /\ ~other)
  BY Zenon
<1>3. ~other => Pinned(l, g.accepted)
  BY Zenon DEF Pinned
<1> HIDE DEF other, s, d
<1>4. History(h) /\ h.accepted = g.accepted /\ h.wrong = g.wrong /\ h.swapped = s
  BY Zenon DEF History
<1>5. Grown(g, h)
  BY <1>2, <1>4, Zenon DEF Grown
<1> QED
  BY <1>1, <1>2, <1>3, <1>4, <1>5, Zenon

(* Accepting a key takes none back.                                        *)
LEMMA AcceptsGrown ==
  ASSUME NEW g, History(g), NEW p, NEW k
  PROVE  /\ Grown(g, Book!Accepts(g, p, k))
         /\ Book!Accepts(g, p, k).wrong = g.wrong /\ Book!Accepts(g, p, k).swapped = g.swapped
<1>1. Book!Accepts(g, p, k) = [g EXCEPT !.accepted = [g.accepted EXCEPT ![p] = @ \cup {k}]]
  BY Zenon DEF Book!Accepts
<1>2. History(Book!Accepts(g, p, k))
  BY <1>1, Zenon DEF History
<1>3. \A q \in Peers : g.accepted[q] \subseteq Book!Accepts(g, p, k).accepted[q]
  BY <1>1 DEF History
<1>4. Book!Accepts(g, p, k).wrong = g.wrong /\ Book!Accepts(g, p, k).swapped = g.swapped
  BY <1>1, Zenon DEF History
<1> QED
  BY <1>2, <1>3, <1>4, Zenon DEF Grown

(* A list that pins accepted keys does so when more are accepted.          *)
LEMMA PinnedGrown ==
  ASSUME NEW g, NEW h, Grown(g, h), NEW l, Listed(l), Pinned(l, g.accepted)
  PROVE  Pinned(l, h.accepted)
  BY Zenon DEF Grown, Listed, Pinned

(* What a history keeps of a history it keeps.                             *)
LEMMA GrownTwice ==
  ASSUME NEW f, NEW g, NEW h, Grown(f, g), Grown(g, h) PROVE Grown(f, h)
  BY Zenon DEF Grown

(* A field of the history that the property does not look at.              *)
LEMMA FieldGrown ==
  ASSUME NEW g, History(g), NEW f, f \notin {"accepted", "swapped", "wrong"}, NEW b
  PROVE  /\ Grown(g, [g EXCEPT ![f] = b])
         /\ [g EXCEPT ![f] = b].wrong = g.wrong /\ [g EXCEPT ![f] = b].swapped = g.swapped
  BY Zenon DEF History, Grown

(* A step that keeps the page's lists, or puts one in place that it notes, *)
(* keeps the invariant.                                                    *)
LEMMA PinKept ==
  ASSUME PinInv, ListInv', Grown(ghost, ghost'), ghost'.swapped \in BOOLEAN,
         ghost'.swapped = FALSE => ghost'.wrong = ghost.wrong,
         \A l \in Lists' : ghost'.swapped = FALSE => l \in Lists \/ Pinned(l, ghost'.accepted)
  PROVE  PinInv'
<1>1. History(ghost)'
  BY Zenon DEF Grown, History
<1>2. ASSUME ghost'.swapped = FALSE
      PROVE ghost'.wrong = FALSE /\ \A l \in Lists' : Pinned(l, ghost'.accepted)
  <2>1. ghost.swapped = FALSE
    BY <1>2, Zenon DEF Grown
  <2>2. ghost.wrong = FALSE /\ \A l \in Lists : Listed(l) /\ Pinned(l, ghost.accepted)
    BY <2>1, Zenon DEF PinInv, ListInv
  <2>3. \A l \in Lists : Pinned(l, ghost'.accepted)
    BY <2>2, PinnedGrown, Zenon
  <2> QED
    BY <1>2, <2>2, <2>3, Zenon
<1> QED
  BY <1>1, <1>2, Zenon DEF PinInv

(* The requests after one has ended or begun.                              *)
LEMMA EndsLists ==
  ASSUME TasksKept, NEW t \in 1..MaxTasks, Book!Ends(t)
  PROVE  /\ TasksKept'
         /\ \A s \in 1..MaxTasks : tasks'[s].base = tasks[s].base \/ tasks'[s].base = Book!Empty
<1>1. tasks' = [tasks EXCEPT ![t] = Book!Idle]
  BY Zenon DEF Book!Ends
<1>2. DOMAIN tasks = 1..MaxTasks
  BY Zenon DEF TasksKept
<1>3. \A s \in 1..MaxTasks : tasks'[s] = IF s = t THEN Book!Idle ELSE tasks[s]
  BY <1>1, <1>2, Zenon
<1>4. tasks' = [s \in 1..MaxTasks |-> tasks'[s]]
  BY <1>1, <1>2, Zenon
<1>5. \A s \in 1..MaxTasks :
        /\ tasks[s] = [k |-> tasks[s].k, p |-> tasks[s].p, rec |-> tasks[s].rec,
                       base |-> tasks[s].base, rs |-> tasks[s].rs]
        /\ tasks[s].k \in {"lookup", "ask", "add", "search"} => tasks[s].p \in Peers
        /\ Keyed(tasks[s].rec)
  BY Zenon DEF TasksKept
<1>6. /\ Book!Idle = [k |-> Book!Idle.k, p |-> Book!Idle.p, rec |-> Book!Idle.rec,
                      base |-> Book!Idle.base, rs |-> Book!Idle.rs]
      /\ Book!Idle.k = "idle" /\ Keyed(Book!Idle.rec) /\ Book!Idle.base = Book!Empty
  BY Zenon DEF Book!Idle, Book!Blank, Keyed
<1> QED
  BY <1>3, <1>4, <1>5, <1>6 DEF TasksKept

(* A request that starts takes the list of contacts along as it is.        *)
LEMMA StartLists ==
  ASSUME TasksKept, NEW k, NEW p, NEW rec, NEW rs, Book!Start(k, p, rec, rs), Keyed(rec),
         k \in {"lookup", "ask", "add", "search"} => p \in Peers
  PROVE  /\ TasksKept'
         /\ \A s \in 1..MaxTasks : tasks'[s].base = tasks[s].base \/ tasks'[s].base = contacts
<1> DEFINE new == [k |-> k, p |-> p, rec |-> rec, base |-> contacts, rs |-> rs]
<1>1. PICK t : tasks' = [tasks EXCEPT ![t] = new]
  BY Zenon DEF Book!Start
<1>2. DOMAIN tasks = 1..MaxTasks
  BY Zenon DEF TasksKept
<1>3. \A s \in 1..MaxTasks : tasks'[s] = IF s = t THEN new ELSE tasks[s]
  BY <1>1, <1>2, Zenon
<1>4. tasks' = [s \in 1..MaxTasks |-> tasks'[s]]
  BY <1>1, <1>2, Zenon
<1>5. \A s \in 1..MaxTasks :
        /\ tasks[s] = [k |-> tasks[s].k, p |-> tasks[s].p, rec |-> tasks[s].rec,
                       base |-> tasks[s].base, rs |-> tasks[s].rs]
        /\ tasks[s].k \in {"lookup", "ask", "add", "search"} => tasks[s].p \in Peers
        /\ Keyed(tasks[s].rec)
  BY Zenon DEF TasksKept
<1>6. /\ new = [k |-> new.k, p |-> new.p, rec |-> new.rec, base |-> new.base, rs |-> new.rs]
      /\ new.k = k /\ new.p = p /\ Keyed(new.rec) /\ new.base = contacts
  BY Zenon
<1> HIDE DEF new
<1> QED
  BY <1>3, <1>4, <1>5, <1>6 DEF TasksKept

(* Requests that begin: the copy they take along is the page's list.       *)
LEMMA StartsPinned ==
  ASSUME PinInv, NEW k, NEW p, NEW rec, NEW rs, Book!Start(k, p, rec, rs), Keyed(rec),
         k \in {"lookup", "ask", "add", "search"} => p \in Peers,
         UNCHANGED <<contacts, cache, warning, active, profile>>,
         Grown(ghost, ghost'), ghost'.swapped = ghost.swapped, ghost'.wrong = ghost.wrong
  PROVE  PinInv'
<1>1. /\ TasksKept'
      /\ \A s \in 1..MaxTasks : tasks'[s].base = tasks[s].base \/ tasks'[s].base = contacts
  BY StartLists, Zenon DEF PinInv, ListInv
<1>2. \A l \in Lists' : l \in Lists
  BY <1>1, Zenon DEF Lists
<1>3. ListInv'
  BY <1>1, <1>2, Zenon DEF PinInv, ListInv, Listed, WarningKept
<1> QED
  BY <1>2, <1>3, PinKept, Zenon DEF PinInv

(* A step that touches no list keeps the invariant.                        *)
LEMMA QuietPinned ==
  ASSUME PinInv, UNCHANGED <<contacts, cache, warning, tasks, ghost>>,
         ChatKept(active'), ChatKept(profile')
  PROVE  PinInv'
<1>1. Lists' = Lists
  BY Zenon DEF Lists
<1>2. TasksKept' /\ WarningKept'
  BY Zenon DEF PinInv, ListInv, TasksKept, WarningKept
<1> QED
  BY <1>1, <1>2, Zenon DEF PinInv, ListInv, Listed

(* A request that ends and leaves the page's lists alone.                  *)
LEMMA EndsPinned ==
  ASSUME PinInv, NEW t \in 1..MaxTasks, Book!Ends(t), WarningKept', warning'.base \in Lists,
         UNCHANGED <<contacts, cache, active, profile>>,
         Grown(ghost, ghost'), ghost'.swapped = ghost.swapped,
         ghost'.swapped = FALSE => ghost'.wrong = ghost.wrong
  PROVE  PinInv'
<1>0. Listed(Book!Empty) /\ \A a : Pinned(Book!Empty, a)
  BY Zenon DEF Listed, Pinned, Book!Empty
<1>1. /\ TasksKept'
      /\ \A s \in 1..MaxTasks : tasks'[s].base = tasks[s].base \/ tasks'[s].base = Book!Empty
  BY EndsLists, Zenon DEF PinInv, ListInv
<1>2. \A m \in Lists' : m \in Lists \/ m = Book!Empty
  BY <1>1, Zenon DEF Lists
<1>3. ListInv'
  BY <1>0, <1>1, <1>2, Zenon DEF PinInv, ListInv, Listed
<1>4. \A m \in Lists' : ghost'.swapped = FALSE => m \in Lists \/ Pinned(m, ghost'.accepted)
  BY <1>0, <1>2, Zenon
<1> QED
  BY <1>3, <1>4, PinKept, Zenon DEF PinInv

(* A request that returns a list l, which is noted in the history.         *)
LEMMA ReturnsPinned ==
  ASSUME PinInv, NEW t \in 1..MaxTasks, Book!Ends(t), warning' = warning,
         NEW l, Listed(l), contacts' = l, cache' = l, ChatKept(active'), ChatKept(profile'),
         Grown(ghost, ghost'), ghost'.swapped \in BOOLEAN, ghost'.wrong = ghost.wrong,
         ghost'.swapped = FALSE => Pinned(l, ghost'.accepted)
  PROVE  PinInv'
<1>0. Listed(Book!Empty) /\ \A a : Pinned(Book!Empty, a)
  BY Zenon DEF Listed, Pinned, Book!Empty
<1>1. /\ TasksKept'
      /\ \A s \in 1..MaxTasks : tasks'[s].base = tasks[s].base \/ tasks'[s].base = Book!Empty
  BY EndsLists, Zenon DEF PinInv, ListInv
<1>2. \A m \in Lists' : m \in Lists \/ m = l \/ m = Book!Empty
  BY <1>1, Zenon DEF Lists
<1>3. ListInv'
  BY <1>0, <1>1, <1>2, Zenon DEF PinInv, ListInv, Listed, WarningKept
<1>4. \A m \in Lists' : ghost'.swapped = FALSE => m \in Lists \/ Pinned(m, ghost'.accepted)
  BY <1>0, <1>2, Zenon
<1> QED
  BY <1>3, <1>4, PinKept, Zenon

(* A history g noted with a list: what ReturnsPinned asks for.             *)
LEMMA NotedReturn ==
  ASSUME PinInv, NEW g, Grown(ghost, g), g.swapped \in BOOLEAN, g.wrong = ghost.wrong,
         NEW l, ghost' = Book!Noted(g, l)
  PROVE  /\ Grown(ghost, ghost') /\ ghost'.swapped \in BOOLEAN /\ ghost'.wrong = ghost.wrong
         /\ ghost'.swapped = FALSE => Pinned(l, ghost'.accepted)
<1>0. History(g)
  BY Zenon DEF Grown
<1>1. /\ Grown(g, ghost') /\ ghost'.swapped \in BOOLEAN /\ ghost'.accepted = g.accepted
      /\ ghost'.wrong = g.wrong /\ (ghost'.swapped = FALSE => Pinned(l, g.accepted))
  <2>1. /\ Grown(g, Book!Noted(g, l)) /\ Book!Noted(g, l).swapped \in BOOLEAN
        /\ Book!Noted(g, l).accepted = g.accepted /\ Book!Noted(g, l).wrong = g.wrong
        /\ Book!Noted(g, l).swapped = FALSE => Pinned(l, g.accepted)
    BY <1>0, NotedGrown, Zenon
  <2> QED
    BY <2>1, Zenon
<1>2. Grown(ghost, ghost')
  BY <1>1, Zenon DEF Grown
<1> QED
  BY <1>1, <1>2, Zenon

(* Lists made from lists of peers are lists of peers.                      *)
LEMMA ListsMade ==
  ASSUME NEW l, Listed(l), NEW p, NEW rec, Keyed(rec)
  PROVE  (p \in Peers => Listed(Book!With(l, p, rec))) /\ Listed(Book!Mapped(l, p, rec))
<1>1. Listed(Book!Mapped(l, p, rec))
  BY Zenon DEF Book!Mapped, Listed
<1>2. p \in Peers => Listed(Book!With(l, p, rec))
  BY Zenon DEF Book!With, Listed
<1> QED
  BY <1>1, <1>2, Zenon

(* Noting that requests overlap.                                           *)
LEMMA OverlapGrown ==
  ASSUME PinInv
  PROVE  /\ Grown(ghost, Book!Overlapping) /\ Book!Overlapping.swapped = ghost.swapped
         /\ Book!Overlapping.wrong = ghost.wrong
<1> DEFINE b == ghost.overlap \/ Book!Busy # {} \/ warning # Book!NoWarning
<1>1. Book!Overlapping = [ghost EXCEPT !["overlap"] = b]
  BY Zenon DEF Book!Overlapping
<1> HIDE DEF b
<1>2. History(ghost)
  BY Zenon DEF PinInv
<1> QED
  BY <1>1, <1>2, FieldGrown, ZenonT(30)

(* Steps that send a request.                                              *)
LEMMA SendPinned == ASSUME PinInv, NEW rs, Book!Send(rs) PROVE PinInv'
<1>1. Keyed(Book!Blank)
  BY Zenon DEF Keyed, Book!Blank
<1>2. /\ Book!Start("send", NoPeer, Book!Blank, rs) /\ ghost' = Book!Overlapping
      /\ UNCHANGED <<contacts, cache, warning, active, profile>>
  BY Zenon DEF Book!Send
<1> QED
  BY <1>1, <1>2, OverlapGrown, StartsPinned, Zenon

(* Looking up a sender's keys starts with the list that pins accepted      *)
(* keys.                                                                   *)
LEMMA FetchPinned == ASSUME PinInv, NEW p \in Peers, Book!FetchSenderPubKeys(p) PROVE PinInv'
<1>1. Keyed(Book!Blank)
  BY Zenon DEF Keyed, Book!Blank
<1>2. /\ Book!Start("lookup", p, Book!Blank, <<>>) /\ ghost' = Book!Overlapping
      /\ UNCHANGED <<contacts, cache, warning, active, profile>>
  BY Zenon DEF Book!FetchSenderPubKeys
<1> QED
  BY <1>1, <1>2, OverlapGrown, StartsPinned, Zenon

(* So does a search for a person to chat with,                             *)
LEMMA SearchPinned == ASSUME PinInv, NEW p \in Peers, Book!SearchChat(p) PROVE PinInv'
<1>1. Keyed(Book!Blank)
  BY Zenon DEF Keyed, Book!Blank
<1>2. /\ Book!Start("search", p, Book!Blank, <<>>) /\ ghost' = Book!Overlapping
      /\ UNCHANGED <<contacts, cache, warning, active, profile>>
  BY Zenon DEF Book!SearchChat
<1> QED
  BY <1>1, <1>2, OverlapGrown, StartsPinned, Zenon

(* the switch that blocks the active chat,                                 *)
LEMMA TogglePinned == ASSUME PinInv, Book!ToggleBlockContact PROVE PinInv'
<1> DEFINE rec == [active.rec EXCEPT !.blocked = ~@]
<1>1. Keyed(rec)
  BY Zenon DEF PinInv, ListInv, ChatKept, Keyed
<1>2. Book!Start("block", active.p, rec, <<>>) /\ ghost' = Book!Overlapping
  BY Zenon DEF Book!ToggleBlockContact
<1> HIDE DEF rec
<1> QED
  BY <1>1, <1>2, OverlapGrown, StartsPinned, Zenon DEF Book!ToggleBlockContact

(* the one on the card of a profile,                                       *)
LEMMA ProfileTogglePinned == ASSUME PinInv, Book!HandleToggleContactBlock PROVE PinInv'
<1> DEFINE old == IF profile.p \in DOMAIN contacts THEN contacts[profile.p] ELSE profile.rec
           rec == [old EXCEPT !.blocked = ~@]
<1>1. Keyed(rec)
  BY Zenon DEF PinInv, ListInv, ChatKept, Keyed, Lists, Listed
<1>2. Book!Start("profileblock", profile.p, rec, <<>>) /\ ghost' = Book!Overlapping
  BY Zenon DEF Book!HandleToggleContactBlock
<1> HIDE DEF old, rec
<1> QED
  BY <1>1, <1>2, OverlapGrown, StartsPinned, Zenon DEF Book!HandleToggleContactBlock

(* and adding a person who was found.                                      *)
LEMMA AddPinned == ASSUME PinInv, NEW p \in Peers, Book!AddDiscoveredContact(p) PROVE PinInv'
<1> DEFINE other == p \in DOMAIN contacts /\ contacts[p].key # dir[p]
           rec == IF other
                  THEN [Book!AppendKeyHistory(contacts[p], dir[p]) EXCEPT !.blocked = FALSE, !.pq = FALSE]
                  ELSE Book!Discovered(p)
           kind == IF other THEN "ask" ELSE "add"
<1>1. Keyed(rec)
  <2>1. CASE other
    <3>1. Keyed(contacts[p])
      BY <2>1, Zenon DEF PinInv, ListInv, Lists, Listed
    <3> QED
      BY <2>1, <3>1, Zenon DEF Keyed, Book!AppendKeyHistory
  <2>2. CASE ~other
    BY <2>2, Zenon DEF Keyed, Book!Discovered
  <2> QED
    BY <2>1, <2>2, Zenon
<1>2. /\ Book!Start(kind, p, rec, <<>>)
      /\ ghost' = IF p \in DOMAIN contacts THEN Book!Overlapping
                  ELSE Book!Accepts(Book!Overlapping, p, dir[p])
      /\ UNCHANGED <<contacts, cache, warning, active, profile>>
  BY Zenon DEF Book!AddDiscoveredContact
<1> HIDE DEF other, rec, kind
<1>3. Grown(ghost, ghost') /\ ghost'.swapped = ghost.swapped /\ ghost'.wrong = ghost.wrong
  <2>1. History(Book!Overlapping)
    BY OverlapGrown, Zenon DEF Grown
  <2> QED
    BY <1>2, <2>1, OverlapGrown, AcceptsGrown, GrownTwice
<1> QED
  BY <1>1, <1>2, <1>3, StartsPinned, Zenon

(* Answers: what is put in place is noted.                                 *)
LEMMA LoadPinned == ASSUME PinInv, NEW t \in 1..MaxTasks, Book!LoadReturns(t) PROVE PinInv'
<1> DEFINE l == Book!MergeContactRecords(tasks[t].base)
<1>1. Listed(l)
  <2>1. Listed(tasks[t].base)
    BY Zenon DEF PinInv, ListInv, Lists
  <2>2. DOMAIN l \subseteq Peers
    BY <2>1, Zenon DEF Book!MergeContactRecords, Listed
  <2>3. ASSUME NEW p \in DOMAIN l PROVE Keyed(l[p])
    BY <2>1, Zenon DEF Book!MergeContactRecords, Listed, Keyed, Book!AppendKeyHistory, Book!Blank
  <2> QED
    BY <2>2, <2>3, Zenon DEF Listed
<1>2. /\ contacts' = l /\ cache' = l /\ ghost' = Book!Noted(ghost, l) /\ Book!Ends(t)
      /\ UNCHANGED <<warning, active, profile>>
  BY Zenon DEF Book!LoadReturns, Book!SetContacts
<1> HIDE DEF l
<1>3. Grown(ghost, ghost) /\ ghost.swapped \in BOOLEAN /\ ChatKept(active) /\ ChatKept(profile)
  BY Zenon DEF PinInv, Grown, ListInv
<1> QED
  BY <1>1, <1>2, <1>3, NotedReturn, ReturnsPinned, Zenon

(* The answer to a lookup: it writes into the list that is current.        *)
LEMMA LookupPinned == ASSUME PinInv, NEW t \in 1..MaxTasks, Book!LookupReturns(t) PROVE PinInv'
<1> DEFINE p == tasks[t].p
           rec == [Book!Discovered(p) EXCEPT !.pq = p \in PqCapable]
           l == Book!With(contacts, p, rec)
           g == IF p \in DOMAIN contacts THEN [ghost EXCEPT !["replaced"] = TRUE]
                ELSE Book!Accepts(ghost, p, rec.key)
<1>1. p \in Peers /\ Keyed(rec) /\ Listed(contacts) /\ History(ghost)
  BY Zenon DEF PinInv, ListInv, TasksKept, Lists, Book!LookupReturns, Keyed, Book!Discovered
<1>2. /\ contacts' = l /\ cache' = l /\ ghost' = Book!Noted(g, l) /\ Book!Ends(t)
      /\ UNCHANGED <<warning, active, profile>>
  BY Zenon DEF Book!LookupReturns, Book!SetContacts
<1>3. Grown(ghost, g) /\ g.swapped = ghost.swapped /\ g.wrong = ghost.wrong
  <2>1. CASE p \in DOMAIN contacts
    BY <1>1, <2>1, FieldGrown, ZenonT(30)
  <2>2. CASE p \notin DOMAIN contacts
    <3>1. PICK k : k = rec.key
      BY Zenon
    <3>2. g = Book!Accepts(ghost, p, k)
      BY <2>2, <3>1, Zenon
    <3>3. /\ Grown(ghost, Book!Accepts(ghost, p, k))
          /\ Book!Accepts(ghost, p, k).wrong = ghost.wrong
          /\ Book!Accepts(ghost, p, k).swapped = ghost.swapped
      BY <1>1, AcceptsGrown, Zenon
    <3> HIDE DEF p, rec, g
    <3> QED
      BY <3>2, <3>3, Zenon
  <2> QED
    BY <2>1, <2>2, Zenon
<1> HIDE DEF p, rec, g
<1>4. Listed(l)
  BY <1>1, ListsMade, Zenon
<1> HIDE DEF l
<1>5. ghost.swapped \in BOOLEAN /\ ChatKept(active) /\ ChatKept(profile)
  BY Zenon DEF PinInv, ListInv
<1> QED
  BY <1>2, <1>3, <1>4, <1>5, NotedReturn, ReturnsPinned, Zenon

(* The answer to an added contact: it writes into the list it took along.  *)
LEMMA AddReturnsPinned == ASSUME PinInv, NEW t \in 1..MaxTasks, Book!AddReturns(t) PROVE PinInv'
<1> DEFINE l == Book!With(tasks[t].base, tasks[t].p, tasks[t].rec)
<1>1. tasks[t].p \in Peers /\ Keyed(tasks[t].rec) /\ Listed(tasks[t].base) /\ History(ghost)
  BY Zenon DEF PinInv, ListInv, TasksKept, Lists, Book!AddReturns
<1>2. PICK w : /\ contacts' = l /\ cache' = l /\ ghost' = Book!Noted([ghost EXCEPT !["wish"] = w], l)
               /\ Book!Ends(t) /\ UNCHANGED <<warning, active, profile>>
  BY Zenon DEF Book!AddReturns, Book!SetContacts
<1> DEFINE g == [ghost EXCEPT !["wish"] = w]
<1>3. Grown(ghost, g) /\ g.swapped = ghost.swapped /\ g.wrong = ghost.wrong
  BY <1>1, FieldGrown
<1>4. Listed(l)
  BY <1>1, ListsMade, Zenon
<1> HIDE DEF l, g
<1>5. ghost.swapped \in BOOLEAN /\ ChatKept(active) /\ ChatKept(profile)
  BY Zenon DEF PinInv, ListInv
<1>6. ghost' = Book!Noted(g, l)
  BY <1>2, Zenon DEF g
<1> QED
  BY <1>2, <1>3, <1>4, <1>5, <1>6, NotedReturn, ReturnsPinned, Zenon

(* The answer to a search: likewise, and it opens the chat.                *)
LEMMA SearchReturnsPinned == ASSUME PinInv, NEW t \in 1..MaxTasks, Book!SearchReturns(t) PROVE PinInv'
<1> DEFINE p == tasks[t].p
           new == Book!Discovered(p)
           l == Book!With(tasks[t].base, p, new)
           g == IF p \in DOMAIN contacts THEN ghost ELSE Book!Accepts(ghost, p, new.key)
<1>1. p \in Peers /\ Keyed(new) /\ Listed(tasks[t].base) /\ History(ghost)
  BY Zenon DEF PinInv, ListInv, TasksKept, Lists, Book!SearchReturns, Keyed, Book!Discovered
<1>2. Book!Ends(t) /\ active' = [p |-> p, rec |-> new] /\ UNCHANGED <<warning, profile>>
  BY Zenon DEF Book!SearchReturns
<1>3. ChatKept(active') /\ ChatKept(profile')
  BY <1>1, <1>2, Zenon DEF ChatKept, PinInv, ListInv
<1>4. CASE p \in DOMAIN tasks[t].base
  <2>1. UNCHANGED <<contacts, cache, ghost>>
    BY <1>4, Zenon DEF Book!SearchReturns
  <2>2. /\ TasksKept'
        /\ \A s \in 1..MaxTasks : tasks'[s].base = tasks[s].base \/ tasks'[s].base = Book!Empty
    BY <1>2, EndsLists, Zenon DEF PinInv, ListInv
  <2>3. \A m \in Lists' : m \in Lists \/ m = Book!Empty
    BY <1>2, <2>1, <2>2, Zenon DEF Lists
  <2>4. Listed(Book!Empty) /\ \A a : Pinned(Book!Empty, a)
    BY Zenon DEF Listed, Pinned, Book!Empty
  <2>5. ListInv'
    BY <1>2, <1>3, <2>2, <2>3, <2>4, Zenon DEF PinInv, ListInv, Listed, WarningKept
  <2> QED
    BY <2>1, <2>3, <2>4, <2>5, PinKept, Zenon DEF PinInv, Grown
<1>5. CASE p \notin DOMAIN tasks[t].base
  <2>1. contacts' = l /\ cache' = l /\ ghost' = Book!Noted(g, l)
    BY <1>5, Zenon DEF Book!SearchReturns, Book!SetContacts
  <2>2. Grown(ghost, g) /\ g.swapped = ghost.swapped /\ g.wrong = ghost.wrong
    <3>1. Grown(ghost, ghost)
      BY <1>1, Zenon DEF Grown
    <3>2. LET h == Book!Accepts(ghost, p, new.key)
          IN  Grown(ghost, h) /\ h.swapped = ghost.swapped /\ h.wrong = ghost.wrong
      BY <1>1, AcceptsGrown
    <3> HIDE DEF p, new
    <3> QED
      BY <3>1, <3>2, Zenon
  <2> HIDE DEF p, new, g
  <2>3. Listed(l)
    BY <1>1, ListsMade, Zenon
  <2> HIDE DEF l
  <2>4. ghost.swapped \in BOOLEAN
    BY Zenon DEF PinInv
  <2> QED
    BY <1>2, <1>3, <2>1, <2>2, <2>3, <2>4, NotedReturn, ReturnsPinned, Zenon
<1> QED
  BY <1>4, <1>5, Zenon

(* The answer to blocking: it changes one record of the current list.      *)
LEMMA BlockPinned == ASSUME PinInv, NEW t \in 1..MaxTasks, Book!BlockReturns(t) PROVE PinInv'
<1> DEFINE p == tasks[t].p
           rec == tasks[t].rec
           l == IF p \notin DOMAIN contacts THEN contacts
                ELSE IF tasks[t].k = "block" THEN [contacts EXCEPT ![p] = rec]
                ELSE [contacts EXCEPT ![p].blocked = rec.blocked]
<1>1. Keyed(rec) /\ Listed(contacts) /\ History(ghost) /\ ghost.swapped \in BOOLEAN
  BY Zenon DEF PinInv, ListInv, TasksKept, Lists
<1>2. PICK w : /\ contacts' = l /\ cache' = l /\ ghost' = Book!Noted([ghost EXCEPT !["wish"] = w], l)
               /\ Book!Ends(t) /\ warning' = warning
  BY Zenon DEF Book!BlockReturns, Book!SetContacts
<1> DEFINE g == [ghost EXCEPT !["wish"] = w]
<1>3. Grown(ghost, g) /\ g.swapped = ghost.swapped /\ g.wrong = ghost.wrong
  BY <1>1, FieldGrown
<1>4. Listed(l)
  <2>1. DOMAIN l = DOMAIN contacts
    BY Zenon
  <2>2. ASSUME NEW q \in DOMAIN l PROVE Keyed(l[q])
    BY <1>1, <2>1, Zenon DEF Listed, Keyed
  <2> QED
    BY <1>1, <2>1, <2>2, Zenon DEF Listed
<1>5. ChatKept(active)' /\ ChatKept(profile)'
  <2>1. ChatKept(active) /\ ChatKept(profile)
    BY Zenon DEF PinInv, ListInv
  <2>2. ChatKept([active EXCEPT !.rec.blocked = rec.blocked]) /\ ChatKept([profile EXCEPT !.rec = rec])
        /\ ChatKept([p |-> p, rec |-> rec])
    BY <1>1, <2>1, Zenon DEF ChatKept, Keyed
  <2>3. /\ active' \in {[p |-> p, rec |-> rec], [active EXCEPT !.rec.blocked = rec.blocked], active}
        /\ profile' \in {[profile EXCEPT !.rec = rec], profile}
    BY Zenon DEF Book!BlockReturns
  <2> QED
    BY <2>1, <2>2, <2>3, Zenon
<1>6. ghost' = Book!Noted(g, l)
  BY <1>2, Zenon
<1> HIDE DEF l, g
<1> QED
  BY <1>1, <1>2, <1>3, <1>4, <1>5, <1>6, NotedReturn, ReturnsPinned, Zenon

(* The question before a known contact's new key is added: the key is      *)
(* accepted.                                                               *)
LEMMA AcceptPinned == ASSUME PinInv, NEW t \in 1..MaxTasks, Book!AcceptDiscovered(t) PROVE PinInv'
<1>1. /\ tasks' = [tasks EXCEPT ![t].k = "add"] /\ tasks[t].k = "ask"
      /\ ghost' = Book!Accepts(ghost, tasks[t].p, tasks[t].rec.key)
      /\ UNCHANGED <<contacts, cache, warning, active, profile>>
  BY Zenon DEF Book!AcceptDiscovered
<1>2. History(ghost) /\ TasksKept
  BY Zenon DEF PinInv, ListInv
<1>3. \A s \in 1..MaxTasks : tasks'[s] = IF s = t THEN [tasks[s] EXCEPT !.k = "add"] ELSE tasks[s]
  BY <1>1, <1>2, Zenon DEF TasksKept
<1>4. tasks' = [s \in 1..MaxTasks |-> tasks'[s]]
  BY <1>1, <1>2, Zenon DEF TasksKept
<1>5. \A s \in 1..MaxTasks :
        /\ tasks[s] = [k |-> tasks[s].k, p |-> tasks[s].p, rec |-> tasks[s].rec,
                       base |-> tasks[s].base, rs |-> tasks[s].rs]
        /\ tasks[s].k \in {"lookup", "ask", "add", "search"} => tasks[s].p \in Peers
        /\ Keyed(tasks[s].rec)
  BY <1>2, Zenon DEF TasksKept
<1>6. \A s \in 1..MaxTasks :
        /\ tasks'[s] = [k |-> tasks'[s].k, p |-> tasks[s].p, rec |-> tasks[s].rec,
                        base |-> tasks[s].base, rs |-> tasks[s].rs]
        /\ tasks'[s].k = tasks[s].k \/ s = t
  <2> TAKE s \in 1..MaxTasks
  <2>1. tasks[s] = [k |-> tasks[s].k, p |-> tasks[s].p, rec |-> tasks[s].rec,
                    base |-> tasks[s].base, rs |-> tasks[s].rs]
    BY <1>5, Zenon
  <2>2. [tasks[s] EXCEPT !.k = "add"] = [k |-> "add", p |-> tasks[s].p, rec |-> tasks[s].rec,
                                         base |-> tasks[s].base, rs |-> tasks[s].rs]
    BY <2>1
  <2> QED
    BY <1>3, <2>1, <2>2, Zenon
<1>a. \A s \in 1..MaxTasks :
        /\ tasks'[s].p = tasks[s].p /\ tasks'[s].rec = tasks[s].rec
        /\ tasks'[s].base = tasks[s].base /\ tasks'[s].rs = tasks[s].rs
  <2> TAKE s \in 1..MaxTasks
  <2>1. tasks'[s] = [k |-> tasks'[s].k, p |-> tasks[s].p, rec |-> tasks[s].rec,
                     base |-> tasks[s].base, rs |-> tasks[s].rs]
    BY <1>6, Zenon
  <2> QED
    BY <2>1
<1>b. \A s \in 1..MaxTasks :
        tasks'[s] = [k |-> tasks'[s].k, p |-> tasks'[s].p, rec |-> tasks'[s].rec,
                     base |-> tasks'[s].base, rs |-> tasks'[s].rs]
  BY <1>6, <1>a, Zenon
<1>c. \A s \in 1..MaxTasks :
        /\ tasks'[s].k \in {"lookup", "ask", "add", "search"} => tasks'[s].p \in Peers
        /\ Keyed(tasks'[s].rec)
  BY <1>1, <1>5, <1>6, <1>a, Zenon
<1>7. TasksKept'
  BY <1>4, <1>b, <1>c, Zenon DEF TasksKept
<1>8. \A l \in Lists' : l \in Lists
  BY <1>1, <1>a DEF Lists
<1>9. ListInv'
  BY <1>1, <1>7, <1>8, Zenon DEF PinInv, ListInv, Listed, WarningKept
<1> QED
  <2>1. Grown(ghost, ghost') /\ ghost'.wrong = ghost.wrong /\ ghost'.swapped = ghost.swapped
    BY <1>1, <1>2, AcceptsGrown
  <2>2. ghost'.swapped \in BOOLEAN
    BY <2>1, Zenon DEF PinInv
  <2> QED
    BY <1>8, <1>9, <2>1, <2>2, PinKept, Zenon

(* A request fails.                                                        *)
LEMMA FailsPinned == ASSUME PinInv, NEW t \in 1..MaxTasks, Book!Fails(t) PROVE PinInv'
<1>1. Book!Ends(t) /\ UNCHANGED <<contacts, cache, warning, active, profile, ghost>>
  BY Zenon DEF Book!Fails
<1>2. Grown(ghost, ghost) /\ WarningKept' /\ warning'.base \in Lists
  BY <1>1, Zenon DEF PinInv, Grown, ListInv, WarningKept, Lists
<1> QED
  BY <1>1, <1>2, EndsPinned, Zenon

(* A page that is loaded again works with the list of its storage.         *)
LEMMA ReloadPinned == ASSUME PinInv, Book!Reload PROVE PinInv'
<1> DEFINE fst == [k |-> "load", p |-> NoPeer, rec |-> Book!Blank, base |-> cache, rs |-> <<>>]
           rst == [k |-> "idle", p |-> NoPeer, rec |-> Book!Blank, base |-> Book!Empty, rs |-> <<>>]
<1>0. Listed(Book!Empty) /\ (\A a : Pinned(Book!Empty, a)) /\ Keyed(Book!Blank)
  BY Zenon DEF Listed, Pinned, Book!Empty, Keyed, Book!Blank
<1>1. /\ contacts' = cache /\ cache' = cache /\ warning' = Book!NoWarning
      /\ active' = Book!NoChat /\ profile' = Book!NoChat
      /\ tasks' = [t \in 1..MaxTasks |-> IF t = 1 THEN [Book!Idle EXCEPT !.k = "load", !.base = cache]
                                        ELSE Book!Idle]
  BY Zenon DEF Book!Reload
<1>2. Book!Idle = rst /\ [Book!Idle EXCEPT !.k = "load", !.base = cache] = fst
  <2>1. Book!Idle = rst
    BY Zenon DEF Book!Idle
  <2> DEFINE mid == [k |-> "load", p |-> NoPeer, rec |-> Book!Blank, base |-> Book!Empty, rs |-> <<>>]
  <2>2. [rst EXCEPT !.k = "load"] = mid
    OBVIOUS
  <2>3. [mid EXCEPT !.base = cache] = fst
    OBVIOUS
  <2>4. [Book!Idle EXCEPT !.k = "load", !.base = cache] = [[Book!Idle EXCEPT !.k = "load"] EXCEPT !.base = cache]
    BY Zenon
  <2> HIDE DEF rst, mid, fst
  <2> QED
    BY <2>1, <2>2, <2>3, <2>4, Zenon
<1>3. tasks' = [t \in 1..MaxTasks |-> IF t = 1 THEN fst ELSE rst]
  BY <1>1, <1>2, Zenon
<1>4. TasksKept'
  BY <1>0, <1>3, Zenon DEF TasksKept
<1>5. \A l \in Lists' : l \in Lists \/ l = Book!Empty
  <2>1. \A t \in 1..MaxTasks : tasks'[t].base \in {cache, Book!Empty}
    BY <1>3, Zenon
  <2> QED
    BY <1>1, <2>1, Zenon DEF Lists, Book!NoWarning
<1>6. WarningKept' /\ ChatKept(active)' /\ ChatKept(profile)'
  BY <1>0, <1>1, Zenon DEF WarningKept, ChatKept, Book!NoWarning, Book!NoChat
<1>7. ListInv'
  BY <1>0, <1>4, <1>5, <1>6, Zenon DEF PinInv, ListInv, Listed
<1>8. Grown(ghost, ghost') /\ ghost'.swapped = ghost.swapped /\ ghost'.wrong = ghost.wrong
  <2>1. ghost' = [ghost EXCEPT !["reloads"] = ghost.reloads + 1]
    BY Zenon DEF Book!Reload
  <2>2. History(ghost)
    BY Zenon DEF PinInv
  <2> DEFINE b == ghost.reloads + 1
  <2> HIDE DEF b
  <2>3. ghost' = [ghost EXCEPT !["reloads"] = b]
    BY <2>1, Zenon DEF b
  <2> QED
    BY <2>2, <2>3, FieldGrown, ZenonT(30)
<1>9. \A m \in Lists' : ghost'.swapped = FALSE => m \in Lists \/ Pinned(m, ghost'.accepted)
  BY <1>0, <1>5, Zenon
<1> QED
  BY <1>7, <1>8, <1>9, PinKept, Zenon DEF PinInv

(* The check of the open chat's key pins the key that was pinned, or asks. *)
LEMMA VerifyPinned == ASSUME PinInv, Book!VerifyActiveChatKey PROVE PinInv'
<1> DEFINE p == active.p
           base == IF p \in DOMAIN contacts THEN contacts[p] ELSE active.rec
           rec == Book!AppendKeyHistory(base, base.key)
           l == Book!Mapped(contacts, p, rec)
<1>1. Listed(contacts) /\ History(ghost) /\ ghost.swapped \in BOOLEAN /\ ChatKept(active) /\ ChatKept(profile)
  BY Zenon DEF PinInv, ListInv, Lists
<1>2. Keyed(base)
  BY <1>1, Zenon DEF Listed, ChatKept
<1>3. Keyed(rec) /\ rec.key = base.key
  BY <1>2, Zenon DEF Keyed, Book!AppendKeyHistory
<1>4. UNCHANGED <<profile, tasks>>
  BY Zenon DEF Book!VerifyActiveChatKey
<1>5. CASE dir[p] = base.key
  <2>1. contacts' = l /\ cache' = l /\ active' = [p |-> p, rec |-> rec] /\ UNCHANGED <<warning, ghost>>
    BY <1>5, Zenon DEF Book!VerifyActiveChatKey, Book!SetContacts
  <2>2. Listed(l) /\ (Pinned(contacts, ghost.accepted) => Pinned(l, ghost.accepted))
    BY <1>1, <1>3, Zenon DEF Listed, Pinned, Book!Mapped
  <2> HIDE DEF base, rec, l
  <2>3. \A m \in Lists' : m \in Lists \/ m = l
    BY <1>4, <2>1, Zenon DEF Lists
  <2>4. ChatKept(active') /\ ChatKept(profile')
    BY <1>1, <1>3, <1>4, <2>1, Zenon DEF ChatKept
  <2>5. TasksKept' /\ WarningKept'
    BY <1>4, <2>1, Zenon DEF PinInv, ListInv, TasksKept, WarningKept
  <2>6. ListInv'
    BY <2>2, <2>3, <2>4, <2>5, Zenon DEF PinInv, ListInv, Listed
  <2>7. contacts \in Lists
    BY Zenon DEF Lists
  <2> QED
    BY <2>1, <2>2, <2>3, <2>6, <2>7, Zenon DEF PinInv
<1>6. CASE dir[p] # base.key
  <2>1. /\ warning' = [kind |-> "chat", p |-> p, old |-> base.key, new |-> dir[p], rec |-> base,
                       base |-> contacts]
        /\ ghost' = Book!Overlapping /\ UNCHANGED <<contacts, cache, active>>
    BY <1>6, Zenon DEF Book!VerifyActiveChatKey
  <2> HIDE DEF base
  <2>2. \A m \in Lists' : m \in Lists
    BY <1>4, <2>1, ZenonT(30) DEF Lists
  <2>3. TasksKept'
    BY <1>4, Zenon DEF PinInv, ListInv, TasksKept
  <2>4. WarningKept'
    BY <1>2, <2>1, ZenonT(30) DEF WarningKept
  <2>5. ListInv'
    BY <1>1, <1>4, <2>1, <2>2, <2>3, <2>4, Zenon DEF PinInv, ListInv, Listed
  <2> QED
    BY <1>1, <2>1, <2>2, <2>5, OverlapGrown, PinKept, ZenonT(30)
<1> QED
  BY <1>5, <1>6, Zenon

(* A message goes out with no key in question: every recipient among the   *)
(* contacts of its copy has the key that copy pins, an accepted one.  With *)
(* a key in question the warning keeps the copy.                           *)
LEMMA SentPinned == ASSUME PinInv, NEW t \in 1..MaxTasks, Book!VerifyRecipientsAndRun(t) PROVE PinInv'
<1> DEFINE base == tasks[t].base
           rs == tasks[t].rs
           bad == Book!Changed(base, rs)
<1>1. Listed(base) /\ base \in Lists /\ History(ghost) /\ WarningKept
  BY Zenon DEF PinInv, ListInv, Lists
<1>2. Book!Ends(t) /\ UNCHANGED <<contacts, cache, active, profile>>
  BY Zenon DEF Book!VerifyRecipientsAndRun
<1>3. CASE bad = {}
  <2> DEFINE un == Book!Unaccepted(base, rs)
             w == ghost.wrong \/ un
  <2>1. ghost' = [ghost EXCEPT !.wrong = w] /\ warning' = warning
    BY <1>3, Zenon DEF Book!VerifyRecipientsAndRun
  <2>2. ASSUME ghost.swapped = FALSE PROVE w = FALSE
    <3>1. Pinned(base, ghost.accepted) /\ ghost.wrong = FALSE
      BY <1>1, <2>2, Zenon DEF PinInv
    <3>2. ~un
      BY <1>3, <3>1, Zenon DEF Book!Unaccepted, Book!Changed, Pinned
    <3> HIDE DEF un
    <3> QED
      BY <3>1, <3>2, Zenon
  <2> HIDE DEF w
  <2>3. Grown(ghost, ghost') /\ ghost'.swapped = ghost.swapped /\ ghost'.wrong = w
    BY <1>1, <2>1, Zenon DEF History, Grown
  <2>4. ghost'.swapped = FALSE => ghost'.wrong = ghost.wrong
    BY <2>2, <2>3, ZenonT(30) DEF PinInv
  <2>5. WarningKept' /\ warning'.base \in Lists
    BY <1>1, <2>1, Zenon DEF WarningKept, Lists
  <2> QED
    BY <1>2, <2>3, <2>4, <2>5, EndsPinned, Zenon
<1>4. CASE bad # {}
  <2>1. PICK i, b :
          /\ warning' = [kind |-> "send", p |-> rs[i], old |-> base[rs[i]].key, new |-> dir[rs[i]],
                         rec |-> base[rs[i]], base |-> base]
          /\ ghost' = [ghost EXCEPT !["overlap"] = b]
    BY <1>4, Zenon DEF Book!VerifyRecipientsAndRun
  <2>2. Grown(ghost, ghost') /\ ghost'.swapped = ghost.swapped /\ ghost'.wrong = ghost.wrong
    BY <1>1, <2>1, FieldGrown, ZenonT(30)
  <2>3. WarningKept' /\ warning'.base = base
    BY <1>1, <2>1, Zenon DEF WarningKept, Listed
  <2> QED
    BY <1>1, <1>2, <2>2, <2>3, EndsPinned, Zenon
<1> QED
  BY <1>3, <1>4, Zenon

(* A changed key is confirmed: it is accepted, and the list of the         *)
(* warning with it is put in place and noted.                              *)
LEMMA ConfirmPinned == ASSUME PinInv, Book!ConfirmWarning PROVE PinInv'
<1> DEFINE rec == Book!AppendKeyHistory(warning.rec, warning.new)
           l == Book!Mapped(warning.base, warning.p, rec)
           g == Book!Accepts(ghost, warning.p, warning.new)
<1>1. /\ Listed(warning.base) /\ History(ghost) /\ WarningKept /\ TasksKept
      /\ ghost.swapped \in BOOLEAN /\ ChatKept(active) /\ ChatKept(profile)
  BY Zenon DEF PinInv, ListInv, Lists
<1>2. /\ contacts' = l /\ cache' = l /\ ghost' = Book!Noted(g, l) /\ UNCHANGED <<profile, tasks>>
      /\ \/ warning.kind = "chat" /\ active' = [p |-> warning.p, rec |-> rec] /\ warning' = Book!NoWarning
         \/ warning.kind # "chat" /\ UNCHANGED <<active, warning>>
  BY Zenon DEF Book!ConfirmWarning, Book!SetContacts
<1>3. Keyed(warning.rec) => Keyed(rec)
  BY Zenon DEF Keyed, Book!AppendKeyHistory
<1>4. Listed(l)
  BY <1>1, <1>3, Zenon DEF WarningKept, Listed, Book!Mapped
<1>5. ChatKept(active') /\ ChatKept(profile')
  BY <1>1, <1>2, <1>3 DEF ChatKept, WarningKept
<1> HIDE DEF rec, l
<1>6. WarningKept' /\ warning'.base \in {warning.base, Book!Empty}
  BY <1>1, <1>2 DEF WarningKept, Book!NoWarning, Keyed, Book!Blank
<1>7. Grown(ghost, g) /\ g.swapped \in BOOLEAN /\ g.wrong = ghost.wrong
  BY <1>1, AcceptsGrown
<1> HIDE DEF g
<1>8. /\ Grown(ghost, ghost') /\ ghost'.swapped \in BOOLEAN /\ ghost'.wrong = ghost.wrong
      /\ ghost'.swapped = FALSE => Pinned(l, ghost'.accepted)
  BY <1>2, <1>7, NotedReturn, ZenonT(30)
<1>9. Listed(Book!Empty) /\ \A a : Pinned(Book!Empty, a)
  BY Zenon DEF Listed, Pinned, Book!Empty
<1>10. \A m \in Lists' : m \in Lists \/ m = l \/ m = Book!Empty
  BY <1>2, <1>6, Zenon DEF Lists
<1>11. TasksKept'
  BY <1>1, <1>2, Zenon DEF TasksKept
<1>12. ListInv'
  BY <1>4, <1>5, <1>6, <1>9, <1>10, <1>11, Zenon DEF PinInv, ListInv, Listed
<1>13. \A m \in Lists' : ghost'.swapped = FALSE => m \in Lists \/ Pinned(m, ghost'.accepted)
  BY <1>8, <1>9, <1>10, Zenon
<1> QED
  BY <1>8, <1>12, <1>13, PinKept, Zenon

(* The warning is cancelled.                                               *)
LEMMA CancelPinned == ASSUME PinInv, Book!CancelWarning PROVE PinInv'
<1>1. /\ warning' = Book!NoWarning /\ active' \in {Book!NoChat, active}
      /\ UNCHANGED <<contacts, cache, profile, tasks, ghost>>
  BY Zenon DEF Book!CancelWarning
<1>2. Listed(Book!Empty) /\ \A a : Pinned(Book!Empty, a)
  BY Zenon DEF Listed, Pinned, Book!Empty
<1>3. \A m \in Lists' : m \in Lists \/ m = Book!Empty
  BY <1>1, Zenon DEF Lists, Book!NoWarning
<1>4. WarningKept' /\ ChatKept(active')
  BY <1>1 DEF WarningKept, ChatKept, PinInv, ListInv, Book!NoWarning, Book!NoChat, Keyed, Book!Blank
<1>5. TasksKept'
  BY <1>1, Zenon DEF PinInv, ListInv, TasksKept
<1>6. ListInv'
  BY <1>1, <1>2, <1>3, <1>4, <1>5, Zenon DEF PinInv, ListInv, Listed
<1> QED
  BY <1>1, <1>2, <1>3, <1>6, PinKept, Zenon DEF PinInv, Grown

(* Steps that leave lists, requests and history alone.                     *)
LEMMA QuietSteps ==
  ASSUME PinInv, NEW p \in Peers,
         \/ Book!OpenChat(p) \/ Book!OpenContactProfile(p) \/ Book!PeerChangesKey(p)
         \/ Book!CloseContactProfile \/ Book!VerifyFails
         \/ \E b \in BOOLEAN : Book!OtherAccountSaves(p, b)
  PROVE  PinInv'
<1>1. /\ Listed(contacts) /\ ChatKept(active) /\ ChatKept(profile)
      /\ Keyed(Book!Discovered(p)) /\ ChatKept(Book!NoChat)
  BY Zenon DEF PinInv, ListInv, Lists, Keyed, ChatKept, Book!Discovered, Book!NoChat, Book!Blank
<1>2. UNCHANGED <<contacts, cache, warning, tasks, ghost>>
  BY ZenonT(30) DEF Book!OpenChat, Book!OpenContactProfile, Book!PeerChangesKey, Book!CloseContactProfile,
         Book!VerifyFails, Book!OtherAccountSaves
<1>3. p \in DOMAIN contacts => Keyed(contacts[p])
  BY <1>1, Zenon DEF Listed
<1>4. ASSUME Book!OpenChat(p) PROVE ChatKept(active') /\ ChatKept(profile')
  <2>1. profile' = profile /\ active' = [p |-> p, rec |-> contacts[p]] /\ Keyed(contacts[p])
    BY <1>3, <1>4, Zenon DEF Book!OpenChat
  <2> QED
    BY <1>1, <2>1, ZenonT(30) DEF ChatKept
<1>5. ASSUME Book!OpenContactProfile(p) PROVE ChatKept(active') /\ ChatKept(profile')
  <2> DEFINE rec == IF p \in DOMAIN contacts THEN contacts[p] ELSE Book!Discovered(p)
  <2>1. active' = active /\ profile' = [p |-> p, rec |-> rec]
    BY <1>5, Zenon DEF Book!OpenContactProfile
  <2>2. Keyed(rec)
    BY <1>1, <1>3, Zenon
  <2> HIDE DEF rec
  <2> QED
    BY <1>1, <2>1, <2>2, ZenonT(30) DEF ChatKept
<1>6. ASSUME \/ Book!PeerChangesKey(p) \/ Book!VerifyFails
             \/ \E b \in BOOLEAN : Book!OtherAccountSaves(p, b)
      PROVE  ChatKept(active') /\ ChatKept(profile')
  BY <1>1, <1>6, ZenonT(30) DEF Book!PeerChangesKey, Book!VerifyFails, Book!OtherAccountSaves
<1>7. ASSUME Book!CloseContactProfile PROVE ChatKept(active') /\ ChatKept(profile')
  BY <1>1, <1>7, Zenon DEF Book!CloseContactProfile
<1> QED
  BY <1>2, <1>4, <1>5, <1>6, <1>7, QuietPinned, Zenon

(* Every step keeps the invariant.                                         *)
LEMMA BookNext ==
  ASSUME Book!ContactsAssumption, PinInv, [Book!Next]_(Book!vars)
  PROVE  PinInv'
<1>1. CASE UNCHANGED Book!vars
  <2>1. ChatKept(active') /\ ChatKept(profile')
    BY <1>1, Zenon DEF Book!vars, PinInv, ListInv
  <2> QED
    BY <1>1, <2>1, QuietPinned, Zenon DEF Book!vars
<1>2. CASE Book!Reload \/ Book!VerifyActiveChatKey \/ Book!ConfirmWarning \/ Book!CancelWarning
           \/ Book!ToggleBlockContact \/ Book!HandleToggleContactBlock
  BY <1>2, ReloadPinned, VerifyPinned, ConfirmPinned, CancelPinned, TogglePinned,
     ProfileTogglePinned, Zenon
<1>3. CASE Book!VerifyFails \/ Book!CloseContactProfile
  <2>1. ChatKept(active') /\ ChatKept(profile') /\ UNCHANGED <<contacts, cache, warning, tasks, ghost>>
    BY <1>3 DEF Book!VerifyFails, Book!CloseContactProfile, PinInv, ListInv, ChatKept, Keyed,
                Book!NoChat, Book!Blank
  <2> QED
    BY <2>1, QuietPinned, Zenon
<1>4. ASSUME NEW rs \in Recipients, Book!Send(rs) PROVE PinInv'
  BY <1>4, SendPinned, Zenon
<1>5. ASSUME NEW p \in Peers,
             \/ Book!FetchSenderPubKeys(p) \/ Book!AddDiscoveredContact(p) \/ Book!SearchChat(p)
             \/ Book!OpenChat(p) \/ Book!OpenContactProfile(p) \/ Book!PeerChangesKey(p)
             \/ \E b \in BOOLEAN : Book!OtherAccountSaves(p, b)
      PROVE  PinInv'
  BY <1>5, FetchPinned, AddPinned, SearchPinned, QuietSteps, Zenon
<1>6. ASSUME NEW t \in 1..MaxTasks,
             \/ Book!LoadReturns(t) \/ Book!LookupReturns(t) \/ Book!AcceptDiscovered(t)
             \/ Book!AddReturns(t) \/ Book!SearchReturns(t) \/ Book!VerifyRecipientsAndRun(t)
             \/ Book!BlockReturns(t) \/ Book!Fails(t)
      PROVE  PinInv'
  BY <1>6, LoadPinned, LookupPinned, AcceptPinned, AddReturnsPinned, SearchReturnsPinned,
     SentPinned, BlockPinned, FailsPinned, Zenon
<1> QED
  BY <1>1, <1>2, <1>3, <1>4, <1>5, <1>6, Zenon DEF Book!Next

(* As long as every list the page put in place pinned accepted keys, no    *)
(* message goes to a contact under a key the person has not accepted,      *)
(* however requests, warnings and reloads are ordered and however often    *)
(* peers change their keys (verifyRecipientsAndRun).                       *)
THEOREM ContactsSentAccepted ==
  ASSUME Book!ContactsAssumption PROVE Book!Spec => []Book!SentAccepted
<1>1. Book!Init => PinInv
  BY BookInit, Zenon
<1>2. PinInv /\ [Book!Next]_(Book!vars) => PinInv'
  BY BookNext, Zenon
<1>3. PinInv => Book!SentAccepted
  BY Zenon DEF PinInv, Book!SentAccepted
<1> QED
  BY <1>1, <1>2, <1>3, PTL DEF Book!Spec
=============================================================================
