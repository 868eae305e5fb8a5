-------------------------- MODULE GovernanceProofs --------------------------
(* What the abuse governance guarantees for any number of cases, reviewers    *)
(* and overlapping handler calls, with or without a crash.  The properties    *)
(* rest on the mutex that only ReviewCase takes, so the inductive invariant   *)
(* says who holds it and what its holder has read.  The last section is about *)
(* the human proof of the same community functions, instantiated with         *)
(* variables of its own names.                                                *)
EXTENDS Governance, FiniteSetTheorems, TLAPS

\* Where a handler may be.
Places == {"begin", "insert", "weigh", "enforce", "record", "status", "decide", "close", "lift",
           "delete", "mark"}

Handlers == [n : 1..MaxCalls, op : {"review", "appeal", "resolve", "consume"}, case : Cases,
             who : Reviewers \cup {None}, rec : Recommendations \cup {None},
             sev : Severities \cup {None}, accept : BOOLEAN, pc : Places,
             seen : Status \cup {None}]

Shapes ==
    /\ calls \subseteq Handlers
    /\ count \in Nat /\ \A c \in calls : c.n <= count
    /\ status \in [Cases -> Status]
    /\ ghost \in [crashed : BOOLEAN, conflict : BOOLEAN, twice : BOOLEAN, acted : SUBSET Cases]
    /\ grant \in [active : BOOLEAN, uses : Nat]

\* A review past its beginning.
Inside(c) == c.op = "review" /\ c.pc # "begin"

\* Every call has its own number.
Distinct == \A c, d \in calls : c.n = d.n => c = d

\* The reviews past their beginning hold the mutex, so there is at most one.
Held == \A c \in calls : Inside(c) => mu = c.n

\* The review that is about to be stored is the reviewer's first of the case.
Unreviewed == \A c \in calls : Inside(c) /\ c.pc = "insert" => ~Reviewed(c)

\* A review that saw a new case, and has not weighed it, finds it not acted on.
NotActed ==
    \A c \in calls : Inside(c) /\ c.pc \in {"insert", "weigh"} /\ c.seen = "new" =>
        c.case \notin ghost.acted

\* A case that was acted on never is new again.
ActedNotNew == \A k \in ghost.acted : status[k] # "new"

\* An active key has not been used, a used one once.
KeySpent == (grant.active => grant.uses = 0) /\ grant.uses <= 1

IInv ==
    /\ Shapes /\ Distinct /\ Held /\ Unreviewed /\ ReviewedOnce
    /\ NotActed /\ ActedNotNew /\ ActionedOnce /\ KeySpent

\* The invariant holds at the start.
LEMMA InitIInv == Init => IInv
BY GovernanceAssumption DEF Init, IInv, Shapes, Distinct, Held, Unreviewed, ReviewedOnce, NotActed,
   ActedNotNew, ActionedOnce, KeySpent, Status

\* Moving a handler on changes its place alone.
LEMMA Moved ==
    ASSUME NEW c \in Handlers, NEW pc \in Places
    PROVE  /\ [c EXCEPT !.pc = pc] \in Handlers
           /\ [c EXCEPT !.pc = pc].pc = pc
           /\ [c EXCEPT !.pc = pc].n = c.n
           /\ [c EXCEPT !.pc = pc].op = c.op
           /\ [c EXCEPT !.pc = pc].case = c.case
           /\ [c EXCEPT !.pc = pc].who = c.who
           /\ [c EXCEPT !.pc = pc].seen = c.seen
BY Zenon DEF Handlers

\* A call leaves, or is replaced by a form of itself: the shapes of the calls,
\* their numbers and the holder of the mutex stay in order.
LEMMA Replaced ==
    ASSUME IInv, NEW c \in calls, NEW d \in Handlers, d.n = c.n, d.op = c.op, count' = count,
           \/ calls' = calls \ {c}
           \/ calls' = (calls \ {c}) \cup {d}
    PROVE  /\ calls' \subseteq Handlers /\ count' \in Nat /\ \A e \in calls' : e.n <= count'
           /\ Distinct'
           /\ \A e \in calls' : e \in calls \/ e = d
BY Zenon DEF IInv, Shapes, Distinct

\* Nobody else is inside while a review is.
LEMMA Alone ==
    ASSUME IInv, NEW c \in calls, Inside(c), NEW d \in calls, Inside(d)
    PROVE  c = d
BY Zenon DEF IInv, Held, Distinct

\* Nobody is inside while the mutex is free.
LEMMA Free ==
    ASSUME IInv, mu = None, NEW d \in calls
    PROVE  ~Inside(d)
BY GovernanceAssumption, Zenon DEF IInv, Held, Shapes, Handlers

\* A step of a handler that is no review leaves the reviews and the mutex
\* alone, and with them everything the invariant says of reviews.
LEMMA Elsewhere ==
    ASSUME IInv, NEW c \in calls, NEW d \in Handlers, d.n = c.n, d.op = c.op, c.op # "review",
           calls' = calls \ {c} \/ calls' = (calls \ {c}) \cup {d},
           UNCHANGED <<reviews, mu, count>>, ghost'.acted = ghost.acted
    PROVE  /\ calls' \subseteq Handlers /\ count' \in Nat /\ \A e \in calls' : e.n <= count'
           /\ Distinct' /\ Held' /\ Unreviewed' /\ ReviewedOnce' /\ NotActed'
<1>1. \A e \in calls' : Inside(e) => e \in calls
    BY Replaced, Zenon DEF Inside
<1>2. calls' \subseteq Handlers /\ count' \in Nat /\ (\A e \in calls' : e.n <= count') /\ Distinct'
    BY Replaced, Zenon
<1>3. Held'
    BY <1>1, Zenon DEF IInv, Held, Inside
<1>4. Unreviewed'
    BY <1>1, Zenon DEF IInv, Unreviewed, Inside, Reviewed
<1>5. ReviewedOnce'
    BY Zenon DEF IInv, ReviewedOnce
<1>6. NotActed'
    BY <1>1, Zenon DEF IInv, NotActed, Inside
<1> QED
    BY <1>2, <1>3, <1>4, <1>5, <1>6, Zenon

\* A handler ends, or becomes another form of itself.
Proceeds(c) ==
    \E d \in Handlers : /\ d.n = c.n /\ d.op = c.op
                        /\ calls' = calls \ {c} \/ calls' = (calls \ {c}) \cup {d}

\* The handlers that are no reviews.
NotReviewing(c) ==
    \/ AppealBegin(c) \/ AppealInsert(c) \/ AppealStatus(c)
    \/ ResolveBegin(c) \/ ResolveDecide(c) \/ ResolveClose(c) \/ ResolveLift(c)
    \/ ResolveDelete(c) \/ ConsumeBegin(c) \/ ConsumeMark(c)

\* They end or move on.
LEMMA OthersProceed ==
    ASSUME IInv, NEW c \in calls, NotReviewing(c)
    PROVE  Proceeds(c)
<1> DEFINE d(pc) == [c EXCEPT !.pc = pc]
<1>1. \A pc \in Places : d(pc) \in Handlers /\ d(pc).n = c.n /\ d(pc).op = c.op
    BY Moved DEF IInv, Shapes
<1>2. \/ Ends(c) \/ Goes(c, "insert") \/ Goes(c, "status") \/ Goes(c, "decide") \/ Goes(c, "close")
      \/ Goes(c, "lift") \/ Goes(c, "delete") \/ Goes(c, "mark")
    BY Zenon DEF NotReviewing, AppealBegin, AppealInsert, AppealStatus, ResolveBegin, ResolveDecide, ResolveClose,
       ResolveLift, ResolveDelete, ConsumeBegin, ConsumeMark
<1>3. \/ calls' = calls \ {c}
      \/ calls' = (calls \ {c}) \cup {d("insert")}
      \/ calls' = (calls \ {c}) \cup {d("status")}
      \/ calls' = (calls \ {c}) \cup {d("decide")}
      \/ calls' = (calls \ {c}) \cup {d("close")}
      \/ calls' = (calls \ {c}) \cup {d("lift")}
      \/ calls' = (calls \ {c}) \cup {d("delete")}
      \/ calls' = (calls \ {c}) \cup {d("mark")}
    BY <1>2, Zenon DEF Ends, Goes
<1> HIDE DEF d
<1> QED
    BY <1>1, <1>3, Zenon DEF Proceeds, Places

\* What the handlers that are no reviews may write: a status that is not "new",
\* the conflict, the key once, and anything to the appeals, the actions and the
\* channel.
OtherWrites(c) ==
    /\ c.op # "review" /\ Proceeds(c)
    /\ UNCHANGED <<reviews, mu, count>>
    /\ status' \in [Cases -> Status] /\ \A k \in Cases : status[k] # "new" => status'[k] # "new"
    /\ ghost' \in [crashed : BOOLEAN, conflict : BOOLEAN, twice : BOOLEAN, acted : SUBSET Cases]
    /\ ghost'.acted = ghost.acted /\ ghost'.twice = ghost.twice
    /\ grant' \in [active : BOOLEAN, uses : Nat] /\ KeySpent'

\* Such a step keeps the invariant.
LEMMA OtherStep ==
    ASSUME IInv, NEW c \in calls, OtherWrites(c)
    PROVE  IInv'
<1>1. PICK d \in Handlers : /\ d.n = c.n /\ d.op = c.op
                            /\ calls' = calls \ {c} \/ calls' = (calls \ {c}) \cup {d}
    BY Zenon DEF OtherWrites, Proceeds
<1>4. /\ calls' \subseteq Handlers /\ count' \in Nat /\ \A e \in calls' : e.n <= count'
      /\ Distinct' /\ Held' /\ Unreviewed' /\ ReviewedOnce' /\ NotActed'
    BY <1>1, Elsewhere, Zenon DEF OtherWrites
<1>5. ActedNotNew'
    BY Zenon DEF OtherWrites, IInv, Shapes, ActedNotNew
<1>6. ActionedOnce'
    BY Zenon DEF OtherWrites, IInv, ActionedOnce
<1> QED
    BY <1>4, <1>5, <1>6, Zenon DEF OtherWrites, IInv, Shapes

\* AppealCase, ResolveAppeal and ConsumeGaiasEyesGrant write no more than that.
LEMMA OthersWrite ==
    ASSUME IInv, NEW c \in calls, NotReviewing(c)
    PROVE  OtherWrites(c)
<1> USE OthersProceed DEF At, IInv, Shapes, OtherWrites, KeySpent
<1>1. CASE AppealBegin(c)
    BY <1>1, Zenon DEF AppealBegin
<1>2. CASE AppealInsert(c)
    BY <1>2, Zenon DEF AppealInsert
<1>3. CASE AppealStatus(c)
    BY <1>3, Zenon DEF AppealStatus, Status
<1>4. CASE ResolveBegin(c)
    BY <1>4, Zenon DEF ResolveBegin
<1>5. CASE ResolveDecide(c)
    BY <1>5, Zenon DEF ResolveDecide, Reviewed
<1>6. CASE ResolveClose(c)
    BY <1>6, Zenon DEF ResolveClose, Status
<1>7. CASE ResolveLift(c)
    BY <1>7, Zenon DEF ResolveLift
<1>8. CASE ResolveDelete(c)
    BY <1>8, Zenon DEF ResolveDelete
<1>9. CASE ConsumeBegin(c)
    BY <1>9, Zenon DEF ConsumeBegin
<1>10. CASE ConsumeMark(c)
    BY <1>10 DEF ConsumeMark
<1> QED
    BY <1>1, <1>2, <1>3, <1>4, <1>5, <1>6, <1>7, <1>8, <1>9, <1>10, Zenon DEF NotReviewing

\* A new call is at its beginning, has the next number and is made by somebody
\* entitled to it.
NewCall(d) ==
    /\ d.n = count + 1 /\ d.pc = "begin" /\ count < MaxCalls
    /\ count' = count + 1 /\ calls' = calls \cup {d}
    /\ d.op \in Ops
    /\ d.op = "review" => d.who \in Reviewers /\ d.rec \in Recommendations /\ d.sev \in Severities
    /\ d.op = "resolve" => d.who \in Seniors

\* Every call a client makes is such a call.
LEMMA CallNew == ASSUME IInv, Call PROVE \E d \in Handlers : NewCall(d)
<1> DEFINE Who(op) == CASE op = "review" -> Reviewers [] op = "resolve" -> Seniors [] OTHER -> {None}
           Rec(op) == IF op = "review" THEN Recommendations ELSE {None}
           Sev(op) == IF op = "review" THEN Severities ELSE {None}
           Accept(op) == IF op = "resolve" THEN BOOLEAN ELSE {FALSE}
           New(op, c, who, rec, sev, accept) ==
               [n |-> count', op |-> op, case |-> c, who |-> who, rec |-> rec, sev |-> sev,
                accept |-> accept, pc |-> "begin", seen |-> None]
<1>1. \E op \in Ops, c \in Cases :
        \E who \in Who(op), rec \in Rec(op), sev \in Sev(op), accept \in Accept(op) :
            /\ count < MaxCalls /\ count' = count + 1
            /\ calls' = calls \cup {New(op, c, who, rec, sev, accept)}
            /\ UNCHANGED <<status, reviews, appeals, actions, suspended, grant, mu, ghost>>
    BY Zenon DEF Call
<1>2. \A op \in Ops : /\ Who(op) \subseteq Reviewers \cup {None}
                      /\ Rec(op) \subseteq Recommendations \cup {None}
                      /\ Sev(op) \subseteq Severities \cup {None}
                      /\ Accept(op) \subseteq BOOLEAN
    BY GovernanceAssumption, Zenon
<1>9. /\ Who("review") = Reviewers /\ Rec("review") = Recommendations /\ Sev("review") = Severities
      /\ Who("resolve") = Seniors
    BY Zenon
<1> HIDE DEF Who, Rec, Sev, Accept
<1>3. PICK op \in Ops, c \in Cases :
        \E who \in Who(op), rec \in Rec(op), sev \in Sev(op), accept \in Accept(op) :
            /\ count < MaxCalls /\ count' = count + 1
            /\ calls' = calls \cup {New(op, c, who, rec, sev, accept)}
            /\ UNCHANGED <<status, reviews, appeals, actions, suspended, grant, mu, ghost>>
    BY <1>1, Zenon
<1>4. PICK who \in Who(op), rec \in Rec(op), sev \in Sev(op), accept \in Accept(op) :
            /\ count < MaxCalls /\ count' = count + 1
            /\ calls' = calls \cup {New(op, c, who, rec, sev, accept)}
            /\ UNCHANGED <<status, reviews, appeals, actions, suspended, grant, mu, ghost>>
    BY <1>3, Zenon
<1>5. /\ who \in Reviewers \cup {None} /\ rec \in Recommendations \cup {None}
      /\ sev \in Severities \cup {None} /\ accept \in BOOLEAN
    BY <1>2, Zenon
<1> DEFINE d == [n |-> count + 1, op |-> op, case |-> c, who |-> who,
                 rec |-> rec, sev |-> sev, accept |-> accept, pc |-> "begin", seen |-> None]
<1>6. op \in {"review", "appeal", "resolve", "consume"} /\ count + 1 \in 1..MaxCalls
    BY <1>4, GovernanceAssumption DEF IInv, Shapes
<1>7. /\ d \in Handlers /\ d.n = count + 1 /\ d.pc = "begin" /\ d.op = op /\ d.who = who
      /\ d.rec = rec /\ d.sev = sev
    BY <1>5, <1>6 DEF Handlers, Places
<1>10. /\ op = "review" => who \in Reviewers /\ rec \in Recommendations /\ sev \in Severities
       /\ op = "resolve" => who \in Seniors
    BY <1>9, Zenon
<1>8. calls' = calls \cup {d}
    BY <1>4, Zenon
<1> HIDE DEF d
<1> QED
    BY <1>4, <1>7, <1>8, <1>10, Zenon DEF NewCall

\* A new call holds nothing.
LEMMA CallIInv == ASSUME IInv, Call PROVE IInv'
<1>1. PICK d \in Handlers : /\ d.n = count + 1 /\ d.pc = "begin" /\ count < MaxCalls
                            /\ count' = count + 1 /\ calls' = calls \cup {d}
    BY CallNew, Zenon DEF NewCall
<1>2. UNCHANGED <<status, reviews, grant, mu, ghost>>
    BY DEF Call
<1>3. \A e \in calls' : Inside(e) => e \in calls
    BY <1>1, Zenon DEF Inside
<1>4. Shapes'
    BY <1>1, <1>2 DEF IInv, Shapes, Handlers
<1>5. Distinct'
    BY <1>1 DEF IInv, Shapes, Handlers, Distinct
<1>6. Held'
    BY <1>2, <1>3, Zenon DEF IInv, Held, Inside
<1>7. Unreviewed' /\ ReviewedOnce'
    BY <1>2, <1>3, Zenon DEF IInv, Unreviewed, ReviewedOnce, Inside, Reviewed
<1>8. NotActed' /\ ActedNotNew' /\ ActionedOnce' /\ KeySpent'
    BY <1>2, <1>3, Zenon DEF IInv, NotActed, ActedNotNew, ActionedOnce, KeySpent, Inside
<1> QED
    BY <1>4, <1>5, <1>6, <1>7, <1>8, Zenon DEF IInv

\* A crash leaves nobody inside.
LEMMA CrashIInv == ASSUME IInv, Crash PROVE IInv'
<1>1. calls' = {} /\ UNCHANGED <<status, reviews, grant, count>>
    BY Zenon DEF Crash
<1>2. /\ ghost' \in [crashed : BOOLEAN, conflict : BOOLEAN, twice : BOOLEAN, acted : SUBSET Cases]
      /\ ghost'.acted = ghost.acted /\ ghost'.twice = ghost.twice
    BY Zenon DEF Crash, IInv, Shapes
<1>3. Shapes'
    BY <1>1, <1>2, Zenon DEF IInv, Shapes
<1>4. Distinct' /\ Held' /\ Unreviewed' /\ NotActed'
    BY <1>1, Zenon DEF Distinct, Held, Unreviewed, NotActed
<1>5. ReviewedOnce' /\ ActedNotNew' /\ ActionedOnce' /\ KeySpent'
    BY <1>1, <1>2, Zenon DEF IInv, ReviewedOnce, ActedNotNew, ActionedOnce, KeySpent
<1> QED
    BY <1>3, <1>4, <1>5, Zenon DEF IInv

\* ReviewCase enters only when nobody is inside, and has then read both the
\* reviews and the status itself.
LEMMA ReviewBeginIInv == ASSUME IInv, NEW c \in calls, ReviewBegin(c) PROVE IInv'
<1> DEFINE d == [c EXCEPT !.pc = "insert", !.seen = status[c.case]]
<1>1. c \in Handlers /\ c.op = "review" /\ c.pc = "begin" /\ mu = None
    BY Zenon DEF ReviewBegin, At, IInv, Shapes
<1>2. /\ d \in Handlers /\ d.n = c.n /\ d.op = c.op /\ d.case = c.case /\ d.who = c.who
      /\ d.pc = "insert" /\ d.seen = status[c.case]
    BY <1>1, Zenon DEF IInv, Shapes, Handlers, Places
<1>3. \/ calls' = calls \ {c} /\ mu' = mu
      \/ calls' = (calls \ {c}) \cup {d} /\ mu' = c.n /\ ~Reviewed(c)
    BY Zenon DEF ReviewBegin, Ends
<1>4. UNCHANGED <<status, reviews, grant, count, ghost>>
    BY Zenon DEF ReviewBegin
<1> HIDE DEF d
<1>5. \A e \in calls' : Inside(e) => e = d /\ mu' = c.n /\ ~Reviewed(c)
    BY <1>1, <1>3, Free, Zenon
<1>6. Shapes' /\ Distinct'
    BY <1>2, <1>3, <1>4, Replaced, Zenon DEF IInv, Shapes
<1>7. Held'
    BY <1>2, <1>5, Zenon DEF Held, Inside
<1>8. Unreviewed' /\ ReviewedOnce'
    BY <1>2, <1>4, <1>5 DEF IInv, Unreviewed, ReviewedOnce, Reviewed, Inside
<1>9. NotActed'
    BY <1>2, <1>4, <1>5, Zenon DEF IInv, NotActed, ActedNotNew, Inside
<1>10. ActedNotNew' /\ ActionedOnce' /\ KeySpent'
    BY <1>4, Zenon DEF IInv, ActedNotNew, ActionedOnce, KeySpent
<1> QED
    BY <1>6, <1>7, <1>8, <1>9, <1>10, Zenon DEF IInv

\* The holder goes on inside, or gives the mutex back and ends.
Continues(c, d) ==
    \/ calls' = calls \ {c} /\ mu' = None
    \/ calls' = (calls \ {c}) \cup {d} /\ mu' = mu

\* Whichever it does, only it is inside afterwards.
LEMMA HolderGoesOn ==
    ASSUME IInv, NEW c \in calls, Inside(c), NEW d \in Handlers, d.n = c.n, d.op = c.op,
           count' = count, Continues(c, d)
    PROVE  /\ calls' \subseteq Handlers /\ count' \in Nat /\ \A e \in calls' : e.n <= count'
           /\ Distinct' /\ Held' /\ \A e \in calls' : Inside(e) => e = d
<1>1. /\ calls' \subseteq Handlers /\ count' \in Nat /\ \A e \in calls' : e.n <= count'
      /\ Distinct' /\ \A e \in calls' : e \in calls \/ e = d
    BY Replaced, Zenon DEF Continues
<1>2. \A e \in calls' : Inside(e) => e = d /\ mu' = mu
    BY <1>1, Alone, Zenon DEF Continues
<1>3. Held'
    BY <1>2, Zenon DEF IInv, Held, Inside
<1> QED
    BY <1>1, <1>2, <1>3, Zenon

\* The review that is stored is the reviewer's first of the case.
LEMMA ReviewInsertIInv == ASSUME IInv, NEW c \in calls, ReviewInsert(c) PROVE IInv'
<1> DEFINE d == [c EXCEPT !.pc = "weigh"]
           r == [n |-> c.n, case |-> c.case, by |-> c.who, rec |-> c.rec, sev |-> c.sev]
<1>1. c \in Handlers /\ Inside(c) /\ c.pc = "insert"
    BY Zenon DEF ReviewInsert, At, IInv, Shapes, Inside
<1>2. /\ d \in Handlers /\ d.n = c.n /\ d.op = c.op /\ d.case = c.case /\ d.pc = "weigh"
      /\ d.seen = c.seen
    BY <1>1, Moved, ZenonT(30) DEF Places
<1>3. Continues(c, d) /\ reviews' = reviews \cup {r}
    BY Zenon DEF ReviewInsert, Goes, Continues
<1>4. r.case = c.case /\ r.by = c.who
    BY Zenon
<1>5. UNCHANGED <<status, grant, count, ghost>>
    BY Zenon DEF ReviewInsert
<1> HIDE DEF d, r
<1>6. /\ calls' \subseteq Handlers /\ count' \in Nat /\ \A e \in calls' : e.n <= count'
      /\ Distinct' /\ Held' /\ \A e \in calls' : Inside(e) => e = d
    BY <1>1, <1>2, <1>3, <1>5, HolderGoesOn, Zenon
<1>7. Shapes'
    BY <1>5, <1>6, Zenon DEF IInv, Shapes
<1>8. Unreviewed'
    BY <1>2, <1>6, Zenon DEF Unreviewed, Inside
<1>9. ReviewedOnce'
    BY <1>1, <1>3, <1>4 DEF IInv, Unreviewed, ReviewedOnce, Reviewed
<1>10. NotActed'
    BY <1>1, <1>2, <1>5, <1>6, Zenon DEF IInv, NotActed, Inside
<1>11. ActedNotNew' /\ ActionedOnce' /\ KeySpent'
    BY <1>5, Zenon DEF IInv, ActedNotNew, ActionedOnce, KeySpent
<1> QED
    BY <1>6, <1>7, <1>8, <1>9, <1>10, <1>11, Zenon DEF IInv

\* The case the consensus acts on was new when its holder read it, and so was
\* not acted on before.
LEMMA ReviewWeighIInv == ASSUME IInv, NEW c \in calls, ReviewWeigh(c) PROVE IInv'
<1> DEFINE d == [c EXCEPT !.pc = "enforce"]
<1>1. c \in Handlers /\ Inside(c) /\ c.pc = "weigh" /\ c.case \in Cases
    BY Zenon DEF ReviewWeigh, At, IInv, Shapes, Inside, Handlers
<1>2. d \in Handlers /\ d.n = c.n /\ d.op = c.op /\ d.pc = "enforce"
    BY <1>1, Moved, Zenon DEF Places
<1>3. Continues(c, d)
    BY Zenon DEF ReviewWeigh, Goes, Ends, Continues
<1>4. UNCHANGED <<reviews, grant, count>>
    BY Zenon DEF ReviewWeigh
<1>5. \/ c.seen = "new" /\ status' = [status EXCEPT ![c.case] = "actioned"]
         /\ ghost' = [ghost EXCEPT !.acted = @ \cup {c.case}, !.twice = @ \/ c.case \in ghost.acted]
      \/ status' = status /\ ghost' = ghost
    BY Zenon DEF ReviewWeigh, Consensus
<1> HIDE DEF d
<1>6. /\ calls' \subseteq Handlers /\ count' \in Nat /\ \A e \in calls' : e.n <= count'
      /\ Distinct' /\ Held' /\ \A e \in calls' : Inside(e) => e = d
    BY <1>1, <1>2, <1>3, <1>4, HolderGoesOn, Zenon
<1>7. status' \in [Cases -> Status]
    BY <1>1, <1>5, Zenon DEF IInv, Shapes, Status
<1>8. /\ ghost' \in [crashed : BOOLEAN, conflict : BOOLEAN, twice : BOOLEAN, acted : SUBSET Cases]
      /\ \/ ghost'.acted = ghost.acted \cup {c.case} /\ status' = [status EXCEPT ![c.case] = "actioned"]
         \/ ghost'.acted = ghost.acted /\ status' = status
    <2> DEFINE b == ghost.twice \/ c.case \in ghost.acted
    <2>1. b \in BOOLEAN
        BY Zenon DEF IInv, Shapes
    <2>2. \/ /\ status' = [status EXCEPT ![c.case] = "actioned"]
             /\ ghost' = [ghost EXCEPT !.acted = ghost.acted \cup {c.case}, !.twice = b]
          \/ status' = status /\ ghost' = ghost
        BY <1>5, Zenon
    <2> HIDE DEF b
    <2> DEFINE g == [ghost EXCEPT !.acted = ghost.acted \cup {c.case}, !.twice = b]
    <2>3. /\ g \in [crashed : BOOLEAN, conflict : BOOLEAN, twice : BOOLEAN, acted : SUBSET Cases]
          /\ g.acted = ghost.acted \cup {c.case}
        BY <1>1, <2>1, Zenon DEF IInv, Shapes
    <2>4. \/ status' = [status EXCEPT ![c.case] = "actioned"] /\ ghost' = g
          \/ status' = status /\ ghost' = ghost
        BY <2>2, Zenon
    <2> HIDE DEF g
    <2> QED
        BY <2>3, <2>4, Zenon DEF IInv, Shapes
<1>9. Unreviewed' /\ NotActed'
    BY <1>2, <1>6, Zenon DEF Unreviewed, NotActed, Inside
<1>10. ReviewedOnce' /\ KeySpent'
    BY <1>4, Zenon DEF IInv, ReviewedOnce, KeySpent
<1>11. ActedNotNew'
    BY <1>1, <1>8, Zenon DEF IInv, Shapes, ActedNotNew
<1>12. ActionedOnce'
    BY <1>1, <1>5, Zenon DEF IInv, Shapes, NotActed, ActionedOnce
<1> QED
    BY <1>4, <1>6, <1>7, <1>8, <1>9, <1>10, <1>11, <1>12, Zenon DEF IInv, Shapes

\* Enforcing and recording the action change nothing the invariant speaks of
\* but the holder.
LEMMA ReviewActIInv ==
    ASSUME IInv, NEW c \in calls, ReviewEnforce(c) \/ ReviewRecord(c)
    PROVE  IInv'
<1> DEFINE d == [c EXCEPT !.pc = "record"]
<1>1. c \in Handlers /\ Inside(c)
    BY Zenon DEF ReviewEnforce, ReviewRecord, At, IInv, Shapes, Inside
<1>2. d \in Handlers /\ d.n = c.n /\ d.op = c.op /\ d.pc = "record"
    BY <1>1, Moved, Zenon DEF Places
<1>3. Continues(c, d)
    BY Zenon DEF ReviewEnforce, ReviewRecord, Goes, Ends, Continues
<1>4. UNCHANGED <<status, reviews, grant, count, ghost>>
    BY Zenon DEF ReviewEnforce, ReviewRecord
<1> HIDE DEF d
<1>5. /\ calls' \subseteq Handlers /\ count' \in Nat /\ \A e \in calls' : e.n <= count'
      /\ Distinct' /\ Held' /\ \A e \in calls' : Inside(e) => e = d
    BY <1>1, <1>2, <1>3, <1>4, HolderGoesOn, Zenon
<1>6. Unreviewed' /\ NotActed'
    BY <1>2, <1>5, Zenon DEF Unreviewed, NotActed, Inside
<1>7. ReviewedOnce' /\ ActedNotNew' /\ ActionedOnce' /\ KeySpent'
    BY <1>4, Zenon DEF IInv, ReviewedOnce, ActedNotNew, ActionedOnce, KeySpent
<1> QED
    BY <1>4, <1>5, <1>6, <1>7, Zenon DEF IInv, Shapes

\* Every step of the node keeps the invariant.
LEMMA NextIInv == IInv /\ [Next]_vars => IInv'
<1> SUFFICES ASSUME IInv, [Next]_vars PROVE IInv'
    BY Zenon
<1>1. CASE Call
    BY <1>1, CallIInv, Zenon
<1>2. CASE Crash
    BY <1>2, CrashIInv, Zenon
<1>3. ASSUME NEW c \in calls, Step(c) PROVE IInv'
    BY <1>3, ReviewBeginIInv, ReviewInsertIInv, ReviewWeighIInv, ReviewActIInv, OthersWrite, OtherStep, Zenon
       DEF Step, NotReviewing
<1>4. CASE UNCHANGED vars
    BY <1>4, Zenon DEF vars, IInv, Shapes, Distinct, Held, Unreviewed, ReviewedOnce, NotActed, ActedNotNew,
       ActionedOnce, KeySpent, Inside, Reviewed
<1> QED
    BY <1>1, <1>2, <1>3, <1>4, Zenon DEF Next

\* The invariant always holds.
LEMMA GovernanceInvariant == Spec => []IInv
BY InitIInv, NextIInv, PTL DEF Spec

\* No reviewer ever has two reviews of one case, however many requests overlap
\* and whether or not the node crashes between looking and storing: ReviewCase
\* looks and stores under the mutex.
THEOREM GovernanceReviewedOnce == Spec => []ReviewedOnce
<1>1. IInv => ReviewedOnce
    BY Zenon DEF IInv
<1> QED
    BY <1>1, GovernanceInvariant, PTL

\* A case is acted on at most once: the consensus uses the status its holder
\* read inside the mutex, and no handler makes a case new again.
THEOREM GovernanceActionedOnce == Spec => []ActionedOnce
<1>1. IInv => ActionedOnce
    BY Zenon DEF IInv
<1> QED
    BY <1>1, GovernanceInvariant, PTL

\* The one-time disclosure key is handed out at most once, although the handler
\* reads and marks it in two statements without the mutex: the marking is
\* conditional on the key being active.
THEOREM GovernanceKeyUsedOnce == Spec => []KeyUsedOnce
<1>1. IInv => KeyUsedOnce
    BY Zenon DEF IInv, KeySpent, KeyUsedOnce
<1> QED
    BY <1>1, GovernanceInvariant, PTL
-----------------------------------------------------------------------------
\* What the tables hold, and on how many reviews an action rests.

\* Who may call what with what, as the handlers check it at their beginning.
Entitled ==
    \A c \in calls :
        /\ c.op \in Ops
        /\ c.op = "review" => c.who \in Reviewers /\ c.rec \in Recommendations /\ c.sev \in Severities
        /\ c.op = "resolve" => c.who \in Seniors

Appeals == [n : 1..MaxCalls, case : Cases, status : {"pending", "accepted", "rejected"},
            by : Seniors \cup {None}]

\* The rows of the tables; there are finitely many reviews.
Rows ==
    /\ IsFiniteSet(reviews)
    /\ \A r \in reviews : /\ r.case \in Cases /\ r.by \in Reviewers
                          /\ r.rec \in Recommendations /\ r.sev \in Severities
    /\ appeals \subseteq Appeals
    /\ \A a \in actions : a.case \in Cases /\ a.type \in Types
    /\ suspended \in BOOLEAN
    /\ mu \in (1..MaxCalls) \cup {None}
    /\ count <= MaxCalls /\ grant.uses <= count

\* A case is acted on with the votes of at least as many reviewers as the
\* node's size demands, and no later step takes that quorum away
\* (minReviewers in service.go).
ActedOnQuorum ==
    \A k \in ghost.acted : Cardinality(Voters(Votes(k))) >= MinReviewers(UserCount)

\* A review that enforces or records an action does so for a case acted on.
Enforces == \A c \in calls : Inside(c) /\ c.pc \in {"enforce", "record"} => c.case \in ghost.acted

TInv == IInv /\ Entitled /\ Rows /\ ActedOnQuorum /\ Enforces

\* The smaller and the larger of two numbers.
LEMMA TwoNumbers ==
    ASSUME NEW a \in Nat, NEW b \in Nat
    PROVE  /\ Min({a, b}) = IF a <= b THEN a ELSE b
           /\ Max({a, b}) = IF a >= b THEN a ELSE b
<1>1. \E x \in {a, b} : \A y \in {a, b} : x <= y
    OBVIOUS
<1>2. \E x \in {a, b} : \A y \in {a, b} : x >= y
    OBVIOUS
<1>3. Min({a, b}) \in {a, b} /\ \A y \in {a, b} : Min({a, b}) <= y
    BY <1>1, Zenon DEF Min
<1>4. Max({a, b}) \in {a, b} /\ \A y \in {a, b} : Max({a, b}) >= y
    BY <1>2, Zenon DEF Max
<1> QED
    BY <1>3, <1>4

\* A node of any size asks for at least one reviewer.
LEMMA QuorumPositive == MinReviewers(UserCount) \in Nat \ {0}
<1> DEFINE tenths == CeilDiv(UserCount * 4, 10)
           seats == ReviewerSeatLimit(UserCount)
           half == CeilDiv(seats, 2)
<1>0. UserCount \in Nat
    BY GovernanceAssumption, Zenon
<1>1. tenths \in Nat
    BY <1>0 DEF CeilDiv
<1>2. seats = Min({tenths, UserCount})
    BY Zenon DEF ReviewerSeatLimit
<1>3. seats \in Nat
    BY <1>0, <1>1, <1>2, TwoNumbers, Zenon
<1>4. half \in Nat
    BY <1>3 DEF CeilDiv
<1>5. MinReviewers(UserCount) = IF seats = 0 THEN 1 ELSE Min({Max({half, 2}), seats})
    BY Zenon DEF MinReviewers
<1> HIDE DEF tenths, seats, half
<1>6. Max({half, 2}) = IF half >= 2 THEN half ELSE 2
    BY <1>4, TwoNumbers, Zenon
<1>7. Max({half, 2}) \in Nat \ {0}
    BY <1>4, <1>6
<1>8. Min({Max({half, 2}), seats}) = IF Max({half, 2}) <= seats THEN Max({half, 2}) ELSE seats
    BY <1>3, <1>7, TwoNumbers, Zenon
<1> QED
    BY <1>3, <1>5, <1>7, <1>8

\* Finitely many votes are those of finitely many reviewers.
LEMMA VotersFinite == ASSUME NEW S, IsFiniteSet(S) PROVE IsFiniteSet(Voters(S))
<1> DEFINE f == [r \in S |-> r.by]
<1>1. f \in Surjection(S, Voters(S))
    BY Zenon DEF Surjection, Voters
<1> QED
    BY <1>1, FS_Surjection, Zenon

\* More reviews, no fewer voters.
LEMMA VotersGrow ==
    ASSUME IsFiniteSet(reviews'), reviews \subseteq reviews', NEW k
    PROVE  /\ Cardinality(Voters(Votes(k))) \in Nat /\ Cardinality(Voters(Votes(k))') \in Nat
           /\ Cardinality(Voters(Votes(k))) <= Cardinality(Voters(Votes(k))')
<1>1. Votes(k) \subseteq Votes(k)' /\ Votes(k)' \subseteq reviews'
    BY Zenon DEF Votes
<1>2. Voters(Votes(k)) \subseteq Voters(Votes(k))'
    BY <1>1, Zenon DEF Voters
<1>3. IsFiniteSet(Votes(k)')
    BY <1>1, FS_Subset, Zenon
<1>4. IsFiniteSet(Voters(Votes(k))')
    BY <1>3, VotersFinite, Zenon DEF Voters
<1> QED
    BY <1>2, <1>4, FS_Subset, FS_CardinalityType, Zenon

\* A case acted on has votes.
LEMMA ActedHasVotes ==
    ASSUME Rows, ActedOnQuorum, NEW k \in ghost.acted
    PROVE  Votes(k) # {}
<1>1. Cardinality(Voters(Votes(k))) >= MinReviewers(UserCount)
    BY Zenon DEF ActedOnQuorum
<1>2. SUFFICES ASSUME Votes(k) = {} PROVE FALSE
    BY Zenon
<1>3. Voters(Votes(k)) = {}
    BY <1>2, Zenon DEF Voters
<1>4. Cardinality(Voters(Votes(k))) = 0
    BY <1>3, FS_EmptySet, Zenon
<1> QED
    BY <1>1, <1>4, QuorumPositive

\* consensusActionType finds a type among any votes: of finitely many it has
\* the most votes, or the highest priority of those that have.
LEMMA ConsensusFound ==
    ASSUME NEW votes, IsFiniteSet(votes), votes # {}, \A r \in votes : r.rec \in Types
    PROVE  ConsensusActionType(votes) \in Types
<1> DEFINE n(t) == Cardinality({r \in votes : r.rec = t})
           recs == {r.rec : r \in votes}
           Best(t) == \A u \in recs : n(t) > n(u) \/ (n(t) = n(u) /\ Priority(t) >= Priority(u))
<1>1. \A t \in Types : n(t) \in Nat
    <2> SUFFICES ASSUME NEW t \in Types PROVE n(t) \in Nat
        BY Zenon
    <2>1. {r \in votes : r.rec = t} \subseteq votes
        BY Zenon
    <2> QED
        BY <2>1, FS_Subset, FS_CardinalityType, Zenon
<1>2. recs \subseteq Types /\ recs # {}
    BY Zenon
<1>3. /\ Priority("suspend") = 4 /\ Priority("timeout") = 3
      /\ Priority("quarantine") = 2 /\ Priority("warn") = 1
    BY Zenon DEF Priority
<1>4. ConsensusActionType(votes) = CHOOSE t \in recs : Best(t)
    BY Zenon DEF ConsensusActionType
<1> HIDE DEF n, recs
<1>5. \E t \in recs : Best(t)
    <2> DEFINE key(t) == 5 * n(t) + Priority(t)
    <2>1. \A t \in Types : key(t) \in Nat /\ Priority(t) \in 1..4
        BY <1>1, <1>3 DEF Types
    <2>2. \A t, u \in Types : key(t) >= key(u) =>
            n(t) > n(u) \/ (n(t) = n(u) /\ Priority(t) >= Priority(u))
        BY <1>1, <2>1
    <2> HIDE DEF key
    <2>3. \E t \in recs : \A u \in recs : key(t) >= key(u)
        <3> DEFINE Has(S) == S = {} \/ \E t \in S : \A u \in S : key(t) >= key(u)
        <3>1. ASSUME NEW S \in SUBSET Types, NEW x \in Types, NEW T, T = S \/ T = S \cup {x}, Has(S)
              PROVE  Has(T)
            <4>1. CASE T = S
                BY <3>1, <4>1, Zenon
            <4>2. CASE T = S \cup {x} /\ S = {}
                BY <2>1, <4>2
            <4>3. CASE T = S \cup {x} /\ S # {}
                <5>1. PICK t \in S : \A u \in S : key(t) >= key(u)
                    BY <3>1, <4>3, Zenon
                <5>2. key(t) \in Nat /\ key(x) \in Nat /\ \A u \in S : key(u) \in Nat
                    BY <2>1, Zenon
                <5>3. CASE key(t) >= key(x)
                    BY <4>3, <5>1, <5>2, <5>3, Zenon
                <5>4. CASE key(x) > key(t)
                    <6>1. \A u \in T : key(x) >= key(u)
                        BY <4>3, <5>1, <5>2, <5>4
                    <6> QED
                        BY <4>3, <6>1, Zenon
                <5> QED
                    BY <5>2, <5>3, <5>4
            <4> QED
                BY <3>1, <4>1, <4>2, <4>3, Zenon
        <3> DEFINE A == recs \cap {"suspend"}
                   B == recs \cap {"suspend", "timeout"}
                   C == recs \cap {"suspend", "timeout", "quarantine"}
        <3>2. /\ {} \in SUBSET Types /\ A \in SUBSET Types /\ B \in SUBSET Types /\ C \in SUBSET Types
              /\ "suspend" \in Types /\ "timeout" \in Types /\ "quarantine" \in Types /\ "warn" \in Types
            BY Zenon DEF Types
        <3>3. /\ A = {} \/ A = {} \cup {"suspend"}
              /\ B = A \/ B = A \cup {"timeout"}
              /\ C = B \/ C = B \cup {"quarantine"}
              /\ recs = C \/ recs = C \cup {"warn"}
            BY <1>2, Zenon DEF Types
        <3>4. Has({})
            BY Zenon
        <3> HIDE DEF A, B, C, Has
        <3>5. Has(A)
            BY <3>1, <3>2, <3>3, <3>4, Zenon
        <3>6. Has(B)
            BY <3>1, <3>2, <3>3, <3>5, Zenon
        <3>7. Has(C)
            BY <3>1, <3>2, <3>3, <3>6, Zenon
        <3>8. Has(recs)
            BY <3>1, <3>2, <3>3, <3>7, Zenon
        <3> QED
            BY <1>2, <3>8, Zenon DEF Has
    <2> QED
        BY <1>2, <2>2, <2>3, Zenon
<1> HIDE DEF Best
<1>6. (CHOOSE t \in recs : Best(t)) \in recs
    BY <1>5, Zenon
<1> QED
    BY <1>2, <1>4, <1>6, Zenon

\* The parts of a call that never change.
SameCall(d, c) ==
    /\ d.n = c.n /\ d.op = c.op /\ d.case = c.case /\ d.who = c.who /\ d.rec = c.rec
    /\ d.sev = c.sev /\ d.accept = c.accept

\* Whatever a handler does next, its call ends or stays the same call.
LEMMA StepSameCall ==
    ASSUME IInv, NEW c \in calls, Step(c)
    PROVE  \A e \in calls' : e \in calls \/ SameCall(e, c)
<1>1. c \in Handlers
    BY Zenon DEF IInv, Shapes
<1>2. \A pc : SameCall([c EXCEPT !.pc = pc], c)
    BY <1>1, Zenon DEF SameCall, Handlers
<1>3. \A v : SameCall([c EXCEPT !.pc = "insert", !.seen = v], c)
    BY <1>1, Zenon DEF SameCall, Handlers
<1>4. \/ \E pc : Goes(c, pc)
      \/ Ends(c)
      \/ calls' = (calls \ {c}) \cup {[c EXCEPT !.pc = "insert", !.seen = status[c.case]]}
    BY Zenon DEF Step, ReviewBegin, ReviewInsert, ReviewWeigh, ReviewEnforce, ReviewRecord, AppealBegin,
       AppealInsert, AppealStatus, ResolveBegin, ResolveDecide, ResolveClose, ResolveLift,
       ResolveDelete, ConsumeBegin, ConsumeMark
<1>5. CASE \E pc : Goes(c, pc)
    BY <1>2, <1>5, Zenon DEF Goes
<1>6. CASE Ends(c)
    BY <1>6, Zenon DEF Ends
<1>7. CASE calls' = (calls \ {c}) \cup {[c EXCEPT !.pc = "insert", !.seen = status[c.case]]}
    BY <1>3, <1>7, Zenon
<1> QED
    BY <1>4, <1>5, <1>6, <1>7, Zenon

\* So everybody stays entitled to what they do.
LEMMA StepEntitled == ASSUME TInv, NEW c \in calls, Step(c) PROVE Entitled'
<1>1. \A e \in calls' : e \in calls \/ SameCall(e, c)
    BY StepSameCall, Zenon DEF TInv
<1> QED
    BY <1>1, Zenon DEF TInv, Entitled, SameCall

\* A step that adds to no list of acted cases keeps every quorum.
LEMMA QuorumKept ==
    ASSUME Rows, ActedOnQuorum, IsFiniteSet(reviews'), reviews \subseteq reviews', ghost'.acted \subseteq ghost.acted
    PROVE  ActedOnQuorum'
<1> SUFFICES ASSUME NEW k \in ghost'.acted
             PROVE  Cardinality(Voters(Votes(k))') >= MinReviewers(UserCount)
    BY Zenon DEF ActedOnQuorum
<1>1. Cardinality(Voters(Votes(k))) >= MinReviewers(UserCount)
    BY Zenon DEF ActedOnQuorum
<1> QED
    BY <1>1, VotersGrow, QuorumPositive

\* ReviewCase, before the decision.
LEMMA ReviewBeginTInv ==
    ASSUME TInv, NEW c \in calls, ReviewBegin(c) \/ ReviewInsert(c)
    PROVE  Rows' /\ ActedOnQuorum' /\ Enforces'
<1> USE DEF TInv
<1>0. c \in Handlers /\ c.n \in 1..MaxCalls /\ c.case \in Cases /\ c.op = "review"
    BY Zenon DEF IInv, Shapes, Handlers, ReviewBegin, ReviewInsert, At
<1>1. UNCHANGED <<appeals, actions, suspended, grant, count, ghost>> /\ mu' \in {mu, c.n}
    BY Zenon DEF ReviewBegin, ReviewInsert
<1>2. /\ IsFiniteSet(reviews') /\ reviews \subseteq reviews'
      /\ \A r \in reviews' : /\ r.case \in Cases /\ r.by \in Reviewers
                             /\ r.rec \in Recommendations /\ r.sev \in Severities
    <2>1. CASE ReviewBegin(c)
        BY <2>1, Zenon DEF ReviewBegin, Rows
    <2>2. CASE ReviewInsert(c)
        <3> DEFINE r == [n |-> c.n, case |-> c.case, by |-> c.who, rec |-> c.rec, sev |-> c.sev]
        <3>1. reviews' = reviews \cup {r}
            BY <2>2, Zenon DEF ReviewInsert
        <3>2. r.case \in Cases /\ r.by \in Reviewers /\ r.rec \in Recommendations /\ r.sev \in Severities
            BY <1>0, Zenon DEF Entitled
        <3> HIDE DEF r
        <3>3. IsFiniteSet(reviews')
            BY <3>1, FS_AddElement, Zenon DEF Rows
        <3> QED
            BY <3>1, <3>2, <3>3, Zenon DEF Rows
    <2> QED
        BY <2>1, <2>2, Zenon
<1>3. Rows'
    BY <1>0, <1>1, <1>2, Zenon DEF Rows
<1>4. ActedOnQuorum'
    BY <1>1, <1>2, QuorumKept, Zenon
<1>5. \A e \in calls' : e \in calls \/ e.pc \in {"insert", "weigh"}
    <2>1. [c EXCEPT !.pc = "insert", !.seen = status[c.case]].pc = "insert" /\ [c EXCEPT !.pc = "weigh"].pc = "weigh"
        BY <1>0, Zenon DEF Handlers
    <2> QED
        BY <2>1, Zenon DEF ReviewBegin, ReviewInsert, Goes, Ends
<1>6. Enforces'
    BY <1>1, <1>5, Zenon DEF Enforces, Inside
<1> QED
    BY <1>3, <1>4, <1>6, Zenon

\* The decision is taken on a quorum.
LEMMA ReviewWeighTInv ==
    ASSUME TInv, NEW c \in calls, ReviewWeigh(c)
    PROVE  Rows' /\ ActedOnQuorum' /\ Enforces'
<1> USE DEF TInv
<1> DEFINE d == [c EXCEPT !.pc = "enforce"]
<1>0. c \in Handlers /\ c.case \in Cases /\ d.pc = "enforce" /\ d.case = c.case
    BY Zenon DEF IInv, Shapes, Handlers
<1>1. UNCHANGED <<reviews, appeals, actions, suspended, grant, count>> /\ mu' \in {mu, None}
    BY Zenon DEF ReviewWeigh
<1>2. Rows'
    BY <1>1, Zenon DEF Rows
<1>3. \/ /\ Cardinality(Voters(Votes(c.case))) >= MinReviewers(UserCount)
         /\ ghost'.acted = ghost.acted \cup {c.case} /\ calls' = (calls \ {c}) \cup {d}
      \/ ghost'.acted = ghost.acted /\ calls' = calls \ {c}
    BY Zenon DEF ReviewWeigh, Consensus, Goes, Ends, IInv, Shapes
<1>4. \A k : Votes(k)' = Votes(k)
    BY <1>1, Zenon DEF Votes
<1>5. ActedOnQuorum'
    <2> SUFFICES ASSUME NEW k \in ghost'.acted
                 PROVE  Cardinality(Voters(Votes(k))') >= MinReviewers(UserCount)
        BY Zenon DEF ActedOnQuorum
    <2>1. Voters(Votes(k))' = Voters(Votes(k))
        BY <1>4, Zenon DEF Voters
    <2> QED
        BY <1>3, <2>1, Zenon DEF ActedOnQuorum
<1> HIDE DEF d
<1>6. Enforces'
    BY <1>0, <1>3, Zenon DEF Enforces, Inside
<1> QED
    BY <1>2, <1>5, <1>6, Zenon

\* What is enforced and recorded is one of the action types.
LEMMA ReviewActTInv ==
    ASSUME TInv, NEW c \in calls, ReviewEnforce(c) \/ ReviewRecord(c)
    PROVE  Rows' /\ ActedOnQuorum' /\ Enforces'
<1> USE DEF TInv
<1> DEFINE d == [c EXCEPT !.pc = "record"]
           type == ConsensusActionType(Votes(c.case))
<1>0. c \in Handlers /\ c.case \in Cases /\ Inside(c) /\ c.case \in ghost.acted
    BY Zenon DEF IInv, Shapes, Handlers, ReviewEnforce, ReviewRecord, At, Inside, Enforces
<1>1. d.case = c.case
    BY <1>0, Zenon DEF Handlers
<1>2. type \in Types
    <2>1. Votes(c.case) \subseteq reviews /\ \A r \in Votes(c.case) : r.rec \in Types
        BY Zenon DEF Votes
    <2>2. IsFiniteSet(Votes(c.case)) /\ Votes(c.case) # {}
        BY <1>0, <2>1, FS_Subset, ActedHasVotes, Zenon DEF Rows
    <2> QED
        BY <2>1, <2>2, ConsensusFound, Zenon
<1>3. /\ UNCHANGED <<reviews, appeals, grant, count, ghost>> /\ mu' \in {mu, None}
      /\ suspended' = suspended \/ suspended' = (suspended \/ type \in {"suspend", "quarantine"})
    BY Zenon DEF ReviewEnforce, ReviewRecord
<1>4. \/ actions' = actions
      \/ actions' = actions \cup {[n |-> c.n, case |-> c.case, type |-> type]}
    BY Zenon DEF ReviewEnforce, ReviewRecord
<1>5. calls' = calls \ {c} \/ calls' = (calls \ {c}) \cup {d}
    BY Zenon DEF ReviewEnforce, ReviewRecord, Goes, Ends
<1> HIDE DEF d, type
<1>6. Rows'
    <2>1. \A a \in actions' : a.case \in Cases /\ a.type \in Types
        BY <1>0, <1>2, <1>4 DEF Rows
    <2>2. suspended' \in BOOLEAN
        BY <1>3, ZenonT(30) DEF Rows
    <2> QED
        BY <1>3, <2>1, <2>2, Zenon DEF Rows
<1>7. ActedOnQuorum'
    BY <1>3, QuorumKept, Zenon DEF Rows
<1>8. Enforces'
    BY <1>0, <1>1, <1>3, <1>5, Zenon DEF Enforces, Inside
<1> QED
    BY <1>6, <1>7, <1>8, Zenon

\* Appeals, their resolution and the disclosure key.
LEMMA OthersTInv ==
    ASSUME TInv, NEW c \in calls, NotReviewing(c)
    PROVE  Rows' /\ ActedOnQuorum' /\ Enforces'
<1> USE DEF TInv
<1>0. c \in Handlers /\ c.case \in Cases
    BY Zenon DEF IInv, Shapes, Handlers
<1>1. OtherWrites(c)
    BY OthersWrite, Zenon
<1>2. appeals' \subseteq Appeals
    <2>1. CASE AppealInsert(c)
        <3>1. [n |-> c.n, case |-> c.case, status |-> "pending", by |-> None] \in Appeals
            BY <1>0, Zenon DEF Appeals, Handlers
        <3> QED
            BY <2>1, <3>1, ZenonT(30) DEF AppealInsert, Rows
    <2>2. CASE ResolveDecide(c)
        <3>1. c.who \in Seniors
            BY <2>2, Zenon DEF ResolveDecide, At, Entitled
        <3>2. \A a \in Appeals, v \in {"accepted", "rejected"} :
                [a EXCEPT !.status = v, !.by = c.who] \in Appeals
            BY <3>1, Zenon DEF Appeals
        <3> QED
            BY <2>2, <3>2, ZenonT(30) DEF ResolveDecide, Rows
    <2>3. CASE appeals' = appeals
        BY <2>3, Zenon DEF Rows
    <2> QED
        BY <2>1, <2>2, <2>3, ZenonT(30) DEF NotReviewing, AppealBegin, AppealStatus, ResolveBegin, ResolveClose, ResolveLift,
           ResolveDelete, ConsumeBegin, ConsumeMark
<1>3. (actions' = actions \/ actions' = {}) /\ (suspended' = suspended \/ suspended' = FALSE)
    BY Zenon DEF NotReviewing, AppealBegin, AppealInsert, AppealStatus, ResolveBegin, ResolveDecide, ResolveClose,
       ResolveLift, ResolveDelete, ConsumeBegin, ConsumeMark
<1>4. UNCHANGED <<reviews, mu, count>> /\ ghost'.acted = ghost.acted /\ c.op # "review"
    BY <1>1, Zenon DEF OtherWrites
<1>5. Rows'
    <2>1. grant'.uses <= count'
        BY <1>0, <1>1, <1>4 DEF OtherWrites, KeySpent, IInv, Shapes, Handlers
    <2> QED
        BY <1>2, <1>3, <1>4, <2>1, Zenon DEF Rows
<1>6. ActedOnQuorum'
    BY <1>4, QuorumKept, Zenon DEF Rows
<1>7. \A e \in calls' : e \in calls \/ e.op = c.op
    BY <1>1, Zenon DEF OtherWrites, Proceeds
<1>8. Enforces'
    BY <1>4, <1>7, Zenon DEF Enforces, Inside
<1> QED
    BY <1>5, <1>6, <1>8, Zenon

\* A new call is made by somebody entitled to it.
LEMMA CallTInv == ASSUME TInv, Call PROVE Entitled' /\ Rows' /\ ActedOnQuorum' /\ Enforces'
<1> USE DEF TInv
<1>1. /\ UNCHANGED <<reviews, appeals, actions, suspended, grant, mu, ghost>>
      /\ count < MaxCalls /\ count' = count + 1 /\ count \in Nat /\ grant.uses \in Nat
    BY DEF Call, IInv, Shapes
<1>2. PICK d \in Handlers : NewCall(d)
    BY CallNew, Zenon
<1>3. Entitled' /\ Enforces'
    BY <1>1, <1>2, Zenon DEF NewCall, Entitled, Enforces, Inside
<1>4. Rows'
    BY <1>1, GovernanceAssumption DEF Rows
<1> QED
    BY <1>1, <1>3, <1>4, QuorumKept, Zenon DEF Rows

\* Every step keeps tables and quorums.
LEMMA NextTInv == TInv /\ [Next]_vars => TInv'
<1> SUFFICES ASSUME TInv, [Next]_vars PROVE TInv'
    BY Zenon
<1>0. IInv'
    BY NextIInv, Zenon DEF TInv
<1>1. CASE Call
    BY <1>0, <1>1, CallTInv, Zenon DEF TInv
<1>2. CASE Crash
    <2>1. /\ UNCHANGED <<reviews, appeals, actions, suspended, grant, count>> /\ calls' = {} /\ mu' = None
          /\ ghost'.acted = ghost.acted
        BY <1>2, Zenon DEF Crash, TInv, IInv, Shapes
    <2>2. Rows' /\ Entitled' /\ Enforces'
        BY <2>1, Zenon DEF TInv, Rows, Entitled, Enforces
    <2> QED
        BY <1>0, <2>1, <2>2, QuorumKept, Zenon DEF TInv, Rows
<1>3. ASSUME NEW c \in calls, Step(c) PROVE TInv'
    <2>1. Entitled'
        BY <1>3, StepEntitled, Zenon
    <2>2. Rows' /\ ActedOnQuorum' /\ Enforces'
        BY <1>3, ReviewBeginTInv, ReviewWeighTInv, ReviewActTInv, OthersTInv, Zenon DEF Step, NotReviewing
    <2> QED
        BY <1>0, <2>1, <2>2, Zenon DEF TInv
<1>4. CASE UNCHANGED vars
    <2>1. Rows' /\ Entitled' /\ Enforces'
        BY <1>4, Zenon DEF vars, TInv, Rows, Entitled, Enforces, Inside
    <2> QED
        BY <1>0, <1>4, <2>1, QuorumKept, Zenon DEF vars, TInv, Rows
<1> QED
    BY <1>1, <1>2, <1>3, <1>4, Zenon DEF Next

\* It always holds.
LEMMA GovernanceTables == Spec => []TInv
<1>1. Init => TInv
    <2>1. Init => Entitled /\ Enforces /\ ActedOnQuorum
        BY DEF Init, Entitled, Enforces, ActedOnQuorum
    <2>2. Init => Rows
        <3>1. IsFiniteSet({})
            BY FS_EmptySet, Zenon
        <3>2. MaxCalls \in Nat
            BY GovernanceAssumption, Zenon
        <3>3. Init => suspended \in BOOLEAN
            BY Zenon DEF Init
        <3>4. Init => count <= MaxCalls /\ grant.uses <= count
            BY <3>2 DEF Init
        <3> QED
            BY <3>1, <3>3, <3>4, Zenon DEF Init, Rows
    <2> QED
        BY <2>1, <2>2, InitIInv, Zenon DEF TInv
<1> QED
    BY <1>1, NextTInv, PTL DEF Spec

\* The tables hold what they should for any number of cases, reviewers and
\* calls: in particular consensusActionType finds an action for every case that
\* is acted on, and the key is counted within the calls made.
THEOREM GovernanceTypes == Spec => []TypeOK
<1>1. TInv => TypeOK
    <2> SUFFICES ASSUME TInv PROVE TypeOK
        BY Zenon
    <2>1. \A c \in calls : c.n \in 1..count /\ c.op \in Ops /\ c.case \in Cases
        BY DEF TInv, IInv, Shapes, Handlers, Entitled
    <2>2. count \in 0..MaxCalls
        BY GovernanceAssumption DEF TInv, IInv, Shapes, Rows
    <2>3. grant \in [active : BOOLEAN, uses : 0..MaxCalls]
        BY GovernanceAssumption DEF TInv, IInv, Shapes, Rows
    <2> QED
        BY <2>1, <2>2, <2>3, Zenon DEF TypeOK, TInv, IInv, Shapes, Rows, Appeals
<1> QED
    BY <1>1, GovernanceTables, PTL

\* No case is ever acted on without the quorum that the node's size demands,
\* although weighing, acting and recording are separate statements and other
\* handlers run in between (ReviewCase in service.go).
THEOREM GovernanceQuorum == Spec => []ActedOnQuorum
<1>1. TInv => ActedOnQuorum
    BY Zenon DEF TInv
<1> QED
    BY <1>1, GovernanceTables, PTL

-----------------------------------------------------------------------------
(* The human proof, for every set of people and any number of ceremonies.  *)
(* The card is one state for whatever profile is open, and the answer of a *)
(* ceremony may arrive when another one is; the argument for the worker    *)
(* is that the dialog and workerRef know the only one that computes.       *)

CONSTANTS Me, Others, Center, Fails, MaxWorkers
VARIABLES dialog, ref, workers, node, summary, local, card, loading

Human == INSTANCE HumanProof

Proven == Human!ProofAssumption /\ None \notin Human!People

Dialogs == [show : BOOLEAN, typed : BOOLEAN, running : BOOLEAN]
Cards == [of : Human!People \cup {None}, proof : BOOLEAN]

(* Only the security center asks for the passport, and its card is the     *)
(* user's own.                                                             *)
CenterOwn == (loading => Center) /\ (Center => card.of = Me)

(* Unless a dialog was opened while a result was on its way, a worker that *)
(* computes is the one of the open dialog and no result is on its way, and *)
(* a dialog that waits for its phrase has no result on its way.            *)
OneCeremony ==
  ghost => /\ \A i \in Human!Workers : workers[i] = "run" =>
                /\ dialog.show /\ dialog.running /\ ref = i
                /\ \A j \in Human!Workers : workers[j] # "save"
           /\ dialog.show /\ ~dialog.running =>
                \A i \in Human!Workers : workers[i] # "save"

HumanInv == Human!TypeOK /\ CenterOwn /\ OneCeremony /\ Human!CardShowsOwner

(* The page starts without a dialog, a worker or a proof on the card.      *)
LEMMA HumanInit == ASSUME Proven, Human!Init PROVE HumanInv
<1> USE DEF Proven, Human!ProofAssumption
<1>1. dialog \in Dialogs /\ card \in Cards
  BY Zenon DEF Human!Init, Human!Closed, Dialogs, Cards, Human!People
<1>2. ref \in 0..MaxWorkers
  BY DEF Human!Init
<1>3. /\ workers \in [Human!Workers -> {"idle", "run", "save", "end"}]
      /\ node \in BOOLEAN /\ summary \subseteq Human!People
      /\ local \in [Human!People -> {"none", "fresh", "old"}]
      /\ {loading, ghost} \subseteq BOOLEAN
  BY Zenon DEF Human!Init, Human!People
<1>4. Human!TypeOK
  BY <1>1, <1>2, <1>3, Zenon DEF Human!TypeOK, Dialogs, Cards
<1> QED
  BY <1>4, Zenon DEF HumanInv, Human!Init, CenterOwn, OneCeremony, Human!CardShowsOwner

(* The card that is chosen for a profile shows a proof of that person only *)
(* (GsnPane.jsx, TrustPassportCard): from the summary, or a stored one.    *)
LEMMA ChosenCard ==
  ASSUME Proven, summary \subseteq Human!People,
         NEW l \in [Human!People -> {"none", "fresh", "old"}],
         NEW x \in Human!People \cup {None},
         card' = Human!CardOf(l, x), local' = Human!Stored(l, x), UNCHANGED summary
  PROVE  /\ card' \in Cards /\ card'.of = x
         /\ local' \in [Human!People -> {"none", "fresh", "old"}]
         /\ Human!CardShowsOwner'
<1>1. x = None => x \notin summary
  BY Zenon DEF Proven
<1>2. card' \in Cards /\ card'.of = x
  BY Zenon DEF Human!CardOf, Human!GetHumanProof, Cards
<1>3. local' \in [Human!People -> {"none", "fresh", "old"}]
  BY <1>1, Zenon DEF Human!Stored
<1>4. card'.proof => x # None /\ (x \in summary \/ local'[x] # "none")
  BY <1>1, Zenon DEF Human!CardOf, Human!GetHumanProof, Human!Stored
<1> QED
  BY <1>2, <1>3, <1>4, Zenon DEF Human!CardShowsOwner

(* Steps that leave the dialog and the workers alone.                      *)
LEMMA HumanCard ==
  ASSUME Proven, HumanInv,
         \/ \E x \in Human!People \cup {None} : Human!OpenProfile(x)
         \/ \E x \in Human!People : Human!Expire(x)
         \/ Human!SummaryRenewed \/ Human!PassportLoaded \/ Human!PassportFails
  PROVE  HumanInv'
<1> USE DEF HumanInv
<1>0. /\ summary \subseteq Human!People /\ card \in Cards
      /\ local \in [Human!People -> {"none", "fresh", "old"}]
  BY Zenon DEF Human!TypeOK, Cards
<1>1. ASSUME NEW x \in Human!People \cup {None}, Human!OpenProfile(x) PROVE HumanInv'
  <2>1. /\ card' \in Cards /\ card'.of = x
        /\ local' \in [Human!People -> {"none", "fresh", "old"}]
        /\ Human!CardShowsOwner'
    BY <1>0, <1>1, ChosenCard, Zenon DEF Human!OpenProfile
  <2>2. Human!TypeOK'
    BY <1>1, <2>1, Zenon DEF Human!OpenProfile, Human!TypeOK, Cards
  <2> QED
    BY <1>1, <2>1, <2>2, Zenon DEF Human!OpenProfile, CenterOwn, OneCeremony
<1>2. ASSUME NEW x \in Human!People, Human!Expire(x) PROVE HumanInv'
  <2>1. local' \in [Human!People -> {"none", "fresh", "old"}]
    BY <1>0, <1>2, Zenon DEF Human!Expire
  <2>2. Human!TypeOK'
    BY <1>2, <2>1, Zenon DEF Human!Expire, Human!TypeOK
  <2>3. Human!CardShowsOwner'
    BY <1>0, <1>2, Zenon DEF Human!Expire, Human!CardShowsOwner, Cards
  <2> QED
    BY <1>2, <2>2, <2>3, Zenon DEF Human!Expire, CenterOwn, OneCeremony
<1>3. CASE Human!SummaryRenewed
  <2>1. Human!TypeOK'
    BY <1>3, Zenon DEF Human!SummaryRenewed, Human!TypeOK, Human!People
  <2> QED
    BY <1>3, <2>1, Zenon DEF Human!SummaryRenewed, CenterOwn, OneCeremony, Human!CardShowsOwner
<1>4. CASE Human!PassportLoaded
  <2>1. card.of = Me /\ Me \in Human!People /\ Me # None
    BY <1>4, Zenon DEF Human!PassportLoaded, CenterOwn, Human!People, Proven
  <2>2. /\ local' \in [Human!People -> {"none", "fresh", "old"}] /\ card' \in Cards
        /\ card'.of = Me
        /\ \/ UNCHANGED <<local, card>>
           \/ local'[Me] = "fresh"
    BY <1>0, <1>4, <2>1, ZenonT(30) DEF Human!PassportLoaded, Cards
  <2>3. Human!TypeOK'
    BY <1>4, <2>2, Zenon DEF Human!PassportLoaded, Human!TypeOK, Cards
  <2>4. Human!CardShowsOwner'
    BY <1>4, <2>1, <2>2, Zenon DEF Human!PassportLoaded, Human!CardShowsOwner
  <2> QED
    BY <1>4, <2>2, <2>3, <2>4, Zenon DEF Human!PassportLoaded, CenterOwn, OneCeremony
<1>5. CASE Human!PassportFails
  <2>1. Human!TypeOK'
    BY <1>5, Zenon DEF Human!PassportFails, Human!TypeOK
  <2> QED
    BY <1>5, <2>1, Zenon DEF Human!PassportFails, CenterOwn, OneCeremony, Human!CardShowsOwner
<1> QED
  BY <1>1, <1>2, <1>3, <1>4, <1>5, Zenon

(* The dialog opens, takes the phrase and is closed.                       *)
LEMMA HumanDialog ==
  ASSUME Proven, HumanInv, Human!OpenDialog \/ Human!TypePhrase \/ Human!CloseDialog
  PROVE  HumanInv'
<1> USE DEF HumanInv
<1>0. /\ dialog \in Dialogs /\ ref \in 0..MaxWorkers
      /\ workers \in [Human!Workers -> {"idle", "run", "save", "end"}]
  BY Zenon DEF Human!TypeOK, Dialogs
<1>1. CASE Human!OpenDialog
  <2>1. dialog' \in Dialogs /\ ghost' \in BOOLEAN /\ ~dialog'.running
    BY <1>1, Zenon DEF Human!OpenDialog, Human!Closed, Dialogs
  <2>2. Human!TypeOK'
    BY <1>1, <2>1, Zenon DEF Human!OpenDialog, Human!TypeOK, Dialogs
  <2>3. ghost' => ghost /\ \A i \in Human!Workers : workers[i] \notin {"save", "run"}
    BY <1>1, Zenon DEF Human!OpenDialog, OneCeremony
  <2>4. OneCeremony'
    BY <1>1, <2>3, Zenon DEF Human!OpenDialog, OneCeremony
  <2> QED
    BY <1>1, <2>2, <2>4, Zenon DEF Human!OpenDialog, CenterOwn, Human!CardShowsOwner
<1>2. CASE Human!TypePhrase
  <2>1. /\ dialog' \in Dialogs /\ dialog'.show = dialog.show
        /\ dialog'.running = dialog.running
    BY <1>0, <1>2, Zenon DEF Human!TypePhrase, Dialogs
  <2>2. Human!TypeOK'
    BY <1>2, <2>1, Zenon DEF Human!TypePhrase, Human!TypeOK, Dialogs
  <2> QED
    BY <1>2, <2>1, <2>2, Zenon DEF Human!TypePhrase, CenterOwn, OneCeremony, Human!CardShowsOwner
<1>3. CASE Human!CloseDialog
  <2>1. /\ dialog' \in Dialogs /\ ~dialog'.show
        /\ workers' \in [Human!Workers -> {"idle", "run", "save", "end"}]
    BY <1>0, <1>3, Zenon DEF Human!CloseDialog, Dialogs
  <2>2. ref' \in 0..MaxWorkers
    BY <1>3 DEF Human!CloseDialog, Proven, Human!ProofAssumption
  <2>3. Human!TypeOK'
    BY <1>3, <2>1, <2>2, Zenon DEF Human!CloseDialog, Human!TypeOK, Dialogs
  <2>4. ghost' => \A i \in Human!Workers : workers'[i] # "run"
    BY <1>3, Zenon DEF Human!CloseDialog, OneCeremony
  <2> QED
    BY <1>3, <2>1, <2>3, <2>4, Zenon DEF Human!CloseDialog, CenterOwn, OneCeremony,
                                  Human!CardShowsOwner
<1> QED
  BY <1>1, <1>2, <1>3, Zenon

(* A result is taken over whether the node stored it or not.               *)
LEMMA HumanVerified ==
  ASSUME Proven, HumanInv, NEW i \in Human!Workers, workers[i] = "save",
         workers' = [workers EXCEPT ![i] = "end"], node' \in BOOLEAN,
         Human!OnVerified([local EXCEPT ![Me] = "fresh"]), UNCHANGED <<summary, ghost>>
  PROVE  HumanInv'
<1> USE DEF HumanInv
<1> DEFINE l == [local EXCEPT ![Me] = "fresh"]
<1>0. /\ summary \subseteq Human!People /\ card.of \in Human!People \cup {None}
      /\ l \in [Human!People -> {"none", "fresh", "old"}] /\ dialog \in Dialogs
      /\ workers \in [Human!Workers -> {"idle", "run", "save", "end"}]
  BY Zenon DEF Human!TypeOK, Dialogs
<1>1. card' = Human!CardOf(l, card.of) /\ local' = Human!Stored(l, card.of)
  BY Zenon DEF Human!OnVerified
<1>2. /\ card' \in Cards /\ card'.of = card.of
      /\ local' \in [Human!People -> {"none", "fresh", "old"}]
      /\ Human!CardShowsOwner'
  <2> HIDE DEF l
  <2> QED
    BY <1>0, <1>1, ChosenCard, Zenon
<1>3. dialog' \in Dialogs /\ ~dialog'.show
  BY <1>0, Zenon DEF Human!OnVerified, Dialogs
<1>4. ref' \in 0..MaxWorkers
  BY DEF Human!OnVerified, Proven, Human!ProofAssumption
<1>5. loading' = Center /\ loading' \in BOOLEAN
  BY Zenon DEF Human!OnVerified, Proven, Human!ProofAssumption
<1>6. Human!TypeOK'
  BY <1>0, <1>2, <1>3, <1>4, <1>5, Zenon DEF Human!TypeOK, Cards, Dialogs
<1>7. ghost => \A j \in Human!Workers : workers'[j] # "run"
  BY <1>0, Zenon DEF OneCeremony
<1> QED
  BY <1>2, <1>3, <1>5, <1>6, <1>7, Zenon DEF CenterOwn, OneCeremony

(* A ceremony starts, reaches its deadline, fails, or its result arrives.  *)
LEMMA HumanWorker ==
  ASSUME Proven, HumanInv, NEW i \in Human!Workers,
         Human!StartProof(i) \/ Human!WorkerGoesOn(i)
  PROVE  HumanInv'
<1> USE DEF HumanInv
<1>0. /\ dialog \in Dialogs /\ i \in 0..MaxWorkers
      /\ workers \in [Human!Workers -> {"idle", "run", "save", "end"}]
  <2>1. i \in 0..MaxWorkers
    BY DEF Human!Workers, Proven, Human!ProofAssumption
  <2> QED
    BY <2>1, Zenon DEF Human!TypeOK, Dialogs
<1>1. CASE Human!StartProof(i)
  <2>1. /\ dialog' \in Dialogs /\ dialog'.show /\ dialog'.running
        /\ workers' \in [Human!Workers -> {"idle", "run", "save", "end"}]
    BY <1>0, <1>1, Zenon DEF Human!StartProof, Dialogs
  <2>2. Human!TypeOK'
    BY <1>0, <1>1, <2>1, Zenon DEF Human!StartProof, Human!TypeOK, Dialogs
  <2>3. ghost => \A j \in Human!Workers : workers[j] \notin {"run", "save"}
    BY <1>1, Zenon DEF Human!StartProof, OneCeremony
  <2>4. OneCeremony'
    BY <1>0, <1>1, <2>1, <2>3, Zenon DEF Human!StartProof, OneCeremony
  <2> QED
    BY <1>1, <2>2, <2>4, Zenon DEF Human!StartProof, CenterOwn, Human!CardShowsOwner
<1>2. CASE Human!WorkerDone(i)
  <2>1. Human!TypeOK'
    BY <1>2, Zenon DEF Human!WorkerDone, Human!TypeOK
  <2>2. OneCeremony'
    BY <1>0, <1>2, Zenon DEF Human!WorkerDone, OneCeremony
  <2> QED
    BY <1>2, <2>1, <2>2, Zenon DEF Human!WorkerDone, CenterOwn, Human!CardShowsOwner
<1>3. CASE Human!WorkerError(i)
  <2>1. dialog' \in Dialogs /\ dialog'.show = dialog.show /\ ~dialog'.running
    BY <1>0, <1>3, Zenon DEF Human!WorkerError, Dialogs
  <2>2. ref' \in 0..MaxWorkers
    BY <1>3 DEF Human!WorkerError, Proven, Human!ProofAssumption
  <2>3. Human!TypeOK'
    BY <1>3, <2>1, <2>2, Zenon DEF Human!WorkerError, Human!TypeOK, Dialogs
  <2>4. OneCeremony'
    BY <1>0, <1>3, Zenon DEF Human!WorkerError, OneCeremony
  <2> QED
    BY <1>3, <2>3, <2>4, Zenon DEF Human!WorkerError, CenterOwn, Human!CardShowsOwner
<1>4. CASE Human!ProofSaved(i)
  BY <1>4, HumanVerified, Zenon DEF Human!ProofSaved
<1>5. CASE Human!ProofNotSaved(i)
  <2>1. node' \in BOOLEAN
    BY <1>5, Zenon DEF Human!ProofNotSaved, Human!TypeOK
  <2> QED
    BY <1>5, <2>1, HumanVerified, Zenon DEF Human!ProofNotSaved
<1> QED
  BY <1>1, <1>2, <1>3, <1>4, <1>5, Zenon DEF Human!WorkerGoesOn

(* Every step keeps the invariant.                                         *)
LEMMA HumanNext == ASSUME Proven, HumanInv, [Human!Next]_(Human!vars) PROVE HumanInv'
<1>1. CASE UNCHANGED Human!vars
  BY <1>1 DEF Human!vars, HumanInv, Human!TypeOK, CenterOwn, OneCeremony,
              Human!CardShowsOwner
<1> QED
  BY <1>1, HumanCard, HumanDialog, HumanWorker, Zenon DEF Human!Next

(* The card never shows one person's proof for another, although answers   *)
(* of the node and of ceremonies arrive when another profile may be open   *)
(* (GsnPane.jsx, SecurityCenter.jsx, humanProof.js).                       *)
THEOREM HumanCardOwner == ASSUME Proven PROVE Human!Spec => []Human!CardShowsOwner
<1>1. HumanInv => Human!CardShowsOwner
  BY Zenon DEF HumanInv
<1>2. Human!Init => HumanInv
  BY HumanInit, Zenon
<1>3. HumanInv /\ [Human!Next]_(Human!vars) => HumanInv'
  BY HumanNext, Zenon
<1> QED
  BY <1>1, <1>2, <1>3, PTL DEF Human!Spec

(* Closing the dialog stops the ceremony, unless it was opened again while *)
(* the result of an earlier one was on its way (HumanProofDialog.jsx).     *)
THEOREM HumanClosedStops == ASSUME Proven PROVE Human!Spec => []Human!ClosedStops
<1>1. HumanInv => Human!ClosedStops
  BY Zenon DEF HumanInv, OneCeremony, Human!ClosedStops
<1>2. Human!Init => HumanInv
  BY HumanInit, Zenon
<1>3. HumanInv /\ [Human!Next]_(Human!vars) => HumanInv'
  BY HumanNext, Zenon
<1> QED
  BY <1>1, <1>2, <1>3, PTL DEF Human!Spec
===============================================================================
