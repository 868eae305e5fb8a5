----------------------------- MODULE Governance -----------------------------
(***************************************************************************)
(* The node's abuse governance (Backend/governance/service.go): reviews    *)
(* that reach a consensus, appeals and their resolution, and the one-time  *)
(* disclosure key.  Handlers run concurrently, one SQL statement per step; *)
(* only ReviewCase holds the service's mutex.  All cases report the same   *)
(* channel.  A crash ends every handler and loses the mutex.               *)
(***************************************************************************)
EXTENDS Naturals, FiniteSets, FiniteSetsExt

CONSTANTS Cases, None,
          Reviewers,   \* identities with the trusted_reviewer role
          Seniors,     \* those of them who are senior_reviewer as well
          UserCount,   \* active users of the node
          Recommendations, Severities,
          Ops,         \* the handlers called: "review", "appeal", "resolve", "consume"
          MaxCalls,    \* bound: handler calls
          Crashes      \* the node may crash once

ASSUME GovernanceAssumption ==
    /\ Seniors \subseteq Reviewers /\ {UserCount, MaxCalls} \subseteq Nat /\ Crashes \in BOOLEAN
    /\ None \notin 1..MaxCalls
    /\ Recommendations \subseteq {"suspend", "quarantine", "timeout", "warn", "reject"}
    /\ Severities \subseteq {"low", "medium", "high", "critical"}
    /\ Ops \subseteq {"review", "appeal", "resolve", "consume"}

VARIABLES status,    \* abuse_cases.status
          reviews,   \* abuse_reviews
          appeals,   \* abuse_appeals
          actions,   \* abuse_actions of the channel
          suspended, \* public_channels.is_suspended
          grant,     \* the disclosure key: its status and how often it was handed out
          mu,        \* the call that holds the mutex
          calls,     \* handlers under way
          count, ghost
vars == <<status, reviews, appeals, actions, suspended, grant, mu, calls, count, ghost>>

Status == {"new", "actioned", "appealed", "closed"}
Types == {"suspend", "quarantine", "timeout", "warn"}
TypeOK ==
    /\ status \in [Cases -> Status]
    /\ \A r \in reviews : /\ r.case \in Cases /\ r.by \in Reviewers
                          /\ r.rec \in Recommendations /\ r.sev \in Severities
    /\ \A a \in appeals : /\ a.case \in Cases /\ a.status \in {"pending", "accepted", "rejected"}
                          /\ a.by \in Seniors \cup {None}
    /\ \A a \in actions : a.case \in Cases /\ a.type \in Types
    /\ suspended \in BOOLEAN
    /\ grant \in [active : BOOLEAN, uses : 0..MaxCalls]
    /\ mu \in (1..MaxCalls) \cup {None}
    /\ \A c \in calls : c.n \in 1..count /\ c.op \in Ops /\ c.case \in Cases
    /\ count \in 0..MaxCalls
    /\ ghost \in [crashed : BOOLEAN, conflict : BOOLEAN, twice : BOOLEAN, acted : SUBSET Cases]

Init ==
    /\ status = [c \in Cases |-> "new"] /\ reviews = {} /\ appeals = {} /\ actions = {}
    /\ suspended = FALSE /\ grant = [active |-> TRUE, uses |-> 0]
    /\ mu = None /\ calls = {} /\ count = 0
    /\ ghost = [crashed |-> FALSE, conflict |-> FALSE, twice |-> FALSE, acted |-> {}]

(* ----------------------------- the thresholds --------------------------- *)
CeilDiv(a, b) == (a + b - 1) \div b
ReviewerSeatLimit(users) == Min({CeilDiv(users * 4, 10), users})
MinReviewers(users) ==
    LET seats == ReviewerSeatLimit(users)
    IN IF seats = 0 THEN 1 ELSE Min({Max({CeilDiv(seats, 2), 2}), seats})
MinWeightedPoints(users) == Max({ReviewerSeatLimit(users) * 2, 4})
SeverityWeight(s) ==
    CASE s = "critical" -> 4 [] s = "high" -> 3 [] s = "medium" -> 2 [] OTHER -> 1

Votes(c) == {r \in reviews : r.case = c /\ r.rec \in Types}
Voters(votes) == {r.by : r \in votes}
Points(votes) == MapThenSumSet(LAMBDA r : SeverityWeight(r.sev), votes)

(* consensusActionType: the most votes, the graver type on a tie. *)
Priority(t) ==
    CASE t = "suspend" -> 4 [] t = "timeout" -> 3 [] t = "quarantine" -> 2 [] OTHER -> 1
ConsensusActionType(votes) ==
    LET n(t) == Cardinality({r \in votes : r.rec = t})
    IN CHOOSE t \in {r.rec : r \in votes} :
          \A u \in {r.rec : r \in votes} :
              n(t) > n(u) \/ (n(t) = n(u) /\ Priority(t) >= Priority(u))

(* ------------------------------- handlers ------------------------------- *)
Call ==
    \E op \in Ops, c \in Cases :
        \E who \in CASE op = "review" -> Reviewers [] op = "resolve" -> Seniors [] OTHER -> {None},
           rec \in IF op = "review" THEN Recommendations ELSE {None},
           sev \in IF op = "review" THEN Severities ELSE {None},
           accept \in IF op = "resolve" THEN BOOLEAN ELSE {FALSE} :
            /\ count < MaxCalls /\ count' = count + 1
            /\ calls' = calls \cup {[n |-> count', op |-> op, case |-> c, who |-> who, rec |-> rec,
                                     sev |-> sev, accept |-> accept, pc |-> "begin", seen |-> None]}
            /\ UNCHANGED <<status, reviews, appeals, actions, suspended, grant, mu, ghost>>

At(c, op, pc) == c \in calls /\ c.op = op /\ c.pc = pc
Goes(c, pc) == calls' = (calls \ {c}) \cup {[c EXCEPT !.pc = pc]}
Ends(c) == calls' = calls \ {c}

(* ReviewCase: takes the mutex, reads the case and the reviews.            *)
(* Deviant: the mutex is not waited for.                                   *)
Reviewed(c) == \E r \in reviews : r.case = c.case /\ r.by = c.who
ReviewBeginUnlocked(c) ==
    /\ At(c, "review", "begin") /\ mu' = c.n
    /\ IF Reviewed(c) THEN Ends(c)
       ELSE calls' = (calls \ {c}) \cup {[c EXCEPT !.pc = "insert", !.seen = status[c.case]]}
    /\ UNCHANGED <<status, reviews, appeals, actions, suspended, grant, count, ghost>>
ReviewBegin(c) ==
    /\ At(c, "review", "begin") /\ mu = None
    /\ IF Reviewed(c) THEN Ends(c) /\ UNCHANGED mu
       ELSE /\ mu' = c.n
            /\ calls' = (calls \ {c}) \cup {[c EXCEPT !.pc = "insert", !.seen = status[c.case]]}
    /\ UNCHANGED <<status, reviews, appeals, actions, suspended, grant, count, ghost>>

ReviewInsert(c) ==
    /\ At(c, "review", "insert") /\ Goes(c, "weigh")
    /\ reviews' = reviews \cup {[n |-> c.n, case |-> c.case, by |-> c.who, rec |-> c.rec, sev |-> c.sev]}
    /\ UNCHANGED <<status, appeals, actions, suspended, grant, mu, count, ghost>>

(* The threshold; the status is the one read at the beginning.  Deviant:   *)
(* the status is not looked at.                                            *)
ConsensusAgain(c) ==
    /\ Cardinality(Voters(Votes(c.case))) >= MinReviewers(UserCount)
    /\ Points(Votes(c.case)) >= MinWeightedPoints(UserCount)
Consensus(c) ==
    /\ Cardinality(Voters(Votes(c.case))) >= MinReviewers(UserCount)
    /\ Points(Votes(c.case)) >= MinWeightedPoints(UserCount)
    /\ c.seen = "new"
ReviewWeigh(c) ==
    /\ At(c, "review", "weigh")
    /\ IF Consensus(c)
       THEN Goes(c, "enforce") /\ status' = [status EXCEPT ![c.case] = "actioned"] /\ UNCHANGED mu
       ELSE Ends(c) /\ mu' = None /\ UNCHANGED status
    /\ ghost' = IF Consensus(c) THEN [ghost EXCEPT !.acted = @ \cup {c.case}, !.twice = @ \/ c.case \in ghost.acted]
                                ELSE ghost
    /\ UNCHANGED <<reviews, appeals, actions, suspended, grant, count>>
ReviewEnforce(c) ==
    /\ At(c, "review", "enforce") /\ Goes(c, "record")
    /\ suspended' = (suspended \/ ConsensusActionType(Votes(c.case)) \in {"suspend", "quarantine"})
    /\ UNCHANGED <<status, reviews, appeals, actions, grant, mu, count, ghost>>
ReviewRecord(c) ==
    /\ At(c, "review", "record") /\ Ends(c) /\ mu' = None
    /\ actions' = actions \cup {[n |-> c.n, case |-> c.case, type |-> ConsensusActionType(Votes(c.case))]}
    /\ UNCHANGED <<status, reviews, appeals, suspended, grant, count, ghost>>

(* AppealCase: looks for an appeal, inserts one, sets the status. *)
AppealBegin(c) ==
    /\ At(c, "appeal", "begin")
    /\ IF \E a \in appeals : a.case = c.case THEN Ends(c) ELSE Goes(c, "insert")
    /\ UNCHANGED <<status, reviews, appeals, actions, suspended, grant, mu, count, ghost>>
AppealInsert(c) ==
    /\ At(c, "appeal", "insert") /\ Goes(c, "status")
    /\ appeals' = appeals \cup {[n |-> c.n, case |-> c.case, status |-> "pending", by |-> None]}
    /\ UNCHANGED <<status, reviews, actions, suspended, grant, mu, count, ghost>>
AppealStatus(c) ==
    /\ At(c, "appeal", "status") /\ Ends(c)
    /\ status' = [status EXCEPT ![c.case] = "appealed"]
    /\ UNCHANGED <<reviews, appeals, actions, suspended, grant, mu, count, ghost>>

(* ResolveAppeal: reads the first appeal and the reviews, decides every    *)
(* appeal of the case, closes the case and, if accepted, lifts the         *)
(* suspension and deletes the channel's actions.                           *)
FirstAppeal(c) == CHOOSE a \in appeals : a.case = c.case /\ \A b \in appeals : b.case = c.case => a.n <= b.n
ResolveBegin(c) ==
    /\ At(c, "resolve", "begin")
    /\ IF (\E a \in appeals : a.case = c.case) /\ FirstAppeal(c).status = "pending" /\ ~Reviewed(c)
       THEN Goes(c, "decide") ELSE Ends(c)
    /\ UNCHANGED <<status, reviews, appeals, actions, suspended, grant, mu, count, ghost>>
ResolveDecide(c) ==
    /\ At(c, "resolve", "decide") /\ Goes(c, "close")
    /\ appeals' = {IF a.case = c.case
                   THEN [a EXCEPT !.status = IF c.accept THEN "accepted" ELSE "rejected", !.by = c.who]
                   ELSE a : a \in appeals}
    /\ ghost' = [ghost EXCEPT !.conflict = @ \/ Reviewed(c)]
    /\ UNCHANGED <<status, reviews, actions, suspended, grant, mu, count>>
(* Deviant: the decision is written where the case's status belongs. *)
ResolveCloseDecision(c) ==
    /\ At(c, "resolve", "close")
    /\ status' = [status EXCEPT ![c.case] = IF c.accept THEN "closed" ELSE "rejected"]
    /\ IF c.accept THEN Goes(c, "lift") ELSE Ends(c)
    /\ UNCHANGED <<reviews, appeals, actions, suspended, grant, mu, count, ghost>>
ResolveClose(c) ==
    /\ At(c, "resolve", "close")
    /\ status' = [status EXCEPT ![c.case] = "closed"]
    /\ IF c.accept THEN Goes(c, "lift") ELSE Ends(c)
    /\ UNCHANGED <<reviews, appeals, actions, suspended, grant, mu, count, ghost>>
ResolveLift(c) ==
    /\ At(c, "resolve", "lift") /\ Goes(c, "delete")
    /\ suspended' = FALSE
    /\ UNCHANGED <<status, reviews, appeals, actions, grant, mu, count, ghost>>
ResolveDelete(c) ==
    /\ At(c, "resolve", "delete") /\ Ends(c)
    /\ actions' = {}
    /\ UNCHANGED <<status, reviews, appeals, suspended, grant, mu, count, ghost>>

(* ConsumeGaiasEyesGrant: reads the key, then marks it used if it is still *)
(* active, and hands the package out.  Deviant: marked whatever it is.     *)
ConsumeBegin(c) ==
    /\ At(c, "consume", "begin")
    /\ IF grant.active THEN Goes(c, "mark") ELSE Ends(c)
    /\ UNCHANGED <<status, reviews, appeals, actions, suspended, grant, mu, count, ghost>>
ConsumeMarkAnyway(c) ==
    /\ At(c, "consume", "mark") /\ Ends(c)
    /\ grant' = [active |-> FALSE, uses |-> grant.uses + 1]
    /\ UNCHANGED <<status, reviews, appeals, actions, suspended, mu, count, ghost>>
ConsumeMark(c) ==
    /\ At(c, "consume", "mark") /\ Ends(c)
    /\ grant' = IF grant.active THEN [active |-> FALSE, uses |-> grant.uses + 1] ELSE grant
    /\ UNCHANGED <<status, reviews, appeals, actions, suspended, mu, count, ghost>>

Step(c) ==
    \/ ReviewBegin(c) \/ ReviewInsert(c) \/ ReviewWeigh(c) \/ ReviewEnforce(c) \/ ReviewRecord(c)
    \/ AppealBegin(c) \/ AppealInsert(c) \/ AppealStatus(c)
    \/ ResolveBegin(c) \/ ResolveDecide(c) \/ ResolveClose(c) \/ ResolveLift(c) \/ ResolveDelete(c)
    \/ ConsumeBegin(c) \/ ConsumeMark(c)

Crash ==
    /\ Crashes /\ ~ghost.crashed
    /\ ghost' = [ghost EXCEPT !.crashed = TRUE] /\ calls' = {} /\ mu' = None
    /\ UNCHANGED <<status, reviews, appeals, actions, suspended, grant, count>>

(* The n-th call goes on. *)
HandlerRuns(n) == \E c \in calls : c.n = n /\ Step(c)

Next == Call \/ Crash \/ \E c \in calls : Step(c)

Spec == Init /\ [][Next]_vars

----------------------------------------------------------------------------
(* No reviewer has two reviews of one case, however their requests overlap *)
(* and whenever the node restarts ("already reviewed this case").          *)
ReviewedOnce ==
    \A r, s \in reviews : r.case = s.case /\ r.by = s.by => r = s

(* A case is acted on at most once, although every later review weighs the *)
(* same votes again.                                                       *)
ActionedOnce == ~ghost.twice

(* A disclosure key is handed out at most once.                            *)
KeyUsedOnce == grant.uses <= 1

(* A case has at most one appeal ("appeal already submitted for this case"). *)
AppealSingle == \A a, b \in appeals : a.case = b.case => a = b

(* Nobody decides the appeal of a case they have reviewed ("reviewer has   *)
(* conflict of interest").                                                 *)
NoConflict == ~ghost.conflict

(* A case is acted on with at least the two reviews the operator's panel   *)
(* names as the threshold.                                                 *)
TwoReviews == \A a \in actions : Cardinality(Voters(Votes(a.case))) >= 2

(* A call is under way or the mutex is taken. *)
Busy == calls # {} \/ mu # None
=============================================================================
