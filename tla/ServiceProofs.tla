--------------------------- MODULE ServiceProofs ---------------------------
(***************************************************************************)
(* No step that asks the gate lets a landing leave pending except on the   *)
(* verdict our reviewers delivered last, for any reviews, landings, heads, *)
(* dependencies and requests.                                              *)
(*                                                                         *)
(* The gate does not look at that verdict: it looks at the row of the      *)
(* review that is last by updated_at.  As long as no completed review is   *)
(* written to, that row is either ours, and then its body is the verdict   *)
(* delivered last, or a foreign one, whose head no landing of ours names   *)
(* (Latest).  What _trigger_downstream has decided on stays so until it is *)
(* written, because only the event loop completes reviews (Decided).       *)
(*                                                                         *)
(* No issue of the backlog is in two bundles that claim it, while one      *)
(* cycle runs at a time.  The view a batch is planned on is old when it is *)
(* published; it still covers every bundle that claims an issue of the     *)
(* backlog (Covers), because a bundle never begins to claim again and the  *)
(* webhook bundles band 0 only, and the plans share nothing with it nor    *)
(* with each other (InPlans).                                              *)
(*                                                                         *)
(* A drift that has lasted for max_age_s is told: the age in the book is   *)
(* the episode's, and the alert it noted last was told or is being told    *)
(* (MoBooked).                                                             *)
(***************************************************************************)
EXTENDS Gates, Intake, Monitors, Integers, FiniteSetTheorems, TLAPS

USE GtAssumption

GtStatuses == GtTerminal \cup {"none", "pending", "ready", "running", "blocked"}
GtVerdicts == [form : {"bare", "label", "line", "promoted"},
               verdict : {"none", "PASS", "NEEDS-CHANGES", "NOT-READY"},
               sha : GtHeads \cup {0, 9}]
GtBallots == [ask : {"none", "plain", "ref", "malformed"},
              formal : {"none", "formal-resolvable", "needs-actuation"}]
GtRecs == [st : GtStatuses, body : GtVerdicts, tries : Nat, ballot : GtBallots,
           on : BOOLEAN, lease : BOOLEAN, held : BOOLEAN]
GtTables == [GtRows -> GtRecs]

(* The rows have their types, and what is decided is about one of them.    *)
GtTypeInv ==
    /\ gtRow \in GtTables
    /\ gtTodo \subseteq GtRows
    /\ gtNow = GtNothing \/ gtNow \in [land : GtRows, to : {"ready"}]
    /\ gtTouched \in BOOLEAN

(* The review that is last is ours, with the verdict delivered last, or    *)
(* foreign, with a head that is not ours.                                  *)
Latest ==
    /\ gtOrder \in Seq(GtReviews)
    /\ \A i \in DOMAIN gtOrder : gtRow[gtOrder[i]].st = "completed"
    /\ gtOrder # <<>> =>
         LET x == gtOrder[Len(gtOrder)]
         IN  IF x \in GtForeign THEN gtRow[x].body.sha \in {0, 9} ELSE gtRow[x].body = gtLast

(* A landing may go on the verdict delivered last. *)
Backed(l) == gtLast.verdict = "PASS" /\ gtLast.sha \in GtNames[l]

Decided == gtNow # GtNothing =>
    /\ gtRow[gtNow.land].st # "completed"
    /\ gtNow.land \in GtLands => gtTouched \/ Backed(gtNow.land)

GtInv == GtTypeInv /\ (gtTouched \/ Latest) /\ Decided

----------------------------------------------------------------------------
(* The gate *)

(* A gate that looks at rows in which no completed review differs from the *)
(* board's lets a landing pass only if it is backed.                       *)
LEMMA GateHolds ==
  ASSUME GtTypeInv, Latest, NEW rows \in GtTables, NEW l \in GtLands, ~hold_reason(rows, l),
         \A x \in GtReviews : gtRow[x].st = "completed" => rows[x] = gtRow[x]
  PROVE  Backed(l)
<1> DEFINE done == {i \in DOMAIN gtOrder : _reviewer_of(rows, gtOrder[i])}
           last == CHOOSE i \in done : \A j \in done : j <= i
           v == latest_reviewer_verdict(rows)
<1>1. gtOrder \in Seq(GtReviews) /\ DOMAIN gtOrder = 1..Len(gtOrder) /\ Len(gtOrder) \in Nat
  BY DEF Latest
<1>2. \A i \in DOMAIN gtOrder : gtOrder[i] \in GtReviews /\ rows[gtOrder[i]] = gtRow[gtOrder[i]]
  BY <1>1 DEF Latest
<1>3. done = 1..Len(gtOrder)
  BY <1>1, <1>2 DEF _reviewer_of, Latest
<1>4. v.verdict = "PASS" /\ v.sha # 0 /\ v.sha \in GtNames[l]
  BY DEF hold_reason, landing_artifact
<1>5. done # {}
  <2> SUFFICES ASSUME done = {} PROVE FALSE
    OBVIOUS
  <2>1. v = GtNobody
    BY DEF latest_reviewer_verdict
  <2> QED BY <1>4, <2>1 DEF GtNobody
<1>6. Len(gtOrder) > 0 /\ gtOrder # <<>>
  BY <1>1, <1>3, <1>5
<1>7. last = Len(gtOrder)
  <2>1. Len(gtOrder) \in done /\ \A j \in done : j <= Len(gtOrder)
    BY <1>1, <1>3, <1>6
  <2>2. last \in done /\ \A j \in done : j <= last
    <3> HIDE DEF done
    <3> QED BY <2>1
  <2> QED BY <1>1, <1>3, <2>1, <2>2
<1> DEFINE x == gtOrder[Len(gtOrder)]
<1>8. x \in GtReviews /\ rows[x] = gtRow[x]
  BY <1>1, <1>2, <1>6
<1>9. v = parse_reviewer_verdict(gtRow[x].body)
  <2>1. v = parse_reviewer_verdict(rows[gtOrder[last]].body)
    BY <1>5 DEF latest_reviewer_verdict
  <2> HIDE DEF last, v
  <2> QED BY <1>7, <1>8, <2>1
<1>10. v = gtRow[x].body
  BY <1>4, <1>9 DEF parse_reviewer_verdict, GtNobody
<1>11. GtNames[l] \subseteq GtHeads
  OBVIOUS
<1>12. x \notin GtForeign
  <2>1. x \in GtForeign => gtRow[x].body.sha \in {0, 9}
    BY <1>6 DEF Latest
  <2> HIDE DEF x, v
  <2> QED BY <1>4, <1>10, <1>11, <2>1
<1>13. gtRow[x].body = gtLast
  BY <1>6, <1>12 DEF Latest
<1> QED BY <1>4, <1>10, <1>13 DEF Backed

(* The sweep makes a pending row ready only through the gate. *)
LEMMA SweepEffect ==
  ASSUME NEW rows \in GtTables
  PROVE  /\ trigger_pending_tasks(rows) \in GtTables
         /\ \A y \in GtRows :
              \/ trigger_pending_tasks(rows)[y] = rows[y]
              \/ rows[y].st = "pending" /\ ~hold_reason(rows, y)
<1>1. \A x \in GtRows : [rows[x] EXCEPT !.st = "ready"] \in GtRecs
  BY DEF GtTables, GtRecs, GtStatuses
<1>2. \A x \in GtRows : rows[x] \in GtRecs
  BY DEF GtTables
<1>3. trigger_pending_tasks(rows) \in GtTables
  BY <1>1, <1>2 DEF trigger_pending_tasks, GtTables
<1>4. \A y \in GtRows : trigger_pending_tasks(rows)[y] =
        IF rows[y].st = "pending" /\ DepsDone(rows, y) /\ ~hold_reason(rows, y)
        THEN [rows[y] EXCEPT !.st = "ready"] ELSE rows[y]
  BY DEF trigger_pending_tasks
<1> QED BY <1>3, <1>4

----------------------------------------------------------------------------
(* What the steps do to the rows: the types stay, a completed review keeps *)
(* its status and body, and a step that asks the gate lets a landing leave pending *)
(* for ready only if backed.                                               *)

RowsKept == \A x \in GtReviews : gtRow[x].st = "completed" =>
                gtRow'[x].st = "completed" /\ gtRow'[x].body = gtRow[x].body
LandsBacked == \A l \in GtLands :
    gtRow[l].st = "pending" /\ gtRow'[l].st = "ready" => Ungated(l) \/ gtTouched \/ Backed(l)
Proper == gtRow' \in GtTables /\ RowsKept /\ LandsBacked

(* Writing a status to a row, and what goes with it. *)
LEMMA RowWrite ==
  ASSUME NEW rows \in GtTables, NEW x \in GtRows, NEW st \in GtStatuses
  PROVE  /\ [rows EXCEPT ![x].st = st] \in GtTables
         /\ \A y \in GtRows \ {x} : [rows EXCEPT ![x].st = st][y] = rows[y]
         /\ [rows EXCEPT ![x].st = st][x].st = st
         /\ [rows EXCEPT ![x].st = st][x].body = rows[x].body
<1>1. rows[x] \in GtRecs
  BY DEF GtTables
<1>2. [rows[x] EXCEPT !.st = st] \in GtRecs
  BY <1>1 DEF GtRecs
<1>3. [rows EXCEPT ![x].st = st] = [rows EXCEPT ![x] = [rows[x] EXCEPT !.st = st]]
  BY DEF GtTables
<1>4. /\ [rows[x] EXCEPT !.st = st].st = st
      /\ [rows[x] EXCEPT !.st = st].body = rows[x].body
  BY <1>1 DEF GtRecs
<1>5. rows \in [GtRows -> GtRecs]
  BY DEF GtTables
<1> QED BY <1>2, <1>3, <1>4, <1>5 DEF GtTables

(* A row is written that is not reopened, and not made ready if pending.   *)
LEMMA WriteProper ==
  ASSUME GtTypeInv, NEW x \in GtRows, NEW r \in GtRecs, gtRow' = [gtRow EXCEPT ![x] = r],
         gtRow[x].st = "completed" => r.st = "completed" /\ r.body = gtRow[x].body,
         x \in GtLands /\ gtRow[x].st = "pending" /\ r.st = "ready" => Ungated(x) \/ gtTouched \/ Backed(x)
  PROVE  Proper
<1>1. gtRow \in [GtRows -> GtRecs]
  BY DEF GtTypeInv, GtTables
<1>2. gtRow' \in [GtRows -> GtRecs] /\ gtRow'[x] = r /\ \A y \in GtRows \ {x} : gtRow'[y] = gtRow[y]
  BY <1>1
<1>3. RowsKept
  BY <1>2 DEF RowsKept, GtRows
<1>4. LandsBacked
  <2> SUFFICES ASSUME NEW l \in GtLands, gtRow[l].st = "pending", gtRow'[l].st = "ready"
               PROVE  Ungated(l) \/ gtTouched \/ Backed(l)
    BY DEF LandsBacked
  <2>1. l \in GtRows
    BY DEF GtRows
  <2>2. CASE l = x
    BY <1>2, <2>2
  <2>3. CASE l # x
    BY <1>2, <2>1, <2>3
  <2> QED BY <2>2, <2>3
<1> QED BY <1>2, <1>3, <1>4 DEF Proper, GtTables

(* Writing a status with the lease revoked. *)
LEMMA ClosedWrite ==
  ASSUME GtTypeInv, NEW x \in GtRows, NEW st \in GtStatuses
  PROVE  /\ Closed(x, st) \in GtTables
         /\ \A y \in GtRows \ {x} : Closed(x, st)[y] = gtRow[y]
         /\ Closed(x, st)[x] \in GtRecs /\ Closed(x, st)[x].st = st
         /\ Closed(x, st)[x].body = gtRow[x].body
         /\ Closed(x, st) = [gtRow EXCEPT ![x] = Closed(x, st)[x]]
<1>1. gtRow \in [GtRows -> GtRecs] /\ gtRow[x] \in GtRecs
  BY DEF GtTypeInv, GtTables
<1> DEFINE r == [gtRow[x] EXCEPT !.st = st, !.lease = FALSE]
<1>2. r \in GtRecs /\ r.st = st /\ r.body = gtRow[x].body
  BY <1>1 DEF GtRecs
<1>3. Closed(x, st) = [gtRow EXCEPT ![x] = r]
  BY <1>1 DEF Closed
<1> HIDE DEF r
<1>4. Closed(x, st)[x] = r
  BY <1>1, <1>3
<1> QED BY <1>1, <1>2, <1>3, <1>4 DEF GtTables

(* The cascade cancels what is open, and makes nothing ready.              *)
LEMMA CascadeEffect ==
  ASSUME NEW rows \in GtTables, NEW x \in GtRows
  PROVE  /\ Cascaded(rows, x) \in GtTables
         /\ \A y \in GtRows :
              \/ Cascaded(rows, x)[y] = rows[y]
              \/ /\ rows[y].st # "completed"
                 /\ Cascaded(rows, x)[y].st \in {"cancel_requested", "cancelled"}
<1>1. \A z \in GtRows : rows[z] \in GtRecs
  BY DEF GtTables
<1> DEFINE Ask(z) == Asked(rows[z])
           Cut(z) == [rows[z] EXCEPT !.st = Ask(z), !.lease = FALSE]
<1>2. \A z \in GtRows : Cut(z) \in GtRecs /\ Cut(z).st = Ask(z)
  BY <1>1 DEF GtRecs, GtStatuses, GtTerminal, GtClosed, Asked
<1>3. Cascaded(rows, x) = [z \in GtRows |->
        IF x \in GtDeps[z] /\ rows[z].st \notin GtTerminal \cup {"none"}
        THEN Cut(z) ELSE rows[z]]
  BY DEF Cascaded
<1>4. \A z \in GtRows : Ask(z) \in {"cancel_requested", "cancelled"}
  BY DEF Asked
<1> HIDE DEF Ask, Cut
<1>5. Cascaded(rows, x) \in GtTables
  BY <1>1, <1>2, <1>3 DEF GtTables
<1>6. ASSUME NEW y \in GtRows
      PROVE  \/ Cascaded(rows, x)[y] = rows[y]
             \/ /\ rows[y].st # "completed"
                /\ Cascaded(rows, x)[y].st \in {"cancel_requested", "cancelled"}
  BY <1>2, <1>3, <1>4 DEF GtTerminal, GtClosed
<1> QED BY <1>5, <1>6

(* A row is closed or asked to stop, and its dependents with it. *)
LEMMA CascadeProper ==
  ASSUME GtTypeInv, NEW x \in GtRows, NEW st \in {"failed", "cancelled", "cancel_requested"},
         gtRow' = Cascaded(Closed(x, st), x), gtRow[x].st # "completed"
  PROVE  Proper
<1> DEFINE rows == Closed(x, st)
<1>1. /\ rows \in GtTables /\ rows[x].st = st
      /\ \A y \in GtRows \ {x} : rows[y] = gtRow[y]
  <2>1. st \in GtStatuses
    BY DEF GtStatuses, GtTerminal, GtClosed
  <2> QED BY <2>1, ClosedWrite
<1> HIDE DEF rows
<1>2. /\ gtRow' \in GtTables
      /\ \A y \in GtRows : \/ gtRow'[y] = rows[y]
                           \/ rows[y].st # "completed" /\ gtRow'[y].st \in {"cancel_requested", "cancelled"}
  <2>1. gtRow' = Cascaded(rows, x)
    BY DEF rows
  <2>2. /\ Cascaded(rows, x) \in GtTables
        /\ \A y \in GtRows :
             \/ Cascaded(rows, x)[y] = rows[y]
             \/ /\ rows[y].st # "completed"
                /\ Cascaded(rows, x)[y].st \in {"cancel_requested", "cancelled"}
    BY <1>1, CascadeEffect
  <2> QED BY <2>1, <2>2
<1>3. RowsKept
  BY <1>1, <1>2 DEF RowsKept, GtRows
<1>4. \A l \in GtLands : ~(gtRow[l].st = "pending" /\ gtRow'[l].st = "ready")
  BY <1>1, <1>2 DEF GtRows
<1> QED BY <1>2, <1>3, <1>4 DEF Proper, LandsBacked

(* A sweep over rows that differ from the board's in none that is closed.  *)
LEMMA SweepProper ==
  ASSUME GtInv, NEW rows \in GtTables, gtRow' = trigger_pending_tasks(rows),
         \A y \in GtRows : gtRow[y].st # "none" => rows[y] = gtRow[y]
  PROVE  Proper
<1>1. /\ gtRow' \in GtTables
      /\ \A y \in GtRows : \/ gtRow'[y] = rows[y]
                           \/ rows[y].st = "pending" /\ ~hold_reason(rows, y)
  BY SweepEffect
<1>2. RowsKept
  BY <1>1 DEF RowsKept, GtRows
<1>3. LandsBacked
  <2> SUFFICES ASSUME NEW l \in GtLands, gtRow[l].st = "pending", gtRow'[l].st = "ready", ~gtTouched
               PROVE  Backed(l)
    BY DEF LandsBacked
  <2>1. l \in GtRows /\ rows[l] = gtRow[l]
    BY DEF GtRows
  <2>2. ~hold_reason(rows, l)
    BY <1>1, <2>1
  <2>3. \A x \in GtReviews : gtRow[x].st = "completed" => rows[x] = gtRow[x]
    BY DEF GtRows
  <2> QED BY <2>2, <2>3, GateHolds DEF GtInv
<1> QED BY <1>1, <1>2, <1>3 DEF Proper

----------------------------------------------------------------------------
(* The requests *)

(* Every body a reviewer may deliver is a verdict; a foreign one has no    *)
(* head of ours.                                                           *)
LEMMA Bodies ==
  ASSUME NEW x \in GtReviews, NEW b \in GtBodies(x)
  PROVE  b \in GtVerdicts /\ (x \in GtForeign => b.sha \in {0, 9})
<1> DEFINE heads == IF x \in GtForeign THEN {9} ELSE GtHeads
<1>1. \/ \E v \in {"PASS", "NEEDS-CHANGES"}, h \in heads : b = [form |-> "label", verdict |-> v, sha |-> h]
      \/ b \in {[form |-> "label", verdict |-> "PASS", sha |-> 0],
                [form |-> "line", verdict |-> "PASS", sha |-> 0],
                [form |-> "line", verdict |-> "NOT-READY", sha |-> 0],
                GtNobody}
      \/ \E h \in heads : b = [form |-> "promoted", verdict |-> "PASS", sha |-> h]
  BY DEF GtBodies
<1> QED BY <1>1 DEF GtVerdicts, GtNobody

(* Nothing delivered is a verdict of its kind, too. *)
LEMMA NobodyType == GtNobody \in GtVerdicts
BY DEF GtNobody, GtVerdicts

(* submit_task adds a pending row and sweeps. *)
LEMMA SubmitProper ==
  ASSUME GtInv, NEW x \in GtRows, submit_task(x)
  PROVE  Proper
<1> DEFINE rows == [gtRow EXCEPT ![x].st = "pending"]
<1>1. gtRow \in GtTables /\ "pending" \in GtStatuses
  BY DEF GtInv, GtTypeInv, GtStatuses
<1>2. rows \in GtTables /\ \A y \in GtRows \ {x} : rows[y] = gtRow[y]
  BY <1>1, RowWrite
<1>3. gtRow' = trigger_pending_tasks(rows) /\ gtRow[x].st = "none"
  BY DEF submit_task
<1> HIDE DEF rows
<1> QED BY <1>2, <1>3, SweepProper

(* The requests that write one row, to a status and with a ballot.         *)
LEMMA BallotProper ==
  ASSUME GtInv, NEW x \in GtRows,
         \/ \E ask \in {"plain", "ref", "malformed"} : block_task(x, ask)
         \/ answer_task(x) \/ unblock_task(x) \/ manual_advance(x) \/ claim_task(x)
  PROVE  Proper
<1>0. gtRow \in [GtRows -> GtRecs] /\ gtRow[x] \in GtRecs /\ GtTypeInv
  BY DEF GtInv, GtTypeInv, GtTables
<1>1. ASSUME NEW ask \in {"plain", "ref", "malformed"}, block_task(x, ask)
      PROVE  Proper
  <2>1. PICK b \in build_ballot(ask) : gtRow' = [Closed(x, "blocked") EXCEPT ![x].ballot = b]
    BY <1>1 DEF block_task
  <2>2. b \in GtBallots
    BY DEF build_ballot, GtBallots
  <2> DEFINE r == [gtRow[x] EXCEPT !.st = "blocked", !.lease = FALSE, !.ballot = b]
  <2>3. gtRow' = [gtRow EXCEPT ![x] = r]
    BY <1>0, <2>1 DEF Closed
  <2>4. r \in GtRecs
    BY <1>0, <2>2 DEF GtRecs, GtStatuses
  <2>5. r.st = "blocked"
    BY <1>0 DEF GtRecs
  <2>6. gtRow[x].st # "completed"
    BY <1>1 DEF block_task, GtTerminal, GtClosed
  <2> QED BY <1>0, <2>3, <2>4, <2>5, <2>6, WriteProper
<1>2. ASSUME answer_task(x)
      PROVE  Proper
  <2>1. PICK b \in record_answer(gtRow[x].ballot) : gtRow' = [gtRow EXCEPT ![x].st = "ready", ![x].ballot = b]
    BY <1>2 DEF answer_task
  <2>2. b \in GtBallots
    <3>1. gtRow[x].ballot \in GtBallots
      BY <1>0 DEF GtRecs
    <3> QED BY <3>1 DEF record_answer, GtBallots, formal_actuation
  <2>3. gtRow' = [gtRow EXCEPT ![x] = [gtRow[x] EXCEPT !.st = "ready", !.ballot = b]]
    BY <1>0, <2>1
  <2>4. [gtRow[x] EXCEPT !.st = "ready", !.ballot = b] \in GtRecs
    BY <1>0, <2>2 DEF GtRecs, GtStatuses
  <2>5. gtRow[x].st = "blocked"
    BY <1>2 DEF answer_task
  <2> QED BY <1>0, <2>3, <2>4, <2>5, WriteProper
<1>3. ASSUME unblock_task(x)
      PROVE  Proper
  <2>1. gtRow' = [gtRow EXCEPT ![x] = [gtRow[x] EXCEPT !.st = "pending"]]
    BY <1>0, <1>3 DEF unblock_task
  <2>2. [gtRow[x] EXCEPT !.st = "pending"] \in GtRecs
    BY <1>0 DEF GtRecs, GtStatuses
  <2>3. gtRow[x].st = "blocked"
    BY <1>3 DEF unblock_task
  <2> QED BY <1>0, <2>1, <2>2, <2>3, WriteProper
<1>4. ASSUME manual_advance(x)
      PROVE  Proper
  <2>1. gtRow' = [gtRow EXCEPT ![x] = [gtRow[x] EXCEPT !.st = "ready"]]
    BY <1>0, <1>4 DEF manual_advance
  <2>2. [gtRow[x] EXCEPT !.st = "ready"] \in GtRecs
    BY <1>0 DEF GtRecs, GtStatuses
  <2>3. gtRow[x].st # "completed"
    BY <1>4 DEF manual_advance, GtTerminal, GtClosed
  <2>4. Ungated(x)
    BY <1>4 DEF Ungated
  <2> QED BY <1>0, <2>1, <2>2, <2>3, <2>4, WriteProper
<1>5. ASSUME claim_task(x)
      PROVE  Proper
  <2>1. gtRow' = [gtRow EXCEPT ![x] = [gtRow[x] EXCEPT !.st = "running"]]
    BY <1>0, <1>5 DEF claim_task
  <2>2. /\ [gtRow[x] EXCEPT !.st = "running"] \in GtRecs
        /\ [gtRow[x] EXCEPT !.st = "running"].st = "running"
    BY <1>0 DEF GtRecs, GtStatuses
  <2>3. gtRow[x].st = "ready"
    BY <1>5 DEF claim_task
  <2> QED BY <1>0, <2>1, <2>2, <2>3, WriteProper
<1> QED BY <1>1, <1>2, <1>3, <1>4, <1>5

(* What the other threads do to one row: it is started, loses its lease or *)
(* is re-queued, and is completed only if it was.                          *)
LEMMA ThreadProper ==
  ASSUME GtInv, NEW x \in GtRows, GtStart(x) \/ GtLapse(x) \/ unassign_task(x)
  PROVE  /\ Proper
         /\ gtRow'[x].st = "completed" => gtRow[x].st = "completed"
         /\ \A y \in GtRows \ {x} : gtRow'[y] = gtRow[y]
<1>0. gtRow \in [GtRows -> GtRecs] /\ gtRow[x] \in GtRecs /\ GtTypeInv
  BY DEF GtInv, GtTypeInv, GtTables
<1>1. CASE GtStart(x)
  <2> DEFINE r == [gtRow[x] EXCEPT !.st = "running", !.on = TRUE, !.lease = TRUE, !.held = TRUE]
  <2>1. gtRow' = [gtRow EXCEPT ![x] = r]
    BY <1>0, <1>1 DEF GtStart
  <2>2. r \in GtRecs /\ r.st = "running"
    BY <1>0 DEF GtRecs, GtStatuses
  <2>3. gtRow[x].st = "ready"
    BY <1>1 DEF GtStart
  <2> HIDE DEF r
  <2>4. Proper
    BY <1>0, <2>1, <2>2, <2>3, WriteProper
  <2> QED BY <1>0, <2>1, <2>2, <2>4
<1>2. CASE GtLapse(x)
  <2> DEFINE r == [gtRow[x] EXCEPT !.lease = FALSE]
  <2>1. gtRow' = [gtRow EXCEPT ![x] = r]
    BY <1>0, <1>2 DEF GtLapse
  <2>2. r \in GtRecs /\ r.st = gtRow[x].st /\ r.body = gtRow[x].body
    BY <1>0 DEF GtRecs
  <2> HIDE DEF r
  <2>4. Proper
    BY <1>0, <2>1, <2>2, WriteProper
  <2> QED BY <1>0, <2>1, <2>2, <2>4
<1>3. CASE unassign_task(x)
  <2> DEFINE r == [gtRow[x] EXCEPT !.st = "ready", !.on = FALSE]
  <2>1. gtRow' = [gtRow EXCEPT ![x] = r]
    BY <1>0, <1>3 DEF unassign_task
  <2>2. r \in GtRecs /\ r.st = "ready"
    BY <1>0 DEF GtRecs, GtStatuses
  <2>3. gtRow[x].st # "completed" /\ Ungated(x)
    BY <1>3 DEF unassign_task, GtTerminal, GtClosed, Ungated
  <2> HIDE DEF r
  <2>4. Proper
    BY <1>0, <2>1, <2>2, <2>3, WriteProper
  <2> QED BY <1>0, <2>1, <2>2, <2>4
<1> QED BY <1>1, <1>2, <1>3

(* requeue_task makes a row ready that is not completed, and asks no gate. *)
LEMMA RequeuedProper ==
  ASSUME GtTypeInv, NEW x \in GtRows, gtRow' = Requeued(x), gtRow[x].st # "completed",
         x \in GtLands => Ungated(x)
  PROVE  Proper
<1>0. gtRow \in [GtRows -> GtRecs] /\ gtRow[x] \in GtRecs
  BY DEF GtTypeInv, GtTables
<1> DEFINE r == [gtRow[x] EXCEPT !.st = "ready", !.tries = gtRow[x].tries + 1, !.on = FALSE, !.lease = FALSE]
<1>1. gtRow' = [gtRow EXCEPT ![x] = r]
  BY <1>0 DEF Requeued
<1>2. r \in GtRecs
  <2>1. gtRow[x].tries \in Nat
    BY <1>0 DEF GtRecs
  <2>2. gtRow[x].tries + 1 \in Nat
    BY <2>1
  <2> QED BY <1>0, <2>2 DEF GtRecs, GtStatuses
<1> HIDE DEF r
<1> QED BY <1>1, <1>2, WriteProper

(* The requests that close a row, ask it to stop or re-queue it.           *)
LEMMA CloseProper ==
  ASSUME GtInv, NEW x \in GtRows, fail_task(x) \/ cancel_task(x)
  PROVE  Proper
<1>0. gtRow \in [GtRows -> GtRecs] /\ gtRow[x] \in GtRecs /\ GtTypeInv
  BY DEF GtInv, GtTypeInv, GtTables
<1>1. gtRow[x].st # "completed"
  BY DEF fail_task, cancel_task, GtTerminal, GtClosed
<1>2. CASE gtRow' = [gtRow EXCEPT ![x].st = "cancelled"]
  <2>1. gtRow' = [gtRow EXCEPT ![x] = [gtRow[x] EXCEPT !.st = "cancelled"]]
    BY <1>0, <1>2
  <2>2. /\ [gtRow[x] EXCEPT !.st = "cancelled"] \in GtRecs
        /\ [gtRow[x] EXCEPT !.st = "cancelled"].st = "cancelled"
    BY <1>0 DEF GtRecs, GtStatuses, GtTerminal, GtClosed
  <2> QED BY <1>0, <1>1, <2>1, <2>2, WriteProper
<1>3. CASE gtRow' = Cascaded(Closed(x, "failed"), x)
  BY <1>0, <1>1, <1>3, CascadeProper
<1>4. CASE fail_task(x) /\ gtRow' = Requeued(x)
  <2>1. Ungated(x)
    BY <1>4 DEF Ungated
  <2> QED BY <1>0, <1>1, <1>4, <2>1, RequeuedProper
<1>5. CASE cancel_task(x)
  <2>1. gtRow' = Cascaded(Closed(x, Asked(gtRow[x])), x)
    BY <1>5 DEF cancel_task
  <2>2. Asked(gtRow[x]) \in {"failed", "cancelled", "cancel_requested"}
    BY DEF Asked
  <2> QED BY <1>0, <1>1, <2>1, <2>2, CascadeProper
<1> QED BY <1>2, <1>3, <1>4, <1>5 DEF fail_task

(* A completion that is refused, or acknowledges a cancel.                 *)
LEMMA RefusedProper ==
  ASSUME GtInv, NEW x \in GtRows, gtRow[x].st \notin GtClosed,
         \/ gtRow[x].st = "cancel_requested" /\ gtRow' = Closed(x, "cancelled")
         \/ x \notin GtLands /\ gtRow' = Refused(x)
  PROVE  Proper
<1>0. GtTypeInv /\ gtRow[x].st # "completed"
  BY DEF GtInv, GtClosed
<1>1. CASE gtRow' = Closed(x, "cancelled")
  <2>1. "cancelled" \in GtStatuses
    BY DEF GtStatuses, GtTerminal, GtClosed
  <2>2. /\ gtRow' = [gtRow EXCEPT ![x] = Closed(x, "cancelled")[x]]
        /\ Closed(x, "cancelled")[x] \in GtRecs /\ Closed(x, "cancelled")[x].st = "cancelled"
    BY <1>0, <1>1, <2>1, ClosedWrite
  <2> QED BY <1>0, <2>2, WriteProper
<1>2. CASE x \notin GtLands /\ gtRow' = Requeued(x)
  BY <1>0, <1>2, RequeuedProper
<1>3. CASE gtRow' = Cascaded(Closed(x, "failed"), x)
  BY <1>0, <1>3, CascadeProper
<1> QED BY <1>1, <1>2, <1>3 DEF Refused

(* A step with proper writes that leaves the order, the last verdict and   *)
(* the decision alone.                                                     *)
LEMMA StillInv ==
  ASSUME GtInv, Proper, GtStill, gtNow # GtNothing => gtRow'[gtNow.land].st # "completed"
  PROVE  GtInv'
<1>1. GtTypeInv'
  BY DEF GtInv, GtTypeInv, Proper, GtStill
<1>2. ASSUME Latest PROVE Latest'
  <2>1. \A i \in DOMAIN gtOrder :
          gtRow'[gtOrder[i]].st = "completed" /\ gtRow'[gtOrder[i]].body = gtRow[gtOrder[i]].body
    BY <1>2 DEF Latest, Proper, RowsKept
  <2>2. gtOrder # <<>> => Len(gtOrder) \in DOMAIN gtOrder
    BY <1>2 DEF Latest
  <2> QED BY <1>2, <2>1, <2>2 DEF Latest, GtStill
<1>3. Decided'
  BY DEF GtInv, Decided, Backed, GtStill
<1> QED BY <1>1, <1>2, <1>3 DEF GtInv, GtStill

(* A review is completed: it becomes the last, with its verdict.           *)
LEMMA CompleteInv ==
  ASSUME GtInv, NEW x \in GtRows, NEW b \in GtVerdicts, GtCall,
         x \in GtForeign => b.sha \in {0, 9},
         gtRow[x].st # "completed",
         gtRow' = [Closed(x, "completed") EXCEPT ![x].body = b],
         gtOrder' = IF x \in GtReviews THEN Append(gtOrder, x) ELSE gtOrder,
         gtTodo' = {y \in GtRows : x \in GtDeps[y]},
         gtLast' = IF x \in GtReviews \ GtForeign THEN b ELSE gtLast,
         UNCHANGED <<gtAuthors, gtNow, gtTouched>>
  PROVE  GtInv' /\ Proper
<1>0. gtRow \in [GtRows -> GtRecs] /\ gtRow[x] \in GtRecs /\ GtTypeInv
  BY DEF GtInv, GtTypeInv, GtTables
<1> DEFINE r == [gtRow[x] EXCEPT !.st = "completed", !.lease = FALSE, !.body = b]
<1>1. r \in GtRecs /\ r.st = "completed" /\ r.body = b
  BY <1>0 DEF GtRecs, GtStatuses, GtTerminal, GtClosed
<1>2. gtRow' = [gtRow EXCEPT ![x] = r]
  BY <1>0 DEF Closed
<1> HIDE DEF r
<1>3. Proper
  BY <1>0, <1>1, <1>2, WriteProper
<1>4. gtRow'[x] = r /\ \A y \in GtRows \ {x} : gtRow'[y] = gtRow[y]
  BY <1>0, <1>2
<1>5. GtTypeInv' /\ Decided'
  BY <1>3 DEF GtInv, GtTypeInv, Proper, GtCall, Decided
<1>6. ASSUME Latest PROVE Latest'
  <2>1. \A i \in DOMAIN gtOrder : gtOrder[i] \in GtRows \ {x}
    BY <1>6 DEF Latest, GtRows
  <2>2. CASE x \notin GtReviews
    <3>1. gtOrder' = gtOrder /\ gtLast' = gtLast
      BY <2>2
    <3>2. gtOrder # <<>> => Len(gtOrder) \in DOMAIN gtOrder
      BY <1>6 DEF Latest
    <3>3. \A i \in DOMAIN gtOrder : gtRow'[gtOrder[i]] = gtRow[gtOrder[i]]
      BY <1>4, <2>1
    <3> QED BY <1>6, <3>1, <3>2, <3>3 DEF Latest
  <2>3. CASE x \in GtReviews
    <3>1. /\ gtOrder' = Append(gtOrder, x) /\ gtOrder \in Seq(GtReviews)
      BY <1>6, <2>3 DEF Latest
    <3>2. /\ gtOrder' \in Seq(GtReviews) /\ Len(gtOrder') = Len(gtOrder) + 1
          /\ gtOrder'[Len(gtOrder')] = x
          /\ \A i \in DOMAIN gtOrder' : \/ i \in DOMAIN gtOrder /\ gtOrder'[i] = gtOrder[i]
                                     \/ gtOrder'[i] = x
      BY <2>3, <3>1
    <3>3. ASSUME NEW i \in DOMAIN gtOrder'
          PROVE  gtRow'[gtOrder'[i]].st = "completed"
      <4>1. CASE gtOrder'[i] = x
        BY <1>1, <1>4, <4>1
      <4>2. CASE i \in DOMAIN gtOrder /\ gtOrder'[i] = gtOrder[i]
        <5>1. gtOrder[i] \in GtRows \ {x} /\ gtRow[gtOrder[i]].st = "completed"
          BY <1>6, <2>1, <4>2 DEF Latest
        <5>2. gtRow'[gtOrder[i]] = gtRow[gtOrder[i]]
          BY <1>4, <5>1
        <5> QED BY <4>2, <5>1, <5>2
      <4> QED BY <3>2, <4>1, <4>2
    <3>4. IF x \in GtForeign THEN gtRow'[x].body.sha \in {0, 9} ELSE gtRow'[x].body = gtLast'
      BY <1>1, <1>4, <2>3
    <3> QED BY <3>2, <3>3, <3>4 DEF Latest
  <2> QED BY <2>2, <2>3
<1> QED BY <1>3, <1>5, <1>6 DEF GtInv

----------------------------------------------------------------------------
(* Every step *)

(* The requests that change nothing but rows. *)
LEMMA RequestInv ==
  ASSUME GtInv, NEW x \in GtRows,
         \/ submit_task(x) \/ fail_task(x) \/ cancel_task(x)
         \/ answer_task(x) \/ unblock_task(x) \/ manual_advance(x) \/ claim_task(x)
         \/ \E ask \in {"plain", "ref", "malformed"} : block_task(x, ask)
  PROVE  GtInv' /\ Proper
<1>1. Proper
  BY SubmitProper, BallotProper, CloseProper
<1>2. GtStill /\ gtNow = GtNothing
  BY DEF submit_task, fail_task, cancel_task, answer_task, unblock_task, manual_advance,
         claim_task, block_task, GtCall
<1> QED BY <1>1, <1>2, StillInv

(* complete_task: acknowledged, refused or delivered. *)
LEMMA CompletionInv ==
  ASSUME GtInv, NEW x \in GtRows, NEW b \in GtVerdicts, complete_task(x, b),
         x \in GtForeign => b.sha \in {0, 9}
  PROVE  GtInv' /\ Proper
<1>1. GtCall /\ gtRow[x].st \notin GtClosed /\ gtNow = GtNothing
  BY DEF complete_task, GtCall
<1>2. CASE gtRow[x].st = "cancel_requested" /\ gtRow' = Closed(x, "cancelled") /\ GtStill
  BY <1>1, <1>2, RefusedProper, StillInv
<1>3. CASE reviewer_completion_veto(x, b) /\ gtRow' = Refused(x) /\ GtStill
  <2>1. x \notin GtLands
    BY <1>3 DEF reviewer_completion_veto, _is_landing_row, landing_artifact
  <2> QED BY <1>1, <1>3, <2>1, RefusedProper, StillInv
<1>4. CASE /\ gtRow' = [Closed(x, "completed") EXCEPT ![x].body = b]
           /\ gtOrder' = IF x \in GtReviews THEN Append(gtOrder, x) ELSE gtOrder
           /\ gtTodo' = {y \in GtRows : x \in GtDeps[y]}
           /\ gtLast' = IF x \in GtReviews \ GtForeign THEN b ELSE gtLast
           /\ UNCHANGED <<gtAuthors, gtNow, gtTouched>>
  <2>1. gtRow[x].st # "completed"
    BY <1>1 DEF GtClosed
  <2> QED BY <1>1, <1>4, <2>1, CompleteInv
<1> QED BY <1>2, <1>3, <1>4 DEF complete_task

(* set_dependencies demotes a ready row, or moves a completed review.      *)
LEMMA DependenciesInv ==
  ASSUME GtInv, NEW x \in GtRows, set_dependencies(x)
  PROVE  GtInv' /\ Proper
<1>0. /\ gtRow \in [GtRows -> GtRecs] /\ gtRow[x] \in GtRecs /\ GtTypeInv
      /\ gtNow = GtNothing /\ UNCHANGED <<gtAuthors, gtTodo, gtNow, gtLast>>
  BY DEF GtInv, GtTypeInv, GtTables, set_dependencies, GtCall
<1>1. Proper
  <2>1. CASE gtRow' = gtRow
    BY <1>0, <2>1 DEF Proper, RowsKept, LandsBacked, GtTables
  <2>2. CASE gtRow[x].st = "ready" /\ gtRow' = [gtRow EXCEPT ![x].st = "pending"]
    <3>1. gtRow' = [gtRow EXCEPT ![x] = [gtRow[x] EXCEPT !.st = "pending"]]
      BY <1>0, <2>2
    <3>2. [gtRow[x] EXCEPT !.st = "pending"] \in GtRecs
      BY <1>0 DEF GtRecs, GtStatuses
    <3> QED BY <1>0, <2>2, <3>1, <3>2, WriteProper
  <2> QED BY <2>1, <2>2 DEF set_dependencies
<1>2. CASE UNCHANGED <<gtOrder, gtTouched>>
  <2>1. GtStill
    BY <1>0, <1>2 DEF GtStill
  <2> QED BY <1>0, <1>1, <2>1, StillInv
<1>3. CASE gtTouched' = TRUE
  BY <1>0, <1>1, <1>3 DEF GtInv, GtTypeInv, Proper, Decided
<1> QED BY <1>2, <1>3 DEF set_dependencies

(* release_task makes a row ready; of a completed review, the order is     *)
(* given up.                                                               *)
LEMMA ReleaseInv ==
  ASSUME GtInv, NEW x \in GtRows, release_task(x)
  PROVE  GtInv' /\ LandsBacked
<1>0. /\ gtRow \in [GtRows -> GtRecs] /\ GtTypeInv
      /\ gtNow = GtNothing /\ UNCHANGED <<gtAuthors, gtTodo, gtNow, gtLast>>
      /\ gtRow' = Closed(x, "ready") /\ "ready" \in GtStatuses /\ Ungated(x)
  BY DEF GtInv, GtTypeInv, GtTables, release_task, GtCall, GtStatuses, Ungated
<1>1. /\ gtRow' \in GtTables /\ \A y \in GtRows \ {x} : gtRow'[y] = gtRow[y]
      /\ gtRow'[x] \in GtRecs /\ gtRow'[x].st = "ready"
      /\ gtRow' = [gtRow EXCEPT ![x] = gtRow'[x]]
  BY <1>0, ClosedWrite
<1>2. LandsBacked
  <2> SUFFICES ASSUME NEW l \in GtLands, gtRow[l].st = "pending", gtRow'[l].st = "ready"
               PROVE  Ungated(l)
    BY DEF LandsBacked
  <2> QED BY <1>0, <1>1 DEF GtRows
<1>3. CASE x \in GtReviews /\ gtRow[x].st = "completed"
  <2>1. gtTouched' = TRUE
    BY <1>3 DEF release_task
  <2> QED BY <1>0, <1>1, <1>2, <2>1 DEF GtInv, GtTypeInv, Decided
<1>4. CASE ~(x \in GtReviews /\ gtRow[x].st = "completed")
  <2>1. GtStill
    BY <1>0, <1>4 DEF release_task, GtStill
  <2>2. RowsKept
    BY <1>1, <1>4 DEF RowsKept, GtRows
  <2> QED BY <1>0, <1>1, <1>2, <2>1, <2>2, StillInv DEF Proper
<1> QED BY <1>3, <1>4

(* _trigger_downstream decides with the gate, *)
LEMMA CheckInv ==
  ASSUME GtInv, NEW x \in GtRows, DownCheck(x)
  PROVE  GtInv' /\ Proper
<1>0. UNCHANGED <<gtRow, gtOrder, gtLast, gtTouched>> /\ gtRow \in GtTables
  BY DEF DownCheck, GtInv, GtTypeInv
<1>1. Proper
  BY <1>0 DEF Proper, RowsKept, LandsBacked
<1>2. \/ gtNow' = GtNothing
      \/ /\ gtNow' = [land |-> x, to |-> "ready"]
         /\ gtRow[x].st = "pending" /\ ~hold_reason(gtRow, x)
  BY DEF DownCheck
<1>3. gtTodo' \subseteq GtRows
  BY DEF DownCheck, GtInv, GtTypeInv
<1>4. GtTypeInv'
  BY <1>0, <1>2, <1>3 DEF GtInv, GtTypeInv
<1>5. Decided'
  <2>1. CASE gtNow' = GtNothing
    BY <2>1 DEF Decided
  <2>2. CASE gtNow' = [land |-> x, to |-> "ready"] /\ gtRow[x].st = "pending" /\ ~hold_reason(gtRow, x)
    <3>1. gtNow'.land = x
      BY <2>2
    <3>2. x \in GtLands => gtTouched \/ Backed(x)
      BY <1>0, <2>2, GateHolds DEF GtInv
    <3> QED BY <1>0, <2>2, <3>1, <3>2 DEF Decided, Backed
  <2> QED BY <1>2, <2>1, <2>2
<1>6. gtTouched' \/ Latest'
  BY <1>0 DEF GtInv, Latest
<1> QED BY <1>1, <1>4, <1>5, <1>6 DEF GtInv

(* and writes what it decided. *)
LEMMA WriteInv ==
  ASSUME GtInv, DownWrite
  PROVE  GtInv' /\ Proper
<1> DEFINE x == gtNow.land
           r == [gtRow[x] EXCEPT !.st = "ready"]
<1>0. /\ gtNow # GtNothing /\ gtNow \in [land : GtRows, to : {"ready"}] /\ GtTypeInv
      /\ gtRow \in [GtRows -> GtRecs]
  BY DEF DownWrite, GtInv, GtTypeInv, GtTables
<1>1. x \in GtRows /\ gtRow[x] \in GtRecs /\ gtNow.to = "ready"
  BY <1>0
<1>2. gtRow' = [gtRow EXCEPT ![x] = r]
  BY <1>0, <1>1 DEF DownWrite
<1>3. r \in GtRecs
  BY <1>1 DEF GtRecs, GtStatuses
<1>4. gtRow[x].st # "completed" /\ (x \in GtLands => gtTouched \/ Backed(x))
  BY <1>0 DEF GtInv, Decided
<1>5. Proper
  <2> HIDE DEF x, r
  <2> QED BY <1>0, <1>1, <1>2, <1>3, <1>4, WriteProper
<1>6. gtNow' = GtNothing /\ UNCHANGED <<gtOrder, gtTodo, gtLast, gtTouched>>
  BY DEF DownWrite
<1>7. GtTypeInv' /\ Decided'
  BY <1>5, <1>6 DEF GtInv, GtTypeInv, Proper, Decided
<1>8. ASSUME Latest PROVE Latest'
  <2>1. \A i \in DOMAIN gtOrder :
          gtRow'[gtOrder[i]].st = "completed" /\ gtRow'[gtOrder[i]].body = gtRow[gtOrder[i]].body
    BY <1>5, <1>8 DEF Latest, Proper, RowsKept
  <2>2. gtOrder # <<>> => Len(gtOrder) \in DOMAIN gtOrder
    BY <1>8 DEF Latest
  <2> QED BY <1>6, <1>8, <2>1, <2>2 DEF Latest
<1> QED BY <1>5, <1>6, <1>7, <1>8 DEF GtInv

(* Other threads: passes, the sweep, lapses and recoveries. *)
LEMMA ThreadInv ==
  ASSUME GtInv, \/ GtSweep
                \/ \E x \in GtRows : GtStart(x) \/ GtLapse(x) \/ unassign_task(x)
  PROVE  GtInv' /\ Proper
<1>0. gtRow \in GtTables /\ GtStill
  BY DEF GtInv, GtTypeInv, GtSweep, GtStart, GtLapse, unassign_task
<1>1. ASSUME gtNow # GtNothing
      PROVE  gtNow.land \in GtRows /\ gtRow[gtNow.land].st # "completed"
  BY <1>1 DEF GtInv, GtTypeInv, Decided
<1>2. CASE GtSweep
  <2>1. Proper
    BY <1>0, <1>2, SweepProper DEF GtSweep
  <2>2. \A y \in GtRows : gtRow'[y] = gtRow[y] \/ gtRow'[y].st = "ready"
    <3>1. gtRow' = [y \in GtRows |->
            IF gtRow[y].st = "pending" /\ DepsDone(gtRow, y) /\ ~hold_reason(gtRow, y)
            THEN [gtRow[y] EXCEPT !.st = "ready"] ELSE gtRow[y]]
      BY <1>2 DEF GtSweep, trigger_pending_tasks
    <3>2. \A y \in GtRows : [gtRow[y] EXCEPT !.st = "ready"].st = "ready"
      BY <1>0 DEF GtTables, GtRecs
    <3> QED BY <3>1, <3>2
  <2>3. gtNow # GtNothing => gtRow'[gtNow.land].st # "completed"
    BY <1>1, <2>2
  <2> QED BY <1>0, <2>1, <2>3, StillInv
<1>3. ASSUME NEW x \in GtRows, GtStart(x) \/ GtLapse(x) \/ unassign_task(x)
      PROVE  GtInv' /\ Proper
  <2>1. /\ Proper
        /\ gtRow'[x].st = "completed" => gtRow[x].st = "completed"
        /\ \A y \in GtRows \ {x} : gtRow'[y] = gtRow[y]
    BY <1>3, ThreadProper
  <2>2. gtNow # GtNothing => gtRow'[gtNow.land].st # "completed"
    BY <1>1, <2>1
  <2> QED BY <1>0, <2>1, <2>2, StillInv
<1> QED BY <1>2, <1>3

(* Every step keeps the invariant, and no landing leaves pending unbacked. *)
LEMMA GtNextInv ==
  ASSUME GtInv, [GtNext]_gtVars
  PROVE  GtInv' /\ LandsBacked
<1>1. ASSUME NEW x \in GtRows,
             \/ submit_task(x) \/ fail_task(x) \/ cancel_task(x)
             \/ answer_task(x) \/ unblock_task(x) \/ manual_advance(x) \/ claim_task(x)
             \/ \E ask \in {"plain", "ref", "malformed"} : block_task(x, ask)
      PROVE  GtInv' /\ LandsBacked
  BY <1>1, RequestInv DEF Proper
<1>2. ASSUME NEW x \in GtRows, set_dependencies(x) \/ release_task(x) \/ DownCheck(x)
      PROVE  GtInv' /\ LandsBacked
  BY <1>2, DependenciesInv, ReleaseInv, CheckInv DEF Proper
<1>3. ASSUME NEW x \in GtReviews, NEW b \in GtBodies(x), complete_task(x, b)
      PROVE  GtInv' /\ LandsBacked
  BY <1>3, Bodies, CompletionInv DEF GtRows, Proper
<1>4. ASSUME NEW x \in GtLands, complete_task(x, GtNobody)
      PROVE  GtInv' /\ LandsBacked
  BY <1>4, NobodyType, CompletionInv DEF GtRows, Proper
<1>5. CASE DownWrite
  BY <1>5, WriteInv DEF Proper
<1>6. CASE \/ GtSweep
          \/ \E x \in GtRows : GtStart(x) \/ GtLapse(x) \/ unassign_task(x)
  BY <1>6, ThreadInv DEF Proper
<1>7. CASE UNCHANGED <<gtRow, gtOrder, gtTodo, gtNow, gtLast, gtTouched>>
  <2>1. LandsBacked
    BY <1>7 DEF LandsBacked
  <2> QED BY <1>7, <2>1 DEF GtInv, GtTypeInv, Latest, Decided, Backed
<1>8. ASSUME NEW x \in GtLands, GtAuthor(GtLane[x])
      PROVE  GtInv' /\ LandsBacked
  BY <1>7, <1>8 DEF GtAuthor
<1>9. UNCHANGED gtVars => GtInv' /\ LandsBacked
  BY <1>7 DEF gtVars
<1> QED BY <1>1, <1>2, <1>3, <1>4, <1>5, <1>6, <1>8, <1>9 DEF GtNext

(* landing_gate.py with its callers: whatever is not an advance, a re-queue *)
(* of the row itself, a release of it or a recovery makes a pending landing *)
(* ready only on the verdict our reviewers delivered last, PASS at a head  *)
(* the landing names.                                                      *)
THEOREM LandingSafety == GtSpec => GtLandsOnPass
<1> DEFINE OnPass ==
      \A l \in GtLands :
          gtRow[l].st = "pending" /\ gtRow'[l].st = "ready" =>
              \/ Ungated(l)
              \/ gtTouched
              \/ gtLast.verdict = "PASS" /\ gtLast.sha \in GtNames[l]
<1>1. GtInit => GtInv
  <2> SUFFICES ASSUME GtInit PROVE GtInv
    OBVIOUS
  <2>1. GtTypeInv
    <3>1. [st |-> "none", body |-> GtNobody, tries |-> 0, ballot |-> GtNoBallot,
           on |-> FALSE, lease |-> FALSE, held |-> FALSE] \in GtRecs
      BY NobodyType DEF GtRecs, GtStatuses, GtNoBallot, GtBallots
    <3> QED BY <3>1 DEF GtInit, GtTypeInv, GtTables
  <2>2. Latest /\ Decided
    BY DEF GtInit, Latest, Decided
  <2> QED BY <2>1, <2>2 DEF GtInv
<1>2. GtInv /\ [GtNext]_gtVars => GtInv' /\ OnPass
  BY GtNextInv DEF LandsBacked, Backed
<1> QED BY <1>1, <1>2, PTL DEF GtSpec, GtLandsOnPass

----------------------------------------------------------------------------
(* Intake: one cycle at a time *)

HIDE GtAssumption

(* No second cycle runs beside one: /poll is not called while the thread   *)
(* polls.                                                                  *)
PollOnce == \A a, b \in Pollers : a = b

InStates == Holding \cup {"completed", "retired", "released", "failed", "parked"}
InTasks == [of : {S \in SUBSET Issues : S # {}}, bundle : BOOLEAN, st : InStates,
            requeue : BOOLEAN, wasParked : BOOLEAN]
InViews == [held : SUBSET Issues, iids : SUBSET Nat, busy : SUBSET Lanes, zero : SUBSET Lanes]
InPlaces == [pc : {"idle", "fetch", "plan", "create", "note"}, mode : {"off", "each", "grouped"},
             todo : SUBSET Repos, got : SUBSET Issues, cur : SUBSET Issues,
             view : InViews, plans : SUBSET (SUBSET Issues)]

InTypeInv ==
    /\ tasks \in Seq(InTasks)
    /\ at \in [Actors -> InPlaces]
    /\ policy \in {"off", "each", "grouped"}

(* Only a task that was parked is parked.                                  *)
InParked == \A n \in DOMAIN tasks : tasks[n].st = "parked" => tasks[n].wasParked

(* The webhook never plans, and what it bundles is the business team's.    *)
InHook == \A a \in Actors :
    /\ a = "hook" => at[a].pc \in {"idle", "create", "note"}
    /\ at[a].pc = "create" => at[a].cur # {}
    /\ at[a].pc = "create" /\ at[a].mode = "grouped" => \A i \in at[a].cur : Band[i] = 0

(* The backlog of the bundles there are is in a view, however old it is,   *)
Covers(ts, held) == \A n \in DOMAIN ts :
    ts[n].bundle /\ Claims(ts[n]) => \A i \in ts[n].of : Band[i] = 0 \/ i \in held

(* and the plans, one a repository, share nothing with it nor each other.  *)
InPlans == \A a \in Actors :
    IF at[a].pc = "plan"
    THEN /\ Covers(tasks, at[a].view.held)
         /\ IsFiniteSet(at[a].plans)
         /\ \A p \in at[a].plans :
               p # {} /\ p \cap at[a].view.held = {} /\ \A i \in p : RepoOf[i] \notin at[a].todo
         /\ \A p, q \in at[a].plans : p # q => p \cap q = {}
    ELSE at[a].plans = {}

InInv == InTypeInv /\ InParked /\ InHook /\ InPlans /\ BacklogHeldOnce

----------------------------------------------------------------------------
(* What the planner returns *)

(* The view has its type, and holds the issues of all bundles that claim. *)
LEMMA ViewHolds ==
  ASSUME InTypeInv
  PROVE  grouping_view \in InViews /\ Covers(tasks, grouping_view.held)
<1>1. ASSUME NEW t \in InTasks PROVE LaneOfTask(t) \in Lanes
  <2>1. t.of # {} /\ t.of \subseteq Issues
    BY DEF InTasks
  <2>2. (CHOOSE i \in t.of : TRUE) \in t.of
    BY <2>1
  <2> QED BY <2>1, <2>2, IntakeAssumption DEF LaneOfTask, Lanes
<1>2. \A n \in DOMAIN tasks : tasks[n] \in InTasks
  BY DEF InTypeInv
<1>3. Rows \subseteq InTasks
  BY <1>2 DEF Rows
<1>4. \A t \in Rows : t.of \subseteq Issues
  BY <1>3 DEF InTasks
<1>5. \A i \in Issues : Iid[i] \in Nat
  BY IntakeAssumption
<1>6. grouping_view \in InViews
  BY <1>1, <1>3, <1>4, <1>5 DEF grouping_view, InViews
<1>7. grouping_view.held = UNION {t.of : t \in {u \in Rows : u.bundle
                              /\ u.st \in Holding \cup {"completed", "retired"}}}
  BY DEF grouping_view
<1>8. Covers(tasks, grouping_view.held)
  <2> SUFFICES ASSUME NEW n \in DOMAIN tasks, tasks[n].bundle, Claims(tasks[n]), NEW i \in tasks[n].of
               PROVE  i \in grouping_view.held
    BY DEF Covers
  <2>1. tasks[n] \in {u \in Rows : u.bundle /\ u.st \in Holding \cup {"completed", "retired"}}
    BY DEF Rows, Claims
  <2> QED BY <1>7, <2>1
<1> QED BY <1>6, <1>8

(* A plan is taken from the candidates. *)
LEMMA PlanTakes ==
  ASSUME NEW r, NEW C, NEW view
  PROVE  PlanFor(r, C, view) \subseteq C
<1>1. ASSUME NEW D PROVE bundle_plan_for_repo(r, D, view) \subseteq D
  <2>1. pack_repo_candidates(D) \subseteq D
    BY DEF pack_repo_candidates
  <2> QED BY <2>1 DEF bundle_plan_for_repo
<1> DEFINE free == {i \in C : gl[i] # "mr"}
           batch == bundle_plan_for_repo(r, free, view)
           held == held_by_open_blockers(batch)
<1>2. free \subseteq C /\ batch \subseteq free /\ bundle_plan_for_repo(r, free \ held, view) \subseteq free
  BY <1>1
<1>3. PlanFor(r, C, view) = IF bundle_plan_for_repo(r, C, view) = {} \/ batch = {} THEN {}
                            ELSE IF held = {} THEN batch
                            ELSE bundle_plan_for_repo(r, free \ held, view)
  BY DEF PlanFor
<1> HIDE DEF free, batch, held
<1> QED BY <1>2, <1>3

(* In some order of the plans each has one place. *)
LEMMA OnePlaceEach ==
  ASSUME NEW P, IsFiniteSet(P), NEW q \in Orders(P)
  PROVE  /\ Cardinality(P) \in Nat /\ q \in [1..Cardinality(P) -> P]
         /\ \A n, m \in DOMAIN q : q[n] = q[m] => n = m
<1> DEFINE k == Cardinality(P)
<1>1. k \in Nat /\ q \in [1..k -> P] /\ \A x \in P : \E n \in 1..k : q[n] = x
  BY FS_CardinalityType DEF Orders
<1>2. IsFiniteSet(1..k) /\ Cardinality(1..k) = k
  BY <1>1, FS_Interval
<1>3. q \in Surjection(1..k, P)
  BY <1>1 DEF Surjection
<1>4. q \in Injection(1..k, P)
  BY <1>2, <1>3, FS_SurjSameCardinalityImpliesInj
<1>5. \A n, m \in 1..k : q[n] = q[m] => n = m
  BY <1>4 DEF Injection, IsInjective
<1> QED BY <1>1, <1>5

----------------------------------------------------------------------------
(* Steps that make no task *)

(* Rows that change in place and claim nothing they did not. *)
Tame(ts, us) ==
    /\ us \in Seq(InTasks) /\ DOMAIN us = DOMAIN ts
    /\ \A n \in DOMAIN ts :
          /\ us[n].of = ts[n].of /\ us[n].bundle = ts[n].bundle
          /\ Claims(us[n]) => Claims(ts[n])
          /\ (ts[n].st = "parked" => ts[n].wasParked) => (us[n].st = "parked" => us[n].wasParked)

(* One row, written. *)
LEMMA SetTame ==
  ASSUME InTypeInv, InParked, NEW n \in DOMAIN tasks, NEW t \in InTasks, Set(n, t),
         t.of = tasks[n].of, t.bundle = tasks[n].bundle,
         Claims(t) => Claims(tasks[n]), t.st = "parked" => t.wasParked
  PROVE  Tame(tasks, tasks')
<1>1. tasks' = [tasks EXCEPT ![n] = t] /\ tasks \in Seq(InTasks)
  BY DEF Set, InTypeInv
<1>2. tasks' \in Seq(InTasks) /\ DOMAIN tasks' = DOMAIN tasks
  BY <1>1
<1>3. \A m \in DOMAIN tasks : tasks'[m] = IF m = n THEN t ELSE tasks[m]
  BY <1>1
<1> QED BY <1>2, <1>3 DEF Tame

(* What the scheduler does to the rows. *)
LEMMA ScheduledTame ==
  ASSUME NEW ts \in Seq(InTasks), NEW us \in Scheduled(ts)
  PROVE  Tame(ts, us)
<1>1. PICK S \in SUBSET DOMAIN ts :
        /\ \A n \in S : ts[n].st = "queued"
        /\ us = [n \in DOMAIN ts |-> IF n \in S THEN [ts[n] EXCEPT !.st = "active"] ELSE ts[n]]
  BY DEF Scheduled
<1>2. \A n \in DOMAIN ts : ts[n] \in InTasks
  OBVIOUS
<1>3. ASSUME NEW n \in DOMAIN ts
      PROVE  /\ us[n] \in InTasks /\ us[n].of = ts[n].of /\ us[n].bundle = ts[n].bundle
             /\ us[n].wasParked = ts[n].wasParked
             /\ us[n] = ts[n] \/ (us[n].st = "active" /\ ts[n].st = "queued")
  BY <1>1, <1>2 DEF InTasks, InStates, Holding
<1>4. us \in Seq(InTasks) /\ DOMAIN us = DOMAIN ts
  <2>1. DOMAIN ts = 1..Len(ts) /\ Len(ts) \in Nat
    OBVIOUS
  <2> QED BY <1>1, <1>3, <2>1
<1>5. \A n \in DOMAIN ts : Claims(us[n]) => Claims(ts[n])
  BY <1>3 DEF Claims, Holding
<1> QED BY <1>3, <1>4, <1>5 DEF Tame

(* Such a step keeps what is said of the rows. *)
LEMMA TameKeeps ==
  ASSUME InInv, Tame(tasks, tasks')
  PROVE  /\ tasks' \in Seq(InTasks) /\ InParked' /\ BacklogHeldOnce'
         /\ \A held : Covers(tasks, held) => Covers(tasks', held)
<1>1. InParked'
  BY DEF InInv, InParked, Tame
<1>2. BacklogHeldOnce'
  BY DEF InInv, BacklogHeldOnce, Tame
<1>3. \A held : Covers(tasks, held) => Covers(tasks', held)
  BY DEF Covers, Tame
<1> QED BY <1>1, <1>2, <1>3 DEF Tame

(* With the cycles where they were, *)
LEMMA TameInv ==
  ASSUME InInv, Tame(tasks, tasks'), at' = at, policy' \in {"off", "each", "grouped"}
  PROVE  InInv'
<1>1. /\ tasks' \in Seq(InTasks) /\ InParked' /\ BacklogHeldOnce'
      /\ \A held : Covers(tasks, held) => Covers(tasks', held)
  BY TameKeeps
<1>2. InTypeInv'
  BY <1>1 DEF InInv, InTypeInv
<1>3. InHook'
  BY DEF InInv, InHook
<1>4. InPlans'
  BY <1>1 DEF InInv, InPlans
<1> QED BY <1>1, <1>2, <1>3, <1>4 DEF InInv

(* and with one of them moved. *)
LEMMA MoveInv ==
  ASSUME InInv, tasks' = tasks \/ Tame(tasks, tasks'), policy' = policy,
         NEW a \in Actors, NEW rec \in InPlaces, Goto(a, rec),
         a = "hook" => rec.pc \in {"idle", "create", "note"},
         rec.pc = "create" => rec.cur # {} /\ (rec.mode = "grouped" => \A i \in rec.cur : Band[i] = 0),
         IF rec.pc = "plan"
         THEN /\ Covers(tasks, rec.view.held)
              /\ IsFiniteSet(rec.plans)
              /\ \A p \in rec.plans :
                    p # {} /\ p \cap rec.view.held = {} /\ \A i \in p : RepoOf[i] \notin rec.todo
              /\ \A p, q \in rec.plans : p # q => p \cap q = {}
         ELSE rec.plans = {}
  PROVE  InInv'
<1>1. /\ tasks' \in Seq(InTasks) /\ InParked' /\ BacklogHeldOnce'
      /\ \A held : Covers(tasks, held) => Covers(tasks', held)
  <2>1. CASE tasks' = tasks
    BY <2>1 DEF InInv, InTypeInv, InParked, BacklogHeldOnce, Covers
  <2>2. CASE Tame(tasks, tasks')
    BY <2>2, TameKeeps
  <2> QED BY <2>1, <2>2
<1>2. at' \in [Actors -> InPlaces] /\ \A b \in Actors : at'[b] = IF b = a THEN rec ELSE at[b]
  BY DEF Goto, InInv, InTypeInv
<1>3. InTypeInv'
  BY <1>1, <1>2 DEF InInv, InTypeInv
<1>4. InHook'
  BY <1>2 DEF InInv, InHook
<1>5. InPlans'
  <2> SUFFICES ASSUME NEW b \in Actors
               PROVE  IF at'[b].pc = "plan"
                      THEN /\ Covers(tasks', at'[b].view.held)
                           /\ IsFiniteSet(at'[b].plans)
                           /\ \A p \in at'[b].plans :
                                 p # {} /\ p \cap at'[b].view.held = {} /\ \A i \in p : RepoOf[i] \notin at'[b].todo
                           /\ \A p, q \in at'[b].plans : p # q => p \cap q = {}
                      ELSE at'[b].plans = {}
    BY DEF InPlans
  <2>1. CASE b = a
    BY <1>1, <1>2, <2>1
  <2>2. CASE b # a
    <3>1. at'[b] = at[b]
      BY <1>2, <2>2
    <3> QED BY <1>1, <3>1 DEF InInv, InPlans
  <2> QED BY <2>1, <2>2
<1> QED BY <1>1, <1>3, <1>4, <1>5 DEF InInv

(* The places of a cycle. *)
LEMMA IdlePlace == Idle \in InPlaces /\ Idle.pc = "idle" /\ Idle.plans = {}
  BY DEF Idle, NoView, InPlaces, InViews

(* A cycle that begins, fetches, skips or gives up. *)
LEMMA WalkInv ==
  ASSUME InInv, NEW a \in Pollers,
         \/ PollStart(a) \/ TakeView(a) \/ NextIssue(a) \/ CycleEnds(a) \/ PublishFails(a)
         \/ \E r \in Repos : Fetch(a, r) \/ FetchFails(a, r)
  PROVE  InInv'
<1>0. /\ a \in Actors /\ a # "hook" /\ at[a] \in InPlaces /\ policy \in {"off", "each", "grouped"}
      /\ at[a].pc # "plan" => at[a].plans = {}
  BY IntakeAssumption DEF InInv, InTypeInv, InPlans, Actors
<1>1. CASE PollStart(a)
  <2> DEFINE rec == [Idle EXCEPT !.pc = "fetch", !.mode = policy, !.todo = Repos]
  <2>1. rec \in InPlaces /\ rec.pc = "fetch" /\ rec.plans = {}
    BY <1>0, IdlePlace DEF InPlaces
  <2>2. Goto(a, rec) /\ tasks' = tasks /\ policy' = policy
    BY <1>1 DEF PollStart
  <2> HIDE DEF rec
  <2> QED BY <1>0, <2>1, <2>2, MoveInv
<1>2. ASSUME NEW r \in Repos, Fetch(a, r) \/ FetchFails(a, r) PROVE InInv'
  <2>1. PICK page \in SUBSET Issues :
          Goto(a, [at[a] EXCEPT !.todo = at[a].todo \ {r}, !.got = at[a].got \cup page])
          \/ Goto(a, [at[a] EXCEPT !.todo = at[a].todo \ {r}])
    BY <1>2 DEF Fetch, FetchFails
  <2>2. at[a].pc = "fetch" /\ tasks' = tasks /\ policy' = policy
    BY <1>2 DEF Fetch, FetchFails
  <2>3. CASE Goto(a, [at[a] EXCEPT !.todo = at[a].todo \ {r}, !.got = at[a].got \cup page])
    <3> DEFINE rec == [at[a] EXCEPT !.todo = at[a].todo \ {r}, !.got = at[a].got \cup page]
    <3>1. rec \in InPlaces /\ rec.pc = "fetch" /\ rec.plans = {}
      BY <1>0, <2>2 DEF InPlaces
    <3> HIDE DEF rec
    <3> QED BY <1>0, <2>2, <2>3, <3>1, MoveInv DEF rec
  <2>4. CASE Goto(a, [at[a] EXCEPT !.todo = at[a].todo \ {r}])
    <3> DEFINE rec == [at[a] EXCEPT !.todo = at[a].todo \ {r}]
    <3>1. rec \in InPlaces /\ rec.pc = "fetch" /\ rec.plans = {}
      BY <1>0, <2>2 DEF InPlaces
    <3> HIDE DEF rec
    <3> QED BY <1>0, <2>2, <2>4, <3>1, MoveInv DEF rec
  <2> QED BY <2>1, <2>3, <2>4
<1>3. CASE TakeView(a)
  <2> DEFINE todo == {RepoOf[i] : i \in at[a].got}
             rec == [at[a] EXCEPT !.pc = "plan", !.view = grouping_view, !.todo = todo]
  <2>1. at[a].pc = "fetch" /\ Goto(a, rec) /\ tasks' = tasks /\ policy' = policy
    BY <1>3 DEF TakeView
  <2>2. todo \subseteq Repos
    BY <1>0, IntakeAssumption DEF InPlaces
  <2>3. grouping_view \in InViews /\ Covers(tasks, grouping_view.held)
    BY ViewHolds DEF InInv
  <2> HIDE DEF todo
  <2>4. rec \in InPlaces /\ rec.pc = "plan" /\ rec.view = grouping_view /\ rec.plans = {}
    BY <1>0, <2>1, <2>2, <2>3 DEF InPlaces
  <2> HIDE DEF rec
  <2> QED BY <1>0, <2>1, <2>3, <2>4, FS_EmptySet, MoveInv
<1>4. CASE NextIssue(a)
  <2>1. PICK i \in at[a].got :
          \/ Goto(a, [at[a] EXCEPT !.got = at[a].got \ {i}])
          \/ Goto(a, [[at[a] EXCEPT !.got = at[a].got \ {i}] EXCEPT !.pc = "create", !.cur = {i}])
    BY <1>4 DEF NextIssue
  <2>2. at[a].pc = "fetch" /\ at[a].mode = "each" /\ tasks' = tasks /\ policy' = policy /\ i \in Issues
    BY <1>0, <1>4 DEF NextIssue, InPlaces
  <2> DEFINE rest == [at[a] EXCEPT !.got = at[a].got \ {i}]
             rec == [rest EXCEPT !.pc = "create", !.cur = {i}]
  <2>3. rest \in InPlaces /\ rest.pc = "fetch" /\ rest.mode = "each" /\ rest.plans = {}
    BY <1>0, <2>2 DEF InPlaces
  <2>4. Goto(a, rest) \/ Goto(a, rec)
    BY <2>1
  <2> HIDE DEF rest
  <2>5. rec \in InPlaces /\ rec.pc = "create" /\ rec.mode = "each" /\ rec.cur = {i} /\ rec.plans = {}
    BY <2>2, <2>3 DEF InPlaces
  <2> HIDE DEF rec
  <2>6. CASE Goto(a, rest)
    BY <1>0, <2>2, <2>3, <2>6, MoveInv
  <2>7. CASE Goto(a, rec)
    BY <1>0, <2>2, <2>5, <2>7, MoveInv
  <2> QED BY <2>4, <2>6, <2>7
<1>5. CASE CycleEnds(a) \/ PublishFails(a)
  <2>1. Goto(a, Idle) /\ tasks' = tasks /\ policy' = policy
    BY <1>5 DEF CycleEnds, PublishFails
  <2> QED BY <1>0, <2>1, IdlePlace, MoveInv
<1> QED BY <1>1, <1>2, <1>3, <1>4, <1>5

(* PlanRepo: a plan of the waiting issues of a repository not planned yet. *)
LEMMA PlanInv ==
  ASSUME InInv, NEW a \in Pollers, NEW r \in Repos, PlanRepo(a, r) \/ PlanRepoFails(a, r)
  PROVE  InInv'
<1> DEFINE here == at[a]
<1>0. /\ a \in Actors /\ a # "hook" /\ here \in InPlaces
      /\ here.pc = "plan" /\ r \in here.todo /\ tasks' = tasks /\ policy' = policy
  BY IntakeAssumption DEF InInv, InTypeInv, PlanRepo, PlanRepoFails, Actors
<1>1. /\ Covers(tasks, here.view.held) /\ IsFiniteSet(here.plans)
      /\ \A p \in here.plans :
            p # {} /\ p \cap here.view.held = {} /\ \A i \in p : RepoOf[i] \notin here.todo
      /\ \A p, q \in here.plans : p # q => p \cap q = {}
  BY <1>0 DEF InInv, InPlans
<1>2. PICK plan \in SUBSET Issues :
        /\ \A i \in plan : RepoOf[i] = r /\ i \notin here.view.held
        /\ \/ Goto(a, [here EXCEPT !.todo = here.todo \ {r}, !.plans = here.plans \cup ({plan} \ {{}})])
           \/ Goto(a, [here EXCEPT !.todo = here.todo \ {r}])
  <2>1. CASE PlanRepo(a, r)
    <3> DEFINE C == Waiting({i \in here.got : RepoOf[i] = r}, here.view)
               plan == PlanFor(r, C, here.view)
    <3>1. plan \subseteq C
      BY PlanTakes
    <3>2. \A i \in C : i \in Issues /\ RepoOf[i] = r /\ i \notin here.view.held
      BY <1>0 DEF Waiting, InPlaces
    <3>3. Goto(a, [here EXCEPT !.todo = here.todo \ {r}, !.plans = here.plans \cup ({plan} \ {{}})])
      BY <2>1 DEF PlanRepo
    <3> HIDE DEF C, plan
    <3> QED BY <3>1, <3>2, <3>3
  <2>2. CASE PlanRepoFails(a, r)
    <3>1. Goto(a, [here EXCEPT !.todo = here.todo \ {r}])
      BY <2>2 DEF PlanRepoFails
    <3>2. {} \in SUBSET Issues /\ \A i \in {} : RepoOf[i] = r /\ i \notin here.view.held
      OBVIOUS
    <3> HIDE DEF here
    <3> QED BY <3>1, <3>2
  <2> QED BY <2>1, <2>2
<1> HIDE DEF here
<1>3. CASE Goto(a, [here EXCEPT !.todo = here.todo \ {r}])
  <2> DEFINE rec == [here EXCEPT !.todo = here.todo \ {r}]
  <2>1. /\ rec \in InPlaces /\ rec.pc = "plan" /\ rec.view = here.view
        /\ rec.plans = here.plans /\ rec.todo = here.todo \ {r}
    BY <1>0 DEF InPlaces
  <2>2. Goto(a, rec)
    BY <1>3
  <2> HIDE DEF rec
  <2> QED BY <1>0, <1>1, <2>1, <2>2, MoveInv
<1>4. CASE Goto(a, [here EXCEPT !.todo = here.todo \ {r}, !.plans = here.plans \cup ({plan} \ {{}})])
  <2> DEFINE more == here.plans \cup ({plan} \ {{}})
             rec == [here EXCEPT !.todo = here.todo \ {r}, !.plans = more]
  <2>0. Goto(a, rec)
    BY <1>4
  <2>1. \A p \in more : p \in here.plans \/ (p = plan /\ plan # {})
    OBVIOUS
  <2>2. IsFiniteSet(more)
    <3>1. CASE plan = {}
      <4>1. more = here.plans
        BY <3>1
      <4> QED BY <1>1, <4>1
    <3>2. CASE plan # {}
      <4>1. more = here.plans \cup {plan}
        BY <3>2
      <4> QED BY <1>1, <4>1, FS_AddElement
    <3> QED BY <3>1, <3>2
  <2>3. more \in SUBSET (SUBSET Issues)
    BY <1>0 DEF InPlaces
  <2> HIDE DEF more
  <2>4. /\ rec \in InPlaces /\ rec.pc = "plan" /\ rec.view = here.view
        /\ rec.plans = more /\ rec.todo = here.todo \ {r}
    BY <1>0, <2>3 DEF InPlaces
  <2>5. \A p \in more :
          p # {} /\ p \cap here.view.held = {} /\ \A i \in p : RepoOf[i] \notin here.todo \ {r}
    BY <1>1, <1>2, <2>1
  <2>6. \A p \in here.plans : p \cap plan = {}
    BY <1>0, <1>1, <1>2
  <2>7. \A p, q \in more : p # q => p \cap q = {}
    BY <1>1, <2>1, <2>6
  <2> HIDE DEF rec
  <2> QED BY <1>0, <1>1, <2>0, <2>2, <2>4, <2>5, <2>7, MoveInv
<1> QED BY <1>2, <1>3, <1>4

----------------------------------------------------------------------------
(* Steps that make tasks *)

(* New rows are queued and never parked; where they share an issue of the  *)
(* backlog with another bundle, that one does not claim it.                *)
LEMMA GrowKeeps ==
  ASSUME InInv, NEW new \in Seq(InTasks),
         \A n \in DOMAIN new : new[n].st = "queued",
         \A n, m \in DOMAIN new : n # m /\ new[n].bundle /\ new[m].bundle =>
             new[n].of \cap new[m].of = {},
         \A n \in DOMAIN new, m \in DOMAIN tasks :
             new[n].bundle /\ tasks[m].bundle /\ Claims(tasks[m]) =>
                 \A i \in new[n].of \cap tasks[m].of : Band[i] = 0,
         NEW us \in Scheduled(tasks \o new) \cup {tasks \o new}
  PROVE  /\ us \in Seq(InTasks)
         /\ \A n \in DOMAIN us : us[n].st = "parked" => us[n].wasParked
         /\ \A n, m \in DOMAIN us :
               n # m /\ us[n].bundle /\ us[m].bundle /\ Claims(us[n]) /\ Claims(us[m])
               => \A i \in us[n].of \cap us[m].of : Band[i] = 0
         /\ \A held : Covers(tasks, held) /\ Covers(new, held) => Covers(us, held)
<1> DEFINE ts == tasks \o new
           k == Len(tasks)
<1>1. /\ k \in Nat /\ DOMAIN tasks = 1..k /\ tasks \in Seq(InTasks)
      /\ Len(new) \in Nat /\ DOMAIN new = 1..Len(new)
      /\ ts \in Seq(InTasks) /\ DOMAIN ts = 1..(k + Len(new))
      /\ \A n \in 1..k : ts[n] = tasks[n]
      /\ \A n \in 1..(k + Len(new)) : n > k => ts[n] = new[n - k] /\ n - k \in DOMAIN new
  BY DEF InInv, InTypeInv
<1> HIDE DEF ts, k
<1>2. \A n \in DOMAIN ts : ts[n].st = "parked" => ts[n].wasParked
  <2> SUFFICES ASSUME NEW n \in DOMAIN ts, ts[n].st = "parked" PROVE ts[n].wasParked
    OBVIOUS
  <2>1. CASE n > k
    BY <1>1, <2>1
  <2>2. CASE ~(n > k)
    <3>1. n \in DOMAIN tasks /\ ts[n] = tasks[n]
      BY <1>1, <2>2
    <3> QED BY <3>1 DEF InInv, InParked
  <2> QED BY <2>1, <2>2
<1>3. ASSUME NEW n \in DOMAIN ts, NEW m \in DOMAIN ts, n # m, ts[n].bundle, ts[m].bundle,
             Claims(ts[n]), Claims(ts[m]), NEW i \in ts[n].of \cap ts[m].of
      PROVE  Band[i] = 0
  <2>1. CASE n > k /\ m > k
    <3>1. n - k # m - k
      BY <1>1, <1>3
    <3>2. new[n - k].of \cap new[m - k].of = {}
      BY <1>1, <1>3, <2>1, <3>1
    <3> QED BY <1>1, <1>3, <2>1, <3>2
  <2>2. CASE n > k /\ ~(m > k)
    <3>1. m \in DOMAIN tasks /\ ts[m] = tasks[m] /\ n - k \in DOMAIN new /\ ts[n] = new[n - k]
      BY <1>1, <2>2
    <3> QED BY <1>3, <3>1
  <2>3. CASE ~(n > k) /\ m > k
    <3>1. n \in DOMAIN tasks /\ ts[n] = tasks[n] /\ m - k \in DOMAIN new /\ ts[m] = new[m - k]
      BY <1>1, <2>3
    <3> QED BY <1>3, <3>1
  <2>4. CASE ~(n > k) /\ ~(m > k)
    <3>1. n \in DOMAIN tasks /\ ts[n] = tasks[n] /\ m \in DOMAIN tasks /\ ts[m] = tasks[m]
      BY <1>1, <2>4
    <3> QED BY <1>3, <3>1 DEF InInv, BacklogHeldOnce
  <2> QED BY <2>1, <2>2, <2>3, <2>4
<1>4. ASSUME NEW held, Covers(tasks, held), Covers(new, held) PROVE Covers(ts, held)
  <2> SUFFICES ASSUME NEW n \in DOMAIN ts, ts[n].bundle, Claims(ts[n]), NEW i \in ts[n].of
               PROVE  Band[i] = 0 \/ i \in held
    BY DEF Covers
  <2>1. CASE n > k
    BY <1>1, <1>4, <2>1 DEF Covers
  <2>2. CASE ~(n > k)
    <3>1. n \in DOMAIN tasks /\ ts[n] = tasks[n]
      BY <1>1, <2>2
    <3> QED BY <1>4, <3>1 DEF Covers
  <2> QED BY <2>1, <2>2
<1>5. us = ts \/ Tame(ts, us)
  <2>1. ts \in Seq(InTasks) /\ us \in Scheduled(ts) \cup {ts}
    BY <1>1 DEF ts
  <2> QED BY <2>1, ScheduledTame
<1>6. CASE us = ts
  BY <1>1, <1>2, <1>3, <1>4, <1>6
<1>7. CASE Tame(ts, us)
  <2>1. us \in Seq(InTasks) /\ DOMAIN us = DOMAIN ts
    BY <1>7 DEF Tame
  <2>2. \A n \in DOMAIN us : us[n].st = "parked" => us[n].wasParked
    BY <1>2, <1>7 DEF Tame
  <2>3. \A n, m \in DOMAIN us :
               n # m /\ us[n].bundle /\ us[m].bundle /\ Claims(us[n]) /\ Claims(us[m])
               => \A i \in us[n].of \cap us[m].of : Band[i] = 0
    BY <1>3, <1>7, <2>1 DEF Tame
  <2>4. \A held : Covers(ts, held) => Covers(us, held)
    BY <1>7 DEF Tame, Covers
  <2> QED BY <1>4, <2>1, <2>2, <2>3, <2>4
<1> QED BY <1>5, <1>6, <1>7

(* A new task. *)
LEMMA NewTaskType ==
  ASSUME NEW S \in SUBSET Issues, S # {}, NEW b \in BOOLEAN
  PROVE  /\ NewTask(S, b) \in InTasks /\ NewTask(S, b).st = "queued"
         /\ NewTask(S, b).of = S /\ NewTask(S, b).bundle = b
  BY DEF NewTask, InTasks, InStates, Holding

(* With new rows, the cycle that made them ends or goes on to note them.   *)
LEMMA GrowInv ==
  ASSUME InInv, tasks' \in Seq(InTasks), InParked', BacklogHeldOnce', policy' = policy,
         NEW a \in Actors, NEW rec \in InPlaces, Goto(a, rec),
         rec.pc \in {"idle", "note"}, rec.plans = {},
         \A b \in Actors : b # a /\ at[b].pc = "plan" => Covers(tasks', at[b].view.held)
  PROVE  InInv'
<1>2. at' \in [Actors -> InPlaces] /\ \A b \in Actors : at'[b] = IF b = a THEN rec ELSE at[b]
  BY DEF Goto, InInv, InTypeInv
<1>3. InTypeInv'
  BY <1>2 DEF InInv, InTypeInv
<1>4. InHook'
  BY <1>2 DEF InInv, InHook
<1>5. InPlans'
  <2> SUFFICES ASSUME NEW b \in Actors
               PROVE  IF at'[b].pc = "plan"
                      THEN /\ Covers(tasks', at'[b].view.held)
                           /\ IsFiniteSet(at'[b].plans)
                           /\ \A p \in at'[b].plans :
                                 p # {} /\ p \cap at'[b].view.held = {} /\ \A i \in p : RepoOf[i] \notin at'[b].todo
                           /\ \A p, q \in at'[b].plans : p # q => p \cap q = {}
                      ELSE at'[b].plans = {}
    BY DEF InPlans
  <2>1. CASE b = a
    BY <1>2, <2>1
  <2>2. CASE b # a
    <3>1. at'[b] = at[b]
      BY <1>2, <2>2
    <3> QED BY <2>2, <3>1 DEF InInv, InPlans
  <2> QED BY <2>1, <2>2
<1> QED BY <1>3, <1>4, <1>5 DEF InInv

(* create_tasks_batch: the plans become bundles, whatever was created      *)
(* since the view was taken.                                               *)
LEMMA PublishInv ==
  ASSUME PollOnce, InInv, NEW a \in Pollers, Publish(a)
  PROVE  InInv'
<1> DEFINE P == at[a].plans
<1>0. /\ a \in Actors /\ a # "hook" /\ at[a] \in InPlaces /\ at[a].pc = "plan"
      /\ Goto(a, Idle) /\ policy' = policy
  BY IntakeAssumption DEF InInv, InTypeInv, Publish, Actors
<1>1. /\ Covers(tasks, at[a].view.held) /\ IsFiniteSet(P)
      /\ \A p \in P : p # {} /\ p \cap at[a].view.held = {} /\ p \subseteq Issues
      /\ \A p, q \in P : p # q => p \cap q = {}
  BY <1>0 DEF InInv, InPlans, InPlaces
<1>2. \A b \in Actors : b # a => at[b].pc # "plan"
  BY DEF PollOnce, Actors, InInv, InHook
<1>3. CASE P = {}
  <2>1. tasks' = tasks
    BY <1>3 DEF Publish
  <2> QED BY <1>0, <2>1, IdlePlace, MoveInv
<1>4. CASE P # {}
  <2>1. PICK q \in Orders(P) : tasks' \in Scheduled(tasks \o [n \in DOMAIN q |-> NewTask(q[n], TRUE)])
    BY <1>4 DEF Publish
  <2> DEFINE k == Cardinality(P)
             new == [n \in DOMAIN q |-> NewTask(q[n], TRUE)]
  <2>2. k \in Nat /\ q \in [1..k -> P] /\ DOMAIN q = 1..k /\ \A n, m \in DOMAIN q : q[n] = q[m] => n = m
    BY <1>1, OnePlaceEach
  <2> HIDE DEF k
  <2>3. ASSUME NEW n \in 1..k
        PROVE  /\ q[n] \in P /\ new[n] \in InTasks /\ new[n].st = "queued"
               /\ new[n].of = q[n] /\ new[n].bundle
    <3>1. q[n] \in P /\ new[n] = NewTask(q[n], TRUE)
      BY <2>2
    <3>2. q[n] \in SUBSET Issues /\ q[n] # {}
      BY <1>1, <3>1
    <3> QED BY <3>1, <3>2, NewTaskType
  <2>4. DOMAIN new = 1..k /\ new \in Seq(InTasks)
    <3>1. new \in [1..k -> InTasks]
      BY <2>2, <2>3
    <3>2. DOMAIN new = 1..k
      BY <2>2
    <3> HIDE DEF new
    <3> QED BY <2>2, <3>1, <3>2
  <2>5. tasks' \in Scheduled(tasks \o new)
    BY <2>1
  <2> HIDE DEF new
  <2>6. \A n, m \in DOMAIN new : n # m => new[n].of \cap new[m].of = {}
    BY <1>1, <2>2, <2>3, <2>4
  <2>7. ASSUME NEW n \in DOMAIN new, NEW m \in DOMAIN tasks, tasks[m].bundle, Claims(tasks[m]),
               NEW i \in new[n].of \cap tasks[m].of
        PROVE  Band[i] = 0
    <3>1. i \notin at[a].view.held
      BY <1>1, <2>3, <2>4
    <3> QED BY <1>1, <2>7, <3>1 DEF Covers
  <2>8. /\ tasks' \in Seq(InTasks)
        /\ \A n \in DOMAIN tasks' : tasks'[n].st = "parked" => tasks'[n].wasParked
        /\ \A n, m \in DOMAIN tasks' :
               n # m /\ tasks'[n].bundle /\ tasks'[m].bundle /\ Claims(tasks'[n]) /\ Claims(tasks'[m])
               => \A i \in tasks'[n].of \cap tasks'[m].of : Band[i] = 0
    BY <2>3, <2>4, <2>5, <2>6, <2>7, GrowKeeps
  <2>9. InParked' /\ BacklogHeldOnce'
    BY <2>8 DEF InParked, BacklogHeldOnce
  <2> QED BY <1>0, <1>2, <2>8, <2>9, IdlePlace, GrowInv
<1> QED BY <1>3, <1>4

(* _create_task_from_issue and _create_bundle_task: a task of its own      *)
(* issue, or a bundle of the business team's.                              *)
LEMMA CreateInv ==
  ASSUME InInv, NEW a \in Actors, Create(a)
  PROVE  InInv'
<1> DEFINE b == at[a].mode = "grouped"
           t == NewTask(at[a].cur, b)
           rec == [at[a] EXCEPT !.pc = "note"]
<1>0. /\ at[a] \in InPlaces /\ at[a].pc = "create" /\ at[a].plans = {} /\ policy' = policy
      /\ at[a].cur # {} /\ at[a].cur \subseteq Issues
      /\ b => \A i \in at[a].cur : Band[i] = 0
  BY DEF InInv, InTypeInv, InHook, InPlans, Create, InPlaces
<1>1. /\ t \in InTasks /\ t.st = "queued" /\ t.of = at[a].cur /\ t.bundle = b
  BY <1>0, NewTaskType
<1>2. Goto(a, rec) /\ tasks' = Append(tasks, t)
  BY DEF Create
<1>3. rec \in InPlaces /\ rec.pc = "note" /\ rec.plans = {}
  BY <1>0 DEF InPlaces
<1> HIDE DEF b, t, rec
<1> DEFINE new == <<t>>
<1>4. new \in Seq(InTasks) /\ DOMAIN new = {1} /\ new[1] = t /\ tasks' = tasks \o new
  BY <1>1, <1>2 DEF InInv, InTypeInv
<1> HIDE DEF new
<1>5. \A held : Covers(new, held)
  BY <1>0, <1>1, <1>4 DEF Covers
<1>6. \A n \in DOMAIN new, m \in DOMAIN tasks :
          new[n].bundle /\ tasks[m].bundle /\ Claims(tasks[m]) =>
              \A i \in new[n].of \cap tasks[m].of : Band[i] = 0
  BY <1>0, <1>1, <1>4
<1>7. /\ \A n \in DOMAIN new : new[n].st = "queued"
      /\ \A n, m \in DOMAIN new : n = m
  BY <1>1, <1>4
<1>8. /\ tasks' \in Seq(InTasks)
      /\ \A n \in DOMAIN tasks' : tasks'[n].st = "parked" => tasks'[n].wasParked
      /\ \A n, m \in DOMAIN tasks' :
             n # m /\ tasks'[n].bundle /\ tasks'[m].bundle /\ Claims(tasks'[n]) /\ Claims(tasks'[m])
             => \A i \in tasks'[n].of \cap tasks'[m].of : Band[i] = 0
      /\ \A held : Covers(tasks, held) /\ Covers(new, held) => Covers(tasks', held)
  <2>1. tasks' \in Scheduled(tasks \o new) \cup {tasks \o new}
    BY <1>4
  <2> QED BY <1>4, <1>6, <1>7, <2>1, GrowKeeps
<1>9. InParked' /\ BacklogHeldOnce'
  BY <1>8 DEF InParked, BacklogHeldOnce
<1>10. \A c \in Actors : c # a /\ at[c].pc = "plan" => Covers(tasks', at[c].view.held)
  BY <1>5, <1>8 DEF InInv, InPlans
<1> QED BY <1>0, <1>2, <1>3, <1>8, <1>9, <1>10, GrowInv

(* The rest of a request that creates one task. *)
LEMMA NoteInv ==
  ASSUME InInv, NEW a \in Actors, CreateFails(a) \/ Note(a)
  PROVE  InInv'
<1>0. /\ at[a] \in InPlaces /\ at[a].pc \in {"create", "note"} /\ at[a].plans = {} /\ policy' = policy
  BY DEF InInv, InTypeInv, InPlans, CreateFails, Note
<1>1. tasks' = tasks \/ Tame(tasks, tasks')
  BY ScheduledTame DEF InInv, InTypeInv, CreateFails, Note
<1> DEFINE rec == [at[a] EXCEPT !.pc = "fetch", !.cur = {}]
<1>2. Goto(a, Idle) \/ (a # "hook" /\ Goto(a, rec))
  BY DEF CreateFails, Note
<1>3. rec \in InPlaces /\ rec.pc = "fetch" /\ rec.plans = {}
  BY <1>0 DEF InPlaces
<1> HIDE DEF rec
<1>4. CASE Goto(a, Idle)
  BY <1>0, <1>1, <1>4, IdlePlace, MoveInv
<1>5. CASE a # "hook" /\ Goto(a, rec)
  BY <1>0, <1>1, <1>3, <1>5, MoveInv
<1> QED BY <1>2, <1>4, <1>5

(* The webhook, by issue and grouped. *)
LEMMA HookInv ==
  ASSUME InInv, NEW i \in Issues, HookEach(i) \/ HookGrouped(i)
  PROVE  InInv'
<1> DEFINE rec(m) == [Idle EXCEPT !.pc = "create", !.mode = m, !.cur = {i}]
<1>1. /\ "hook" \in Actors /\ tasks' = tasks /\ policy' = policy
      /\ Goto("hook", rec("each")) \/ (Band[i] = 0 /\ Goto("hook", rec("grouped")))
  BY DEF HookEach, HookGrouped, Actors
<1>2. \A m \in {"each", "grouped"} :
        /\ rec(m) \in InPlaces /\ rec(m).pc = "create" /\ rec(m).mode = m
        /\ rec(m).cur = {i} /\ rec(m).plans = {}
  BY IdlePlace DEF InPlaces
<1> HIDE DEF rec
<1>3. CASE Goto("hook", rec("each"))
  BY <1>1, <1>2, <1>3, MoveInv
<1>4. CASE Band[i] = 0 /\ Goto("hook", rec("grouped"))
  BY <1>1, <1>2, <1>4, MoveInv
<1> QED BY <1>1, <1>3, <1>4

----------------------------------------------------------------------------
(* The policy, the process and the tasks *)

(* Nothing that a sitting goes through lets a bundle claim again. *)
LEMMA SittingInv ==
  ASSUME InInv, NEW n \in DOMAIN tasks,
         Complete(n) \/ Fail(n) \/ Cancel(n) \/ CancelAck(n) \/ Park(n) \/ Answer(n)
  PROVE  InInv'
<1>0. /\ tasks[n] \in InTasks /\ (tasks[n].st = "parked" => tasks[n].wasParked)
      /\ at' = at /\ policy' = policy /\ policy \in {"off", "each", "grouped"}
  <2>1. /\ tasks[n] \in InTasks /\ (tasks[n].st = "parked" => tasks[n].wasParked)
        /\ policy \in {"off", "each", "grouped"}
    BY DEF InInv, InTypeInv, InParked
  <2>2. at' = at /\ policy' = policy
    BY DEF Complete, Fail, Cancel, CancelAck, Park, Answer
  <2> QED BY <2>1, <2>2
<1>1. PICK t \in InTasks :
        /\ Set(n, t) /\ t.of = tasks[n].of /\ t.bundle = tasks[n].bundle
        /\ t.wasParked = tasks[n].wasParked \/ t.wasParked
        /\ t.st = "parked" => t.wasParked
        /\ t.wasParked \/ tasks[n].st \in Holding
  <2>1. CASE Complete(n)
    <3>1. Set(n, [tasks[n] EXCEPT !.st = "completed"]) /\ tasks[n].st = "active"
      BY <2>1 DEF Complete
    <3> QED BY <1>0, <3>1 DEF InTasks, InStates, Holding
  <2>2. CASE Fail(n)
    <3>1. Set(n, [tasks[n] EXCEPT !.st = "failed"]) /\ tasks[n].st = "active"
      BY <2>2 DEF Fail
    <3> QED BY <1>0, <3>1 DEF InTasks, InStates, Holding
  <2>3. CASE Cancel(n)
    <3>1. PICK q \in BOOLEAN :
            Set(n, [tasks[n] EXCEPT !.requeue = q,
                    !.st = IF tasks[n].st = "active" THEN "stopping" ELSE IF q THEN "released" ELSE "retired"])
      BY <2>3 DEF Cancel
    <3>2. tasks[n].st \in {"queued", "active", "parked"}
      BY <2>3 DEF Cancel
    <3> DEFINE s == IF tasks[n].st = "active" THEN "stopping" ELSE IF q THEN "released" ELSE "retired"
               t == [tasks[n] EXCEPT !.requeue = q, !.st = s]
    <3>3. s \in InStates /\ s # "parked"
      BY DEF InStates, Holding
    <3> HIDE DEF s
    <3>4. /\ t \in InTasks /\ t.of = tasks[n].of /\ t.bundle = tasks[n].bundle
          /\ t.wasParked = tasks[n].wasParked /\ t.st = s
      BY <1>0, <3>3 DEF InTasks
    <3>5. Set(n, t)
      BY <3>1 DEF s
    <3> HIDE DEF t
    <3>6. t.wasParked \/ tasks[n].st \in Holding
      BY <1>0, <3>2, <3>4 DEF Holding
    <3> QED BY <3>3, <3>4, <3>5, <3>6
  <2>4. CASE CancelAck(n)
    <3>1. Set(n, [tasks[n] EXCEPT !.st = IF tasks[n].requeue THEN "released" ELSE "retired"])
          /\ tasks[n].st = "stopping"
      BY <2>4 DEF CancelAck
    <3> QED BY <1>0, <3>1 DEF InTasks, InStates, Holding
  <2>5. CASE Park(n)
    <3>1. Set(n, [tasks[n] EXCEPT !.st = "parked", !.wasParked = TRUE]) /\ tasks[n].st = "active"
      BY <2>5 DEF Park
    <3> QED BY <1>0, <3>1 DEF InTasks, InStates, Holding
  <2>6. CASE Answer(n)
    <3>1. Set(n, [tasks[n] EXCEPT !.st = "queued"]) /\ tasks[n].st = "parked"
      BY <2>6 DEF Answer
    <3> QED BY <1>0, <3>1 DEF InTasks, InStates, Holding
  <2> QED BY <2>1, <2>2, <2>3, <2>4, <2>5, <2>6
<1>2. Claims(t) => Claims(tasks[n])
  BY <1>0, <1>1 DEF Claims, InTasks
<1>3. Tame(tasks, tasks')
  BY <1>1, <1>2, SetTame DEF InInv
<1> QED BY <1>0, <1>3, TameInv

(* Scheduling, a policy write, a restart, and GitLab. *)
LEMMA OtherInv ==
  ASSUME InInv,
         \/ \E i \in Issues : Open(i) \/ Clear(i) \/ Close(i) \/ Ripen(i)
         \/ PutPolicy \/ Restart \/ Start \/ UNCHANGED vars
  PROVE  InInv'
<1>0. tasks \in Seq(InTasks) /\ policy \in {"off", "each", "grouped"}
  BY DEF InInv, InTypeInv
<1>1. Tame(tasks, tasks)
  BY <1>0 DEF Tame
<1>2. CASE Restart
  <2>1. tasks' = tasks /\ policy' = policy /\ at' = [a \in Actors |-> Idle]
    BY <1>2 DEF Restart
  <2>2. InTypeInv' /\ InParked' /\ BacklogHeldOnce'
    BY <2>1, IdlePlace DEF InInv, InTypeInv, InParked, BacklogHeldOnce
  <2>3. InHook' /\ InPlans'
    BY <2>1, IdlePlace DEF InHook, InPlans
  <2> QED BY <2>2, <2>3 DEF InInv
<1>3. CASE ~Restart
  <2>1. tasks' = tasks \/ tasks' \in Scheduled(tasks)
    BY <1>3 DEF Open, Clear, Close, Ripen, PutPolicy, Start, vars
  <2>2. Tame(tasks, tasks')
    BY <1>0, <1>1, <2>1, ScheduledTame
  <2>3. at' = at
    BY <1>3 DEF Open, Clear, Close, Ripen, PutPolicy, Start, vars
  <2>4. policy' \in {policy} \cup Policies
    BY <1>3 DEF Open, Clear, Close, Ripen, PutPolicy, policy_written, Start, vars
  <2>5. policy' \in {"off", "each", "grouped"}
    BY <1>0, <2>4, IntakeAssumption
  <2> QED BY <2>2, <2>3, <2>5, TameInv
<1> QED BY <1>2, <1>3

(* intake_grouping: with one polling actor, no issue of the backlog is in  *)
(* two bundles that claim it, for any issues, repositories, limits and     *)
(* faults, although a batch is published on a view taken before GitLab was *)
(* asked.                                                                  *)
THEOREM BundleSafety ==
  ASSUME PollOnce
  PROVE  Spec => []BacklogHeldOnce
<1>1. Init => InInv
  <2> SUFFICES ASSUME Init PROVE InInv
    OBVIOUS
  <2>1. InTypeInv
    BY IdlePlace, IntakeAssumption DEF Init, InTypeInv
  <2>2. InParked /\ BacklogHeldOnce
    BY DEF Init, InParked, BacklogHeldOnce
  <2>3. InHook /\ InPlans
    BY IdlePlace DEF Init, InHook, InPlans
  <2> QED BY <2>1, <2>2, <2>3 DEF InInv
<1>2. InInv /\ [Next]_vars => InInv'
  <2> SUFFICES ASSUME InInv, [Next]_vars PROVE InInv'
    OBVIOUS
  <2>1. ASSUME NEW a \in Pollers, Cycle(a) \/ PublishFails(a) PROVE InInv'
    BY <2>1, WalkInv, PlanInv, PublishInv DEF Cycle
  <2>2. ASSUME NEW a \in Pollers, NEW r \in Repos, FetchFails(a, r) \/ PlanRepoFails(a, r) PROVE InInv'
    BY <2>2, WalkInv, PlanInv
  <2>3. ASSUME NEW a \in Actors, Create(a) \/ CreateFails(a) \/ Note(a) PROVE InInv'
    BY <2>3, CreateInv, NoteInv
  <2>4. ASSUME NEW i \in Issues, HookEach(i) \/ HookGrouped(i) PROVE InInv'
    BY <2>4, HookInv
  <2>5. ASSUME NEW n \in DOMAIN tasks,
               Complete(n) \/ Fail(n) \/ Cancel(n) \/ CancelAck(n) \/ Park(n) \/ Answer(n)
        PROVE InInv'
    BY <2>5, SittingInv
  <2>6. CASE \/ \E i \in Issues : Open(i) \/ Clear(i) \/ Close(i) \/ Ripen(i)
             \/ PutPolicy \/ Restart \/ Start \/ UNCHANGED vars
    BY <2>6, OtherInv
  <2> QED BY <2>1, <2>2, <2>3, <2>4, <2>5, <2>6 DEF Next
<1>3. InInv => BacklogHeldOnce
  BY DEF InInv
<1> QED BY <1>1, <1>2, <1>3, PTL DEF Spec

----------------------------------------------------------------------------
(* Release drift: the alerts, the records and the places. *)
MoReasons == {"stalled", "commits", "max_age", "grace", "wait"}
MoAlerts == {<<>>} \cup {<<"drift", head, why>> : head \in Int, why \in MoReasons}
MoBooks == [seen : Int, head : Int, last : MoAlerts, streak : Int]
MoPlaces == [pc : {"dead", "top", "read", "fetch", "eval", "emit"},
             ack : Int, got : Int, alert : MoAlerts]

(* Only a thread that waits for hooks has an alert in hand.                *)
MoShape ==
    /\ moBook \in MoBooks
    /\ moThr \in [MoThreads -> MoPlaces]
    /\ moWorld \in [head : Int, credit : {0}, down : BOOLEAN]
    /\ moAck \in Int
    /\ \A t \in MoThreads : moThr[t].pc # "emit" => moThr[t].alert = <<>>

(* The book dates the episode as it is, and the alert it noted last, about *)
(* its head, was told or is being told.                                    *)
MoBooked ==
    /\ moBook.seen = moOld
    /\ moBook.last # <<>> =>
          /\ moBook.last[1] = "drift" /\ moBook.last[2] = moBook.head
          /\ \/ moBook.last \in moTold
             \/ \E t \in MoThreads : moThr[t].alert = moBook.last

MoInv == moKind = "drift" => MoShape /\ MoBooked

(* What the property says of a step. *)
MoToldOf(head) == \E a \in moTold' \cup {moThr'[u].alert : u \in MoThreads} :
                      a # <<>> /\ a[1] = "drift" /\ a[2] = head
MoBacked == \A t \in MoThreads :
    (/\ moKind = "drift" /\ moThr[t].pc = "eval" /\ moThr'[t].pc # "eval"
     /\ moThr[t].got \notin {0, moThr[t].ack}
     /\ moOld >= MoMax /\ moOld' >= MoMax)
    => MoToldOf(moThr[t].got)

(* The constant records are of their types, and a free place has no alert. *)
LEMMA MoConstants ==
  /\ MoDead \in MoPlaces /\ MoDead.pc = "dead" /\ MoDead.alert = <<>>
  /\ MoNoBook \in MoBooks /\ MoNoBook.last = <<>> /\ MoNoBook.seen = MoNone
  /\ MoNone \in Int /\ MoNone < 0 /\ <<>> \in MoAlerts
  /\ \A t : MoEnds(t) \in MoPlaces /\ MoEnds(t).alert = <<>> /\ MoEnds(t).pc \in {"dead", "top"}
  BY DEF MoDead, MoPlaces, MoNoBook, MoBooks, MoNone, MoAlerts, MoEnds

(* Steps that leave the alerts alone. *)
LEMMA MoStill ==
  ASSUME MoInv, moKind' = moKind, UNCHANGED <<moBook, moTold, moOld>>,
         moKind = "drift" =>
             /\ moThr' \in [MoThreads -> MoPlaces]
             /\ moWorld' \in [head : Int, credit : {0}, down : BOOLEAN] /\ moAck' \in Int
             /\ \A t \in MoThreads :
                   /\ moThr'[t].alert = moThr[t].alert
                   /\ moThr'[t].pc # "emit" => moThr'[t].alert = <<>>
                   /\ moThr[t].pc = "eval" => moThr'[t].pc = "eval"
  PROVE  MoInv' /\ MoBacked
<1>1. MoInv'
  BY DEF MoInv, MoShape, MoBooked
<1>2. MoBacked
  BY DEF MoBacked
<1> QED BY <1>1, <1>2

(* A thread that goes on before its evaluation. *)
LEMMA MoWalk ==
  ASSUME MoInv, NEW t \in MoThreads, _run(t) \/ poll_settings(t) \/ poll_fetch(t)
  PROVE  MoInv' /\ MoBacked
<1>1. /\ moKind' = moKind /\ UNCHANGED <<moBook, moTold, moOld, moWorld, moAck>>
      /\ moThr[t].pc \in {"top", "read", "fetch"}
  BY DEF _run, poll_settings, poll_fetch, moWorldVars, moAlertVars
<1>2. ASSUME moKind = "drift"
      PROVE  /\ moThr' \in [MoThreads -> MoPlaces]
             /\ \A u \in MoThreads :
                   /\ moThr'[u].alert = moThr[u].alert
                   /\ moThr'[u].pc # "emit" => moThr'[u].alert = <<>>
                   /\ moThr[u].pc = "eval" => moThr'[u].pc = "eval"
  <2>0. MoShape
    BY <1>2 DEF MoInv
  <2>1. moThr[t] \in MoPlaces /\ moThr[t].alert = <<>> /\ moThr[t].ack \in Int /\ moThr[t].got \in Int
        /\ moAck \in Int
    BY <1>1, <2>0 DEF MoShape, MoPlaces
  <2>2. PICK rec \in MoPlaces : moThr' = [moThr EXCEPT ![t] = rec] /\ rec.alert = <<>>
    <3>1. CASE _run(t)
      <4>1. [moThr[t] EXCEPT !.pc = "read"] \in MoPlaces /\ [moThr[t] EXCEPT !.pc = "read"].alert = <<>>
        BY <2>1 DEF MoPlaces
      <4>2. moThr' = [moThr EXCEPT ![t] = IF moStop THEN MoDead ELSE [moThr[t] EXCEPT !.pc = "read"]]
        BY <3>1 DEF _run
      <4> QED BY <4>1, <4>2, MoConstants
    <3>2. CASE poll_settings(t)
      <4> DEFINE r == [moThr[t] EXCEPT !.pc = "fetch", !.ack = moAck]
      <4>1. r \in MoPlaces /\ r.alert = <<>>
        BY <2>1 DEF MoPlaces
      <4>2. moThr' = [moThr EXCEPT ![t] = IF current_enabled THEN r ELSE MoEnds(t)]
        BY <3>2 DEF poll_settings
      <4> HIDE DEF r
      <4> QED BY <4>1, <4>2, MoConstants
    <3>3. CASE poll_fetch(t)
      <4> DEFINE got == _gh_main_head
                 r == [moThr[t] EXCEPT !.pc = "eval", !.got = got]
      <4>1. got \in Int
        BY <2>0, MoConstants DEF MoShape, _gh_main_head
      <4>2. r \in MoPlaces /\ r.alert = <<>>
        BY <2>1, <4>1 DEF MoPlaces
      <4>3. moThr' = [moThr EXCEPT ![t] = IF got = MoNone THEN MoEnds(t) ELSE r]
        BY <1>2, <3>3 DEF poll_fetch
      <4> HIDE DEF r, got
      <4> QED BY <4>2, <4>3, MoConstants
    <3> QED BY <3>1, <3>2, <3>3
  <2>3. moThr' \in [MoThreads -> MoPlaces] /\ \A u \in MoThreads : moThr'[u] = IF u = t THEN rec ELSE moThr[u]
    BY <2>0, <2>2 DEF MoShape
  <2> QED BY <1>1, <2>0, <2>1, <2>2, <2>3 DEF MoShape
<1> QED BY <1>1, <1>2, MoStill DEF MoInv, MoShape

(* evaluate_drift_alert and its fan-out. *)
LEMMA MoEvaluation ==
  ASSUME MoInv, moKind = "drift", NEW t \in MoThreads, poll_evaluate(t)
  PROVE  MoInv' /\ MoBacked
<1> DEFINE got == moThr[t].got
           ack == got = moThr[t].ack
<1>0. MoShape /\ MoBooked /\ moThr[t] \in MoPlaces /\ moThr[t].pc = "eval" /\ moThr[t].alert = <<>>
      /\ got \in Int /\ moBook \in MoBooks /\ moBook.seen \in Int /\ moBook.last \in MoAlerts
  BY DEF MoInv, MoShape, poll_evaluate, MoPlaces, MoBooks
<1>1. PICK commits \in commits_ahead(got) : MoRaise(t, evaluate_drift_alert(got, ack, commits))
  BY DEF poll_evaluate
<1>2. /\ UNCHANGED <<moKind, moAck, moWorld>>
      /\ moOld' = IF got = 0 THEN MoNone ELSE IF moOld = MoNone THEN 0 ELSE moOld
  BY DEF poll_evaluate, moWorldVars
<1> DEFINE dated == IF moBook.seen = MoNone THEN 0 ELSE moBook.seen
           last == IF moBook.head # got THEN <<>> ELSE moBook.last
           why == drift_reason(ack, commits, dated)
           key == <<"drift", got, why>>
           fires == why # "wait" /\ key # last
           book == IF got = 0 THEN MoNoBook
                   ELSE [moBook EXCEPT !.seen = dated, !.head = got, !.last = IF fires THEN key ELSE last]
           alert == IF got # 0 /\ fires THEN key ELSE <<>>
<1>3. evaluate_drift_alert(got, ack, commits) = [book |-> book, alert |-> alert]
  BY DEF evaluate_drift_alert
<1>4. /\ why \in MoReasons /\ key \in MoAlerts /\ key # <<>> /\ key[1] = "drift" /\ key[2] = got
      /\ last \in MoAlerts /\ dated \in Int
  <2>1. why \in MoReasons
    BY DEF drift_reason, MoReasons
  <2> HIDE DEF why
  <2> QED BY <1>0, <2>1 DEF MoAlerts
<1>5. /\ book \in MoBooks /\ alert \in MoAlerts
      /\ book.seen = IF got = 0 THEN MoNone ELSE dated
      /\ book.last = IF got = 0 THEN <<>> ELSE IF fires THEN key ELSE last
      /\ got # 0 => book.head = got
  <2> HIDE DEF why, key, dated, last
  <2> QED BY <1>0, <1>4, MoConstants DEF MoBooks
<1> HIDE DEF book
<1>6. moBook' = book /\ (alert = <<>> => moTold' = moTold /\ moThr' = [moThr EXCEPT ![t] = MoEnds(t)])
      /\ (alert # <<>> => \/ alert \in moTold' /\ moThr' = [moThr EXCEPT ![t] = MoEnds(t)]
                          \/ moThr' = [moThr EXCEPT ![t] = [moThr[t] EXCEPT !.pc = "emit", !.alert = alert]])
      /\ moTold \subseteq moTold'
  <2> HIDE DEF alert
  <2>1. /\ moBook' = book
        /\ IF alert # <<>> /\ get_hooks_for_event # {}
           THEN /\ moThr' = [moThr EXCEPT ![t].pc = "emit", ![t].alert = alert]
                /\ UNCHANGED moTold
           ELSE /\ moThr' = [moThr EXCEPT ![t] = MoEnds(t)]
                /\ moTold' = moTold \cup ({alert} \ {<<>>})
    BY <1>1, <1>3 DEF MoRaise
  <2>2. [moThr EXCEPT ![t].pc = "emit", ![t].alert = alert]
        = [moThr EXCEPT ![t] = [moThr[t] EXCEPT !.pc = "emit", !.alert = alert]]
    BY <1>0 DEF MoShape
  <2> QED BY <2>1, <2>2
<1> HIDE DEF alert
<1>7. PICK rec \in MoPlaces :
        /\ moThr' = [moThr EXCEPT ![t] = rec] /\ (rec.pc # "emit" => rec.alert = <<>>) /\ rec.pc # "eval"
        /\ alert # <<>> => alert \in moTold' \/ rec.alert = alert
  <2>1. CASE moThr' = [moThr EXCEPT ![t] = MoEnds(t)] /\ (alert # <<>> => alert \in moTold')
    BY <2>1, MoConstants
  <2>2. CASE moThr' = [moThr EXCEPT ![t] = [moThr[t] EXCEPT !.pc = "emit", !.alert = alert]]
    <3> DEFINE r == [moThr[t] EXCEPT !.pc = "emit", !.alert = alert]
    <3>1. r \in MoPlaces /\ r.pc = "emit" /\ r.alert = alert
      BY <1>0, <1>5 DEF MoPlaces
    <3> HIDE DEF r
    <3> QED BY <2>2, <3>1 DEF r
  <2> QED BY <1>6, <2>1, <2>2
<1>8. moThr' \in [MoThreads -> MoPlaces] /\ \A u \in MoThreads : moThr'[u] = IF u = t THEN rec ELSE moThr[u]
  BY <1>0, <1>7 DEF MoShape
<1>9. MoShape'
  BY <1>0, <1>2, <1>5, <1>6, <1>7, <1>8 DEF MoShape
(* An alert that was raised before is still told or in hand. *)
<1>10. ASSUME moBook.last # <<>>
       PROVE  moBook.last \in moTold' \/ \E u \in MoThreads : moThr'[u].alert = moBook.last
  <2>1. CASE moBook.last \in moTold
    BY <1>6, <2>1
  <2>2. CASE \E u \in MoThreads : moThr[u].alert = moBook.last
    <3>1. PICK u \in MoThreads : moThr[u].alert = moBook.last
      BY <2>2
    <3>2. u # t
      BY <1>0, <1>10, <3>1
    <3> QED BY <1>8, <3>1, <3>2
  <2> QED BY <1>0, <1>10, <2>1, <2>2 DEF MoBooked
<1>11. ASSUME got # 0, book.last # <<>>
       PROVE  /\ book.last[1] = "drift" /\ book.last[2] = got
              /\ book.last \in moTold' \/ \E u \in MoThreads : moThr'[u].alert = book.last
  <2>1. CASE fires
    <3>1. alert = key /\ book.last = key
      BY <1>5, <1>11, <2>1 DEF alert
    <3> HIDE DEF key
    <3> QED BY <1>4, <1>7, <1>8, <3>1
  <2>2. CASE ~fires
    <3>1. moBook.head = got /\ book.last = moBook.last /\ moBook.last # <<>>
      BY <1>5, <1>11, <2>2
    <3> QED BY <1>0, <1>10, <3>1 DEF MoBooked
  <2> QED BY <2>1, <2>2
<1>12. MoBooked'
  <2>1. moBook'.seen = moOld'
    BY <1>0, <1>2, <1>5, <1>6 DEF MoBooked
  <2>2. CASE got = 0
    BY <1>5, <1>6, <2>1, <2>2 DEF MoBooked
  <2>3. CASE got # 0
    <3>1. moBook'.head = got /\ moBook' = book
      BY <1>5, <1>6, <2>3
    <3> QED BY <1>11, <2>1, <2>3, <3>1 DEF MoBooked
  <2> QED BY <2>2, <2>3
<1>13. MoBacked
  <2> SUFFICES ASSUME NEW u \in MoThreads, moThr[u].pc = "eval", moThr'[u].pc # "eval",
                      moThr[u].got \notin {0, moThr[u].ack}, moOld >= MoMax
               PROVE  MoToldOf(moThr[u].got)
    BY DEF MoBacked
  <2>1. u = t /\ got # 0 /\ ~ack
    BY <1>8
  <2>2. moOld # MoNone /\ dated = moOld /\ moOld \in Int
    BY <1>0, MoConstants, MoAssumption DEF MoBooked
  <2>3. why # "wait"
    BY <2>1, <2>2 DEF drift_reason
  <2> HIDE DEF why
  <2>4. book.last = key
    BY <1>5, <2>1, <2>3
  <2>5. key \in moTold' \/ \E v \in MoThreads : moThr'[v].alert = key
    BY <1>4, <1>11, <2>1, <2>4
  <2> HIDE DEF key
  <2> QED BY <1>4, <2>1, <2>5 DEF MoToldOf
<1> QED BY <1>2, <1>9, <1>12, <1>13 DEF MoInv

(* start and manual_poll: a place that was free is taken.                   *)
LEMMA MoSpawn ==
  ASSUME MoInv, (\E a \in {"put", "sup"} : start(a)) \/ manual_poll
  PROVE  MoInv' /\ MoBacked
<1>1. moKind' = moKind /\ UNCHANGED <<moBook, moTold, moOld, moWorld, moAck>>
  BY DEF start, manual_poll, moWorldVars, moAlertVars
<1>2. PICK t \in MoThreads, pc \in {"top", "read"} :
        moThr[t].pc = "dead" /\ moThr' = [moThr EXCEPT ![t].pc = pc]
  BY MoAssumption DEF start, manual_poll, MoAlive, MoThreads, MoNobody
<1>3. ASSUME moKind = "drift"
      PROVE  /\ moThr' \in [MoThreads -> MoPlaces]
             /\ \A u \in MoThreads :
                   /\ moThr'[u].alert = moThr[u].alert
                   /\ moThr'[u].pc # "emit" => moThr'[u].alert = <<>>
                   /\ moThr[u].pc = "eval" => moThr'[u].pc = "eval"
  <2>0. MoShape /\ moThr[t] \in MoPlaces /\ moThr[t].alert = <<>>
    BY <1>2, <1>3 DEF MoInv, MoShape
  <2> DEFINE r == [moThr[t] EXCEPT !.pc = pc]
  <2>1. r \in MoPlaces /\ r.alert = <<>>
    BY <2>0 DEF MoPlaces
  <2>2. moThr' = [moThr EXCEPT ![t] = r]
    BY <1>2
  <2> HIDE DEF r
  <2>3. moThr' \in [MoThreads -> MoPlaces] /\ \A u \in MoThreads : moThr'[u] = IF u = t THEN r ELSE moThr[u]
    BY <2>0, <2>1, <2>2 DEF MoShape
  <2> QED BY <1>2, <2>0, <2>1, <2>3 DEF MoShape
<1> QED BY <1>1, <1>3, MoStill DEF MoInv, MoShape

(* emit_alert: an alert that was being told has been told.                  *)
LEMMA MoFanOut ==
  ASSUME MoInv, NEW t \in MoThreads, emit_alert(t)
  PROVE  MoInv' /\ MoBacked
<1>1. /\ moKind' = moKind /\ UNCHANGED <<moBook, moOld, moWorld, moAck>>
      /\ moTold' = moTold \cup {moThr[t].alert} /\ moThr' = [moThr EXCEPT ![t] = MoEnds(t)]
      /\ moThr[t].pc = "emit"
  BY DEF emit_alert, moWorldVars
<1> SUFFICES ASSUME moKind = "drift"
             PROVE  MoInv' /\ MoBacked
  BY <1>1 DEF MoInv, MoBacked
<1>2. MoShape /\ MoBooked
  BY DEF MoInv
<1>3. moThr' \in [MoThreads -> MoPlaces]
      /\ \A u \in MoThreads : moThr'[u] = IF u = t THEN MoEnds(t) ELSE moThr[u]
  BY <1>1, <1>2, MoConstants DEF MoShape
<1>4. MoShape'
  BY <1>1, <1>2, <1>3, MoConstants DEF MoShape
<1>5. MoBooked'
  BY <1>1, <1>2, <1>3 DEF MoBooked
<1>6. MoBacked
  BY <1>1, <1>3 DEF MoBacked
<1> QED BY <1>4, <1>5, <1>6 DEF MoInv

(* MoBoot: the book, the places and what was told start empty.              *)
LEMMA MoRestarted ==
  ASSUME MoInv, NEW redeploy \in BOOLEAN, MoRestart(redeploy)
  PROVE  MoInv' /\ MoBacked
<1>1. /\ moKind' = moKind /\ moAck' = moAck /\ moBook' = MoNoBook /\ moOld' = MoNone
      /\ moWorld' = IF redeploy THEN [moWorld EXCEPT !.head = 0] ELSE moWorld
  BY DEF MoRestart, MoBoot
<1> DEFINE top == [MoDead EXCEPT !.pc = "top"]
<1>2. top \in MoPlaces /\ top.alert = <<>>
  BY MoConstants DEF MoPlaces
<1>3. PICK first : moThr' = [t \in MoThreads |-> IF moOn /\ t = first THEN top ELSE MoDead]
  BY DEF MoRestart, MoBoot
<1> HIDE DEF top
<1>4. moThr' \in [MoThreads -> MoPlaces] /\ \A t \in MoThreads : moThr'[t].alert = <<>>
  BY <1>2, <1>3, MoConstants
<1>5. moKind = "drift" => MoShape' /\ MoBooked'
  BY <1>1, <1>4, MoConstants DEF MoInv, MoShape, MoBooked
<1>6. MoBacked
  BY <1>1, MoConstants, MoAssumption DEF MoBacked
<1> QED BY <1>1, <1>5, <1>6 DEF MoInv

(* MoTick: the book and the episode grow older together.                    *)
LEMMA MoAges ==
  ASSUME MoInv, MoTick
  PROVE  MoInv' /\ MoBacked
<1> DEFINE older(a) == IF a \in {MoNone, MoFar} THEN a ELSE a + 1
<1>1. /\ moKind' = moKind /\ UNCHANGED <<moThr, moTold, moWorld, moAck>>
      /\ moBook' = [moBook EXCEPT !.seen = older(@)] /\ moOld' = older(moOld)
  BY DEF MoTick, moWorldVars
<1>2. MoBacked
  BY <1>1 DEF MoBacked
<1> SUFFICES ASSUME moKind = "drift"
             PROVE  MoInv'
  BY <1>1, <1>2 DEF MoInv
<1>3. MoShape /\ MoBooked /\ moBook \in MoBooks /\ moBook.seen \in Int
  BY DEF MoInv, MoShape, MoBooks
<1>4. older(moBook.seen) \in Int
  BY <1>3
<1> HIDE DEF older
<1>5. /\ moBook' \in MoBooks /\ moBook'.seen = older(moBook.seen)
      /\ moBook'.last = moBook.last /\ moBook'.head = moBook.head
  BY <1>1, <1>3, <1>4 DEF MoBooks
<1>6. MoShape'
  BY <1>1, <1>3, <1>5 DEF MoShape
<1>7. MoBooked'
  BY <1>1, <1>3, <1>5 DEF MoBooked
<1> QED BY <1>6, <1>7 DEF MoInv

(* What the operator, the world and the hooks do to the monitor.            *)
LEMMA MoOutside ==
  ASSUME MoInv,
         \/ \E on \in BOOLEAN, ack \in 0..MoHeads : update_config(on, ack)
         \/ _supervise \/ stop
         \/ \E a \in {"put", "sup"} : start_check(a)
         \/ \E t \in MoThreads, h \in HkIds : deliver(t, h)
         \/ \E h \in HkIds : register(h) \/ deregister(h)
         \/ MoMerge \/ MoOutage
         \/ \E c \in {0} \cup MoCredits : MoSpend(c)
         \/ UNCHANGED moVars
  PROVE  MoInv' /\ MoBacked
<1>1. moKind' = moKind /\ UNCHANGED <<moBook, moTold, moOld, moThr>>
  BY DEF update_config, _supervise, stop, start_check, deliver, register, deregister,
         MoMerge, MoOutage, MoSpend, moWorldVars, moAlertVars, moVars
<1>2. ASSUME moKind = "drift"
      PROVE  moAck' \in Int
  <2>1. moAck' = moAck \/ moAck' \in 0..MoHeads
    BY DEF update_config, _supervise, stop, start_check, deliver, register,
           deregister, MoMerge, MoOutage, MoSpend, moWorldVars, moVars
  <2>2. moAck \in Int
    BY <1>2 DEF MoInv, MoShape
  <2>3. \A n \in 0..MoHeads : n \in Int
    OBVIOUS
  <2> QED BY <2>1, <2>2, <2>3
<1>3. ASSUME moKind = "drift"
      PROVE  moWorld' \in [head : Int, credit : {0}, down : BOOLEAN]
  <2>0. moWorld \in [head : Int, credit : {0}, down : BOOLEAN]
    BY <1>3 DEF MoInv, MoShape
  <2>1. CASE MoMerge
    BY <2>0, <2>1 DEF MoMerge
  <2>2. CASE MoOutage
    BY <2>0, <2>2 DEF MoOutage
  <2>3. CASE ~MoMerge /\ ~MoOutage
    <3>1. moWorld' = moWorld
      BY <1>3, <2>3 DEF update_config, _supervise, stop, start_check, deliver, register,
         deregister, MoSpend, moWorldVars, moVars
    <3> QED BY <2>0, <3>1
  <2> QED BY <2>1, <2>2, <2>3
<1> QED BY <1>1, <1>2, <1>3, MoStill DEF MoInv, MoShape

(* A metering monitor stays one.                                            *)
LEMMA MoMetering ==
  ASSUME moKind # "drift", [MoNext]_moVars
  PROVE  MoInv' /\ MoBacked
<1>1. moKind' = moKind
  BY DEF MoNext, MoThreadStep, MoActorStep, update_config, _supervise, stop, start_check, start,
         MoRestart, manual_poll, _run, poll_settings, poll_fetch, poll_evaluate, emit_alert,
         deliver, register, deregister, MoMerge, MoOutage, MoTick, MoSpend, moWorldVars, moVars
<1> QED BY <1>1 DEF MoInv, MoBacked

(* Every step keeps the invariant and is backed.                           *)
LEMMA MoNextInv ==
  ASSUME MoInv, [MoNext]_moVars
  PROVE  MoInv' /\ MoBacked
<1>1. CASE moKind # "drift"
  BY <1>1, MoMetering
<1>2. CASE moKind = "drift"
  <2>1. CASE \E t \in MoThreads : _run(t) \/ poll_settings(t) \/ poll_fetch(t)
    BY <2>1, MoWalk
  <2>2. CASE \E t \in MoThreads : poll_evaluate(t)
    BY <1>2, <2>2, MoEvaluation
  <2>3. CASE \E t \in MoThreads : emit_alert(t)
    BY <2>3, MoFanOut
  <2>4. CASE (\E a \in {"put", "sup"} : start(a)) \/ manual_poll
    BY <2>4, MoSpawn
  <2>5. CASE \E redeploy \in BOOLEAN : MoRestart(redeploy)
    BY <2>5, MoRestarted
  <2>6. CASE MoTick
    BY <2>6, MoAges
  <2>7. CASE \/ \E on \in BOOLEAN, ack \in 0..MoHeads : update_config(on, ack)
             \/ _supervise \/ stop
             \/ \E a \in {"put", "sup"} : start_check(a)
             \/ \E t \in MoThreads, h \in HkIds : deliver(t, h)
             \/ \E h \in HkIds : register(h) \/ deregister(h)
             \/ MoMerge \/ MoOutage
             \/ \E c \in {0} \cup MoCredits : MoSpend(c)
             \/ UNCHANGED moVars
    BY <2>7, MoOutside
  <2> QED BY <2>1, <2>2, <2>3, <2>4, <2>5, <2>6, <2>7 DEF MoNext, MoThreadStep, MoActorStep
<1> QED BY <1>1, <1>2

(* A process that starts has told nothing and noted nothing.               *)
LEMMA MoInitInv == MoInit => MoInv
<1> SUFFICES ASSUME MoInit, moKind = "drift"
             PROVE  MoShape /\ MoBooked
  BY DEF MoInv
<1>1. moWorld \in [head : Int, credit : {0}, down : BOOLEAN]
  BY DEF MoInit
<1>2. moThr \in [MoThreads -> MoPlaces] /\ \A t \in MoThreads : moThr[t].alert = <<>>
  BY MoConstants DEF MoInit
<1>3. moBook = MoNoBook /\ moOld = MoNone /\ moAck = 0
  BY DEF MoInit
<1> QED BY <1>1, <1>2, <1>3, MoConstants DEF MoShape, MoBooked

(* MoBackstop: however a drift creeps, one commit at a time, a cycle that  *)
(* finds an unacknowledged head when the episode is older than max_age_s   *)
(* leaves an alert about that head told or in a thread's hand, whatever    *)
(* restarts, reconfigurations, outages and second threads went before.     *)
THEOREM BackstopSafety == MoSpec => MoBackstop
<1> DEFINE Told ==
      \A t \in MoThreads :
        (/\ moKind = "drift" /\ moThr[t].pc = "eval" /\ moThr'[t].pc # "eval"
         /\ moThr[t].got \notin {0, moThr[t].ack}
         /\ moOld >= MoMax /\ moOld' >= MoMax)
        => \E a \in moTold' \cup {moThr'[u].alert : u \in MoThreads} :
              a # <<>> /\ a[1] = "drift" /\ a[2] = moThr[t].got
<1>1. MoInit => MoInv
  BY MoInitInv
<1>2. MoInv /\ [MoNext]_moVars => MoInv'
  BY MoNextInv
<1>3. MoInv /\ [MoNext]_moVars => [Told]_moVars
  BY MoNextInv DEF MoBacked, MoToldOf
<1> QED BY <1>1, <1>2, <1>3, PTL DEF MoSpec, MoBackstop
=============================================================================
