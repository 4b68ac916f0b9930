------------------------------- MODULE Gates -------------------------------
(***************************************************************************)
(* The landing gate (core/landing_gate.py), the reviewer gate              *)
(* (core/reviewer_gate.py) and the ballots (core/ballot.py,                *)
(* core/ballot_wiring.py), with the endpoints of routers/tasks.py and the  *)
(* sweep of the SQLite store that call them.                               *)
(*                                                                         *)
(* The rows are reviews of one merge request and landings of it.  A review *)
(* of GtForeign belongs to another project whose path ends alike and whose *)
(* request has the same number: _reviewer_of takes it for one of ours.     *)
(* Nodes are TaskBoard's: here a row has an assignee and a live lease or   *)
(* it has not, a ready row without a lease may start at any time, and a    *)
(* recovery may re-queue any open row that has had a lease.  A request the *)
(* code answers between two of its writes is one step; so is the first     *)
(* write of claim and of release, after which SQLite's store raises.       *)
(***************************************************************************)
EXTENDS Naturals, Sequences

CONSTANTS
    GtReviews, GtForeign, GtLands,
    GtLane,       \* lane_key of each row
    GtTarget,     \* the lane "<repo>!<n>"
    GtDeps,       \* depends_on of each row
    GtNames,      \* the shas a landing's title names
    GtHeads,      \* heads of our merge request; 0 is none, 9 a foreign one
    GtRetryLimit,
    GtMaxCalls    \* bound on requests

ASSUME GtAssumption ==
    /\ GtForeign \subseteq GtReviews /\ GtReviews \cap GtLands = {}
    /\ GtDeps \in [GtReviews \cup GtLands -> SUBSET (GtReviews \cup GtLands)]
    /\ GtNames \in [GtLands -> SUBSET GtHeads]
    /\ GtHeads \cap {0, 9} = {}
    /\ GtRetryLimit \in Nat /\ GtMaxCalls \in Nat

VARIABLES
    gtRow,        \* status, result, attempts and ballot of each row, whether
                  \* it is assigned, has a live lease, and ever had one
    gtOrder,      \* completed reviews, by updated_at
    gtAuthors,    \* lanes with a bundle that carries the merge request
    gtTodo,       \* dependents _trigger_downstream has yet to look at
    gtNow,        \* what it decided for one of them
    gtLast,       \* the verdict our reviewers delivered last
    gtTouched,    \* whether a completed review was written to since
    gtCalls

gtVars == <<gtRow, gtOrder, gtAuthors, gtTodo, gtNow, gtLast, gtTouched, gtCalls>>

GtRows == GtReviews \cup GtLands
GtClosed == {"completed", "failed", "cancelled"}
GtTerminal == GtClosed \cup {"cancel_requested"}
GtNobody == [form |-> "bare", verdict |-> "none", sha |-> 0]
GtNoBallot == [ask |-> "none", formal |-> "none"]
GtNothing == [land |-> "none", to |-> "none"]

(* What a reviewer may deliver: "Verdict: ..." with or without a head, the *)
(* word in a heading, a bounce, a promoted transcript, or no verdict.      *)
GtBodies(x) ==
    LET heads == IF x \in GtForeign THEN {9} ELSE GtHeads
    IN  {[form |-> "label", verdict |-> v, sha |-> s] : v \in {"PASS", "NEEDS-CHANGES"}, s \in heads}
        \cup {[form |-> "label", verdict |-> "PASS", sha |-> 0],
              [form |-> "line", verdict |-> "PASS", sha |-> 0],
              [form |-> "line", verdict |-> "NOT-READY", sha |-> 0],
              GtNobody}
        \cup {[form |-> "promoted", verdict |-> "PASS", sha |-> s] : s \in heads}

GtInit ==
    /\ gtRow = [x \in GtRows |-> [st |-> "none", body |-> GtNobody, tries |-> 0,
                                  ballot |-> GtNoBallot,
                                  on |-> FALSE, lease |-> FALSE, held |-> FALSE]]
    /\ gtOrder = <<>>
    /\ gtAuthors = {}
    /\ gtTodo = {}
    /\ gtNow = GtNothing
    /\ gtLast = GtNobody
    /\ gtTouched = FALSE
    /\ gtCalls = 0

----------------------------------------------------------------------------
(* The gates *)

(* landing_artifact: every landing of the model names the merge request. *)
landing_artifact(x) == x \in GtLands

(* The landing gate reads labelled verdicts, with the sha they are pinned  *)
(* at, and does not know NOT-READY.                                        *)
parse_reviewer_verdict(b) ==
    IF b.form \in {"label", "promoted"} THEN b ELSE GtNobody

(* The reviewer gate also reads headings, and no promoted transcript. *)
reviewer_verdict(b) == IF b.form \in {"bare", "promoted"} THEN "none" ELSE b.verdict

_is_landing_row(x) == landing_artifact(x)

reviewer_completion_veto(x, b) == ~_is_landing_row(x) /\ reviewer_verdict(b) = "none"

(* Completed reviews of the merge request, told by project tail and number. *)
_reviewer_of(rows, x) == x \in GtReviews /\ rows[x].st = "completed"

(* The review completed (or written to) last. *)
latest_reviewer_verdict(rows) ==
    LET done == {i \in DOMAIN gtOrder : _reviewer_of(rows, gtOrder[i])}
        last == CHOOSE i \in done : \A j \in done : j <= i
    IN  IF done = {} THEN GtNobody ELSE parse_reviewer_verdict(rows[gtOrder[last]].body)

authoring_lanes == gtAuthors

Mut_hold_reason(rows, x) ==
    /\ landing_artifact(x)
    /\ \/ GtLane[x] \in {GtTarget} \cup authoring_lanes
       \/ ~\E r \in GtReviews :
              /\ _reviewer_of(rows, r)
              /\ parse_reviewer_verdict(rows[r].body).verdict = "PASS"
              /\ rows[r].body.sha \in GtNames[x]

(* Why a row must not become ready. *)
hold_reason(rows, x) ==
    LET v == latest_reviewer_verdict(rows)
    IN  /\ landing_artifact(x)
        /\ \/ GtLane[x] = GtTarget
           \/ GtLane[x] \in authoring_lanes
           \/ v.verdict # "PASS"
           \/ v.sha = 0
           \/ v.sha \notin GtNames[x]

DepsDone(rows, x) == \A d \in GtDeps[x] : rows[d].st = "completed"

(* trigger_pending_tasks: one transaction of the store. *)
trigger_pending_tasks(rows) ==
    [x \in GtRows |->
        IF rows[x].st = "pending" /\ DepsDone(rows, x) /\ ~hold_reason(rows, x)
        THEN [rows[x] EXCEPT !.st = "ready"] ELSE rows[x]]

(* A cancel asks the holder of a lease to stop. *)
Asked(r) == IF r.lease THEN "cancel_requested" ELSE "cancelled"

(* A status written with the lease revoked. *)
Closed(x, s) == [gtRow EXCEPT ![x].st = s, ![x].lease = FALSE]

(* requeue_task: the lease is revoked and the row unassigned. *)
Requeued(x) == [gtRow EXCEPT ![x].st = "ready", ![x].tries = @ + 1,
                             ![x].on = FALSE, ![x].lease = FALSE]

(* _cascade_cancel_dependents: a leased dependent is asked to stop. *)
Cascaded(rows, x) ==
    [y \in GtRows |->
        IF x \in GtDeps[y] /\ rows[y].st \notin GtTerminal \cup {"none"}
        THEN [rows[y] EXCEPT !.st = Asked(rows[y]), !.lease = FALSE]
        ELSE rows[y]]

----------------------------------------------------------------------------
(* The ballots *)

(* build_ballot raises for a blank question, no options, an unknown class  *)
(* or a malformed reference to a formal decision.                          *)
build_ballot(ask) ==
    IF ask = "malformed" THEN {} ELSE {[ask |-> ask, formal |-> "none"]}

formal_actuation(b) == IF b.ask = "ref" THEN "formal-resolvable" ELSE "needs-actuation"

(* record_answer refuses a second answer. *)
record_answer(b) ==
    IF b.formal # "none" THEN {} ELSE {[b EXCEPT !.formal = formal_actuation(b)]}

----------------------------------------------------------------------------
(* The requests: the event loop serves one at a time. *)

GtCall ==
    /\ gtCalls < GtMaxCalls /\ gtCalls' = gtCalls + 1
    /\ gtTodo = {} /\ gtNow = GtNothing

GtStill == UNCHANGED <<gtOrder, gtAuthors, gtTodo, gtNow, gtLast, gtTouched>>

(* submit_task: one live reviewer a lane (#898), a blocked one not         *)
(* counting; a landing in a lane of its own (#914); dependencies that      *)
(* exist; then the sweep.                                                  *)
GtLiveReviewer == {"pending", "ready", "running", "cancel_requested"}

submit_task(x) ==
    /\ GtCall
    /\ gtRow[x].st = "none"
    /\ x \in GtReviews =>
           \A r \in GtReviews : GtLane[r] = GtLane[x] => gtRow[r].st \notin GtLiveReviewer
    /\ landing_artifact(x) => GtLane[x] \notin {GtTarget} \cup authoring_lanes
    /\ \A d \in GtDeps[x] : gtRow[d].st # "none"
    /\ gtRow' = trigger_pending_tasks([gtRow EXCEPT ![x].st = "pending"])
    /\ GtStill

(* The refused completion of a reviewer (#919): re-queued up to the cap,   *)
(* then failed with its dependents.                                        *)
Refused(x) ==
    IF gtRow[x].tries < GtRetryLimit
    THEN Requeued(x)
    ELSE Cascaded(Closed(x, "failed"), x)

(* complete_task.  The dependents are looked at one by one afterwards. *)
complete_task(x, b) ==
    /\ GtCall
    /\ gtRow[x].st \notin GtClosed \cup {"none"}
    /\ \/ /\ gtRow[x].st = "cancel_requested"
          /\ gtRow' = Closed(x, "cancelled")
          /\ GtStill
       \/ /\ gtRow[x].st # "cancel_requested"
          /\ reviewer_completion_veto(x, b)
          /\ gtRow' = Refused(x)
          /\ GtStill
       \/ /\ gtRow[x].st # "cancel_requested"
          /\ ~reviewer_completion_veto(x, b)
          /\ gtRow' = [Closed(x, "completed") EXCEPT ![x].body = b]
          /\ gtOrder' = IF x \in GtReviews THEN Append(gtOrder, x) ELSE gtOrder
          /\ gtTodo' = {y \in GtRows : x \in GtDeps[y]}
          /\ gtLast' = IF x \in GtReviews \ GtForeign THEN b ELSE gtLast
          /\ UNCHANGED <<gtAuthors, gtNow, gtTouched>>

(* fail_task: the acknowledgement of a cancel; a re-queue, when the worker *)
(* asks for one, below the cap, and no gate is asked, whatever the row's   *)
(* status was; or a failure that consumes the row, when none is asked, at  *)
(* the cap or when the store raises, and cancels its dependents.           *)
fail_task(x) ==
    /\ GtCall
    /\ gtRow[x].st \notin GtClosed \cup {"none"}
    /\ \/ /\ gtRow[x].st = "cancel_requested"
          /\ gtRow' = [gtRow EXCEPT ![x].st = "cancelled"]
       \/ /\ gtRow[x].st # "cancel_requested" /\ gtRow[x].tries < GtRetryLimit
          /\ gtRow' = Requeued(x)
       \/ /\ gtRow[x].st # "cancel_requested"
          /\ gtRow' = Cascaded(Closed(x, "failed"), x)
    /\ GtStill

cancel_task(x) ==
    /\ GtCall
    /\ gtRow[x].st \notin GtTerminal \cup {"none"}
    /\ gtRow' = Cascaded(Closed(x, Asked(gtRow[x])), x)
    /\ GtStill

(* claim_task, up to the write of running. *)
claim_task(x) ==
    /\ GtCall
    /\ gtRow[x].st = "ready" /\ ~gtRow[x].on
    /\ gtRow' = [gtRow EXCEPT ![x].st = "running"]
    /\ GtStill

(* release_task of an assigned row: ready, whatever its status was, and    *)
(* still assigned.  A completed review stops counting.                     *)
release_task(x) ==
    /\ GtCall
    /\ gtRow[x].on
    /\ gtRow' = Closed(x, "ready")
    /\ IF x \in GtReviews /\ gtRow[x].st = "completed"
       THEN gtOrder' = SelectSeq(gtOrder, LAMBDA y : y # x) /\ gtTouched' = TRUE
       ELSE UNCHANGED <<gtOrder, gtTouched>>
    /\ UNCHANGED <<gtAuthors, gtTodo, gtNow, gtLast>>

block_task(x, ask) ==
    /\ GtCall
    /\ gtRow[x].st \notin GtTerminal \cup {"blocked", "none"}
    /\ \E b \in build_ballot(ask) :
           gtRow' = [Closed(x, "blocked") EXCEPT ![x].ballot = b]
    /\ GtStill

(* answer_task writes ready, whatever the gate would say. *)
answer_task(x) ==
    /\ GtCall
    /\ gtRow[x].st = "blocked" /\ gtRow[x].ballot # GtNoBallot
    /\ \E b \in record_answer(gtRow[x].ballot) :
           gtRow' = [gtRow EXCEPT ![x].st = "ready", ![x].ballot = b]
    /\ GtStill

unblock_task(x) ==
    /\ GtCall
    /\ gtRow[x].st = "blocked"
    /\ gtRow' = [gtRow EXCEPT ![x].st = "pending"]
    /\ GtStill

(* manual_advance: the operator's override, on met dependencies. *)
manual_advance(x) ==
    /\ GtCall
    /\ gtRow[x].st \notin GtTerminal \cup {"none"}
    /\ DepsDone(gtRow, x)
    /\ gtRow' = [gtRow EXCEPT ![x].st = "ready"]
    /\ GtStill

(* set_dependencies, to the same list: it demotes a ready row that has     *)
(* some, and writes updated_at, which makes a completed review the latest. *)
set_dependencies(x) ==
    /\ GtCall
    /\ gtRow[x].st # "none"
    /\ gtRow' = IF gtRow[x].st = "ready" /\ GtDeps[x] # {}
                THEN [gtRow EXCEPT ![x].st = "pending"] ELSE gtRow
    /\ IF x \in GtReviews /\ gtRow[x].st = "completed"
       THEN gtOrder' = Append(SelectSeq(gtOrder, LAMBDA y : y # x), x) /\ gtTouched' = TRUE
       ELSE UNCHANGED <<gtOrder, gtTouched>>
    /\ UNCHANGED <<gtAuthors, gtTodo, gtNow, gtLast>>

----------------------------------------------------------------------------
(* _trigger_downstream decides on one read of the board and writes next;   *)
(* other threads sweep, start rows and create bundles in between.          *)

DownCheck(x) ==
    /\ gtNow = GtNothing /\ x \in gtTodo
    /\ gtTodo' = gtTodo \ {x}
    /\ gtNow' = IF gtRow[x].st = "pending" /\ DepsDone(gtRow, x) /\ ~hold_reason(gtRow, x)
                THEN [land |-> x, to |-> "ready"] ELSE gtNow
    /\ UNCHANGED <<gtRow, gtOrder, gtAuthors, gtLast, gtTouched, gtCalls>>

DownWrite ==
    /\ gtNow # GtNothing
    /\ gtRow' = [gtRow EXCEPT ![gtNow.land].st = gtNow.to]
    /\ gtNow' = GtNothing
    /\ UNCHANGED <<gtOrder, gtAuthors, gtTodo, gtLast, gtTouched, gtCalls>>

----------------------------------------------------------------------------
(* Threads *)

(* A scheduling pass starts a ready row that has no lease, with one. *)
GtStart(x) ==
    /\ gtRow[x].st = "ready" /\ ~gtRow[x].lease
    /\ gtRow' = [gtRow EXCEPT ![x].st = "running", ![x].on = TRUE,
                              ![x].lease = TRUE, ![x].held = TRUE]
    /\ GtStill /\ UNCHANGED gtCalls

(* A lease lapses and is marked, or a recovery revokes it. *)
GtLapse(x) ==
    /\ gtRow[x].lease
    /\ gtRow' = [gtRow EXCEPT ![x].lease = FALSE]
    /\ GtStill /\ UNCHANGED gtCalls

(* A recovery re-queues a task it found under a lease and that has none    *)
(* now, with no gate.                                                      *)
unassign_task(x) ==
    /\ gtCalls < GtMaxCalls /\ gtCalls' = gtCalls + 1
    /\ gtRow[x].held /\ ~gtRow[x].lease /\ gtRow[x].st \notin GtTerminal
    /\ gtRow' = [gtRow EXCEPT ![x].st = "ready", ![x].on = FALSE]
    /\ GtStill

GtSweep ==
    /\ gtRow' = trigger_pending_tasks(gtRow) /\ gtRow' # gtRow
    /\ GtStill /\ UNCHANGED gtCalls

(* The intake publishes a bundle of lane w that carries the merge request. *)
GtAuthor(w) ==
    /\ gtCalls < GtMaxCalls /\ gtCalls' = gtCalls + 1
    /\ w \notin gtAuthors
    /\ gtAuthors' = gtAuthors \cup {w}
    /\ UNCHANGED <<gtRow, gtOrder, gtTodo, gtNow, gtLast, gtTouched>>

GtNext ==
    \/ \E x \in GtRows :
          \/ submit_task(x) \/ fail_task(x) \/ cancel_task(x)
          \/ claim_task(x) \/ release_task(x)
          \/ answer_task(x) \/ unblock_task(x)
          \/ manual_advance(x) \/ set_dependencies(x)
          \/ DownCheck(x) \/ GtStart(x) \/ GtLapse(x) \/ unassign_task(x)
    \/ \E x \in GtRows, ask \in {"plain", "ref", "malformed"} : block_task(x, ask)
    \/ \E x \in GtReviews : \E b \in GtBodies(x) : complete_task(x, b)
    \/ \E x \in GtLands : complete_task(x, GtNobody)
    \/ DownWrite
    \/ GtSweep
    \/ \E x \in GtLands : GtAuthor(GtLane[x])

GtSpec == GtInit /\ [][GtNext]_gtVars

----------------------------------------------------------------------------
(* The steps that write ready and ask no gate: the operator's advance, and *)
(* what re-queues a row: a failure, a release and a recovery.              *)
Ungated(x) == manual_advance(x) \/ fail_task(x) \/ release_task(x) \/ unassign_task(x)

(* Whatever else makes a pending landing ready (the sweep in any thread    *)
(* and _trigger_downstream, which decides on one read of the board and     *)
(* writes on it later) does so only on the strength of the verdict our     *)
(* reviewers delivered last: PASS, at a head the landing names (#914: "a   *)
(* later round supersedes an earlier one"), whichever round, lane or       *)
(* foreign review came in between.  A write to a completed review, which   *)
(* moves its updated_at or reopens it, is the exception the code makes     *)
(* (see the README).                                                       *)
GtLandsOnPass ==
    [][\A l \in GtLands :
          gtRow[l].st = "pending" /\ gtRow'[l].st = "ready" =>
              \/ Ungated(l)
              \/ gtTouched
              \/ gtLast.verdict = "PASS" /\ gtLast.sha \in GtNames[l]]_gtVars
=============================================================================
