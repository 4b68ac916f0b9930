------------------------------ MODULE MCIntake ------------------------------
(* The intake and the gates share no state here: svc says which one a      *)
(* behaviour is about, and the other rests in its initial state.           *)
EXTENDS Intake, Gates

(* Two repositories; the first has two issues of the backlog and one of    *)
(* the business team, the second one of the backlog with the number of     *)
(* an issue of the first.                                                  *)
MCRepoOf == [i \in Issues |-> IF i = "d" THEN "app" ELSE "web"]
MCIid == [i \in Issues |-> CASE i = "a" -> 1 [] i = "b" -> 2 [] i = "z" -> 3 [] i = "d" -> 1]
MCLaneOf == [r \in Repos |-> r]
MCSameLane == [r \in Repos |-> "backend"]
MCBand == [i \in Issues |-> IF i = "z" THEN 0 ELSE 3]
MCArea == [i \in Issues |-> IF i = "b" THEN 1 ELSE 0]
MCCreated == [i \in Issues |-> CASE i = "a" -> 1 [] i = "b" -> 2 [] i = "z" -> 3 [] i = "d" -> 4]
MCBlockedBy == [i \in Issues |-> CASE i = "b" -> {"a"} [] i = "a" -> {"d"} [] OTHER -> {}] 
MCNoBlockers == [i \in Issues |-> {}]

(* Two reviews of a merge request in one lane, one of a namesake in        *)
(* another project; a landing that waits for the first review and one      *)
(* that waits for nothing, in the lane of an author.                       *)
MCGtLane == [r1 |-> "web!1", r2 |-> "web!1", f |-> "old/web!1", l |-> "web#land-1", k |-> "web"]
MCGtDeps == [x \in GtRows |-> IF x = "l" THEN {"r1"} ELSE {}]
MCGtNames == [l |-> {1}, k |-> {1, 2}]

(* The gates' behaviours begin with the submission of the first review and *)
(* then of the landing that waits for it.                                  *)
GtSubmissions ==
    /\ gtRow["r1"].st = "none" => submit_task("r1")
    /\ gtRow["r1"].st # "none" /\ gtRow["l"].st = "none" => submit_task("l")

VARIABLE svc

SvInit ==
    /\ svc \in {"intake", "gates"}
    /\ Init /\ GtInit
    /\ svc = "gates" => policy = "each"

SvNext ==
    \/ svc = "intake" /\ Next /\ UNCHANGED <<svc, gtVars>>
    \/ svc = "gates" /\ GtNext /\ GtSubmissions /\ UNCHANGED <<svc, vars>>

SvSpec == SvInit /\ [][SvNext]_<<svc, vars, gtVars>>
=============================================================================
