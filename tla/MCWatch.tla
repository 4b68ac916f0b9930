------------------------------ MODULE MCWatch ------------------------------
(* The intake's progress and the monitors, which share no state: svc says  *)
(* which a behaviour is about.  A disabled monitor and an intake without a *)
(* policy have nothing to do.                                              *)
EXTENDS Intake, Monitors

(* An issue of the backlog and one of the business team, in a repository. *)
MCRepoOf == [i \in Issues |-> "web"]
MCIid == [a |-> 1, z |-> 2]
MCLaneOf == [r \in Repos |-> r]
MCBand == [a |-> 3, z |-> 0]
MCArea == [i \in Issues |-> 0]
MCCreated == [a |-> 1, z |-> 2]
MCNoBlockers == [i \in Issues |-> {}]

VARIABLE svc

WaInit ==
    /\ svc \in {"intake", "monitors"}
    /\ Init /\ MoInit
    /\ svc = "intake" => moKind = "drift" /\ ~moOn
    /\ policy = IF svc = "intake" THEN "grouped" ELSE "off"

WaNext ==
    \/ svc = "intake" /\ Next /\ UNCHANGED <<svc, moVars>>
    \/ svc = "monitors" /\ MoNext /\ UNCHANGED <<svc, vars>>

(* Intake's Fairness, of its steps as taken here. *)
WaIntake(A) == svc = "intake" /\ A
WaFairness ==
    /\ \A a \in Pollers : WF_vars(WaIntake(Cycle(a)))
    /\ \A a \in Actors : WF_vars(WaIntake(Create(a) \/ CreateFails(a) \/ Note(a)))
    /\ WF_vars(WaIntake(\E i \in Issues : Clear(i) \/ Ripen(i)))
    /\ WF_vars(WaIntake(Start \/ \E n \in DOMAIN tasks : Complete(n) \/ CancelAck(n) \/ Answer(n)))

WaSpec ==
    /\ WaInit /\ [][WaNext]_<<svc, vars, moVars>>
    /\ WaFairness /\ MoFairness
=============================================================================
