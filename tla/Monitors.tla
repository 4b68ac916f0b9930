------------------------------ MODULE Monitors ------------------------------
(***************************************************************************)
(* The two watchers of the main and the web hooks they alert through:      *)
(* core/release_drift(_poller).py, which watches for merged commits that   *)
(* are not deployed, and core/metering.py, which watches the credit of the *)
(* plan.  They are the same machine (a poll thread, a supervisor that      *)
(* arms and stops it, a manual poll, alert bookkeeping in memory) with two *)
(* rules; moKind says which one a behaviour is about.                      *)
(*                                                                         *)
(* A malformed section counts as disabled in every path that reads it.     *)
(***************************************************************************)
EXTENDS Integers, FiniteSets

CONSTANTS
    MoPollers,      \* places for poll threads
    MoHeads,        \* merges; the deployed build is head 0
    MoCredits,      \* credit readings below the alert line, all positive
    MoThreshold,    \* commit_threshold
    MoGrace, MoMax, \* grace_s and max_age_s, in ticks
    MoFails,        \* fail_threshold
    HkIds,          \* hooks that may subscribe to task_failed
    HkRetries,      \* max_retries of the dispatcher
    MoEvents        \* bound on what the world and the operator do

ASSUME MoAssumption ==
    /\ MoFails \in Nat \ {0} /\ MoMax \in Nat \ {0} /\ MoGrace \in Nat
    /\ "none" \notin MoPollers

VARIABLES
    moKind,     \* "drift" or "metering"
    moOn,       \* enabled in the runtime configuration
    moAck,      \* in_flight_head (0: empty)
    moWorld,    \* what GitHub, or the plan's API, would answer
    moThr,      \* poll threads and the manual poll
    moThread,   \* self._thread
    moStop,     \* self._stop
    moActor,    \* the config PUT and the supervisor, inside start() and stop()
    moBook,     \* _alert_state; ages in ticks since first_seen_ts
    hkHooks,    \* subscribed hooks
    hkDel,      \* deliveries a thread is waiting for: attempts made
    moTold,     \* alerts raised in this process whose fan-out is over
    moOld,      \* ticks since this process first saw the drift it still sees
    moEvents

moVars == <<moKind, moOn, moAck, moWorld, moThr, moThread, moStop, moActor,
            moBook, hkHooks, hkDel, moTold, moOld, moEvents>>
moWorldVars == <<moKind, moOn, moAck, moWorld, moEvents>>
moLifeVars == <<moThread, moStop, moActor>>
moAlertVars == <<moBook, hkHooks, hkDel, moTold, moOld>>

MoThreads == MoPollers \cup {"manual"}
MoNone == -1                    \* no head, no reading, no age
MoNobody == "none"              \* no thread
MoFar == 3 * MoMax              \* ages beyond this one are alike
MoNoBook == [seen |-> MoNone, head |-> MoNone, last |-> <<>>, streak |-> 0]
MoDead == [pc |-> "dead", ack |-> 0, got |-> MoNone, alert |-> <<>>]
MoNoDel == [h \in {} |-> 0]

MoEvent == moEvents < MoEvents /\ moEvents' = moEvents + 1
MoAlive(t) == t # MoNobody /\ moThr[t].pc # "dead"

(* A process boots with the deployed build's alert state empty; hooks are  *)
(* registered in memory only; ensure_started arms the thread.              *)
MoBoot(on) ==
    LET first == CHOOSE t \in MoPollers : TRUE
    IN  /\ moThr' = [t \in MoThreads |-> IF on /\ t = first THEN [MoDead EXCEPT !.pc = "top"] ELSE MoDead]
        /\ moThread' = IF on THEN first ELSE MoNobody
        /\ moStop' = FALSE
        /\ moActor' = [a \in {"put", "sup"} |-> "idle"]
        /\ moBook' = MoNoBook /\ hkHooks' = {} /\ moTold' = {} /\ moOld' = MoNone
        /\ hkDel' = [t \in MoThreads |-> MoNoDel]

MoInit ==
    /\ moKind \in {"drift", "metering"}
    /\ moOn \in BOOLEAN /\ moAck = 0
    /\ moWorld = [head |-> 0, credit |-> 0, down |-> FALSE]
    /\ moThr = [t \in MoThreads |-> MoDead] /\ moThread = MoNobody /\ moStop = FALSE
    /\ moActor = [a \in {"put", "sup"} |-> "idle"]
    /\ moBook = MoNoBook /\ hkHooks = {} /\ hkDel = [t \in MoThreads |-> MoNoDel]
    /\ moTold = {} /\ moOld = MoNone /\ moEvents = 0

----------------------------------------------------------------------------
(* Lifecycle *)

(* current_enabled: the section is there, well formed and enabled. *)
current_enabled == moOn

(* ensure_started after a PUT of the configuration, if it is enabled. *)
MoArm(on) == IF on THEN [moActor EXCEPT !["put"] = "start"] ELSE moActor

update_config(on, ack) ==
    /\ moActor["put"] = "idle" /\ <<on, ack>> # <<moOn, moAck>>
    /\ moOn' = on /\ moAck' = ack
    /\ moActor' = MoArm(on)
    /\ MoEvent
    /\ UNCHANGED <<moKind, moWorld, moThr, moThread, moStop, moAlertVars>>

(* Mutant: the supervisor only disarms. *)
Mut_supervise ==
    /\ moActor["sup"] = "idle"
    /\ ~moOn /\ MoAlive(moThread)
    /\ moActor' = [moActor EXCEPT !["sup"] = "stop"]
    /\ UNCHANGED <<moWorldVars, moThr, moThread, moStop, moAlertVars>>

_supervise ==
    /\ moActor["sup"] = "idle"
    /\ current_enabled # MoAlive(moThread)
    /\ moActor' = [moActor EXCEPT !["sup"] = IF current_enabled THEN "start" ELSE "stop"]
    /\ UNCHANGED <<moWorldVars, moThr, moThread, moStop, moAlertVars>>

(* start: returns when the thread is alive and not told to stop.  Its      *)
(* check and what follows it are not one step: two callers may both pass.  *)
start_check(a) ==
    /\ moActor[a] = "start"
    /\ moActor' = [moActor EXCEPT ![a] = IF MoAlive(moThread) /\ ~moStop THEN "idle" ELSE "create"]
    /\ UNCHANGED <<moWorldVars, moThr, moThread, moStop, moAlertVars>>

start(a) ==
    /\ moActor[a] = "create"
    /\ \E t \in MoPollers :
          /\ ~MoAlive(t)
          /\ moThr' = [moThr EXCEPT ![t].pc = "top"] /\ moThread' = t
    /\ moStop' = FALSE
    /\ moActor' = [moActor EXCEPT ![a] = "idle"]
    /\ UNCHANGED <<moWorldVars, moAlertVars>>

stop ==
    /\ moActor["sup"] = "stop"
    /\ moStop' = TRUE /\ moThread' = MoNobody
    /\ moActor' = [moActor EXCEPT !["sup"] = "idle"]
    /\ UNCHANGED <<moWorldVars, moThr, moAlertVars>>

(* A crash, or a rollout that deploys the head of main. *)
MoRestart(redeploy) ==
    /\ MoBoot(moOn)
    /\ moWorld' = IF redeploy THEN [moWorld EXCEPT !.head = 0] ELSE moWorld
    /\ MoEvent
    /\ UNCHANGED <<moKind, moOn, moAck>>

----------------------------------------------------------------------------
(* One cycle: poll_once *)

MoEnds(t) == [MoDead EXCEPT !.pc = IF t = "manual" THEN "dead" ELSE "top"]

manual_poll ==
    /\ ~MoAlive("manual")
    /\ moThr' = [moThr EXCEPT !["manual"].pc = "read"]
    /\ MoEvent
    /\ UNCHANGED <<moKind, moOn, moAck, moWorld, moLifeVars, moAlertVars>>

(* The wait between cycles ends by the clock or by the stop event. *)
_run(t) ==
    /\ moThr[t].pc = "top"
    /\ moThr' = [moThr EXCEPT ![t] = IF moStop THEN MoDead ELSE [@ EXCEPT !.pc = "read"]]
    /\ UNCHANGED <<moWorldVars, moLifeVars, moAlertVars>>

poll_settings(t) ==
    /\ moThr[t].pc = "read"
    /\ moThr' = [moThr EXCEPT ![t] = IF current_enabled THEN [@ EXCEPT !.pc = "fetch", !.ack = moAck] ELSE MoEnds(t)]
    /\ UNCHANGED <<moWorldVars, moLifeVars, moAlertVars>>

_gh_main_head == IF moWorld.down THEN MoNone ELSE moWorld.head

(* fetch_seat_details with its credentials, parse_seat_details and         *)
(* total_surplus: 0 is a surplus that is not low.                          *)
seat_surplus == IF moWorld.down THEN MoNone ELSE moWorld.credit

(* A head that cannot be read ends the drift cycle; a failed seat read is  *)
(* counted.                                                                *)
poll_fetch(t) ==
    LET got == IF moKind = "drift" THEN _gh_main_head ELSE seat_surplus
    IN  /\ moThr[t].pc = "fetch"
        /\ moThr' = [moThr EXCEPT ![t] = IF moKind = "drift" /\ got = MoNone THEN MoEnds(t)
                                         ELSE [@ EXCEPT !.pc = "eval", !.got = got]]
        /\ UNCHANGED <<moWorldVars, moLifeVars, moAlertVars>>

(* evaluate_drift_alert: the new bookkeeping and the reason to alert; the  *)
(* age counts from the first sighting of the episode, whatever its heads.  *)
drift_reason(ack, commits, age) ==
    IF ack THEN IF age >= MoFar THEN "stalled" ELSE "wait"
    ELSE IF commits > MoThreshold THEN "commits"
    ELSE IF age >= MoMax THEN "max_age"
    ELSE IF age >= MoGrace THEN "grace"
    ELSE "wait"

(* Mutant: a fresh head starts the age anew. *)
Mut_evaluate_drift_alert(head, ack, commits) ==
    IF head = 0 THEN [book |-> MoNoBook, alert |-> <<>>]
    ELSE LET fresh == moBook.head # head
             seen == IF moBook.seen = MoNone \/ fresh THEN 0 ELSE moBook.seen
             last == IF fresh THEN <<>> ELSE moBook.last
             key == <<"drift", head, drift_reason(ack, commits, seen)>>
             fires == key[3] # "wait" /\ key # last
         IN  [book |-> [moBook EXCEPT !.seen = seen, !.head = head, !.last = IF fires THEN key ELSE last],
              alert |-> IF fires THEN key ELSE <<>>]

evaluate_drift_alert(head, ack, commits) ==
    IF head = 0 THEN [book |-> MoNoBook, alert |-> <<>>]
    ELSE LET seen == IF moBook.seen = MoNone THEN 0 ELSE moBook.seen
             last == IF moBook.head # head THEN <<>> ELSE moBook.last
             key == <<"drift", head, drift_reason(ack, commits, seen)>>
             fires == key[3] # "wait" /\ key # last
         IN  [book |-> [moBook EXCEPT !.seen = seen, !.head = head, !.last = IF fires THEN key ELSE last],
              alert |-> IF fires THEN key ELSE <<>>]

(* evaluate_alert: the key of a streak names how often it has passed the   *)
(* threshold, so that each passing alerts (the streak is kept below twice  *)
(* the threshold); a reading's key is the reading.                         *)
evaluate_alert(got) ==
    LET n == moBook.streak + 1
        fires == IF got = MoNone THEN n >= MoFails /\ (n % MoFails = 0 \/ moBook.last # <<"failed">>)
                 ELSE got > 0 /\ moBook.last # <<"low", got>>
        key == IF got = MoNone THEN <<"failed">> ELSE <<"low", got>>
    IN  [book |-> [moBook EXCEPT
                     !.streak = IF got # MoNone THEN 0 ELSE IF n = 2 * MoFails THEN MoFails ELSE n,
                     !.last = IF fires THEN key ELSE IF got = 0 THEN <<>> ELSE @],
         alert |-> IF fires THEN key ELSE <<>>]

(* compute_drift: commits_ahead is 1 when the compare call fails. *)
commits_ahead(head) == {head, 1}

get_hooks_for_event == hkHooks

(* The bookkeeping is kept first; an alert then goes to the hooks that     *)
(* subscribe at that moment, and without any it is over at once.           *)
MoRaise(t, r) ==
    /\ moBook' = r.book
    /\ IF r.alert # <<>> /\ get_hooks_for_event # {}
       THEN /\ moThr' = [moThr EXCEPT ![t].pc = "emit", ![t].alert = r.alert]
            /\ hkDel' = [hkDel EXCEPT ![t] = [h \in get_hooks_for_event |-> 0]]
            /\ UNCHANGED moTold
       ELSE /\ moThr' = [moThr EXCEPT ![t] = MoEnds(t)]
            /\ moTold' = moTold \cup ({r.alert} \ {<<>>})
            /\ UNCHANGED hkDel

poll_evaluate(t) ==
    LET got == moThr[t].got
    IN  /\ moThr[t].pc = "eval"
        /\ IF moKind = "drift"
           THEN \E commits \in commits_ahead(got) :
                   MoRaise(t, evaluate_drift_alert(got, got = moThr[t].ack, commits))
           ELSE MoRaise(t, evaluate_alert(got))
        /\ moOld' = IF moKind # "drift" \/ got = 0 THEN MoNone ELSE IF moOld = MoNone THEN 0 ELSE moOld
        /\ UNCHANGED <<moWorldVars, moLifeVars, hkHooks>>

----------------------------------------------------------------------------
(* Hooks *)
register(h) ==
    /\ h \notin hkHooks
    /\ hkHooks' = hkHooks \cup {h}
    /\ MoEvent
    /\ UNCHANGED <<moKind, moOn, moAck, moWorld, moThr, moLifeVars, moBook, hkDel, moTold, moOld>>

deregister(h) ==
    /\ h \in hkHooks
    /\ hkHooks' = hkHooks \ {h}
    /\ MoEvent
    /\ UNCHANGED <<moKind, moOn, moAck, moWorld, moThr, moLifeVars, moBook, hkDel, moTold, moOld>>

(* One attempt of deliver: answered 2xx, or the last one, it is over       *)
(* (success or failed); otherwise the next attempt follows the backoff.    *)
(* A hook that is deregistered meanwhile still gets it.                    *)
deliver(t, h) ==
    LET rest == [k \in DOMAIN hkDel[t] \ {h} |-> hkDel[t][k]]
    IN  /\ moThr[t].pc = "emit" /\ h \in DOMAIN hkDel[t]
        /\ hkDel' \in {[hkDel EXCEPT ![t] = rest],
                       IF hkDel[t][h] = HkRetries THEN [hkDel EXCEPT ![t] = rest]
                       ELSE [hkDel EXCEPT ![t][h] = @ + 1]}
        /\ UNCHANGED <<moWorldVars, moThr, moLifeVars, moBook, hkHooks, moTold, moOld>>

emit_alert(t) ==
    /\ moThr[t].pc = "emit" /\ DOMAIN hkDel[t] = {}
    /\ moTold' = moTold \cup {moThr[t].alert}
    /\ moThr' = [moThr EXCEPT ![t] = MoEnds(t)]
    /\ UNCHANGED <<moWorldVars, moLifeVars, moBook, hkHooks, hkDel, moOld>>

----------------------------------------------------------------------------
(* The world *)
MoMerge ==
    /\ moKind = "drift" /\ moWorld.head < MoHeads
    /\ moWorld' = [moWorld EXCEPT !.head = @ + 1]
    /\ MoEvent
    /\ UNCHANGED <<moKind, moOn, moAck, moThr, moLifeVars, moAlertVars>>

MoSpend(c) ==
    /\ moKind = "metering" /\ c # moWorld.credit
    /\ moWorld' = [moWorld EXCEPT !.credit = c]
    /\ MoEvent
    /\ UNCHANGED <<moKind, moOn, moAck, moThr, moLifeVars, moAlertVars>>

MoOutage ==
    /\ moWorld' = [moWorld EXCEPT !.down = ~@]
    /\ MoEvent
    /\ UNCHANGED <<moKind, moOn, moAck, moThr, moLifeVars, moAlertVars>>

(* Time, as far as the ages tell it apart. *)
MoTick ==
    LET older(a) == IF a \in {MoNone, MoFar} THEN a ELSE a + 1
    IN  /\ \E a \in {moBook.seen, moOld} : a \notin {MoNone, MoFar}
        /\ moBook' = [moBook EXCEPT !.seen = older(@)]
        /\ moOld' = older(moOld)
        /\ UNCHANGED <<moWorldVars, moThr, moLifeVars, hkHooks, hkDel, moTold>>

MoThreadStep(t) ==
    \/ _run(t) \/ poll_settings(t) \/ poll_fetch(t) \/ poll_evaluate(t) \/ emit_alert(t)
    \/ \E h \in HkIds : deliver(t, h)

MoActorStep(a) == start_check(a) \/ start(a)

MoNext ==
    \/ \E on \in BOOLEAN, ack \in 0..MoHeads :
          /\ (moKind = "metering" => ack = 0)
          /\ update_config(on, ack)
    \/ _supervise \/ stop
    \/ \E a \in {"put", "sup"} : MoActorStep(a)
    \/ \E redeploy \in BOOLEAN : MoRestart(redeploy)
    \/ manual_poll
    \/ \E t \in MoThreads : MoThreadStep(t)
    \/ \E h \in HkIds : register(h) \/ deregister(h)
    \/ MoMerge \/ MoOutage \/ MoTick
    \/ \E c \in {0} \cup MoCredits : MoSpend(c)

(* Threads run, time passes; nothing is assumed of the world. *)
MoFairness ==
    /\ \A t \in MoThreads : WF_moVars(MoThreadStep(t))
    /\ WF_moVars(MoActorStep("put"))
    /\ WF_moVars(_supervise \/ stop \/ MoActorStep("sup"))
    /\ WF_moVars(MoTick)

MoSpec == MoInit /\ [][MoNext]_moVars /\ MoFairness

----------------------------------------------------------------------------
(* What persists is told: merged commits that stay undeployed (even under  *)
(* an acknowledged release, which may stall), credit that stays low and an *)
(* API that stays unreachable each reach the hooks while the monitor is    *)
(* enabled, whatever enabling, disabling and restarting went before.       *)
MoUntold ==
    /\ moOn
    /\ IF moKind = "drift"
       THEN ~moWorld.down /\ moWorld.head > 0 /\ \A a \in moTold : a[2] # moWorld.head
       ELSE IF moWorld.down THEN <<"failed">> \notin moTold
       ELSE moWorld.credit > 0 /\ <<"low", moWorld.credit>> \notin moTold

MoPersistentIsTold == []<>~MoUntold

(* Drift that creeps, one commit at a time, cannot stay inside the grace   *)
(* window: a cycle that finds an unacknowledged head when the episode is   *)
(* older than max_age_s leaves an alert about that head raised.            *)
MoBackstop ==
    [][\A t \in MoThreads :
        (/\ moKind = "drift" /\ moThr[t].pc = "eval" /\ moThr'[t].pc # "eval"
         /\ moThr[t].got \notin {0, moThr[t].ack}
         /\ moOld >= MoMax /\ moOld' >= MoMax)
        => \E a \in moTold' \cup {moThr'[u].alert : u \in MoThreads} :
              a # <<>> /\ a[1] = "drift" /\ a[2] = moThr[t].got]_moVars
=============================================================================
