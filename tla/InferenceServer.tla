--------------------------- MODULE InferenceServer ---------------------------
(***************************************************************************)
(* The vLLM server beside rl_training_loop.py: closed_loop.start_server    *)
(* and stop_server, the canary's calibration by reloads, the weight pushes *)
(* and the generations a runtime adapter records.                          *)
(*                                                                         *)
(* A server is a process group of its own with a port and an engine on the *)
(* card.  It outlives a loop that is killed, and only its port tells the   *)
(* next loop which server it talks to.  Weights are numbered in the order  *)
(* the optimizer made them, 0 being the checkpoint at MODEL_PATH.  What a  *)
(* step does besides the weights is TrainingLoop.                          *)
(***************************************************************************)
EXTENDS Integers

CONSTANTS
  N,         \* --steps
  Reloads,   \* 5 in the code
  Natural,   \* token drift between sketches of the same weights
  Shift,     \* and of different weights
  None, Mixed,         \* nothing; weights pushed in part
  MaxUpdates, MaxKills \* bounds, over all runs

ASSUME ServerConstants ==
  /\ N \in Nat /\ Reloads \in Nat \ {0, 1} /\ Natural \in Nat /\ Shift \in Nat
  /\ MaxUpdates \in Nat /\ MaxKills \in Nat
  /\ None \notin Int /\ Mixed \notin Int /\ None # Mixed
  /\ None \notin [engine : Int \cup {None, Mixed}, mine : BOOLEAN]

VARIABLES
  pc,
  version, model, \* policy version and weights of the trainer
  saved,          \* those of the newest checkpoint
  sync_prev,      \* [load_epoch, measured] of this run's newest sync, or None
  load_epoch,     \* VLLMRuntimeAdapter._load_epoch
  port,           \* [engine, mine] of the server that listens, or None
  proc,           \* the server this run launched last
  stray,          \* a server no run owns is still loading
  reload, baseline, tolerance,
  generated,      \* the generations in the log
  minted, kills   \* weights made so far, deaths so far

run == <<version, model, saved, sync_prev, load_epoch>>
card == <<port, proc, stray>>
calibration == <<reload, baseline, tolerance>>
vars == <<pc, run, card, calibration, generated, minted, kills>>

Init ==
  /\ pc = "down" /\ version = 0 /\ model = 0 /\ saved = [version |-> 0, model |-> 0]
  /\ sync_prev = None /\ load_epoch = 0 /\ port = None /\ proc = "none" /\ stray = FALSE
  /\ reload = 0 /\ baseline = None /\ tolerance = 0
  /\ generated = {} /\ minted = 0 /\ kills = 0

\* A start removes the event log, or resumes from the newest checkpoint.
Start ==
  /\ pc = "down" /\ pc' = "launch"
  /\ \/ version' = 0 /\ model' = 0 /\ generated' = {} /\ saved' = [version |-> 0, model |-> 0]
     \/ /\ saved.version > 0 /\ version' = saved.version /\ model' = saved.model
        /\ UNCHANGED <<generated, saved>>
  /\ sync_prev' = None /\ load_epoch' = 0
  /\ reload' = 0 /\ baseline' = None /\ tolerance' = 0
  /\ UNCHANGED <<card, minted, kills>>

----------------------------------------------------------------------------
(* start_server and stop_server                                            *)

\* It waits a minute for the port and launches whether that is free or not.
Launch ==
  /\ pc = "launch" /\ pc' = "polling" /\ proc' = "loading"
  /\ UNCHANGED <<run, port, stray, calibration, generated, minted, kills>>

\* Whoever listens answers the health request.
Healthy ==
  /\ pc = "polling" /\ port # None /\ proc # "gone" /\ pc' = "sketch"
  /\ UNCHANGED <<run, card, calibration, generated, minted, kills>>

\* The group of the server the variable names, then every engine on the card.
\* A server of another group loses its engine and may go on listening; one
\* that is not on the card yet goes on loading.
stop_server(named) ==
  /\ port' \in IF port = None \/ (named /\ port.mine) THEN {None}
               ELSE {None, [engine |-> None, mine |-> FALSE]}
  /\ stray' \in IF stray \/ (~named /\ proc = "loading") THEN BOOLEAN ELSE {FALSE}
  /\ proc' = "none"

\* The first server is launched before the try statement: when it dies, or is
\* not healthy after 240 seconds, nothing stops it.
FirstStartFails ==
  /\ pc = "polling" /\ reload = 0 /\ (port = None \/ proc = "gone")
  /\ pc' = "down" /\ proc' = "none" /\ stray' = (stray \/ proc = "loading")
  /\ UNCHANGED <<run, port, calibration, generated, minted, kills>>

\* Mutant: an error ends the loop without stop_server.
FailWithoutFinally ==
  /\ pc \notin {"down", "launch"} /\ (pc = "polling" => reload > 0)
  /\ pc' = "down" /\ proc' = "none" /\ UNCHANGED stray
  /\ port' = IF port = None THEN None ELSE [port EXCEPT !.mine = FALSE]
  /\ UNCHANGED <<run, calibration, generated, minted, kills>>

\* Any later error, a failed start among them: its server is not yet named.
Fail ==
  /\ pc \notin {"down", "launch"} /\ (pc = "polling" => reload > 0)
  /\ pc' = "down" /\ stop_server(pc # "polling")
  /\ UNCHANGED <<run, calibration, generated, minted, kills>>

Finish ==
  /\ pc = "step" /\ version >= N
  /\ pc' = "down" /\ stop_server(TRUE)
  /\ UNCHANGED <<run, calibration, generated, minted, kills>>

\* The loop dies and its server does not.
Kill ==
  /\ pc # "down" /\ kills < MaxKills /\ kills' = kills + 1
  /\ pc' = "down" /\ proc' = "none" /\ stray' = (stray \/ proc = "loading")
  /\ port' = IF port = None THEN None ELSE [port EXCEPT !.mine = FALSE]
  /\ UNCHANGED <<run, calibration, generated, minted>>

----------------------------------------------------------------------------
(* Servers come up with the weights at MODEL_PATH, in the order they were  *)
(* launched; one that finds the port taken ends.                           *)

Bind ==
  /\ proc = "loading" /\ ~stray
  /\ IF port = None THEN proc' = "serving" /\ port' = [engine |-> 0, mine |-> TRUE]
     ELSE proc' = "gone" /\ UNCHANGED port
  /\ UNCHANGED <<pc, run, stray, calibration, generated, minted, kills>>

BindStray ==
  /\ stray /\ stray' = FALSE
  /\ port' = IF port = None THEN [engine |-> 0, mine |-> FALSE] ELSE port
  /\ UNCHANGED <<pc, run, proc, calibration, generated, minted, kills>>

ServerDies ==
  /\ port # None /\ port.mine /\ proc' = "gone" /\ port' = None
  /\ UNCHANGED <<pc, run, stray, calibration, generated, minted, kills>>

----------------------------------------------------------------------------
(* Calibration, sync, canary and rollout                                   *)

\* A request can only succeed at a live engine.
Answers == port # None /\ port.engine # None

TokenDiff(weights) == 0 .. (IF weights = port.engine THEN Natural ELSE Shift)

Sketch ==
  /\ pc = "sketch" /\ Answers /\ reload' = reload + 1
  /\ IF reload = 0 THEN baseline' = port.engine /\ UNCHANGED tolerance
     ELSE /\ \E drift \in TokenDiff(baseline) :
               tolerance' = IF drift > tolerance THEN drift ELSE tolerance
          /\ UNCHANGED baseline
  /\ pc' = IF reload' = Reloads THEN "push" ELSE "stop"
  /\ UNCHANGED <<run, card, generated, minted, kills>>

Reload ==
  /\ pc = "stop" /\ pc' = "launch" /\ stop_server(TRUE)
  /\ UNCHANGED <<run, calibration, generated, minted, kills>>

\* Parameter by parameter, to the server that listens.
BeginPush ==
  /\ pc = "push" /\ Answers /\ pc' = "pushing"
  /\ port' = [port EXCEPT !.engine = Mixed]
  /\ UNCHANGED <<run, proc, stray, calibration, generated, minted, kills>>

\* Mutant: only the parameters of the first sync are pushed.
EndPushOnce ==
  /\ pc = "pushing" /\ Answers /\ pc' = "canary"
  /\ port' = [port EXCEPT !.engine = IF sync_prev # None THEN 0 ELSE model]
  /\ UNCHANGED <<run, proc, stray, calibration, generated, minted, kills>>

EndPush ==
  /\ pc = "pushing" /\ Answers /\ pc' = "canary"
  /\ port' = [port EXCEPT !.engine = model]
  /\ UNCHANGED <<run, proc, stray, calibration, generated, minted, kills>>

\* The first sync of a run, fresh or resumed, is not measured and its load
\* epoch is 1.
FirstCanary ==
  /\ pc = "canary" /\ sync_prev = None /\ pc' = "rollout"
  /\ sync_prev' = [load_epoch |-> version + 1, measured |-> FALSE] /\ load_epoch' = 1
  /\ UNCHANGED <<version, model, saved, card, calibration, generated, minted, kills>>

\* Mutant: the runtime keeps its load epoch.
MonitorKeepingEpoch ==
  /\ pc = "canary" /\ sync_prev # None /\ Answers /\ pc' = "rollout"
  /\ \E drift \in TokenDiff(baseline) :
       IF drift > tolerance THEN baseline' = port.engine /\ tolerance' = 0
       ELSE UNCHANGED <<baseline, tolerance>>
  /\ sync_prev' = [load_epoch |-> version + 1, measured |-> TRUE]
  /\ UNCHANGED <<version, model, saved, load_epoch, card, reload, generated, minted, kills>>

\* The drift monitor: a mismatch makes the current sketch the new baseline.
Monitor ==
  /\ pc = "canary" /\ sync_prev # None /\ Answers /\ pc' = "rollout"
  /\ \E drift \in TokenDiff(baseline) :
       IF drift > tolerance THEN baseline' = port.engine /\ tolerance' = 0
       ELSE UNCHANGED <<baseline, tolerance>>
  /\ sync_prev' = [load_epoch |-> version + 1, measured |-> TRUE] /\ load_epoch' = version + 1
  /\ UNCHANGED <<version, model, saved, card, reload, generated, minted, kills>>

\* The event claims what the trainer believes; the engine is what it was.
emit_generation ==
  /\ pc = "rollout" /\ Answers /\ pc' = "step"
  /\ generated' = generated \cup {[claimed |-> model, engine |-> port.engine,
                                   epoch |-> load_epoch, sync |-> sync_prev]}
  /\ UNCHANGED <<run, card, calibration, minted, kills>>

\* The step and its checkpoint.
OptimizerStep ==
  /\ pc = "step" /\ version < N /\ minted < MaxUpdates /\ pc' = "push"
  /\ minted' = minted + 1 /\ model' = minted' /\ version' = version + 1
  /\ saved' = [version |-> version', model |-> model']
  /\ UNCHANGED <<sync_prev, load_epoch, card, calibration, generated, kills>>

Next ==
  \/ Start \/ Launch \/ Healthy \/ FirstStartFails \/ Fail \/ Finish \/ Kill
  \/ Bind \/ BindStray \/ ServerDies
  \/ Sketch \/ Reload \/ BeginPush \/ EndPush \/ FirstCanary \/ Monitor
  \/ emit_generation \/ OptimizerStep

Spec == Init /\ [][Next]_vars

----------------------------------------------------------------------------
(* Properties                                                              *)

Sync == [load_epoch : 1..(N + 1), measured : BOOLEAN]

Weights == (0..minted) \cup {Mixed}

PCs == {"down", "launch", "polling", "sketch", "stop", "push", "pushing", "canary", "rollout",
        "step"}

\* The types of the loop's and the card's state; no run sketches more often
\* than it reloads.
TypeOK ==
  /\ pc \in PCs /\ version \in 0..N /\ model \in 0..minted /\ minted \in 0..MaxUpdates
  /\ saved \in [version : 0..N, model : 0..minted]
  /\ sync_prev \in Sync \cup {None} /\ load_epoch \in 0..(N + 1)
  /\ port \in {None} \cup [engine : Weights \cup {None}, mine : BOOLEAN]
  /\ proc \in {"none", "loading", "serving", "gone"} /\ stray \in BOOLEAN
  /\ reload \in 0..Reloads /\ baseline \in Weights \cup {None} /\ tolerance \in Nat
  /\ generated \subseteq [claimed : 0..minted, engine : Weights, epoch : 1..(N + 1), sync : Sync]
  /\ kills \in 0..MaxKills

\* vllm_runtime.py: a generation was made by exactly the weights it claims,
\* whatever servers earlier runs left on the card, in whatever state.
GenerationUnderPolicy == \A g \in generated : g.engine = g.claimed

\* canary.py: the frozen tolerance is the natural drift of one checkpoint, as
\* long as no loop was killed: failed starts leave only servers with the
\* weights at MODEL_PATH behind, and every other error stops its server.
CalibratedOnBase == kills = 0 => tolerance <= Natural

\* A generation names the load epoch trl_control.py recorded with the sync it
\* refers to, or that sync was the first of its run, unmeasured: then it says 1,
\* which after a resume is not what that sync recorded (line 243).
LoadEpochAgrees ==
  \A g \in generated :
    g.epoch = IF g.sync.measured THEN g.sync.load_epoch ELSE 1
=============================================================================
