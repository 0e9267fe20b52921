------------------------ MODULE InferenceServerProofs ------------------------
(***************************************************************************)
(* Theorems about InferenceServer, for any number of steps, reloads,       *)
(* updates and deaths.                                                     *)
(***************************************************************************)
EXTENDS InferenceServer, TLAPS

RunTyped ==
  /\ pc \in PCs /\ version \in 0..N /\ model \in 0..minted /\ minted \in 0..MaxUpdates
  /\ saved \in [version : 0..N, model : 0..minted]
  /\ sync_prev \in Sync \cup {None} /\ load_epoch \in 0..(N + 1)
  /\ kills \in 0..MaxKills

CardTyped ==
  /\ port \in {None} \cup [engine : Weights \cup {None}, mine : BOOLEAN]
  /\ proc \in {"none", "loading", "serving", "gone"} /\ stray \in BOOLEAN

CalibrationTyped ==
  /\ reload \in 0..Reloads /\ baseline \in Weights \cup {None} /\ tolerance \in Nat
  /\ pc \in {"launch", "polling", "sketch", "stop"} => reload < Reloads

LEMMA StopServer ==
  ASSUME NEW named \in BOOLEAN, CardTyped, stop_server(named)
  PROVE  /\ port' \in {None, [engine |-> None, mine |-> FALSE]}
         /\ stray' \in BOOLEAN /\ proc' = "none"
BY DEF stop_server, CardTyped

\* A run that has left start_server behind.
AtServer == pc \in {"sketch", "stop", "push", "pushing", "canary", "rollout", "step"}

\* Who owns what listens.  While a run talks to a server, the port can only
\* become free for good: its own server is not loading any more and no stray
\* is, so no other weights can appear there.
Ownership ==
  /\ pc \in {"down", "launch"} => proc = "none"
  /\ port # None /\ port.mine => proc = "serving" /\ ~stray
  /\ AtServer /\ port = None => proc = "gone" /\ ~stray

\* From the end of a push to the next step the server has the model's weights.
Pushed == pc \in {"canary", "rollout"} /\ Answers => port.engine = model

\* The sync a generation names, and the load epoch the runtime has then.
Synced ==
  pc = "rollout" =>
    /\ sync_prev \in Sync
    /\ load_epoch = IF sync_prev.measured THEN sync_prev.load_epoch ELSE 1

GenerationsTyped ==
  generated \subseteq [claimed : 0..minted, engine : Weights, epoch : 1..(N + 1), sync : Sync]

\* Before the first push of a run, unless a loop was killed, whatever listens
\* has the weights at MODEL_PATH; so do the sketches taken until then.
BaseOnly ==
  kills = 0 =>
    /\ tolerance <= Natural
    /\ pc \in {"down", "launch", "polling", "sketch", "stop"} /\ port # None
         => port.engine \in {0, None}
    /\ pc \in {"launch", "polling", "sketch", "stop"} => reload = 0 \/ baseline = 0

ServerInv ==
  /\ RunTyped /\ CardTyped /\ CalibrationTyped /\ GenerationsTyped
  /\ Ownership /\ Pushed /\ Synced

Servers == [engine : Weights \cup {None}, mine : BOOLEAN]

LEMMA ServerTyped ==
  ASSUME NEW e \in Weights \cup {None}, NEW own \in BOOLEAN
  PROVE  [engine |-> e, mine |-> own] \in Servers
BY DEF Servers

LEMMA CardTypedStep == RunTyped /\ CardTyped /\ [Next]_vars => CardTyped'
<1> SUFFICES ASSUME RunTyped, CardTyped, [Next]_vars PROVE CardTyped'
  OBVIOUS
<1> USE ServerConstants
<1>0. /\ 0 \in Weights /\ model \in Weights /\ Mixed \in Weights /\ TRUE \in BOOLEAN
  BY DEF RunTyped, Weights
<1>1. ASSUME stop_server(TRUE) \/ stop_server(pc # "polling"), minted' = minted PROVE CardTyped'
  <2>1. port' \in {None, [engine |-> None, mine |-> FALSE]} /\ stray' \in BOOLEAN /\ proc' = "none"
    BY <1>1, StopServer
  <2>2. [engine |-> None, mine |-> FALSE] \in Servers
    BY ServerTyped
  <2> QED BY <1>1, <2>1, <2>2 DEF CardTyped, Servers, Weights
<1>2. CASE Start \/ Launch \/ Healthy \/ FirstStartFails \/ Kill \/ ServerDies
  BY <1>2 DEF Start, Launch, Healthy, FirstStartFails, Kill, ServerDies, card, CardTyped, Weights
<1>3. CASE Fail \/ Finish \/ Reload
  BY <1>1, <1>3 DEF Fail, Finish, Reload
<1>4. CASE Bind
  <2>1. [engine |-> 0, mine |-> TRUE] \in Servers
    BY <1>0, ServerTyped
  <2> QED BY <1>4, <2>1 DEF Bind, CardTyped, Servers, Weights
<1>5. CASE BindStray
  <2>1. [engine |-> 0, mine |-> FALSE] \in Servers
    BY <1>0, ServerTyped
  <2> QED BY <1>5, <2>1 DEF BindStray, CardTyped, Servers, Weights
<1>6. CASE Sketch \/ FirstCanary \/ Monitor \/ emit_generation
  BY <1>6 DEF Sketch, FirstCanary, Monitor, emit_generation, card, CardTyped, Weights
<1>7. CASE BeginPush \/ EndPush
  BY <1>7, <1>0 DEF BeginPush, EndPush, Answers, CardTyped, Weights
<1>8. CASE OptimizerStep
  <2>1. Weights \subseteq Weights'
    BY <1>8 DEF OptimizerStep, RunTyped, Weights
  <2> QED BY <1>8, <2>1 DEF OptimizerStep, card, CardTyped
<1>9. CASE UNCHANGED vars
  BY <1>9 DEF vars, run, card, CardTyped, Weights
<1> QED
  BY <1>2, <1>3, <1>4, <1>5, <1>6, <1>7, <1>8, <1>9 DEF Next

LEMMA RunTypedStep == RunTyped /\ [Next]_vars => RunTyped'
<1> SUFFICES ASSUME RunTyped, [Next]_vars PROVE RunTyped'
  OBVIOUS
<1> USE ServerConstants DEF RunTyped, PCs, Sync, run, card, calibration
<1>1. CASE Start
  BY <1>1 DEF Start
<1>2. CASE Launch \/ Healthy \/ FirstStartFails \/ Fail \/ Finish \/ Bind \/ BindStray \/ ServerDies
  BY <1>2 DEF Launch, Healthy, FirstStartFails, Fail, Finish, Bind, BindStray, ServerDies
<1>3. CASE Kill
  BY <1>3 DEF Kill
<1>4. CASE Sketch \/ Reload \/ BeginPush \/ EndPush \/ emit_generation
  BY <1>4 DEF Sketch, Reload, BeginPush, EndPush, emit_generation
<1>5. CASE FirstCanary
  BY <1>5 DEF FirstCanary
<1>6. CASE Monitor
  BY <1>6 DEF Monitor
<1>7. CASE OptimizerStep
  BY <1>7 DEF OptimizerStep
<1>8. CASE UNCHANGED vars
  BY <1>8 DEF vars
<1> QED
  BY <1>1, <1>2, <1>3, <1>4, <1>5, <1>6, <1>7, <1>8 DEF Next

LEMMA CalibrationTypedStep ==
  RunTyped /\ CardTyped /\ CalibrationTyped /\ [Next]_vars => CalibrationTyped'
<1> SUFFICES ASSUME RunTyped, CardTyped, CalibrationTyped, [Next]_vars PROVE CalibrationTyped'
  OBVIOUS
<1> USE ServerConstants DEF CalibrationTyped, calibration, Weights
<1>0. CASE Start
  BY <1>0 DEF Start
<1>1. CASE Launch \/ Healthy \/ FirstStartFails \/ Fail \/ Finish \/ Kill
  BY <1>1 DEF Launch, Healthy, FirstStartFails, Fail, Finish, Kill
<1>2. CASE Bind \/ BindStray \/ ServerDies \/ Reload \/ BeginPush \/ EndPush \/ FirstCanary
           \/ emit_generation
  BY <1>2 DEF Bind, BindStray, ServerDies, Reload, BeginPush, EndPush, FirstCanary, emit_generation
<1>3. CASE Sketch
  BY <1>3 DEF Sketch, Answers, TokenDiff, CardTyped
<1>4. CASE Monitor
  BY <1>4 DEF Monitor, Answers, TokenDiff, CardTyped
<1>5. CASE OptimizerStep
  BY <1>5 DEF OptimizerStep, RunTyped
<1>6. CASE UNCHANGED vars
  BY <1>6 DEF vars
<1> QED
  BY <1>0, <1>1, <1>2, <1>3, <1>4, <1>5, <1>6 DEF Next

LEMMA OwnershipStep == RunTyped /\ CardTyped /\ Ownership /\ [Next]_vars => Ownership'
<1> SUFFICES ASSUME RunTyped, CardTyped, Ownership, [Next]_vars PROVE Ownership'
  OBVIOUS
<1> USE ServerConstants DEF Ownership, AtServer, CardTyped
<1>1. ASSUME stop_server(TRUE) \/ stop_server(pc # "polling"), pc' \in {"down", "launch"}
      PROVE  Ownership'
  <2>1. port' \in {None, [engine |-> None, mine |-> FALSE]} /\ proc' = "none"
    BY <1>1, StopServer
  <2>2. [engine |-> None, mine |-> FALSE].mine = FALSE
    OBVIOUS
  <2> QED BY <1>1, <2>1, <2>2
<1>2. CASE Start \/ Launch \/ FirstStartFails \/ Kill
  BY <1>2 DEF Start, Launch, FirstStartFails, Kill, card
<1>3. CASE Healthy
  BY <1>3 DEF Healthy, card
<1>4. CASE Fail \/ Finish \/ Reload
  BY <1>1, <1>4 DEF Fail, Finish, Reload
<1>5. CASE Bind
  BY <1>5 DEF Bind
<1>6. CASE BindStray \/ ServerDies
  BY <1>6 DEF BindStray, ServerDies
<1>7. CASE Sketch \/ FirstCanary \/ Monitor \/ emit_generation \/ OptimizerStep
  BY <1>7 DEF Sketch, FirstCanary, Monitor, emit_generation, OptimizerStep, card, Answers
<1>8. CASE BeginPush \/ EndPush
  <2>1. port' # None /\ port'.mine = port.mine
    BY <1>8 DEF BeginPush, EndPush, Answers, RunTyped, Weights
  <2> QED BY <1>8, <2>1 DEF BeginPush, EndPush, Answers
<1>9. CASE UNCHANGED vars
  BY <1>9 DEF vars, card
<1> QED
  BY <1>2, <1>3, <1>4, <1>5, <1>6, <1>7, <1>8, <1>9 DEF Next

LEMMA PushedStep == RunTyped /\ CardTyped /\ Ownership /\ Pushed /\ [Next]_vars => Pushed'
<1> SUFFICES ASSUME RunTyped, CardTyped, Ownership, Pushed, [Next]_vars PROVE Pushed'
  OBVIOUS
<1> USE ServerConstants DEF Pushed, Answers
<1>1. CASE Start \/ Launch \/ Healthy \/ FirstStartFails \/ Fail \/ Finish \/ Kill \/ Reload
           \/ Sketch \/ BeginPush \/ emit_generation \/ OptimizerStep
  BY <1>1 DEF Start, Launch, Healthy, FirstStartFails, Fail, Finish, Kill, Reload, Sketch,
              BeginPush, emit_generation, OptimizerStep
<1>2. CASE EndPush
  BY <1>2 DEF EndPush, run, CardTyped
<1>3. CASE FirstCanary \/ Monitor
  BY <1>3 DEF FirstCanary, Monitor, card
<1>4. CASE Bind \/ BindStray
  BY <1>4 DEF Bind, BindStray, Ownership, AtServer, run
<1>5. CASE ServerDies
  BY <1>5 DEF ServerDies
<1>6. CASE UNCHANGED vars
  BY <1>6 DEF vars, run, card
<1> QED
  BY <1>1, <1>2, <1>3, <1>4, <1>5, <1>6 DEF Next

LEMMA GenerationStep ==
  RunTyped /\ CardTyped /\ Pushed /\ GenerationUnderPolicy /\ [Next]_vars => GenerationUnderPolicy'
<1> SUFFICES ASSUME RunTyped, CardTyped, Pushed, GenerationUnderPolicy, [Next]_vars
             PROVE  GenerationUnderPolicy'
  OBVIOUS
<1> USE DEF GenerationUnderPolicy
<1>1. CASE Start
  BY <1>1 DEF Start
<1>2. CASE emit_generation
  BY <1>2 DEF emit_generation, Pushed
<1>3. generated' = generated \/ Start \/ emit_generation
  BY DEF Next, Launch, Healthy, FirstStartFails, Fail, Finish, Kill, Bind, BindStray, ServerDies,
         Sketch, Reload, BeginPush, EndPush, FirstCanary, Monitor, OptimizerStep, vars
<1> QED
  BY <1>1, <1>2, <1>3

LEMMA SyncedStep == RunTyped /\ Synced /\ [Next]_vars => Synced'
<1> SUFFICES ASSUME RunTyped, Synced, [Next]_vars PROVE Synced'
  OBVIOUS
<1> USE ServerConstants DEF Synced
<1>1. CASE Start \/ Launch \/ Healthy \/ FirstStartFails \/ Fail \/ Finish \/ Kill \/ Reload
           \/ Sketch \/ BeginPush \/ EndPush \/ emit_generation \/ OptimizerStep
  BY <1>1 DEF Start, Launch, Healthy, FirstStartFails, Fail, Finish, Kill, Reload, Sketch,
              BeginPush, EndPush, emit_generation, OptimizerStep
<1>2. CASE Bind \/ BindStray \/ ServerDies
  BY <1>2 DEF Bind, BindStray, ServerDies, run
<1>3. CASE FirstCanary
  BY <1>3 DEF FirstCanary, RunTyped, Sync
<1>4. CASE Monitor
  BY <1>4 DEF Monitor, RunTyped, Sync
<1>5. CASE UNCHANGED vars
  BY <1>5 DEF vars, run
<1> QED
  BY <1>1, <1>2, <1>3, <1>4, <1>5 DEF Next

LEMMA GenerationsTypedStep ==
  RunTyped /\ CardTyped /\ Synced /\ GenerationsTyped /\ [Next]_vars => GenerationsTyped'
<1> SUFFICES ASSUME RunTyped, CardTyped, Synced, GenerationsTyped, [Next]_vars
             PROVE  GenerationsTyped'
  OBVIOUS
<1> USE ServerConstants DEF GenerationsTyped, Weights
<1>1. CASE Start
  BY <1>1 DEF Start
<1>2. CASE emit_generation
  <2> DEFINE g == [claimed |-> model, engine |-> port.engine, epoch |-> load_epoch, sync |-> sync_prev]
  <2>1. port.engine \in Weights
    BY <1>2 DEF emit_generation, Answers, CardTyped
  <2>2. sync_prev \in Sync /\ load_epoch \in 1..(N + 1)
    BY <1>2 DEF emit_generation, Synced, RunTyped, Sync
  <2>3. g \in [claimed : 0..minted, engine : Weights, epoch : 1..(N + 1), sync : Sync]
    BY <2>1, <2>2 DEF RunTyped
  <2> QED BY <1>2, <2>3 DEF emit_generation
<1>3. CASE OptimizerStep
  BY <1>3 DEF OptimizerStep, RunTyped
<1>4. (generated' = generated /\ minted' = minted) \/ Start \/ emit_generation \/ OptimizerStep
  BY DEF Next, Launch, Healthy, FirstStartFails, Fail, Finish, Kill, Bind, BindStray, ServerDies,
         Sketch, Reload, BeginPush, EndPush, FirstCanary, Monitor, vars
<1> QED
  BY <1>1, <1>2, <1>3, <1>4

LEMMA EpochStep ==
  RunTyped /\ Synced /\ LoadEpochAgrees /\ [Next]_vars => LoadEpochAgrees'
<1> SUFFICES ASSUME RunTyped, Synced, LoadEpochAgrees, [Next]_vars PROVE LoadEpochAgrees'
  OBVIOUS
<1> USE DEF LoadEpochAgrees
<1>1. CASE Start
  BY <1>1 DEF Start
<1>2. CASE emit_generation
  BY <1>2 DEF emit_generation, Synced
<1>3. generated' = generated \/ Start \/ emit_generation
  BY DEF Next, Launch, Healthy, FirstStartFails, Fail, Finish, Kill, Bind, BindStray, ServerDies,
         Sketch, Reload, BeginPush, EndPush, FirstCanary, Monitor, OptimizerStep, vars
<1> QED
  BY <1>1, <1>2, <1>3

LEMMA BaseStep ==
  RunTyped /\ CardTyped /\ CalibrationTyped /\ BaseOnly /\ [Next]_vars => BaseOnly'
<1> SUFFICES ASSUME RunTyped, CardTyped, CalibrationTyped, BaseOnly, [Next]_vars, kills' = 0
             PROVE  BaseOnly'
  BY DEF BaseOnly
<1> USE ServerConstants DEF calibration
<1>0. CASE Kill
  BY <1>0 DEF Kill, RunTyped
<1>1. kills = 0 \/ Kill
  BY DEF Next, Start, Launch, Healthy, FirstStartFails, Fail, Finish, Bind, BindStray, ServerDies,
         Sketch, Reload, BeginPush, EndPush, FirstCanary, Monitor, emit_generation, OptimizerStep,
         vars
<1> SUFFICES ASSUME kills = 0 PROVE BaseOnly'
  BY <1>0, <1>1
<1>2. ASSUME stop_server(TRUE) \/ stop_server(pc # "polling"), port' # None
      PROVE  port'.engine = None
  <2>1. port' = [engine |-> None, mine |-> FALSE]
    BY <1>2, StopServer
  <2> QED BY <2>1
<1> USE DEF BaseOnly
<1>3. CASE Start
  BY <1>3 DEF Start, card
<1>4. CASE Launch \/ Healthy \/ FirstStartFails
  BY <1>4 DEF Launch, Healthy, FirstStartFails, card
<1>5. CASE Fail \/ Finish \/ Reload
  BY <1>2, <1>5 DEF Fail, Finish, Reload
<1>6. CASE Bind \/ BindStray
  BY <1>6 DEF Bind, BindStray
<1>7. CASE ServerDies
  BY <1>7 DEF ServerDies
<1>8. CASE Sketch
  <2>1. port # None /\ port.engine = 0 /\ baseline' = 0
    BY <1>8 DEF Sketch, Answers
  <2>2. tolerance' <= Natural
    BY <1>8, <2>1 DEF Sketch, TokenDiff, CalibrationTyped
  <2> QED BY <1>8, <2>1, <2>2 DEF Sketch, card
<1>9. CASE BeginPush \/ EndPush \/ FirstCanary \/ emit_generation \/ OptimizerStep
  BY <1>9 DEF BeginPush, EndPush, FirstCanary, emit_generation, OptimizerStep
<1>10. CASE Monitor
  <2>1. tolerance' \in {0, tolerance} /\ pc' = "rollout"
    BY <1>10 DEF Monitor
  <2> QED BY <2>1
<1>11. CASE UNCHANGED vars
  BY <1>11 DEF vars, card
<1> QED
  BY <1>0, <1>3, <1>4, <1>5, <1>6, <1>7, <1>8, <1>9, <1>10, <1>11 DEF Next

LEMMA InitServer == Init => ServerInv /\ GenerationUnderPolicy /\ LoadEpochAgrees /\ BaseOnly
<1> SUFFICES ASSUME Init PROVE ServerInv /\ GenerationUnderPolicy /\ LoadEpochAgrees /\ BaseOnly
  OBVIOUS
<1> USE ServerConstants DEF Init
<1>1. RunTyped BY DEF RunTyped, PCs, Sync
<1>2. CardTyped BY DEF CardTyped
<1>3. CalibrationTyped BY DEF CalibrationTyped
<1>4. GenerationsTyped /\ GenerationUnderPolicy /\ LoadEpochAgrees
  BY DEF GenerationsTyped, GenerationUnderPolicy, LoadEpochAgrees
<1>5. Ownership /\ Pushed /\ Synced BY DEF Ownership, Pushed, Synced, AtServer
<1>6. BaseOnly BY DEF BaseOnly
<1> QED BY <1>1, <1>2, <1>3, <1>4, <1>5, <1>6 DEF ServerInv

LEMMA ServerStep == ServerInv /\ [Next]_vars => ServerInv'
BY RunTypedStep, CardTypedStep, CalibrationTypedStep, GenerationsTypedStep, OwnershipStep,
   PushedStep, SyncedStep DEF ServerInv

----------------------------------------------------------------------------

\* The inductive invariant of the server and the loop beside it, and the types
\* it gives, for any number of runs that die, fail, resume or start afresh.
THEOREM ServerInvariant == Spec => []ServerInv /\ []TypeOK
<1>1. ServerInv => TypeOK
  BY DEF ServerInv, TypeOK, RunTyped, CardTyped, CalibrationTyped, GenerationsTyped
<1> QED BY <1>1, InitServer, ServerStep, PTL DEF Spec

\* A generation in the log was made by the weights it claims, whatever servers
\* earlier runs left on the card.
THEOREM GenerationsAreUnderPolicy == Spec => []GenerationUnderPolicy
<1>1. ServerInv /\ GenerationUnderPolicy /\ [Next]_vars => GenerationUnderPolicy'
  BY GenerationStep DEF ServerInv
<1> QED BY <1>1, InitServer, ServerInvariant, PTL DEF Spec

\* A generation names the load epoch of the sync it refers to, or that sync was
\* not measured.
THEOREM LoadEpochsAgree == Spec => []LoadEpochAgrees
<1>1. ServerInv /\ LoadEpochAgrees /\ [Next]_vars => LoadEpochAgrees'
  BY EpochStep DEF ServerInv
<1> QED BY <1>1, InitServer, ServerInvariant, PTL DEF Spec

\* Until a loop is killed, the frozen tolerance of the canary is the natural
\* drift of the weights at MODEL_PATH.
THEOREM ToleranceIsNatural == Spec => []CalibratedOnBase
<1>1. ServerInv /\ BaseOnly /\ [Next]_vars => BaseOnly'
  BY BaseStep DEF ServerInv
<1>2. BaseOnly => CalibratedOnBase
  BY DEF BaseOnly, CalibratedOnBase
<1> QED BY <1>1, <1>2, InitServer, ServerInvariant, PTL DEF Spec
=============================================================================
