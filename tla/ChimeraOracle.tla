----------------------------- MODULE ChimeraOracle -----------------------------
(***************************************************************************)
(* ChimeraOracleEngine (src/src/services/chimera_oracle.py): the trained   *)
(* causal forests an engine holds in memory, an LRU of bounded size, and   *)
(* the pickle files of the models directory.  The API server and the MCP   *)
(* server (or a training script) each have an engine of their own over one *)
(* directory.                                                              *)
(*                                                                         *)
(* A handler does not await, so one process does nothing else while it     *)
(* trains; but other processes read their data, write the same file, start *)
(* and end in the meantime, so a training is the reading of its data, the  *)
(* opening of its file and the end of its writing, and may fail or die in  *)
(* each.  A scenario's trainings are numbered in the order in which they   *)
(* read its data, since that is what a model knows of; the version stamped *)
(* on a model is the time when it was fitted, which the engine compares    *)
(* with nothing.  Of a model, its data and its metadata only the number is *)
(* kept.                                                                   *)
(***************************************************************************)
EXTENDS LruCache, FiniteSets

CONSTANTS
  Engines,     \* processes
  Scenarios,
  MaxModels,   \* _max_models
  MaxTrainings \* bound: of all scenarios

Absent == 0
Partial == -1 \* a file that a dying or failing writer left incomplete

VARIABLES
  running,  \* the engines whose process is up
  models,   \* _models of each engine
  metadata, \* _model_metadata of each engine: the version it describes, or Absent
  disk,     \* models_dir: the version in each scenario's file, Absent or Partial
  training, \* what each engine trains: its scenario, version and phase
  newest,   \* history: the number of trainings begun of each scenario
  answered, \* history: the latest version each engine answered "trained" for
  overlaps  \* history: a scenario and two versions, the first of which was still in
            \* training when the second began
vars == <<running, models, metadata, disk, training, newest, answered, overlaps>>

NoMetadata == [s \in Scenarios |-> Absent]
Idle == [scenario |-> "none", version |-> Absent, phase |-> "idle"]

Init ==
  /\ running = Engines
  /\ models = [e \in Engines |-> <<>>]
  /\ metadata = [e \in Engines |-> NoMetadata]
  /\ disk = NoMetadata
  /\ training = [e \in Engines |-> Idle]
  /\ newest = NoMetadata /\ answered = [e \in Engines |-> NoMetadata] /\ overlaps = {}

HasModel(e, s) == s \in CachedKeys(models[e])

\* A mutant of CacheModel: a model that is present is not replaced.
CacheModelOnce(e, s, version) ==
  LET cached == EvictTo(IF HasModel(e, s) THEN Touch(models[e], s)
                        ELSE Append(models[e], [key |-> s, version |-> version]), MaxModels + 1)
  IN  models' = [models EXCEPT ![e] = cached] /\ UNCHANGED metadata

\* The model goes to the end; while there are too many the first is evicted, and
\* its metadata with it.
CacheModel(e, s, version) ==
  LET cached == EvictTo(Touch(Assign(models[e], [key |-> s, version |-> version]), s), MaxModels + 1)
  IN  /\ models' = [models EXCEPT ![e] = cached]
      /\ metadata' = [metadata EXCEPT ![e] =
           [t \in Scenarios |-> IF t = s THEN version
                                ELSE IF t \in CachedKeys(models[e]) \ CachedKeys(cached) THEN Absent
                                ELSE @[t]]]

Working(e, phases) == e \in running /\ training[e].phase \in phases
Trainers(s, phases) == {d \in Engines : training[d].phase \in phases /\ training[d].scenario = s}
Writing == {"writing", "sharing"}
Trains == {"fitting"} \cup Writing

Begun == {t \in Scenarios \X (1..MaxTrainings) : t[2] <= newest[t[1]]}

\* A training begins: it reads the data of its scenario.
ReadData(e, s) ==
  LET version == newest[s] + 1
  IN  /\ Working(e, {"idle"}) /\ Cardinality(Begun) < MaxTrainings
      /\ newest' = [newest EXCEPT ![s] = version]
      /\ training' = [training EXCEPT ![e] = [scenario |-> s, version |-> version, phase |-> "fitting"]]
      /\ overlaps' = overlaps \cup {<<s, training[d].version, version>> : d \in Trainers(s, Trains)}
      /\ UNCHANGED <<running, models, metadata, disk, answered>>

\* open(..., "wb") empties the file, and with it what another process is writing there:
\* from then on the two write over each other.
OpenFile(e) ==
  LET s == training[e].scenario
      writers == Trainers(s, Writing)
  IN  /\ Working(e, {"fitting"})
      /\ training' = [d \in Engines |->
           IF d = e THEN [training[e] EXCEPT !.phase = IF writers = {} THEN "writing" ELSE "sharing"]
           ELSE IF d \in writers THEN [training[d] EXCEPT !.phase = "sharing"]
           ELSE training[d]]
      /\ disk' = [disk EXCEPT ![s] = Partial]
      /\ UNCHANGED <<running, models, metadata, newest, answered, overlaps>>

\* A file that two processes wrote at once is the one's, the other's, or neither's.
Written(e) ==
  IF training[e].phase = "writing" THEN {training[e].version}
  ELSE {training[e].version, Partial, disk[training[e].scenario]}

\* The file is written, the model cached, and the engine answers "trained".
Saved(e) ==
  LET s == training[e].scenario
      version == training[e].version
  IN  /\ Working(e, Writing)
      /\ \E left \in Written(e) : disk' = [disk EXCEPT ![s] = left]
      /\ CacheModel(e, s, version)
      /\ answered' = [answered EXCEPT ![e][s] = version]
      /\ training' = [training EXCEPT ![e] = Idle]
      /\ UNCHANGED <<running, newest, overlaps>>

\* Fitting or pickling raises, the latter in the middle of the file: "failed".
TrainFails(e) ==
  LET s == training[e].scenario
  IN  /\ Working(e, Trains)
      /\ \E left \in IF training[e].phase = "writing" THEN {Partial}
                     ELSE IF training[e].phase = "sharing" THEN {Partial, disk[s]}
                     ELSE {disk[s]} :
           disk' = [disk EXCEPT ![s] = left]
      /\ training' = [training EXCEPT ![e] = Idle]
      /\ UNCHANGED <<running, models, metadata, newest, answered, overlaps>>

Predict(e, s) ==
  /\ Working(e, {"idle"}) /\ HasModel(e, s)
  /\ models' = [models EXCEPT ![e] = Touch(@, s)]
  /\ UNCHANGED <<running, metadata, disk, training, newest, answered, overlaps>>

ForgetModels(e) ==
  /\ models' = [models EXCEPT ![e] = <<>>]
  /\ metadata' = [metadata EXCEPT ![e] = NoMetadata]

\* clear_all_caches: the files stay, and nothing loads them again.
ClearModels(e) ==
  /\ Working(e, {"idle"}) /\ ForgetModels(e)
  /\ UNCHANGED <<running, disk, training, newest, answered, overlaps>>

\* A process may end at any time: in the middle of the file it writes, or when the
\* file is whole and the answer is not given.
Stop(e) ==
  LET s == training[e].scenario
  IN  /\ e \in running /\ running' = running \ {e}
      /\ ForgetModels(e)
      /\ IF training[e].phase \in Writing
         THEN \E left \in {Partial} \cup Written(e) : disk' = [disk EXCEPT ![s] = left]
         ELSE UNCHANGED disk
      /\ training' = [training EXCEPT ![e] = Idle]
      /\ UNCHANGED <<newest, answered, overlaps>>

\* What can be unpickled.
Loadable == {s \in Scenarios : disk[s] > Absent}

\* A new process loads every file there is, in the order of the directory.
LoadExistingModels(e) ==
  /\ e \notin running /\ running' = running \cup {e}
  /\ \E order \in [1..Cardinality(Loadable) -> Loadable] :
       /\ \A i, j \in DOMAIN order : order[i] = order[j] => i = j
       /\ models' = [models EXCEPT ![e] =
            [i \in DOMAIN order |-> [key |-> order[i], version |-> disk[order[i]]]]]
  /\ metadata' = [metadata EXCEPT ![e] = [s \in Scenarios |-> IF s \in Loadable THEN disk[s] ELSE Absent]]
  /\ UNCHANGED <<disk, training, newest, answered, overlaps>>

Next ==
  \E e \in Engines :
    \/ OpenFile(e) \/ Saved(e) \/ TrainFails(e) \/ ClearModels(e) \/ Stop(e) \/ LoadExistingModels(e)
    \/ \E s \in Scenarios : ReadData(e, s) \/ Predict(e, s)

Spec == Init /\ [][Next]_vars

-----------------------------------------------------------------------------
(* Properties *)

\* An engine predicts with a model older than one it answered "trained" for only if the
\* older one was still in training, by another process, when the newer one began.  So
\* across evictions, clears, failed and interrupted savings, deaths and restarts, an
\* engine that trains while no other process trains the same scenario keeps what it
\* answered for or has no model at all.
OlderOnlyByOverlap ==
  \A e \in running, s \in Scenarios :
    LET version == Entry(models[e], s).version
    IN  HasModel(e, s) =>
          \/ version >= answered[e][s]
          \/ <<s, version, answered[e][s]>> \in overlaps

\* "List all trained ChimeraOracle models."  (src/src/api/routers/oracle.py)
TrainedIsListed ==
  \A e \in running, s \in Scenarios : answered[e][s] > Absent /\ disk[s] > Absent => HasModel(e, s)
===============================================================================
