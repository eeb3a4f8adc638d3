---------------------------- MODULE MCThreadPools ----------------------------
(***************************************************************************)
(* The two thread pools for TLC.  A behaviour is about one of them, its    *)
(* subject; the tasks and the clients are the same.                        *)
(***************************************************************************)
EXTENDS BackpressureThreadPool

CONSTANTS Subjects,                       (* the classes to check             *)
          ScalingTasks,                   (* the tasks of the scaling pool    *)
          Slots, CoreWorkers, MaxWorkers  (* of the ScalingThreadPool         *)

ASSUME ScalingAssumption ==
  /\ ScalingTasks \subseteq Tasks
  /\ Tasks \cap {"none", "getting", "idle", "checking", "leaving", "dead"} = {}
  /\ IsFiniteSet(Slots)
  /\ CoreWorkers \in Nat /\ MaxWorkers \in Nat
  /\ CoreWorkers <= MaxWorkers /\ MaxWorkers <= Cardinality(Slots)

VARIABLES subject, monitor, target, toJoin

Scaling == INSTANCE ScalingThreadPool WITH Tasks <- ScalingTasks

allVars == <<subject, vars, monitor, target, toJoin>>

MCInit ==
  /\ subject \in Subjects
  /\ \/ /\ subject = "backpressure" /\ Init
        /\ monitor = "sleeping" /\ target = CoreWorkers /\ toJoin = {}
     \/ /\ subject = "scaling" /\ Scaling!ScalingInit
        /\ policy = "abort"

IsBackpressure == subject = "backpressure"
IsScaling == subject = "scaling"
OfBackpressure == UNCHANGED <<subject, monitor, target, toJoin>>
OfScaling == UNCHANGED <<subject, policy>>

MCNext == \/ IsBackpressure /\ Next /\ OfBackpressure
          \/ IsScaling /\ Scaling!ScalingNext /\ OfScaling

(* Workers, the monitor and a shutdown in progress go on; the functions     *)
(* return.  Clients may stop, and nobody needs to call shutdown().          *)
MCSpec ==
  /\ MCInit /\ [][MCNext]_allVars
  /\ WF_allVars(IsBackpressure /\ Close /\ OfBackpressure)
  /\ \A w \in Workers : WF_allVars(IsBackpressure /\ Work(w) /\ OfBackpressure)
  /\ WF_allVars(IsScaling /\ Scaling!CloseScaling /\ OfScaling)
  /\ WF_allVars(IsScaling /\ Scaling!Monitor /\ OfScaling)
  /\ \A s \in Slots : WF_allVars(IsScaling /\ Scaling!ScalingWork(s) /\ OfScaling)

-----------------------------------------------------------------------------
(* The properties of both pools.                                            *)

(* No task is lost or run twice, the queue and the workers stay within      *)
(* their bounds, and a monitor with old counts never starts too many.       *)
TasksKept ==
  /\ TaskInOnePlace
  /\ IsBackpressure => TypeOK
  /\ IsScaling => Scaling!ScalingTypeOK

(* Tasks that were queued before shutdown are settled in the end.           *)
TasksSettle ==
  /\ IsBackpressure => EarlyTasksSettle
  /\ IsScaling => Scaling!OpenTasksSettle

(* shutdown() returns.                                                      *)
PoolsShutDown ==
  /\ IsBackpressure => ShutdownReturns
  /\ IsScaling => Scaling!ScalingShutdownReturns
=============================================================================
