------------------------- MODULE MC_TargetScheduler -------------------------
(* One target.  The latency detector and the tracer share no state with the
   scheduler: a behaviour is one of the scheduler, or one of the detector, or
   one of the tracer, with the others at rest.                              *)
EXTENDS TargetScheduler, LatencyShift, RouteTrace

CONSTANTS t1

probe == <<vars, detector, tracer>>

SchedulerRests == syncs = 0 /\ trace = "grace" /\ ~stopped
DetectorRests == log = <<>>
TracerRests == step = "resolve" /\ ~expired

ProbeInit == Init /\ ShiftInit /\ TracerInit
ProbeNext ==
    \/ Next /\ DetectorRests /\ TracerRests /\ UNCHANGED <<detector, tracer>>
    \/ ShiftNext /\ SchedulerRests /\ TracerRests /\ UNCHANGED <<vars, tracer>>
    \/ TracerNext /\ SchedulerRests /\ DetectorRests /\ UNCHANGED <<vars, detector>>
ProbeSpec == ProbeInit /\ [][ProbeNext]_probe /\ Fairness
=============================================================================
