------------------------------ MODULE MCVoter ------------------------------
(***************************************************************************)
(* The configurations of the voter that are checked.                       *)
(***************************************************************************)
EXTENDS Voter

(* Three RT replicas, two outputs, the last one timed, one cycle at a time, *)
(* two upsets of any kind and one early expiry of the watchdog.             *)
Tmr == [RepType |-> "TMR", NOut |-> 2, TimerStop |-> 2, Ring |-> 3, Block |-> 2,
        RealTime |-> TRUE, Preempts |-> TRUE, Window |-> 1, MaxFaults |-> 2, MaxLate |-> 1,
        FaultKinds |-> {"crash", "hang", "sdc"}]

(* Two replicas: crashes and hangs are repaired, corruption is only detected. *)
Dmr == [Tmr EXCEPT !.RepType = "DMR", !.FaultKinds = {"crash", "hang"}]

(* Three replicas without real time priority, whose timer also starts when *)
(* they are out of step, and a burst of two inputs.                        *)
Lag == [Tmr EXCEPT !.NOut = 1, !.TimerStop = 1, !.Ring = 4, !.RealTime = FALSE,
                   !.Window = 2, !.MaxFaults = 1]

(* No assumption on the scheduler: replicas and voter interleave freely. *)
Unscheduled == [Lag EXCEPT !.Preempts = FALSE, !.Window = 1, !.MaxLate = 0]

(* The timed output is written before another one, as by Filter in *)
(* controllers/configs/all_tri.cfg.                                *)
TimedFirst == [Tmr EXCEPT !.TimerStop = 1, !.MaxFaults = 1, !.MaxLate = 0]

(* Replicas without real time priority, two outputs, a burst of two inputs. *)
Behind == [TimedFirst EXCEPT !.RealTime = FALSE, !.Window = 2]

MCShipped == {Tmr, Dmr, Lag, Unscheduled}
MCTimedFirst == {TimedFirst}
MCBehind == {Behind}
=============================================================================
