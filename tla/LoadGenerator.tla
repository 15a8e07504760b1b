---------------------------- MODULE LoadGenerator ---------------------------
(***************************************************************************)
(* The CPU load each handler of the benchmark makes: CPULoadGenerator.py   *)
(* with utils/Monitor.py, Controller.py and closedLoopActuator.py.  Three  *)
(* threads share a few attributes without a lock: the monitor measures the *)
(* load, the controller is a PI regulator that turns it into a sleep time, *)
(* and the main thread carries both numbers between them, burns and sleeps.*)
(*                                                                         *)
(* A full load is Full units, so that kp = 0.02, ki = 0.2 and the period   *)
(* of 0.1 s become 1, 10 and 5 * Full; integral stands for 10 * int_err    *)
(* and samp counts sampling intervals of 0.1 s.                            *)
(***************************************************************************)
EXTENDS Integers

CONSTANTS Full, CpuLoad, MaxSamp, Duration, Late, MaxLoop

ASSUME LoadAssumption ==
  /\ Full \in Nat \ {0} /\ MaxSamp \in Nat \ {0} /\ MaxLoop \in Nat \ {0}
  /\ CpuLoad \in 0 .. Full
  /\ Duration \in Nat /\ Late \in Nat

Period == 5 * Full

VARIABLES main,      \* where the main thread is
          monitor,   \* "new", "check", "sample" or "ended"
          control,   \* "new", "check", "sleep", "clamp" or "ended"
          running,   \* the flags of the two threads
          measured,  \* monitor.cpu
          cpu,       \* controller.cpu, filtered
          CT,        \* controller.CT, the target
          err, samp, integral, cpuPeriod,  \* the regulator's attributes and samp_int
          sleepTime, \* controller.sleepTime
          sleep_time,\* the local variable of actuator.run; -1: not assigned
          elapsed    \* time since the actuator's start_time, in its own unit

controlVars == <<control, err, samp, integral, cpuPeriod, sleepTime>>
monitorVars == <<monitor, measured>>
mainVars == <<main, running, cpu, CT, sleep_time, elapsed>>
vars == <<controlVars, monitorVars, mainVars>>

Init ==
  /\ main = "start" /\ monitor = "new" /\ control = "new"
  /\ running = TRUE
  /\ measured = 0 /\ cpu = 0
  /\ CT = Full \div 5
  /\ err = 0 /\ samp = 0 /\ integral = 0 /\ cpuPeriod = 0
  /\ sleepTime = Full
  /\ sleep_time = -1 /\ elapsed = 0

-----------------------------------------------------------------------------
(* Monitor.run: the flag is read before each sample of the load.           *)
MonitorChecks ==
  /\ monitor = "check"
  /\ monitor' = IF running THEN "sample" ELSE "ended"
  /\ UNCHANGED <<measured, controlVars, mainVars>>

Measure ==
  /\ monitor = "sample"
  /\ monitor' = "check"
  /\ measured' \in 0 .. Full
  /\ UNCHANGED <<controlVars, mainVars>>

(* Controller.run: the flag is read before each sleep.                     *)
ControlChecks ==
  /\ control = "check"
  /\ control' = IF running THEN "sleep" ELSE "ended"
  /\ UNCHANGED <<err, samp, integral, cpuPeriod, sleepTime, monitorVars, mainVars>>

(* Mutant: the sleep time is set at once, before the clamps.               *)
Regulate_Early ==
  /\ control = "sleep"
  /\ control' = "clamp"
  /\ err' = CT - cpu
  /\ samp' \in 1 .. MaxSamp
  /\ integral' = integral + err' * samp'
  /\ cpuPeriod' = err' + integral'
  /\ sleepTime' = Period - cpuPeriod'
  /\ UNCHANGED <<monitorVars, mainVars>>

(* Controller.run after its sleep: the error and the regulator's output.   *)
Regulate ==
  /\ control = "sleep"
  /\ control' = "clamp"
  /\ err' = CT - cpu
  /\ samp' \in 1 .. MaxSamp
  /\ integral' = integral + err' * samp'
  /\ cpuPeriod' = err' + integral'
  /\ UNCHANGED <<sleepTime, monitorVars, mainVars>>

(* Mutant: no anti wind up at the upper limit.                             *)
Clamp_Winds ==
  /\ control = "clamp"
  /\ control' = "check"
  /\ cpuPeriod' = CASE cpuPeriod < 0 -> 0
                    [] cpuPeriod > Period -> Period
                    [] OTHER -> cpuPeriod
  /\ integral' = IF cpuPeriod < 0 THEN integral - err * samp ELSE integral
  /\ sleepTime' = Period - cpuPeriod'
  /\ UNCHANGED <<err, samp, monitorVars, mainVars>>

(* The rest of the loop: a limit reached takes the last error back out of  *)
(* the integral.                                                           *)
Clamp ==
  /\ control = "clamp"
  /\ control' = "check"
  /\ cpuPeriod' = CASE cpuPeriod < 0 -> 0
                    [] cpuPeriod > Period -> Period
                    [] OTHER -> cpuPeriod
  /\ integral' = IF cpuPeriod \in 0 .. Period THEN integral ELSE integral - err * samp
  /\ sleepTime' = Period - cpuPeriod'
  /\ UNCHANGED <<err, samp, monitorVars, mainVars>>

-----------------------------------------------------------------------------
(* setCpu, a first order filter: a value between the old one and the load  *)
(* measured.                                                               *)
Filtered == {x \in 0 .. Full : (cpu <= x /\ x <= measured) \/ (measured <= x /\ x <= cpu)}

Start ==
  /\ main = "start"
  /\ main' = "construct"
  /\ monitor' = "check" /\ control' = "check"
  /\ UNCHANGED <<measured, err, samp, integral, cpuPeriod, sleepTime,
                 running, cpu, CT, sleep_time, elapsed>>

(* setCpuTarget, the actuator's constructor, and what passes until run     *)
(* reads the clock for the first time.                                     *)
Construct ==
  /\ main = "construct"
  /\ main' = "loop"
  /\ CT' = CpuLoad
  /\ cpu' \in Filtered
  /\ elapsed' \in 0 .. Late
  /\ UNCHANGED <<running, sleep_time, controlVars, monitorVars>>

Loop ==
  /\ main = "loop" /\ elapsed <= Duration
  /\ main' = "load"
  /\ cpu' \in Filtered
  /\ sleep_time' = sleepTime
  /\ UNCHANGED <<running, CT, elapsed, controlVars, monitorVars>>

(* generate_load; Late, Duration and MaxLoop bound elapsed.                *)
GenerateLoad ==
  /\ main = "load"
  /\ main' = "loop"
  /\ \E d \in 1 .. MaxLoop : elapsed' = elapsed + d
  /\ UNCHANGED <<running, cpu, CT, sleep_time, controlVars, monitorVars>>

(* The time is up; return sleep_time fails if the loop never ran.          *)
Leave ==
  /\ main = "loop" /\ elapsed > Duration
  /\ main' = IF sleep_time = -1 THEN "failed" ELSE "stop"
  /\ UNCHANGED <<running, cpu, CT, sleep_time, elapsed, controlVars, monitorVars>>

(* Mutant: the flag stays set.                                             *)
Stop_NoFlag ==
  /\ main = "stop"
  /\ main' = "join"
  /\ UNCHANGED <<running, cpu, CT, sleep_time, elapsed, controlVars, monitorVars>>

Stop ==
  /\ main = "stop"
  /\ main' = "join"
  /\ running' = FALSE
  /\ UNCHANGED <<cpu, CT, sleep_time, elapsed, controlVars, monitorVars>>

Join ==
  /\ main = "join" /\ monitor = "ended" /\ control = "ended"
  /\ main' = "done"
  /\ UNCHANGED <<running, cpu, CT, sleep_time, elapsed, controlVars, monitorVars>>

MonitorStep == MonitorChecks \/ Measure
ControlStep == ControlChecks \/ Regulate \/ Clamp
MainStep == Start \/ Construct \/ Loop \/ GenerateLoad \/ Leave \/ Stop \/ Join

Next == MonitorStep \/ ControlStep \/ MainStep

(* The operating system runs each of the three threads.                    *)
Fairness == WF_vars(MonitorStep) /\ WF_vars(ControlStep) /\ WF_vars(MainStep)

Spec == Init /\ [][Next]_vars /\ Fairness

-----------------------------------------------------------------------------
(* The type invariant.                                                     *)
TypeOK ==
  /\ main \in {"start", "construct", "loop", "load", "failed", "stop", "join", "done"}
  /\ monitor \in {"new", "check", "sample", "ended"}
  /\ control \in {"new", "check", "sleep", "clamp", "ended"}
  /\ running \in BOOLEAN
  /\ measured \in 0 .. Full /\ cpu \in 0 .. Full /\ CT \in 0 .. Full
  /\ err \in Int /\ samp \in Nat /\ integral \in Int /\ cpuPeriod \in Int
  /\ sleepTime \in Int /\ sleep_time \in Int /\ elapsed \in Nat

(* At no moment, in the middle of a sample included, can the main thread   *)
(* read a sleep time outside the period: time.sleep refuses a negative     *)
(* one.                                                                    *)
SleepInRange == sleepTime \in 0 .. Period /\ sleep_time \in -1 .. Period

(* Anti wind up: however long the load stays off the target, and however   *)
(* late the samples come, the integral stays where the next errors of the  *)
(* other sign can bring the output off its limit.                          *)
IntegralBounded == control # "clamp" => integral \in -Full .. Period + Full

(* A process that has started ends: both threads do, and the main thread   *)
(* after them.                                                             *)
Stops == main = "construct" ~> (monitor = "ended" /\ control = "ended" /\ main = "done")
=============================================================================
