--------------------------- MODULE BenchmarkLoad ----------------------------
(***************************************************************************)
(* The benchmark with the load its handlers make: do_GET of every server   *)
(* begins with os.system('python /server/CPULoadGenerator.py ...'), a      *)
(* process with three threads, and goes on when that has ended.  Only the  *)
(* last handler of a client's stack runs, so one process at a time works   *)
(* for a client, and processes share nothing: one client is enough.        *)
(***************************************************************************)
EXTENDS Benchmark, LoadGenerator

ASSUME OneClient == \E c \in Client : Client = {c}

BenchmarkInit == BenchInit /\ Init

(* The process starts when a handler asks for it; a step of the handlers   *)
(* is none of the process, and the other way round.                        *)
LoadStep(step) ==
  /\ step
  /\ main = "start" => \E c \in Client : stack[c] # <<>> /\ Burning(Last(stack[c]))
  /\ UNCHANGED benchVars

(* os.system returns; the next process starts with attributes of its own.  *)
Return(c) ==
  /\ main = "done"
  /\ Burnt(c)
  /\ main' = "start" /\ monitor' = "new" /\ control' = "new"
  /\ running' = TRUE
  /\ measured' = 0 /\ cpu' = 0
  /\ CT' = Full \div 5
  /\ err' = 0 /\ samp' = 0 /\ integral' = 0 /\ cpuPeriod' = 0
  /\ sleepTime' = Full
  /\ sleep_time' = -1 /\ elapsed' = 0

HandlersStep(c) == (Request(c) \/ HandlerStep(c)) /\ UNCHANGED vars

BenchmarkNext ==
  \/ LoadStep(MonitorStep) \/ LoadStep(ControlStep) \/ LoadStep(MainStep)
  \/ \E c \in Client : Return(c) \/ HandlersStep(c)

(* Each handler has a thread of its own, which runs on, and so has each    *)
(* part of the process; connections need not be refused.                   *)
BenchmarkFairness ==
  /\ \A c \in Client :
       WF_<<benchVars, vars>>(Return(c) \/ ((Call(c) \/ Answer(c) \/ Close(c)) /\ UNCHANGED vars))
  /\ WF_<<benchVars, vars>>(LoadStep(MonitorStep))
  /\ WF_<<benchVars, vars>>(LoadStep(ControlStep))
  /\ WF_<<benchVars, vars>>(LoadStep(MainStep))

BenchmarkSpec == BenchmarkInit /\ [][BenchmarkNext]_<<benchVars, vars>> /\ BenchmarkFairness

(* The type invariants of both; no handler makes more calls than its path  *)
(* has.                                                                    *)
BenchmarkTypeOK == TypeOK /\ BenchTypeOK
=============================================================================
