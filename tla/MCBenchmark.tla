---------------------------- MODULE MCBenchmark -----------------------------
(* One client; a target between no load and a full one, samples that may   *)
(* come late, and a start that takes no longer than the duration.          *)
EXTENDS BenchmarkLoad

MCFull     == 2
MCCpuLoad  == 1
MCMaxSamp  == 2
MCDuration == 1
MCLate     == 1
MCMaxLoop  == 1
=============================================================================
