---------------------------- MODULE MCPrototype -----------------------------
(* The mock data main.go always runs with (357-384): five services of      *)
(* which two or three fill a disk.  Cpu counts halves.                     *)
EXTENDS Prototype, TLC

MCResource == {"cpu", "memory", "disk"}
MCPortNo   == {-1, 3030, 8080, 4030, 22, 2022, 3000, 30, 3040}

Entry(cpu, memory, disk, ports) ==
  [res   |-> "cpu" :> cpu @@ "memory" :> memory @@ "disk" :> disk,
   ports |-> [p \in MCPortNo |-> IF p \in ports THEN 1 ELSE 0]]

MCServices == 0 :> Entry(2, 256, 4096, {3030, 8080}) @@
              1 :> Entry(2, 512, 4096, {4030, 22}) @@
              2 :> Entry(3, 125, 4096, {2022, 3000}) @@
              3 :> Entry(4, 256, 4096, {30, 3040}) @@
              4 :> Entry(4, 256, 4096, {30, 3040})

MCMachines == 0 :> Entry(28, 8096, 10096, {}) @@ 1 :> Entry(30, 13096, 13096, {})

(* What high.py makes of the mock service map (main.go 375-381): links of  *)
(* weight 9, 8, 6 and 5 join 0 and 1, 3 and 4, 2 and {0, 1}, and all.      *)
MCRows == 5 :> {0, 1} @@ 6 :> {3, 4} @@ 7 :> {0, 1, 2} @@ 8 :> {0, 1, 2, 3, 4}
=============================================================================
