------------------------------ MODULE MCLinkage -----------------------------
(* The clustering script for up to MaxServices services and every service  *)
(* map with entries from Weights.                                          *)
EXTENDS Linkage

CONSTANT MaxServices

Pairs(n) == {p \in (0 .. (n - 1)) \X (0 .. (n - 1)) : p[1] < p[2]}

(* The service map is symmetric; its diagonal is not read.                 *)
MCInit ==
  \E n \in 0 .. MaxServices : \E link \in [Pairs(n) -> Weights] :
     /\ num_services = n
     /\ Dist = [i \in 0 .. (n - 1) |-> [j \in 0 .. (n - 1) |->
                  IF i = j THEN 1 ELSE IF i < j THEN link[<<i, j>>] ELSE link[<<j, i>>]]]
     /\ Init

MCSpec == MCInit /\ [][Next]_vars /\ Fairness
=============================================================================
