------------------------------- MODULE Alerts -------------------------------
(***************************************************************************)
(* Lists of alerts, model/alert.go: Status asks each alert in turn whether *)
(* it is resolved, by the clock of that moment, and sort.Sort orders the   *)
(* list by Less.  Time 0 is Go's zero time, "not set".                     *)
(***************************************************************************)
EXTENDS Integers, Sequences

CONSTANTS Lists,  \* lists of alerts: [StartsAt, EndsAt, Fingerprint, valid]
          End     \* the clock stops here

(* Times count from Go's zero time; a fingerprint is a number.             *)
Alert == [StartsAt : Nat, EndsAt : Nat, Fingerprint : Nat, valid : BOOLEAN]

ASSUME AlertsAssumption ==
  /\ \A list \in Lists : list \in Seq(Alert)
  /\ End \in Nat \ {0}

VARIABLES alerts, \* the alerts
          now,    \* the clock
          asked,  \* the clock when Status was called
          next,   \* the alert HasFiring looks at, or where the sort is
          pos,    \* the place of the alert that the sort moves down
          task    \* "idle", "status", "sort", "sorted", or Status's answer

alertVars == <<alerts, now, asked, next, pos, task>>

(* Validate, with the checks of the label sets as one flag.                *)
Validate(a) ==
  /\ a.StartsAt # 0
  /\ a.EndsAt = 0 \/ a.EndsAt >= a.StartsAt
  /\ a.valid

AlertsInit ==
  /\ alerts \in {list \in Lists : \A k \in DOMAIN list : Validate(list[k])}
  /\ now = 1 /\ asked = 1
  /\ next = 1 /\ pos = 1
  /\ task = "idle"

-----------------------------------------------------------------------------
Tick ==
  /\ now < End
  /\ now' = now + 1
  /\ UNCHANGED <<alerts, asked, next, pos, task>>

(* Mutant: an alert without an end counts as one that ended long ago.      *)
ResolvedAt_NoZero(a, ts) == a.EndsAt <= ts

ResolvedAt(a, ts) == a.EndsAt # 0 /\ a.EndsAt <= ts

Status ==
  /\ task = "idle"
  /\ task' = "status" /\ asked' = now /\ next' = 1
  /\ UNCHANGED <<alerts, now, pos>>

(* The loop of HasFiring, with the clock read for each alert.              *)
HasFiring ==
  /\ task = "status"
  /\ IF next > Len(alerts) THEN task' = "resolved" /\ UNCHANGED next
     ELSE IF ~ResolvedAt(alerts[next], now) THEN task' = "firing" /\ UNCHANGED next
     ELSE next' = next + 1 /\ UNCHANGED task
  /\ UNCHANGED <<alerts, now, asked, pos>>

-----------------------------------------------------------------------------
AlertLess(a, b) ==
  \/ a.StartsAt < b.StartsAt
  \/ a.EndsAt < b.EndsAt
  \/ a.Fingerprint < b.Fingerprint

SortAlerts ==
  /\ task = "idle"
  /\ task' = "sort" /\ next' = 1 /\ pos' = 1
  /\ UNCHANGED <<alerts, now, asked>>

(* sort.Sort, an insertion sort for lists as short as these.               *)
AlertSinks == pos > 1 /\ AlertLess(alerts[pos], alerts[pos - 1])

SwapAlerts ==
  /\ task = "sort" /\ next <= Len(alerts) /\ AlertSinks
  /\ alerts' = [alerts EXCEPT ![pos] = alerts[pos - 1], ![pos - 1] = alerts[pos]]
  /\ pos' = pos - 1
  /\ UNCHANGED <<now, asked, next, task>>

NextAlert ==
  /\ task = "sort" /\ next <= Len(alerts) /\ ~AlertSinks
  /\ next' = next + 1 /\ pos' = next + 1
  /\ UNCHANGED <<alerts, now, asked, task>>

SortEnds ==
  /\ task = "sort" /\ next > Len(alerts)
  /\ task' = "sorted"
  /\ UNCHANGED <<alerts, now, asked, next, pos>>

AlertsNext ==
  \/ Tick \/ Status \/ HasFiring
  \/ SortAlerts \/ SwapAlerts \/ NextAlert \/ SortEnds

AlertsSpec == AlertsInit /\ [][AlertsNext]_alertVars

-----------------------------------------------------------------------------
AlertsTypeOK ==
  /\ \A k \in DOMAIN alerts : Validate(alerts[k])
  /\ asked \in 1 .. now /\ now \in 1 .. End
  /\ next \in 1 .. (Len(alerts) + 1) /\ pos \in 1 .. (Len(alerts) + 1)
  /\ task \in {"idle", "status", "sort", "sorted", "firing", "resolved"}

(* Although the clock moves while HasFiring runs, an answer "resolved"     *)
(* means that no alert of the list is active now or is active for ever,    *)
(* and an answer "firing" that one was active when Status was called.      *)
Active(a, t) == a.EndsAt = 0 \/ t < a.EndsAt

StatusSound ==
  /\ task = "resolved" => \A k \in DOMAIN alerts : ~Active(alerts[k], now)
  /\ task = "firing"   => \E k \in DOMAIN alerts : Active(alerts[k], asked)

(* "Alert is a list of alerts that can be sorted in chronological order"   *)
(* (alert.go): after the sort, no alert starts before an earlier one.      *)
Chronological ==
  task = "sorted" =>
    \A k \in DOMAIN alerts : \A n \in 1 .. (k - 1) : alerts[n].StartsAt <= alerts[k].StartsAt
=============================================================================
