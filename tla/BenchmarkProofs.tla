--------------------------- MODULE BenchmarkProofs --------------------------
(***************************************************************************)
(* The benchmark together with its load generator: the sleep time stays in *)
(* its range and the integral does not wind up, for every resolution of    *)
(* the loads, every target and every delay of a sample; no request waits   *)
(* for itself, and each answer stands for the whole route, whatever        *)
(* connections are refused.                                                *)
(***************************************************************************)
EXTENDS BenchmarkLoad, SequenceTheorems, TLAPS

-----------------------------------------------------------------------------
(* The load generator.                                                     *)

(* A sample is remembered: between Regulate and Clamp the integral without *)
(* the last step is the one that was in its bounds, and the output is the  *)
(* sum Clamp cuts off.                                                     *)
Sampled ==
  control = "clamp" =>
     /\ err \in -Full .. Full
     /\ cpuPeriod = err + integral
     /\ integral - err * samp \in -Full .. Period + Full

(* The controller runs only once it was started.                           *)
Unstarted == main = "start" => control = "new"

LoadInv == TypeOK /\ Unstarted /\ Sampled /\ SleepInRange /\ IntegralBounded

LEMMA PeriodNat == Period \in Nat /\ Full \in Nat /\ CpuLoad \in 0 .. Full
BY LoadAssumption DEF LoadAssumption, Period

(* The first states.                                                       *)
LEMMA LoadInvInit == Init => LoadInv
<1> SUFFICES ASSUME Init PROVE LoadInv
  OBVIOUS
<1> USE DEF Init
<1>1. TypeOK
  BY LoadAssumption DEF TypeOK, LoadAssumption
<1>2. Unstarted /\ Sampled /\ SleepInRange /\ IntegralBounded
  BY LoadAssumption, PeriodNat
  DEF Unstarted, Sampled, SleepInRange, IntegralBounded, Period, LoadAssumption
<1> QED
  BY <1>1, <1>2 DEF LoadInv

(* Every step; only the controller and the main thread's Loop matter.      *)
LEMMA LoadInvNext == LoadInv /\ [Next]_vars => LoadInv'
<1> SUFFICES ASSUME LoadInv, [Next]_vars PROVE LoadInv'
  OBVIOUS
<1> USE PeriodNat DEF LoadInv
<1>1. CASE Regulate
  <2> USE <1>1 DEF Regulate
  <2>1. /\ err' \in -Full .. Full
        /\ samp' \in Nat
        /\ err' * samp' \in Int
    BY LoadAssumption DEF TypeOK, LoadAssumption
  <2>2. TypeOK'
    BY <2>1 DEF TypeOK, monitorVars, mainVars
  <2>3. Sampled'
    <3>1. integral \in -Full .. Period + Full
      BY DEF IntegralBounded
    <3> DEFINE step == err' * samp'
    <3>2. integral' - step = integral
      <4>1. step \in Int /\ integral \in Int /\ integral' = integral + step
        BY <2>1 DEF TypeOK
      <4> HIDE DEF step
      <4> QED
        BY <4>1
    <3>3. cpuPeriod' = err' + integral'
      OBVIOUS
    <3>4. integral' - err' * samp' \in -Full .. Period + Full
      BY <3>1, <3>2, Zenon
    <3> QED
      BY <2>1, <3>3, <3>4, Zenon DEF Sampled
  <2>4. Unstarted' /\ SleepInRange' /\ IntegralBounded'
    BY DEF Unstarted, SleepInRange, IntegralBounded, mainVars, monitorVars
  <2> QED
    BY <2>2, <2>3, <2>4
<1>2. CASE Clamp
  <2> USE <1>2 DEF Clamp
  <2>1. err * samp \in Int
    BY DEF TypeOK
  <2>2. cpuPeriod' \in 0 .. Period
    BY DEF TypeOK
  <2>3. integral' \in -Full .. Period + Full
    <3>1. CASE cpuPeriod \in 0 .. Period
      BY <3>1 DEF Sampled, TypeOK
    <3>2. CASE cpuPeriod \notin 0 .. Period
      BY <3>2 DEF Sampled
    <3> QED
      BY <3>1, <3>2
  <2>4. sleepTime' \in 0 .. Period
    BY <2>2
  <2>5. TypeOK'
    BY <2>2, <2>3, <2>4 DEF TypeOK, monitorVars, mainVars
  <2> QED
    BY <2>3, <2>4, <2>5 DEF Unstarted, Sampled, SleepInRange, IntegralBounded, mainVars
<1>3. CASE ControlChecks
  BY <1>3 DEF ControlChecks, TypeOK, Unstarted, Sampled, SleepInRange, IntegralBounded,
     monitorVars, mainVars
<1>4. CASE MonitorChecks \/ Measure
  BY <1>4 DEF MonitorChecks, Measure,
     TypeOK, Unstarted, Sampled, SleepInRange, IntegralBounded,
     controlVars, mainVars
<1>5. CASE Start
  <2>1. TypeOK'
    BY <1>5 DEF Start, TypeOK
  <2>2. Unstarted' /\ Sampled' /\ SleepInRange' /\ IntegralBounded'
    <3>1. control # "clamp" /\ control' # "clamp"
      BY <1>5 DEF Start, Unstarted
    <3> QED
      BY <1>5, <3>1 DEF Start, Unstarted, Sampled, SleepInRange, IntegralBounded
  <2> QED
    BY <2>1, <2>2
<1>6. CASE Construct
  BY <1>6, LoadAssumption DEF Construct, Filtered,
     TypeOK, Unstarted, Sampled, SleepInRange,
     IntegralBounded, controlVars, monitorVars, LoadAssumption
<1>7. CASE Loop
  BY <1>7 DEF Loop, Filtered, TypeOK, Unstarted, Sampled, SleepInRange, IntegralBounded,
     controlVars, monitorVars
<1>8. CASE GenerateLoad
  BY <1>8, LoadAssumption DEF GenerateLoad,
     TypeOK, Unstarted, Sampled, SleepInRange, IntegralBounded,
     controlVars, monitorVars, LoadAssumption
<1>9. CASE Leave \/ Stop \/ Join
  BY <1>9 DEF Leave, Stop, Join,
     TypeOK, Unstarted, Sampled, SleepInRange, IntegralBounded,
     controlVars, monitorVars
<1>10. CASE UNCHANGED vars
  BY <1>10 DEF vars, TypeOK, Unstarted, Sampled, SleepInRange, IntegralBounded,
     controlVars, monitorVars, mainVars
<1> QED
  BY <1>1, <1>2, <1>3, <1>4, <1>5, <1>6, <1>7, <1>8, <1>9, <1>10
  DEF Next, MonitorStep, ControlStep, MainStep

(* A process that starts anew is in a first state, and the handlers leave  *)
(* it alone.                                                               *)
LEMMA LoadInvStep == LoadInv /\ [BenchmarkNext]_<<benchVars, vars>> => LoadInv'
<1> SUFFICES ASSUME LoadInv, [BenchmarkNext]_<<benchVars, vars>> PROVE LoadInv'
  OBVIOUS
<1>1. ASSUME NEW c \in Client, Return(c) PROVE LoadInv'
  <2>1. Init'
    BY <1>1 DEF Return, Init
  <2> QED
    BY <2>1, LoadInvInit, PTL
<1>2. CASE UNCHANGED vars
  BY <1>2, LoadInvNext
<1>3. CASE MonitorStep \/ ControlStep \/ MainStep
  BY <1>3, LoadInvNext DEF Next
<1> QED
  BY <1>1, <1>2, <1>3 DEF BenchmarkNext, LoadStep, HandlersStep

-----------------------------------------------------------------------------
(* The handlers.                                                           *)

HandlerSet == [app : App, path : {"a", "b", "c", "d", "e"},
               burnt : BOOLEAN, made : 0 .. 2, failed : BOOLEAN]

(* The handlers of one request, by their depth.                            *)
Place(i) == CASE i = 1 -> {<<"A", "a">>}
              [] i = 2 -> {<<"B", "a">>}
              [] i = 3 -> {<<"C", "b">>, <<"D", "b">>}
              [] i = 4 -> {<<"E", "c">>, <<"E", "d">>}

(* h waits for its next call, which g serves.                              *)
Waits(h, g) ==
  /\ ~h.failed
  /\ h.made < Len(Calls(h.app, h.path))
  /\ g.app = Calls(h.app, h.path)[h.made + 1]
  /\ g.path = Path[h.app]

(* A stack of the benchmark's route.                                       *)
OnRoute(s) ==
  /\ s \in Seq(HandlerSet)
  /\ Len(s) <= 4
  /\ \A i \in 1 .. Len(s) :
        /\ <<s[i].app, s[i].path>> \in Place(i)
        /\ s[i].made <= Len(Calls(s[i].app, s[i].path))
  /\ \A i \in 1 .. Len(s) - 1 : Waits(s[i], s[i + 1])

(* The answers given before the handlers of a stack got where they are.    *)
AfterC == Append(Append(<<>>, "E"), "C")
AfterD == Append(Append(AfterC, "E"), "D")

ByA(made) == IF made = 0 THEN <<>> ELSE Append(AfterD, "B")
ByB(made) == IF made = 0 THEN <<>> ELSE IF made = 1 THEN AfterC ELSE AfterD

Given(s) == IF Len(s) = 1 THEN ByA(s[1].made)
            ELSE IF Len(s) = 3 /\ s[3].made = 1 THEN Append(ByB(s[2].made), "E")
            ELSE ByB(s[2].made)

(* What holds of each client: the handlers are on the route; unless the    *)
(* last one failed, for a refused connection, all calls before were        *)
(* answered.                                                               *)
ClientInv(c) ==
  /\ OnRoute(stack[c])
  /\ stack[c] # <<>> =>
        IF Last(stack[c]).failed THEN c \in refused ELSE served[c] = Given(stack[c])
  /\ result[c] \in {"idle", "waiting", "ok", "closed"}
  /\ served[c] \in Seq(App)
  /\ result[c] = "idle" => served[c] = <<>>
  /\ result[c] # "waiting" => stack[c] = <<>>
  /\ result[c] = "ok" => served[c] = <<"E", "C", "E", "D", "B", "A">>
  /\ result[c] = "closed" => c \in refused

HandlersShape ==
  /\ stack = [c \in Client |-> stack[c]]
  /\ result = [c \in Client |-> result[c]]
  /\ served = [c \in Client |-> served[c]]
  /\ refused \subseteq Client

HandlersInv == HandlersShape /\ \A c \in Client : ClientInv(c)

(* What the servers do on that route.                                      *)
LEMMA Routes ==
  /\ Calls("A", "a") = <<"B">> /\ Len(Calls("A", "a")) = 1
  /\ Calls("B", "a") = <<"C", "D">> /\ Len(Calls("B", "a")) = 2
  /\ Calls("C", "b") = <<"E">> /\ Len(Calls("C", "b")) = 1
  /\ Calls("D", "b") = <<"E">> /\ Len(Calls("D", "b")) = 1
  /\ Calls("E", "c") = <<>> /\ Len(Calls("E", "c")) = 0
  /\ Calls("E", "d") = <<>> /\ Len(Calls("E", "d")) = 0
BY DEF Calls, CallsOfA, CallsOfB, CallsOfC, CallsOfD, CallsOfE

(* s has the first k elements of u.                                        *)
Begins(s, k, u) ==
  s \in Seq(App) /\ Len(s) = k /\ \A i \in 1 .. k : s[i] = u[i]

LEMMA BeginsMore ==
  ASSUME NEW u, NEW k \in Nat, NEW s, Begins(s, k, u), NEW e \in App,
         NEW m, m = k + 1, e = u[m]
  PROVE  Begins(Append(s, e), m, u)
<1>1. /\ Append(s, e) \in Seq(App) /\ Len(Append(s, e)) = m
      /\ \A i \in 1 .. k : Append(s, e)[i] = s[i]
      /\ Append(s, e)[m] = e
  BY AppendProperties DEF Begins
<1>2. ASSUME NEW i \in 1 .. m PROVE Append(s, e)[i] = u[i]
  <2>1. CASE i = m
    BY <1>1, <2>1
  <2>2. CASE i # m
    <3>1. i \in 1 .. k
      BY <2>2
    <3> QED
      BY <1>1, <3>1 DEF Begins
  <2> QED
    BY <2>1, <2>2
<1> QED
  BY <1>1, <1>2 DEF Begins

(* The answers to a whole request.                                         *)
LEMMA WholeRoute ==
  Append(Append(AfterD, "B"), "A") = <<"E", "C", "E", "D", "B", "A">>
<1> DEFINE u == <<"E", "C", "E", "D", "B", "A">>
           t == Append(Append(AfterD, "B"), "A")
           z == <<>>
<1>1. u \in Seq(App) /\ Len(u) = 6
  BY DEF App
<1>2. u[1] = "E" /\ u[2] = "C" /\ u[3] = "E" /\ u[4] = "D" /\ u[5] = "B" /\ u[6] = "A"
  OBVIOUS
<1> HIDE DEF u
<1>3. {"A", "B", "C", "D", "E"} = App
  BY DEF App
<1>4. Begins(z, 0, u)
  BY DEF Begins
<1> HIDE DEF z
<1>5. Begins(Append(z, "E"), 1, u)
  BY <1>2, <1>3, <1>4, BeginsMore
<1>6. Begins(AfterC, 2, u)
  BY <1>2, <1>3, <1>5, BeginsMore DEF AfterC, z
<1>7. Begins(Append(AfterC, "E"), 3, u)
  BY <1>2, <1>3, <1>6, BeginsMore
<1>8. Begins(AfterD, 4, u)
  BY <1>2, <1>3, <1>7, BeginsMore DEF AfterD
<1>9. Begins(Append(AfterD, "B"), 5, u)
  BY <1>2, <1>3, <1>8, BeginsMore
<1>10. Begins(t, 6, u)
  BY <1>2, <1>3, <1>9, BeginsMore
<1>11. t = u
  BY <1>1, <1>10, SeqEqual DEF Begins
<1> QED
  BY <1>11 DEF u

(* Every server answers on that route.                                     *)
LEMMA AllAnswer ==
  ASSUME NEW i \in 1 .. 4, NEW app, NEW path, <<app, path>> \in Place(i)
  PROVE  Answers(app, path)
BY DEF Place, Answers

(* The handler at work and those that wait for it.                         *)
LEMMA FrontLast ==
  ASSUME NEW S, NEW s \in Seq(S), s # <<>>
  PROVE  /\ Len(s) \in Nat \ {0} /\ DOMAIN s = 1 .. Len(s)
         /\ Last(s) = s[Len(s)] /\ Last(s) \in S
         /\ Front(s) \in Seq(S) /\ Len(Front(s)) = Len(s) - 1
         /\ \A i \in 1 .. Len(s) - 1 : Front(s)[i] = s[i]
         /\ Front(s) = <<>> <=> Len(s) = 1
<1>1. Len(s) \in Nat \ {0} /\ DOMAIN s = 1 .. Len(s) /\ \A i \in 1 .. Len(s) : s[i] \in S
  OBVIOUS
<1>2. Last(s) = s[Len(s)] /\ Last(s) \in S
  BY <1>1 DEF Last
<1>3. /\ SubSeq(s, 1, Len(s) - 1) \in Seq(S)
      /\ Len(SubSeq(s, 1, Len(s) - 1)) = Len(s) - 1
      /\ \A i \in 1 .. Len(s) - 1 : SubSeq(s, 1, Len(s) - 1)[i] = s[i]
  <2> DEFINE n == Len(s) - 1
  <2>1. n \in Nat /\ \A i \in 1 .. n : s[i] \in S
    BY <1>1
  <2> HIDE DEF n
  <2>2. /\ SubSeq(s, 1, n) \in Seq(S)
        /\ Len(SubSeq(s, 1, n)) = n
        /\ \A i \in 1 .. n : SubSeq(s, 1, n)[i] = s[i]
    BY <2>1, SubSeqProperties
  <2> QED
    BY <2>2 DEF n
<1>4. Front(s) = <<>> <=> Len(Front(s)) = 0
  BY <1>3, EmptySeq DEF Front
<1>5. Len(Front(s)) = Len(s) - 1
  BY <1>3 DEF Front
<1> QED
  BY <1>1, <1>2, <1>3, <1>4, <1>5 DEF Front

(* A handler changes in what its caller does not see.                      *)
LEMMA TopChanges ==
  ASSUME NEW s, OnRoute(s), s # <<>>, NEW h \in HandlerSet,
         h.app = Last(s).app, h.path = Last(s).path,
         h.made <= Len(Calls(h.app, h.path))
  PROVE  OnRoute([s EXCEPT ![Len(s)] = h])
<1> DEFINE t == [s EXCEPT ![Len(s)] = h]
           n == Len(s)
<1>0. s \in Seq(HandlerSet) /\ n <= 4
  BY DEF OnRoute
<1>1. n \in Nat \ {0} /\ DOMAIN s = 1 .. n /\ Last(s) = s[n]
  BY <1>0, FrontLast, Zenon
<1>2. t \in Seq(HandlerSet) /\ Len(t) = n /\ DOMAIN t = 1 .. n
  BY <1>0, <1>1
<1>3. t[n] = h /\ \A i \in 1 .. n - 1 : t[i] = s[i]
  BY <1>0, <1>1
<1>4. \A i \in 1 .. n : /\ <<t[i].app, t[i].path>> \in Place(i)
                        /\ t[i].made <= Len(Calls(t[i].app, t[i].path))
  <2> TAKE i \in 1 .. n
  <2>1. CASE i = n
    BY <1>1, <1>3, <2>1 DEF OnRoute
  <2>2. CASE i # n
    BY <1>1, <1>3, <2>2 DEF OnRoute
  <2> QED
    BY <2>1, <2>2
<1>5. \A i \in 1 .. n - 1 : Waits(t[i], t[i + 1])
  <2> TAKE i \in 1 .. n - 1
  <2>1. t[i] = s[i] /\ Waits(s[i], s[i + 1])
    BY <1>1, <1>3 DEF OnRoute
  <2>2. CASE i + 1 = n
    BY <1>1, <1>3, <2>1, <2>2 DEF Waits
  <2>3. CASE i + 1 # n
    BY <1>1, <1>3, <2>1, <2>3
  <2> QED
    BY <2>2, <2>3
<1> QED
  BY <1>0, <1>2, <1>4, <1>5 DEF OnRoute

(* A handler ends; the others were waiting for it.                         *)
LEMMA RouteShrinks ==
  ASSUME NEW s, OnRoute(s), s # <<>>, Front(s) # <<>>
  PROVE  /\ OnRoute(Front(s))
         /\ Len(s) > 1
         /\ Last(Front(s)) = s[Len(s) - 1]
         /\ Waits(s[Len(s) - 1], Last(s))
<1> DEFINE t == Front(s)
           n == Len(s)
<1>0. s \in Seq(HandlerSet) /\ n <= 4
  BY DEF OnRoute
<1>1. /\ n \in Nat \ {0} /\ Last(s) = s[n]
      /\ t \in Seq(HandlerSet) /\ Len(t) = n - 1
      /\ \A i \in 1 .. n - 1 : t[i] = s[i]
      /\ n # 1
  BY <1>0, FrontLast, Zenon
<1>2. Last(t) = t[n - 1]
  BY <1>1 DEF Last
<1>3. \A i \in 1 .. n - 1 : Waits(s[i], s[i + 1])
  BY DEF OnRoute
<1>4. OnRoute(t)
  <2>1. ASSUME NEW i \in 1 .. n - 1
        PROVE  /\ <<t[i].app, t[i].path>> \in Place(i)
               /\ t[i].made <= Len(Calls(t[i].app, t[i].path))
    <3>1. i \in 1 .. n /\ t[i] = s[i]
      BY <1>1
    <3> HIDE DEF t
    <3> QED
      BY <3>1 DEF OnRoute
  <2>2. ASSUME NEW i \in 1 .. n - 2 PROVE Waits(t[i], t[i + 1])
    <3>1. i \in 1 .. n - 1 /\ i + 1 \in 1 .. n - 1
      BY <1>1
    <3> QED
      BY <1>1, <1>3, <3>1, Zenon
  <2> HIDE DEF t
  <2>3. Len(t) <= 4 /\ Len(t) - 1 = n - 2
    BY <1>0, <1>1
  <2> QED
    BY <1>1, <2>1, <2>2, <2>3 DEF OnRoute
<1> QED
  BY <1>0, <1>1, <1>2, <1>3, <1>4

(* A call goes on along the route.                                         *)
LEMMA RouteGrows ==
  ASSUME NEW s, OnRoute(s), s # <<>>, NEW h, h = Last(s), Calling(h),
         NEW g, g = Handler(Calls(h.app, h.path)[h.made + 1], Path[h.app])
  PROVE  OnRoute(Append(s, g)) /\ Given(Append(s, g)) = Given(s)
<1> DEFINE t == Append(s, g)
           n == Len(s)
<1>0. s \in Seq(HandlerSet) /\ n <= 4
  BY DEF OnRoute
<1>1. n \in Nat \ {0} /\ h = s[n]
  BY <1>0, FrontLast, Zenon
<1>2. h \in HandlerSet /\ h.made \in Nat /\ h.made < Len(Calls(h.app, h.path)) /\ ~h.failed
  <2>1. h \in HandlerSet
    BY <1>0, FrontLast, Zenon
  <2>2. h.made \in Nat
    BY <2>1 DEF HandlerSet
  <2> QED
    BY <2>1, <2>2 DEF Calling
<1>3. <<h.app, h.path>> \in Place(n)
  BY <1>0, <1>1 DEF OnRoute
<1>4. /\ n <= 3
      /\ g \in HandlerSet /\ g.made = 0
      /\ <<g.app, g.path>> \in Place(n + 1)
  <2>1. CASE n = 1
    BY <1>2, <1>3, <2>1, Routes DEF Place, Handler, Path, HandlerSet, App
  <2>2. CASE n = 2
    BY <1>2, <1>3, <2>2, Routes DEF Place, Handler, Path, HandlerSet, App
  <2>3. CASE n = 3
    BY <1>2, <1>3, <2>3, Routes DEF Place, Handler, Path, HandlerSet, App
  <2>4. n # 4
    BY <1>2, <1>3, Routes DEF Place
  <2> HIDE DEF n
  <2>5. n = 1 \/ n = 2 \/ n = 3
    BY <1>0, <1>1, <2>4
  <2> QED
    BY <2>1, <2>2, <2>3, <2>5
<1>5. /\ t \in Seq(HandlerSet) /\ Len(t) = n + 1
      /\ t[n + 1] = g /\ \A i \in 1 .. n : t[i] = s[i]
  BY <1>0, <1>4, AppendProperties
<1>6. Waits(h, g)
  BY <1>2 DEF Waits, Handler
<1> HIDE DEF t
<1>7. OnRoute(t)
  <2>1. ASSUME NEW i \in 1 .. n + 1
        PROVE  /\ <<t[i].app, t[i].path>> \in Place(i)
               /\ t[i].made <= Len(Calls(t[i].app, t[i].path))
    <3>1. CASE i = n + 1
      <4>1. t[i] = g /\ <<g.app, g.path>> \in Place(i)
        BY <1>4, <1>5, <3>1
      <4>2. Len(Calls(g.app, g.path)) \in Nat
        BY <1>4, Routes DEF Place
      <4> QED
        BY <1>4, <4>1, <4>2
    <3>2. CASE i # n + 1
      <4>1. i \in 1 .. n /\ t[i] = s[i]
        BY <1>1, <1>5, <3>2
      <4> QED
        BY <4>1 DEF OnRoute
    <3> QED
      BY <3>1, <3>2
  <2>2. ASSUME NEW i \in 1 .. n PROVE Waits(t[i], t[i + 1])
    <3>1. CASE i = n
      BY <1>1, <1>5, <1>6, <3>1
    <3>2. CASE i # n
      <4>1. i \in 1 .. n - 1 /\ t[i] = s[i] /\ t[i + 1] = s[i + 1]
        BY <1>1, <1>5, <3>2
      <4> QED
        BY <4>1 DEF OnRoute
    <3> QED
      BY <3>1, <3>2
  <2> HIDE DEF n
  <2>3. /\ t \in Seq(HandlerSet) /\ Len(t) <= 4
        /\ 1 .. Len(t) = 1 .. n + 1 /\ 1 .. Len(t) - 1 = 1 .. n
    <3>1. n \in Nat /\ n <= 3 /\ Len(t) = n + 1
      BY <1>1, <1>4, <1>5
    <3>2. Len(t) <= 4 /\ Len(t) - 1 = n
      BY <3>1
    <3> QED
      BY <1>5, <3>1, <3>2
  <2> QED
    BY <2>1, <2>2, <2>3, Zenon DEF OnRoute
<1>8. Given(t) = Given(s)
  <2>1. CASE n = 1
    <3>1. h.made = 0
      BY <1>2, <1>3, <2>1, Routes DEF Place
    <3>2. Given(s) = <<>>
      BY <1>1, <2>1, <3>1 DEF Given, ByA
    <3>3. Given(t) = <<>>
      BY <1>4, <1>5, <2>1 DEF Given, ByB
    <3> QED
      BY <3>2, <3>3
  <2>2. CASE n = 2
    <3>1. Given(s) = ByB(s[2].made)
      BY <2>2 DEF Given
    <3>2. Given(t) = ByB(t[2].made)
      BY <1>4, <1>5, <2>2 DEF Given
    <3> QED
      BY <1>5, <2>2, <3>1, <3>2
  <2>3. CASE n = 3
    <3>1. h.made = 0
      BY <1>2, <1>3, <2>3, Routes DEF Place
    <3>2. Given(s) = ByB(s[2].made)
      BY <1>1, <2>3, <3>1 DEF Given
    <3>3. Given(t) = ByB(t[2].made)
      BY <1>5, <2>3 DEF Given
    <3> QED
      BY <1>5, <2>3, <3>2, <3>3
  <2> HIDE DEF n
  <2>4. n = 1 \/ n = 2 \/ n = 3
    BY <1>1, <1>4
  <2> QED
    BY <2>1, <2>2, <2>3, <2>4
<1> QED
  BY <1>7, <1>8 DEF t

(* No server calls more than two.                                          *)
LEMMA Calls12 ==
  ASSUME NEW i \in 1 .. 4, NEW app, NEW path, <<app, path>> \in Place(i)
  PROVE  Len(Calls(app, path)) \in 0 .. 2
BY Routes DEF Place

LEMMA GivenTop ==
  ASSUME NEW s, Len(s) = 1
  PROVE  Given(s) = ByA(s[1].made)
BY DEF Given

LEMMA GivenB ==
  ASSUME NEW s, Len(s) \in {2, 4} \/ (Len(s) = 3 /\ s[3].made # 1)
  PROVE  Given(s) = ByB(s[2].made)
BY DEF Given

LEMMA GivenE ==
  ASSUME NEW s, Len(s) = 3, s[3].made = 1
  PROVE  Given(s) = Append(ByB(s[2].made), "E")
BY DEF Given

(* The last handler g of s is through; in t it has answered its caller h.  *)
Answered(s, t, n, h, g) ==
  /\ n \in 2 .. 4 /\ Len(s) = n /\ Len(t) = n - 1
  /\ \A i \in 1 .. n - 2 : t[i] = s[i]
  /\ h = s[n - 1] /\ g = s[n] /\ t[n - 1].made = h.made + 1
  /\ <<h.app, h.path>> \in Place(n - 1) /\ <<g.app, g.path>> \in Place(n)
  /\ h.made \in Nat /\ h.made < Len(Calls(h.app, h.path))
  /\ g.app = Calls(h.app, h.path)[h.made + 1]
  /\ g.made = Len(Calls(g.app, g.path))

(* An answer is one more of those given to the caller.                     *)
LEMMA GivenCaller ==
  ASSUME NEW s, NEW t, NEW n, NEW h, NEW g, Answered(s, t, n, h, g)
  PROVE  Given(t) = Append(Given(s), g.app)
<1> USE DEF Answered
<1>1. CASE n = 2
  <2>1. g.app = "B" /\ g.path = "a"
    BY <1>1 DEF Place
  <2>2. g.made = 2
    BY <2>1, Routes
  <2>3. Given(s) = AfterD
    BY <1>1, <2>2 DEF Given, ByB
  <2>4. Given(t) = ByA(h.made + 1)
    BY <1>1, GivenTop
  <2>5. ByA(h.made + 1) = Append(AfterD, "B")
    BY DEF ByA
  <2> QED
    BY <2>1, <2>3, <2>4, <2>5
<1>2. CASE n = 3
  <2>1. h.app = "B" /\ h.path = "a"
    BY <1>2 DEF Place
  <2>2. h.made = 0 \/ h.made = 1
    <3>1. h.made < 2
      BY <2>1, Routes
    <3> QED
      BY <3>1
  <2>3. g.app = <<"C", "D">>[h.made + 1]
    BY <2>1, Routes
  <2>4. g.made = 1
    <3>1. \/ g.app = "C" /\ g.path = "b"
          \/ g.app = "D" /\ g.path = "b"
      BY <1>2 DEF Place
    <3> QED
      BY <3>1, Routes
  <2>5. Given(s) = Append(ByB(h.made), "E")
    BY <1>2, <2>4, GivenE
  <2>6. Given(t) = ByB(h.made + 1)
    BY <1>2, GivenB
  <2>7. CASE h.made = 0
    <3>1. g.app = "C"
      BY <2>3, <2>7
    <3>2. ByB(h.made) = <<>> /\ ByB(h.made + 1) = AfterC
      BY <2>7 DEF ByB
    <3> QED
      BY <2>5, <2>6, <3>1, <3>2 DEF AfterC
  <2>8. CASE h.made = 1
    <3>1. g.app = "D"
      BY <2>3, <2>8
    <3>2. ByB(h.made) = AfterC /\ ByB(h.made + 1) = AfterD
      BY <2>8 DEF ByB
    <3> QED
      BY <2>5, <2>6, <3>1, <3>2 DEF AfterD
  <2> QED
    BY <2>2, <2>7, <2>8
<1>3. CASE n = 4
  <2>1. g.app = "E"
    BY <1>3 DEF Place
  <2>2. h.made = 0
    <3>1. \/ h.app = "C" /\ h.path = "b"
          \/ h.app = "D" /\ h.path = "b"
      BY <1>3 DEF Place
    <3>2. h.made < 1
      BY <3>1, Routes
    <3> QED
      BY <3>2
  <2>3. Given(s) = ByB(s[2].made)
    BY <1>3, GivenB
  <2>4. Len(t) = 3 /\ t[3].made = 1 /\ t[2] = s[2]
    BY <1>3, <2>2
  <2>5. Given(t) = Append(ByB(s[2].made), "E")
    BY <2>4, GivenE
  <2> QED
    BY <2>1, <2>3, <2>5
<1>4. n = 2 \/ n = 3 \/ n = 4
  <2>1. n \in 2 .. 4
    BY Zenon
  <2> HIDE DEF Answered
  <2> QED
    BY <2>1
<1> QED
  BY <1>1, <1>2, <1>3, <1>4, Zenon

(* What was given when a handler answers that is through: to a client,     *)
LEMMA AnswerLast ==
  ASSUME NEW s, OnRoute(s), s # <<>>, Front(s) = <<>>, Through(Last(s))
  PROVE  Append(Given(s), Last(s).app) = <<"E", "C", "E", "D", "B", "A">>
<1>0. s \in Seq(HandlerSet)
  BY DEF OnRoute
<1>1. Len(s) = 1 /\ Last(s) = s[1]
  BY <1>0, FrontLast, Zenon
<1>2. s[1].app = "A" /\ s[1].path = "a"
  BY <1>1 DEF OnRoute, Place
<1>3. s[1].made = 1
  <2>1. s[1].made = Len(Calls(s[1].app, s[1].path))
    BY <1>1 DEF Through
  <2> QED
    BY <1>2, <2>1, Routes
<1>4. Given(s) = Append(AfterD, "B")
  BY <1>1, <1>3 DEF Given, ByA
<1> QED
  BY <1>1, <1>2, <1>4, WholeRoute

(* and to the handler that called it.                                      *)
LEMMA AnswerCaller ==
  ASSUME NEW s, OnRoute(s), s # <<>>, Front(s) # <<>>, Through(Last(s))
  PROVE  LET t == [Front(s) EXCEPT ![Len(Front(s))].made = @ + 1]
         IN OnRoute(t) /\ Given(t) = Append(Given(s), Last(s).app)
<1> DEFINE t == [Front(s) EXCEPT ![Len(Front(s))].made = @ + 1]
           n == Len(s)
           r == Front(s)
           h == Last(r)
           g == Last(s)
           up == [h EXCEPT !.made = @ + 1]
<1>0. s \in Seq(HandlerSet) /\ n <= 4 /\ r \in Seq(HandlerSet)
  BY FrontLast DEF OnRoute
<1>1. OnRoute(r) /\ n > 1 /\ h = s[n - 1] /\ Waits(h, g)
  BY RouteShrinks, Zenon
<1>2. /\ n \in Nat \ {0} /\ g = s[n] /\ Len(r) = n - 1
      /\ \A i \in 1 .. n - 1 : r[i] = s[i]
  BY <1>0, FrontLast, Zenon
<1>3. h \in HandlerSet /\ h = r[n - 1]
  BY <1>0, <1>1, <1>2, ElementOfSeq
<1>4. <<h.app, h.path>> \in Place(n - 1) /\ <<g.app, g.path>> \in Place(n)
  BY <1>0, <1>1, <1>2, <1>3 DEF OnRoute
<1>5. g.made = Len(Calls(g.app, g.path)) /\ h.made < Len(Calls(h.app, h.path))
  BY <1>1 DEF Through, Waits
<1>6. /\ up \in HandlerSet /\ up.made <= Len(Calls(up.app, up.path))
      /\ up.app = h.app /\ up.path = h.path /\ up.made = h.made + 1
  <2>1. /\ up.app = h.app /\ up.path = h.path /\ up.made = h.made + 1
        /\ h.made \in 0 .. 2
    BY <1>3 DEF HandlerSet
  <2>2. h.made < 2 /\ h.made + 1 <= Len(Calls(h.app, h.path))
    <3> HIDE DEF n, r, h, g, up
    <3>1. n - 1 \in 1 .. 4
      BY <1>0, <1>1, <1>2
    <3>2. Len(Calls(h.app, h.path)) \in 0 .. 2
      BY <1>4, <3>1, Calls12
    <3> DEFINE calls == Len(Calls(h.app, h.path))
               made == h.made
    <3>3. made \in 0 .. 2 /\ calls \in 0 .. 2 /\ made < calls
      BY <1>5, <2>1, <3>2
    <3> HIDE DEF calls, made
    <3>4. made < 2 /\ made + 1 <= calls
      BY <3>3
    <3> QED
      BY <3>4 DEF calls, made
  <2>3. h.made + 1 \in 0 .. 2
    BY <2>1, <2>2
  <2>4. up \in HandlerSet
    BY <1>3, <2>3 DEF HandlerSet
  <2> QED
    BY <2>1, <2>2, <2>4
<1>7. t = [r EXCEPT ![Len(r)] = up]
  BY DEF Last
<1>8. OnRoute(t)
  <2>1. r # <<>>
    OBVIOUS
  <2>2. OnRoute(r)
    BY <1>1
  <2>3. /\ up \in HandlerSet /\ up.app = Last(r).app /\ up.path = Last(r).path
        /\ up.made <= Len(Calls(up.app, up.path))
    BY <1>6
  <2> HIDE DEF r, up
  <2>4. OnRoute([r EXCEPT ![Len(r)] = up])
    BY <2>1, <2>2, <2>3, TopChanges
  <2> QED
    BY <1>7, <2>4 DEF r, up
<1>9. /\ Len(t) = n - 1 /\ t[n - 1] = up
      /\ \A i \in 1 .. n - 2 : t[i] = s[i]
  <2>1. r \in Seq(HandlerSet) /\ Len(r) = n - 1 /\ n \in Nat /\ n > 1
    BY <1>0, <1>1, <1>2
  <2>2. DOMAIN r = 1 .. n - 1 /\ n - 1 \in 1 .. n - 1
    BY <2>1
  <2>3. DOMAIN t = 1 .. n - 1 /\ t[n - 1] = up /\ \A i \in 1 .. n - 2 : t[i] = r[i]
    BY <1>7, <2>1, <2>2
  <2>4. t \in Seq(HandlerSet)
    BY <1>8 DEF OnRoute
  <2>5. Len(t) = n - 1
    <3> HIDE DEF t, n
    <3> QED BY <2>1, <2>3, <2>4, LenProperties
  <2>6. \A i \in 1 .. n - 2 : i \in 1 .. n - 1 /\ r[i] = s[i]
    BY <1>2, <2>1
  <2> QED BY <2>3, <2>5, <2>6
<1>10. n \in 2 .. 4 /\ h.made \in Nat /\ g.app = Calls(h.app, h.path)[h.made + 1]
  BY <1>0, <1>1, <1>2, <1>3 DEF HandlerSet, Waits
<1>11. Len(s) = n
  OBVIOUS
<1> HIDE DEF n, r, h, g, up, t
<1>12. Given(t) = Append(Given(s), g.app)
  <2>1. h = s[n - 1] /\ g = s[n] /\ t[n - 1].made = h.made + 1
    BY <1>1, <1>2, <1>6, <1>9
  <2>2. Answered(s, t, n, h, g)
    BY <1>4, <1>5, <1>9, <1>10, <1>11, <2>1 DEF Answered
  <2> QED
    BY <2>2, GivenCaller
<1> QED
  BY <1>8, <1>12 DEF g, r, t

(* Given counts calls only.                                                *)
SameMade(s, t) ==
  /\ Len(s) \in 1 .. 4 /\ Len(t) = Len(s)
  /\ \A i \in 1 .. Len(s) : t[i].made = s[i].made

LEMMA GivenSame ==
  ASSUME NEW s, NEW t, SameMade(s, t)
  PROVE  Given(t) = Given(s)
<1> USE DEF SameMade
<1>1. CASE Len(s) = 1
  BY <1>1, GivenTop
<1>2. CASE Len(s) \in {2, 4}
  <2>1. Given(t) = ByB(t[2].made) /\ Given(s) = ByB(s[2].made)
    BY <1>2, GivenB
  <2> QED
    BY <1>2, <2>1
<1>3. CASE Len(s) = 3
  <2>1. t[2].made = s[2].made /\ t[3].made = s[3].made
    BY <1>3
  <2>2. CASE s[3].made = 1
    BY <1>3, <2>1, <2>2, GivenE
  <2>3. CASE s[3].made # 1
    <3>1. Given(t) = ByB(t[2].made) /\ Given(s) = ByB(s[2].made)
      BY <1>3, <2>1, <2>3, GivenB
    <3> QED
      BY <2>1, <3>1
  <2> QED
    BY <2>2, <2>3
<1> QED
  BY <1>1, <1>2, <1>3

(* What holds of a client whose last handler alone changes.                *)
LEMMA TopSame ==
  ASSUME NEW s, OnRoute(s), s # <<>>, NEW h \in HandlerSet,
         h.app = Last(s).app, h.path = Last(s).path, h.made = Last(s).made
  PROVE  LET t == [s EXCEPT ![Len(s)] = h]
         IN OnRoute(t) /\ t # <<>> /\ Last(t) = h /\ Given(t) = Given(s)
<1> DEFINE t == [s EXCEPT ![Len(s)] = h]
           n == Len(s)
<1>1. s \in Seq(HandlerSet) /\ n <= 4
  BY DEF OnRoute
<1>2. n \in Nat \ {0} /\ Last(s) = s[n]
  BY <1>1, FrontLast, Zenon
<1>3. h.made <= Len(Calls(h.app, h.path))
  <2>1. \A i \in 1 .. Len(s) : s[i].made <= Len(Calls(s[i].app, s[i].path))
    BY DEF OnRoute
  <2>2. n \in 1 .. Len(s)
    BY <1>2
  <2> HIDE DEF n
  <2> QED
    BY <1>2, <2>1, <2>2
<1>4. OnRoute(t)
  BY <1>3, TopChanges
<1>5. /\ t \in Seq(HandlerSet) /\ Len(t) = n
      /\ t[n] = h /\ \A i \in 1 .. n - 1 : t[i] = s[i]
  BY <1>1, <1>2
<1>6. t # <<>> /\ Last(t) = h
  BY <1>2, <1>5 DEF Last
<1>7. \A i \in 1 .. n : t[i].made = s[i].made
  <2> TAKE i \in 1 .. n
  <2>1. CASE i = n
    BY <1>2, <1>5, <2>1
  <2>2. CASE i # n
    BY <1>2, <1>5, <2>2
  <2> QED
    BY <2>1, <2>2
<1> HIDE DEF t
<1>8. Given(t) = Given(s)
  <2>1. SameMade(s, t)
    BY <1>1, <1>2, <1>5, <1>7 DEF SameMade
  <2> QED
    BY <2>1, GivenSame
<1> QED
  BY <1>4, <1>6, <1>8 DEF t

(* The first states.                                                       *)
LEMMA HandlersInvInit == BenchInit => HandlersInv
<1> SUFFICES ASSUME BenchInit PROVE HandlersInv
  OBVIOUS
<1>1. OnRoute(<<>>)
  BY DEF OnRoute
<1> QED
  BY <1>1 DEF BenchInit, HandlersInv, HandlersShape, ClientInv

(* A request starts at A.                                                  *)
LEMMA FirstHandler ==
  LET s == <<Handler("A", "a")>>
  IN OnRoute(s) /\ s # <<>> /\ ~Last(s).failed /\ Given(s) = <<>>
<1> DEFINE h == Handler("A", "a")
           s == <<h>>
<1>1. /\ h \in HandlerSet /\ <<h.app, h.path>> \in Place(1) /\ ~h.failed
      /\ h.made = 0 /\ h.made <= Len(Calls(h.app, h.path))
  BY Routes DEF Handler, HandlerSet, App, Place
<1> HIDE DEF h
<1>2. s \in Seq(HandlerSet) /\ Len(s) = 1 /\ s[1] = h /\ s # <<>>
  BY <1>1
<1> HIDE DEF s
<1>3. OnRoute(s)
  BY <1>1, <1>2 DEF OnRoute
<1>4. Given(s) = <<>>
  BY <1>1, <1>2, GivenTop DEF ByA
<1>5. Last(s) = h
  BY <1>2 DEF Last
<1> QED
  BY <1>1, <1>2, <1>3, <1>4, <1>5 DEF s, h

(* A caller has not failed while it waits.                                 *)
LEMMA CallerWaits ==
  ASSUME NEW s, OnRoute(s), s # <<>>, Front(s) # <<>>
  PROVE  ~Last([Front(s) EXCEPT ![Len(Front(s))].made = @ + 1]).failed
<1> DEFINE r == Front(s)
           h == Last(r)
           up == [h EXCEPT !.made = @ + 1]
<1>1. OnRoute(r) /\ ~h.failed
  BY RouteShrinks DEF Waits
<1>2. h \in HandlerSet /\ r # <<>> /\ r \in Seq(HandlerSet) /\ h = r[Len(r)]
  BY <1>1, FrontLast DEF OnRoute
<1>3. ~up.failed
  BY <1>1, <1>2 DEF HandlerSet
<1>4. [r EXCEPT ![Len(r)].made = @ + 1] = [r EXCEPT ![Len(r)] = up]
  BY DEF Last
<1> HIDE DEF up
<1>5. Last([r EXCEPT ![Len(r)] = up]) = up
  BY <1>2 DEF Last
<1> QED
  BY <1>3, <1>4, <1>5

(* A step for one client leaves the others alone.                          *)
LEMMA OtherClients ==
  ASSUME HandlersInv, NEW c \in Client, NEW d \in Client, d # c,
         stack'[d] = stack[d], result'[d] = result[d], served'[d] = served[d],
         refused \subseteq refused'
  PROVE  ClientInv(d)'
BY DEF HandlersInv, ClientInv

LEMMA LastTyped ==
  ASSUME NEW s, OnRoute(s), s # <<>>
  PROVE  Last(s) \in HandlerSet
BY FrontLast DEF OnRoute

LEMMA LastAnswers ==
  ASSUME NEW s, OnRoute(s), s # <<>>
  PROVE  Answers(Last(s).app, Last(s).path)
<1> DEFINE n == Len(s)
<1>1. s \in Seq(HandlerSet) /\ n <= 4
  BY DEF OnRoute
<1>2. n \in Nat \ {0} /\ Last(s) = s[n]
  BY <1>1, FrontLast, Zenon
<1>3. <<Last(s).app, Last(s).path>> \in Place(n)
  BY <1>2 DEF OnRoute
<1> HIDE DEF n
<1>4. n \in 1 .. 4
  BY <1>1, <1>2
<1> QED
  BY <1>3, <1>4, AllAnswer

(* Every step of the handlers keeps it.                                    *)
LEMMA HandlersInvNext == HandlersInv /\ [BenchNext]_benchVars => HandlersInv'
<1> SUFFICES ASSUME HandlersInv, [BenchNext]_benchVars PROVE HandlersInv'
  OBVIOUS
<1>1. CASE UNCHANGED benchVars
  BY <1>1 DEF benchVars, HandlersInv, HandlersShape, ClientInv
<1>2. ASSUME NEW c \in Client, Request(c) PROVE HandlersInv'
  <2>1. HandlersShape'
    BY <1>2 DEF HandlersInv, HandlersShape, Request
  <2>2. ASSUME NEW d \in Client, d # c PROVE ClientInv(d)'
    BY <1>2, <2>2, OtherClients DEF HandlersInv, HandlersShape, Request
  <2>3. ClientInv(c)'
    <3>1. stack'[c] = <<Handler("A", "a")>> /\ result'[c] = "waiting"
      BY <1>2 DEF HandlersInv, HandlersShape, Request
    <3>2. served'[c] = <<>> /\ refused' = refused
      BY <1>2 DEF HandlersInv, ClientInv, Request
    <3> QED
      BY <3>1, <3>2, FirstHandler DEF ClientInv
  <2> QED
    BY <2>1, <2>2, <2>3 DEF HandlersInv
<1>3. ASSUME NEW c \in Client, Burnt(c) PROVE HandlersInv'
  <2> DEFINE s == stack[c]
             h == [Last(s) EXCEPT !.burnt = TRUE]
  <2>1. HandlersShape'
    BY <1>3 DEF HandlersInv, HandlersShape, Burnt
  <2>2. ASSUME NEW d \in Client, d # c PROVE ClientInv(d)'
    BY <1>3, <2>2, OtherClients DEF HandlersInv, HandlersShape, Burnt
  <2>3. ClientInv(c)'
    <3>1. s # <<>> /\ stack'[c] = [s EXCEPT ![Len(s)] = h]
      BY <1>3 DEF HandlersInv, HandlersShape, Burnt, Last
    <3>2. OnRoute(s)
      BY DEF HandlersInv, ClientInv
    <3>3. h \in HandlerSet /\ h.app = Last(s).app /\ h.path = Last(s).path
          /\ h.made = Last(s).made /\ h.failed = Last(s).failed
      BY <3>1, <3>2, LastTyped DEF HandlerSet
    <3>4. /\ OnRoute(stack'[c]) /\ Last(stack'[c]) = h
          /\ Given(stack'[c]) = Given(s)
      <4> HIDE DEF s, h
      <4> QED
        BY <3>1, <3>2, <3>3, TopSame
    <3>5. result' = result /\ served' = served /\ refused' = refused
      BY <1>3 DEF Burnt
    <3>6. ClientInv(c)
      BY DEF HandlersInv
    <3> HIDE DEF h
    <3> QED
      BY <3>1, <3>3, <3>4, <3>5, <3>6 DEF ClientInv
  <2> QED
    BY <2>1, <2>2, <2>3 DEF HandlersInv
<1>4. ASSUME NEW c \in Client, Call(c) PROVE HandlersInv'
  <2> DEFINE s == stack[c]
             h == Last(s)
             g == Handler(Calls(h.app, h.path)[h.made + 1], Path[h.app])
  <2>1. HandlersShape'
    BY <1>4 DEF HandlersInv, HandlersShape, Call
  <2>2. ASSUME NEW d \in Client, d # c PROVE ClientInv(d)'
    BY <1>4, <2>2, OtherClients DEF HandlersInv, HandlersShape, Call
  <2>3. ClientInv(c)'
    <3>1. s # <<>> /\ stack'[c] = Append(s, g) /\ Calling(h)
      BY <1>4 DEF HandlersInv, HandlersShape, Call
    <3>2. OnRoute(s)
      BY DEF HandlersInv, ClientInv
    <3>3. OnRoute(stack'[c]) /\ Given(stack'[c]) = Given(s)
      <4> HIDE DEF s, h, g
      <4>1. h = Last(s) /\ g = Handler(Calls(h.app, h.path)[h.made + 1], Path[h.app])
        BY DEF h, g
      <4> QED
        BY <3>1, <3>2, <4>1, RouteGrows
    <3>4. result' = result /\ served' = served /\ refused' = refused
      BY <1>4 DEF Call
    <3>5. ClientInv(c) /\ ~h.failed
      BY <3>1 DEF HandlersInv, Calling
    <3>6. ~Last(stack'[c]).failed
      <4>1. ~g.failed
        BY DEF Handler
      <4> HIDE DEF g, h
      <4>2. Last(Append(s, g)) = g
        BY <3>2 DEF Last, OnRoute
      <4> QED
        BY <3>1, <4>1, <4>2
    <3> HIDE DEF g
    <3> QED
      BY <3>1, <3>3, <3>4, <3>5, <3>6 DEF ClientInv
  <2> QED
    BY <2>1, <2>2, <2>3 DEF HandlersInv
<1>5. ASSUME NEW c \in Client, Refuse(c) PROVE HandlersInv'
  <2> DEFINE s == stack[c]
             h == [Last(s) EXCEPT !.failed = TRUE]
  <2>1. HandlersShape'
    BY <1>5 DEF HandlersInv, HandlersShape, Refuse
  <2>2. ASSUME NEW d \in Client, d # c PROVE ClientInv(d)'
    BY <1>5, <2>2, OtherClients DEF HandlersInv, HandlersShape, Refuse
  <2>3. ClientInv(c)'
    <3>1. s # <<>> /\ stack'[c] = [s EXCEPT ![Len(s)] = h]
      BY <1>5 DEF HandlersInv, HandlersShape, Refuse, Last
    <3>2. OnRoute(s)
      BY DEF HandlersInv, ClientInv
    <3>3. h \in HandlerSet /\ h.app = Last(s).app /\ h.path = Last(s).path
          /\ h.made = Last(s).made /\ h.failed
      BY <3>1, <3>2, LastTyped DEF HandlerSet
    <3>4. OnRoute(stack'[c]) /\ Last(stack'[c]) = h
      <4> HIDE DEF s, h
      <4> QED
        BY <3>1, <3>2, <3>3, TopSame
    <3>5. result' = result /\ served' = served /\ c \in refused'
      BY <1>5 DEF Refuse
    <3>6. ClientInv(c)
      BY DEF HandlersInv
    <3> HIDE DEF h
    <3> QED
      BY <3>1, <3>3, <3>4, <3>5, <3>6 DEF ClientInv
  <2> QED
    BY <2>1, <2>2, <2>3 DEF HandlersInv
<1>6. ASSUME NEW c \in Client, Answer(c) PROVE HandlersInv'
  <2> DEFINE s == stack[c]
             h == Last(s)
             t == [Front(s) EXCEPT ![Len(Front(s))].made = @ + 1]
  <2>1. HandlersShape'
    BY <1>6 DEF HandlersInv, HandlersShape, Answer
  <2>2. ASSUME NEW d \in Client, d # c PROVE ClientInv(d)'
    BY <1>6, <2>2, OtherClients DEF HandlersInv, HandlersShape, Answer
  <2>3. ClientInv(c)'
    <3>1. /\ s # <<>> /\ Through(h) /\ ~h.failed /\ OnRoute(s)
          /\ ClientInv(c) /\ served[c] = Given(s)
      BY <1>6 DEF HandlersInv, ClientInv, Answer, Through
    <3>2. served'[c] = Append(Given(s), h.app) /\ refused' = refused
      BY <1>6, <3>1 DEF HandlersInv, HandlersShape, Answer
    <3>3. served'[c] \in Seq(App)
      <4>1. h.app \in App
        BY <3>1, LastTyped DEF HandlerSet
      <4> HIDE DEF h
      <4> QED
        BY <3>1, <3>2, <4>1 DEF ClientInv
    <3>4. CASE Front(s) = <<>>
      <4>1. stack'[c] = <<>> /\ result'[c] = "ok"
        BY <1>6, <3>4 DEF HandlersInv, HandlersShape, Answer
      <4>2. served'[c] = <<"E", "C", "E", "D", "B", "A">>
        BY <3>1, <3>2, <3>4, AnswerLast
      <4>3. OnRoute(<<>>)
        BY DEF OnRoute
      <4> QED
        BY <3>2, <3>3, <4>1, <4>2, <4>3 DEF ClientInv
    <3>5. CASE Front(s) # <<>>
      <4>1. stack'[c] = t /\ result' = result /\ result[c] = "waiting"
        BY <1>6, <3>1, <3>5 DEF HandlersInv, HandlersShape, ClientInv, Answer
      <4>2. OnRoute(t) /\ Given(t) = Append(Given(s), h.app)
        BY <3>1, <3>5, AnswerCaller
      <4>3. ~Last(t).failed
        BY <3>1, <3>5, CallerWaits
      <4> HIDE DEF t
      <4> QED
        BY <3>2, <3>3, <4>1, <4>2, <4>3 DEF ClientInv
    <3> QED
      BY <3>4, <3>5
  <2> QED
    BY <2>1, <2>2, <2>3 DEF HandlersInv
<1>7. ASSUME NEW c \in Client, Close(c) PROVE HandlersInv'
  <2> DEFINE s == stack[c]
             h == Last(s)
             r == Front(s)
             up == [Last(r) EXCEPT !.failed = TRUE]
  <2>1. HandlersShape'
    BY <1>7 DEF HandlersInv, HandlersShape, Close
  <2>2. ASSUME NEW d \in Client, d # c PROVE ClientInv(d)'
    BY <1>7, <2>2, OtherClients DEF HandlersInv, HandlersShape, Close
  <2>3. ClientInv(c)'
    <3>1. s # <<>> /\ OnRoute(s) /\ ClientInv(c)
      BY <1>7 DEF HandlersInv, ClientInv, Close
    <3>2. c \in refused
      <4>1. Answers(h.app, h.path)
        BY <3>1, LastAnswers
      <4>2. h.failed
        BY <1>7, <4>1 DEF Close
      <4> QED
        BY <3>1, <4>2 DEF ClientInv
    <3>3. served' = served /\ refused' = refused
      BY <1>7 DEF Close
    <3>4. CASE r = <<>>
      <4>1. stack'[c] = <<>> /\ result'[c] = "closed"
        BY <1>7, <3>4 DEF HandlersInv, HandlersShape, Close
      <4>2. OnRoute(<<>>)
        BY DEF OnRoute
      <4> QED
        BY <3>1, <3>2, <3>3, <4>1, <4>2 DEF ClientInv
    <3>5. CASE r # <<>>
      <4>1. /\ stack'[c] = [r EXCEPT ![Len(r)] = up]
            /\ result' = result /\ result[c] = "waiting"
        BY <1>7, <3>1, <3>5 DEF HandlersInv, HandlersShape, ClientInv, Close, Last
      <4>2. OnRoute(r)
        BY <3>1, <3>5, RouteShrinks
      <4>3. up \in HandlerSet /\ up.app = Last(r).app /\ up.path = Last(r).path
            /\ up.made = Last(r).made /\ up.failed
        BY <3>5, <4>2, LastTyped DEF HandlerSet
      <4> HIDE DEF r, up
      <4>4. OnRoute(stack'[c]) /\ Last(stack'[c]) = up
        BY <3>5, <4>1, <4>2, <4>3, TopSame
      <4> QED
        BY <3>1, <3>2, <3>3, <4>1, <4>3, <4>4 DEF ClientInv
    <3> QED
      BY <3>4, <3>5
  <2> QED
    BY <2>1, <2>2, <2>3 DEF HandlersInv
<1> QED
  BY <1>1, <1>2, <1>3, <1>4, <1>5, <1>6, <1>7 DEF BenchNext, HandlerStep

-----------------------------------------------------------------------------
(* What follows for the whole.                                             *)

LEMMA InvNoCycle == HandlersInv => NoCycle
<1> SUFFICES ASSUME HandlersInv, NEW c \in Client,
                    NEW i \in DOMAIN stack[c], NEW j \in DOMAIN stack[c], i < j
             PROVE  stack[c][i].app # stack[c][j].app
  BY DEF NoCycle
<1> DEFINE s == stack[c]
<1>1. OnRoute(s)
  BY DEF HandlersInv, ClientInv
<1>2. Len(s) \in Nat /\ Len(s) <= 4 /\ i \in 1 .. Len(s) /\ j \in 1 .. Len(s)
  BY <1>1, LenProperties DEF OnRoute
<1>3. <<s[i].app, s[i].path>> \in Place(i) /\ <<s[j].app, s[j].path>> \in Place(j)
  BY <1>1, <1>2 DEF OnRoute
<1>4. i \in 1 .. 4 /\ j \in 1 .. 4
  BY <1>2
<1> QED
  BY <1>3, <1>4 DEF Place

LEMMA InvTypeOK == HandlersInv => BenchTypeOK
<1> SUFFICES ASSUME HandlersInv PROVE BenchTypeOK
  OBVIOUS
<1>1. ASSUME NEW c \in Client
      PROVE  /\ stack[c] \in Seq(HandlerSet)
             /\ result[c] \in {"idle", "waiting", "ok", "closed"}
             /\ served[c] \in Seq(App)
             /\ \A i \in DOMAIN stack[c] :
                   stack[c][i].made <= Len(Calls(stack[c][i].app, stack[c][i].path))
  <2>1. OnRoute(stack[c])
    BY DEF HandlersInv, ClientInv
  <2>2. DOMAIN stack[c] = 1 .. Len(stack[c])
    BY <2>1, LenProperties DEF OnRoute
  <2> QED
    BY <2>1, <2>2 DEF HandlersInv, ClientInv, OnRoute
<1> DEFINE H == Seq(HandlerSet)
           A == Seq(App)
<1> HIDE DEF H, A
<1>2. stack \in [Client -> H] /\ served \in [Client -> A]
      /\ result \in [Client -> {"idle", "waiting", "ok", "closed"}]
  BY <1>1 DEF HandlersInv, HandlersShape, H, A
<1> QED
  BY <1>1, <1>2 DEF BenchTypeOK, HandlersInv, HandlersShape, HandlerSet, H, A

(* Both invariants hold in every reachable state: a step of the process is *)
(* none of the handlers, and the end of a process is Burnt.                *)
BenchmarkInv == LoadInv /\ HandlersInv

LEMMA BenchmarkInvNext ==
  BenchmarkInv /\ [BenchmarkNext]_<<benchVars, vars>> => BenchmarkInv'
<1>1. [BenchmarkNext]_<<benchVars, vars>> => [BenchNext]_benchVars
  BY DEF BenchmarkNext, LoadStep, Return, HandlersStep, BenchNext
<1> QED
  BY <1>1, LoadInvStep, HandlersInvNext DEF BenchmarkInv

LEMMA BenchmarkInvAlways == BenchmarkSpec => []BenchmarkInv
<1>1. BenchmarkInit => BenchmarkInv
  BY LoadInvInit, HandlersInvInit DEF BenchmarkInit, BenchmarkInv
<1> QED
  BY <1>1, BenchmarkInvNext, PTL DEF BenchmarkSpec

(* The attributes the threads share keep their types, and no handler makes *)
(* more calls than its path has.                                           *)
THEOREM BenchmarkTypeCorrect == BenchmarkSpec => []BenchmarkTypeOK
<1>1. BenchmarkInv => BenchmarkTypeOK
  BY InvTypeOK DEF BenchmarkInv, LoadInv, BenchmarkTypeOK
<1> QED
  BY <1>1, BenchmarkInvAlways, PTL

(* The main thread never reads, nor holds, a sleep time outside the        *)
(* period, at whichever point of the controller's loop it reads.           *)
THEOREM SleepsInRange == BenchmarkSpec => []SleepInRange
<1>1. BenchmarkInv => SleepInRange
  BY DEF BenchmarkInv, LoadInv
<1> QED
  BY <1>1, BenchmarkInvAlways, PTL

(* The integral does not wind up, however long the load is off the target. *)
THEOREM NoWindUp == BenchmarkSpec => []IntegralBounded
<1>1. BenchmarkInv => IntegralBounded
  BY DEF BenchmarkInv, LoadInv
<1> QED
  BY <1>1, BenchmarkInvAlways, PTL

(* No handler waits for itself through others.                             *)
THEOREM NeverInACircle == BenchmarkSpec => []NoCycle
<1>1. BenchmarkInv => NoCycle
  BY InvNoCycle DEF BenchmarkInv
<1> QED
  BY <1>1, BenchmarkInvAlways, PTL

(* An answer stands for the whole route.                                   *)
THEOREM AnswersWhole == BenchmarkSpec => []AnsweredWhole
<1>1. BenchmarkInv => AnsweredWhole
  BY DEF BenchmarkInv, HandlersInv, ClientInv, AnsweredWhole
<1> QED
  BY <1>1, BenchmarkInvAlways, PTL

(* Only a refused connection turns a client away.                          *)
THEOREM TurnsNobodyAway == BenchmarkSpec => []NotTurnedAway
<1>1. BenchmarkInv => NotTurnedAway
  BY DEF BenchmarkInv, HandlersInv, ClientInv, NotTurnedAway
<1> QED
  BY <1>1, BenchmarkInvAlways, PTL
=============================================================================
