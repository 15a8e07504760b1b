----------------------------- MODULE Benchmark ------------------------------
(***************************************************************************)
(* The benchmark the scheduler is measured with: five HTTP servers, A to E *)
(* (kubernetes-client/test/endtoendtest/python/app1 to app5).  A handler   *)
(* waits for a process that burns cpu, then calls other servers one after  *)
(* the other with requests.get, and may answer.  The path of a request     *)
(* names its caller.  Servers are threaded: each request has a handler of  *)
(* its own, and the handlers a client's request leads to form a stack of   *)
(* blocked callers.                                                        *)
(***************************************************************************)
EXTENDS Integers, Sequences, SequencesExt

CONSTANTS Client

VARIABLES stack,   \* client -> the handlers at work for it, the first one A's
          result,  \* client -> "idle", "waiting", "ok" or "closed"
          served,  \* client -> the servers that answered, in order
          refused  \* the clients for whom some connection was refused

benchVars == <<stack, result, served, refused>>

App == {"A", "B", "C", "D", "E"}

BenchInit ==
  /\ stack = [c \in Client |-> <<>>]
  /\ result = [c \in Client |-> "idle"]
  /\ served = [c \in Client |-> <<>>]
  /\ refused = {}

-----------------------------------------------------------------------------
(* do_GET of each server, by path: the servers it calls in turn.  Paths    *)
(* are written as the caller they name, so A calls B with path "a".        *)
CallsOfA(path) == CASE path \in {"a", "b"} -> <<"B">>
                    [] path = "c" -> <<"C">>
                    [] path = "d" -> <<"D">>
                    [] path = "e" -> <<"E">>

CallsOfB(path) == CASE path \in {"a", "b"} -> <<"C", "D">>
                    [] path = "c" -> <<"C">>
                    [] path = "d" -> <<"D">>
                    [] path = "e" -> <<"E">>

(* Mutant: the call for B goes to A.                                       *)
CallsOfC_Back(path) == CASE path \in {"a", "b"} -> <<"A">>
                         [] path \in {"c", "e"} -> <<"E">>
                         [] path = "d" -> <<"D">>

CallsOfC(path) == CASE path = "a" -> <<"A">>
                    [] path \in {"b", "c", "e"} -> <<"E">>
                    [] path = "d" -> <<"D">>

CallsOfD(path) == CASE path = "a" -> <<"A">>
                    [] path \in {"b", "e"} -> <<"E">>
                    [] path = "c" -> <<"C">>
                    [] path = "d" -> <<"D">>

CallsOfE(path) == CASE path = "a" -> <<"A">>
                    [] path = "b" -> <<"B">>
                    [] path \in {"c", "d"} -> <<>>
                    [] path = "e" -> <<"E">>

Calls(app, path) == CASE app = "A" -> CallsOfA(path)
                      [] app = "B" -> CallsOfB(path)
                      [] app = "C" -> CallsOfC(path)
                      [] app = "D" -> CallsOfD(path)
                      [] app = "E" -> CallsOfE(path)

(* Mutant: D forgets to answer B.                                          *)
Answers_NotD(app, path) ==
  <<app, path>> \in {<<"A", "a">>, <<"B", "a">>, <<"C", "b">>, <<"E", "c">>, <<"E", "d">>}

(* The paths on which a server sends a response; on all others it returns  *)
(* without one and its connection is closed.                               *)
Answers(app, path) ==
  <<app, path>> \in {<<"A", "a">>, <<"B", "a">>, <<"C", "b">>, <<"D", "b">>,
                     <<"E", "c">>, <<"E", "d">>}

Path == [A |-> "a", B |-> "b", C |-> "c", D |-> "d", E |-> "e"]

Handler(app, path) == [app |-> app, path |-> path, burnt |-> FALSE, made |-> 0,
                       failed |-> FALSE]

(* A handler before the end of its os.system, one that has calls left to   *)
(* make, and one that is through.                                          *)
Burning(h) == ~h.burnt
Calling(h) == h.burnt /\ ~h.failed /\ h.made < Len(Calls(h.app, h.path))
Through(h) == h.burnt /\ ~h.failed /\ h.made = Len(Calls(h.app, h.path))

Request(c) ==
  /\ result[c] = "idle"
  /\ stack' = [stack EXCEPT ![c] = <<Handler("A", "a")>>]
  /\ result' = [result EXCEPT ![c] = "waiting"]
  /\ UNCHANGED <<served, refused>>

(* os.system returns: the process it waited for has ended.                 *)
Burnt(c) ==
  /\ stack[c] # <<>>
  /\ Burning(Last(stack[c]))
  /\ stack' = [stack EXCEPT ![c][Len(stack[c])].burnt = TRUE]
  /\ UNCHANGED <<result, served, refused>>

Call(c) ==
  /\ stack[c] # <<>>
  /\ LET h == Last(stack[c])
     IN /\ Calling(h)
        /\ stack' = [stack EXCEPT ![c] =
                       Append(@, Handler(Calls(h.app, h.path)[h.made + 1], Path[h.app]))]
  /\ UNCHANGED <<result, served, refused>>

(* The pod of the server called is down, or being replaced: requests.get   *)
(* raises ConnectionError, which no handler catches.                       *)
Refuse(c) ==
  /\ stack[c] # <<>>
  /\ Calling(Last(stack[c]))
  /\ stack' = [stack EXCEPT ![c][Len(stack[c])].failed = TRUE]
  /\ refused' = refused \cup {c}
  /\ UNCHANGED <<result, served>>

(* Mutant: the caller skips the call after the one answered.               *)
Answer_Skips(c) ==
  /\ stack[c] # <<>>
  /\ LET h == Last(stack[c])
         callers == Front(stack[c])
     IN /\ Through(h) /\ Answers(h.app, h.path)
        /\ served' = [served EXCEPT ![c] = Append(@, h.app)]
        /\ IF callers = <<>>
           THEN /\ stack' = [stack EXCEPT ![c] = <<>>]
                /\ result' = [result EXCEPT ![c] = "ok"]
           ELSE /\ stack' = [stack EXCEPT ![c] =
                               [callers EXCEPT ![Len(callers)].made = @ + 2]]
                /\ UNCHANGED result
  /\ UNCHANGED refused

(* The response; the caller goes on to its next call.                      *)
Answer(c) ==
  /\ stack[c] # <<>>
  /\ LET h == Last(stack[c])
         callers == Front(stack[c])
     IN /\ Through(h) /\ Answers(h.app, h.path)
        /\ served' = [served EXCEPT ![c] = Append(@, h.app)]
        /\ IF callers = <<>>
           THEN /\ stack' = [stack EXCEPT ![c] = <<>>]
                /\ result' = [result EXCEPT ![c] = "ok"]
           ELSE /\ stack' = [stack EXCEPT ![c] =
                               [callers EXCEPT ![Len(callers)].made = @ + 1]]
                /\ UNCHANGED result
  /\ UNCHANGED refused

(* Mutant: a caller takes a closed connection for an answer.               *)
Close_Swallowed(c) ==
  /\ stack[c] # <<>>
  /\ LET h == Last(stack[c])
         callers == Front(stack[c])
     IN /\ h.failed \/ (Through(h) /\ ~Answers(h.app, h.path))
        /\ IF callers = <<>>
           THEN /\ stack' = [stack EXCEPT ![c] = <<>>]
                /\ result' = [result EXCEPT ![c] = "closed"]
           ELSE /\ stack' = [stack EXCEPT ![c] =
                               [callers EXCEPT ![Len(callers)].made = @ + 1]]
                /\ UNCHANGED result
  /\ UNCHANGED <<served, refused>>

(* Mutant: a handler hangs when its call has failed.                       *)
Close_Hangs(c) ==
  /\ stack[c] # <<>>
  /\ LET h == Last(stack[c])
         callers == Front(stack[c])
     IN /\ Through(h) /\ ~Answers(h.app, h.path)
        /\ IF callers = <<>>
           THEN /\ stack' = [stack EXCEPT ![c] = <<>>]
                /\ result' = [result EXCEPT ![c] = "closed"]
           ELSE /\ stack' = [stack EXCEPT ![c] =
                               [callers EXCEPT ![Len(callers)].failed = TRUE]]
                /\ UNCHANGED result
  /\ UNCHANGED <<served, refused>>

(* A handler ends without a response, by an exception or because its path  *)
(* has none: its caller's requests.get raises in turn.                     *)
Close(c) ==
  /\ stack[c] # <<>>
  /\ LET h == Last(stack[c])
         callers == Front(stack[c])
     IN /\ h.failed \/ (Through(h) /\ ~Answers(h.app, h.path))
        /\ IF callers = <<>>
           THEN /\ stack' = [stack EXCEPT ![c] = <<>>]
                /\ result' = [result EXCEPT ![c] = "closed"]
           ELSE /\ stack' = [stack EXCEPT ![c] =
                               [callers EXCEPT ![Len(callers)].failed = TRUE]]
                /\ UNCHANGED result
  /\ UNCHANGED <<served, refused>>

HandlerStep(c) == Call(c) \/ Refuse(c) \/ Answer(c) \/ Close(c)

BenchNext == \E c \in Client : Request(c) \/ Burnt(c) \/ HandlerStep(c)

BenchSpec == BenchInit /\ [][BenchNext]_benchVars

-----------------------------------------------------------------------------
(* The type invariant; no handler has made more calls than its path has.   *)
BenchTypeOK ==
  /\ stack \in [Client -> Seq([app : App, path : {"a", "b", "c", "d", "e"},
                               burnt : BOOLEAN, made : 0 .. 2, failed : BOOLEAN])]
  /\ \A c \in Client : \A i \in DOMAIN stack[c] :
        stack[c][i].made <= Len(Calls(stack[c][i].app, stack[c][i].path))
  /\ result \in [Client -> {"idle", "waiting", "ok", "closed"}]
  /\ served \in [Client -> Seq(App)]
  /\ refused \subseteq Client

(* The route the benchmark uses never leads back to a handler that waits   *)
(* for it: there is no cycle of blocked callers.  The routes "c" and "d"   *)
(* of A do lead back (App_a.py 66, App_C.py 54).                           *)
NoCycle ==
  \A c \in Client : \A i, j \in DOMAIN stack[c] :
     i < j => stack[c][i].app # stack[c][j].app

(* A client that gets an answer had the whole of its request served, each  *)
(* server after the ones it called: an answer is never sent over a failed  *)
(* call, so each answer stands for the same traffic.                       *)
AnsweredWhole ==
  \A c \in Client : result[c] = "ok" => served[c] = <<"E", "C", "E", "D", "B", "A">>

(* A client whose connections all worked is not turned away.               *)
NotTurnedAway == \A c \in Client : result[c] = "closed" => c \in refused

(* Every request ends.                                                     *)
RequestsEnd == \A c \in Client : result[c] = "waiting" ~> result[c] \in {"ok", "closed"}
=============================================================================
