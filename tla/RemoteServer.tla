---------------------------- MODULE RemoteServer ----------------------------
(***************************************************************************)
(* RemoteKeywordServer.run_keyword (pytest_dsl/remote/keyword_server.py)   *)
(* on the threads of ThreadedXMLRPCServer, with the parts of the process   *)
(* those threads share: the concurrency limiter, the handlers and the      *)
(* level of the root logger (remote/diagnostics.py), and the _call_stack   *)
(* attribute of a custom keyword's closure (core/custom_keyword_manager.py)*)
(*                                                                         *)
(* One thread serves one request.  A step is what the interpreter lock or  *)
(* a lock of the code makes atomic: one operation on one shared object.    *)
(***************************************************************************)
EXTENDS Naturals, Sequences, FiniteSets

CONSTANTS
  Threads,         \* request threads; a thread that replied may serve again
  Keywords,        \* registered keywords
  CustomKeywords,  \* those an extension registered from DSL text
  MaxConcurrency,  \* permits of _concurrency_limiter
  CaptureLevel,    \* PYTEST_DSL_REMOTE_DIAG_LOG_LEVEL
  HostLevel,       \* level of the root logger while no request captures
  NoLevel,         \* None, the value of _root_original_level between requests
  MaxRecords,      \* bound: log records per request
  MaxDepth         \* bound: nested custom keyword calls

ASSUME ServerAssumption ==
  /\ IsFiniteSet(Threads)
  /\ CustomKeywords \subseteq Keywords
  /\ MaxConcurrency \in Nat \ {0}
  /\ CaptureLevel \in Nat /\ HostLevel \in Nat /\ NoLevel \notin Nat
  /\ MaxRecords \in Nat /\ MaxDepth \in Nat

VARIABLES
  pc,             \* how far run_keyword is, per thread
  request,        \* the keyword a thread was asked to run
  permits,        \* free permits of the limiter
  handlers,       \* the capture handlers of the root logger, by their thread
  levelRequests,  \* _active_root_level_requests
  savedLevel,     \* _root_original_level
  rootLevel,      \* level of the root logger
  cursor,         \* position in handlers of the record being delivered, 0: none
  emitted,        \* records the request's keyword has logged
  captured,       \* those of them in the request's diagnostics
  guard,          \* custom keywords whose _call_stack is not empty
  calls,          \* custom keywords whose body a thread runs, innermost last
  blamed,         \* the keyword of the RecursionError raised in a thread
  raising,        \* an exception travels through the bodies of a thread
  reply           \* what the thread answered last

limiterVars == <<permits>>
logVars     == <<handlers, levelRequests, savedLevel, rootLevel>>
recordVars  == <<cursor, emitted, captured>>
callVars    == <<guard, calls, blamed, raising>>
vars == <<pc, request, limiterVars, logVars, recordVars, callVars, reply>>

NoKeyword == "no keyword"

Phases == { "idle", "arrived", "wrong key", "admitted", "attached", "running", "entering",
            "exiting", "detached", "released" }
Replies == {"none", "unauthorised", "busy", "PASS", "FAIL"}

-----------------------------------------------------------------------------
Init ==
  /\ pc = [t \in Threads |-> "idle"]
  /\ request = [t \in Threads |-> NoKeyword]
  /\ permits = MaxConcurrency
  /\ handlers = <<>> /\ levelRequests = 0 /\ savedLevel = NoLevel
  /\ rootLevel = HostLevel
  /\ cursor = [t \in Threads |-> 0]
  /\ emitted = [t \in Threads |-> 0] /\ captured = [t \in Threads |-> 0]
  /\ guard = {}
  /\ calls = [t \in Threads |-> <<>>]
  /\ blamed = [t \in Threads |-> NoKeyword]
  /\ raising = [t \in Threads |-> FALSE]
  /\ reply = [t \in Threads |-> "none"]

At(t, phase) == pc[t] = phase /\ cursor[t] = 0
Goto(t, phase) == pc' = [pc EXCEPT ![t] = phase]
Answer(t, what) == reply' = [reply EXCEPT ![t] = what]

(* A request arrives on a fresh thread, perhaps with a wrong key. *)
Request(t, keyword) ==
  /\ At(t, "idle")
  /\ Goto(t, "arrived") \/ Goto(t, "wrong key")
  /\ request' = [request EXCEPT ![t] = keyword]
  /\ emitted' = [emitted EXCEPT ![t] = 0]
  /\ captured' = [captured EXCEPT ![t] = 0]
  /\ blamed' = [blamed EXCEPT ![t] = NoKeyword]
  /\ raising' = [raising EXCEPT ![t] = FALSE]
  /\ Answer(t, "none")
  /\ UNCHANGED <<limiterVars, logVars, cursor, guard, calls>>

Unauthorised(t) ==
  /\ At(t, "wrong key")
  /\ Goto(t, "idle") /\ Answer(t, "unauthorised")
  /\ UNCHANGED <<request, limiterVars, logVars, recordVars, callVars>>

(* _concurrency_limiter.acquire(blocking=False). *)
Admit(t) ==
  /\ At(t, "arrived") /\ permits > 0
  /\ permits' = permits - 1
  /\ Goto(t, "admitted")
  /\ UNCHANGED <<request, logVars, recordVars, callVars, reply>>

BusyAnd(t, free) ==
  /\ At(t, "arrived") /\ permits = 0
  /\ Goto(t, "idle") /\ Answer(t, "busy")
  /\ permits' = free
  /\ UNCHANGED <<request, logVars, recordVars, callVars>>

BusyWaits(t) == At(t, "arrived") /\ FALSE         \* faulty: acquire(blocking=True)

Busy(t) == BusyAnd(t, permits)

-----------------------------------------------------------------------------
(* RemoteExecutionCapture.__enter__ and __exit__: the handler under the    *)
(* lock of logging, the level under _root_level_lock.                      *)
AddHandlers(t, added) ==
  /\ At(t, "admitted")
  /\ handlers' = handlers \o added
  /\ Goto(t, "attached")
  /\ UNCHANGED <<request, limiterVars, levelRequests, savedLevel, rootLevel,
                 recordVars, callVars, reply>>

AttachHandlerTwice(t) == AddHandlers(t, <<t, t>>)  \* faulty: added by __init__, too

AttachHandler(t) == AddHandlers(t, <<t>>)

AcquireLevel(t) ==
  /\ At(t, "attached")
  /\ savedLevel' = IF levelRequests = 0 THEN rootLevel ELSE savedLevel
  /\ levelRequests' = levelRequests + 1
  /\ rootLevel' = IF rootLevel > CaptureLevel THEN CaptureLevel ELSE rootLevel
  /\ Goto(t, "running")
  /\ UNCHANGED <<request, limiterVars, handlers, recordVars, callVars, reply>>

DetachHandler(t) ==
  /\ At(t, "exiting")
  /\ \E i \in 1..Len(handlers) :
       /\ handlers[i] = t
       /\ handlers' = [j \in 1..(Len(handlers) - 1) |->
                         IF j < i THEN handlers[j] ELSE handlers[j + 1]]
  /\ Goto(t, "detached")
  /\ UNCHANGED <<request, limiterVars, levelRequests, savedLevel, rootLevel,
                 recordVars, callVars, reply>>

RestoreLevelWhen(t, last) ==
  /\ At(t, "detached")
  /\ levelRequests' = IF levelRequests > 0 THEN levelRequests - 1 ELSE levelRequests
  /\ IF last /\ savedLevel # NoLevel
     THEN rootLevel' = savedLevel /\ savedLevel' = NoLevel
     ELSE UNCHANGED <<rootLevel, savedLevel>>
  /\ Goto(t, "released")
  /\ UNCHANGED <<request, limiterVars, handlers, recordVars, callVars, reply>>

ReleaseLevelAtOnce(t) == RestoreLevelWhen(t, TRUE)  \* faulty: no request count

ReleaseLevel(t) == RestoreLevelWhen(t, levelRequests <= 1)

(* The finally releases the permit; then the result is sent. *)
ReplyAnd(t, released) ==
  /\ At(t, "released")
  /\ permits' = permits + released
  /\ Answer(t, IF raising[t] THEN "FAIL" ELSE "PASS")
  /\ Goto(t, "idle")
  /\ UNCHANGED <<request, logVars, recordVars, callVars>>

ReplyKeepingPermit(t) == ReplyAnd(t, IF raising[t] THEN 0 ELSE 1)  \* faulty: no finally

Reply(t) == ReplyAnd(t, 1)

-----------------------------------------------------------------------------
(* Logging by a keyword: a record that the root level lets through is      *)
(* handed to one handler after the other, without a lock over the list; a  *)
(* capture handler keeps the records of its own thread.                    *)
Log(t) ==
  /\ At(t, "running") /\ ~raising[t] /\ emitted[t] < MaxRecords
  /\ emitted' = [emitted EXCEPT ![t] = @ + 1]
  /\ cursor' = [cursor EXCEPT ![t] = IF rootLevel <= CaptureLevel THEN 1 ELSE 0]
  /\ UNCHANGED <<pc, request, limiterVars, logVars, captured, callVars, reply>>

Deliver(t) ==
  /\ cursor[t] # 0
  /\ IF cursor[t] <= Len(handlers)
     THEN /\ cursor' = [cursor EXCEPT ![t] = @ + 1]
          /\ captured' = IF handlers[cursor[t]] = t
                         THEN [captured EXCEPT ![t] = @ + 1] ELSE captured
     ELSE /\ cursor' = [cursor EXCEPT ![t] = 0]
          /\ UNCHANGED captured
  /\ UNCHANGED <<pc, request, limiterVars, logVars, emitted, callVars, reply>>

-----------------------------------------------------------------------------
(* A keyword implemented in Python; before it, everything that can fail    *)
(* between the capture and the keyword: arguments, an unknown name.        *)
Completes(t) ==
  /\ At(t, "running") /\ calls[t] = <<>> /\ request[t] \notin CustomKeywords
  /\ Goto(t, "exiting")
  /\ UNCHANGED <<request, limiterVars, logVars, recordVars, callVars, reply>>

FailsInto(t, phase) ==
  /\ At(t, "running") /\ calls[t] = <<>>
  /\ raising' = [raising EXCEPT ![t] = TRUE]
  /\ Goto(t, phase)
  /\ UNCHANGED <<request, limiterVars, logVars, recordVars, guard, calls, blamed,
                 reply>>

FailsPastExit(t) == FailsInto(t, "detached")  \* faulty: the handler is removed on success

Fails(t) == FailsInto(t, "exiting")

(* custom_keyword_executor reads _call_stack ... *)
CallCustom(t, keyword) ==
  /\ At(t, "running") /\ ~raising[t] /\ Len(calls[t]) < MaxDepth
  /\ calls[t] = <<>> => keyword = request[t]
  /\ keyword \in CustomKeywords
  /\ request' = [request EXCEPT ![t] = keyword]
  /\ IF keyword \in guard
     THEN /\ raising' = [raising EXCEPT ![t] = TRUE]
          /\ blamed' = [blamed EXCEPT ![t] = keyword]
          /\ Goto(t, IF calls[t] = <<>> THEN "exiting" ELSE "running")
     ELSE Goto(t, "entering") /\ UNCHANGED <<raising, blamed>>
  /\ UNCHANGED <<limiterVars, logVars, recordVars, guard, calls, reply>>

(* ... and, after the parameters, sets it for its body.                    *)
EnterBody(t) ==
  /\ At(t, "entering")
  /\ guard' = guard \cup {request[t]}
  /\ calls' = [calls EXCEPT ![t] = Append(@, request[t])]
  /\ Goto(t, "running")
  /\ UNCHANGED <<request, limiterVars, logVars, recordVars, blamed, raising, reply>>

BodyRaises(t) ==
  /\ At(t, "running") /\ calls[t] # <<>> /\ ~raising[t]
  /\ raising' = [raising EXCEPT ![t] = TRUE]
  /\ UNCHANGED <<pc, request, limiterVars, logVars, recordVars, guard, calls, blamed,
                 reply>>

(* The finally of the closure restores the _call_stack that was read       *)
(* before, which was empty, or the call would not have come this far.      *)
LeaveBodyAnd(t, remaining) ==
  /\ At(t, "running") /\ calls[t] # <<>>
  /\ guard' = remaining
  /\ calls' = [calls EXCEPT ![t] = SubSeq(@, 1, Len(@) - 1)]
  /\ Goto(t, IF Len(calls[t]) = 1 THEN "exiting" ELSE "running")
  /\ UNCHANGED <<request, limiterVars, logVars, recordVars, blamed, raising, reply>>

Innermost(t) == calls[t][Len(calls[t])]

LeaveBodyGuarded(t) ==  \* faulty: the guard is restored on success only
  LeaveBodyAnd(t, IF raising[t] THEN guard ELSE guard \ {Innermost(t)})

LeaveBody(t) == LeaveBodyAnd(t, guard \ {Innermost(t)})

-----------------------------------------------------------------------------
(* What a thread does once its request has arrived. *)
Step(t) ==
  \/ Unauthorised(t) \/ Admit(t) \/ Busy(t)
  \/ AttachHandler(t) \/ AcquireLevel(t)
  \/ Log(t) \/ Deliver(t)
  \/ Completes(t) \/ Fails(t)
  \/ \E k \in Keywords : CallCustom(t, k)
  \/ EnterBody(t) \/ BodyRaises(t) \/ LeaveBody(t)
  \/ DetachHandler(t) \/ ReleaseLevel(t) \/ Reply(t)

Next == \E t \in Threads : Step(t) \/ \E k \in Keywords : Request(t, k)

Spec == Init /\ [][Next]_vars

(* The operating system schedules every request thread, and keywords end.  *)
FairSpec == Spec /\ \A t \in Threads : WF_vars(Step(t))

-----------------------------------------------------------------------------
(* Properties.                                                             *)

(* Types of the server's state.                                            *)
TypeOK ==
  /\ pc \in [Threads -> Phases]
  /\ request \in [Threads -> Keywords \cup {NoKeyword}]
  /\ permits \in 0..MaxConcurrency
  /\ handlers \in Seq(Threads)
  /\ levelRequests \in Nat
  /\ savedLevel \in Nat \cup {NoLevel}
  /\ rootLevel \in Nat
  /\ cursor \in [Threads -> Nat]
  /\ emitted \in [Threads -> Nat] /\ captured \in [Threads -> Nat]
  /\ guard \subseteq CustomKeywords
  /\ calls \in [Threads -> Seq(CustomKeywords)]
  /\ blamed \in [Threads -> CustomKeywords \cup {NoKeyword}]
  /\ raising \in [Threads -> BOOLEAN]
  /\ reply \in [Threads -> Replies]

Admitted == {t \in Threads : pc[t] \notin {"idle", "arrived", "wrong key"}}
Capturing == {t \in Threads : pc[t] \in {"running", "entering", "exiting", "detached"}}

(* Permits are neither lost nor made, whichever way requests end: the      *)
(* requests inside the limiter and the free permits add up to its limit.   *)
PermitsConserved == permits + Cardinality(Admitted) = MaxConcurrency

(* The shared request count says how many captures hold the root level, so *)
(* the first saves the host's level and only the last restores it: the     *)
(* level is the host's when none captures, and low enough for diagnostics  *)
(* while one does, in every order of enters and exits.                     *)
LevelShared ==
  /\ levelRequests = Cardinality(Capturing)
  /\ rootLevel = IF levelRequests = 0 \/ HostLevel <= CaptureLevel
                 THEN HostLevel ELSE CaptureLevel
  /\ savedLevel = IF levelRequests = 0 THEN NoLevel ELSE HostLevel

(* No capture handler is left behind on, or missing from, the root logger. *)
HandlersMatch ==
  /\ \A i, j \in 1..Len(handlers) : handlers[i] = handlers[j] => i = j
  /\ {handlers[i] : i \in 1..Len(handlers)}
       = {t \in Threads : pc[t] \in {"attached", "running", "entering", "exiting"}}

(* Handlers that come and go during a delivery never make a record appear  *)
(* twice in the diagnostics.                                               *)
CapturedAtMostOnce == \A t \in Threads : captured[t] <= emitted[t]

(* The recursion guard of a custom keyword is never stuck: when it is set, *)
(* some thread runs the body, although threads overwrite each other's      *)
(* _call_stack.                                                            *)
GuardReleased ==
  \A k \in guard : \E t \in Threads : \E i \in 1..Len(calls[t]) : calls[t][i] = k

(* Every request is answered, with a permit or without.                    *)
RequestsAnswered == \A t \in Threads : []<>(pc[t] = "idle")

(* tests/test_remote_diagnostics.py expects of two concurrent requests     *)
(* that the diagnostics of each hold its own log records: whatever was     *)
(* logged before the keyword ended is in them.                             *)
OwnRecordsCaptured ==
  \A t \in Threads : pc[t] = "released" => captured[t] = emitted[t]

(* The error message of custom_keyword_executor, "a recursive call of a    *)
(* custom keyword was detected": it is raised only in a thread that runs   *)
(* that keyword's body already.                                            *)
BlamesRecursionOnly ==
  [][\A t \in Threads :
       blamed'[t] \notin {NoKeyword, blamed[t]}
         => \E i \in 1..Len(calls[t]) : calls[t][i] = blamed'[t]]_vars
=============================================================================
