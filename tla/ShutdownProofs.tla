---------------------------- MODULE ShutdownProofs ----------------------------
(***************************************************************************)
(* Proofs about Shutdown, for any number of calls to any of the servers.   *)
(***************************************************************************)
EXTENDS Shutdown, TLAPS

LEMMA ShutdownInit == Init => ShutdownInv
  BY CallsAssumption
     DEF Init, ShutdownInv, TypeOK, Stages, CallState, Down, Stopped, Servers,
         Http, GrpcNeverCut, HttpCutOnlyLate, InService

(* A call that changes state under main, with the servers as they are.     *)
LEMMA CallStep ==
    ASSUME ShutdownInv, NEW c \in Calls,
           \/ Connect(c) \/ ClientSends(c) \/ ClientLeaves(c)
           \/ ReadExpires(c) \/ HandlerReturns(c)
    PROVE  ShutdownInv'
  <1>1. /\ main' = main /\ server' = server /\ deadline' = deadline
        /\ storeOpen' = storeOpen
    BY DEF Connect, ClientSends, ClientLeaves, ReadExpires, HandlerReturns,
           Become
  <1>2. /\ call' = [call EXCEPT ![c] = call'[c]]
        /\ call'[c] \in {"open", "running", "answered", "failed", "expired",
                         "left"}
        /\ call'[c] = "open" => call[c] = "new" /\ server[ServerOf[c]] = "up"
        /\ call'[c] = "running" => call[c] = "open"
        /\ call'[c] = "failed" => call[c] = "running" /\ ~storeOpen
                                  /\ main # "exit"
    BY DEF ShutdownInv, TypeOK, Connect, ClientSends, ClientLeaves,
           ReadExpires, HandlerReturns, Become
  <1>3. Down' = Down /\ Stopped' = Stopped
    BY <1>1 DEF Down, Stopped
  <1>4. TypeOK'
    BY <1>1, <1>2 DEF ShutdownInv, TypeOK, CallState
  <1>5. \A s \in Down' : server'[s] = "down"
    BY <1>1, <1>3 DEF ShutdownInv
  <1>6. \A d \in Calls : ServerOf[d] \in Stopped' /\ call'[d] \in InService =>
            ServerOf[d] # "grpc" /\ deadline'
    <2>1. ASSUME NEW d \in Calls, ServerOf[d] \in Stopped,
                 call'[d] \in InService
          PROVE  call[d] \in InService
      <3>1. server[ServerOf[d]] = "down"
        BY <2>1 DEF ShutdownInv, Stopped
      <3>2. CASE d = c
        BY <1>2, <2>1, <3>1, <3>2 DEF InService
      <3>3. CASE d # c
        BY <1>2, <2>1, <3>3 DEF ShutdownInv, TypeOK
      <3>4. QED
        BY <3>2, <3>3
    <2>2. QED
      BY <1>1, <1>3, <2>1 DEF ShutdownInv
  <1>7. call'[c] = "failed" => ServerOf[c] # "grpc" /\ deadline
    <2>1. ASSUME call'[c] = "failed" PROVE ServerOf[c] \in Stopped
      <3>1. main = "return"
        BY <1>2, <2>1 DEF ShutdownInv
      <3>2. Stopped = Servers
        BY <3>1 DEF Stopped, Down, Servers, Http
      <3>3. QED
        BY <3>2, CallsAssumption
    <2>2. QED
      BY <1>2, <2>1 DEF ShutdownInv, InService
  <1>8. GrpcNeverCut' /\ HttpCutOnlyLate'
    BY <1>1, <1>2, <1>7
       DEF ShutdownInv, TypeOK, GrpcNeverCut, HttpCutOnlyLate
  <1>9. (storeOpen <=> main \notin {"return", "exit"})'
    BY <1>1 DEF ShutdownInv
  <1>10. QED
    BY <1>4, <1>5, <1>6, <1>8, <1>9 DEF ShutdownInv

(* A step of main from one server to the next.                             *)
LEMMA MainStep ==
    ASSUME ShutdownInv, Signal \/ GracefulStopReturns \/ ShutdownReturns
    PROVE  ShutdownInv'
  <1>1. /\ call' = call /\ deadline' = deadline /\ storeOpen' = storeOpen
        /\ main \in {"serve", "grpc", "ingest", "query", "mcp"}
    BY DEF Signal, GracefulStopReturns, ShutdownReturns, Http
  <1>2. \/ main = "serve"  /\ main' = "grpc"
        \/ main = "grpc"   /\ main' = "ingest" /\ Idle("grpc")
        \/ main = "ingest" /\ main' = "query"  /\ (Idle("ingest") \/ deadline)
        \/ main = "query"  /\ main' = "mcp"    /\ (Idle("query") \/ deadline)
        \/ main = "mcp"    /\ main' = "close"  /\ (Idle("mcp") \/ deadline)
    BY DEF Signal, GracefulStopReturns, ShutdownReturns, After, Stop, Http
  <1>3. IF main = "mcp" THEN server' = server
                        ELSE server' = [server EXCEPT ![main'] = "down"]
    BY DEF Signal, GracefulStopReturns, ShutdownReturns, After, Stop, Http
  <1>4. TypeOK'
    BY <1>1, <1>2, <1>3 DEF ShutdownInv, TypeOK, Stages, Servers, Http
  <1>5. /\ Down' = Down \cup ({main'} \cap Servers)
        /\ Stopped' = Stopped \cup ({main} \cap Servers)
    <2>1. CASE main = "serve"
      BY <1>2, <2>1 DEF Stopped, Down, Servers, Http
    <2>2. CASE main = "grpc"
      BY <1>2, <2>2 DEF Stopped, Down, Servers, Http
    <2>3. CASE main = "ingest"
      BY <1>2, <2>3 DEF Stopped, Down, Servers, Http
    <2>4. CASE main = "query"
      BY <1>2, <2>4 DEF Stopped, Down, Servers, Http
    <2>5. CASE main = "mcp"
      BY <1>2, <2>5 DEF Stopped, Down, Servers, Http
    <2>6. QED
      BY <1>1, <2>1, <2>2, <2>3, <2>4, <2>5
  <1>6. \A s \in Down' : server'[s] = "down"
    <2>1. Down \subseteq Servers /\ server \in [Servers -> {"starting", "up", "down"}]
      BY DEF Down, Servers, Http, ShutdownInv, TypeOK
    <2>2. main = "mcp" => main' \notin Servers
      BY <1>2 DEF Servers, Http
    <2>3. QED
      BY <1>3, <1>5, <2>1, <2>2 DEF ShutdownInv
  <1>7. \A c \in Calls : ServerOf[c] \in Stopped' /\ call'[c] \in InService =>
            ServerOf[c] # "grpc" /\ deadline'
    <2>1. ASSUME NEW c \in Calls, call[c] \in InService, ServerOf[c] = main
          PROVE  ServerOf[c] # "grpc" /\ deadline
      <3>1. main \in Servers
        BY <2>1, CallsAssumption
      <3>2. ~ Idle(main)
        BY <2>1 DEF Idle
      <3>3. QED
        BY <1>2, <2>1, <3>1, <3>2 DEF Servers, Http
    <2>2. ASSUME NEW c \in Calls, call[c] \in InService, ServerOf[c] \in Stopped
          PROVE  ServerOf[c] # "grpc" /\ deadline
      BY <2>2 DEF ShutdownInv
    <2>3. QED
      BY <1>1, <1>5, <2>1, <2>2
  <1>8. QED
    BY <1>1, <1>2, <1>4, <1>6, <1>7
       DEF ShutdownInv, GrpcNeverCut, HttpCutOnlyLate

LEMMA ExitStep ==
    ASSUME ShutdownInv, CloseStore \/ Exit
    PROVE  ShutdownInv'
  <1>1. Stopped = Servers /\ Stopped' = Servers /\ Down' = Servers /\ Down = Servers
    BY DEF CloseStore, Exit, Stopped, Down, Servers, Http
  <1>2. \A c \in Calls : call[c] \in InService => ServerOf[c] # "grpc" /\ deadline
    BY <1>1, CallsAssumption DEF ShutdownInv
  <1>3. CASE CloseStore
    BY <1>1, <1>2, <1>3
       DEF CloseStore, ShutdownInv, TypeOK, Stages, GrpcNeverCut,
           HttpCutOnlyLate
  <1>4. CASE Exit
    <2>1. TypeOK' /\ \A c \in Calls : call'[c] \notin InService
      BY <1>4 DEF Exit, ShutdownInv, TypeOK, Stages, CallState, InService
    <2>2. GrpcNeverCut' /\ HttpCutOnlyLate'
      BY <1>2, <1>4 DEF Exit, ShutdownInv, GrpcNeverCut, HttpCutOnlyLate
    <2>3. QED
      BY <1>1, <1>4, <2>1, <2>2 DEF Exit, ShutdownInv
  <1>5. QED
    BY <1>3, <1>4

LEMMA ShutdownNext == ShutdownInv /\ [Next]_vars => ShutdownInv'
  <1> SUFFICES ASSUME ShutdownInv, [Next]_vars PROVE ShutdownInv'
    OBVIOUS
  <1>1. ASSUME NEW s \in Servers, ServerUp(s) \/ BindFails(s)
        PROVE  ShutdownInv'
    <2>1. /\ main' = main /\ call' = call /\ deadline' = deadline
          /\ storeOpen' = storeOpen
          /\ server[s] = "starting"
          /\ \/ server' = [server EXCEPT ![s] = "up"]
             \/ server' = [server EXCEPT ![s] = "down"]
      BY <1>1 DEF ServerUp, BindFails
    <2>2. Down' = Down /\ Stopped' = Stopped
      BY <2>1 DEF Down, Stopped
    <2>3. s \notin Down
      BY <2>1 DEF ShutdownInv
    <2>4. Down \subseteq Servers
      BY DEF Down, Servers, Http
    <2>5. TypeOK' /\ \A t \in Down' : server'[t] = "down"
      BY <2>1, <2>2, <2>3, <2>4 DEF ShutdownInv, TypeOK
    <2>6. QED
      BY <2>1, <2>2, <2>5 DEF ShutdownInv, GrpcNeverCut, HttpCutOnlyLate
  <1>2. CASE Deadline
    <2>1. Down' = Down /\ Stopped' = Stopped
      BY <1>2 DEF Deadline, Down, Stopped
    <2>2. QED
      BY <1>2, <2>1
         DEF Deadline, ShutdownInv, TypeOK, GrpcNeverCut, HttpCutOnlyLate
  <1>3. CASE UNCHANGED vars
    <2>1. Down' = Down /\ Stopped' = Stopped
      BY <1>3 DEF vars, Down, Stopped
    <2>2. QED
      BY <1>3, <2>1
         DEF vars, ShutdownInv, TypeOK, GrpcNeverCut, HttpCutOnlyLate
  <1>4. QED
    BY <1>1, <1>2, <1>3, CallStep, MainStep, ExitStep DEF Next, Main

(* In every reachable state the servers, the calls and the store stand as  *)
(* the place that main has reached says.                                   *)
THEOREM ShutdownInvariance == Spec => []ShutdownInv
  BY ShutdownInit, ShutdownNext, PTL DEF Spec

(* GracefulStop before s.Close: no RPC is cut, none fails on a closed      *)
(* store.                                                                  *)
THEOREM GrpcSafe == Spec => []GrpcNeverCut
  <1>1. ShutdownInv => GrpcNeverCut
    BY DEF ShutdownInv
  <1>2. QED
    BY ShutdownInvariance, <1>1, PTL

(* An HTTP request has the whole of the 5 seconds unless it ends before.   *)
THEOREM HttpSafe == Spec => []HttpCutOnlyLate
  <1>1. ShutdownInv => HttpCutOnlyLate
    BY DEF ShutdownInv
  <1>2. QED
    BY ShutdownInvariance, <1>1, PTL

(* Every server is down before the store is closed.                        *)
THEOREM StoreLast == Spec => []StoreOutlivesServers
  <1>1. ShutdownInv => StoreOutlivesServers
    <2> SUFFICES ASSUME ShutdownInv, NEW s \in Servers, server[s] = "up"
                 PROVE  storeOpen
      BY DEF StoreOutlivesServers
    <2>1. main \in {"return", "exit"} => Down = Servers
      BY DEF Down
    <2>2. QED
      BY <2>1 DEF ShutdownInv
  <1>2. QED
    BY ShutdownInvariance, <1>1, PTL

-----------------------------------------------------------------------------
(* Progress: why the process ends once the time is over (HttpPhaseEnds),   *)
(* and what it waits for until then.                                       *)
StageNo == [m \in Stages |->
    CASE m = "serve" -> 0 [] m = "grpc" -> 1 [] m = "ingest" -> 2 [] m = "query" -> 3
      [] m = "mcp" -> 4 [] m = "close" -> 5 [] m = "return" -> 6 [] m = "exit" -> 7]

(* The calls in service at the server that main is stopping.               *)
Awaited == { c \in Calls : ServerOf[c] = main /\ call[c] \in InService }

(* A step leaves main where it is, with no call more to wait for, or takes *)
(* it one stage on.                                                        *)
StopsOnward ==
    \/ main' = main /\ Awaited' \subseteq Awaited
    \/ StageNo[main'] = StageNo[main] + 1

(* What has ended stays ended: a server that is down, a call that had its  *)
(* outcome, the time, the store.                                           *)
StaysEnded ==
    /\ \A s \in Servers : server[s] = "down" => server'[s] = "down"
    /\ \A c \in Calls : call[c] \notin InService \cup {"new"} => call'[c] = call[c]
    /\ deadline => deadline'
    /\ ~ storeOpen => ~ storeOpen'

LEMMA NobodyNew ==
    ASSUME ShutdownInv, main \in Servers, NEW c \in Calls,
           \/ Connect(c) \/ ClientSends(c) \/ ClientLeaves(c)
           \/ ReadExpires(c) \/ HandlerReturns(c)
    PROVE  Awaited' \subseteq Awaited
  <1>1. main \in Down
    BY DEF Down, Servers, Http
  <1>2. main' = main /\ server[main] = "down"
    BY <1>1 DEF ShutdownInv, Connect, ClientSends, ClientLeaves, ReadExpires,
                HandlerReturns, Become
  <1>3. \A d \in Calls \ {c} : call'[d] = call[d]
    BY DEF ShutdownInv, TypeOK, Connect, ClientSends, ClientLeaves, ReadExpires,
           HandlerReturns, Become
  <1>4. ASSUME ServerOf[c] = main, call'[c] \in InService
        PROVE  call[c] \in InService
    <2>1. ~ Connect(c)
      BY <1>2, <1>4 DEF Connect
    <2> QED BY <2>1 DEF InService, ClientSends, ClientLeaves, ReadExpires, HandlerReturns
  <1> QED BY <1>2, <1>3, <1>4 DEF Awaited

LEMMA ShutdownStepsOnward ==
    ASSUME ShutdownInv, [Next]_vars
    PROVE  StopsOnward
  <1>1. ASSUME NEW c \in Calls,
               \/ Connect(c) \/ ClientSends(c) \/ ClientLeaves(c)
               \/ ReadExpires(c) \/ HandlerReturns(c)
        PROVE  StopsOnward
    <2>1. main' = main /\ deadline' = deadline
      BY <1>1 DEF Connect, ClientSends, ClientLeaves, ReadExpires, HandlerReturns, Become
    <2>2. main \notin Servers => Awaited' = {}
      BY <2>1, CallsAssumption DEF Awaited
    <2> QED BY <1>1, <2>1, <2>2, NobodyNew DEF StopsOnward
  <1>2. CASE \/ \E s \in Servers : ServerUp(s) \/ BindFails(s)
             \/ Deadline \/ UNCHANGED vars
    BY <1>2 DEF ServerUp, BindFails, Deadline, vars, StopsOnward, Awaited
  <1>3. CASE Signal \/ GracefulStopReturns \/ ShutdownReturns
    <2>1. \/ main = "serve"  /\ main' = "grpc"
          \/ main = "grpc"   /\ main' = "ingest"
          \/ main = "ingest" /\ main' = "query"
          \/ main = "query"  /\ main' = "mcp"
          \/ main = "mcp"    /\ main' = "close"
      BY <1>3 DEF Signal, GracefulStopReturns, ShutdownReturns, After, Stop, Http
    <2> QED BY <2>1 DEF StopsOnward, StageNo, Stages, Servers, Http
  <1>4. CASE CloseStore \/ Exit
    BY <1>4 DEF CloseStore, Exit, StopsOnward, StageNo, Stages, Servers, Http
  <1> QED BY <1>1, <1>2, <1>3, <1>4 DEF Next, Main

LEMMA EndedStays ==
    ASSUME ShutdownInv, [Next]_vars
    PROVE  StaysEnded
  <1> USE DEF ShutdownInv, TypeOK, StaysEnded
  <1>1. ASSUME NEW c \in Calls,
               \/ Connect(c) \/ ClientSends(c) \/ ClientLeaves(c)
               \/ ReadExpires(c) \/ HandlerReturns(c)
        PROVE  StaysEnded
    <2>1. /\ call[c] \in InService \cup {"new"}
          /\ call' = [call EXCEPT ![c] = call'[c]]
          /\ UNCHANGED <<server, deadline, storeOpen>>
      BY <1>1 DEF Connect, ClientSends, ClientLeaves, ReadExpires, HandlerReturns,
                  Become, InService
    <2> QED BY <2>1
  <1>2. CASE \E s \in Servers : ServerUp(s) \/ BindFails(s)
    BY <1>2 DEF ServerUp, BindFails
  <1>3. CASE Signal \/ GracefulStopReturns \/ ShutdownReturns
    BY <1>3 DEF Signal, GracefulStopReturns, ShutdownReturns, After, Stop, Http
  <1>4. CASE CloseStore \/ Exit
    BY <1>4 DEF CloseStore, Exit
  <1>5. CASE Deadline \/ UNCHANGED vars
    BY <1>5 DEF Deadline, vars
  <1> QED BY <1>1, <1>2, <1>3, <1>4, <1>5 DEF Next, Main

(* main goes through its shutdown once, without a way back; while it stops *)
(* a server no new call joins those it waits for, and an answer that was   *)
(* given, a server that is down or a store that is closed stays so.        *)
THEOREM ShutdownOnward == Spec => [][StopsOnward /\ StaysEnded]_vars
  <1>1. ShutdownInv /\ [Next]_vars => [StopsOnward /\ StaysEnded]_vars
    BY ShutdownStepsOnward, EndedStays
  <1> QED BY <1>1, ShutdownInvariance, PTL DEF Spec
=============================================================================
