------------------------------- MODULE Shutdown -------------------------------
(***************************************************************************)
(* The life of the process in cmd/otelstore/main.go: four servers are      *)
(* started, a signal arrives, main stops them one after the other and      *)
(* closes the store by returning.  Everything else that runs when main     *)
(* returns is gone.                                                        *)
(***************************************************************************)
EXTENDS Naturals

CONSTANTS
    Calls,      \* BOUND: RPCs and HTTP requests that clients may make
    ServerOf    \* ServerOf[c]: the server that call c is for

Http    == {"ingest", "query", "mcp"}
Servers == {"grpc"} \cup Http

ASSUME CallsAssumption == ServerOf \in [Calls -> Servers]

VARIABLES
    main,       \* "serve", then the server main is stopping, then the end
    server,     \* server[s]: "starting", "up", or "down" (no new calls)
    call,       \* call[c]: see CallState
    deadline,   \* the 5 seconds of shutdownCtx are over
    storeOpen

vars == <<main, server, call, deadline, storeOpen>>

(* open: the server waits for the client's message or body; running: the   *)
(* handler works; answered, failed: it returned, with the store open or    *)
(* closed; expired: ReadTimeout; left: the client hung up; cut: the        *)
(* process ended under it.                                                 *)
CallState == {"new", "open", "running", "answered", "failed", "expired",
              "left", "cut"}
InService == {"open", "running"}

Stages == {"serve"} \cup Servers \cup {"close", "return", "exit"}

TypeOK ==
    /\ main \in Stages
    /\ server \in [Servers -> {"starting", "up", "down"}]
    /\ call \in [Calls -> CallState]
    /\ deadline \in BOOLEAN
    /\ storeOpen \in BOOLEAN

(* The store is open before any server is started.                         *)
Init ==
    /\ main = "serve"
    /\ server = [s \in Servers |-> "starting"]
    /\ call = [c \in Calls |-> "new"]
    /\ deadline = FALSE
    /\ storeOpen = TRUE

-----------------------------------------------------------------------------
(* The servers and their calls.                                            *)

(* The goroutine of server s comes to serve.                               *)
ServerUp(s) ==
    /\ main # "exit"
    /\ server[s] = "starting"
    /\ server' = [server EXCEPT ![s] = "up"]
    /\ UNCHANGED <<main, call, deadline, storeOpen>>

(* ListenAndServe fails (the port is taken): one line in the log, and the  *)
(* process runs on without that server.  main itself listens for gRPC and  *)
(* ends if that fails.                                                     *)
BindFails(s) ==
    /\ main # "exit"
    /\ s \in Http
    /\ server[s] = "starting"
    /\ server' = [server EXCEPT ![s] = "down"]
    /\ UNCHANGED <<main, call, deadline, storeOpen>>

Become(c, state) ==
    /\ call' = [call EXCEPT ![c] = state]
    /\ UNCHANGED <<main, server, deadline, storeOpen>>

Connect(c) ==
    /\ call[c] = "new"
    /\ server[ServerOf[c]] = "up"
    /\ Become(c, "open")

ClientSends(c) == call[c] = "open" /\ Become(c, "running")

ClientLeaves(c) == call[c] = "open" /\ Become(c, "left")

(* ReadTimeout of the http.Servers.  The gRPC server has a limit for idle  *)
(* connections only, and a connection with an open RPC is not idle.        *)
ReadExpires(c) ==
    /\ call[c] = "open"
    /\ ServerOf[c] \in Http
    /\ Become(c, "expired")

HandlerReturns(c) ==
    /\ call[c] = "running"
    /\ main # "exit"
    /\ Become(c, IF storeOpen THEN "answered" ELSE "failed")

-----------------------------------------------------------------------------
(* main, from the signal on.                                               *)

Idle(s) == \A c \in Calls : ServerOf[c] = s => call[c] \notin InService

(* Stopping a server begins with closing its listener.                     *)
Stop(s) == main' = s /\ server' = [server EXCEPT ![s] = "down"]

Signal ==
    /\ main = "serve"
    /\ Stop("grpc")
    /\ UNCHANGED <<call, deadline, storeOpen>>

(* shutdownCtx is made before GracefulStop, its 5 seconds run during it.   *)
Deadline ==
    /\ main \in Servers \cup {"close"}
    /\ ~ deadline
    /\ deadline' = TRUE
    /\ UNCHANGED <<main, server, call, storeOpen>>

(* MUTANT of GracefulStopReturns: grpcServer.Stop().                       *)
StopReturns ==
    /\ main = "grpc"
    /\ Stop("ingest")
    /\ UNCHANGED <<call, deadline, storeOpen>>

(* grpcServer.GracefulStop(): waits for every RPC in service.              *)
GracefulStopReturns ==
    /\ main = "grpc"
    /\ Idle("grpc")
    /\ Stop("ingest")
    /\ UNCHANGED <<call, deadline, storeOpen>>

(* The server that main stops after HTTP server s; after the last, main    *)
(* returns and runs its deferred calls.                                    *)
After(s) == CASE s = "ingest" -> Stop("query")
              [] s = "query"  -> Stop("mcp")
              [] s = "mcp"    -> main' = "close" /\ UNCHANGED server

(* MUTANT of ShutdownReturns: context.Background() instead of shutdownCtx. *)
ShutdownReturnsWhenIdle ==
    /\ main \in Http
    /\ Idle(main)
    /\ After(main)
    /\ UNCHANGED <<call, deadline, storeOpen>>

(* MUTANT of ShutdownReturns: a context that is cancelled already.         *)
ShutdownReturnsAtOnce ==
    /\ main \in Http
    /\ After(main)
    /\ UNCHANGED <<call, deadline, storeOpen>>

(* server.Shutdown(shutdownCtx): no request in service, or no time left.   *)
ShutdownReturns ==
    /\ main \in Http
    /\ Idle(main) \/ deadline
    /\ After(main)
    /\ UNCHANGED <<call, deadline, storeOpen>>

(* MUTANT of CloseStore: the store is closed first of all.                 *)
CloseStoreEarly ==
    /\ storeOpen
    /\ main \in {"grpc", "close"}
    /\ storeOpen' = FALSE
    /\ main' = IF main = "close" THEN "return" ELSE main
    /\ UNCHANGED <<server, call, deadline>>

(* The deferred s.Close(): statements begun from now on fail.              *)
CloseStore ==
    /\ main = "close"
    /\ storeOpen' = FALSE
    /\ main' = "return"
    /\ UNCHANGED <<server, call, deadline>>

Exit ==
    /\ main = "return"
    /\ main' = "exit"
    /\ server' = [s \in Servers |-> "down"]
    /\ call' = [c \in Calls |-> IF call[c] \in InService THEN "cut" ELSE call[c]]
    /\ UNCHANGED <<deadline, storeOpen>>

Main == GracefulStopReturns \/ ShutdownReturns \/ CloseStore \/ Exit

Next ==
    \/ \E s \in Servers : ServerUp(s) \/ BindFails(s)
    \/ \E c \in Calls : \/ Connect(c) \/ ClientSends(c) \/ ClientLeaves(c)
                        \/ ReadExpires(c) \/ HandlerReturns(c)
    \/ Signal \/ Deadline \/ Main

Spec == Init /\ [][Next]_vars

(* The process runs: main's calls return when they can, time passes, and   *)
(* handlers end, except that a stream of the MCP server may stay open for  *)
(* as long as its client likes.  Nothing is assumed of clients.            *)
FairSpec ==
    /\ Spec
    /\ WF_vars(Main) /\ WF_vars(Deadline)
    /\ \A c \in Calls : ServerOf[c] # "mcp" => WF_vars(HandlerReturns(c))

-----------------------------------------------------------------------------
(* An RPC that was in service when the signal came is answered by a server *)
(* that still has its store; shutdown never cuts it.                       *)
GrpcNeverCut ==
    \A c \in Calls : ServerOf[c] = "grpc" => call[c] \notin {"failed", "cut"}

(* An HTTP request is cut, or fails on a closed store, only when the 5     *)
(* seconds of the shutdown are over.                                       *)
HttpCutOnlyLate ==
    \A c \in Calls : call[c] \in {"failed", "cut"} => deadline

(* No server takes a call after the store is closed.                       *)
StoreOutlivesServers ==
    \A s \in Servers : server[s] = "up" => storeOpen

(* Where main stands tells which servers are down.                         *)
Down == CASE main = "serve"  -> {}
          [] main = "grpc"   -> {"grpc"}
          [] main = "ingest" -> {"grpc", "ingest"}
          [] main = "query"  -> {"grpc", "ingest", "query"}
          [] OTHER           -> Servers

(* The servers whose stop has returned.                                    *)
Stopped == Down \ {main}

(* The inductive invariant behind those three properties of shutdown: a    *)
(* server that is down stays down, one whose stop has returned serves      *)
(* nobody unless the time was over, and the store closes after all that.   *)
ShutdownInv ==
    /\ TypeOK
    /\ \A s \in Down : server[s] = "down"
    /\ \A c \in Calls : ServerOf[c] \in Stopped /\ call[c] \in InService =>
           ServerOf[c] # "grpc" /\ deadline
    /\ storeOpen <=> main \notin {"return", "exit"}
    /\ GrpcNeverCut
    /\ HttpCutOnlyLate

(* Once gRPC is stopped, no client can keep the process from ending.       *)
HttpPhaseEnds == main \in Http ~> main = "exit"

(* "Graceful shutdown with timeout" (main.go): after the signal, the       *)
(* process ends.                                                           *)
ShutdownEnds == main = "grpc" ~> main = "exit"
=============================================================================
