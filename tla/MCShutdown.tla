------------------------------ MODULE MCShutdown ------------------------------
(***************************************************************************)
(* Two RPCs, so that one may be held while the other ends, and a request   *)
(* for each HTTP server.                                                   *)
(***************************************************************************)
EXTENDS Shutdown, TLC

CONSTANTS rpc1, rpc2, post, get, tool

AllCalls == (rpc1 :> "grpc") @@ (rpc2 :> "grpc") @@ (post :> "ingest")
         @@ (get :> "query") @@ (tool :> "mcp")

MCServerOf == [c \in Calls |-> AllCalls[c]]
=============================================================================
