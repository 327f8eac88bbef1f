--------------------------------- MODULE Auth ---------------------------------
(***************************************************************************)
(* Bearer authentication: how main finds the token, the middleware of      *)
(* internal/auth before the three HTTP servers, and the interceptor and    *)
(* checkAuth of internal/grpcreceiver.  A header value is what is before   *)
(* and what is after its first blank; a request has a sequence of values.  *)
(***************************************************************************)
EXTENDS Naturals, Sequences

NoHeader == [scheme |-> "", token |-> ""]

TokenValid(header, expected) ==
    header.scheme = "Bearer" /\ header.token = expected

(* http.Header.Get: the first value, or the empty string.                  *)
Get(headers) == IF headers = <<>> THEN NoHeader ELSE headers[1]

Unauthenticated == {"/healthz", "/readyz"}

Middleware(token, path, headers) ==
    token = "" \/ path \in Unauthenticated \/ TokenValid(Get(headers), token)

Interceptor(token, headers) ==
    token = "" \/ (headers # <<>> /\ TokenValid(headers[1], token))

(* Each Export asks once more by itself.                                   *)
CheckAuth(token, headers) ==
    token = "" \/ (headers # <<>> /\ TokenValid(headers[1], token))

(* MUTANT of Admits: the MCP handler is not wrapped.                       *)
AdmitsAllToMcp(server, token, path, headers) ==
    CASE server = "grpc" -> Interceptor(token, headers) /\ CheckAuth(token, headers)
      [] server = "mcp"  -> TRUE
      [] OTHER           -> token # "" => Middleware(token, path, headers)

(* main wraps the handlers of the three HTTP servers if there is a token.  *)
Admits(server, token, path, headers) ==
    CASE server = "grpc" -> Interceptor(token, headers) /\ CheckAuth(token, headers)
      [] OTHER           -> token # "" => Middleware(token, path, headers)

-----------------------------------------------------------------------------
(* A configuration c: the flag, the environment, the path of a token file  *)
(* by flag and by environment, and what the files hold ("!" when a file    *)
(* cannot be read).                                                        *)
TokenFile(c) == IF c.tokenFileFlag # "" THEN c.tokenFileFlag ELSE c.tokenFileEnv

Given(c) == IF c.tokenFlag # "" THEN c.tokenFlag ELSE c.tokenEnv

Unreadable == "!"

(* log.Fatalf: the process does not start.                                 *)
Starts(c) == Given(c) = "" /\ TokenFile(c) # "" => c.files[TokenFile(c)] # Unreadable

Token(c) ==
    IF Given(c) # "" THEN Given(c)
    ELSE IF TokenFile(c) # "" THEN c.files[TokenFile(c)] ELSE ""
=============================================================================
