------------------------------ MODULE SdkToken ------------------------------
(***************************************************************************)
(* The bearer token of a JavaScript SDK client (sdk/js/src/client.ts,      *)
(* jwt.ts) and its check by the server (internal/server/api/middleware.go).*)
(* The client mints a token itself, caches it and replaces it five minutes *)
(* before it expires by the client's clock; the server decides by its own  *)
(* clock when the request arrives.                                         *)
(*                                                                         *)
(* Clocks count seconds.  They advance, drift and are set: each may show   *)
(* anything at the next step.                                              *)
(***************************************************************************)
EXTENDS Integers, FiniteSets

CONSTANTS
  Clock,      \* BOUND: what a clock can show
  Life,       \* seconds from the minting of a token to its expiry
  Margin,     \* a token this close to its expiry is replaced
  MaxFlights  \* BOUND: requests under way at once

(* The literals 86400 and 300 of the code.                                 *)
ASSUME SdkTokenAssumption ==
  /\ Clock \subseteq Int
  /\ Life \in Nat
  /\ Margin \in Nat
  /\ Margin < Life

VARIABLES
  client,   \* the client's clock
  server,   \* the server's clock
  cached,   \* whether cachedToken is set
  exp,      \* the exp claim of cachedToken
  expiry,   \* tokenExpiry
  flights,  \* requests under way: exp of the token, client's clock at sending
  rejected  \* history: the last one answered 401, with the clocks' values

tokenVars == <<cached, exp, expiry>>
vars == <<client, server, cached, exp, expiry, flights, rejected>>

Init ==
  /\ client \in Clock
  /\ server \in Clock
  /\ cached = FALSE
  /\ exp = 0
  /\ expiry = 0
  /\ flights = {}
  /\ rejected = {}

ClientClock ==
  /\ client' \in Clock
  /\ UNCHANGED <<server, tokenVars, flights, rejected>>

ServerClock ==
  /\ server' \in Clock
  /\ UNCHANGED <<client, tokenVars, flights, rejected>>

(* Bug: the token is used until it expires.                                *)
MustMintLate == ~cached \/ client >= expiry

(* The condition of getToken.                                              *)
MustMint == ~cached \/ client >= expiry - Margin

(* mintAgentToken reads the clock a second time: a second may have begun.  *)
Mint ==
  /\ cached' = TRUE
  /\ exp' \in {client + Life, client + Life + 1}
  /\ expiry' = client + Life

(* request: getToken and the sending are one turn of the event loop.       *)
Request ==
  /\ Cardinality(flights) < MaxFlights
  /\ IF MustMint THEN Mint ELSE UNCHANGED tokenVars
  /\ flights' = flights \cup {[exp |-> exp', sent |-> client]}
  /\ UNCHANGED <<client, server, rejected>>

(* JWTMiddleware: no leeway, and iat is not looked at.                     *)
Expired(f) == server >= f.exp

(* The request arrives, any time later, and is let through.                *)
Accept(f) ==
  /\ f \in flights
  /\ ~Expired(f)
  /\ flights' = flights \ {f}
  /\ UNCHANGED <<client, server, tokenVars, rejected>>

(* 401: an exception for the caller; the cached token stays.               *)
Reject(f) ==
  /\ f \in flights
  /\ Expired(f)
  /\ flights' = flights \ {f}
  /\ rejected' = {[sent |-> f.sent, checked |-> server]}
  /\ UNCHANGED <<client, server, tokenVars>>

(* The response is lost, or the request on its way.                        *)
Lose(f) ==
  /\ f \in flights
  /\ flights' = flights \ {f}
  /\ UNCHANGED <<client, server, tokenVars, rejected>>

(* A new MiniObservClient, with nothing cached; requests of the old one    *)
(* may still be under way.                                                 *)
NewClient ==
  /\ cached' = FALSE
  /\ exp' = 0
  /\ expiry' = 0
  /\ UNCHANGED <<client, server, flights, rejected>>

Next ==
  \/ ClientClock
  \/ ServerClock
  \/ Request
  \/ \E f \in flights : Accept(f) \/ Reject(f) \/ Lose(f)
  \/ NewClient

Spec == Init /\ [][Next]_vars

-----------------------------------------------------------------------------
(* "No stale-token errors in long-running processes" (sdk/js/README.md),   *)
(* as far as it goes: a request is rejected only if the server's clock at  *)
(* the check is more than Margin past the client's clock at the sending.   *)
(* The time on the way and the difference of the clocks share that margin; *)
(* how the clocks stood when the token was minted, and how they were set   *)
(* since, does not matter.                                                 *)
AcceptedWhenClocksAgree ==
  \A r \in rejected : r.checked - r.sent > Margin
=============================================================================
