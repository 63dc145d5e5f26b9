--------------------------- MODULE MCRefreshTokens ---------------------------
(* Instances of RefreshTokens for TLC. *)
EXTENDS RefreshTokens, TLC

CONSTANTS h1, h2, s1, s2

\* all handlers run in one auther process
OneServer == h1 :> s1 @@ h2 :> s1

\* the handlers run in two auther processes
TwoServers == h1 :> s1 @@ h2 :> s2
==============================================================================
