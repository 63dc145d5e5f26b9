--------------------------- MODULE MCClientSession ---------------------------
(* Instances of ClientSession for TLC. *)
EXTENDS ClientSession, TLC

CONSTANTS d1, p1, p2

\* two processes on the only device
TwoProcessesOneDevice == p1 :> d1 @@ p2 :> d1

\* any token may be minted next, and the processes of the one device are alike
Interchangeable == Permutations(Tokens) \cup Permutations(Procs)

\* the last token is minted only while no call was abandoned: a bound
LossesEarly == lost = 0 \/ owner \notin [Tokens -> Users]
==============================================================================
