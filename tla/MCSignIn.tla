------------------------------- MODULE MCSignIn -------------------------------
(* Instances of SignIn for TLC. *)
EXTENDS SignIn, TLC

CONSTANTS lower, upper, quoted, spaced

\* two spellings of one address; one whose local part is quoted, and the same without the
\* quotes, which is no address
Normalisation == lower :> lower @@ upper :> lower @@ quoted :> spaced @@ spaced :> Invalid

\* too short for a registration; as long as allowed; one byte longer, with the same first 72
Short == [runes |-> 7, bytes |-> 7, prefix |-> "short"]
Full == [runes |-> 72, bytes |-> 72, prefix |-> "full"]
Longer == [runes |-> 73, bytes |-> 73, prefix |-> "full"]

TypedPasswords == {Short, Full, Longer}

ShortPasswordUser == {[email |-> lower, password |-> Short]}

\* clocks that agree, a skeeper ahead of the device, and one behind the auther
ClockSkews ==
  {[device |-> 0, auther |-> a, skeeper |-> s] : a \in {0, 1}, s \in {0, 1}}
    \ {[device |-> 0, auther |-> 1, skeeper |-> 1]}

\* the processes are alike
Interchangeable == Permutations(Procs)
==============================================================================
