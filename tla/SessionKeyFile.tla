---------------------------- MODULE SessionKeyFile ----------------------------
(***************************************************************************)
(* The file with the key that encrypts the tokens of the stored session.   *)
(* Each skeepercli process reads it when it opens the database and creates *)
(* it when it is missing; creating is reading, truncating and writing, and *)
(* the process can die between them.                                       *)
(***************************************************************************)
EXTENDS Naturals

CONSTANTS
  Procs,            \* skeepercli processes of one device
  NoFile, Empty,    \* no file, and a file of the wrong length
  NoKey,
  FirstRunAlone     \* no process starts beside the one that creates the file

ASSUME KeyAssumption == {NoFile, Empty, NoKey} \cap Procs = {} /\ NoFile # Empty /\ FirstRunAlone \in BOOLEAN

VARIABLES
  file,       \* the key in the file, named after the process that generated it
  opening,    \* opening[p]: how far loadOrCreateSessionKey is
  key         \* key[p]: the key p goes on with

keyVars == <<file, opening, key>>

KeyTypeOK ==
  /\ file \in Procs \cup {NoFile, Empty}
  /\ opening \in [Procs -> {"closed", "missing", "writing", "open", "failed"}]
  /\ key \in [Procs -> Procs \cup {NoKey}]

KeyInit ==
  /\ file = NoFile
  /\ opening = [p \in Procs |-> "closed"]
  /\ key = [p \in Procs |-> NoKey]

MayStart(p) ==
  FirstRunAlone =>
    \A q \in Procs \ {p} : IF file = NoFile THEN opening[q] = "closed"
                                            ELSE opening[q] \notin {"missing", "writing"}

(* Mutant of AfterReadError: any error is taken for a missing file. *)
AfterReadErrorMissing == "missing"

AfterReadError == "failed"

ReadError(p) ==
  /\ opening[p] = "closed" /\ MayStart(p)
  /\ opening' = [opening EXCEPT ![p] = AfterReadError]
  /\ UNCHANGED <<file, key>>

ReadFile(p) ==
  /\ opening[p] = "closed" /\ MayStart(p)
  /\ opening' = [opening EXCEPT ![p] = CASE file = NoFile -> "missing"
                                         [] file = Empty -> "failed"
                                         [] OTHER -> "open"]
  /\ key' = [key EXCEPT ![p] = IF file \in Procs THEN file ELSE NoKey]
  /\ UNCHANGED file

(* os.WriteFile truncates whatever file is there by now, and then writes. *)
TruncateFile(p) ==
  /\ opening[p] = "missing"
  /\ file' = Empty
  /\ opening' = [opening EXCEPT ![p] = "writing"]
  /\ key' = [key EXCEPT ![p] = p]

WriteKey(p) ==
  /\ opening[p] = "writing"
  /\ file' = key[p]
  /\ opening' = [opening EXCEPT ![p] = "open"]
  /\ UNCHANGED key

(* The process ends, or dies. *)
Close(p) ==
  /\ opening[p] # "closed"
  /\ opening' = [opening EXCEPT ![p] = "closed"]
  /\ key' = [key EXCEPT ![p] = NoKey]
  /\ UNCHANGED file
==============================================================================
