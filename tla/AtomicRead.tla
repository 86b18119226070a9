----------------------------- MODULE AtomicRead -----------------------------
(***************************************************************************)
(* A configuration file and a program that takes its list over in one step. *)
(* Engine's ReadConfig and System's Reload read the file like this;         *)
(* ConfigFile, which reads it block by block, implements this module.       *)
(***************************************************************************)
CONSTANT Lists    (* backend lists the file may hold, none among them when it *)
                  (* is truncated                                             *)

VARIABLES
  published,  (* the backend list in the configuration file               *)
  pool        (* the list the program works with, empty before it reads   *)

readVars == <<published, pool>>

Init ==
  /\ published \in Lists
  /\ pool = <<>>

Publish ==
  /\ published' \in Lists
  /\ UNCHANGED pool

Read ==
  /\ pool' = published
  /\ UNCHANGED published

\* The process ends; what it had read is gone.
Die ==
  /\ pool' = <<>>
  /\ UNCHANGED published

Next == Publish \/ Read \/ Die

Spec == Init /\ [][Next]_readVars
=============================================================================
