---------------------------- MODULE MCScheduler ----------------------------
(***************************************************************************)
(* A diamond a -> b, c -> d, with d sharing a file with the independent e, *)
(* so that b, c and e compete for the workers and d and e for the file.    *)
(***************************************************************************)
EXTENDS Scheduler

CONSTANTS a, b, c, d, e

Diamond == [t \in Tasks |-> CASE t = d -> {b, c} [] t \in {b, c} -> {a} [] OTHER -> {}]
OwnFile == [t \in Tasks |-> CASE t = b -> {"y"} [] t = c -> {"z"} [] t = d -> {"x", "w"}
                              [] t = e -> {"w"} [] OTHER -> {"x"}]
FourFiles == {"x", "y", "z", "w"}
=============================================================================
