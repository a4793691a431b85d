----------------------------- MODULE AtomicFiles -----------------------------
(***************************************************************************)
(* What the skip-existing checks of the pipeline rely on: a result file is *)
(* absent or complete, it changes only by becoming another complete one,   *)
(* and it never goes away again.                                           *)
(***************************************************************************)
CONSTANTS
  Paths,     \* the final paths of the result files
  Contents,  \* what a complete file can hold
  Missing    \* stands for "no such file"

VARIABLE file  \* path -> Missing or its content

Init == file = [p \in Paths |-> Missing]

Publish(p, c) == file' = [file EXCEPT ![p] = c]

Next == \E p \in Paths, c \in Contents : Publish(p, c)

Spec == Init /\ [][Next]_file
=============================================================================
