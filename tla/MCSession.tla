----------------------------- MODULE MCSession -----------------------------
(* Small instances of Session for TLC.                                     *)
EXTENDS SessionInv, TLC

CONSTANTS c1, c2, c3, p1, p2

\* A first job, a second one, and one more command of any kind that mutates.
TwoJobs == (c1 :> {"start"}) @@ (c2 :> {"start", "restart"})
           @@ (c3 :> {"stop", "clear", "resubmit"})
TwoProjects == [c \in {c1, c2, c3} |-> IF c = c2 THEN p2 ELSE p1]

\* A job, and one command of any kind next to it.
OneJob == (c1 :> {"start"}) @@ (c2 :> Kinds)
SameProject == [c \in Commands |-> p1]

\* A job, and one command that replaces or clears it.
Overlap == (c1 :> {"start"}) @@ (c2 :> {"resubmit"})
StartThenClear == (c1 :> {"start"}) @@ (c2 :> {"clear"})

\* A job, its replacement, and one more.
ThreeJobs == (c1 :> {"start"}) @@ (c2 :> {"resubmit"}) @@ (c3 :> {"start"})

\* Two jobs, the second of which replaces the first, and a stop.
Replacement == (c1 :> {"start"}) @@ (c2 :> {"resubmit"}) @@ (c3 :> {"stop", "clear"})
=============================================================================
