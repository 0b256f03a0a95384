------------------------------ MODULE MCReplay ------------------------------
(* Three cases, prepared in another order than that of their ids, the last  *)
(* id a baseline case; the answers that make a difference for each of them. *)
EXTENDS Replay

MCBatch == <<2, 3, 1>>

Probabilities(s, v, u) == ("supported" :> s) @@ ("violated" :> v) @@ ("unknown" :> u)

Tie == [p |-> Probabilities(1, 1, 0), choice |-> "supported"]

\* A sure violation, a tie, and one that calls for context.
Rows == [p : {Probabilities(0, 2, 0)}, choice : {"violated"}]
        \cup {Tie}
        \cup [p : {Probabilities(0, 1, 1)}, choice : {"unknown"}]

About(c, row) == <<[id |-> c, p |-> row.p, choice |-> row.choice]>>
Maybe(c) == {<<>>} \cup {About(c, row) : row \in Rows}

\* Sums that are off, a choice that is not the likeliest, a stranger, a twin.
Faulty ==
  {About(1, [p |-> Probabilities(1, 2, 0), choice |-> "violated"]),
   About(1, [p |-> Probabilities(0, 2, 0), choice |-> "supported"]),
   About(4, [p |-> Probabilities(0, 2, 0), choice |-> "violated"]),
   About(1, [p |-> Probabilities(0, 2, 0), choice |-> "violated"])
     \o About(1, [p |-> Probabilities(1, 1, 0), choice |-> "supported"])}

MCResponses == {a \o b \o c : a \in {<<>>, About(3, Tie)}, b \in Maybe(1), c \in Maybe(2)} \cup Faulty

Policy(mode, count, min, max) == [mode |-> mode, count |-> count, min |-> min, max |-> max]
MCRequests == {Policy("all", 0, 0, 0), Policy("lowest", 2, 0, 0), Policy("highest", 1, 0, 0),
               Policy("highest", 2, 0, 0), Policy("range", 0, 0, 1), Policy("range", 0, 1, 1)}
=============================================================================
