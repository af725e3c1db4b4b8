------------------------------- MODULE MCVotings -------------------------------
EXTENDS Votings

(* Candidates and operators are alike: two operators, or none yet.         *)
MCFirstOperators ==
  { [c \in {"c1", "c2"} |-> IF c = "c1" THEN "o1" ELSE "o2"],
    [c \in {"c1", "c2"} |-> Nobody] }

(* Both stake from the first address. *)
MCSelfVoter == [c \in {"c1", "c2"} |-> "v1"]

(* Both are delegates at first. *)
MCFirstBallots ==
  [candidate : {"c1", "c2"}, voter : {"v1"}, amount : {7}, native : {FALSE}]
================================================================================
