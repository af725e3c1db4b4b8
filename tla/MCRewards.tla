------------------------------- MODULE MCRewards -------------------------------
EXTENDS Bookkeeping

MCProducers == <<"d1", "d2">>

(* 28 hundredths of a percent of 1000 are 2; a block reward of 1 is too    *)
(* little to be shared by two, so that an epoch may leave nothing to share.*)
MCEpochGrants ==
  {[a \in {"a", "b"} |-> Reward(0, 1000, 401)], [a \in {"b"} |-> Reward(0, 1000, 401)]}

R(address, votes, block, epoch, bonus) ==
  [address |-> address, votes |-> votes,
   portion |-> [block |-> block, epoch |-> epoch, bonus |-> bonus]]

(* Portions are in hundredths of a percent; 0.29 * 100 is a little less    *)
(* than 29 in floating point.                                              *)
MCBasisPoints == [p \in {0, 29, 5000, 10000} |-> IF p = 29 THEN 28 ELSE p]

MCSnapshots ==
  { \* d1 and d2 share an address, d3 has its own; d1 is ahead of d2
    [result |-> [d1 |-> R("a", 6, 10000, 5000, 0), d2 |-> R("a", 3, 0, 10000, 0),
                 d3 |-> R("b", 3, 5000, 5000, 5000)],
     voters |-> [k \in {<<"d1", "v1">>, <<"d1", "v2">>, <<"d2", "v1">>, <<"d3", "v2">>} |->
                   IF k[1] = "d1" THEN IF k[2] = "v1" THEN 4 ELSE 2 ELSE 3]],
    \* d2 shares with d3, which has as many votes as d1; a vote for d1 is lost to rounding
    [result |-> [d1 |-> R("b", 2, 29, 29, 10000), d2 |-> R("a", 4, 10000, 10000, 10000),
                 d3 |-> R("a", 2, 10000, 0, 5000)],
     voters |-> [k \in {<<"d1", "v1">>, <<"d2", "v1">>, <<"d2", "v2">>, <<"d3", "v2">>} |->
                   IF k[1] = "d2" THEN 2 ELSE IF k[1] = "d1" THEN 1 ELSE 2]],
    \* d3 is no candidate, and nobody uses b; the votes of d2 are scaled down to nothing
    [result |-> [d1 |-> R("a", 5, 5000, 5000, 5000), d2 |-> R("a", 0, 10000, 10000, 10000)],
     voters |-> [k \in {<<"d1", "v1">>, <<"d1", "v2">>, <<"d2", "v2">>} |->
                   IF k[1] = "d1" THEN 2 ELSE 0]] }
================================================================================
