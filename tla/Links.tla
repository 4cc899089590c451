--------------------------------- MODULE Links ---------------------------------
(***************************************************************************)
(* What a loop meets that goes from a first node along the nodes' links.   *)
(***************************************************************************)
EXTENDS Naturals

\* The first n nodes; nil once the end is reached
Follow(links, nil, first, n) ==
    LET met[i \in 1..n] ==
            IF i = 1 THEN first ELSE IF met[i - 1] = nil THEN nil ELSE links[met[i - 1]]
    IN  met
=============================================================================
