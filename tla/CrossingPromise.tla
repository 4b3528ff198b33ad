---------------------------- MODULE CrossingPromise ----------------------------
(***************************************************************************)
(* What do_intersections promises the sweep about the active edge list:    *)
(* edges only ever cross their neighbour, and only one they are to the     *)
(* right of at the top of the scanbeam.                                    *)
(***************************************************************************)
EXTENDS Naturals, Sequences

VARIABLES top_x, actives

Init == actives = [i \in DOMAIN top_x |-> i]

Cross ==
  /\ \E i \in DOMAIN actives :
       /\ i + 1 \in DOMAIN actives
       /\ top_x[actives[i]] > top_x[actives[i + 1]]
       /\ actives' = [actives EXCEPT ![i] = actives[i + 1], ![i + 1] = actives[i]]
  /\ UNCHANGED top_x

Spec == Init /\ [][Cross]_<<top_x, actives>>
=============================================================================
