------------------------ MODULE MCConnectionReadiness ------------------------
(* Instances of ConnectionReadiness for TLC: the spec is per player, so one *)
(* player with two generations and two paths is the deep instance.          *)
EXTENDS ConnectionReadiness

MCGenerations == {1, 2}
=============================================================================
