----------------------------- MODULE MCCollectors -----------------------------
(* TLC instance of Collectors: no allow-list, as config.LoadAgent sets it. *)
EXTENDS Collectors

NoList == {}
=============================================================================
