---------------------------- MODULE MCRunDiscovery ----------------------------
(***************************************************************************)
(* RunDiscovery for TLC.  Two tags are asked for, one of them twice, and a *)
(* third one is not.                                                       *)
(***************************************************************************)
EXTENDS RunDiscovery

RepeatedTag == <<"a", "b", "a">>
===============================================================================
