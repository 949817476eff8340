-------------------------- MODULE MCOrdersService --------------------------
(***************************************************************************)
(* Instances of OrdersService for TLC: an API process that serves two      *)
(* clients with the same key and one with an empty key, and the script.    *)
(***************************************************************************)
EXTENDS OrdersService

CONSTANTS c1, c2, c3, api, script, k1, seedKey

MCKey ==
  [c \in Creators |->
    CASE c \in {c1, c2} -> k1
      [] c = Seeder -> seedKey
      [] OTHER -> Blank]

MCHost == [c \in Creators |-> IF c = Seeder THEN script ELSE api]

(* In a process the random bits always agree: only the generator tells     *)
(* identifiers apart.  Those of two processes never do.                    *)
MCRandom == [p \in Processes |-> IF p = api THEN {0} ELSE {1}]
=============================================================================
