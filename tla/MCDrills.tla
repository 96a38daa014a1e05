------------------------------- MODULE MCDrills -------------------------------
(***************************************************************************)
(* Two of the four services that must stay up: the first is asked after    *)
(* payment answered, the second after another service did.                 *)
(***************************************************************************)
EXTENDS Drills

MCOthers == <<"catalog", "auth">>

===============================================================================
