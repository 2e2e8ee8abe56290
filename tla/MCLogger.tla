------------------------------ MODULE MCLogger ------------------------------
(* A ring of a few messages for TLC.                                       *)
EXTENDS Logger
=============================================================================
