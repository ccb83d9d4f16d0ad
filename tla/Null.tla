-------------------------------- MODULE Null --------------------------------
(* The value of a pointer, a descriptor or a file that is not there. *)
CONSTANT NULL
=============================================================================
