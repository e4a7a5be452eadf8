---------------------------------- MODULE Null ----------------------------------
(* The null of the rows and requests of the modules that extend it.         *)
CONSTANT None
=================================================================================
