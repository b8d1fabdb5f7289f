--------------------------- MODULE MCPetStoreLock ----------------------------
(* An instance of PetStoreLock for TLC. *)
EXTENDS PetStoreLock
==============================================================================
