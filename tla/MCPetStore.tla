------------------------------ MODULE MCPetStore ------------------------------
(* An instance of PetStore for TLC. *)
EXTENDS PetStore

\* No action reads resp, no invariant of the passing run mentions it, and its action
\* properties are about the response of the step itself: resp need not tell states
\* apart.
View == <<storeVars, users>>

\* No handler uses both the users and the pets or orders: states where both have
\* changed are not explored further.
OneMapAtATime ==
  \/ DOMAIN users = {"john_doe"} /\ users["john_doe"].password = "password123"
  \/ DOMAIN pets = {1, 2} /\ orders = <<>> /\ nextPetID = 3 /\ nextOrderID = 1
==============================================================================
