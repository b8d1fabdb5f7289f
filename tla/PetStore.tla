------------------------------ MODULE PetStore ------------------------------
(***************************************************************************)
(* The store of k8s/example-pod (handlers.go, main.go): pets and orders,   *)
(* with the users of PetStoreUsers.                                        *)
(*                                                                         *)
(* A pet without an id gets `pet.Id = &ps.nextPetID; ps.nextPetID++`: the  *)
(* stored Id is a pointer to the counter.  Its map key is the value read   *)
(* after the increment, and the id it shows is the counter's value at the  *)
(* time it is shown.  Orders are numbered in the same way.  `Alias` is     *)
(* that pointer; any other Id points to an integer of its own.             *)
(***************************************************************************)
EXTENDS Integers, FiniteSets, PetStoreUsers

CONSTANTS
  MaxPetId,       \* bound: pet ids are 1..MaxPetId
  ClientPetIds,   \* ids that clients put into their requests
  MaxOrderId,     \* bound: order ids are 1..MaxOrderId
  ClientOrderIds, \* ids that clients put into their orders
  Statuses,       \* pet status strings
  Alias           \* a pointer to the counter

PetIds   == 1..MaxPetId
OrderIds == 1..MaxOrderId

ASSUME StoreAssumption ==
  /\ MaxPetId \in Nat /\ MaxPetId >= 3
  /\ MaxOrderId \in Nat /\ MaxOrderId >= 1
  /\ ClientPetIds \subseteq PetIds /\ ClientOrderIds \subseteq OrderIds
  /\ None \notin Int /\ Alias \notin Int /\ None # Alias
  /\ None \notin Statuses
  /\ {"available", "pending"} \subseteq Statuses

Pet   == [id : PetIds \cup {Alias}, status : Statuses \cup {None}]
Order == [id : OrderIds \cup {Alias}, petId : PetIds \cup {None}]

VARIABLES
  pets,         \* the map from ids to pets
  orders,       \* the map from ids to orders
  nextPetID,
  nextOrderID

storeVars == <<pets, orders, nextPetID, nextOrderID>>
vars == <<storeVars, users, resp>>

IsMap(m, K, V) == m \in [DOMAIN m -> V] /\ DOMAIN m \subseteq K
Put(m, k, v) == [x \in DOMAIN m \cup {k} |-> IF x = k THEN v ELSE m[x]]
Delete(m, k) == [x \in DOMAIN m \ {k} |-> m[x]]

\* The value read through an Id pointer when the counter has value n.
Deref(id, n) == IF id = Alias THEN n ELSE id

TypeOK ==
  /\ UsersTypeOK
  /\ IsMap(pets, PetIds, Pet)
  /\ IsMap(orders, OrderIds, Order)
  /\ nextPetID \in PetIds
  /\ nextOrderID \in OrderIds

\* NewPetStore and addSampleData: Buddy and Mittens, and no order.
Init ==
  /\ UsersInit
  /\ pets = [k \in 1..2 |->
               [id |-> k, status |-> IF k = 1 THEN "available" ELSE "pending"]]
  /\ orders = [k \in {} |-> None]
  /\ nextPetID = 3
  /\ nextOrderID = 1
  /\ resp = Response("start", None, 0, None)
-----------------------------------------------------------------------------
(* Pet handlers. *)

\* Mutant: the id is the number of pets plus one, with no pointer to the counter.
AddPetByCount(id, status, ok) ==
  /\ ok
  /\ LET key == IF id = None THEN Cardinality(DOMAIN pets) + 1 ELSE id
     IN /\ key \in PetIds
        /\ pets' = Put(pets, key, [id |-> IF id = None THEN Alias ELSE id,
                                   status |-> status])
        /\ resp' = Response("AddPet", key, 200, key)
  /\ UNCHANGED <<orders, nextPetID, nextOrderID>>

\* id is the Id of the request body, or None; ok: name and photoUrls are given.
\* The counter has already moved when the validation rejects the request.
AddPet(id, status, ok) ==
  /\ nextPetID' = IF id = None THEN nextPetID + 1 ELSE nextPetID
  /\ nextPetID' \in PetIds                                     \* the bound
  /\ \/ /\ ~ok
        /\ Reply("AddPet", None, 400)
        /\ UNCHANGED pets
     \/ /\ ok
        /\ LET ptr == IF id = None THEN Alias ELSE id
               key == Deref(ptr, nextPetID')
           IN /\ pets' = Put(pets, key, [id |-> ptr, status |-> status])
              /\ resp' = Response("AddPet", key, 200, key)
  /\ UNCHANGED <<orders, nextOrderID>>

UpdatePet(id, status) ==
  /\ \/ /\ id = None
        /\ Reply("UpdatePet", None, 400)
        /\ UNCHANGED pets
     \/ /\ id # None /\ id \notin DOMAIN pets
        /\ Reply("UpdatePet", id, 404)
        /\ UNCHANGED pets
     \/ /\ id # None /\ id \in DOMAIN pets
        /\ pets' = Put(pets, id, [id |-> id, status |-> status])
        /\ resp' = Response("UpdatePet", id, 200, id)
  /\ UNCHANGED <<orders, nextPetID, nextOrderID>>

DeletePet(k) ==
  /\ \/ /\ k \notin DOMAIN pets
        /\ Reply("DeletePet", k, 404)
        /\ UNCHANGED pets
     \/ /\ k \in DOMAIN pets
        /\ pets' = Delete(pets, k)
        /\ resp' = Response("DeletePet", k, 200, None)
  /\ UNCHANGED <<orders, nextPetID, nextOrderID>>

\* `pet` is a copy of the struct, pointer included; an empty field is kept.
UpdatePetWithForm(k, status) ==
  /\ \/ /\ k \notin DOMAIN pets
        /\ Reply("UpdatePetWithForm", k, 404)
        /\ UNCHANGED pets
     \/ /\ k \in DOMAIN pets
        /\ pets' = Put(pets, k, IF status = None THEN pets[k]
                                ELSE [pets[k] EXCEPT !.status = status])
        /\ resp' = Response("UpdatePetWithForm", k, 200, None)
  /\ UNCHANGED <<orders, nextPetID, nextOrderID>>

\* The id in the JSON of the pet stored under k, written while the lock is held.
ShownPetId(k) == Deref(pets[k].id, nextPetID)

GetPetById(k) ==
  /\ \/ /\ k \notin DOMAIN pets
        /\ Reply("GetPetById", k, 404)
     \/ /\ k \in DOMAIN pets
        /\ resp' = Response("GetPetById", k, 200, ShownPetId(k))
  /\ UNCHANGED <<pets, orders, nextPetID, nextOrderID>>

UploadFile(k, hasFile) ==
  /\ \/ /\ k \notin DOMAIN pets
        /\ Reply("UploadFile", k, 404)
     \/ /\ k \in DOMAIN pets /\ ~hasFile
        /\ Reply("UploadFile", k, 400)
     \/ /\ k \in DOMAIN pets /\ hasFile
        /\ resp' = Response("UploadFile", k, 200, None)
  /\ UNCHANGED <<pets, orders, nextPetID, nextOrderID>>

\* Mutant: a nil status matches every search.
FindPetsByAnyStatus(S) == {k \in DOMAIN pets : pets[k].status \in S \cup {None}}

FindPetsByStatus(S) == {k \in DOMAIN pets : pets[k].status # None /\ pets[k].status \in S}

\* One count per status that occurs, as the loop over the map builds it.
GetInventory ==
  [s \in {pets[k].status : k \in DOMAIN pets} \ {None} |->
     Cardinality({k \in DOMAIN pets : pets[k].status = s})]
-----------------------------------------------------------------------------
(* Order handlers. *)

\* Mutant: the order is stored before its pet is looked up.
PlaceOrderUnchecked(id, petId) ==
  /\ nextOrderID' = IF id = None THEN nextOrderID + 1 ELSE nextOrderID
  /\ nextOrderID' \in OrderIds
  /\ LET ptr == IF id = None THEN Alias ELSE id
         key == Deref(ptr, nextOrderID')
     IN /\ orders' = Put(orders, key, [id |-> ptr, petId |-> petId])
        /\ resp' = Response("PlaceOrder", key, 200, key)
  /\ UNCHANGED <<pets, nextPetID>>

\* Mutant: the counter is not advanced past the order that was stored.
PlaceOrderReusingId(id, petId) ==
  /\ LET key == IF id = None THEN nextOrderID + 1 ELSE id
     IN /\ key \in OrderIds
        /\ orders' = Put(orders, key, [id |-> IF id = None THEN Alias ELSE id,
                                       petId |-> petId])
        /\ resp' = Response("PlaceOrder", key, 200, key)
  /\ UNCHANGED <<pets, nextPetID, nextOrderID>>

\* petId is the PetId of the request body, or None, which is not checked.
PlaceOrder(id, petId) ==
  /\ nextOrderID' = IF id = None THEN nextOrderID + 1 ELSE nextOrderID
  /\ nextOrderID' \in OrderIds                                 \* the bound
  /\ \/ /\ petId # None /\ petId \notin DOMAIN pets
        /\ Reply("PlaceOrder", None, 400)
        /\ UNCHANGED orders
     \/ /\ petId = None \/ petId \in DOMAIN pets
        /\ LET ptr == IF id = None THEN Alias ELSE id
               key == Deref(ptr, nextOrderID')
           IN /\ orders' = Put(orders, key, [id |-> ptr, petId |-> petId])
              /\ resp' = Response("PlaceOrder", key, 200, key)
  /\ UNCHANGED <<pets, nextPetID>>

\* id is None when the path parameter does not parse as an integer.
DeleteOrder(id) ==
  /\ \/ /\ id = None
        /\ Reply("DeleteOrder", None, 400)
        /\ UNCHANGED orders
     \/ /\ id # None /\ id \notin DOMAIN orders
        /\ Reply("DeleteOrder", id, 404)
        /\ UNCHANGED orders
     \/ /\ id # None /\ id \in DOMAIN orders
        /\ orders' = Delete(orders, id)
        /\ resp' = Response("DeleteOrder", id, 200, None)
  /\ UNCHANGED <<pets, nextPetID, nextOrderID>>

ShownOrderId(k) == Deref(orders[k].id, nextOrderID)

GetOrderById(k) ==
  /\ \/ /\ k \notin DOMAIN orders
        /\ Reply("GetOrderById", k, 404)
     \/ /\ k \in DOMAIN orders
        /\ resp' = Response("GetOrderById", k, 200, ShownOrderId(k))
  /\ UNCHANGED <<pets, orders, nextPetID, nextOrderID>>
-----------------------------------------------------------------------------
PetStep ==
  \/ \E id \in ClientPetIds \cup {None}, status \in Statuses \cup {None} :
       \/ \E ok \in BOOLEAN : AddPet(id, status, ok)
       \/ UpdatePet(id, status)
  \/ \E k \in PetIds :
       \/ DeletePet(k)
       \/ \E status \in Statuses \cup {None} : UpdatePetWithForm(k, status)
       \/ GetPetById(k)
       \/ \E hasFile \in BOOLEAN : UploadFile(k, hasFile)

OrderStep ==
  \/ \E id \in ClientOrderIds \cup {None}, petId \in PetIds \cup {None} :
       PlaceOrder(id, petId)
  \/ \E id \in OrderIds \cup {None} : DeleteOrder(id)
  \/ \E k \in OrderIds : GetOrderById(k)

Next ==
  \/ (PetStep \/ OrderStep) /\ UNCHANGED users
  \/ UserStep /\ UNCHANGED storeVars

Spec == Init /\ [][Next]_vars
-----------------------------------------------------------------------------
(* Properties. *)

\* A stored Id names its own key or is the pointer to the counter, and then the
\* counter has reached the key (handlers.go:24-27, 37 and 209-212, 234): the id
\* that a reply shows is the key or the newest automatic id, never a smaller one.
IdsCoherent ==
  /\ \A k \in DOMAIN pets :
       pets[k].id = k \/ (pets[k].id = Alias /\ 3 < k /\ k <= nextPetID)
  /\ \A k \in DOMAIN orders :
       orders[k].id = k \/ (orders[k].id = Alias /\ 1 < k /\ k <= nextOrderID)

\* Automatic ids never collide with one another: a step that numbers a pet or an
\* order replaces none that was numbered before (handlers.go:24-27, 209-212),
\* whatever was deleted, rejected or updated in between.
AutomaticIdsDistinct ==
  [][/\ resp'.op = "AddPet" /\ resp'.code = 200 /\ pets'[resp'.at].id = Alias
        => ~(resp'.at \in DOMAIN pets /\ pets[resp'.at].id = Alias)
     /\ resp'.op = "PlaceOrder" /\ resp'.code = 200 /\ orders'[resp'.at].id = Alias
        => ~(resp'.at \in DOMAIN orders /\ orders[resp'.at].id = Alias)]_vars

\* An order names a pet that is not in the store only after DeletePet of that very
\* pet (handlers.go:116, 228-232): orders are not cleaned up, but none is born so.
OrphansComeFromDeletePet ==
  [][\A o \in DOMAIN orders' :
       LET p == orders'[o].petId
       IN p # None /\ p \notin DOMAIN pets' =>
            \/ o \in DOMAIN orders /\ orders[o].petId = p /\ p \notin DOMAIN pets
            \/ resp'.op = "DeletePet" /\ resp'.at = p]_vars

\* The inventory and the search by status agree on every status, pets without a
\* status included in neither (handlers.go:72-79 and 189-194).  Every variable keeps
\* its type.
InventoryMatchesSearch ==
  /\ TypeOK
  /\ \A s \in Statuses :
       Cardinality(FindPetsByStatus({s})) =
         IF s \in DOMAIN GetInventory THEN GetInventory[s] ELSE 0

\* "Find pet by ID ... ID of pet to return" (openapi/api-spec.yaml): the pet that
\* GET /pet/{petId} returns carries that id (handlers.go:120-130).
GetReturnsThatPet ==
  resp.op = "GetPetById" /\ resp.code = 200 => resp.shown = resp.at
=============================================================================
