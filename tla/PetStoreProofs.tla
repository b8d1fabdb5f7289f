--------------------------- MODULE PetStoreProofs ---------------------------
(***************************************************************************)
(* The pet store for every set of client ids, statuses and names, for      *)
(* arrays of every length and for every bound on the counters.             *)
(*                                                                         *)
(* Pets and orders: a stored Id names its own key or is the pointer to the *)
(* counter, automatic ids never collide, an order loses its pet only by    *)
(* DeletePet, and the inventory agrees with the search.  Users: each is    *)
(* stored under its own name and changes only by a request that names it.  *)
(* The loop over an array is a recursive function; RoundsExist and         *)
(* LastOfEachName are its induction.                                       *)
(***************************************************************************)
EXTENDS PetStore, FiniteSetTheorems, WellFoundedInduction, TLAPS

\* The types of pets and orders, without the users.
StoreTypes ==
  /\ IsMap(pets, PetIds, Pet)
  /\ IsMap(orders, OrderIds, Order)
  /\ nextPetID \in PetIds /\ nextPetID >= 3
  /\ nextOrderID \in OrderIds

StoreInv == StoreTypes /\ IdsCoherent

\* The sample data (main.go:45-100) is coherent.
LEMMA StoreInit == Init => StoreInv
<1>. SUFFICES ASSUME Init PROVE StoreInv
  OBVIOUS
<1>. USE StoreAssumption
<1>1. DOMAIN pets = 1..2 /\ DOMAIN orders = {}
  BY DEF Init
<1>2. \A k \in 1..2 : pets[k] \in Pet /\ pets[k].id = k
  BY DEF Init, Pet, PetIds
<1>3. pets \in [1..2 -> Pet] /\ orders \in [{} -> Order]
  BY <1>1, <1>2 DEF Init
<1>4. StoreTypes
  BY <1>1, <1>3 DEF Init, StoreTypes, IsMap, PetIds, OrderIds
<1>5. IdsCoherent
  BY <1>1, <1>2 DEF IdsCoherent
<1>. QED
  BY <1>4, <1>5 DEF StoreInv

\* Pet handlers keep the store coherent (handlers.go:14-179).
LEMMA PetStepInv == ASSUME StoreInv, PetStep PROVE StoreInv'
<1>. USE StoreAssumption
<1>1. ASSUME NEW id \in ClientPetIds \cup {None}, NEW status \in Statuses \cup {None},
             NEW ok \in BOOLEAN, AddPet(id, status, ok)
      PROVE  StoreInv'
  <2>1. /\ nextPetID' \in PetIds /\ nextPetID' >= nextPetID
        /\ id = None => nextPetID' = nextPetID + 1
        /\ UNCHANGED <<orders, nextOrderID>>
    BY <1>1 DEF AddPet, StoreInv, StoreTypes, PetIds
  <2>2. CASE ~ok
    BY <1>1, <2>1, <2>2 DEF AddPet, StoreInv, StoreTypes, IdsCoherent, PetIds, IsMap
  <2>3. CASE ok
    <3>. DEFINE ptr == IF id = None THEN Alias ELSE id
                key == Deref(ptr, nextPetID')
                pet == [id |-> ptr, status |-> status]
    <3>1. pets' = Put(pets, key, pet)
      BY <1>1, <2>3 DEF AddPet
    <3>2. key \in PetIds /\ pet \in Pet
      BY <2>1 DEF Deref, Pet, PetIds
    <3>3. ptr = key \/ (ptr = Alias /\ key = nextPetID' /\ 3 < key)
      BY <2>1 DEF Deref, PetIds, StoreInv, StoreTypes
    <3>4. pet.id = ptr
      OBVIOUS
    <3>. HIDE DEF ptr, key, pet
    <3>5. /\ IsMap(pets', PetIds, Pet) /\ DOMAIN pets' = DOMAIN pets \cup {key}
          /\ pets'[key] = pet
          /\ \A x \in DOMAIN pets \ {key} : pets'[x] = pets[x]
      <4>1. IsMap(pets, PetIds, Pet)
        BY DEF StoreInv, StoreTypes
      <4>. QED
        BY <3>1, <3>2, <4>1 DEF IsMap, Put
    <3>6. StoreTypes'
      BY <2>1, <3>5 DEF StoreInv, StoreTypes, PetIds
    <3>7. ASSUME NEW k \in DOMAIN pets'
          PROVE  pets'[k].id = k \/ (pets'[k].id = Alias /\ 3 < k /\ k <= nextPetID')
      <4>1. CASE k = key
        BY <4>1, <3>2, <3>3, <3>4, <3>5 DEF PetIds
      <4>2. CASE k # key
        BY <4>2, <3>5, <2>1 DEF StoreInv, StoreTypes, IdsCoherent, PetIds, IsMap
      <4>. QED
        BY <4>1, <4>2
    <3>. QED
      BY <2>1, <3>6, <3>7 DEF StoreInv, IdsCoherent
  <2>. QED
    BY <2>2, <2>3
<1>2. ASSUME NEW k \in PetIds, NEW pet \in Pet, pets' = Put(pets, k, pet),
             \/ pet.id = k
             \/ k \in DOMAIN pets /\ pet.id = pets[k].id,
             UNCHANGED <<orders, nextPetID, nextOrderID>>
      PROVE  StoreInv'
  <2>1. /\ IsMap(pets', PetIds, Pet) /\ DOMAIN pets' = DOMAIN pets \cup {k}
        /\ pets'[k] = pet
        /\ \A x \in DOMAIN pets \ {k} : pets'[x] = pets[x]
    <3>1. IsMap(pets, PetIds, Pet)
      BY DEF StoreInv, StoreTypes
    <3>. QED
      BY <1>2, <3>1 DEF IsMap, Put
  <2>2. StoreTypes'
    BY <1>2, <2>1 DEF StoreInv, StoreTypes
  <2>3. IdsCoherent'
    BY <1>2, <2>1 DEF StoreInv, IdsCoherent
  <2>. QED
    BY <2>2, <2>3 DEF StoreInv
<1>3. CASE UNCHANGED storeVars
  BY <1>3 DEF storeVars, StoreInv, StoreTypes, IdsCoherent, IsMap
<1>4. ASSUME NEW id \in ClientPetIds \cup {None}, NEW status \in Statuses \cup {None},
             UpdatePet(id, status)
      PROVE  StoreInv'
  <2>1. CASE UNCHANGED pets
    BY <1>3, <1>4, <2>1 DEF UpdatePet, storeVars
  <2>2. CASE id # None /\ pets' = Put(pets, id, [id |-> id, status |-> status])
    <3>1. id \in PetIds /\ [id |-> id, status |-> status] \in Pet
      BY <2>2 DEF Pet
    <3>. QED
      BY <1>2, <1>4, <2>2, <3>1 DEF UpdatePet
  <2>. QED
    BY <1>4, <2>1, <2>2 DEF UpdatePet
<1>5. ASSUME NEW k \in PetIds, DeletePet(k) PROVE StoreInv'
  <2>1. CASE UNCHANGED pets
    BY <1>3, <1>5, <2>1 DEF DeletePet, storeVars
  <2>2. CASE pets' = Delete(pets, k)
    <3>1. /\ IsMap(pets', PetIds, Pet) /\ DOMAIN pets' = DOMAIN pets \ {k}
          /\ \A x \in DOMAIN pets \ {k} : pets'[x] = pets[x]
      <4>1. IsMap(pets, PetIds, Pet)
        BY DEF StoreInv, StoreTypes
      <4>. QED
        BY <2>2, <4>1 DEF IsMap, Delete
    <3>2. StoreTypes'
      BY <1>5, <3>1 DEF DeletePet, StoreInv, StoreTypes
    <3>3. IdsCoherent'
      BY <1>5, <3>1 DEF DeletePet, StoreInv, IdsCoherent
    <3>. QED
      BY <3>2, <3>3 DEF StoreInv
  <2>. QED
    BY <1>5, <2>1, <2>2 DEF DeletePet
<1>6. ASSUME NEW k \in PetIds, NEW status \in Statuses \cup {None},
             UpdatePetWithForm(k, status)
      PROVE  StoreInv'
  <2>1. CASE UNCHANGED pets
    BY <1>3, <1>6, <2>1 DEF UpdatePetWithForm, storeVars
  <2>2. CASE /\ k \in DOMAIN pets
             /\ pets' = Put(pets, k, IF status = None THEN pets[k]
                                     ELSE [pets[k] EXCEPT !.status = status])
    <3>. DEFINE pet == IF status = None THEN pets[k]
                       ELSE [pets[k] EXCEPT !.status = status]
    <3>1. pets[k] \in Pet
      BY <2>2 DEF StoreInv, StoreTypes, IsMap
    <3>2. pet \in Pet /\ pet.id = pets[k].id
      BY <3>1 DEF Pet
    <3>. QED
      BY <1>2, <1>6, <2>2, <3>2, Zenon DEF UpdatePetWithForm
  <2>. QED
    BY <1>6, <2>1, <2>2 DEF UpdatePetWithForm
<1>7. ASSUME NEW k \in PetIds, GetPetById(k) \/ \E h \in BOOLEAN : UploadFile(k, h)
      PROVE  StoreInv'
  BY <1>3, <1>7 DEF GetPetById, UploadFile, storeVars
<1>. QED
  BY <1>1, <1>4, <1>5, <1>6, <1>7 DEF PetStep

\* Order handlers keep the store coherent (handlers.go:199-265).
LEMMA OrderStepInv == ASSUME StoreInv, OrderStep PROVE StoreInv'
<1>. USE StoreAssumption
<1>1. CASE UNCHANGED storeVars
  BY <1>1 DEF storeVars, StoreInv, StoreTypes, IdsCoherent, IsMap
<1>2. ASSUME NEW id \in ClientOrderIds \cup {None}, NEW petId \in PetIds \cup {None},
             PlaceOrder(id, petId)
      PROVE  StoreInv'
  <2>1. /\ nextOrderID' \in OrderIds /\ nextOrderID' >= nextOrderID
        /\ id = None => nextOrderID' = nextOrderID + 1
        /\ UNCHANGED <<pets, nextPetID>>
    BY <1>2 DEF PlaceOrder, StoreInv, StoreTypes, OrderIds
  <2>2. CASE UNCHANGED orders
    BY <2>1, <2>2 DEF StoreInv, StoreTypes, IdsCoherent, OrderIds, IsMap
  <2>3. CASE petId = None \/ petId \in DOMAIN pets
    <3>. DEFINE ptr == IF id = None THEN Alias ELSE id
                key == Deref(ptr, nextOrderID')
                order == [id |-> ptr, petId |-> petId]
    <3>1. orders' = Put(orders, key, order)
      BY <1>2, <2>3 DEF PlaceOrder
    <3>2. key \in OrderIds /\ order \in Order
      BY <2>1 DEF Deref, Order, OrderIds
    <3>3. ptr = key \/ (ptr = Alias /\ key = nextOrderID' /\ 1 < key)
      <4>1. nextOrderID \in Nat /\ nextOrderID >= 1
        BY DEF OrderIds, StoreInv, StoreTypes
      <4>2. CASE id = None
        BY <2>1, <4>1, <4>2 DEF Deref
      <4>3. CASE id # None
        BY <4>3 DEF Deref, OrderIds
      <4>. QED
        BY <4>2, <4>3
    <3>4. order.id = ptr
      OBVIOUS
    <3>. HIDE DEF ptr, key, order
    <3>5. /\ IsMap(orders', OrderIds, Order) /\ DOMAIN orders' = DOMAIN orders \cup {key}
          /\ orders'[key] = order
          /\ \A x \in DOMAIN orders \ {key} : orders'[x] = orders[x]
      <4>1. IsMap(orders, OrderIds, Order)
        BY DEF StoreInv, StoreTypes
      <4>. QED
        BY <3>1, <3>2, <4>1 DEF IsMap, Put
    <3>6. StoreTypes'
      BY <2>1, <3>5 DEF StoreInv, StoreTypes
    <3>7. ASSUME NEW k \in DOMAIN orders'
          PROVE  orders'[k].id = k \/ (orders'[k].id = Alias /\ 1 < k /\ k <= nextOrderID')
      <4>1. CASE k = key
        BY <4>1, <3>2, <3>3, <3>4, <3>5 DEF OrderIds
      <4>2. CASE k # key
        BY <4>2, <3>5, <2>1 DEF StoreInv, StoreTypes, IdsCoherent, OrderIds, IsMap
      <4>. QED
        BY <4>1, <4>2
    <3>. QED
      BY <2>1, <3>6, <3>7 DEF StoreInv, IdsCoherent
  <2>. QED
    BY <1>2, <2>2, <2>3 DEF PlaceOrder
<1>3. ASSUME NEW id \in OrderIds \cup {None}, DeleteOrder(id) PROVE StoreInv'
  <2>1. CASE UNCHANGED orders
    BY <1>1, <1>3, <2>1 DEF DeleteOrder, storeVars
  <2>2. CASE orders' = Delete(orders, id)
    <3>1. /\ IsMap(orders', OrderIds, Order) /\ DOMAIN orders' = DOMAIN orders \ {id}
          /\ \A x \in DOMAIN orders \ {id} : orders'[x] = orders[x]
      <4>1. IsMap(orders, OrderIds, Order)
        BY DEF StoreInv, StoreTypes
      <4>. QED
        BY <2>2, <4>1 DEF IsMap, Delete
    <3>2. StoreTypes'
      BY <1>3, <3>1 DEF DeleteOrder, StoreInv, StoreTypes
    <3>3. IdsCoherent'
      BY <1>3, <3>1 DEF DeleteOrder, StoreInv, IdsCoherent
    <3>. QED
      BY <3>2, <3>3 DEF StoreInv
  <2>. QED
    BY <1>3, <2>1, <2>2 DEF DeleteOrder
<1>4. ASSUME NEW k \in OrderIds, GetOrderById(k) PROVE StoreInv'
  BY <1>1, <1>4 DEF GetOrderById, storeVars
<1>. QED
  BY <1>2, <1>3, <1>4 DEF OrderStep

\* StoreInv holds in every state, whatever the users do meanwhile.
THEOREM StoreInvariant == Spec => []StoreInv
<1>1. StoreInv /\ UNCHANGED storeVars => StoreInv'
  BY DEF storeVars, StoreInv, StoreTypes, IdsCoherent, IsMap
<1>2. StoreInv /\ [Next]_vars => StoreInv'
  BY <1>1, PetStepInv, OrderStepInv DEF Next, vars
<1>. QED
  BY <1>2, StoreInit, PTL DEF Spec

\* A stored Id names its own key, or is the pointer to a counter that has reached the
\* key (handlers.go:24-27, 37 and 209-212, 234).
THEOREM StoredIdsCoherent == Spec => []IdsCoherent
<1>1. StoreInv => IdsCoherent
  BY DEF StoreInv
<1>. QED
  BY <1>1, StoreInvariant, PTL

\* The step behind AutomaticIdsDistinct: the counter is past every key it has given.
Fresh ==
  /\ resp'.op = "AddPet" /\ resp'.code = 200 /\ pets'[resp'.at].id = Alias
     => ~(resp'.at \in DOMAIN pets /\ pets[resp'.at].id = Alias)
  /\ resp'.op = "PlaceOrder" /\ resp'.code = 200 /\ orders'[resp'.at].id = Alias
     => ~(resp'.at \in DOMAIN orders /\ orders[resp'.at].id = Alias)

\* Each handler numbers afresh or not at all.
LEMMA FreshStep == StoreInv /\ [Next]_vars => [Fresh]_vars
<1>. SUFFICES ASSUME StoreInv, Next PROVE Fresh
  OBVIOUS
<1>. USE StoreAssumption
<1>1. ASSUME NEW id \in ClientPetIds \cup {None}, NEW status \in Statuses \cup {None},
             NEW ok \in BOOLEAN, AddPet(id, status, ok)
      PROVE  Fresh
  <2>1. CASE ~ok
    BY <1>1, <2>1 DEF AddPet, Reply, Response, Fresh
  <2>2. CASE ok
    <3>. DEFINE ptr == IF id = None THEN Alias ELSE id
                key == Deref(ptr, nextPetID')
    <3>1. /\ pets' = Put(pets, key, [id |-> ptr, status |-> status])
          /\ resp' = [op |-> "AddPet", at |-> key, code |-> 200, shown |-> key]
          /\ nextPetID' = IF id = None THEN nextPetID + 1 ELSE nextPetID
      BY <1>1, <2>2 DEF AddPet, Response
    <3>2. pets'[key].id = ptr
      BY <3>1 DEF Put
    <3>3. ptr = Alias => key = nextPetID + 1
      BY <3>1 DEF Deref, PetIds
    <3>4. ptr = Alias => ~(key \in DOMAIN pets /\ pets[key].id = Alias)
      <4>1. nextPetID \in Int /\ Alias \notin Int
        BY DEF StoreInv, StoreTypes, PetIds
      <4>. HIDE DEF ptr, key
      <4>. QED
        BY <3>3, <4>1 DEF StoreInv, IdsCoherent
    <3>. HIDE DEF ptr, key
    <3>. QED
      BY <3>1, <3>2, <3>4 DEF Fresh
  <2>. QED
    BY <2>1, <2>2
<1>2. ASSUME NEW id \in ClientOrderIds \cup {None}, NEW petId \in PetIds \cup {None},
             PlaceOrder(id, petId)
      PROVE  Fresh
  <2>1. CASE Reply("PlaceOrder", None, 400)
    BY <2>1 DEF Reply, Response, Fresh
  <2>2. CASE petId = None \/ petId \in DOMAIN pets
    <3>. DEFINE ptr == IF id = None THEN Alias ELSE id
                key == Deref(ptr, nextOrderID')
    <3>1. /\ orders' = Put(orders, key, [id |-> ptr, petId |-> petId])
          /\ resp' = [op |-> "PlaceOrder", at |-> key, code |-> 200, shown |-> key]
          /\ nextOrderID' = IF id = None THEN nextOrderID + 1 ELSE nextOrderID
      BY <1>2, <2>2 DEF PlaceOrder, Response
    <3>2. orders'[key].id = ptr
      BY <3>1 DEF Put
    <3>3. ptr = Alias => key = nextOrderID + 1
      BY <3>1 DEF Deref, OrderIds
    <3>4. ptr = Alias => ~(key \in DOMAIN orders /\ orders[key].id = Alias)
      <4>1. nextOrderID \in Int /\ Alias \notin Int
        BY DEF StoreInv, StoreTypes, OrderIds
      <4>. HIDE DEF ptr, key
      <4>. QED
        BY <3>3, <4>1 DEF StoreInv, IdsCoherent
    <3>. HIDE DEF ptr, key
    <3>. QED
      BY <3>1, <3>2, <3>4 DEF Fresh
  <2>. QED
    BY <1>2, <2>1, <2>2 DEF PlaceOrder
<1>3. ASSUME NEW op, NEW at, NEW code, NEW shown, op \notin {"AddPet", "PlaceOrder"},
             resp' = Response(op, at, code, shown)
      PROVE  Fresh
  BY <1>3 DEF Response, Fresh
<1>4. CASE PetStep
  <2>1. ASSUME NEW id, NEW status, UpdatePet(id, status) PROVE Fresh
    BY <1>3, <2>1 DEF UpdatePet, Reply
  <2>2. ASSUME NEW k, DeletePet(k) PROVE Fresh
    BY <1>3, <2>2 DEF DeletePet, Reply
  <2>3. ASSUME NEW k, GetPetById(k) PROVE Fresh
    BY <1>3, <2>3 DEF GetPetById, Reply
  <2>4. ASSUME NEW k, NEW status, UpdatePetWithForm(k, status) PROVE Fresh
    BY <1>3, <2>4 DEF UpdatePetWithForm, Reply
  <2>5. ASSUME NEW k, NEW hasFile, UploadFile(k, hasFile) PROVE Fresh
    BY <1>3, <2>5 DEF UploadFile, Reply
  <2>. QED
    BY <1>1, <1>4, <2>1, <2>2, <2>3, <2>4, <2>5 DEF PetStep
<1>5. CASE OrderStep
  <2>1. ASSUME NEW id, DeleteOrder(id) PROVE Fresh
    BY <1>3, <2>1 DEF DeleteOrder, Reply
  <2>2. ASSUME NEW k, GetOrderById(k) PROVE Fresh
    BY <1>3, <2>2 DEF GetOrderById, Reply
  <2>. QED
    BY <1>2, <1>5, <2>1, <2>2 DEF OrderStep
<1>6. CASE UserStep
  <2>1. ASSUME NEW u, CreateUser(u) PROVE Fresh
    BY <1>3, <2>1 DEF CreateUser, Reply
  <2>2. ASSUME NEW n, NEW u, UpdateUser(n, u) PROVE Fresh
    BY <1>3, <2>2 DEF UpdateUser, Reply
  <2>3. ASSUME NEW array, CreateUsersWithArrayInput(array) PROVE Fresh
    BY <1>3, <2>3 DEF CreateUsersWithArrayInput, Reply
  <2>4. ASSUME NEW op \in {"CreateUser", "CreateUsersWithArrayInput"}, BadBody(op)
        PROVE  Fresh
    BY <1>3, <2>4 DEF BadBody, Reply
  <2>5. ASSUME NEW n, DeleteUser(n) PROVE Fresh
    BY <1>3, <2>5 DEF DeleteUser, Reply
  <2>6. ASSUME NEW n, GetUserByName(n) PROVE Fresh
    BY <1>3, <2>6 DEF GetUserByName, Reply
  <2>7. ASSUME NEW n, NEW password, LoginUser(n, password) PROVE Fresh
    BY <1>3, <2>7 DEF LoginUser, Reply
  <2>8. CASE LogoutUser
    BY <1>3, <2>8 DEF LogoutUser, Reply
  <2>. QED
    BY <1>6, <2>1, <2>2, <2>3, <2>4, <2>5, <2>6, <2>7, <2>8 DEF UserStep
<1>. QED
  BY <1>4, <1>5, <1>6 DEF Next

\* No automatic id is given twice while its first holder is in the store, for any
\* sequence of requests (handlers.go:24-27, 209-212).
THEOREM NoIdGivenTwice == Spec => AutomaticIdsDistinct
<1>1. StoreInv /\ [Next]_vars => [Fresh]_vars
  BY FreshStep
<1>. QED
  BY <1>1, StoreInvariant, PTL DEF Spec, AutomaticIdsDistinct, Fresh

\* What OrphansComeFromDeletePet says of one step.
NoOrphanBorn ==
  \A o \in DOMAIN orders' :
    LET p == orders'[o].petId
    IN p # None /\ p \notin DOMAIN pets' =>
         \/ o \in DOMAIN orders /\ orders[o].petId = p /\ p \notin DOMAIN pets
         \/ resp'.op = "DeletePet" /\ resp'.at = p

\* No handler but DeletePet leaves an order without its pet (handlers.go:14-265).
LEMMA OrphanStep == ASSUME Next PROVE NoOrphanBorn
<1>1. CASE orders' = orders /\ DOMAIN pets \subseteq DOMAIN pets'
  BY <1>1 DEF NoOrphanBorn
<1>2. CASE PetStep
  <2>1. ASSUME NEW id, NEW status, NEW ok, AddPet(id, status, ok) PROVE NoOrphanBorn
    BY <1>1, <2>1 DEF AddPet, Put
  <2>2. ASSUME NEW id, NEW status, UpdatePet(id, status) PROVE NoOrphanBorn
    BY <1>1, <2>2 DEF UpdatePet, Put
  <2>3. ASSUME NEW k, DeletePet(k) PROVE NoOrphanBorn
    <3>1. orders' = orders /\ resp'.op = "DeletePet" /\ resp'.at = k
      BY <2>3 DEF DeletePet, Reply, Response
    <3>2. DOMAIN pets \ {k} \subseteq DOMAIN pets'
      BY <2>3 DEF DeletePet, Delete
    <3>. QED
      BY <3>1, <3>2 DEF NoOrphanBorn
  <2>4. ASSUME NEW k, NEW status, UpdatePetWithForm(k, status) PROVE NoOrphanBorn
    BY <1>1, <2>4 DEF UpdatePetWithForm, Put
  <2>5. ASSUME NEW k, NEW hasFile, GetPetById(k) \/ UploadFile(k, hasFile) PROVE NoOrphanBorn
    BY <1>1, <2>5 DEF GetPetById, UploadFile
  <2>. QED
    BY <1>2, <2>1, <2>2, <2>3, <2>4, <2>5 DEF PetStep
<1>3. CASE OrderStep
  <2>1. ASSUME NEW id, NEW petId, PlaceOrder(id, petId) PROVE NoOrphanBorn
    <3>1. pets' = pets
      BY <2>1 DEF PlaceOrder
    <3>2. CASE orders' = orders
      BY <1>1, <3>1, <3>2
    <3>3. ASSUME NEW key, NEW ptr, petId = None \/ petId \in DOMAIN pets,
                 orders' = Put(orders, key, [id |-> ptr, petId |-> petId])
          PROVE  NoOrphanBorn
      <4>1. /\ DOMAIN orders' = DOMAIN orders \cup {key}
            /\ orders'[key].petId = petId
            /\ \A o \in DOMAIN orders \ {key} : orders'[o] = orders[o]
        BY <3>3 DEF Put
      <4>. QED
        BY <3>1, <3>3, <4>1 DEF NoOrphanBorn
    <3>. QED
      BY <2>1, <3>2, <3>3 DEF PlaceOrder
  <2>2. ASSUME NEW id, DeleteOrder(id) PROVE NoOrphanBorn
    <3>1. pets' = pets
      BY <2>2 DEF DeleteOrder
    <3>2. DOMAIN orders' \subseteq DOMAIN orders /\ \A o \in DOMAIN orders' : orders'[o] = orders[o]
      BY <2>2 DEF DeleteOrder, Delete
    <3>. QED
      BY <3>1, <3>2 DEF NoOrphanBorn
  <2>3. ASSUME NEW k, GetOrderById(k) PROVE NoOrphanBorn
    BY <1>1, <2>3 DEF GetOrderById
  <2>. QED
    BY <1>3, <2>1, <2>2, <2>3 DEF OrderStep
<1>4. CASE UNCHANGED storeVars
  BY <1>1, <1>4 DEF storeVars
<1>. QED
  BY <1>2, <1>3, <1>4 DEF Next

\* Whatever the requests and the bounds, an order loses its pet by DeletePet of that pet
\* and by nothing else (handlers.go:116, 228-232).
THEOREM OrphansOnlyByDeletePet == Spec => OrphansComeFromDeletePet
<1>1. [Next]_vars => [NoOrphanBorn]_vars
  BY OrphanStep
<1>. QED
  BY <1>1, PTL DEF Spec, OrphansComeFromDeletePet, NoOrphanBorn
-----------------------------------------------------------------------------
(* Users. *)

\* Induction over the natural numbers for a set T.
LEMMA Induction ==
  ASSUME NEW T, 0 \in T, \A i \in Nat : i \in T => i + 1 \in T
  PROVE  Nat \subseteq T
<1>. SUFFICES ASSUME Nat \ T # {} PROVE FALSE
  OBVIOUS
<1>1. IsWellFoundedOn(OpToRel(<, Nat), Nat)
  BY NatLessThanWellFounded
<1>2. PICK x \in Nat \ T : \A y \in Nat \ T : ~(<<y, x>> \in OpToRel(<, Nat))
  <2>1. Nat \ T \subseteq Nat
    OBVIOUS
  <2>. QED
    BY <1>1, <2>1, WFMin
<1>3. \A y \in Nat \ T : ~(y < x)
  BY <1>2, Zenon DEF OpToRel
<1>4. x \in Nat /\ x # 0
  BY <1>2, Zenon
<1>5. x - 1 \in Nat /\ x - 1 < x /\ (x - 1) + 1 = x
  BY <1>4
<1>. QED
  BY <1>3, <1>4, <1>5

\* One round of the loop of CreateUsersWithArrayInput (handlers.go:299-303): the users
\* m[i] after i rounds.
Round(array, m, i) ==
  IF i = 0 THEN users
  ELSE IF array[i].username = None THEN m[i - 1]
  ELSE Store(m[i - 1], array[i])

\* The rounds of the loop exist for every array.
LEMMA RoundsExist ==
  ASSUME NEW array, NEW L \in Nat
  PROVE  \E m : m = [i \in 0..L |-> Round(array, m, i)]
<1>. DEFINE T == {n \in Nat : \E m : m = [i \in 0..n |-> Round(array, m, i)]}
<1>1. 0 \in T
  <2>1. [i \in 0..0 |-> users] = [i \in 0..0 |-> Round(array, [j \in 0..0 |-> users], i)]
    BY DEF Round
  <2>. QED
    BY <2>1
<1>2. ASSUME NEW n \in Nat, n \in T PROVE n + 1 \in T
  <2>1. PICK m : m = [i \in 0..n |-> Round(array, m, i)]
    BY <1>2
  <2>. DEFINE f == [i \in 0..(n + 1) |-> IF i = n + 1 THEN Round(array, m, i) ELSE m[i]]
  <2>2. ASSUME NEW i \in 0..(n + 1) PROVE f[i] = Round(array, f, i)
    <3>1. CASE i = n + 1
      <4>1. i - 1 \in 0..(n + 1) /\ i - 1 # n + 1 /\ i # 0
        BY <3>1
      <4>2. f[i - 1] = m[i - 1] /\ f[i] = Round(array, m, i)
        BY <3>1, <4>1
      <4>. QED
        BY <4>1, <4>2 DEF Round
    <3>2. CASE i # n + 1
      <4>1. i \in 0..n /\ (i = 0 \/ (i - 1 \in 0..(n + 1) /\ i - 1 # n + 1))
        BY <3>2
      <4>2. f[i] = m[i] /\ (i = 0 \/ f[i - 1] = m[i - 1])
        BY <3>2, <4>1
      <4>3. m[i] = Round(array, m, i)
        BY <2>1, <4>1
      <4>. QED
        BY <4>2, <4>3 DEF Round
    <3>. QED
      BY <3>1, <3>2
  <2>3. f = [i \in 0..(n + 1) |-> Round(array, f, i)]
    BY <2>2
  <2>. HIDE DEF f
  <2>. QED
    BY <2>3
<1>3. Nat \subseteq T
  <2>. HIDE DEF T
  <2>. QED
    BY <1>1, <1>2, Induction
<1>. QED
  BY <1>3

\* The users after i rounds: those that were there and those named so far, each the last
\* of its name or the one from before.
AfterRounds(array, after, i) ==
  LET at(n) == {j \in 1..i : array[j].username = n}
  IN /\ after = [n \in DOMAIN after |-> after[n]]
     /\ DOMAIN after = DOMAIN users \cup {n \in Names : at(n) # {}}
     /\ \A n \in DOMAIN after :
          \/ at(n) = {} /\ after[n] = users[n]
          \/ \E j \in at(n) : (\A k \in at(n) : k <= j) /\ after[n] = array[j]

\* An array leaves, for every name, the last of its users with that name, over the user
\* that was there before (handlers.go:299-303).
LEMMA LastOfEachName ==
  ASSUME NEW L \in Nat, NEW array \in [1..L -> User], UsersTypeOK, NEW m,
         m = [i \in 0..L |-> Round(array, m, i)]
  PROVE  AfterRounds(array, m[L], L)
<1>. DEFINE T == {i \in Nat : i <= L => AfterRounds(array, m[i], i)}
<1>1. 0 \in T
  <2>1. m[0] = users
    BY DEF Round
  <2>. QED
    BY <2>1 DEF AfterRounds, UsersTypeOK
<1>2. ASSUME NEW i \in Nat, i \in T PROVE i + 1 \in T
  <2>. SUFFICES ASSUME i + 1 <= L PROVE AfterRounds(array, m[i + 1], i + 1)
    OBVIOUS
  <2>. DEFINE at(n) == {j \in 1..i : array[j].username = n}
              to(n) == {j \in 1..(i + 1) : array[j].username = n}
              u == array[i + 1]
  <2>1. AfterRounds(array, m[i], i)
    BY <1>2
  <2>1a. m[i] = [n \in DOMAIN m[i] |-> m[i][n]]
    BY <2>1 DEF AfterRounds
  <2>2. /\ DOMAIN m[i] = DOMAIN users \cup {n \in Names : at(n) # {}}
        /\ \A n \in DOMAIN m[i] :
             \/ at(n) = {} /\ m[i][n] = users[n]
             \/ \E j \in at(n) : (\A k \in at(n) : k <= j) /\ m[i][n] = array[j]
    BY <2>1, Zenon DEF AfterRounds
  <2>3. u \in User /\ u.username \in Names \cup {None}
    <3>1. i + 1 \in 1..L
      OBVIOUS
    <3>. QED
      BY <3>1 DEF User
  <2>4. m[i + 1] = IF u.username = None THEN m[i] ELSE Store(m[i], u)
    <3>1. i + 1 \in 0..L /\ i + 1 # 0 /\ (i + 1) - 1 = i
      OBVIOUS
    <3>. QED
      BY <3>1 DEF Round
  <2>5. \A n : to(n) = IF u.username = n THEN at(n) \cup {i + 1} ELSE at(n)
    OBVIOUS
  <2>6. \A n : \A j \in at(n) : j \in Nat /\ j <= i + 1
    OBVIOUS
  <2>. HIDE DEF at, to
  <2>7. \A n \in DOMAIN m[i] : n \in Names /\ n # None
    BY <2>2, UsersAssumption, Zenon DEF UsersTypeOK
  <2>8. CASE u.username = None
    <3>1. m[i + 1] = m[i] /\ \A n \in Names : to(n) = at(n)
      BY <2>4, <2>5, <2>8, UsersAssumption
    <3>2. DOMAIN m[i] = DOMAIN users \cup {n \in Names : to(n) # {}}
      BY <2>2, <3>1, SMTT(30)
    <3>3. \A n \in DOMAIN m[i] :
             \/ to(n) = {} /\ m[i][n] = users[n]
             \/ \E j \in to(n) : (\A k \in to(n) : k <= j) /\ m[i][n] = array[j]
      BY <2>2, <2>7, <3>1, SMTT(30)
    <3>4. AfterRounds(array, m[i], i + 1)
      BY <2>1a, <3>2, <3>3, Zenon DEF AfterRounds, to
    <3>. QED
      BY <3>1, <3>4
  <2>9. CASE u.username # None
    <3>1. /\ DOMAIN m[i + 1] = DOMAIN m[i] \cup {u.username}
          /\ m[i + 1][u.username] = u
          /\ \A n \in DOMAIN m[i] \ {u.username} : m[i + 1][n] = m[i][n]
      BY <2>4, <2>9, Zenon DEF Store
    <3>2. u.username \in Names
      BY <2>3, <2>9
    <3>3. DOMAIN m[i + 1] = DOMAIN users \cup {n \in Names : to(n) # {}}
      BY <2>2, <2>5, <3>1, <3>2, Zenon
    <3>4. ASSUME NEW n \in DOMAIN m[i + 1]
          PROVE  \/ to(n) = {} /\ m[i + 1][n] = users[n]
                 \/ \E j \in to(n) : (\A k \in to(n) : k <= j) /\ m[i + 1][n] = array[j]
      <4>1. CASE n = u.username
        <5>1. to(n) = at(n) \cup {i + 1} /\ m[i + 1][n] = array[i + 1]
          BY <2>5, <3>1, <4>1
        <5>2. \A k \in to(n) : k <= i + 1
          BY <2>6, <5>1
        <5>. QED
          BY <5>1, <5>2
      <4>2. CASE n # u.username
        BY <2>2, <2>5, <3>1, <4>2, Zenon
      <4>. QED
        BY <4>1, <4>2
    <3>5. m[i + 1] = [n \in DOMAIN m[i + 1] |-> m[i + 1][n]]
      BY <2>4, <2>9, Zenon DEF Store
    <3>. QED
      BY <3>3, <3>4, <3>5, Zenon DEF AfterRounds, to
  <2>. QED
    BY <2>8, <2>9
<1>3. Nat \subseteq T
  <2>. HIDE DEF T
  <2>. QED
    BY <1>1, <1>2, Induction
<1>. QED
  BY <1>3

\* StoreNamed is the last round of the loop.
LEMMA StoreNamedRounds ==
  ASSUME UsersTypeOK, NEW array \in Arrays
  PROVE  /\ Len(array) \in Nat /\ array \in [1..Len(array) -> User]
         /\ AfterRounds(array, StoreNamed(array), Len(array))
<1>1. Len(array) \in Nat /\ array \in [1..Len(array) -> User]
  <2>1. PICK n \in 0..MaxArray : array \in [1..n -> User]
    BY DEF Arrays
  <2>2. n \in Nat
    BY UsersAssumption
  <2>. QED
    BY <2>1, <2>2
<1>2. PICK m : /\ m = [i \in 0..Len(array) |-> Round(array, m, i)]
               /\ StoreNamed(array) = m[Len(array)]
  <2>1. \E m : m = [i \in 0..Len(array) |-> Round(array, m, i)]
    BY <1>1, RoundsExist, Zenon
  <2>. QED
    BY <2>1, Zenon DEF StoreNamed, Round
<1>3. AfterRounds(array, m[Len(array)], Len(array))
  BY <1>1, <1>2, LastOfEachName
<1>. QED
  BY <1>1, <1>2, <1>3

UserInv == UsersTypeOK /\ UsernamesCoherent

\* Every writer of the users keeps them under their own names (handlers.go:286, 301,
\* 355-386).
LEMMA UserStepInv == ASSUME UserInv, UserStep PROVE UserInv'
<1>. USE UsersAssumption
<1>0. /\ \A n \in DOMAIN users : users[n] \in User /\ n \in Names
      /\ users = [n \in DOMAIN users |-> users[n]]
      /\ \A n \in DOMAIN users : users[n].username = n
  BY DEF UserInv, UsersTypeOK, UsernamesCoherent
<1>1. CASE UNCHANGED users
  BY <1>1 DEF UserInv, UsersTypeOK, UsernamesCoherent
<1>2. ASSUME users' = [n \in DOMAIN users' |-> users'[n]],
             \A n \in DOMAIN users' :
               n \in Names /\ users'[n] \in User /\ users'[n].username = n
      PROVE  UserInv'
  BY <1>2 DEF UserInv, UsersTypeOK, UsernamesCoherent
<1>3. ASSUME NEW u \in User, CreateUser(u) PROVE UserInv'
  <2>1. CASE u.username # None /\ users' = Store(users, u)
    <3>1. u.username \in Names
      BY <2>1 DEF User
    <3>2. /\ DOMAIN users' = DOMAIN users \cup {u.username}
          /\ users'[u.username] = u
          /\ \A n \in DOMAIN users \ {u.username} : users'[n] = users[n]
          /\ users' = [n \in DOMAIN users' |-> users'[n]]
      BY <2>1 DEF Store
    <3>. QED
      BY <1>0, <1>2, <3>1, <3>2
  <2>. QED
    BY <1>1, <1>3, <2>1 DEF CreateUser
<1>4. ASSUME NEW n \in Names, NEW u \in User, UpdateUser(n, u) PROVE UserInv'
  <2>1. CASE n \in DOMAIN users /\ users' = [users EXCEPT ![n] = [u EXCEPT !.username = n]]
    <3>1. [u EXCEPT !.username = n] \in User /\ [u EXCEPT !.username = n].username = n
      BY DEF User
    <3>2. /\ DOMAIN users' = DOMAIN users
          /\ users'[n] = [u EXCEPT !.username = n]
          /\ \A k \in DOMAIN users \ {n} : users'[k] = users[k]
          /\ users' = [k \in DOMAIN users' |-> users'[k]]
      BY <1>0, <2>1, Zenon
    <3>. QED
      BY <1>0, <1>2, <3>1, <3>2, Zenon
  <2>. QED
    BY <1>1, <1>4, <2>1 DEF UpdateUser
<1>5. ASSUME NEW array \in Arrays, CreateUsersWithArrayInput(array) PROVE UserInv'
  <2>1. /\ Len(array) \in Nat /\ array \in [1..Len(array) -> User]
        /\ AfterRounds(array, users', Len(array))
    BY <1>5, StoreNamedRounds DEF UserInv, CreateUsersWithArrayInput
  <2>2. ASSUME NEW n \in DOMAIN users'
        PROVE  n \in Names /\ users'[n] \in User /\ users'[n].username = n
    <3>. DEFINE at == {i \in 1..Len(array) : array[i].username = n}
    <3>1. CASE at = {}
      BY <1>0, <2>1, <2>2, <3>1 DEF AfterRounds
    <3>2. CASE at # {}
      <4>1. PICK i \in at : users'[n] = array[i]
        BY <2>1, <3>2 DEF AfterRounds
      <4>2. array[i] \in User /\ array[i].username = n
        BY <2>1, <4>1
      <4>3. n \in Names
        BY <1>0, <2>1 DEF AfterRounds
      <4>. QED
        BY <4>1, <4>2, <4>3
    <3>. QED
      BY <3>1, <3>2
  <2>3. users' = [n \in DOMAIN users' |-> users'[n]]
    BY <2>1 DEF AfterRounds
  <2>. QED
    BY <1>2, <2>2, <2>3
<1>6. ASSUME NEW n \in Names, DeleteUser(n) PROVE UserInv'
  <2>1. CASE users' = [m \in DOMAIN users \ {n} |-> users[m]]
    BY <1>0, <1>2, <2>1
  <2>. QED
    BY <1>1, <1>6, <2>1 DEF DeleteUser
<1>7. ASSUME NEW n, GetUserByName(n) PROVE UserInv'
  BY <1>1, <1>7 DEF GetUserByName
<1>8. ASSUME NEW n, NEW password, LoginUser(n, password) PROVE UserInv'
  BY <1>1, <1>8 DEF LoginUser
<1>9. ASSUME NEW op, LogoutUser \/ BadBody(op) PROVE UserInv'
  BY <1>1, <1>9 DEF LogoutUser, BadBody
<1>. QED
  BY <1>3, <1>4, <1>5, <1>6, <1>7, <1>8, <1>9 DEF UserStep

\* UserInv holds in every state, whatever happens to pets and orders meanwhile.
THEOREM UsersInvariant == Spec => []UserInv
<1>1. Init => UserInv
  <2>. SUFFICES ASSUME Init PROVE UserInv
    OBVIOUS
  <2>1. users = [n \in {"john_doe"} |-> [username |-> n, password |-> "password123"]]
    BY DEF Init, UsersInit
  <2>2. /\ DOMAIN users = {"john_doe"} /\ users["john_doe"].username = "john_doe"
        /\ users["john_doe"] \in User
    BY <2>1, UsersAssumption DEF User
  <2>. QED
    BY <2>1, <2>2, UsersAssumption DEF UserInv, UsersTypeOK, UsernamesCoherent
<1>2. UserInv /\ UNCHANGED users => UserInv'
  BY DEF UserInv, UsersTypeOK, UsernamesCoherent
<1>3. UserInv /\ [Next]_vars => UserInv'
  BY <1>2, UserStepInv DEF Next, vars
<1>. QED
  BY <1>1, <1>3, PTL DEF Spec

\* The user stored under a name carries that name, for every set of names and arrays of
\* every length (handlers.go:286, 301, 384-386).
THEOREM UsersUnderTheirNames == Spec => []UsernamesCoherent
<1>1. UserInv => UsernamesCoherent
  BY DEF UserInv
<1>. QED
  BY <1>1, UsersInvariant, PTL

\* What OnlyNamedUsersChange says of one step.
NamedChange ==
  IF resp'.op = "CreateUsersWithArrayInput" /\ resp'.code = 200
  THEN LET array == resp'.at
           at(n) == {i \in 1..Len(array) : array[i].username = n}
       IN /\ DOMAIN users' = DOMAIN users \cup {n \in Names : at(n) # {}}
          /\ \A n \in DOMAIN users' :
               \/ at(n) = {} /\ users'[n] = users[n]
               \/ \E i \in at(n) : /\ \A j \in at(n) : j <= i
                                   /\ users'[n] = array[i]
  ELSE \A n \in DOMAIN users :
         n \notin DOMAIN users' \/ users'[n] # users[n] =>
           resp'.op \in {"DeleteUser", "UpdateUser"} /\ resp'.at = n

\* Each request, of pets and orders too, touches the users it names and no other.
LEMMA NamedStep == ASSUME UserInv, Next PROVE NamedChange
<1>1. ASSUME NEW op, NEW at, NEW code, NEW shown,
             op # "CreateUsersWithArrayInput" \/ code # 200,
             resp' = Response(op, at, code, shown),
             \A n \in DOMAIN users : n \in DOMAIN users' /\ users'[n] = users[n]
      PROVE  NamedChange
  BY <1>1 DEF NamedChange, Response
<1>2. CASE PetStep /\ UNCHANGED users
  <2>1. ASSUME NEW id, NEW status, NEW ok, AddPet(id, status, ok) PROVE NamedChange
    BY <1>1, <1>2, <2>1 DEF AddPet, Reply
  <2>2. ASSUME NEW id, NEW status, UpdatePet(id, status) PROVE NamedChange
    BY <1>1, <1>2, <2>2 DEF UpdatePet, Reply
  <2>3. ASSUME NEW k, DeletePet(k) PROVE NamedChange
    BY <1>1, <1>2, <2>3 DEF DeletePet, Reply
  <2>4. ASSUME NEW k, NEW status, UpdatePetWithForm(k, status) PROVE NamedChange
    BY <1>1, <1>2, <2>4 DEF UpdatePetWithForm, Reply
  <2>5. ASSUME NEW k, NEW hasFile, GetPetById(k) \/ UploadFile(k, hasFile) PROVE NamedChange
    BY <1>1, <1>2, <2>5 DEF GetPetById, UploadFile, Reply
  <2>. QED
    BY <1>2, <2>1, <2>2, <2>3, <2>4, <2>5 DEF PetStep
<1>3. CASE OrderStep /\ UNCHANGED users
  <2>1. ASSUME NEW id, NEW petId, PlaceOrder(id, petId) PROVE NamedChange
    BY <1>1, <1>3, <2>1 DEF PlaceOrder, Reply
  <2>2. ASSUME NEW id, DeleteOrder(id) PROVE NamedChange
    BY <1>1, <1>3, <2>2 DEF DeleteOrder, Reply
  <2>3. ASSUME NEW k, GetOrderById(k) PROVE NamedChange
    BY <1>1, <1>3, <2>3 DEF GetOrderById, Reply
  <2>. QED
    BY <1>3, <2>1, <2>2, <2>3 DEF OrderStep
<1>4. CASE UserStep
  <2>1. ASSUME NEW u, CreateUser(u) PROVE NamedChange
    BY <1>1, <2>1 DEF CreateUser, Reply, Store
  <2>2. ASSUME NEW n, NEW u, UpdateUser(n, u) PROVE NamedChange
    <3>1. CASE UNCHANGED users
      BY <1>1, <2>2, <3>1 DEF UpdateUser, Reply
    <3>2. CASE users' = [users EXCEPT ![n] = [u EXCEPT !.username = n]]
      <4>1. DOMAIN users' = DOMAIN users /\ \A k \in DOMAIN users \ {n} : users'[k] = users[k]
        BY <3>2 DEF UserInv, UsersTypeOK
      <4>2. resp'.op = "UpdateUser" /\ resp'.at = n
        BY <2>2 DEF UpdateUser, Reply, Response
      <4>. QED
        BY <4>1, <4>2 DEF NamedChange
    <3>. QED
      BY <2>2, <3>1, <3>2 DEF UpdateUser
  <2>3. ASSUME NEW array \in Arrays, CreateUsersWithArrayInput(array) PROVE NamedChange
    <3>1. /\ resp'.op = "CreateUsersWithArrayInput" /\ resp'.code = 200 /\ resp'.at = array
          /\ users' = StoreNamed(array)
      BY <2>3 DEF CreateUsersWithArrayInput, Reply, Response
    <3>2. AfterRounds(array, users', Len(array))
      BY <3>1, StoreNamedRounds DEF UserInv
    <3>. QED
      BY <3>1, <3>2 DEF NamedChange, AfterRounds
  <2>4. ASSUME NEW op, BadBody(op) PROVE NamedChange
    BY <1>1, <2>4 DEF BadBody, Reply
  <2>5. ASSUME NEW n, DeleteUser(n) PROVE NamedChange
    <3>1. resp'.op = "DeleteUser" /\ resp'.at = n
      BY <2>5 DEF DeleteUser, Reply, Response
    <3>2. \A k \in DOMAIN users \ {n} : k \in DOMAIN users' /\ users'[k] = users[k]
      BY <2>5 DEF DeleteUser
    <3>. QED
      BY <3>1, <3>2 DEF NamedChange
  <2>6. ASSUME NEW n, NEW password, GetUserByName(n) \/ LoginUser(n, password) \/ LogoutUser
        PROVE  NamedChange
    BY <1>1, <2>6 DEF GetUserByName, LoginUser, LogoutUser, Reply
  <2>. QED
    BY <1>4, <2>1, <2>2, <2>3, <2>4, <2>5, <2>6 DEF UserStep
<1>. QED
  BY <1>2, <1>3, <1>4 DEF Next

\* For arrays of every length: a stored user changes or disappears only by a request that
\* names it, and an array leaves the last of its users with each name (handlers.go:282-303,
\* 313-341, 355-386).
THEOREM UsersChangeByName == Spec => OnlyNamedUsersChange
<1>1. UserInv /\ [Next]_vars => [NamedChange]_<<users, resp>>
  BY NamedStep DEF vars
<1>. QED
  BY <1>1, UsersInvariant, PTL DEF Spec, OnlyNamedUsersChange, NamedChange

\* The inventory and the search by status agree for every set of statuses, and every
\* variable keeps its type (handlers.go:72-79, 189-194).
THEOREM InventoryAgrees == Spec => []InventoryMatchesSearch
<1>1. ASSUME StoreInv, UserInv PROVE InventoryMatchesSearch
  <2>1. TypeOK
    BY <1>1 DEF StoreInv, StoreTypes, UserInv, TypeOK
  <2>2. ASSUME NEW s \in Statuses
        PROVE  Cardinality(FindPetsByStatus({s})) =
                 IF s \in DOMAIN GetInventory THEN GetInventory[s] ELSE 0
    <3>1. s # None
      BY StoreAssumption
    <3>2. FindPetsByStatus({s}) = {k \in DOMAIN pets : pets[k].status = s}
      BY <3>1 DEF FindPetsByStatus
    <3>3. CASE s \in DOMAIN GetInventory
      BY <3>2, <3>3, Zenon DEF GetInventory
    <3>4. CASE s \notin DOMAIN GetInventory
      <4>1. {k \in DOMAIN pets : pets[k].status = s} = {}
        BY <3>1, <3>4 DEF GetInventory
      <4>. QED
        BY <3>2, <3>4, <4>1, FS_EmptySet, Zenon
    <3>. QED
      BY <3>3, <3>4
  <2>. QED
    BY <2>1, <2>2 DEF InventoryMatchesSearch
<1>. QED
  BY <1>1, StoreInvariant, UsersInvariant, PTL
==============================================================================
