---------------------------- MODULE PetStoreLock ----------------------------
(***************************************************************************)
(* The lock of k8s/example-pod: concurrent requests, each in a goroutine   *)
(* of its own, around `mu sync.RWMutex` (main.go:22).  A handler takes its *)
(* lock, if any, in its first statement and gives it back when it returns: *)
(* it is "inside" from then until it returns, reads the body of its        *)
(* request there, and may touch the fields of the store at any point.      *)
(*                                                                         *)
(* sync.RWMutex, as Go implements it: a writer first takes the mutex of    *)
(* the writers and announces itself, then waits for the readers inside to  *)
(* leave; readers that come after the announcement wait; the writer's      *)
(* Unlock lets all of them in before another writer can announce itself.   *)
(***************************************************************************)
EXTENDS Naturals, FiniteSets

CONSTANTS Reqs,   \* the connections, each with one request at a time
          Ops,    \* the handlers that are requested
          Nobody  \* not in Reqs

\* CreateUsersWithListInput calls CreateUsersWithArrayInput and does nothing else.
PetHandlers == {"AddPet", "UpdatePet", "FindPetsByStatus", "FindPetsByTags", "DeletePet",
                "GetPetById", "UpdatePetWithForm", "UploadFile", "GetInventory"}
OrderHandlers == {"PlaceOrder", "DeleteOrder", "GetOrderById"}
UserHandlers == {"CreateUser", "CreateUsersWithArrayInput", "LoginUser", "LogoutUser",
                 "DeleteUser", "GetUserByName", "UpdateUser"}
Handlers == PetHandlers \cup OrderHandlers \cup UserHandlers

ASSUME LockAssumption == Nobody \notin Reqs /\ Ops \subseteq Handlers

\* The handlers that read a body, and those among them that may answer 404 before.
BodyOps  == {"AddPet", "UpdatePet", "UpdatePetWithForm", "UploadFile", "PlaceOrder",
             "CreateUser", "CreateUsersWithArrayInput", "UpdateUser"}
EarlyOps == {"UpdatePetWithForm", "UploadFile", "UpdateUser"}

\* Mutant: PlaceOrder, which looks a pet up, is taken for a reader.
LockOfLookup(o) ==
  CASE o \in {"AddPet", "UpdatePet", "DeletePet", "UpdatePetWithForm",
              "DeleteOrder", "CreateUser", "CreateUsersWithArrayInput", "DeleteUser",
              "UpdateUser"} -> "Lock"
    [] o = "LogoutUser" -> "none"
    [] OTHER -> "RLock"

\* The call on ps.mu with which a handler begins.
LockOf(o) ==
  CASE o \in {"AddPet", "UpdatePet", "DeletePet", "UpdatePetWithForm", "PlaceOrder",
              "DeleteOrder", "CreateUser", "CreateUsersWithArrayInput", "DeleteUser",
              "UpdateUser"} -> "Lock"
    [] o \in {"FindPetsByStatus", "FindPetsByTags", "GetPetById", "UploadFile",
              "GetInventory", "GetOrderById", "LoginUser", "GetUserByName"} -> "RLock"
    [] o = "LogoutUser" -> "none"

\* The fields of PetStore that a handler assigns ...
Writes(o) ==
  CASE o = "AddPet" -> {"pets", "nextPetID"}
    [] o \in {"UpdatePet", "UpdatePetWithForm", "DeletePet"} -> {"pets"}
    [] o = "PlaceOrder" -> {"orders", "nextOrderID"}
    [] o = "DeleteOrder" -> {"orders"}
    [] o \in {"CreateUser", "CreateUsersWithArrayInput", "DeleteUser", "UpdateUser"} ->
         {"users"}
    [] OTHER -> {}

\* ... and those that it reads.  Who writes out a stored pet or order follows its Id,
\* which may point to the counter (handlers.go:25, 210).
Reads(o) ==
  CASE o = "AddPet" -> {"nextPetID"}
    [] o \in {"FindPetsByStatus", "FindPetsByTags", "GetPetById"} -> {"pets", "nextPetID"}
    [] o \in {"UpdatePet", "UpdatePetWithForm", "DeletePet", "UploadFile", "GetInventory"} ->
         {"pets"}
    [] o = "PlaceOrder" -> {"pets", "nextOrderID"}
    [] o = "GetOrderById" -> {"orders", "nextOrderID"}
    [] o = "DeleteOrder" -> {"orders"}
    [] o \in {"CreateUser", "DeleteUser", "UpdateUser", "LoginUser", "GetUserByName"} ->
         {"users"}
    [] OTHER -> {}

VARIABLES op,      \* op[r]: the handler of r's request
          pc,      \* pc[r]: idle, ready, mutex, drain, blocked or inside
          body,    \* body[r]: the whole body, or the end of the connection, has come
          mutex,   \* the writer that holds the writers' mutex
          pending  \* a writer has announced itself

vars == <<op, pc, body, mutex, pending>>

TypeOK ==
  /\ op \in [Reqs -> Handlers]
  /\ pc \in [Reqs -> {"idle", "ready", "mutex", "drain", "blocked", "inside"}]
  /\ body \in [Reqs -> BOOLEAN]
  /\ mutex \in Reqs \cup {Nobody}
  /\ pending \in BOOLEAN

Init ==
  /\ op = [r \in Reqs |-> "LogoutUser"]
  /\ pc = [r \in Reqs |-> "idle"]
  /\ body = [r \in Reqs |-> FALSE]
  /\ mutex = Nobody
  /\ pending = FALSE

Inside(call) == {r \in Reqs : pc[r] = "inside" /\ LockOf(op[r]) = call}
-----------------------------------------------------------------------------
(* The clients. *)

\* The header of a request has come and net/http calls the handler.
Request(r, o) ==
  /\ pc[r] = "idle"
  /\ op' = [op EXCEPT ![r] = o]
  /\ pc' = [pc EXCEPT ![r] = "ready"]
  /\ body' = [body EXCEPT ![r] = o \notin BodyOps]
  /\ UNCHANGED <<mutex, pending>>

SendBody(r) ==
  /\ pc[r] # "idle" /\ ~body[r]
  /\ body' = [body EXCEPT ![r] = TRUE]
  /\ UNCHANGED <<op, pc, mutex, pending>>
-----------------------------------------------------------------------------
(* ps.mu. *)

RLock(r) ==
  /\ pc[r] = "ready" /\ LockOf(op[r]) = "RLock"
  /\ pc' = [pc EXCEPT ![r] = IF pending THEN "blocked" ELSE "inside"]
  /\ UNCHANGED <<op, body, mutex, pending>>

\* LogoutUser begins without a lock.
Begin(r) ==
  /\ pc[r] = "ready" /\ LockOf(op[r]) = "none"
  /\ pc' = [pc EXCEPT ![r] = "inside"]
  /\ UNCHANGED <<op, body, mutex, pending>>

\* Lock takes the writers' mutex, waiting in "mutex" while another has it ...
Lock(r) ==
  /\ pc[r] = "ready" /\ LockOf(op[r]) = "Lock"
  /\ pc' = [pc EXCEPT ![r] = "mutex"]
  /\ UNCHANGED <<op, body, mutex, pending>>

\* Mutant: Lock as a loop around TryLock, which comes in only when no reader is inside.
AnnounceIfFree(r) ==
  /\ pc[r] = "mutex" /\ mutex = Nobody /\ Inside("RLock") = {}
  /\ mutex' = r
  /\ pending' = TRUE
  /\ pc' = [pc EXCEPT ![r] = "drain"]
  /\ UNCHANGED <<op, body>>

\* ... announces the writer ...
Announce(r) ==
  /\ pc[r] = "mutex" /\ mutex = Nobody
  /\ mutex' = r
  /\ pending' = TRUE
  /\ pc' = [pc EXCEPT ![r] = "drain"]
  /\ UNCHANGED <<op, body>>

\* ... and waits for the readers inside to leave.
Enter(r) ==
  /\ pc[r] = "drain" /\ Inside("RLock") = {}
  /\ pc' = [pc EXCEPT ![r] = "inside"]
  /\ UNCHANGED <<op, body, mutex, pending>>

Unlock(r) ==
  /\ pc' = [q \in Reqs |-> CASE q = r -> "idle"
                             [] pc[q] = "blocked" -> "inside"
                             [] OTHER -> pc[q]]
  /\ mutex' = Nobody
  /\ pending' = FALSE

RUnlock(r) ==
  /\ pc' = [pc EXCEPT ![r] = "idle"]
  /\ UNCHANGED <<mutex, pending>>

\* What the return of a handler does to ps.mu: the deferred call, if there is one.
Release(r) ==
  \/ LockOf(op[r]) = "Lock" /\ Unlock(r)
  \/ LockOf(op[r]) # "Lock" /\ RUnlock(r)

\* A handler that reads a body waits for it with the lock held.
Return(r) ==
  /\ pc[r] = "inside" /\ body[r]
  /\ Release(r)
  /\ UNCHANGED <<op, body>>

\* Mutant: the early return of a handler that unlocks at its end and not by defer.
ReturnNotFoundLocked(r) ==
  /\ pc[r] = "inside" /\ op[r] \in EarlyOps /\ ~body[r]
  /\ RUnlock(r)
  /\ UNCHANGED <<op, body>>

\* The pet or the user does not exist: 404, before the body is looked at.
ReturnNotFound(r) ==
  /\ pc[r] = "inside" /\ op[r] \in EarlyOps /\ ~body[r]
  /\ Release(r)
  /\ UNCHANGED <<op, body>>
-----------------------------------------------------------------------------
Client(r) == SendBody(r) \/ \E o \in Ops : Request(r, o)

Handler(r) == RLock(r) \/ Begin(r) \/ Lock(r) \/ Enter(r) \/ Return(r)

Next == \E r \in Reqs : Client(r) \/ Handler(r) \/ Announce(r) \/ ReturnNotFound(r)

Spec == Init /\ [][Next]_vars

(* Every goroutine is scheduled.  The writers' mutex is a sync.Mutex, whose  *)
(* starvation mode hands it to the writer that has waited longest: strong    *)
(* fairness.  Clients are fair only in LiveSpec: the server sets no read     *)
(* timeout (main.go:116), so nothing else ends the wait for a body.          *)
ServerSpec == Spec /\ \A r \in Reqs : WF_vars(Handler(r)) /\ SF_vars(Announce(r))
LiveSpec == ServerSpec /\ \A r \in Reqs : WF_vars(SendBody(r))
-----------------------------------------------------------------------------
\* No handler touches a map or a counter while another handler may be writing it, the
\* counter that stored ids point to included (handlers.go: each handler's first
\* statement against the fields it uses; Go ends the program when a map is written
\* while it is used).
NoFieldRace ==
  \A q, r \in Reqs :
    q # r /\ pc[q] = "inside" /\ pc[r] = "inside" =>
      Writes(op[q]) \cap (Reads(op[r]) \cup Writes(op[r])) = {}

\* No request waits for a lock that nobody is going to release: readers are blocked
\* only behind an announced writer, and that writer is on its way in or inside.
NoLostWakeup ==
  /\ (\E r \in Reqs : pc[r] = "blocked") => pending
  /\ pending <=> mutex # Nobody
  /\ mutex # Nobody => LockOf(op[mutex]) = "Lock" /\ pc[mutex] \in {"drain", "inside"}

\* With clients that finish their bodies every request is answered, readers and
\* writers alike, however many other requests keep arriving.
EveryRequestAnswered == \A r \in Reqs : pc[r] = "ready" ~> pc[r] = "idle"

\* The health check of the image (Dockerfile:46-48) takes a request for the
\* inventory that is not answered as a server that is not healthy.  Stated here
\* of a server whose own steps are all fair: the inventory is always answered.
InventoryAnswered ==
  \A r \in Reqs : (pc[r] = "ready" /\ op[r] = "GetInventory") ~> pc[r] = "idle"

\* The inductive invariant of ps.mu: who holds Lock is alone among the holders, owns
\* the writers' mutex, and the waiting states are those of their calls.
LockInv ==
  /\ TypeOK
  /\ NoLostWakeup
  /\ \A r \in Inside("Lock") : Inside("Lock") \cup Inside("RLock") = {r}
  /\ \A r \in Reqs : pc[r] = "drain" \/ r \in Inside("Lock") => mutex = r
  /\ \A r \in Reqs : pc[r] = "blocked" => LockOf(op[r]) = "RLock"
  /\ \A r \in Reqs : pc[r] \in {"mutex", "drain"} => LockOf(op[r]) = "Lock"
==============================================================================
