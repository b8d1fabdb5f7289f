---------------------------- MODULE PetStoreUsers ----------------------------
(***************************************************************************)
(* The users of k8s/example-pod (handlers.go:267-388).  PetStore adds the  *)
(* pets and the orders.  Every handler holds ps.mu from its first          *)
(* statement to its return, so each is one action; PetStoreLock models the *)
(* lock itself.                                                            *)
(***************************************************************************)
EXTENDS Naturals, Sequences

CONSTANTS Names,      \* user names
          Passwords,
          MaxArray,   \* bound: users per array request
          None        \* a nil pointer, or no value

ASSUME UsersAssumption == /\ None \notin Names /\ None \notin Passwords
                          /\ MaxArray \in Nat
                          /\ "john_doe" \in Names /\ "password123" \in Passwords

User == [username : Names \cup {None}, password : Passwords \cup {None}]

Arrays == UNION {[1..n -> User] : n \in 0..MaxArray}

VARIABLES users,   \* the map from user names to users
          resp     \* the last response: operation, what it names, code, id shown

UsersTypeOK ==
  /\ users \in [DOMAIN users -> User]
  /\ DOMAIN users \subseteq Names

Response(op, at, code, shown) == [op |-> op, at |-> at, code |-> code, shown |-> shown]
Reply(op, at, code) == resp' = Response(op, at, code, None)

Store(m, u) == [n \in DOMAIN m \cup {u.username} |-> IF n = u.username THEN u ELSE m[n]]

\* addSampleData.
UsersInit ==
  users = [n \in {"john_doe"} |-> [username |-> n, password |-> "password123"]]
-----------------------------------------------------------------------------
CreateUser(u) ==
  \/ /\ u.username = None
     /\ Reply("CreateUser", None, 400)
     /\ UNCHANGED users
  \/ /\ u.username \in DOMAIN users
     /\ Reply("CreateUser", u.username, 409)
     /\ UNCHANGED users
  \/ /\ u.username # None /\ u.username \notin DOMAIN users
     /\ users' = Store(users, u)
     /\ Reply("CreateUser", u.username, 200)

\* Mutant: the loop keeps the users that exist.
StoreAbsent(array) ==
  LET m[i \in 0..Len(array)] ==
        IF i = 0 THEN users
        ELSE IF array[i].username \in {None} \cup DOMAIN m[i - 1] THEN m[i - 1]
        ELSE Store(m[i - 1], array[i])
  IN m[Len(array)]

\* The loop of CreateUsersWithArrayInput: users without a name are skipped.
StoreNamed(array) ==
  LET m[i \in 0..Len(array)] ==
        IF i = 0 THEN users
        ELSE IF array[i].username = None THEN m[i - 1]
        ELSE Store(m[i - 1], array[i])
  IN m[Len(array)]

\* CreateUsersWithListInput is the same handler.
CreateUsersWithArrayInput(array) ==
  /\ users' = StoreNamed(array)
  /\ Reply("CreateUsersWithArrayInput", array, 200)

\* A body that does not bind is refused before anything else.
BadBody(op) ==
  /\ Reply(op, None, 400)
  /\ UNCHANGED users

LoginUser(n, password) ==
  /\ \/ /\ n \in DOMAIN users /\ users[n].password = password
        /\ Reply("LoginUser", n, 200)
     \/ /\ ~(n \in DOMAIN users /\ users[n].password = password)
        /\ Reply("LoginUser", n, 400)
  /\ UNCHANGED users

LogoutUser ==
  /\ Reply("LogoutUser", None, 200)
  /\ UNCHANGED users

DeleteUser(n) ==
  \/ /\ n \notin DOMAIN users
     /\ Reply("DeleteUser", n, 404)
     /\ UNCHANGED users
  \/ /\ n \in DOMAIN users
     /\ users' = [m \in DOMAIN users \ {n} |-> users[m]]
     /\ Reply("DeleteUser", n, 200)

\* user.Password = nil clears the password of a copy.
GetUserByName(n) ==
  /\ \/ /\ n \notin DOMAIN users
        /\ Reply("GetUserByName", n, 404)
     \/ /\ n \in DOMAIN users
        /\ Reply("GetUserByName", n, 200)
  /\ UNCHANGED users

\* Mutant: the name in the body is kept.
UpdateUserAsGiven(n, u) ==
  /\ n \in DOMAIN users
  /\ users' = [users EXCEPT ![n] = u]
  /\ Reply("UpdateUser", n, 200)

UpdateUser(n, u) ==
  \/ /\ n \notin DOMAIN users
     /\ Reply("UpdateUser", n, 404)
     /\ UNCHANGED users
  \/ /\ n \in DOMAIN users            \* the body does not bind
     /\ Reply("UpdateUser", n, 400)
     /\ UNCHANGED users
  \/ /\ n \in DOMAIN users
     /\ users' = [users EXCEPT ![n] = [u EXCEPT !.username = n]]
     /\ Reply("UpdateUser", n, 200)
-----------------------------------------------------------------------------
UserStep ==
  \/ \E u \in User : CreateUser(u) \/ \E n \in Names : UpdateUser(n, u)
  \/ \E array \in Arrays : CreateUsersWithArrayInput(array)
  \/ \E op \in {"CreateUser", "CreateUsersWithArrayInput"} : BadBody(op)
  \/ \E n \in Names : \/ DeleteUser(n) \/ GetUserByName(n)
                      \/ \E password \in Passwords : LoginUser(n, password)
  \/ LogoutUser
-----------------------------------------------------------------------------
\* The user stored under a name carries that name, whichever of the four writers
\* stored it and whatever its body said (handlers.go:286, 301, 384-386).
UsernamesCoherent == \A n \in DOMAIN users : users[n].username = n

\* A stored user changes or disappears only by a request that names it, and never
\* by CreateUser or by a read (handlers.go:282-284, 313-341, 355-368).  An array
\* leaves, for every name, the last of its users with that name, over the user that
\* was there before (handlers.go:299-303).
OnlyNamedUsersChange ==
  [][IF resp'.op = "CreateUsersWithArrayInput" /\ resp'.code = 200
     THEN LET array == resp'.at
              at(n) == {i \in 1..Len(array) : array[i].username = n}
          IN /\ DOMAIN users' = DOMAIN users \cup {n \in Names : at(n) # {}}
             /\ \A n \in DOMAIN users' :
                  \/ at(n) = {} /\ users'[n] = users[n]
                  \/ \E i \in at(n) : /\ \A j \in at(n) : j <= i
                                      /\ users'[n] = array[i]
     ELSE \A n \in DOMAIN users :
            n \notin DOMAIN users' \/ users'[n] # users[n] =>
              resp'.op \in {"DeleteUser", "UpdateUser"} /\ resp'.at = n]_<<users, resp>>
==============================================================================
