SPECIFICATION LiveSpec
CONSTANTS
  Reqs = {r1, r2, r3}
  Ops = {"AddPet", "PlaceOrder", "UpdateUser", "UploadFile", "GetOrderById", "LogoutUser"}
  Nobody = Nobody
INVARIANTS NoFieldRace NoLostWakeup
PROPERTIES EveryRequestAnswered
