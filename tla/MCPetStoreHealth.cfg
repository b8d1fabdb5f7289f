SPECIFICATION ServerSpec
CONSTANTS
  Reqs = {r1, r2}
  Ops = {"AddPet", "DeletePet", "UpdateUser", "UploadFile", "GetInventory", "LogoutUser"}
  Nobody = Nobody
PROPERTIES InventoryAnswered
