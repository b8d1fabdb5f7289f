SPECIFICATION Spec
CONSTANTS
  Names = {"john_doe", "jane"}
  Passwords = {"password123", "other"}
  MaxArray = 0
  MaxPetId = 5
  ClientPetIds = {4}
  MaxOrderId = 1
  ClientOrderIds = {}
  Statuses = {"available", "pending"}
  None = None
  Alias = Alias
INVARIANT GetReturnsThatPet
