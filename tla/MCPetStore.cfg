SPECIFICATION Spec
CONSTANTS
  Names = {"john_doe", "jane"}
  Passwords = {"password123", "other"}
  MaxArray = 2
  MaxPetId = 5
  ClientPetIds = {4}
  MaxOrderId = 3
  ClientOrderIds = {2}
  Statuses = {"available", "pending"}
  None = None
  Alias = Alias
VIEW View
CONSTRAINT OneMapAtATime
INVARIANTS IdsCoherent InventoryMatchesSearch UsernamesCoherent
PROPERTIES AutomaticIdsDistinct OrphansComeFromDeletePet OnlyNamedUsersChange
