SPECIFICATION ReceptionSpec
CONSTANTS
  Guest = {g1, g2}
  Profile = {p1}
  shared = shared
  Name = {shared}
  NameOf <- OneName
  Operational = {p1}
  Lifetime = 1
  MaxDate = 1
  MaxCapacity = 1
  Seed = Seed
SYMMETRY GuestSymmetry
INVARIANTS AccountsInvariant ReceptionInvariant NamesAreAsked QuestionIsOpen
PROPERTIES InterestsByOwner
