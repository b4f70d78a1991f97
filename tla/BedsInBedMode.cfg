\* One call after another: no race is needed.
SPECIFICATION InventorySpec
CHECK_DEADLOCK FALSE
CONSTANTS
  Properties = {P1}
  Buildings = {}
  Units = {U1}
  Beds = {b1}
  Codes = {c1}
  Organization = Organization
  NoBuilding = NoBuilding
  Editors = {q1}
  MaxRowVersion <- MCMaxRowVersion
INVARIANTS
  BedsInBedMode
