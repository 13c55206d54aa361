CONSTANTS
  Texts = 2
  Schema <- MCSchema
  MaxString = 1
  Pieces = {"a", "b", "c", "d", "e"}
  Categories <- MCCategories
SPECIFICATION Spec
INVARIANT GeneratesValidJson
CHECK_DEADLOCK FALSE
