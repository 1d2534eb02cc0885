\* Do the fields of an answer of the 1.4+ format end up in their places?
SPECIFICATION Spec
CONSTANTS
    MaxResponse = 40
    BufferSize = 8
    MotdLength = {1, 2, 12}
    MaxText = 2
INVARIANTS
    LegacyFieldsRead
CHECK_DEADLOCK FALSE
