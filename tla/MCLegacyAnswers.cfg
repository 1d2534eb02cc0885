\* Answers of both formats and every text of up to six units, cut anywhere.
SPECIFICATION Spec
CONSTANTS
    MaxResponse = 40
    BufferSize = 8
    MotdLength = {1, 2, 12}
    MaxText = 6
INVARIANTS
    TypeOK
    BetaFieldsRead
    OnlyLastValueCut
CHECK_DEADLOCK FALSE
