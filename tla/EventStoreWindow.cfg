SPECIFICATION Spec
CONSTANTS
    Keys = {k1, k2}
    Txs = {t1}
    Blocks = {0, 1, 2}
    RetentionBlocks = 1
INVARIANTS
    TypeOK
    FilledWindow
    OrderWindow
CHECK_DEADLOCK FALSE
