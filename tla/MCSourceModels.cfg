SPECIFICATION Spec
CONSTANTS
    Group = 8
    Groups = 3
    Word = 256
    Half = 32
    Quarter = 16
    FloatLen = 2
    NotUtf8 = {15}
    Variants = 30
    Sends <- MCSends
    Changes = {0, 1, 3, 8, 15}
INVARIANTS DecodesWhatWasSent EchoIsStable CutIsNoticed
CHECK_DEADLOCK FALSE
