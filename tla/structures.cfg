SPECIFICATION Spec
CONSTANTS
    NULL = NULL
    Blocks = {b1, b2, b3, b4}
    StartSize = 1
    BlockSize = 4
    Sizes = {1, 2, 5}
    Limits = {1, 10}
    FirstCounts = {15}
    Threads = {t1}
    MaxLarge = 5
    MaxHeld <- HeldAtOnce
    MaxGc = 1
    Modulus = 16
    Keys = {1, 2, 3, 4, 5, 6, 7, 8, 9}
    NoMsg = NoMsg
    Msgs = {m1, m2, m3, m4}
    IoThreads = {t1, t2}
    FileTexts <- SomeFiles
    CommandTexts <- SomeCommands
    Numbers <- SomeNumbers
    Rooms = {0, 1, 2, 3, 4}
    ByteTexts <- SomeBytes
    DataSize = 4
    XorByte <- XorOfBits
    KeyTexts <- SomeKeys
    MaxStream = 4
    MaxPiece = 2
SYMMETRY Alike
INVARIANTS PoolSound CountersAccounted TreeSound TextsRight Deciphered
PROPERTIES FreeReclaims RefinesFifo
