SPECIFICATION InputSpec
CONSTANTS
    KBD_STACK_SIZE = 3
    Make <- MakeCodes
    Break <- BreakCodes
    Char <- Chars
    keyboard_map <- MapTable
    ENTER = "enter"
    NEWLINE = "newline"
    PLUS = "plus"
    NUL = "nul"
    VSH_CMD_BUFFER_SIZE = 2
    Letter <- Letters
    RETURN = "return"
    BACKSPACE = "backspace"
    HaltLines <- Halting
    SoakLine <- Soaking
    MaxKeys = 5
    MaxTasks = 2
INVARIANTS
    CommandIsWhatWasTyped
    LineBufferIsSound
PROPERTIES
    FifoSpec
    KeysAreRead
CHECK_DEADLOCK FALSE
