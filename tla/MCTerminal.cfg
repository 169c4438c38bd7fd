CONSTANTS
    rows = 3
    cols = 2
    Columns = 2
    font_spacing = 1
    font_bits <- MCFont
    LineGraphics <- MCLineGraphics
    default_fg = 7
    default_bg = 0
    INT = 1024
    TERM_MAX_ESC_VALUES = 4
    tab_size = 8
    Messages <- MCMessages
    MaxMessages = 2
    Overflow <- MCOverflow
    BeyondPalette = 300
SPECIFICATION Spec
INVARIANTS
    ScreenShowsGrid
    NothingLeftBehind
    ScreenIsWindowOfRoll
    
CHECK_DEADLOCK FALSE
