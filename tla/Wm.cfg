SPECIFICATION Spec
CONSTANTS
    Width = 5
    Height = 5
    CursorW = 1
    CursorH = 1
    TitleBarH = 2
    MinGrip = 2
    CloseSize = 1
    CloseMargin = 1
    None = None
    Desktop = Desktop
    Cursor = Cursor
    win_a = win_a
    win_b = win_b
    win_c = win_c
    five = five
    Windows = {win_a, win_c}
    Calc = win_c
    Buttons = {five}
    ButtonBox <- OneButton
    Display <- OneDisplay
    Size <- SmallSize
    StackAtBoot <- TwoWindows
    PosAtBoot <- TwoAt
    MouseButtons <- Chords
    Steps <- Unit
    MaxPackets = 4
INVARIANTS
    TypeOK
    DragOnTop
    GripHeld
    NoGhost
    CursorTransparent
CHECK_DEADLOCK FALSE
