SPECIFICATION Spec
CONSTANTS
    Width = 9
    Height = 5
    CursorW = 1
    CursorH = 1
    TitleBarH = 2
    MinGrip = 2
    CloseSize = 1
    CloseMargin = 1
    None = None
    Desktop = Desktop
    Cursor = Cursor
    win_a = win_a
    win_b = win_b
    win_c = win_c
    five = five
    Windows = {win_a, win_b, win_c}
    Calc = win_c
    Buttons = {}
    ButtonBox <- OneButton
    Display <- OneDisplay
    Size <- ThreeSize
    StackAtBoot <- ThreeWindows
    PosAtBoot <- ThreeAt
    MouseButtons <- Chords
    Steps <- Unit
    MaxPackets = 4
INVARIANT OcclusionRight
CHECK_DEADLOCK FALSE
