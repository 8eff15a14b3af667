----------------------------------- MODULE Wm -----------------------------------
(***************************************************************************)
(* The window system: the mouse packets of drivers/mouse.c, their routing  *)
(* in kernel/main.c to the calculator and to wm/wm.c, and the framebuffer  *)
(* the windows are drawn on, with its damage rectangle.                    *)
(*                                                                         *)
(* Packets are handled inside IRQ12; the idle loop flushes the damage in   *)
(* two parts with interrupts off, and a packet may arrive between them.    *)
(* A pixel shows the window painted on it last, the desktop or the cursor, *)
(* which is drawn over the picture and keeps the pixels it covers.         *)
(***************************************************************************)
EXTENDS Integers, Sequences, FiniteSets

CONSTANTS
    Width, Height,            \* g_framebuffer
    CursorW, CursorH,         \* CURSOR_W, CURSOR_H
    TitleBarH, MinGrip,       \* TITLE_BAR_H, MIN_GRIP
    CloseSize, CloseMargin,   \* CLOSE_BTN_SIZE, CLOSE_BTN_MARGIN
    Windows, Desktop, Cursor, None,
    Calc,                     \* the calculator's window
    Buttons, ButtonBox,       \* its buttons, and where they lie in it
    Display,                  \* its display, likewise
    Size,                     \* width and height of each window
    StackAtBoot, PosAtBoot,   \* windows bottom to top, and where they are
    MouseButtons,             \* sets of buttons the mouse reports
    Steps,                    \* values of a packet's dx and dy
    MaxPackets                \* bound on the packets the mouse sends

L == "L"   \* the left button, bit 0

At  == [x : 0 .. Width - 1, y : 0 .. Height - 1]
Box == [l : 0 .. Width, t : 0 .. Height, r : 0 .. Width, b : 0 .. Height]

(* Every window can be gripped: it is no narrower than the strip a drag    *)
(* leaves on the screen, which is no smaller than the cursor nor than the  *)
(* close button, and the cursor fits beside the middle of the screen,      *)
(* where it starts.                                                        *)
ASSUME GripAssumption ==
    /\ {Width, Height, CursorW, CursorH, TitleBarH, MinGrip} \subseteq Nat \ {0}
    /\ CursorW <= MinGrip /\ MinGrip <= Width /\ 2 * CursorW <= Width
    /\ CursorH <= TitleBarH /\ TitleBarH <= Height /\ 2 * CursorH <= Height
    /\ Size \in [Windows -> [w : Nat, h : Nat]]
    /\ \A v \in Windows : MinGrip <= Size[v].w /\ TitleBarH <= Size[v].h
    /\ {CloseSize, CloseMargin} \subseteq Nat
    /\ CloseSize + CloseMargin <= MinGrip /\ CloseSize + CloseMargin <= TitleBarH
    /\ Steps \subseteq Int /\ MaxPackets \in Nat

ASSUME BootAssumption ==
    /\ None \notin Windows \cup Box
    /\ StackAtBoot \in Seq(Windows)
    /\ \A i, j \in DOMAIN StackAtBoot : StackAtBoot[i] = StackAtBoot[j] => i = j
    /\ PosAtBoot \in [Windows -> [x : 0 .. Width - MinGrip, y : 0 .. Height - TitleBarH]]

(* The display and the buttons of the calculator lie inside the border of  *)
(* its window (calc.c:24-27, 177-210).                                     *)
ASSUME CalcAssumption ==
    /\ Calc \in Windows
    /\ \A box \in {Display} \cup {ButtonBox[btn] : btn \in Buttons} :
         /\ {box.x, box.y} \subseteq Nat \ {0} /\ {box.w, box.h} \subseteq Nat
         /\ box.x + box.w < Size[Calc].w /\ box.y + box.h < Size[Calc].h

VARIABLES
    stack,     \* g_windows, bottom to top
    pos,       \* x and y of every window
    drag,      \* g_drag_win
    pressed,   \* g_pressed_button
    held,      \* last_buttons
    cursor,    \* cursor_x and cursor_y
    dirty,     \* g_dirty, None when not valid
    snap,      \* the idle loop's copy of it while it flushes
    screen,    \* the framebuffer
    backup,    \* cursor_backup, by the pixel each was taken from
    plain,     \* history: the framebuffer had there never been a cursor
    packets    \* packets handled so far

vars == <<stack, pos, drag, pressed, held, cursor, dirty, snap,
          screen, backup, plain, packets>>

Least(a, b)   == IF a < b THEN a ELSE b
Largest(a, b) == IF a > b THEN a ELSE b
Clamp(n, lo, hi) == Largest(lo, Least(n, hi))

-----------------------------------------------------------------------------
(* Hit tests.  Boxes are half-open: l and t lie in them, r and b do not.   *)

Inside(p, b) == b.l <= p.x /\ p.x < b.r /\ b.t <= p.y /\ p.y < b.b

Rect(x, y, w, h) == [l |-> x, t |-> y, r |-> x + w, b |-> y + h]

WindowBox(v) == Rect(pos[v].x, pos[v].y, Size[v].w, Size[v].h)
TitleBar(v)  == Rect(pos[v].x, pos[v].y, Size[v].w, TitleBarH)
CloseBox(v)  == Rect(pos[v].x + Size[v].w - CloseSize - CloseMargin,
                     pos[v].y + CloseMargin, CloseSize, CloseSize)
InCalc(box)  == Rect(pos[Calc].x + box.x, pos[Calc].y + box.y, box.w, box.h)

Hits(p) == {i \in DOMAIN stack : Inside(p, WindowBox(stack[i]))}

wm_find_window_at(p) ==
    IF Hits(p) = {} THEN None
    ELSE stack[CHOOSE i \in Hits(p) : \A j \in Hits(p) : j <= i]

-----------------------------------------------------------------------------
(* Painting.                                                               *)

Pixels   == (0 .. Width - 1) \X (0 .. Height - 1)
Cells(b) == {p \in Pixels : b.l <= p[1] /\ p[1] < b.r /\ b.t <= p[2] /\ p[2] < b.b}

(* draw_rect, its right and bottom line at b.r and b.b.  A line is given   *)
(* up at the first of its pixels that is off the screen, and the bottom    *)
(* and the left line start at the bottom right and bottom left corner.     *)
Border(b) ==
    LET rightOn  == b.r < Width
        bottomOn == b.b < Height
    IN  {p \in Pixels :
           \/ p[2] = b.t /\ p[1] \in b.l .. b.r
           \/ rightOn /\ p[1] = b.r /\ p[2] \in b.t .. b.b
           \/ rightOn /\ bottomOn /\ p[2] = b.b /\ p[1] \in b.l .. b.r
           \/ bottomOn /\ p[1] = b.l /\ p[2] \in b.t .. b.b}

(* window_draw paints neither the last column inside the border nor the    *)
(* last row.  The buttons and the display calc_redraw paints on top lie    *)
(* inside what it paints.                                                  *)
window_draw(v) ==
    LET b == WindowBox(v)
    IN  Border(b) \cup Cells(CloseBox(v))
        \cup Cells([l |-> b.l + 1, t |-> b.t + 1, r |-> b.r - 1, b |-> b.b - 1])

(* The windows of the stack at the positions in which, drawn over scr.     *)
DrawOver(scr, s, which) ==
    [p \in Pixels |->
       LET on == {i \in which : p \in window_draw(s[i])}
       IN  IF on = {} THEN scr[p] ELSE s[CHOOSE i \in on : \A j \in on : j <= i]]

(* The desktop fill spares the last column and the last row.               *)
DrawAll(scr, s) ==
    DrawOver([p \in Pixels |-> IF p[1] < Width - 1 /\ p[2] < Height - 1
                               THEN Desktop ELSE scr[p]], s, DOMAIN s)

PaintCalc(scr, cells) == [p \in Pixels |-> IF p \in cells THEN Calc ELSE scr[p]]
ButtonCells(btn) == Cells(InCalc(ButtonBox[btn]))

(* The cursor lies at cursor whenever no handler is running, so that its   *)
(* old position and cursor_visible are only told apart inside one.         *)
CursorCells(at) == Cells(Rect(at.x, at.y, CursorW, CursorH))

cursor_restore(scr, under) ==
    [p \in Pixels |-> IF p \in DOMAIN under THEN under[p] ELSE scr[p]]

cursor_draw(scr, at) ==
    [screen |-> [p \in Pixels |-> IF p \in CursorCells(at) THEN Cursor ELSE scr[p]],
     backup |-> [p \in CursorCells(at) |-> scr[p]]]

-----------------------------------------------------------------------------
(* Clicks.  A handler takes and returns the part of the state a click can  *)
(* change.                                                                 *)

Shown == [screen |-> screen, backup |-> backup]

UI == [stack |-> stack, drag |-> drag, pressed |-> pressed,
       shown |-> Shown, plain |-> plain]

IndexOf(v) == CHOOSE i \in DOMAIN stack : stack[i] = v

Above(i) == [j \in 1 .. Len(stack) - 1 |-> IF j < i THEN stack[j] ELSE stack[j + 1]]

\* Variant: the cursor is not hidden first.
wm_draw_all_NoHide(s) ==
    [UI EXCEPT !.stack = s,
               !.shown = cursor_draw(DrawAll(screen, s), cursor),
               !.plain = DrawAll(plain, s)]

(* wm_draw_all of the list s, with the cursor hidden meanwhile.            *)
wm_draw_all(s) ==
    [UI EXCEPT !.stack = s,
               !.shown = cursor_draw(DrawAll(cursor_restore(screen, backup), s), cursor),
               !.plain = DrawAll(plain, s)]

(* wm_bring_to_top, and the same shift in wm_handle_click: nothing is      *)
(* redrawn when the window is the top one already.                         *)
wm_bring_to_top(v) ==
    IF v = stack[Len(stack)] THEN UI
    ELSE wm_draw_all(Append(Above(IndexOf(v)), v))

wm_remove_window(v) == wm_draw_all(Above(IndexOf(v)))

wm_handle_click(p) ==
    IF Hits(p) = {} THEN UI ELSE wm_bring_to_top(wm_find_window_at(p))

CalcActive == Calc \in {stack[i] : i \in DOMAIN stack}

(* Buttons and display are painted over whatever lies there, the cursor    *)
(* included, which goes on keeping what it covered before.                 *)
CalcPaints(cells, btn) ==
    [UI EXCEPT !.pressed = btn,
               !.shown = [screen |-> PaintCalc(screen, cells), backup |-> backup],
               !.plain = PaintCalc(plain, cells)]

button_handle_down(btn) == CalcPaints(ButtonCells(btn), btn)

(* button_handle_up: on the button its callback runs, which repaints the   *)
(* display.                                                                *)
button_handle_up(p) ==
    LET clicked == Inside(p, InCalc(ButtonBox[pressed]))
        shown   == IF clicked THEN Cells(InCalc(Display)) ELSE {}
    IN  CalcPaints(shown \cup ButtonCells(pressed), None)

\* Variant: a closed window stays the dragged one.
CloseWindow_KeepsDrag(v) == wm_remove_window(v)

CloseWindow(v) ==
    [wm_remove_window(v) EXCEPT !.drag = IF drag = v THEN None ELSE drag]

MouseDown(p) ==
    LET hit  == wm_find_window_at(p)
        btns == {btn \in Buttons : CalcActive /\ Inside(p, InCalc(ButtonBox[btn]))}
    IN  IF hit # None /\ Inside(p, CloseBox(hit)) THEN CloseWindow(hit)
        ELSE IF hit # None /\ Inside(p, TitleBar(hit))
          THEN [wm_bring_to_top(hit) EXCEPT !.drag = hit]
        ELSE IF btns # {} THEN button_handle_down(CHOOSE btn \in btns : TRUE)
        ELSE wm_handle_click(p)

MouseUp(p) ==
    IF drag # None THEN [UI EXCEPT !.drag = None]
    ELSE IF CalcActive /\ pressed # None THEN button_handle_up(p)
    ELSE wm_handle_click(p)

on_mouse_click(p, buttons) == IF L \in buttons THEN MouseDown(p) ELSE MouseUp(p)

-----------------------------------------------------------------------------
(* Moves.                                                                  *)

MoveCursor(dx, dy) == [x |-> Clamp(cursor.x + dx, 0, Width - CursorW),
                       y |-> Clamp(cursor.y - dy, 0, Height - CursorH)]

\* Variant: the whole window stays on the screen.
MoveWindow_WholeOnScreen(v, dx, dy) ==
    [x |-> Clamp(pos[v].x + dx, 0, Width - Size[v].w),
     y |-> Clamp(pos[v].y - dy, 0, Height - Size[v].h)]

MoveWindow(v, dx, dy) == [x |-> Clamp(pos[v].x + dx, 0, Width - MinGrip),
                          y |-> Clamp(pos[v].y - dy, 0, Height - TitleBarH)]

\* Variant: the rectangle is not clipped to the screen.
wm_mark_dirty_Unclipped(d, b) ==
    IF d = None THEN b
    ELSE [l |-> Least(d.l, b.l), t |-> Least(d.t, b.t),
          r |-> Largest(d.r, b.r), b |-> Largest(d.b, b.b)]

(* wm_mark_dirty: the bounding box of the damage so far and of what of b   *)
(* is on the screen.                                                       *)
wm_mark_dirty(d, b) ==
    LET c == [l |-> Largest(b.l, 0), t |-> Largest(b.t, 0),
              r |-> Least(b.r, Width), b |-> Least(b.b, Height)]
    IN  IF c.l >= c.r \/ c.t >= c.b THEN d
        ELSE IF d = None THEN c
        ELSE [l |-> Least(d.l, c.l), t |-> Least(d.t, c.t),
              r |-> Largest(d.r, c.r), b |-> Largest(d.b, c.b)]

\* Variant: the border at x + w and y + h is forgotten.
DamageOf_NoBorder(v, p) == Rect(p.x, p.y, Size[v].w, Size[v].h)

(* What a dragged window leaves and takes, border included.                *)
DamageOf(v, p) == Rect(p.x, p.y, Size[v].w + 1, Size[v].h + 1)

on_mouse_move(v, dx, dy) ==
    IF v = None THEN [pos |-> pos, dirty |-> dirty]
    ELSE LET new == MoveWindow(v, dx, dy)
         IN  [pos |-> [pos EXCEPT ![v] = new],
              dirty |-> wm_mark_dirty(wm_mark_dirty(dirty, DamageOf(v, pos[v])),
                                      DamageOf(v, new))]

(* A packet: a change of buttons is a click where the cursor was, and the  *)
(* movement follows it.                                                    *)
mouse_process_packet(buttons, dx, dy) ==
    LET ui == IF buttons # held THEN on_mouse_click(cursor, buttons) ELSE UI
        mv == on_mouse_move(ui.drag, dx, dy)
        moved == cursor_draw(cursor_restore(ui.shown.screen, ui.shown.backup),
                             MoveCursor(dx, dy))
    IN  /\ packets < MaxPackets /\ packets' = packets + 1
        /\ stack' = ui.stack /\ drag' = ui.drag
        /\ pressed' = ui.pressed /\ plain' = ui.plain
        /\ held' = buttons
        /\ IF dx # 0 \/ dy # 0
             THEN /\ cursor' = MoveCursor(dx, dy) /\ pos' = mv.pos /\ dirty' = mv.dirty
                  /\ screen' = moved.screen /\ backup' = moved.backup
             ELSE /\ screen' = ui.shown.screen /\ backup' = ui.shown.backup
                  /\ UNCHANGED <<cursor, pos, dirty>>
        /\ UNCHANGED snap

-----------------------------------------------------------------------------
(* The flush in the idle loop.                                             *)

FlushSnapshot ==
    /\ snap = None /\ dirty # None
    /\ snap' = dirty /\ dirty' = None
    /\ UNCHANGED <<stack, pos, drag, pressed, held, cursor, screen, backup, plain, packets>>

(* The windows whose box, without the border, meets the damage are drawn   *)
(* whole over the cleared rectangle.                                       *)
Meets(v, d) ==
    LET b == WindowBox(v)
    IN  ~(b.l >= d.r \/ b.r <= d.l \/ b.t >= d.b \/ b.b <= d.t)

DrawDamage(scr) ==
    DrawOver([p \in Pixels |-> IF p \in Cells(snap) THEN Desktop ELSE scr[p]],
             stack, {i \in DOMAIN stack : Meets(stack[i], snap)})

FlushDraw ==
    /\ snap # None
    /\ LET new == cursor_draw(DrawDamage(cursor_restore(screen, backup)), cursor)
       IN  screen' = new.screen /\ backup' = new.backup
    /\ plain' = DrawDamage(plain)
    /\ snap' = None
    /\ UNCHANGED <<stack, pos, drag, pressed, held, cursor, dirty, packets>>

-----------------------------------------------------------------------------
Init ==
    /\ stack = StackAtBoot /\ pos = PosAtBoot
    /\ drag = None /\ pressed = None /\ held = {}
    /\ cursor = [x |-> Width \div 2, y |-> Height \div 2]
    /\ dirty = None /\ snap = None /\ packets = 0
    /\ plain = DrawAll([p \in Pixels |-> Desktop], StackAtBoot)
    /\ screen = cursor_draw(plain, cursor).screen
    /\ backup = cursor_draw(plain, cursor).backup

Next ==
    \/ \E buttons \in MouseButtons, dx, dy \in Steps :
         mouse_process_packet(buttons, dx, dy)
    \/ FlushSnapshot
    \/ FlushDraw

Spec == Init /\ [][Next]_vars

-----------------------------------------------------------------------------
(* No window is listed twice, and the damage to flush lies on the screen,  *)
(* as the flush, which clips nothing to the left or above, relies on       *)
(* (wm.c:135-175, 207-213).                                                *)
TypeOK ==
    /\ stack \in Seq(Windows)
    /\ \A i, j \in DOMAIN stack : stack[i] = stack[j] => i = j
    /\ pos \in [Windows -> At]
    /\ drag \in Windows \cup {None} /\ pressed \in Buttons \cup {None}
    /\ held \in MouseButtons \cup {{}} /\ cursor \in At
    /\ dirty \in Box \cup {None} /\ snap \in Box \cup {None}
    /\ screen \in [Pixels -> Windows \cup {Desktop, Cursor}]
    /\ plain \in [Pixels -> Windows \cup {Desktop}]
    /\ backup \in [CursorCells(cursor) -> Windows \cup {Desktop, Cursor}]
    /\ packets \in 0 .. MaxPackets

(* The dragged window is the top one and the left button is down: no click *)
(* of another button, no raising, closing or releasing in any order leaves *)
(* a drag on a window that is covered, gone or let go (main.c:414-471).    *)
DragOnTop ==
    drag # None => /\ stack # <<>> /\ stack[Len(stack)] = drag
                   /\ L \in held

(* The cursor stays on the title bar of the window it drags, though cursor *)
(* and window are clamped to the screen separately, by different limits,   *)
(* and dragged by what the mouse reports, not by what the cursor moved     *)
(* (main.c:374-409, mouse.c:160-182).                                      *)
GripHeld == drag # None => Inside(cursor, TitleBar(drag))

(* A window that moved or closed leaves no ghost: a pixel showing a window *)
(* that is not listed, or does not reach that pixel any more, is in damage *)
(* still to be flushed (wm.c:135-232, Decision-012).  The last column and  *)
(* the last row, which wm_draw_all does not clear, are left out.           *)
Pending == (IF dirty = None THEN {} ELSE Cells(dirty))
           \cup (IF snap = None THEN {} ELSE Cells(snap))

\* What the screen shows with the cursor lifted.
Picture == cursor_restore(screen, backup)

NoGhost ==
    \A p \in (0 .. Width - 2) \X (0 .. Height - 2) \ Pending :
       Picture[p] # Desktop =>
          \E i \in DOMAIN stack : stack[i] = Picture[p] /\ p \in window_draw(stack[i])

(* The cursor leaves no mark (docs/PROGRESS.md:580): however packets,      *)
(* clicks and the halves of a flush interleave, lifting it shows the       *)
(* picture as it would be without a cursor, except in damage still to be   *)
(* flushed and where the calculator painted a button or its display under  *)
(* the cursor (button.c:10-26, calc.c:43-68, mouse.c:76-112).              *)
CursorTransparent ==
    \A p \in Pixels \ Pending : Picture[p] # plain[p] =>
       \/ p \in Cells(InCalc(Display))
       \/ \E btn \in Buttons : p \in ButtonCells(btn)

(* docs/PROGRESS.md on the window manager, which has no double buffer:     *)
(* drawing from bottom to top keeps occlusion right, so that with nothing  *)
(* left to flush no window shows where one above it is painted             *)
(* (wm.c:217-228).                                                         *)
OcclusionRight ==
    dirty = None /\ snap = None =>
       \A i, j \in DOMAIN stack : \A p \in window_draw(stack[j]) :
          i < j => Picture[p] # stack[i]
=============================================================================
