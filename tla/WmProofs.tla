-------------------------------- MODULE WmProofs --------------------------------
(***************************************************************************)
(* The window system for every screen, every set of windows and every      *)
(* sequence of packets and halves of a flush.                              *)
(*                                                                         *)
(* DragOnTop and GripHeld need each other: a second button pressed during  *)
(* a drag hits the dragged window only because the cursor is still on its  *)
(* title bar and no window lies above it.  What the screen shows is the    *)
(* second half: a picture is judged by the windows listed, the pixels they *)
(* are painted on and the damage still to be flushed.                      *)
(***************************************************************************)
EXTENDS Wm, WellFoundedInduction, TLAPS

Shape ==
    /\ stack \in Seq(Windows)
    /\ pos \in [Windows -> [x : 0 .. Width - MinGrip, y : 0 .. Height - TitleBarH]]
    /\ cursor \in [x : 0 .. Width - CursorW, y : 0 .. Height - CursorH]
    /\ drag \in Windows \cup {None}

\* The inductive invariant.
IInv == Shape /\ DragOnTop /\ GripHeld

(* What a click must leave: a drag, if any, of the top window, the left    *)
(* button down and the cursor on the title bar (main.c:414-471).           *)
DragFits(u, buttons) ==
    u.drag # None => /\ u.stack # <<>> /\ u.stack[Len(u.stack)] = u.drag
                     /\ L \in buttons
                     /\ Inside(cursor, TitleBar(u.drag))

(* A window dragged by the same d as the cursor keeps it in its w columns  *)
(* (or rows), however the two are clamped: hi leaves g of the window on    *)
(* the screen, and the cursor is no larger than g (main.c:381-390,         *)
(* mouse.c:163-171).                                                       *)
LEMMA ClampKeepsGrip ==
    ASSUME NEW size \in Int, NEW cur \in Int, NEW g \in Int, NEW w \in Int,
           NEW c \in Int, NEW p \in Int, NEW d \in Int,
           0 < cur, cur <= g, g <= w, g <= size,
           0 <= p, p <= size - g, 0 <= c, c <= size - cur,
           p <= c, c < p + w
    PROVE  /\ Clamp(c + d, 0, size - cur) \in 0 .. size - cur
           /\ Clamp(p + d, 0, size - g) \in 0 .. size - g
           /\ Clamp(p + d, 0, size - g) <= Clamp(c + d, 0, size - cur)
           /\ Clamp(c + d, 0, size - cur) < Clamp(p + d, 0, size - g) + w
  BY DEF Clamp, Least, Largest

(* The shift of the remaining windows keeps a list of windows              *)
(* (wm.c:62-65, 98-100, 117-120).                                          *)
LEMMA AboveType ==
    ASSUME stack \in Seq(Windows), stack # <<>>, NEW i
    PROVE  Above(i) \in Seq(Windows)
<1>1. Len(stack) \in Nat \ {0} /\ \A j \in 1 .. Len(stack) : stack[j] \in Windows
  OBVIOUS
<1>2. \A j \in 1 .. Len(stack) - 1 : (IF j < i THEN stack[j] ELSE stack[j + 1]) \in Windows
  BY <1>1
<1>3. Above(i) \in [1 .. Len(stack) - 1 -> Windows]
  BY <1>2 DEF Above
<1> QED
  BY <1>1, <1>3

(* A set of positions of a list has a last one.                            *)
LEMMA LastOne ==
    ASSUME NEW n \in Nat, NEW S \in SUBSET (1 .. n), S # {}
    PROVE  \E i \in S : \A j \in S : j <= i
<1> DEFINE R == {n - i : i \in S}
<1>a. \A i \in S : i \in Int /\ i <= n
  OBVIOUS
<1>b. \A i \in S : n - i \in Nat
  BY <1>a
<1>c. R \subseteq Nat
  BY <1>b
<1>d. R # {}
  OBVIOUS
<1>1. R \subseteq Nat /\ R # {}
  BY <1>c, <1>d
<1>2. PICK m \in R : \A r \in R : ~(<<r, m>> \in OpToRel(<, Nat))
  BY <1>1, NatLessThanWellFounded, WFMin
<1>3. PICK i \in S : m = n - i
  BY <1>2
<1>4. \A j \in S : ~(n - j < n - i)
  BY <1>1, <1>2, <1>3 DEF OpToRel
<1> QED
  BY <1>4

(* The window found is a listed one under the cursor, and the top one when *)
(* the top one is under the cursor (wm.c:81-88).                           *)
LEMMA FoundWindow ==
    ASSUME NEW p, stack \in Seq(Windows), Hits(p) # {}
    PROVE  /\ wm_find_window_at(p) \in Windows /\ stack # <<>>
           /\ Len(stack) \in Hits(p) => wm_find_window_at(p) = stack[Len(stack)]
<1> DEFINE top == CHOOSE i \in Hits(p) : \A j \in Hits(p) : j <= i
<1>1. Hits(p) \in SUBSET (1 .. Len(stack)) /\ Len(stack) \in Nat
  BY DEF Hits
<1>2. top \in Hits(p) /\ \A j \in Hits(p) : j <= top
  BY <1>1, LastOne
<1>3. wm_find_window_at(p) = stack[top]
  BY DEF wm_find_window_at
<1> HIDE DEF top
<1>4. top \in 1 .. Len(stack)
  BY <1>1, <1>2
<1>5. Len(stack) \in Hits(p) => top = Len(stack)
  BY <1>1, <1>2, <1>4
<1> QED
  BY <1>3, <1>4, <1>5

(* Raising a listed window puts it on top and changes nothing else of what *)
(* a click may (wm.c:90-103).                                              *)
LEMMA RaiseFits ==
    ASSUME stack \in Seq(Windows), stack # <<>>, NEW v \in Windows
    PROVE  LET u == wm_bring_to_top(v)
           IN  /\ u.stack \in Seq(Windows) /\ u.stack # <<>>
               /\ u.stack[Len(u.stack)] = v
               /\ u.drag = drag
<1>1. CASE v = stack[Len(stack)]
  BY <1>1 DEF wm_bring_to_top, wm_draw_all, UI
<1>2. CASE v # stack[Len(stack)]
  <2> DEFINE a == Above(IndexOf(v))
  <2>1. a \in Seq(Windows)
    BY AboveType
  <2>2. /\ wm_bring_to_top(v).stack = Append(a, v)
        /\ wm_bring_to_top(v).drag = drag
    BY <1>2 DEF wm_bring_to_top, wm_draw_all, UI
  <2> HIDE DEF a
  <2>3. /\ Append(a, v) \in Seq(Windows) /\ Append(a, v) # <<>>
        /\ Append(a, v)[Len(Append(a, v))] = v
    BY <2>1
  <2> QED
    BY <2>2, <2>3
<1> QED
  BY <1>1, <1>2

(* During a drag the cursor is on the top window, so that a click finds    *)
(* the dragged window.                                                     *)
LEMMA DragIsFound ==
    ASSUME IInv, drag # None
    PROVE  /\ Hits(cursor) # {} /\ wm_find_window_at(cursor) = drag
           /\ Inside(cursor, TitleBar(drag))
<1>1. Inside(cursor, TitleBar(drag)) /\ drag \in Windows
  BY DEF IInv, GripHeld, Shape
<1>2. Size[drag].h \in Nat /\ TitleBarH <= Size[drag].h /\ TitleBarH \in Nat
  BY <1>1, GripAssumption
<1>3. pos[drag].y \in Int /\ cursor.y \in Int
  BY <1>1, GripAssumption DEF IInv, Shape
<1>4. Inside(cursor, WindowBox(drag))
  BY <1>1, <1>2, <1>3 DEF Inside, TitleBar, WindowBox, Rect
<1>5. stack \in Seq(Windows) /\ stack # <<>> /\ stack[Len(stack)] = drag
  BY DEF IInv, Shape, DragOnTop
<1>6. Len(stack) \in DOMAIN stack
  BY <1>5
<1>7. Len(stack) \in Hits(cursor)
  BY <1>4, <1>5, <1>6 DEF Hits
<1> QED
  BY <1>1, <1>5, <1>7, FoundWindow

(* What a press leaves, one case per branch (main.c:416-455).              *)
LEMMA DownFits ==
    ASSUME IInv, NEW buttons, L \in buttons
    PROVE  LET u == MouseDown(cursor)
           IN  /\ u.stack \in Seq(Windows) /\ u.drag \in Windows \cup {None}
               /\ DragFits(u, buttons)
<1> DEFINE hit  == wm_find_window_at(cursor)
           btns == {btn \in Buttons : CalcActive /\ Inside(cursor, InCalc(ButtonBox[btn]))}
<1>1. stack \in Seq(Windows) /\ drag \in Windows \cup {None}
  BY DEF IInv, Shape
<1>2. hit # None => Hits(cursor) # {} /\ hit \in Windows /\ stack # <<>>
  BY <1>1, FoundWindow DEF wm_find_window_at
<1>3. drag # None => hit = drag /\ Inside(cursor, TitleBar(hit))
  BY DragIsFound
<1>4. CASE hit # None /\ Inside(cursor, CloseBox(hit))
  <2>1. MouseDown(cursor) = CloseWindow(hit)
    BY <1>4 DEF MouseDown
  <2>2. /\ CloseWindow(hit).stack = Above(IndexOf(hit))
        /\ CloseWindow(hit).drag = IF drag = hit THEN None ELSE drag
    BY DEF CloseWindow, wm_remove_window, wm_draw_all, UI
  <2>3. CloseWindow(hit).drag = None
    BY <1>3, <2>2
  <2>4. Above(IndexOf(hit)) \in Seq(Windows)
    BY <1>1, <1>2, <1>4, AboveType
  <2> QED
    BY <2>1, <2>2, <2>3, <2>4 DEF DragFits
<1>5. CASE hit # None /\ ~Inside(cursor, CloseBox(hit)) /\ Inside(cursor, TitleBar(hit))
  <2> DEFINE b == wm_bring_to_top(hit)
  <2>1. MouseDown(cursor) = [b EXCEPT !.drag = hit]
    BY <1>5 DEF MouseDown
  <2>2. /\ b.stack \in Seq(Windows) /\ b.stack # <<>> /\ b.stack[Len(b.stack)] = hit
    BY <1>1, <1>2, <1>5, RaiseFits
  <2>3. [b EXCEPT !.drag = hit].stack = b.stack /\ [b EXCEPT !.drag = hit].drag = hit
    BY DEF wm_bring_to_top, wm_draw_all, UI
  <2> QED
    BY <1>2, <1>5, <2>1, <2>2, <2>3 DEF DragFits
<1>6. CASE /\ ~(hit # None /\ Inside(cursor, CloseBox(hit)))
           /\ ~(hit # None /\ Inside(cursor, TitleBar(hit)))
  <2>1. drag = None
    BY <1>2, <1>3, <1>6, BootAssumption, <1>1
  <2>2. CASE btns # {}
    <3>1. MouseDown(cursor) = button_handle_down(CHOOSE btn \in btns : TRUE)
      BY <1>6, <2>2 DEF MouseDown
    <3>2. MouseDown(cursor).stack = stack /\ MouseDown(cursor).drag = drag
      BY <3>1 DEF button_handle_down, CalcPaints, UI
    <3> QED
      BY <1>1, <2>1, <3>2 DEF DragFits
  <2>3. CASE btns = {}
    <3>1. MouseDown(cursor) = wm_handle_click(cursor)
      BY <1>6, <2>3 DEF MouseDown
    <3>2. CASE Hits(cursor) = {}
      BY <1>1, <2>1, <3>1, <3>2 DEF wm_handle_click, UI, DragFits
    <3>3. CASE Hits(cursor) # {}
      BY <1>1, <2>1, <3>1, <3>3, FoundWindow, RaiseFits DEF wm_handle_click, DragFits
    <3> QED
      BY <3>2, <3>3
  <2> QED
    BY <2>2, <2>3
<1> QED
  BY <1>4, <1>5, <1>6

(* What a release leaves: no drag (main.c:456-470).                        *)
LEMMA UpFits ==
    ASSUME IInv, NEW buttons
    PROVE  LET u == MouseUp(cursor)
           IN  u.stack \in Seq(Windows) /\ u.drag = None
<1>1. stack \in Seq(Windows)
  BY DEF IInv, Shape
<1>2. CASE drag # None
  BY <1>1, <1>2 DEF MouseUp, UI
<1>3. CASE drag = None /\ CalcActive /\ pressed # None
  BY <1>1, <1>3 DEF MouseUp, button_handle_up, CalcPaints, UI
<1>4. CASE drag = None /\ ~(CalcActive /\ pressed # None)
  <2>1. MouseUp(cursor) = wm_handle_click(cursor)
    BY <1>4 DEF MouseUp
  <2>2. CASE Hits(cursor) = {}
    BY <1>1, <1>4, <2>1, <2>2 DEF wm_handle_click, UI
  <2>3. CASE Hits(cursor) # {}
    BY <1>1, <1>4, <2>1, <2>3, FoundWindow, RaiseFits DEF wm_handle_click
  <2> QED
    BY <2>2, <2>3
<1> QED
  BY <1>2, <1>3, <1>4

(* A packet keeps the invariant: the click first, at the old position, and *)
(* then the movement of the cursor and of the window (mouse.c:119-184).    *)
LEMMA PacketKeeps ==
    ASSUME IInv, NEW buttons, NEW dx \in Steps, NEW dy \in Steps,
           mouse_process_packet(buttons, dx, dy)
    PROVE  IInv'
<1> DEFINE u == IF buttons # held THEN on_mouse_click(cursor, buttons) ELSE UI
<1>1. u.stack \in Seq(Windows) /\ u.drag \in Windows \cup {None} /\ DragFits(u, buttons)
  <2>1. CASE buttons # held /\ L \in buttons
    BY <2>1, DownFits DEF on_mouse_click
  <2>2. CASE buttons # held /\ L \notin buttons
    BY <2>2, UpFits DEF on_mouse_click, DragFits
  <2>3. CASE buttons = held
    BY <2>3 DEF UI, IInv, Shape, DragOnTop, GripHeld, DragFits
  <2> QED
    BY <2>1, <2>2, <2>3
<1>2. /\ stack' = u.stack /\ drag' = u.drag /\ held' = buttons
      /\ dx # 0 \/ dy # 0 => /\ cursor' = MoveCursor(dx, dy)
                            /\ pos' = on_mouse_move(u.drag, dx, dy).pos
      /\ ~(dx # 0 \/ dy # 0) => cursor' = cursor /\ pos' = pos
  BY DEF mouse_process_packet
<1> HIDE DEF u
<1>3. stack' \in Seq(Windows) /\ drag' \in Windows \cup {None} /\ DragOnTop'
  BY <1>1, <1>2 DEF DragFits, DragOnTop
<1>4. /\ {Width, Height, CursorW, CursorH, TitleBarH, MinGrip} \subseteq Int
      /\ 0 < CursorW /\ CursorW <= MinGrip /\ MinGrip <= Width
      /\ 0 < CursorH /\ CursorH <= TitleBarH /\ TitleBarH <= Height
      /\ dx \in Int /\ dy \in Int /\ -dy \in Int
  BY GripAssumption
<1>5. /\ cursor.x \in 0 .. Width - CursorW /\ cursor.y \in 0 .. Height - CursorH
      /\ cursor = [x |-> cursor.x, y |-> cursor.y]
  BY DEF IInv, Shape
<1>6. \A v \in Windows : /\ pos[v].x \in 0 .. Width - MinGrip
                         /\ pos[v].y \in 0 .. Height - TitleBarH
  BY DEF IInv, Shape
<1>7. CASE ~(dx # 0 \/ dy # 0)
  <2>1. cursor' = cursor /\ pos' = pos
    BY <1>2, <1>7
  <2>2. GripHeld'
    BY <1>1, <1>2, <2>1 DEF DragFits, GripHeld, Inside, TitleBar, Rect
  <2> QED
    BY <1>3, <2>1, <2>2 DEF IInv, Shape
<1>8. CASE dx # 0 \/ dy # 0
  <2>1. cursor' = MoveCursor(dx, dy)
    BY <1>2, <1>8
  <2>2. CASE drag' = None
    <3>1. pos' = pos
      BY <1>2, <1>8, <2>2 DEF on_mouse_move
    <3>2. cursor' \in [x : 0 .. Width - CursorW, y : 0 .. Height - CursorH]
      BY <1>4, <1>5, <2>1 DEF MoveCursor, Clamp, Least, Largest
    <3>3. GripHeld'
      BY <2>2 DEF GripHeld
    <3> QED
      BY <1>3, <3>1, <3>2, <3>3 DEF IInv, Shape
  <2>3. CASE drag' # None
    <3>a. PICK v \in Windows : v = drag'
      BY <1>3, <2>3
    <3> DEFINE n == MoveWindow(v, dx, dy)
    <3>1. v \in Windows /\ Inside(cursor, TitleBar(v))
      BY <1>1, <1>2, <2>3, <3>a DEF DragFits
    <3>2. pos' = [pos EXCEPT ![v] = n]
      BY <1>2, <1>8, <2>3, <3>a DEF on_mouse_move
    <3>3. Size[v].w \in Int /\ MinGrip <= Size[v].w
      BY <3>1, GripAssumption
    <3>4. /\ pos[v].x \in 0 .. Width - MinGrip /\ pos[v].y \in 0 .. Height - TitleBarH
      BY <1>6, <3>1
    <3>5. /\ pos[v].x <= cursor.x /\ cursor.x < pos[v].x + Size[v].w
          /\ pos[v].y <= cursor.y /\ cursor.y < pos[v].y + TitleBarH
      BY <3>1 DEF Inside, TitleBar, Rect
    <3>6. /\ Clamp(cursor.x + dx, 0, Width - CursorW) \in 0 .. Width - CursorW
          /\ Clamp(pos[v].x + dx, 0, Width - MinGrip) \in 0 .. Width - MinGrip
          /\ Clamp(pos[v].x + dx, 0, Width - MinGrip) <= Clamp(cursor.x + dx, 0, Width - CursorW)
          /\ Clamp(cursor.x + dx, 0, Width - CursorW)
                < Clamp(pos[v].x + dx, 0, Width - MinGrip) + Size[v].w
      <4>1. /\ Width \in Int /\ CursorW \in Int /\ MinGrip \in Int
            /\ cursor.x \in Int /\ pos[v].x \in Int
            /\ 0 <= pos[v].x /\ pos[v].x <= Width - MinGrip
            /\ 0 <= cursor.x /\ cursor.x <= Width - CursorW
        BY <1>4, <1>5, <3>4
      <4> QED
        BY <1>4, <3>3, <3>5, <4>1, ClampKeepsGrip
    <3>7. /\ Clamp(cursor.y - dy, 0, Height - CursorH) \in 0 .. Height - CursorH
          /\ Clamp(pos[v].y - dy, 0, Height - TitleBarH) \in 0 .. Height - TitleBarH
          /\ Clamp(pos[v].y - dy, 0, Height - TitleBarH) <= Clamp(cursor.y - dy, 0, Height - CursorH)
          /\ Clamp(cursor.y - dy, 0, Height - CursorH)
                < Clamp(pos[v].y - dy, 0, Height - TitleBarH) + TitleBarH
      <4>1. /\ Height \in Int /\ CursorH \in Int /\ TitleBarH \in Int
            /\ cursor.y \in Int /\ pos[v].y \in Int
            /\ 0 <= pos[v].y /\ pos[v].y <= Height - TitleBarH
            /\ 0 <= cursor.y /\ cursor.y <= Height - CursorH
        BY <1>4, <1>5, <3>4
      <4>2. cursor.y - dy = cursor.y + (-dy) /\ pos[v].y - dy = pos[v].y + (-dy)
        BY <1>4, <4>1
      <4>3. /\ Clamp(cursor.y + (-dy), 0, Height - CursorH) \in 0 .. Height - CursorH
            /\ Clamp(pos[v].y + (-dy), 0, Height - TitleBarH) \in 0 .. Height - TitleBarH
            /\ Clamp(pos[v].y + (-dy), 0, Height - TitleBarH)
                  <= Clamp(cursor.y + (-dy), 0, Height - CursorH)
            /\ Clamp(cursor.y + (-dy), 0, Height - CursorH)
                  < Clamp(pos[v].y + (-dy), 0, Height - TitleBarH) + TitleBarH
        BY <1>4, <3>5, <4>1, ClampKeepsGrip
      <4> QED
        BY <4>2, <4>3
    <3>8. pos' \in [Windows -> [x : 0 .. Width - MinGrip, y : 0 .. Height - TitleBarH]]
      <4>1. n \in [x : 0 .. Width - MinGrip, y : 0 .. Height - TitleBarH]
        BY <3>6, <3>7 DEF MoveWindow
      <4> HIDE DEF n
      <4> QED
        BY <3>2, <4>1 DEF IInv, Shape
    <3>9. cursor' \in [x : 0 .. Width - CursorW, y : 0 .. Height - CursorH]
      BY <2>1, <3>6, <3>7 DEF MoveCursor
    <3>10. pos'[v] = n
      BY <3>1, <3>2 DEF IInv, Shape
    <3>11. GripHeld'
      <4>1. Inside(cursor, TitleBar(v))'
        BY <2>1, <3>6, <3>7, <3>10 DEF Inside, TitleBar, Rect, MoveCursor, MoveWindow
      <4> QED
        BY <3>a, <4>1 DEF GripHeld
    <3> QED
      BY <1>3, <3>8, <3>9, <3>11 DEF IInv, Shape
  <2> QED
    BY <2>2, <2>3
<1> QED
  BY <1>7, <1>8

(* The boot state: no drag, and every window and the cursor on the screen  *)
(* (main.c:544-571, mouse.c:285-290).                                      *)
LEMMA InitIInv == Init => IInv
<1> SUFFICES ASSUME Init PROVE IInv
  OBVIOUS
<1>1. Width \div 2 \in 0 .. Width - CursorW /\ Height \div 2 \in 0 .. Height - CursorH
  BY GripAssumption
<1> QED
  BY <1>1, BootAssumption DEF Init, IInv, Shape, DragOnTop, GripHeld

(* No step of the window system ends the invariant.                        *)
LEMMA NextIInv == IInv /\ [Next]_vars => IInv'
<1> SUFFICES ASSUME IInv, [Next]_vars PROVE IInv'
  OBVIOUS
<1>1. ASSUME NEW buttons \in MouseButtons, NEW dx \in Steps, NEW dy \in Steps,
             mouse_process_packet(buttons, dx, dy)
      PROVE  IInv'
  BY <1>1, PacketKeeps
<1>2. CASE UNCHANGED <<stack, pos, drag, held, cursor>>
  BY <1>2 DEF IInv, Shape, DragOnTop, GripHeld, Inside, TitleBar, Rect
<1>3. CASE FlushSnapshot
  <2>1. UNCHANGED <<stack, pos, drag, held, cursor>>
    BY <1>3 DEF FlushSnapshot
  <2> QED
    BY <1>2, <2>1
<1>4. CASE FlushDraw
  <2>1. UNCHANGED <<stack, pos, drag, held, cursor>>
    BY <1>4 DEF FlushDraw
  <2> QED
    BY <1>2, <2>1
<1>5. CASE UNCHANGED vars
  BY <1>2, <1>5 DEF vars
<1> QED
  BY <1>1, <1>3, <1>4, <1>5 DEF Next

-----------------------------------------------------------------------------
(* No sequence of packets, chords and lost releases included, leaves a     *)
(* drag on a window that is not the top one, is closed, or was let go.     *)
THEOREM DragOnTopHolds == Spec => []DragOnTop
<1>1. IInv => DragOnTop
  BY DEF IInv
<1> QED
  BY <1>1, InitIInv, NextIInv, PTL DEF Spec

(* The cursor never slips off the title bar it drags, whatever the screen, *)
(* the windows and the movements, as long as the strip a drag leaves on    *)
(* the screen is no smaller than the cursor.                               *)
THEOREM GripHeldHolds == Spec => []GripHeld
<1>1. IInv => GripHeld
  BY DEF IInv
<1> QED
  BY <1>1, InitIInv, NextIInv, PTL DEF Spec

-----------------------------------------------------------------------------
(* What the screen shows.  TypeOK, NoGhost and CursorTransparent are       *)
(* inductive together with IInv: a click leaves a picture of the windows   *)
(* it lists, and the movement that follows damages every pixel the moved   *)
(* window was painted on.                                                  *)

Screenwise == TypeOK /\ NoGhost /\ CursorTransparent

\* The pixels of a damage rectangle.
DamageCells(d) == IF d = None THEN {} ELSE Cells(d)

\* A picture taken of a screen, with the cursor lifted.
Lifted(shown) == cursor_restore(shown.screen, shown.backup)

\* Where the calculator paints of its own accord.
CalcCells == Cells(InCalc(Display)) \cup UNION {ButtonCells(btn) : btn \in Buttons}

\* NoGhost of a picture, a list and the pixels still to be flushed.
Ghostless(pic, s, pending) ==
    \A p \in (0 .. Width - 2) \X (0 .. Height - 2) \ pending :
       pic[p] # Desktop => \E i \in DOMAIN s : s[i] = pic[p] /\ p \in window_draw(s[i])

\* CursorTransparent of a picture and the one drawn without a cursor.
Matches(pic, flat, pending) ==
    \A p \in Pixels \ pending : p \notin CalcCells => pic[p] = flat[p]

\* The screen, the pixels under a cursor at `at', and the plain picture.
Frames(scr, under, flat, at) ==
    /\ scr \in [Pixels -> Windows \cup {Desktop, Cursor}]
    /\ under \in [CursorCells(at) -> Windows \cup {Desktop, Cursor}]
    /\ flat \in [Pixels -> Windows \cup {Desktop}]

Distinct(s) == \A i, j \in DOMAIN s : s[i] = s[j] => i = j

(* A pixel drawn over shows what was there or a window painted there       *)
(* (wm.c:217-228).                                                         *)
LEMMA DrawnOver ==
    ASSUME NEW scr, NEW s \in Seq(Windows), NEW which \in SUBSET DOMAIN s, NEW p \in Pixels
    PROVE  \/ DrawOver(scr, s, which)[p] = scr[p]
           \/ \E i \in which : DrawOver(scr, s, which)[p] = s[i] /\ p \in window_draw(s[i])
<1> DEFINE on == {i \in which : p \in window_draw(s[i])}
<1>1. DrawOver(scr, s, which)[p]
        = IF on = {} THEN scr[p] ELSE s[CHOOSE i \in on : \A j \in on : j <= i]
  BY Zenon DEF DrawOver
<1>2. on \in SUBSET (1 .. Len(s)) /\ Len(s) \in Nat
  OBVIOUS
<1>3. ASSUME on # {}
      PROVE  (CHOOSE i \in on : \A j \in on : j <= i) \in on
  BY <1>2, <1>3, LastOne
<1> QED
  BY <1>1, <1>3

(* The same windows drawn over two screens leave the pixels alike on which *)
(* the screens were.                                                       *)
LEMMA DrawnAlike ==
    ASSUME NEW a, NEW b, NEW s, NEW which, NEW p \in Pixels, a[p] = b[p]
    PROVE  DrawOver(a, s, which)[p] = DrawOver(b, s, which)[p]
  BY DEF DrawOver

LEMMA DrawOverType ==
    ASSUME NEW C, Windows \subseteq C, NEW scr \in [Pixels -> C],
           NEW s \in Seq(Windows), NEW which \in SUBSET DOMAIN s
    PROVE  DrawOver(scr, s, which) \in [Pixels -> C]
<1>1. ASSUME NEW p \in Pixels PROVE DrawOver(scr, s, which)[p] \in C
  <2>1. (\A i \in which : s[i] \in C) /\ scr[p] \in C
    OBVIOUS
  <2>2. \/ DrawOver(scr, s, which)[p] = scr[p]
        \/ \E i \in which : DrawOver(scr, s, which)[p] = s[i]
    BY DrawnOver
  <2>3. CASE DrawOver(scr, s, which)[p] = scr[p]
    BY Zenon, <2>1, <2>3
  <2>4. ASSUME NEW i \in which, DrawOver(scr, s, which)[p] = s[i]
        PROVE  DrawOver(scr, s, which)[p] \in C
    BY Zenon, <2>1, <2>4
  <2> QED
    BY Zenon, <2>2, <2>3, <2>4
<1> DEFINE shows(p) == LET on == {i \in which : p \in window_draw(s[i])}
                       IN  IF on = {} THEN scr[p]
                           ELSE s[CHOOSE i \in on : \A j \in on : j <= i]
<1>2. DrawOver(scr, s, which) = [p \in Pixels |-> shows(p)]
  BY Zenon DEF DrawOver
<1> HIDE DEF shows
<1>3. \A p \in Pixels : shows(p) \in C
  BY <1>1, <1>2
<1> QED
  BY <1>2, <1>3

(* Lifting the cursor that was just drawn shows what it was drawn over     *)
(* (mouse.c:76-112).                                                       *)
LEMMA LiftDrawn ==
    ASSUME NEW scr, NEW at, NEW p \in Pixels
    PROVE  Lifted(cursor_draw(scr, at))[p] = scr[p]
<1>1. CursorCells(at) \subseteq Pixels
  BY DEF CursorCells, Cells
<1> QED
  BY <1>1 DEF Lifted, cursor_restore, cursor_draw

LEMMA CursorType ==
    ASSUME NEW scr \in [Pixels -> Windows \cup {Desktop, Cursor}], NEW at
    PROVE  /\ cursor_draw(scr, at).screen \in [Pixels -> Windows \cup {Desktop, Cursor}]
           /\ cursor_draw(scr, at).backup \in [CursorCells(at) -> Windows \cup {Desktop, Cursor}]
<1>1. CursorCells(at) \subseteq Pixels
  BY DEF CursorCells, Cells
<1> QED
  BY <1>1 DEF cursor_draw

LEMMA LiftedType ==
    ASSUME NEW scr, NEW under, NEW flat, NEW at, Frames(scr, under, flat, at)
    PROVE  cursor_restore(scr, under) \in [Pixels -> Windows \cup {Desktop, Cursor}]
  BY DEF Frames, cursor_restore

(* The picture wm_draw_all leaves shows the windows of its list, and it    *)
(* differs from the one without a cursor where they differed before        *)
(* (wm.c:217-232).                                                         *)
LEMMA DrawAllKeeps ==
    ASSUME NEW pic, NEW flat, NEW s \in Seq(Windows), NEW pending, NEW q, NEW r,
           \A p \in Pixels : q[p] = DrawAll(pic, s)[p], r = DrawAll(flat, s)
    PROVE  /\ Ghostless(q, s, pending)
           /\ Matches(pic, flat, pending) => Matches(q, r, pending)
<1> DEFINE base(x) == [p \in Pixels |-> IF p[1] < Width - 1 /\ p[2] < Height - 1
                                        THEN Desktop ELSE x[p]]
<1>1. \A x : DrawAll(x, s) = DrawOver(base(x), s, DOMAIN s)
  BY Zenon DEF DrawAll
<1>2. ASSUME NEW p \in (0 .. Width - 2) \X (0 .. Height - 2)
      PROVE  p \in Pixels /\ base(pic)[p] = Desktop
  <2>1. Width \in Nat /\ Height \in Nat
    BY GripAssumption
  <2>2. p \in Pixels /\ p[1] < Width - 1 /\ p[2] < Height - 1
    BY <2>1 DEF Pixels
  <2> QED
    BY <2>2
<1>3. \A p \in Pixels : pic[p] = flat[p] => base(pic)[p] = base(flat)[p]
  OBVIOUS
<1> HIDE DEF base
<1>4. Ghostless(q, s, pending)
  <2> SUFFICES ASSUME NEW p \in (0 .. Width - 2) \X (0 .. Height - 2) \ pending, q[p] # Desktop
               PROVE  \E i \in DOMAIN s : s[i] = q[p] /\ p \in window_draw(s[i])
    BY DEF Ghostless
  <2>1. p \in Pixels /\ base(pic)[p] = Desktop
    BY <1>2
  <2>2. q[p] = DrawOver(base(pic), s, DOMAIN s)[p]
    BY <1>1, <2>1
  <2> QED
    BY <2>1, <2>2, DrawnOver
<1>5. Matches(pic, flat, pending) => Matches(q, r, pending)
  <2> SUFFICES ASSUME NEW p \in Pixels, pic[p] = flat[p]
               PROVE  q[p] = r[p]
    BY DEF Matches
  <2>1. base(pic)[p] = base(flat)[p]
    BY <1>3
  <2>2. DrawOver(base(pic), s, DOMAIN s)[p] = DrawOver(base(flat), s, DOMAIN s)[p]
    BY <2>1, DrawnAlike
  <2> QED
    BY <1>1, <2>2
<1> QED
  BY <1>4, <1>5

(* The list without the window at position i lists the others, once each   *)
(* (wm.c:62-65, 98-100).                                                   *)
LEMMA AboveOthers ==
    ASSUME stack \in Seq(Windows), Distinct(stack), NEW i \in DOMAIN stack
    PROVE  /\ Distinct(Above(i))
           /\ \A j \in DOMAIN Above(i) : Above(i)[j] # stack[i]
<1>1. PICK n \in Nat : n = Len(stack)
  OBVIOUS
<1>2. /\ DOMAIN stack = 1 .. n /\ i \in 1 .. n
      /\ Above(i) = [j \in 1 .. n - 1 |-> IF j < i THEN stack[j] ELSE stack[j + 1]]
  BY <1>1 DEF Above
<1> DEFINE from(j) == IF j < i THEN j ELSE j + 1
<1>3. \A j \in 1 .. n - 1 : /\ from(j) \in 1 .. n /\ from(j) # i
                            /\ Above(i)[j] = stack[from(j)]
  BY <1>2
<1>4. \A j, k \in 1 .. n - 1 : from(j) = from(k) => j = k
  BY <1>2
<1>5. DOMAIN Above(i) = 1 .. n - 1
  BY <1>2
<1> HIDE DEF from
<1>6. \A j \in DOMAIN Above(i) : Above(i)[j] # stack[i]
  BY <1>2, <1>3, <1>5 DEF Distinct
<1>7. Distinct(Above(i))
  <2> SUFFICES ASSUME NEW j \in 1 .. n - 1, NEW k \in 1 .. n - 1, Above(i)[j] = Above(i)[k]
               PROVE  j = k
    BY <1>5 DEF Distinct
  <2>1. stack[from(j)] = stack[from(k)]
    BY <1>3
  <2> QED
    BY <1>2, <1>3, <1>4, <2>1 DEF Distinct
<1> QED
  BY <1>6, <1>7

LEMMA AppendDistinct ==
    ASSUME NEW s \in Seq(Windows), Distinct(s), NEW v \in Windows,
           \A j \in DOMAIN s : s[j] # v
    PROVE  Append(s, v) \in Seq(Windows) /\ Distinct(Append(s, v))
  BY DEF Distinct

(* The picture of a handler's result, and what it must be.                 *)
Draws(u, pending) ==
    /\ u.stack \in Seq(Windows) /\ Distinct(u.stack)
    /\ u.pressed \in Buttons \cup {None}
    /\ Frames(u.shown.screen, u.shown.backup, u.plain, cursor)
    /\ Ghostless(Lifted(u.shown), u.stack, pending)
    /\ Matches(Lifted(u.shown), u.plain, pending)

(* A window of the list is found at its position.                          *)
LEMMA IndexFinds ==
    ASSUME NEW v, \E i \in DOMAIN stack : stack[i] = v
    PROVE  IndexOf(v) \in DOMAIN stack /\ stack[IndexOf(v)] = v
  BY Zenon DEF IndexOf

LEMMA FoundListed ==
    ASSUME NEW p, stack \in Seq(Windows), Hits(p) # {}
    PROVE  \E i \in DOMAIN stack : stack[i] = wm_find_window_at(p)
<1> DEFINE top == CHOOSE i \in Hits(p) : \A j \in Hits(p) : j <= i
<1>1. Hits(p) \in SUBSET (1 .. Len(stack)) /\ Len(stack) \in Nat
  BY DEF Hits
<1>2. top \in Hits(p)
  BY <1>1, LastOne
<1>3. wm_find_window_at(p) = stack[top]
  BY DEF wm_find_window_at
<1> HIDE DEF top
<1>4. top \in DOMAIN stack
  BY <1>2 DEF Hits
<1> QED
  BY Zenon, <1>3, <1>4

LEMMA UIDraws ==
    ASSUME Screenwise
    PROVE  Draws(UI, Pending)
<1>1. /\ UI.stack = stack /\ UI.pressed = pressed /\ UI.plain = plain
      /\ UI.shown.screen = screen /\ UI.shown.backup = backup /\ Lifted(UI.shown) = Picture
  BY Zenon DEF UI, Shown, Lifted, Picture
<1>2. Frames(screen, backup, plain, cursor) /\ stack \in Seq(Windows) /\ Distinct(stack)
      /\ pressed \in Buttons \cup {None}
  BY Zenon DEF Screenwise, TypeOK, Frames, Distinct
<1>3. Ghostless(Picture, stack, Pending)
  BY Zenon DEF Screenwise, NoGhost, Ghostless
<1>4. Matches(Picture, plain, Pending)
  BY Zenon DEF Screenwise, CursorTransparent, Matches, CalcCells
<1> QED
  BY Zenon, <1>1, <1>2, <1>3, <1>4 DEF Draws

(* Listing, drawing, closing and raising: wm_draw_all hides the cursor,    *)
(* draws the list and draws the cursor again (wm.c:90-133, 217-232).       *)
LEMMA DrawAllDraws ==
    ASSUME Screenwise, NEW s \in Seq(Windows), Distinct(s)
    PROVE  Draws(wm_draw_all(s), Pending)
<1> DEFINE pic == DrawAll(Picture, s)
           new == cursor_draw(pic, cursor)
           flat == DrawAll(plain, s)
<1>1. /\ wm_draw_all(s).stack = s /\ wm_draw_all(s).pressed = pressed
      /\ wm_draw_all(s).shown = new /\ wm_draw_all(s).plain = flat
  BY DEF wm_draw_all, UI, Picture
<1>2. Frames(screen, backup, plain, cursor) /\ pressed \in Buttons \cup {None}
  BY Zenon DEF Screenwise, TypeOK, Frames
<1>3. Picture \in [Pixels -> Windows \cup {Desktop, Cursor}]
  BY <1>2, LiftedType DEF Picture
<1>4. ASSUME NEW C, Windows \cup {Desktop} \subseteq C, NEW scr \in [Pixels -> C]
      PROVE  DrawAll(scr, s) \in [Pixels -> C]
  <2> DEFINE base == [p \in Pixels |-> IF p[1] < Width - 1 /\ p[2] < Height - 1
                                       THEN Desktop ELSE scr[p]]
  <2>1. base \in [Pixels -> C]
    BY <1>4
  <2>2. DrawAll(scr, s) = DrawOver(base, s, DOMAIN s)
    BY Zenon DEF DrawAll
  <2> HIDE DEF base
  <2>3. Windows \subseteq C /\ DOMAIN s \in SUBSET DOMAIN s
    BY <1>4
  <2> QED
    BY <2>1, <2>2, <2>3, DrawOverType
<1>5. pic \in [Pixels -> Windows \cup {Desktop, Cursor}]
  BY <1>3, <1>4
<1>6. flat \in [Pixels -> Windows \cup {Desktop}]
  <2>1. plain \in [Pixels -> Windows \cup {Desktop}]
    BY <1>2 DEF Frames
  <2> QED
    BY <1>4, <2>1
<1>7. \A p \in Pixels : Lifted(new)[p] = DrawAll(Picture, s)[p]
  BY LiftDrawn
<1>8. Matches(Picture, plain, Pending)
  BY Zenon DEF Screenwise, CursorTransparent, Matches, CalcCells
<1>9. Ghostless(Lifted(new), s, Pending) /\ Matches(Lifted(new), flat, Pending)
  <2> HIDE DEF new
  <2> QED
    BY <1>7, <1>8, DrawAllKeeps
<1>10. Frames(new.screen, new.backup, flat, cursor)
  <2> HIDE DEF pic, flat
  <2> QED
    BY <1>5, <1>6, CursorType DEF Frames
<1> HIDE DEF new, flat
<1> QED
  BY Zenon, <1>1, <1>2, <1>9, <1>10 DEF Draws

(* The display and the buttons lie inside what window_draw paints          *)
(* (calc.c:24-27, 177-210).                                                *)
LEMMA CalcInside ==
    ASSUME pos[Calc].x \in Int, pos[Calc].y \in Int
    PROVE  CalcCells \subseteq window_draw(Calc)
<1>1. ASSUME NEW box \in {Display} \cup {ButtonBox[btn] : btn \in Buttons}
      PROVE  Cells(InCalc(box)) \subseteq window_draw(Calc)
  <2>1. /\ box.x \in Nat \ {0} /\ box.y \in Nat \ {0} /\ box.w \in Nat /\ box.h \in Nat
        /\ box.x + box.w < Size[Calc].w /\ box.y + box.h < Size[Calc].h
    BY CalcAssumption
  <2>2. Size[Calc].w \in Nat /\ Size[Calc].h \in Nat
    BY CalcAssumption, GripAssumption
  <2> DEFINE b == WindowBox(Calc)
  <2>3. Cells([l |-> b.l + 1, t |-> b.t + 1, r |-> b.r - 1, b |-> b.b - 1])
          \subseteq window_draw(Calc)
    BY Zenon DEF window_draw
  <2>4. /\ b.l = pos[Calc].x /\ b.r = pos[Calc].x + Size[Calc].w
        /\ b.t = pos[Calc].y /\ b.b = pos[Calc].y + Size[Calc].h
    BY DEF WindowBox, Rect
  <2> HIDE DEF b
  <2>5. Cells(InCalc(box))
          \subseteq Cells([l |-> b.l + 1, t |-> b.t + 1, r |-> b.r - 1, b |-> b.b - 1])
    <3> SUFFICES ASSUME NEW p \in Cells(InCalc(box))
                 PROVE  /\ p \in Pixels
                        /\ b.l + 1 <= p[1] /\ p[1] < b.r - 1
                        /\ b.t + 1 <= p[2] /\ p[2] < b.b - 1
      BY DEF Cells
    <3>1. /\ p \in Pixels
          /\ pos[Calc].x + box.x <= p[1] /\ p[1] < pos[Calc].x + box.x + box.w
          /\ pos[Calc].y + box.y <= p[2] /\ p[2] < pos[Calc].y + box.y + box.h
      BY DEF Cells, InCalc, Rect
    <3>2. p[1] \in Int /\ p[2] \in Int
      BY <3>1 DEF Pixels
    <3> QED
      BY <2>1, <2>2, <2>4, <3>1, <3>2
  <2> QED
    BY <2>3, <2>5
<1>2. ASSUME NEW p \in CalcCells
      PROVE  \E box \in {Display} \cup {ButtonBox[btn] : btn \in Buttons} :
                p \in Cells(InCalc(box))
  BY <1>2 DEF CalcCells, ButtonCells
<1> QED
  BY Zenon, <1>1, <1>2

(* A button or the display painted over the screen, the cursor included:   *)
(* the picture changes only inside the calculator (button.c:10-26,         *)
(* calc.c:43-68).                                                          *)
LEMMA CalcDraws ==
    ASSUME Screenwise, CalcActive, NEW cells \in SUBSET CalcCells,
           NEW btn \in Buttons \cup {None}
    PROVE  Draws(CalcPaints(cells, btn), Pending)
<1> DEFINE new == [screen |-> PaintCalc(screen, cells), backup |-> backup]
           flat == PaintCalc(plain, cells)
<1>1. /\ CalcPaints(cells, btn).stack = stack /\ CalcPaints(cells, btn).pressed = btn
      /\ CalcPaints(cells, btn).shown = new /\ CalcPaints(cells, btn).plain = flat
  BY DEF CalcPaints, UI
<1>2. /\ Frames(screen, backup, plain, cursor) /\ stack \in Seq(Windows) /\ Distinct(stack)
      /\ Ghostless(Picture, stack, Pending) /\ Matches(Picture, plain, Pending)
  <2>1. Draws(UI, Pending)
    BY UIDraws
  <2> QED
    BY Zenon, <2>1 DEF Draws, UI, Shown, Lifted, Picture
<1>3. Frames(new.screen, new.backup, flat, cursor)
  BY <1>2, CalcAssumption DEF Frames, PaintCalc
<1>4. \A p \in Pixels : \/ Lifted(new)[p] = Picture[p]
                        \/ Lifted(new)[p] = Calc /\ p \in cells
  BY DEF Lifted, Picture, cursor_restore, PaintCalc
<1>5. \A p \in Pixels : p \notin cells => Lifted(new)[p] = Picture[p] /\ flat[p] = plain[p]
  BY DEF Lifted, Picture, cursor_restore, PaintCalc
<1>6. cells \subseteq window_draw(Calc)
  <2>1. pos[Calc] \in At
    BY CalcAssumption DEF Screenwise, TypeOK
  <2>2. pos[Calc].x \in Int /\ pos[Calc].y \in Int
    BY <2>1, GripAssumption DEF At
  <2> QED
    BY <2>2, CalcInside
<1> HIDE DEF new, flat
<1>7. Ghostless(Lifted(new), stack, Pending)
  <2> SUFFICES ASSUME NEW p \in (0 .. Width - 2) \X (0 .. Height - 2) \ Pending,
                      Lifted(new)[p] # Desktop
               PROVE  \E i \in DOMAIN stack : stack[i] = Lifted(new)[p]
                                              /\ p \in window_draw(stack[i])
    BY DEF Ghostless
  <2>1. p \in Pixels
    BY GripAssumption DEF Pixels
  <2>2. PICK i \in DOMAIN stack : stack[i] = Calc
    BY DEF CalcActive
  <2>3. CASE Lifted(new)[p] = Picture[p]
    BY <1>2, <2>3 DEF Ghostless
  <2>4. CASE Lifted(new)[p] = Calc /\ p \in cells
    BY <1>6, <2>2, <2>4
  <2> QED
    BY <1>4, <2>1, <2>3, <2>4
<1>8. Matches(Lifted(new), flat, Pending)
  BY <1>2, <1>5 DEF Matches
<1> QED
  BY Zenon, <1>1, <1>2, <1>3, <1>7, <1>8 DEF Draws

\* Two results of a handler that differ at most in the window dragged.
SamePicture(u, w) ==
    /\ u.stack = w.stack /\ u.pressed = w.pressed
    /\ u.shown = w.shown /\ u.plain = w.plain

LEMMA SameDraws ==
    ASSUME NEW u, NEW w, SamePicture(u, w), Draws(w, Pending)
    PROVE  Draws(u, Pending)
  BY Zenon DEF SamePicture, Draws

(* Raising and closing a listed window (wm.c:90-103, 122-133).             *)
LEMMA RaiseDraws ==
    ASSUME Screenwise, NEW v \in Windows, \E i \in DOMAIN stack : stack[i] = v
    PROVE  Draws(wm_bring_to_top(v), Pending) /\ Draws(wm_remove_window(v), Pending)
<1>1. stack \in Seq(Windows) /\ Distinct(stack)
  BY Zenon DEF Screenwise, TypeOK, Distinct
<1>2. IndexOf(v) \in DOMAIN stack /\ stack[IndexOf(v)] = v
  BY IndexFinds
<1>3. PICK k \in DOMAIN stack : k = IndexOf(v) /\ stack[k] = v
  BY <1>2
<1>4. Above(k) \in Seq(Windows)
  BY <1>1, AboveType
<1>5. Distinct(Above(k)) /\ \A j \in DOMAIN Above(k) : Above(k)[j] # v
  BY <1>1, <1>3, AboveOthers
<1>6. Append(Above(k), v) \in Seq(Windows) /\ Distinct(Append(Above(k), v))
  BY <1>4, <1>5, AppendDistinct
<1>7. Draws(wm_draw_all(Append(Above(k), v)), Pending)
  BY <1>6, DrawAllDraws
<1>8. Draws(wm_draw_all(Above(k)), Pending)
  BY <1>4, <1>5, DrawAllDraws
<1>9. Draws(UI, Pending)
  BY UIDraws
<1>10. /\ wm_remove_window(v) = wm_draw_all(Above(k))
       /\ wm_bring_to_top(v) = IF v = stack[Len(stack)] THEN UI
                               ELSE wm_draw_all(Append(Above(k), v))
  BY Zenon, <1>3 DEF wm_remove_window, wm_bring_to_top
<1>11. Draws(wm_bring_to_top(v), Pending)
  <2>1. CASE v = stack[Len(stack)]
    BY Zenon, <1>9, <1>10, <2>1
  <2>2. CASE v # stack[Len(stack)]
    BY Zenon, <1>7, <1>10, <2>2
  <2> QED
    BY <2>1, <2>2
<1> QED
  BY Zenon, <1>8, <1>10, <1>11

(* A press or a release, one case per branch (main.c:414-471).             *)
LEMMA ClickDraws ==
    ASSUME IInv, Screenwise, NEW buttons
    PROVE  Draws(on_mouse_click(cursor, buttons), Pending)
<1> DEFINE hit  == wm_find_window_at(cursor)
           btns == {btn \in Buttons : CalcActive /\ Inside(cursor, InCalc(ButtonBox[btn]))}
<1>1. stack \in Seq(Windows) /\ pressed \in Buttons \cup {None}
  BY DEF Screenwise, TypeOK
<1>2. hit # None => hit \in Windows /\ \E i \in DOMAIN stack : stack[i] = hit
  BY <1>1, FoundWindow, FoundListed DEF wm_find_window_at
<1>3. hit # None => Draws(wm_bring_to_top(hit), Pending) /\ Draws(wm_remove_window(hit), Pending)
  BY <1>2, RaiseDraws
<1>4. Draws(UI, Pending)
  BY UIDraws
<1>5. Draws(wm_handle_click(cursor), Pending)
  <2>1. CASE Hits(cursor) = {}
    BY Zenon, <1>4, <2>1 DEF wm_handle_click
  <2>2. CASE Hits(cursor) # {}
    <3>1. hit # None
      BY <1>1, <2>2, FoundWindow, BootAssumption
    <3> QED
      BY Zenon, <1>3, <2>2, <3>1 DEF wm_handle_click
  <2> QED
    BY <2>1, <2>2
<1>6. ASSUME NEW btn \in Buttons, CalcActive
      PROVE  Draws(button_handle_down(btn), Pending)
  <2>1. ButtonCells(btn) \in SUBSET CalcCells
    BY DEF CalcCells
  <2> QED
    BY <1>6, <2>1, CalcDraws DEF button_handle_down
<1>7. ASSUME CalcActive, pressed # None
      PROVE  Draws(button_handle_up(cursor), Pending)
  <2> DEFINE shown == IF Inside(cursor, InCalc(ButtonBox[pressed]))
                      THEN Cells(InCalc(Display)) ELSE {}
  <2>1. shown \cup ButtonCells(pressed) \in SUBSET CalcCells
    BY <1>1, <1>7 DEF CalcCells
  <2>2. button_handle_up(cursor) = CalcPaints(shown \cup ButtonCells(pressed), None)
    BY Zenon DEF button_handle_up
  <2> HIDE DEF shown
  <2> QED
    BY <1>7, <2>1, <2>2, CalcDraws
<1>8. Draws(MouseDown(cursor), Pending)
  <2>1. CASE hit # None /\ Inside(cursor, CloseBox(hit))
    <3>1. MouseDown(cursor) = CloseWindow(hit)
      BY Zenon, <2>1 DEF MouseDown
    <3>2. SamePicture(CloseWindow(hit), wm_remove_window(hit))
      BY DEF SamePicture, CloseWindow, wm_remove_window, wm_draw_all, UI
    <3> QED
      BY Zenon, <1>3, <2>1, <3>1, <3>2, SameDraws
  <2>2. CASE hit # None /\ ~Inside(cursor, CloseBox(hit)) /\ Inside(cursor, TitleBar(hit))
    <3>1. MouseDown(cursor) = [wm_bring_to_top(hit) EXCEPT !.drag = hit]
      BY Zenon, <2>2 DEF MouseDown
    <3>2. SamePicture([wm_bring_to_top(hit) EXCEPT !.drag = hit], wm_bring_to_top(hit))
      BY DEF SamePicture, wm_bring_to_top, wm_draw_all, UI
    <3> QED
      BY Zenon, <1>3, <2>2, <3>1, <3>2, SameDraws
  <2>3. CASE /\ ~(hit # None /\ Inside(cursor, CloseBox(hit)))
             /\ ~(hit # None /\ Inside(cursor, TitleBar(hit)))
    <3>1. MouseDown(cursor) = IF btns # {} THEN button_handle_down(CHOOSE btn \in btns : TRUE)
                              ELSE wm_handle_click(cursor)
      BY Zenon, <2>3 DEF MouseDown
    <3>2. CASE btns # {}
      <4>1. (CHOOSE btn \in btns : TRUE) \in btns
        BY Zenon, <3>2
      <4> QED
        BY Zenon, <1>6, <3>1, <3>2, <4>1
    <3>3. CASE btns = {}
      BY Zenon, <1>5, <3>1, <3>3
    <3> QED
      BY <3>2, <3>3
  <2> QED
    BY <2>1, <2>2, <2>3
<1>9. Draws(MouseUp(cursor), Pending)
  <2>1. CASE drag # None
    <3>1. SamePicture([UI EXCEPT !.drag = None], UI)
      BY DEF SamePicture, UI
    <3> QED
      BY Zenon, <1>4, <2>1, <3>1, SameDraws DEF MouseUp
  <2>2. CASE drag = None /\ CalcActive /\ pressed # None
    BY Zenon, <1>7, <2>2 DEF MouseUp
  <2>3. CASE drag = None /\ ~(CalcActive /\ pressed # None)
    BY Zenon, <1>5, <2>3 DEF MouseUp
  <2> QED
    BY <2>1, <2>2, <2>3
<1> QED
  BY Zenon, <1>8, <1>9 DEF on_mouse_click

(* The damage on record lies on the screen, covers what it covered and     *)
(* everything of the new rectangle that is on the screen (wm.c:135-175).   *)
LEMMA MarkCovers ==
    ASSUME NEW d \in Box \cup {None}, NEW b,
           b.l \in Int, b.t \in Int, b.r \in Int, b.b \in Int
    PROVE  /\ wm_mark_dirty(d, b) \in Box \cup {None}
           /\ DamageCells(d) \subseteq DamageCells(wm_mark_dirty(d, b))
           /\ Cells(b) \subseteq DamageCells(wm_mark_dirty(d, b))
<1> DEFINE c == [l |-> Largest(b.l, 0), t |-> Largest(b.t, 0),
                 r |-> Least(b.r, Width), b |-> Least(b.b, Height)]
           j == [l |-> Least(d.l, c.l), t |-> Least(d.t, c.t),
                 r |-> Largest(d.r, c.r), b |-> Largest(d.b, c.b)]
<1>1. wm_mark_dirty(d, b) = IF c.l >= c.r \/ c.t >= c.b THEN d
                            ELSE IF d = None THEN c ELSE j
  BY Zenon DEF wm_mark_dirty
<1>2. Width \in Nat /\ Height \in Nat
  BY GripAssumption
<1>3. /\ c.l \in Int /\ c.t \in Int /\ c.r \in Int /\ c.b \in Int
      /\ b.l <= c.l /\ b.t <= c.t /\ c.r <= b.r /\ c.b <= b.b
      /\ 0 <= c.l /\ 0 <= c.t /\ c.r <= Width /\ c.b <= Height
  BY <1>2 DEF Largest, Least
<1>4. Cells(b) \subseteq Cells(c)
  <2>1. \A p \in Pixels : p[1] \in 0 .. Width - 1 /\ p[2] \in 0 .. Height - 1
    BY DEF Pixels
  <2> QED
    BY <1>2, <2>1 DEF Cells, Largest, Least
<1>5. CASE c.l >= c.r \/ c.t >= c.b
  <2>1. Cells(c) = {}
    <3>1. \A p \in Pixels : p[1] \in Int /\ p[2] \in Int
      BY DEF Pixels
    <3> HIDE DEF c
    <3> QED
      BY <1>3, <1>5, <3>1 DEF Cells
  <2> QED
    BY Zenon, <1>1, <1>4, <1>5, <2>1
<1>6. CASE ~(c.l >= c.r \/ c.t >= c.b) /\ d = None
  <2>1. c \in Box
    BY <1>2, <1>3, <1>6 DEF Box
  <2>2. c # None
    BY <2>1, BootAssumption
  <2> HIDE DEF c
  <2> QED
    BY <1>1, <1>4, <1>6, <2>1, <2>2 DEF DamageCells
<1>7. CASE ~(c.l >= c.r \/ c.t >= c.b) /\ d # None
  <2>1. /\ d.l \in 0 .. Width /\ d.r \in 0 .. Width
        /\ d.t \in 0 .. Height /\ d.b \in 0 .. Height
    BY <1>7 DEF Box
  <2> HIDE DEF c
  <2>2. j \in Box
    BY <1>2, <1>3, <1>7, <2>1 DEF Box, Largest, Least
  <2>3. j # None
    BY <2>2, BootAssumption
  <2>4. /\ j.l <= d.l /\ j.l <= c.l /\ j.t <= d.t /\ j.t <= c.t
        /\ d.r <= j.r /\ c.r <= j.r /\ d.b <= j.b /\ c.b <= j.b
        /\ j.l \in Int /\ j.t \in Int /\ j.r \in Int /\ j.b \in Int
    BY <1>3, <2>1 DEF Largest, Least
  <2> HIDE DEF j
  <2>5. \A p \in Pixels : p[1] \in Int /\ p[2] \in Int
    BY DEF Pixels
  <2>6. Cells(d) \subseteq Cells(j) /\ Cells(c) \subseteq Cells(j)
    BY <1>3, <2>1, <2>4, <2>5 DEF Cells
  <2> QED
    BY <1>1, <1>4, <1>7, <2>2, <2>3, <2>6 DEF DamageCells
<1> QED
  BY <1>5, <1>6, <1>7

(* A window paints only inside the rectangle a move damages: its box and   *)
(* the border right of it and below it (main.c:388-409).                   *)
LEMMA PaintsInside ==
    ASSUME NEW v \in Windows, pos[v].x \in Int, pos[v].y \in Int
    PROVE  window_draw(v) \subseteq Cells(DamageOf(v, pos[v]))
<1>1. /\ Size[v].w \in Nat /\ Size[v].h \in Nat
      /\ CloseSize + CloseMargin <= Size[v].w /\ CloseSize + CloseMargin <= Size[v].h
      /\ CloseSize \in Nat /\ CloseMargin \in Nat
  BY GripAssumption
<1>2. /\ WindowBox(v).l = pos[v].x /\ WindowBox(v).r = pos[v].x + Size[v].w
      /\ WindowBox(v).t = pos[v].y /\ WindowBox(v).b = pos[v].y + Size[v].h
  BY DEF WindowBox, Rect
<1>3. \A p \in Pixels : p[1] \in Int /\ p[2] \in Int
  BY DEF Pixels
<1>4. \A p \in Pixels : p \in Cells(DamageOf(v, pos[v])) <=>
         /\ pos[v].x <= p[1] /\ p[1] < pos[v].x + (Size[v].w + 1)
         /\ pos[v].y <= p[2] /\ p[2] < pos[v].y + (Size[v].h + 1)
  BY DEF Cells, DamageOf, Rect
<1>5. Border(WindowBox(v)) \subseteq Cells(DamageOf(v, pos[v]))
  BY <1>1, <1>2, <1>3, <1>4 DEF Border
<1>6. Cells(CloseBox(v)) \subseteq Cells(DamageOf(v, pos[v]))
  <2>1. \A p \in Cells(CloseBox(v)) :
           /\ p \in Pixels
           /\ pos[v].x + Size[v].w - CloseSize - CloseMargin <= p[1]
           /\ p[1] < pos[v].x + Size[v].w - CloseSize - CloseMargin + CloseSize
           /\ pos[v].y + CloseMargin <= p[2]
           /\ p[2] < pos[v].y + CloseMargin + CloseSize
    BY DEF Cells, CloseBox, Rect
  <2> QED
    BY <1>1, <1>3, <1>4, <2>1
<1>7. LET b == WindowBox(v)
      IN  Cells([l |-> b.l + 1, t |-> b.t + 1, r |-> b.r - 1, b |-> b.b - 1])
            \subseteq Cells(DamageOf(v, pos[v]))
  <2>1. \A p \in Cells([l |-> WindowBox(v).l + 1, t |-> WindowBox(v).t + 1,
                        r |-> WindowBox(v).r - 1, b |-> WindowBox(v).b - 1]) :
           /\ p \in Pixels
           /\ WindowBox(v).l + 1 <= p[1] /\ p[1] < WindowBox(v).r - 1
           /\ WindowBox(v).t + 1 <= p[2] /\ p[2] < WindowBox(v).b - 1
    BY DEF Cells
  <2> QED
    BY <1>1, <1>2, <1>3, <1>4, <2>1
<1> QED
  BY <1>5, <1>6, <1>7 DEF window_draw

(* After a click the movement: the picture stays that of the click, and    *)
(* what the moved window leaves behind is damage (mouse.c:119-184).        *)
LEMMA StepDraws ==
    ASSUME NEW u, Draws(u, Pending), TypeOK,
           stack' = u.stack, plain' = u.plain,
           \A p \in Pixels : Picture'[p] = Lifted(u.shown)[p],
           Pending \subseteq Pending',
           \A v \in Windows : pos'[v] # pos[v] => window_draw(v) \subseteq Pending'
    PROVE  NoGhost' /\ CursorTransparent'
<1>1. /\ Ghostless(Lifted(u.shown), stack', Pending)
      /\ Matches(Lifted(u.shown), plain', Pending)
      /\ stack' \in Seq(Windows)
  BY Zenon DEF Draws
<1>2. \A v \in Windows : pos'[v] = pos[v] => window_draw(v)' = window_draw(v)
  BY Zenon DEF window_draw, WindowBox, CloseBox
<1>3. NoGhost'
  <2> SUFFICES ASSUME NEW p \in (0 .. Width - 2) \X (0 .. Height - 2) \ Pending',
                      Picture'[p] # Desktop
               PROVE  (\E i \in DOMAIN stack : stack[i] = Picture[p]
                                              /\ p \in window_draw(stack[i]))'
    BY Zenon DEF NoGhost
  <2>1. p \in Pixels
    BY GripAssumption DEF Pixels
  <2>2. PICK i \in DOMAIN stack' : stack'[i] = Picture'[p] /\ p \in window_draw(stack'[i])
    BY <1>1, <2>1 DEF Ghostless
  <2>3. PICK v \in Windows : v = stack'[i]
    BY <1>1
  <2>4. pos'[v] = pos[v]
    BY <2>2, <2>3
  <2>5. p \in window_draw(v)'
    BY <1>2, <2>2, <2>3, <2>4
  <2>6. window_draw(v)' = (window_draw(stack[i]))'
    BY Zenon, <2>3 DEF window_draw, WindowBox, CloseBox
  <2> QED
    BY Zenon, <2>2, <2>3, <2>5, <2>6
<1>4. CursorTransparent'
  <2>1. CalcCells \subseteq window_draw(Calc)
    <3>1. pos[Calc] \in At
      BY CalcAssumption DEF TypeOK
    <3>2. pos[Calc].x \in Int /\ pos[Calc].y \in Int
      BY <3>1, GripAssumption DEF At
    <3> QED
      BY <3>2, CalcInside
  <2>2. pos'[Calc] = pos[Calc] => CalcCells' = CalcCells
    BY Zenon DEF CalcCells, ButtonCells, InCalc
  <2>3. \A p \in Pixels \ Pending' : p \notin CalcCells' => Picture'[p] = plain'[p]
    <3> SUFFICES ASSUME NEW p \in Pixels \ Pending', p \notin CalcCells'
                 PROVE  Lifted(u.shown)[p] = plain'[p]
      OBVIOUS
    <3>1. p \notin CalcCells
      BY <2>1, <2>2, CalcAssumption
    <3> QED
      BY <1>1, <3>1 DEF Matches
  <2> QED
    BY Zenon, <2>3 DEF CursorTransparent, CalcCells
<1> QED
  BY <1>3, <1>4

(* A packet keeps all three.                                               *)
LEMMA PacketDraws ==
    ASSUME IInv, IInv', Screenwise, NEW buttons \in MouseButtons,
           NEW dx \in Steps, NEW dy \in Steps, mouse_process_packet(buttons, dx, dy)
    PROVE  Screenwise'
<1> DEFINE u == IF buttons # held THEN on_mouse_click(cursor, buttons) ELSE UI
           mv == on_mouse_move(u.drag, dx, dy)
           moved == cursor_draw(cursor_restore(u.shown.screen, u.shown.backup),
                                MoveCursor(dx, dy))
<1>1. Draws(u, Pending)
  <2>1. CASE buttons # held
    BY <2>1, ClickDraws
  <2>2. CASE buttons = held
    BY <2>2, UIDraws
  <2> QED
    BY <2>1, <2>2
<1>2. /\ packets < MaxPackets /\ packets' = packets + 1
      /\ stack' = u.stack /\ drag' = u.drag
      /\ pressed' = u.pressed /\ plain' = u.plain
      /\ held' = buttons
      /\ IF dx # 0 \/ dy # 0
           THEN /\ cursor' = MoveCursor(dx, dy) /\ pos' = mv.pos /\ dirty' = mv.dirty
                /\ screen' = moved.screen /\ backup' = moved.backup
           ELSE /\ screen' = u.shown.screen /\ backup' = u.shown.backup
                /\ UNCHANGED <<cursor, pos, dirty>>
      /\ UNCHANGED snap
  BY Zenon DEF mouse_process_packet
<1> HIDE DEF u, mv, moved
<1>3. TypeOK
  BY Zenon DEF Screenwise
<1>4. /\ stack' \in Seq(Windows) /\ pos' \in [Windows -> At]
      /\ drag' \in Windows \cup {None} /\ cursor' \in At
  <2>1. /\ stack' \in Seq(Windows) /\ drag' \in Windows \cup {None}
        /\ pos' \in [Windows -> [x : 0 .. Width - MinGrip, y : 0 .. Height - TitleBarH]]
        /\ cursor' \in [x : 0 .. Width - CursorW, y : 0 .. Height - CursorH]
    BY DEF IInv, Shape
  <2>2. /\ 0 .. Width - MinGrip \subseteq 0 .. Width - 1
        /\ 0 .. Height - TitleBarH \subseteq 0 .. Height - 1
        /\ 0 .. Width - CursorW \subseteq 0 .. Width - 1
        /\ 0 .. Height - CursorH \subseteq 0 .. Height - 1
    BY GripAssumption
  <2> QED
    BY <2>1, <2>2 DEF At
<1>5. /\ dirty' \in Box \cup {None}
      /\ DamageCells(dirty) \subseteq DamageCells(dirty')
      /\ \A v \in Windows : pos'[v] # pos[v] => window_draw(v) \subseteq DamageCells(dirty')
  <2>1. dirty \in Box \cup {None} /\ pos \in [Windows -> At]
    BY <1>3 DEF TypeOK
  <2>2. CASE pos' = pos /\ dirty' = dirty
    BY <2>1, <2>2
  <2>3. CASE ~(pos' = pos /\ dirty' = dirty)
    <3>1. pos' = mv.pos /\ dirty' = mv.dirty
      BY Zenon, <1>2, <2>3
    <3>2. drag' # None
      BY <1>2, <2>3, <3>1 DEF mv, on_mouse_move
    <3>3. PICK v \in Windows : v = drag'
      BY <1>4, <3>2
    <3>4. PICK new : new = MoveWindow(v, dx, dy)
      OBVIOUS
    <3>5. /\ pos' = [pos EXCEPT ![v] = new]
          /\ dirty' = wm_mark_dirty(wm_mark_dirty(dirty, DamageOf(v, pos[v])), DamageOf(v, new))
      BY <1>2, <3>1, <3>2, <3>3, <3>4 DEF mv, on_mouse_move
    <3>6. pos'[v] = new
      BY <2>1, <3>5
    <3>7. \A at \in At : LET b == DamageOf(v, at)
                         IN  b.l \in Int /\ b.t \in Int /\ b.r \in Int /\ b.b \in Int
      BY GripAssumption DEF At, DamageOf, Rect
    <3>8. pos[v] \in At /\ new \in At
      BY <1>4, <2>1, <3>6
    <3>9. PICK d : d = wm_mark_dirty(dirty, DamageOf(v, pos[v]))
      OBVIOUS
    <3>10. /\ d \in Box \cup {None} /\ DamageCells(dirty) \subseteq DamageCells(d)
           /\ Cells(DamageOf(v, pos[v])) \subseteq DamageCells(d)
      BY <2>1, <3>7, <3>8, <3>9, MarkCovers
    <3>11. dirty' \in Box \cup {None} /\ DamageCells(d) \subseteq DamageCells(dirty')
      BY <3>5, <3>7, <3>8, <3>9, <3>10, MarkCovers
    <3>12. window_draw(v) \subseteq Cells(DamageOf(v, pos[v]))
      BY <3>8, GripAssumption, PaintsInside DEF At
    <3>13. \A w \in Windows : pos'[w] # pos[w] => w = v
      BY <2>1, <3>5
    <3> QED
      BY Zenon, <3>10, <3>11, <3>12, <3>13
  <2> QED
    BY <2>2, <2>3
<1>6. Pending = DamageCells(dirty) \cup DamageCells(snap)
      /\ Pending' = DamageCells(dirty') \cup DamageCells(snap)
  BY Zenon, <1>2 DEF Pending, DamageCells
<1>7. PICK scr, under : scr = u.shown.screen /\ under = u.shown.backup
  OBVIOUS
<1>8. Frames(scr, under, plain', cursor)
  BY Zenon, <1>1, <1>2, <1>7 DEF Draws
<1>9. /\ Frames(screen', backup', plain', cursor')
      /\ \A p \in Pixels : Picture'[p] = Lifted(u.shown)[p]
  <2>1. Lifted(u.shown) = cursor_restore(scr, under)
    BY Zenon, <1>7 DEF Lifted
  <2>2. Picture' = cursor_restore(screen', backup')
    BY Zenon DEF Picture
  <2>3. CASE dx # 0 \/ dy # 0
    <3>1. PICK at : at = MoveCursor(dx, dy)
      OBVIOUS
    <3>2. PICK pic : pic = cursor_restore(scr, under)
      OBVIOUS
    <3>3. PICK drawn : drawn = cursor_draw(pic, at)
      OBVIOUS
    <3>4. cursor' = at /\ screen' = drawn.screen /\ backup' = drawn.backup
      BY Zenon, <1>2, <1>7, <2>3, <3>1, <3>2, <3>3 DEF moved
    <3>5. pic \in [Pixels -> Windows \cup {Desktop, Cursor}]
      BY Zenon, <1>8, <3>2, LiftedType
    <3>6. Frames(screen', backup', plain', cursor')
      BY Zenon, <1>8, <3>3, <3>4, <3>5, CursorType DEF Frames
    <3>7. \A p \in Pixels : Lifted(drawn)[p] = pic[p]
      BY Zenon, <3>3, LiftDrawn
    <3>8. Lifted(drawn) = Picture'
      BY Zenon, <2>2, <3>4 DEF Lifted
    <3> QED
      BY Zenon, <2>1, <3>2, <3>6, <3>7, <3>8
  <2>4. CASE ~(dx # 0 \/ dy # 0)
    <3>1. screen' = scr /\ backup' = under /\ cursor' = cursor
      BY Zenon, <1>2, <1>7, <2>4
    <3> QED
      BY Zenon, <1>8, <2>1, <2>2, <3>1
  <2> QED
    BY <2>3, <2>4
<1>10. NoGhost' /\ CursorTransparent'
  <2>1. Pending \subseteq Pending'
    BY Zenon, <1>5, <1>6
  <2>2. \A v \in Windows : pos'[v] # pos[v] => window_draw(v) \subseteq Pending'
    BY Zenon, <1>5, <1>6
  <2>3. stack' = u.stack /\ plain' = u.plain
    BY Zenon, <1>2
  <2> QED
    BY Zenon, <1>1, <1>3, <1>9, <2>1, <2>2, <2>3, StepDraws
<1>11. TypeOK'
  <2>1. Distinct(stack') /\ pressed' \in Buttons \cup {None}
    BY Zenon, <1>1, <1>2 DEF Draws
  <2>2. packets' \in 0 .. MaxPackets
    BY <1>2, <1>3, GripAssumption DEF TypeOK
  <2>3. held' \in MouseButtons \cup {{}} /\ snap' \in Box \cup {None}
    BY <1>2, <1>3 DEF TypeOK
  <2> QED
    BY Zenon, <1>4, <1>5, <1>9, <2>1, <2>2, <2>3 DEF TypeOK, Frames, Distinct
<1> QED
  BY Zenon, <1>10, <1>11 DEF Screenwise

(* A step that moves no window and lists the same ones is judged by the    *)
(* same pixels.                                                            *)
LEMMA StillDrawn ==
    ASSUME TypeOK, stack' = stack, pos' = pos,
           \A p \in (0 .. Width - 2) \X (0 .. Height - 2) \ Pending' :
              Picture'[p] # Desktop =>
                 \E i \in DOMAIN stack : stack[i] = Picture'[p] /\ p \in window_draw(stack[i])
    PROVE  NoGhost'
<1> SUFFICES ASSUME NEW p \in (0 .. Width - 2) \X (0 .. Height - 2) \ Pending',
                    Picture'[p] # Desktop
             PROVE  (\E i \in DOMAIN stack : stack[i] = Picture[p]
                                            /\ p \in window_draw(stack[i]))'
  BY Zenon DEF NoGhost
<1>1. PICK i \in DOMAIN stack : stack[i] = Picture'[p] /\ p \in window_draw(stack[i])
  BY Zenon
<1>2. PICK v : v = stack[i]
  OBVIOUS
<1>3. window_draw(v)' = window_draw(v)
  BY Zenon DEF window_draw, WindowBox, CloseBox
<1>4. window_draw(v)' = (window_draw(stack[i]))'
  BY Zenon, <1>2 DEF window_draw, WindowBox, CloseBox
<1>5. p \in (window_draw(stack[i]))'
  BY Zenon, <1>1, <1>2, <1>3, <1>4
<1> QED
  BY Zenon, <1>1, <1>5

(* Taking the damage to flush loses none of it (main.c:897-914).           *)
LEMMA SnapshotDraws ==
    ASSUME Screenwise, FlushSnapshot
    PROVE  Screenwise'
<1>1. /\ snap = None /\ dirty # None /\ snap' = dirty /\ dirty' = None
      /\ UNCHANGED <<stack, pos, drag, pressed, held, cursor, screen, backup, plain, packets>>
  BY Zenon DEF FlushSnapshot
<1>2. Pending' = Pending
  BY Zenon, <1>1 DEF Pending
<1>3. TypeOK'
  BY <1>1 DEF Screenwise, TypeOK
<1>4. NoGhost'
  <2>1. Picture' = Picture
    BY Zenon, <1>1 DEF Picture
  <2>2. NoGhost /\ TypeOK
    BY DEF Screenwise
  <2> QED
    BY Zenon, <1>1, <1>2, <2>1, <2>2, StillDrawn DEF NoGhost
<1>5. CursorTransparent'
  BY Zenon, <1>1, <1>2 DEF Screenwise, CursorTransparent, Picture, ButtonCells, InCalc
<1> QED
  BY Zenon, <1>3, <1>4, <1>5 DEF Screenwise

(* A flush clears its rectangle and draws the windows that meet it over    *)
(* it, whole: outside the rectangle a pixel shows what it showed or a      *)
(* window painted there again (wm.c:181-232, main.c:897-914).              *)
LEMMA FlushDraws ==
    ASSUME Screenwise, FlushDraw
    PROVE  Screenwise'
<1> DEFINE base(scr) == [p \in Pixels |-> IF p \in Cells(snap) THEN Desktop ELSE scr[p]]
           which == {i \in DOMAIN stack : Meets(stack[i], snap)}
           pic == DrawDamage(Picture)
<1>1. /\ snap # None
      /\ screen' = cursor_draw(pic, cursor).screen
      /\ backup' = cursor_draw(pic, cursor).backup
      /\ plain' = DrawDamage(plain)
      /\ snap' = None
      /\ UNCHANGED <<stack, pos, drag, pressed, held, cursor, dirty, packets>>
  BY Zenon DEF FlushDraw, Picture
<1>2. \A x : DrawDamage(x) = DrawOver(base(x), stack, which)
  BY Zenon DEF DrawDamage
<1>3. stack \in Seq(Windows) /\ which \in SUBSET DOMAIN stack
  BY DEF Screenwise, TypeOK
<1>4. /\ \A x : \A p \in Pixels : base(x)[p] = Desktop \/ (p \notin Cells(snap) /\ base(x)[p] = x[p])
      /\ \A x, y : \A p \in Pixels : p \in Cells(snap) \/ x[p] = y[p] => base(x)[p] = base(y)[p]
  OBVIOUS
<1>5. ASSUME NEW C, Windows \cup {Desktop} \subseteq C, NEW x \in [Pixels -> C]
      PROVE  DrawDamage(x) \in [Pixels -> C]
  <2>1. base(x) \in [Pixels -> C] /\ Windows \subseteq C
    BY <1>5
  <2> HIDE DEF base, which
  <2> QED
    BY <1>2, <1>3, <2>1, DrawOverType
<1> HIDE DEF base, which, pic
<1>6. Frames(screen, backup, plain, cursor)
  BY Zenon DEF Screenwise, TypeOK, Frames
<1>7. pic \in [Pixels -> Windows \cup {Desktop, Cursor}]
  <2>1. Picture \in [Pixels -> Windows \cup {Desktop, Cursor}]
    BY <1>6, LiftedType DEF Picture
  <2> QED
    BY <1>5, <2>1 DEF pic
<1>8. plain' \in [Pixels -> Windows \cup {Desktop}]
  BY <1>1, <1>5, <1>6 DEF Frames
<1>9. Frames(screen', backup', plain', cursor')
  BY Zenon, <1>1, <1>7, <1>8, CursorType DEF Frames
<1>10. \A p \in Pixels : Picture'[p] = pic[p]
  <2>1. Picture' = Lifted(cursor_draw(pic, cursor))
    BY Zenon, <1>1 DEF Picture, Lifted
  <2> QED
    BY Zenon, <2>1, LiftDrawn
<1>11. Pending = DamageCells(dirty) \cup Cells(snap) /\ Pending' = DamageCells(dirty)
  <2>1. Pending' = DamageCells(dirty) \cup {}
    BY Zenon, <1>1 DEF Pending, DamageCells
  <2> QED
    BY Zenon, <1>1, <2>1 DEF Pending, DamageCells
<1>12. TypeOK'
  <2>1. snap' \in Box \cup {None}
    BY <1>1
  <2>2. UNCHANGED <<stack, pos, drag, pressed, held, cursor, dirty, packets>>
    BY <1>1
  <2> QED
    BY Zenon, <1>9, <2>1, <2>2 DEF Screenwise, TypeOK, Frames
<1>13. NoGhost'
  <2>1. \A p \in (0 .. Width - 2) \X (0 .. Height - 2) \ Pending' :
           Picture'[p] # Desktop =>
              \E i \in DOMAIN stack : stack[i] = Picture'[p] /\ p \in window_draw(stack[i])
    <3> SUFFICES ASSUME NEW p \in (0 .. Width - 2) \X (0 .. Height - 2) \ Pending',
                        Picture'[p] # Desktop
                 PROVE  \E i \in DOMAIN stack : stack[i] = Picture'[p]
                                                /\ p \in window_draw(stack[i])
      OBVIOUS
    <3>1. p \in Pixels
      BY GripAssumption DEF Pixels
    <3>2. Picture'[p] = DrawOver(base(Picture), stack, which)[p]
      BY Zenon, <1>2, <1>10, <3>1 DEF pic
    <3>3. CASE DrawOver(base(Picture), stack, which)[p] = base(Picture)[p]
      <4>1. p \notin Cells(snap) /\ Picture'[p] = Picture[p]
        BY <1>4, <3>1, <3>2, <3>3
      <4>2. p \notin Pending
        BY <1>11, <4>1
      <4> QED
        BY <4>1, <4>2 DEF Screenwise, NoGhost
    <3>4. ASSUME NEW i \in which,
                 DrawOver(base(Picture), stack, which)[p] = stack[i], p \in window_draw(stack[i])
          PROVE  \E k \in DOMAIN stack : stack[k] = Picture'[p] /\ p \in window_draw(stack[k])
      BY <1>3, <3>2, <3>4
    <3> QED
      BY <1>3, <3>1, <3>3, <3>4, DrawnOver
  <2> QED
    BY Zenon, <1>1, <2>1, StillDrawn DEF Screenwise
<1>14. CursorTransparent'
  <2>1. \A p \in Pixels \ Pending' : Picture'[p] # plain'[p] => p \in CalcCells
    <3> SUFFICES ASSUME NEW p \in Pixels \ Pending', p \notin CalcCells
                 PROVE  Picture'[p] = plain'[p]
      OBVIOUS
    <3>1. p \in Cells(snap) \/ Picture[p] = plain[p]
      BY <1>11 DEF Screenwise, CursorTransparent, CalcCells
    <3>2. base(Picture)[p] = base(plain)[p]
      BY <1>4, <3>1
    <3>3. DrawOver(base(Picture), stack, which)[p] = DrawOver(base(plain), stack, which)[p]
      BY <3>2, DrawnAlike
    <3> QED
      BY Zenon, <1>1, <1>2, <1>10, <3>3 DEF pic
  <2>2. CalcCells' = CalcCells
    BY Zenon, <1>1 DEF CalcCells, ButtonCells, InCalc
  <2>3. \A p \in Pixels \ Pending' : Picture'[p] # plain'[p] => p \in CalcCells'
    BY Zenon, <2>1, <2>2
  <2> QED
    BY Zenon, <2>3 DEF CursorTransparent, CalcCells
<1> QED
  BY Zenon, <1>12, <1>13, <1>14 DEF Screenwise

(* At boot every listed window is drawn on a cleared screen, and the       *)
(* cursor over them (main.c:544-580, mouse.c:285-290).                     *)
LEMMA InitScreenwise == Init => Screenwise
<1> SUFFICES ASSUME Init PROVE Screenwise
  OBVIOUS
<1> DEFINE blank == [p \in Pixels |-> Desktop]
<1>1. /\ stack = StackAtBoot /\ pos = PosAtBoot
      /\ drag = None /\ pressed = None /\ held = {}
      /\ cursor = [x |-> Width \div 2, y |-> Height \div 2]
      /\ dirty = None /\ snap = None /\ packets = 0
      /\ plain = DrawAll(blank, stack)
      /\ screen = cursor_draw(plain, cursor).screen
      /\ backup = cursor_draw(plain, cursor).backup
  BY Zenon DEF Init
<1>2. stack \in Seq(Windows) /\ Distinct(stack)
  BY <1>1, BootAssumption DEF Distinct
<1>3. plain \in [Pixels -> Windows \cup {Desktop}]
  <2> DEFINE base == [p \in Pixels |-> IF p[1] < Width - 1 /\ p[2] < Height - 1
                                       THEN Desktop ELSE blank[p]]
  <2>1. base \in [Pixels -> Windows \cup {Desktop}]
    OBVIOUS
  <2>2. plain = DrawOver(base, stack, DOMAIN stack)
    BY Zenon, <1>1 DEF DrawAll
  <2> HIDE DEF base
  <2>3. Windows \subseteq Windows \cup {Desktop} /\ DOMAIN stack \in SUBSET DOMAIN stack
    OBVIOUS
  <2> QED
    BY <1>2, <2>1, <2>2, <2>3, DrawOverType
<1>4. Frames(screen, backup, plain, cursor)
  <2>1. plain \in [Pixels -> Windows \cup {Desktop, Cursor}]
    BY <1>3
  <2> QED
    BY Zenon, <1>1, <1>3, <2>1, CursorType DEF Frames
<1>5. \A p \in Pixels : Picture[p] = plain[p]
  <2>1. Picture = Lifted(cursor_draw(plain, cursor))
    BY Zenon, <1>1 DEF Picture, Lifted
  <2> QED
    BY Zenon, <2>1, LiftDrawn
<1>6. CursorTransparent
  BY <1>5 DEF CursorTransparent
<1>7. Ghostless(Picture, stack, Pending)
  <2>1. \A p \in Pixels : Picture[p] = DrawAll(blank, stack)[p]
    BY Zenon, <1>1, <1>5
  <2> HIDE DEF blank
  <2> QED
    BY <1>2, <2>1, DrawAllKeeps
<1>8. NoGhost
  BY Zenon, <1>7 DEF Ghostless, NoGhost
<1>9. TypeOK
  <2>1. pos \in [Windows -> At] /\ cursor \in At
    <3>1. /\ 0 .. Width - MinGrip \subseteq 0 .. Width - 1
          /\ 0 .. Height - TitleBarH \subseteq 0 .. Height - 1
      BY GripAssumption
    <3>2. Width \div 2 \in 0 .. Width - CursorW /\ Height \div 2 \in 0 .. Height - CursorH
      BY GripAssumption
    <3>3. /\ 0 .. Width - CursorW \subseteq 0 .. Width - 1
          /\ 0 .. Height - CursorH \subseteq 0 .. Height - 1
      BY GripAssumption
    <3> QED
      BY <1>1, <3>1, <3>2, <3>3, BootAssumption DEF At
  <2>2. packets \in 0 .. MaxPackets
    BY <1>1, GripAssumption
  <2> QED
    BY Zenon, <1>1, <1>2, <1>4, <2>1, <2>2 DEF TypeOK, Frames, Distinct
<1> QED
  BY Zenon, <1>6, <1>8, <1>9 DEF Screenwise

(* No step of the window system ends them.                                 *)
LEMMA NextScreenwise == IInv /\ Screenwise /\ [Next]_vars => Screenwise'
<1> SUFFICES ASSUME IInv, Screenwise, [Next]_vars PROVE Screenwise'
  OBVIOUS
<1>1. ASSUME NEW buttons \in MouseButtons, NEW dx \in Steps, NEW dy \in Steps,
             mouse_process_packet(buttons, dx, dy)
      PROVE  Screenwise'
  <2>1. IInv'
    BY NextIInv
  <2> QED
    BY <1>1, <2>1, PacketDraws
<1>2. CASE UNCHANGED vars
  <2>1. /\ UNCHANGED <<stack, pos, drag, pressed, held, cursor, dirty, snap>>
        /\ UNCHANGED <<screen, backup, plain, packets>>
    BY Zenon, <1>2 DEF vars
  <2>2. Picture' = Picture /\ Pending' = Pending
    BY Zenon, <2>1 DEF Picture, Pending
  <2>3. TypeOK /\ NoGhost /\ CursorTransparent
    BY DEF Screenwise
  <2>4. TypeOK'
    BY Zenon, <2>1, <2>3 DEF TypeOK
  <2>5. NoGhost'
    BY Zenon, <2>1, <2>2, <2>3, StillDrawn DEF NoGhost
  <2>6. CursorTransparent'
    BY Zenon, <2>1, <2>2, <2>3 DEF CursorTransparent, ButtonCells, InCalc
  <2> QED
    BY <2>4, <2>5, <2>6 DEF Screenwise
<1> QED
  BY <1>1, <1>2, SnapshotDraws, FlushDraws DEF Next

-----------------------------------------------------------------------------
(* The damage on record always lies on the screen, no window is listed     *)
(* twice, and the cursor keeps exactly the pixels it covers.               *)
THEOREM WmTypeOK == Spec => []TypeOK
<1>1. IInv /\ Screenwise => TypeOK
  BY DEF Screenwise
<1> QED
  BY <1>1, InitIInv, NextIInv, InitScreenwise, NextScreenwise, PTL DEF Spec

(* No sequence of clicks, moves and half flushes leaves a ghost of a       *)
(* moved or closed window that is not in damage still to be flushed, for   *)
(* every screen, every set of windows and every layout of the calculator   *)
(* inside its window.                                                      *)
THEOREM NoGhostHolds == Spec => []NoGhost
<1>1. IInv /\ Screenwise => NoGhost
  BY DEF Screenwise
<1> QED
  BY <1>1, InitIInv, NextIInv, InitScreenwise, NextScreenwise, PTL DEF Spec

(* The cursor leaves no mark outside the calculator's buttons and display  *)
(* and the damage still to be flushed.                                     *)
THEOREM CursorLeavesNoMark == Spec => []CursorTransparent
<1>1. IInv /\ Screenwise => CursorTransparent
  BY DEF Screenwise
<1> QED
  BY <1>1, InitIInv, NextIInv, InitScreenwise, NextScreenwise, PTL DEF Spec
===============================================================================
