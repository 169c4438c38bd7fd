---------------------------- MODULE Framebuffer -----------------------------
(***************************************************************************)
(* The framebuffer back end of the terminal, src/terminal/framebuffer.c.   *)
(* Characters are queued (queue, and map from cells to queue items), the   *)
(* flush draws what changed and commits it to the grid; a cursor is drawn  *)
(* on top by exchanging the colours of its cell.                           *)
(*                                                                         *)
(* An interrupt may come between any two accesses to the context, so a     *)
(* function is not one step.  It is an operator on the context C (the      *)
(* fields of fbterm_context and of the term_context it begins with) that   *)
(* gives the context after its first part and the calls still to be made;  *)
(* Perform carries out one call.                                           *)
(*                                                                         *)
(* Glyphs are sets of dots.  C.wild records the arrays that were accessed  *)
(* outside their bounds; after "cells" (the grid, the map or the queue)    *)
(* what happens is not modelled.                                           *)
(***************************************************************************)
EXTENDS Integers, SequencesExt

CONSTANTS
    rows, cols,
    Columns, font_spacing,   \* columns of a glyph's bits and empty ones added to them
    font_bits,               \* the glyphs: sets of columns, by character
    LineGraphics,            \* 0xc0 .. 0xdf
    default_fg, default_bg,  \* term_fg and term_bg
    INT                      \* a 32-bit word holds 0 .. INT - 1

\* Colours are numbers: 0 .. 7 ansi_colours, 8 .. 15 ansi_bright_colours,
\* 16 .. 255 the palette of term.c, 256 and more RGB values; CANVAS is the
\* 0xffffffff that stands for the background picture, filled with default_bg.
CANVAS == -1

ASSUME FramebufferAssumption ==
    /\ rows \in Nat /\ rows > 1 /\ cols \in Nat /\ cols > 0
    /\ Columns \in Nat \ {0} /\ font_spacing \in Nat
    /\ \A c \in DOMAIN font_bits : font_bits[c] \subseteq 1 .. Columns
    /\ {default_fg, default_bg} \subseteq Nat
    /\ INT \in Nat /\ INT > rows * cols

Cell == 0 .. rows * cols - 1
InGrid(x, y) == x \in 0 .. cols - 1 /\ y \in 0 .. rows - 1
CellAt(x, y) == x + y * cols

Character(c, C) == [c |-> c, fg |-> C.text_fg, bg |-> C.text_bg]
Blank(C) == Character(" ", C)

NULL == 0
NoItem == [cell |-> -1, c |-> [c |-> " ", fg |-> 0, bg |-> 0]]

\* The numbers a .. b in order, for the loops.
Upto(a, b) == [k \in 1 .. b - a + 1 |-> a + k - 1]

\* n - 1 in size_t arithmetic, as far as comparisons can tell.
Minus1(n) == IF n = 0 THEN INT * INT ELSE n - 1

-----------------------------------------------------------------------------
(* Drawing.                                                                *)

\* A glyph has one row here.  The added columns repeat the last one in line
\* graphics and are empty otherwise.
font_width == Columns + font_spacing
Dot == 1 .. font_width
font_bool ==
    [c \in DOMAIN font_bits |->
        font_bits[c] \cup (IF c \in LineGraphics /\ Columns \in font_bits[c] THEN Columns + 1 .. font_width
                          ELSE {})]

Lit(colour) == IF colour = CANVAS THEN default_bg ELSE colour
Glyph(c) == IF c \in DOMAIN font_bool THEN font_bool[c] ELSE {}
DotsOf(ch) == [d \in Dot |-> Lit(IF d \in Glyph(ch.c) THEN ch.fg ELSE ch.bg)]

plot_char(C, ch, i) == [C EXCEPT !.framebuffer[i] = DotsOf(ch)]

\* Mutant: the fast path is taken although a dot's colour may have changed.
SameColours_always(old, ch) == TRUE
SameColours(old, ch) == old.fg = ch.fg /\ old.bg = ch.bg

\* Only the dots on which the two glyphs differ.
plot_char_fast(C, old, ch, i) ==
    [C EXCEPT !.framebuffer[i] =
        [d \in Dot |-> IF (d \in Glyph(old.c)) = (d \in Glyph(ch.c)) THEN @[d] ELSE DotsOf(ch)[d]]]

Inverted(ch) == [ch EXCEPT !.fg = ch.bg, !.bg = ch.fg]

\* C with the access to array recorded.
Wild(C, array) == [C EXCEPT !.wild = @ \cup {array}]

\* What a struct fbterm_char * points to: a local character, a cell of the grid
\* or an item of the queue.
Deref(C, p) ==
    IF p[1] = "local" THEN p[2] ELSE IF p[1] = "grid" THEN C.grid[p[2]] ELSE C.queue[p[2]].c

\* The character of cell i, drawn or still queued.
Current(C, i) == IF C.map[i] # NULL THEN <<"queue", C.map[i]>> ELSE <<"grid", i>>

-----------------------------------------------------------------------------
(* Calls: the name of the function, and its arguments.                     *)

Done(C) == [ctx |-> C, calls |-> <<>>]
Calls(C, s) == [ctx |-> C, calls |-> s]

Enter(slot, i, p) == <<"enter", slot, i, p>>
Copy(from, to) == <<"copy", from, to>>
Erase(i) == <<"erase", i>>
Put(c) == <<"raw_putchar", c>>
SetCursor(x, y) == <<"set_cursor_pos", x, y>>
Move(new_x, new_y, old_x, old_y) == <<"move_character", new_x, new_y, old_x, old_y>>

Copies(cells, by) == [k \in DOMAIN cells |-> Copy(cells[k], cells[k] + by)]
Erased(cells) == [k \in DOMAIN cells |-> Erase(cells[k])]
Puts(c, n) == [k \in 1 .. n |-> Put(c)]

-----------------------------------------------------------------------------
(* The queue.                                                              *)

\* Mutant: the cell is entered into the queue once more.
push_to_queue_twice(C, p, x, y) ==
    LET i == CellAt(x, y)
        slot == C.queue_i + 1
    IN  IF ~InGrid(x, y) \/ (C.map[i] = NULL /\ C.grid[i] = Deref(C, p)) THEN Done(C)
        ELSE IF C.queue_i = rows * cols THEN Done(Wild(C, "cells"))
        ELSE Calls([C EXCEPT !.queue_i = slot, !.queue[slot].cell = i], <<Enter(slot, i, p)>>)
\* A cell that has no item gets one, unless it shows the character already.
push_to_queue(C, p, x, y) ==
    LET i == CellAt(x, y)
        slot == C.queue_i + 1
    IN  IF ~InGrid(x, y) THEN Done(C)
        ELSE IF C.map[i] # NULL THEN Done([C EXCEPT !.queue[C.map[i]].c = Deref(C, p)])
        ELSE IF C.grid[i] = Deref(C, p) THEN Done(C)
        ELSE IF C.queue_i = rows * cols THEN Done(Wild(C, "cells"))
        ELSE Calls([C EXCEPT !.queue_i = slot, !.queue[slot].cell = i], <<Enter(slot, i, p)>>)

\* The item is entered into the map and filled.
EnterItem(C, slot, i, p) == Done([C EXCEPT !.map[i] = slot, !.queue[slot].c = Deref(C, p)])

PushAt(C, p, i) == push_to_queue(C, p, i % cols, i \div cols)

fbterm_move_character(C, new_x, new_y, old_x, old_y) ==
    IF InGrid(old_x, old_y) /\ InGrid(new_x, new_y)
    THEN push_to_queue(C, Current(C, CellAt(old_x, old_y)), new_x, new_y)
    ELSE Done(C)

\* Mutant: the copies are made from the last line upwards.
fbterm_scroll_backwards(C) ==
    LET top == C.scroll_top_margin
        bottom == C.scroll_bottom_margin
    IN  Copies(Reverse(Upto((top + 1) * cols, bottom * cols - 1)), -cols)
            \o Erased(Upto((bottom - 1) * cols, bottom * cols - 1))
\* The region moves up by a line.
fbterm_scroll(C) ==
    LET top == C.scroll_top_margin
        bottom == C.scroll_bottom_margin
    IN  Copies(Upto((top + 1) * cols, bottom * cols - 1), -cols)
            \o Erased(Upto((bottom - 1) * cols, bottom * cols - 1))

\* The region moves down by a line; the loop ends at the first cell of the
\* region, which it never meets when the region has no second line.
fbterm_revscroll(C) ==
    LET top == C.scroll_top_margin
        bottom == C.scroll_bottom_margin
    IN  IF bottom - 1 <= top THEN <<<<"runaway">>>>
        ELSE Copies(Reverse(Upto(top * cols, (bottom - 1) * cols - 1)), cols)
                 \o Erased(Upto(top * cols, (top + 1) * cols - 1))

fbterm_clear(move) ==
    Erased(Upto(0, rows * cols - 1)) \o (IF move THEN <<SetCursor(0, 0)>> ELSE <<>>)

\* The character goes to the cursor, which has moved on by then.
fbterm_raw_putchar(C, c) ==
    Calls([C EXCEPT !.cursor_x = @ + 1],
          <<<<"push_to_queue", <<"local", Character(c, C)>>, C.cursor_x, C.cursor_y>>, <<"advance">>>>)

AdvanceCursor(C) ==
    LET wraps == C.cursor_x = cols /\ (C.cursor_y < Minus1(C.scroll_bottom_margin) \/ C.scroll_enabled)
        D == IF wraps THEN [C EXCEPT !.cursor_x = 0, !.cursor_y = @ + 1] ELSE C
    IN  IF D.cursor_y = D.scroll_bottom_margin
        THEN Calls([D EXCEPT !.cursor_y = Minus1(@)], fbterm_scroll(D)) ELSE Done(D)

-----------------------------------------------------------------------------
(* The cursor and the colours.                                             *)

\* Out of range, a coordinate is clamped to the side its sign as an int tells.
Clamp(v, n) ==
    IF v \in 0 .. n - 1 THEN v
    ELSE IF v % INT >= INT \div 2 THEN 0 ELSE n - 1

fbterm_set_cursor_pos(C, x, y) == [C EXCEPT !.cursor_x = Clamp(x, cols), !.cursor_y = Clamp(y, rows)]

fbterm_enable_cursor(C) == [C EXCEPT !.cursor_status = TRUE]
fbterm_disable_cursor(C) == [C EXCEPT !.cursor_status = FALSE]

fbterm_swap_palette(C) == [C EXCEPT !.text_fg = C.text_bg, !.text_bg = C.text_fg]
fbterm_set_text_fg(C, n) == [C EXCEPT !.text_fg = n]
fbterm_set_text_bg(C, n) == [C EXCEPT !.text_bg = n]
fbterm_set_text_fg_bright(C, n) == [C EXCEPT !.text_fg = 8 + n]
fbterm_set_text_bg_bright(C, n) == [C EXCEPT !.text_bg = 8 + n]
fbterm_set_text_fg_rgb(C, rgb) == [C EXCEPT !.text_fg = rgb]
fbterm_set_text_bg_rgb(C, rgb) == [C EXCEPT !.text_bg = rgb]
fbterm_set_text_fg_default(C) == [C EXCEPT !.text_fg = default_fg]
fbterm_set_text_bg_default(C) == [C EXCEPT !.text_bg = CANVAS]

fbterm_save_state(C) ==
    [C EXCEPT !.saved_state_text_fg = C.text_fg, !.saved_state_text_bg = C.text_bg,
              !.saved_state_cursor_x = C.cursor_x, !.saved_state_cursor_y = C.cursor_y]
fbterm_restore_state(C) ==
    [C EXCEPT !.text_fg = C.saved_state_text_fg, !.text_bg = C.saved_state_text_bg,
              !.cursor_x = C.saved_state_cursor_x, !.cursor_y = C.saved_state_cursor_y]

-----------------------------------------------------------------------------
(* Flushing.                                                               *)

\* The cell under the cursor is drawn inverted and, if it was queued, committed.
draw_cursor(C) ==
    LET i == CellAt(C.cursor_x, C.cursor_y)
        p == Current(C, i)
        D == IF InGrid(C.cursor_x, C.cursor_y) THEN plot_char(C, Inverted(Deref(C, p)), i) ELSE C
    IN  IF i \notin Cell THEN Done(Wild(C, "cells"))
        ELSE Calls(D, IF C.map[i] # NULL THEN <<<<"commit", i, C.map[i]>>>> ELSE <<>>)

\* Cell i shows the character of item k now.
CommitItem(C, i, k) == Done([C EXCEPT !.grid[i] = C.queue[k].c, !.map[i] = NULL])

\* Draws the k-th item, unless its cell was the cursor's, and goes on.
FlushItem(C, k) ==
    LET q == C.queue[k]
        old == C.grid[q.cell]
        D == IF SameColours(old, q.c) THEN plot_char_fast(C, old, q.c, q.cell)
             ELSE plot_char(C, q.c, q.cell)
        next == <<<<"flush_item", k + 1>>>>
    IN  IF k > C.queue_i THEN Done(C)
        ELSE IF C.map[q.cell] = NULL THEN Calls(C, next)
        ELSE Calls(D, <<<<"commit", q.cell, k>>>> \o next)

\* The cell the cursor was on is drawn again, and the queue is empty.
EndFlush(C) ==
    LET i == CellAt(C.old_cursor_x, C.old_cursor_y)
        stays == C.old_cursor_x = C.cursor_x /\ C.old_cursor_y = C.cursor_y /\ C.cursor_status
        D == IF stays \/ ~InGrid(C.old_cursor_x, C.old_cursor_y) THEN C ELSE plot_char(C, C.grid[i], i)
    IN  Done([D EXCEPT !.old_cursor_x = C.cursor_x, !.old_cursor_y = C.cursor_y, !.queue_i = 0])

fbterm_double_buffer_flush(C) ==
    Calls(C, (IF C.cursor_status THEN <<<<"draw_cursor">>>> ELSE <<>>)
                 \o <<<<"flush_item", 1>>, <<"end_flush">>>>)

\* Everything is drawn from the grid; the queue stays.
fbterm_full_refresh(C) ==
    Calls([C EXCEPT !.framebuffer = [i \in Cell |-> DotsOf(C.grid[i])]],
          IF C.cursor_status THEN <<<<"draw_cursor">>>> ELSE <<>>)

\* Items that no cell refers to are never read again, once no call is left.
DropDeadItems(C) ==
    [C EXCEPT !.queue = [k \in DOMAIN @ |-> IF \E i \in Cell : C.map[i] = k THEN @[k] ELSE NoItem]]

-----------------------------------------------------------------------------
(* One call.                                                               *)

Perform(C, f) ==
    CASE f[1] = "push_to_queue" -> push_to_queue(C, f[2], f[3], f[4])
      [] f[1] = "enter" -> EnterItem(C, f[2], f[3], f[4])
      [] f[1] = "copy" -> PushAt(C, Current(C, f[2]), f[3])
      [] f[1] = "erase" -> PushAt(C, <<"local", Blank(C)>>, f[2])
      [] f[1] = "raw_putchar" -> fbterm_raw_putchar(C, f[2])
      [] f[1] = "advance" -> AdvanceCursor(C)
      [] f[1] = "set_cursor_pos" -> Done(fbterm_set_cursor_pos(C, f[2], f[3]))
      [] f[1] = "move_character" -> fbterm_move_character(C, f[2], f[3], f[4], f[5])
      [] f[1] = "flush" -> fbterm_double_buffer_flush(C)
      [] f[1] = "draw_cursor" -> draw_cursor(C)
      [] f[1] = "flush_item" -> FlushItem(C, f[2])
      [] f[1] = "commit" -> CommitItem(C, f[2], f[3])
      [] f[1] = "end_flush" -> EndFlush(C)
      [] f[1] = "runaway" -> Done(Wild(C, "cells"))
=============================================================================
