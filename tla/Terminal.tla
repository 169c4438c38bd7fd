------------------------------ MODULE Terminal ------------------------------
(***************************************************************************)
(* The terminal emulator, src/terminal/term.c, on its framebuffer back end *)
(* (module Framebuffer), as _putchar drives it: a task writes byte by      *)
(* byte, and the keyboard interrupt, whose handler reports a full ring,    *)
(* writes its own bytes in between.  A byte of the task is interpreted in  *)
(* one step, the calls to the back end that this leads to are carried out  *)
(* one by one; the handler runs with interrupts off and is one step.       *)
(*                                                                         *)
(* Bytes are named by strings: a character by itself, control characters   *)
(* by their names, "CSI" for 0x9b.  No client callback is installed and    *)
(* in_bootloader is false, as in the kernel.  size_t is unbounded and a    *)
(* 32-bit word holds 0 .. INT - 1.                                         *)
(***************************************************************************)
EXTENDS Framebuffer, TLC

CONSTANTS
    TERM_MAX_ESC_VALUES,
    tab_size,
    Messages, MaxMessages,  \* what the task prints; how many of them
    Overflow,               \* what the keyboard interrupt prints, once
    BeyondPalette           \* the colour found behind the last entry of col256

Digit == <<"0", "1", "2", "3", "4", "5", "6", "7", "8", "9">>
IsDigit(c) == \E n \in DOMAIN Digit : Digit[n] = c
DigitValue(c) == (CHOOSE n \in DOMAIN Digit : Digit[n] = c) - 1

ASSUME TerminalAssumption ==
    /\ TERM_MAX_ESC_VALUES \in Nat \ {0} /\ tab_size \in Nat \ {0}
    /\ MaxMessages \in Nat

VARIABLES
    boot,     \* what _start does next: "clear", "full_refresh", "up"
    ctx,      \* term_context
    writing,  \* the task's bytes left
    calls,    \* the calls left of the task's byte and of the flush after it
    budget,   \* messages the task may still print, and the interrupt
    roll,     \* ghost: what was printed, as an endless roll of paper (see below)
    torn      \* ghost: the interrupt came while the task was inside a call

vars == <<boot, ctx, writing, calls, budget, roll, torn>>

-----------------------------------------------------------------------------
(* Select graphic rendition.                                               *)

NoPrimary == -1

\* The foreground, as the user sees it, with reverse video taken into account.
SetFg(C, n) == IF C.reverse_video THEN fbterm_set_text_bg(C, n) ELSE fbterm_set_text_fg(C, n)
SetFgBright(C, n) ==
    IF C.reverse_video THEN fbterm_set_text_bg_bright(C, n) ELSE fbterm_set_text_fg_bright(C, n)
SetBg(C, n) == IF C.reverse_video THEN fbterm_set_text_fg(C, n) ELSE fbterm_set_text_bg(C, n)
SetBgBright(C, n) ==
    IF C.reverse_video THEN fbterm_set_text_fg_bright(C, n) ELSE fbterm_set_text_bg_bright(C, n)

\* Reverse video, on or off.
Reverse_video(C, on) ==
    IF C.reverse_video = on THEN C ELSE fbterm_swap_palette([C EXCEPT !.reverse_video = on])

sgr_reset(C) ==
    fbterm_set_text_fg_default(fbterm_set_text_bg_default(
        [Reverse_video(C, FALSE) EXCEPT !.bold = FALSE, !.current_primary = NoPrimary]))

sgr_bold(C, on) ==
    LET D == [C EXCEPT !.bold = on] IN
    IF C.current_primary = NoPrimary THEN D
    ELSE IF on THEN SetFgBright(D, C.current_primary) ELSE SetFg(D, C.current_primary)

\* 30-37 and 90-97, 40-47 and 100-107.
sgr_primary(C, n, bright) ==
    LET D == [C EXCEPT !.current_primary = n]
    IN  IF bright \/ C.bold THEN SetFgBright(D, n) ELSE SetFg(D, n)
sgr_background(C, n, bright) == IF bright THEN SetBgBright(C, n) ELSE SetBg(C, n)

\* 39 and 49: under reverse video the default is set between two exchanges.
sgr_default_fg(C) ==
    LET D == [C EXCEPT !.current_primary = NoPrimary]
        swap(X) == IF C.reverse_video THEN fbterm_swap_palette(X) ELSE X
    IN  swap(fbterm_set_text_fg_default(swap(D)))
sgr_default_bg(C) ==
    LET swap(X) == IF C.reverse_video THEN fbterm_swap_palette(X) ELSE X
    IN  swap(fbterm_set_text_bg_default(swap(C)))

\* 38;5;n and 48;5;n.  col256 has an entry for 16 .. 255, and n is not checked.
sgr_256(C, fg, n) ==
    IF n < 8 THEN IF fg THEN fbterm_set_text_fg(C, n) ELSE fbterm_set_text_bg(C, n)
    ELSE IF n < 16 THEN IF fg THEN fbterm_set_text_fg_bright(C, n - 8)
                        ELSE fbterm_set_text_bg_bright(C, n - 8)
    ELSE LET D == IF n < 256 THEN C ELSE Wild(C, "col256")
             col == IF n < 256 THEN n ELSE BeyondPalette
         IN  IF fg THEN fbterm_set_text_fg_rgb(D, col) ELSE fbterm_set_text_bg_rgb(D, col)

\* 38 and 48 at position i: the context, and the position after the parameters
\* that were used.  Too few of them end the loop.
sgr_extended(C, i) ==
    LET n == C.esc_values_i
        v(k) == C.esc_values[i + k]
        fg == v(0) = 38
        rgb == 256 + v(2) + v(3) + v(4)
        skip(D, k) == [ctx |-> D, next |-> i + k]
    IN  IF i + 1 >= n THEN skip(C, n)
        ELSE IF v(1) = 2
        THEN IF i + 4 >= n THEN skip(C, n)
             ELSE skip(IF fg THEN fbterm_set_text_fg_rgb(C, rgb) ELSE fbterm_set_text_bg_rgb(C, rgb), 5)
        ELSE IF v(1) = 5
        THEN IF i + 2 >= n THEN skip(C, n) ELSE skip(sgr_256(C, fg, v(2)), 3)
        ELSE skip(C, 2)

\* One parameter that is not 38 or 48.
sgr_simple(C, v) ==
    IF v = 0 THEN sgr_reset(C)
    ELSE IF v \in {1, 22} THEN sgr_bold(C, v = 1)
    ELSE IF v \in 30 .. 37 THEN sgr_primary(C, v - 30, FALSE)
    ELSE IF v \in 40 .. 47 THEN sgr_background(C, v - 40, FALSE)
    ELSE IF v \in 90 .. 97 THEN sgr_primary(C, v - 90, TRUE)
    ELSE IF v \in 100 .. 107 THEN sgr_background(C, v - 100, TRUE)
    ELSE IF v = 39 THEN sgr_default_fg(C)
    ELSE IF v = 49 THEN sgr_default_bg(C)
    ELSE IF v \in {7, 27} THEN Reverse_video(C, v = 7)
    ELSE C

sgr(C) ==
    LET step(s, i) ==
            IF i # s.next THEN s
            ELSE IF s.ctx.esc_values[i] \in {38, 48} THEN sgr_extended(s.ctx, i)
            ELSE [ctx |-> sgr_simple(s.ctx, s.ctx.esc_values[i]), next |-> i + 1]
    IN  IF C.esc_values_i = 0 THEN sgr_reset(C)
        ELSE FoldLeft(step, [ctx |-> C, next |-> 0], Upto(0, C.esc_values_i - 1)).ctx

-----------------------------------------------------------------------------
(* Control sequences: the parameters, and what the final byte does.  p and q *)
(* are the first two parameters, x and y the cursor's place.               *)

AddDigit(C, d) ==
    IF C.esc_values_i = TERM_MAX_ESC_VALUES THEN C
    ELSE [C EXCEPT !.rrr = TRUE, !.esc_values[C.esc_values_i] = (@ * 10 + d) % INT]

\* A semicolon: ends the parameter before it, or counts as a parameter 0.
AddParameter(C) ==
    IF C.rrr THEN [C EXCEPT !.rrr = FALSE, !.esc_values_i = @ + 1]
    ELSE IF C.esc_values_i = TERM_MAX_ESC_VALUES THEN C
    ELSE [C EXCEPT !.esc_values[C.esc_values_i] = 0, !.esc_values_i = @ + 1]

\* The final byte: the last parameter ends, and those not given get a default.
WithDefaults(C, c) ==
    LET n == C.esc_values_i + (IF C.rrr THEN 1 ELSE 0)
        def == IF c \in {"J", "K", "q"} THEN 0 ELSE 1
    IN  [C EXCEPT !.rrr = FALSE, !.esc_values_i = n,
                  !.esc_values = [k \in DOMAIN @ |-> IF k < n THEN @[k] ELSE def]]

Param(C, k) == C.esc_values[k]

\* A, F: up, but not across the top margin.
cursor_up(C, x, y) ==
    LET p == Param(C, 0)
        dest == IF p > y THEN 0 ELSE y - p
        meets(m) == dest <= m /\ m <= y
        stops == (meets(C.scroll_top_margin) \/ meets(C.scroll_bottom_margin)) /\ dest < C.scroll_top_margin
    IN  <<SetCursor(x, IF stops THEN C.scroll_top_margin ELSE dest)>>

\* B, e, E: down, but not across the bottom margin.
cursor_down(C, x, y) ==
    LET p == Param(C, 0)
        dest == IF y + p > rows - 1 THEN rows - 1 ELSE y + p
        meets(m) == y <= m /\ m <= dest
        stops == (meets(C.scroll_top_margin) \/ meets(C.scroll_bottom_margin)) /\ dest >= C.scroll_bottom_margin
    IN  <<SetCursor(x, IF stops THEN C.scroll_bottom_margin - 1 ELSE dest)>>

cursor_right(C, x, y) == <<SetCursor(IF x + Param(C, 0) > cols - 1 THEN cols - 1 ELSE x + Param(C, 0), y)>>
cursor_left(C, x, y) == <<SetCursor(IF Param(C, 0) > x THEN 0 ELSE x - Param(C, 0), y)>>

\* A 1-based coordinate; 0 wraps and is clamped like any other large value.
Coordinate(v, n) == IF (v - 1) % INT >= n THEN n - 1 ELSE v - 1

line_position(C, x) == <<SetCursor(x, Coordinate(Param(C, 0), rows))>>
column_position(C, y) == <<SetCursor(Coordinate(Param(C, 0), cols), y)>>
cursor_position(C) == <<SetCursor(Coordinate(Param(C, 1), cols), Coordinate(Param(C, 0), rows))>>

\* J: the cells after the cursor save the last, those up to it, or all.
erase_display(C, x, y) ==
    CASE Param(C, 0) = 0 -> Puts(" ", (rows - (y + 1)) * cols + cols - (x + 1)) \o <<SetCursor(x, y)>>
      [] Param(C, 0) = 1 -> <<SetCursor(0, 0)>> \o Puts(" ", y * cols + x + 1) \o <<SetCursor(x, y)>>
      [] Param(C, 0) \in {2, 3} -> fbterm_clear(FALSE)
      [] OTHER -> <<>>

\* K: the rest of the line, its beginning, or all of it.
erase_line(C, x, y) ==
    CASE Param(C, 0) = 0 -> Puts(" ", cols - x) \o <<SetCursor(x, y)>>
      [] Param(C, 0) = 1 -> <<SetCursor(0, y)>> \o Puts(" ", x)
      [] Param(C, 0) = 2 -> <<SetCursor(0, y)>> \o Puts(" ", cols) \o <<SetCursor(x, y)>>
      [] OTHER -> <<>>

\* @: from the last column down to the cursor's, each character moves right.
insert_blanks(C, x, y) ==
    FlattenSeq([k \in 1 .. cols - x |->
                   LET i == cols - k IN <<Move(i + Param(C, 0), y, i, y), SetCursor(i, y), Put(" ")>>])
        \o <<SetCursor(x, y)>>

erase_characters(C, x, y) == Puts(" ", Param(C, 0)) \o <<SetCursor(x, y)>>

\* P: the characters after the deleted ones move left; the end is erased.
delete_characters(C, x, y) ==
    LET p == Param(C, 0)
        behind == Upto(x + p, cols - 1)
    IN  [k \in DOMAIN behind |-> Move(behind[k] - p, y, behind[k], y)]
            \o <<SetCursor(cols - p, y)>> \o erase_characters(C, x, y)

\* r: the scroll region, both margins or none.
set_scroll_region(C) ==
    LET top == IF C.esc_values_i > 0 THEN (Param(C, 0) - 1) % INT ELSE 0
        bottom == IF C.esc_values_i > 1 THEN Param(C, 1) ELSE rows
        bad == top >= rows \/ bottom > rows \/ top >= Minus1(bottom)
    IN  Calls([C EXCEPT !.scroll_top_margin = IF bad THEN 0 ELSE top,
                        !.scroll_bottom_margin = IF bad THEN rows ELSE bottom], <<SetCursor(0, 0)>>)

mode_toggle(C, c) == IF C.esc_values_i > 0 /\ Param(C, 0) = 4 THEN [C EXCEPT !.insert_mode = (c = "h")] ELSE C

dec_private_parse(C, c) ==
    LET D == [C EXCEPT !.dec_private = FALSE] IN
    IF C.esc_values_i = 0 \/ c \notin {"h", "l"} \/ Param(C, 0) # 25 THEN D
    ELSE IF c = "h" THEN fbterm_enable_cursor(D) ELSE fbterm_disable_cursor(D)

\* The final bytes; the others (c, n, q, ] and unknown ones) reach only the
\* callback, if anything.
final_byte(C, c) ==
    LET x == C.cursor_x
        y == C.cursor_y
    IN  CASE c = "F" -> Calls(C, cursor_up(C, 0, y))
          [] c = "A" -> Calls(C, cursor_up(C, x, y))
          [] c = "E" -> Calls(C, cursor_down(C, 0, y))
          [] c \in {"e", "B"} -> Calls(C, cursor_down(C, x, y))
          [] c \in {"a", "C"} -> Calls(C, cursor_right(C, x, y))
          [] c = "D" -> Calls(C, cursor_left(C, x, y))
          [] c = "d" -> Calls(C, line_position(C, x))
          [] c \in {"G", "backquote"} -> Calls(C, column_position(C, y))
          [] c \in {"H", "f"} -> Calls(C, cursor_position(C))
          [] c = "J" -> Calls(C, erase_display(C, x, y))
          [] c = "@" -> Calls(C, insert_blanks(C, x, y))
          [] c = "P" -> Calls(C, delete_characters(C, x, y))
          [] c = "X" -> Calls(C, erase_characters(C, x, y))
          [] c = "m" -> Done(sgr(C))
          [] c = "s" -> Done([C EXCEPT !.saved_cursor_x = x, !.saved_cursor_y = y])
          [] c = "u" -> Calls(C, <<SetCursor(C.saved_cursor_x, C.saved_cursor_y)>>)
          [] c = "K" -> Calls(C, erase_line(C, x, y))
          [] c = "r" -> set_scroll_region(C)
          [] c \in {"l", "h"} -> Done(mode_toggle(C, c))
          [] OTHER -> Done(C)

\* The sequence is over; its parameters are not read again.
Ground(C) == [C EXCEPT !.control_sequence = FALSE, !.escape = FALSE, !.escape_offset = 0,
                       !.rrr = FALSE, !.esc_values_i = 0, !.esc_values = [k \in DOMAIN @ |-> 0]]

\* The sequence ends after the calls it makes; scroll_enabled gets the value r.
EndSequence(C, r) == Done(Ground([C EXCEPT !.scroll_enabled = r]))
Ending(res, r) ==
    IF res.calls = <<>> THEN EndSequence(res.ctx, r)
    ELSE Calls(res.ctx, res.calls \o <<<<"end_sequence", r>>>>)

\* Wrapping at the last line is off while a control sequence is carried out.
Unscrolled(C, c) == Ending(final_byte([C EXCEPT !.scroll_enabled = FALSE], c), C.scroll_enabled)

control_sequence_parse(C, c) ==
    IF C.escape_offset = 2 /\ c = "[" THEN Done(Ground([C EXCEPT !.discard_next = TRUE]))
    ELSE IF C.escape_offset = 2 /\ c = "?" THEN Done([C EXCEPT !.dec_private = TRUE])
    ELSE IF IsDigit(c) THEN Done(AddDigit(C, DigitValue(c)))
    ELSE IF c = ";" THEN Done(AddParameter(C))
    ELSE LET D == WithDefaults(C, c)
         IN  IF C.dec_private THEN Done(Ground(dec_private_parse(D, c))) ELSE Unscrolled(D, c)

-----------------------------------------------------------------------------
(* Escape sequences and plain bytes.                                       *)

term_context_reinit(C) ==
    Ground([C EXCEPT !.scroll_enabled = TRUE, !.csi = FALSE, !.discard_next = FALSE,
                     !.bold = FALSE, !.reverse_video = FALSE, !.dec_private = FALSE,
                     !.insert_mode = FALSE, !.g_select = 0, !.charsets = <<"default", "dec special">>,
                     !.current_charset = 0, !.saved_cursor_x = 0, !.saved_cursor_y = 0,
                     !.current_primary = NoPrimary,
                     !.scroll_top_margin = 0, !.scroll_bottom_margin = rows])

save_state(C) ==
    [fbterm_save_state(C) EXCEPT
        !.saved_state_bold = C.bold, !.saved_state_reverse_video = C.reverse_video,
        !.saved_state_current_charset = C.current_charset,
        !.saved_state_current_primary = C.current_primary]
restore_state(C) ==
    fbterm_restore_state([C EXCEPT
        !.bold = C.saved_state_bold, !.reverse_video = C.saved_state_reverse_video,
        !.current_charset = C.saved_state_current_charset,
        !.current_primary = C.saved_state_current_primary])

\* Down a line, scrolling at the bottom of the region.
LineFeed(C, x) ==
    LET y == C.cursor_y IN
    IF y = Minus1(C.scroll_bottom_margin) THEN fbterm_scroll(C) \o <<SetCursor(x, y)>>
    ELSE <<SetCursor(x, y + 1)>>

\* Up a line, to the first column.
reverse_linefeed(C) ==
    LET y == C.cursor_y IN
    IF y = C.scroll_top_margin THEN fbterm_revscroll(C) \o <<SetCursor(0, y)>>
    ELSE <<SetCursor(0, y - 1)>>

\* [, or the byte after 0x9b, whatever it is.
begin_control_sequence(C) ==
    [C EXCEPT !.csi = FALSE, !.control_sequence = TRUE, !.rrr = FALSE, !.esc_values_i = 0,
              !.esc_values = [k \in DOMAIN @ |-> 0]]

escape_parse(C, c) ==
    LET D == [C EXCEPT !.escape_offset = @ + 1]
        E == term_context_reinit(D)
    IN  IF C.control_sequence THEN control_sequence_parse(D, c)
        ELSE IF C.csi \/ c = "[" THEN Done(begin_control_sequence(D))
        ELSE IF c = "c" THEN Ending(Calls(E, fbterm_clear(TRUE)), E.scroll_enabled)
        ELSE Ending(CASE c = "7" -> Done(save_state(D))
                      [] c = "8" -> Done(restore_state(D))
                      [] c = "D" -> Calls(D, LineFeed(D, D.cursor_x))
                      [] c = "E" -> Calls(D, LineFeed(D, 0))
                      [] c = "M" -> Calls(D, reverse_linefeed(D))
                      [] c \in {"(", ")"} -> Done([D EXCEPT !.g_select = IF c = "(" THEN 1 ELSE 2])
                      [] OTHER -> Done(D), D.scroll_enabled)

\* The glyphs of the line drawing set, by their code page 437 numbers.
DecSpecial ==
    [backquote |-> "04", a |-> "b1", f |-> "f8", g |-> "f1", h |-> "b0", j |-> "d9", k |-> "bf",
     l |-> "da", m |-> "c0", n |-> "c5", q |-> "c4", s |-> "5f", t |-> "c3", u |-> "b4",
     v |-> "c1", w |-> "c2", x |-> "b3", y |-> "f3", z |-> "f2"]
    @@ ("0" :> "db" @@ "-" :> "18" @@ "," :> "1b" @@ "." :> "19" @@ "~" :> "fa" @@ "_" :> "ff"
        @@ "+" :> "1a" @@ "{" :> "e3" @@ "}" :> "9c")
dec_special_to_cp437(c) == IF c \in DOMAIN DecSpecial THEN DecSpecial[c] ELSE c

\* Insert mode makes room at the cursor.
MakeRoom(C) ==
    IF ~C.insert_mode THEN <<>>
    ELSE IF C.cursor_x >= cols THEN <<<<"runaway">>>>
    ELSE [k \in 1 .. cols - C.cursor_x |->
             LET i == cols - k IN Move(i + 1, C.cursor_y, i, C.cursor_y)]

\* The glyph of a printable byte in the current character set.
Translated(C, c) ==
    IF C.charsets[C.current_charset + 1] = "dec special" THEN dec_special_to_cp437(c) ELSE c

Tab(C) ==
    LET stop == C.cursor_x \div tab_size + 1
    IN  <<SetCursor(IF stop >= cols THEN cols - 1 ELSE stop * tab_size, C.cursor_y)>>

\* ( B, ( 0, ) B, ) 0: the byte after the parenthesis.
select_charset(C, c) ==
    [C EXCEPT !.g_select = 0,
              !.charsets[C.g_select] = IF c = "B" THEN "default"
                                       ELSE IF c = "0" THEN "dec special" ELSE @]

Control == {"NUL", "DEL", "CSI", "ESC", "TAB", "VT", "FF", "LF", "BS", "CR", "BEL", "SO", "SI"}
control_character(C, c) ==
    CASE c = "CSI" -> Done([C EXCEPT !.csi = TRUE, !.escape_offset = 0, !.escape = TRUE])
      [] c = "ESC" -> Done([C EXCEPT !.escape_offset = 0, !.escape = TRUE])
      [] c = "TAB" -> Calls(C, Tab(C))
      [] c \in {"VT", "FF", "LF"} -> Calls(C, LineFeed(C, 0))
      [] c = "BS" -> Calls(C, <<SetCursor(C.cursor_x - 1, C.cursor_y)>>)
      [] c = "CR" -> Calls(C, <<SetCursor(0, C.cursor_y)>>)
      [] c = "SO" -> Done([C EXCEPT !.current_charset = 1])
      [] c = "SI" -> Done([C EXCEPT !.current_charset = 0])
      [] OTHER -> Done(C)

Cancelled(C) == Ground([C EXCEPT !.discard_next = FALSE, !.csi = FALSE, !.g_select = 0])

\* The byte is printed as a glyph.
Prints(C, c) ==
    ~C.discard_next /\ ~C.escape /\ C.g_select = 0 /\ c \notin Control \cup {"CAN", "SUB"}

term_putchar(C, c) ==
    IF C.discard_next \/ c \in {"CAN", "SUB"} THEN Done(Cancelled(C))
    ELSE IF C.escape THEN escape_parse(C, c)
    ELSE IF C.g_select # 0 THEN Done(select_charset(C, c))
    ELSE IF c \in Control THEN control_character(C, c)
    ELSE Calls(C, MakeRoom(C) \o <<Put(Translated(C, c))>>)

\* One call of a byte, and all of them.
Step(C, f) == IF f[1] = "end_sequence" THEN EndSequence(C, f[2]) ELSE Perform(C, f)
RECURSIVE Complete(_)
Complete(res) ==
    IF res.calls = <<>> \/ "cells" \in res.ctx.wild THEN res.ctx
    ELSE LET next == Step(res.ctx, Head(res.calls))
         IN  Complete(Calls(next.ctx, next.calls \o Tail(res.calls)))

-----------------------------------------------------------------------------
(* The roll of paper: lines, and the column of the print head.  It is kept *)
(* as long as only text, line ends, backspaces, carriage returns and       *)
(* colours are printed.                                                    *)

BlankLine == [x \in 0 .. cols - 1 |-> " "]
LostRoll == [kept |-> FALSE, lines |-> <<>>, col |-> 0]

NewLine(r) == [r EXCEPT !.lines = Append(@, BlankLine), !.col = 0]
PutOnRoll(r, c) ==
    LET s == [r EXCEPT !.lines[Len(r.lines)][r.col] = c, !.col = @ + 1]
    IN  IF s.col = cols THEN NewLine(s) ELSE s

Rolled(r, C, c) ==
    IF ~r.kept THEN r
    ELSE IF Prints(C, c) THEN IF C.current_charset = 0 THEN PutOnRoll(r, c) ELSE LostRoll
    ELSE IF ~C.escape /\ ~C.discard_next /\ C.g_select = 0
    THEN CASE c = "LF" -> NewLine(r)
           [] c = "BS" -> [r EXCEPT !.col = IF @ = 0 THEN 0 ELSE @ - 1]
           [] c = "CR" -> [r EXCEPT !.col = 0]
           [] c \in {"ESC", "NUL", "DEL", "BEL"} -> r
           [] OTHER -> LostRoll
    ELSE IF C.escape /\ ~C.csi /\ (IF C.control_sequence THEN IsDigit(c) \/ c \in {";", "m"} ELSE c = "[")
    THEN r
    ELSE LostRoll

-----------------------------------------------------------------------------
(* The steps.                                                              *)

\* The context zeroed, but for the cursor and the colours of the text.
fbterm_context ==
    [cursor_x |-> 0, cursor_y |-> 0, old_cursor_x |-> 0, old_cursor_y |-> 0, cursor_status |-> TRUE,
     text_fg |-> default_fg, text_bg |-> CANVAS,
     saved_state_text_fg |-> 0, saved_state_text_bg |-> 0,
     saved_state_cursor_x |-> 0, saved_state_cursor_y |-> 0,
     scroll_top_margin |-> 0, scroll_bottom_margin |-> 0, scroll_enabled |-> FALSE,
     control_sequence |-> FALSE, csi |-> FALSE, escape |-> FALSE, rrr |-> FALSE,
     discard_next |-> FALSE, bold |-> FALSE, reverse_video |-> FALSE, dec_private |-> FALSE,
     insert_mode |-> FALSE, g_select |-> 0, charsets |-> <<"default", "default">>,
     current_charset |-> 0, escape_offset |-> 0, esc_values_i |-> 0,
     esc_values |-> [k \in 0 .. TERM_MAX_ESC_VALUES - 1 |-> 0],
     saved_cursor_x |-> 0, saved_cursor_y |-> 0, current_primary |-> 0,
     saved_state_bold |-> FALSE, saved_state_reverse_video |-> FALSE,
     saved_state_current_charset |-> 0, saved_state_current_primary |-> 0, wild |-> {}]

\* An empty grid and an empty queue; the memory of map is taken to hold zeros,
\* which framebuffer.c relies on and nobody ensures.
fbterm_init ==
    term_context_reinit(fbterm_context @@
        [grid |-> [i \in Cell |-> Blank(fbterm_context)],
         queue |-> [k \in 1 .. rows * cols |-> NoItem], queue_i |-> 0, map |-> [i \in Cell |-> NULL],
         framebuffer |-> [i \in Cell |-> [d \in Dot |-> 0]]])

Init ==
    /\ boot = "clear"
    /\ ctx = fbterm_init
    /\ writing = <<>>
    /\ calls = <<>>
    /\ budget = [task |-> MaxMessages, irq |-> 1]
    /\ roll = [kept |-> TRUE, lines |-> <<BlankLine>>, col |-> 0]
    /\ torn = FALSE

clear_screen ==
    /\ boot = "clear"
    /\ boot' = "full_refresh"
    /\ ctx' = Complete(Calls(ctx, fbterm_clear(TRUE)))
    /\ UNCHANGED <<writing, calls, budget, roll, torn>>

full_refresh ==
    /\ boot = "full_refresh"
    /\ boot' = "up"
    /\ ctx' = Complete(fbterm_full_refresh(ctx))
    /\ UNCHANGED <<writing, calls, budget, roll, torn>>

Up == boot = "up" /\ "cells" \notin ctx.wild

printf(m) ==
    /\ Up /\ writing = <<>> /\ calls = <<>> /\ budget.task > 0
    /\ writing' = m
    /\ budget' = [budget EXCEPT !.task = @ - 1]
    /\ UNCHANGED <<boot, ctx, calls, roll, torn>>

\* term_write of the task's next byte: term_putchar, then the flush.
Flush == <<"flush">>
putchar ==
    /\ Up /\ writing # <<>> /\ calls = <<>>
    /\ LET res == term_putchar(ctx, Head(writing)) IN
       /\ ctx' = res.ctx
       /\ calls' = Append(res.calls, Flush)
    /\ roll' = Rolled(roll, ctx, Head(writing))
    /\ writing' = Tail(writing)
    /\ UNCHANGED <<boot, budget, torn>>

\* The next call of the byte or of the flush.
call ==
    /\ Up /\ calls # <<>>
    /\ LET res == Step(ctx, Head(calls)) IN
       /\ calls' = res.calls \o Tail(calls)
       /\ ctx' = IF calls' = <<>> THEN DropDeadItems(res.ctx) ELSE res.ctx
    /\ UNCHANGED <<boot, writing, budget, roll, torn>>

\* The task is between two bytes, or between a byte and its flush.
BetweenCalls == calls \in {<<>>, <<Flush>>}

\* kbd_push finds the ring full and reports it from the interrupt handler,
\* which runs to its end before the task goes on.
keyboard_overflow ==
    /\ Up /\ budget.irq > 0
    /\ torn' = ~BetweenCalls
    /\ LET write(s, c) ==
               [ctx |-> Complete(Calls(Complete(term_putchar(s.ctx, c)), <<Flush>>)),
                roll |-> Rolled(s.roll, s.ctx, c)]
           end == FoldLeft(write, [ctx |-> ctx, roll |-> roll], Overflow)
       IN  /\ ctx' = IF calls = <<>> THEN DropDeadItems(end.ctx) ELSE end.ctx
           /\ roll' = end.roll
    /\ budget' = [budget EXCEPT !.irq = 0]
    /\ UNCHANGED <<boot, writing, calls>>

Next ==
    \/ clear_screen \/ full_refresh
    \/ \E m \in Messages : printf(m)
    \/ putchar \/ call
    \/ keyboard_overflow

Spec == Init /\ [][Next]_vars

-----------------------------------------------------------------------------
(* Properties.                                                             *)

\* Nobody is writing.
Quiet == Up /\ writing = <<>> /\ calls = <<>>

\* Between two writes every cell of the screen shows the glyph and the colours
\* the grid has for it, exchanged exactly under the visible cursor
\* (draw_cursor, plot_char_fast and the flush of framebuffer.c), unless the
\* interrupt printed while the task was inside term_putchar or the flush.
ScreenShowsGrid ==
    Quiet /\ ~torn => \A i \in Cell :
        LET cursor == ctx.cursor_status /\ i = CellAt(ctx.cursor_x, ctx.cursor_y)
        IN  ctx.framebuffer[i] = DotsOf(IF cursor THEN Inverted(ctx.grid[i]) ELSE ctx.grid[i])

\* The map and the first queue_i items of the queue are inverse to each other,
\* and nothing is queued between two writes.
QueueAgreesWithMap ==
    /\ \A i \in Cell : ctx.map[i] # NULL => ctx.map[i] \in 1 .. ctx.queue_i /\ ctx.queue[ctx.map[i]].cell = i
    /\ \A k \in 1 .. ctx.queue_i : ctx.map[ctx.queue[k].cell] = k
    /\ Quiet => ctx.queue_i = 0

\* Before and after every byte and every flush the map and the queue are
\* inverse to each other: no cell is queued twice, so the queue of rows * cols
\* items never overflows, and no cell refers to an item that the next flush
\* passes over, so nothing printed stays off the screen (push_to_queue,
\* fbterm_double_buffer_flush); the interrupt's message may come between two
\* bytes or between a byte and its flush.
NothingLeftBehind == Up /\ BetweenCalls /\ ~torn => QueueAgreesWithMap

\* printf.h:29 says of the routines that end in term_write: "These routines are
\* thread safe and reentrant."  The same with the interrupt's message anywhere,
\* inside term_putchar and the flush as well.  It does not hold.
WritesAreReentrant == Up /\ BetweenCalls => QueueAgreesWithMap

\* Between two writes the screen shows the last lines of what was printed, as
\* on a roll of paper, and the cursor is at the place of the next character:
\* wrapping, scrolling, line feeds, backspaces and colours in any order, and
\* the interrupt's message between two bytes or between a byte and its flush
\* (fbterm_raw_putchar, fbterm_scroll, the line feed of term_putchar).  Not
\* claimed when the interrupt printed inside term_putchar or the flush: a
\* scroll within a scroll loses a line.
ScreenIsWindowOfRoll ==
    Quiet /\ ~torn /\ roll.kept =>
        LET n == Len(roll.lines)
            first == IF n > rows THEN n - rows ELSE 0
        IN  /\ ctx.cursor_x = roll.col /\ ctx.cursor_y = n - 1 - first
            /\ \A i \in Cell :
                   LET k == first + 1 + i \div cols
                   IN  ctx.grid[i].c = IF k > n THEN " " ELSE roll.lines[k][i % cols]


=============================================================================
