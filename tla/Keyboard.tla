------------------------------ MODULE Keyboard ------------------------------
(***************************************************************************)
(* The PS/2 keyboard driver, src/drivers/keyboard/keyboard.c: IRQ1 fills a *)
(* ring buffer that the shell empties with kbd_pop.  The handler runs to   *)
(* completion (interrupt gate, one CPU) but may arrive between any two     *)
(* accesses of kbd_pop.                                                    *)
(*                                                                         *)
(* kbd_head and kbd_tail are volatile, kbd_stack is not: the compiler may  *)
(* read the slot before or after it stores the new tail, so both orders    *)
(* are behaviours of the model.                                            *)
(***************************************************************************)
EXTENDS Naturals, Sequences

CONSTANTS
    KBD_STACK_SIZE,   \* slots of the ring
    Make, Break,      \* scancodes of pressed and of released keys
    Char,             \* characters, NUL included
    keyboard_map,     \* the translation of keyboard_map.h
    ENTER, NEWLINE, PLUS, NUL

ASSUME KeyboardAssumption ==
    /\ KBD_STACK_SIZE \in Nat /\ KBD_STACK_SIZE > 1
    /\ ENTER \in Make /\ keyboard_map \in [Make -> Char]
    /\ {NEWLINE, PLUS, NUL} \subseteq Char
    /\ NUL # NEWLINE /\ NUL # PLUS

Slot == 0 .. KBD_STACK_SIZE - 1

VARIABLES
    kbd_stack, kbd_head, kbd_tail, k_char,
    pop,        \* kbd_pop: "idle", which of its two accesses are left, "done"
    slot, data  \* kbd_pop: the tail it read, and its local data

ring == <<kbd_stack, kbd_head, kbd_tail>>
vars == <<ring, k_char, pop, slot, data>>

Init ==
    /\ kbd_stack = [i \in Slot |-> NUL] /\ kbd_head = 0 /\ kbd_tail = 0
    /\ k_char = NUL
    /\ pop = "idle" /\ slot = 0 /\ data = NUL

After(i) == (i + 1) % KBD_STACK_SIZE

\* Mutant: every slot is used, so a full ring looks empty.
Full_never == FALSE
Full == After(kbd_head) = kbd_tail

\* A full ring drops the new key (and reports it on the terminal).
kbd_push(ch) ==
    IF Full THEN UNCHANGED ring
    ELSE /\ kbd_stack' = [kbd_stack EXCEPT ![kbd_head] = ch]
         /\ kbd_head' = After(kbd_head)
         /\ UNCHANGED kbd_tail

Translate(code) ==
    IF code = ENTER THEN k_char' = PLUS /\ kbd_push(NEWLINE)
    ELSE /\ k_char' = keyboard_map[code]
         /\ IF keyboard_map[code] = NUL THEN UNCHANGED ring
            ELSE kbd_push(keyboard_map[code])

\* IRQ1; ready is bit 0 of the controller's status.
keyboard_handler(ready, code) ==
    /\ IF ~ready \/ code \in Break THEN UNCHANGED <<ring, k_char>>
       ELSE Translate(code)
    /\ UNCHANGED <<pop, slot, data>>

\* The empty test; on an empty queue kbd_pop returns 0 and nothing changes.
kbd_pop ==
    /\ pop = "idle"
    /\ kbd_tail # kbd_head
    /\ pop' = "read and advance" /\ slot' = kbd_tail
    /\ UNCHANGED <<ring, k_char, data>>

kbd_pop_read ==
    /\ pop \in {"read and advance", "read"}
    /\ data' = kbd_stack[slot]
    /\ pop' = IF pop = "read" THEN "done" ELSE "advance"
    /\ UNCHANGED <<ring, k_char, slot>>

kbd_pop_advance ==
    /\ pop \in {"read and advance", "advance"}
    /\ kbd_tail' = After(kbd_tail)
    /\ pop' = IF pop = "advance" THEN "done" ELSE "read"
    /\ UNCHANGED <<kbd_stack, kbd_head, k_char, slot, data>>

kbd_pop_return ==
    /\ pop = "done"
    /\ pop' = "idle"
    /\ UNCHANGED <<ring, k_char, slot, data>>

Next ==
    \/ \E ready \in BOOLEAN, code \in Make \cup Break : keyboard_handler(ready, code)
    \/ kbd_pop
    \/ kbd_pop_read
    \/ kbd_pop_advance
    \/ kbd_pop_return

Spec == Init /\ [][Next]_vars

-----------------------------------------------------------------------------
(* Correctness.                                                            *)

\* How many keys are queued.
Queued == (kbd_head + KBD_STACK_SIZE - kbd_tail) % KBD_STACK_SIZE

\* The queue in FIFO order, and the key that kbd_pop is about to return: in its
\* local, or still only in the slot the tail has already left behind.
Queue == [i \in 1 .. Queued |-> kbd_stack[(kbd_tail + i - 1) % KBD_STACK_SIZE]]
Hand == IF pop = "read" THEN kbd_stack[slot] ELSE IF pop = "done" THEN data ELSE NUL

Fifo == INSTANCE CharFifo WITH
    Char <- Char \ {NUL},
    Capacity <- KBD_STACK_SIZE - 1,
    Nothing <- NUL,
    q <- Queue,
    hand <- Hand

\* The ring is a FIFO of KBD_STACK_SIZE - 1 keys: whatever keys arrive inside
\* kbd_pop, and in whichever order its two accesses happen, no key is lost once
\* queued, none is returned twice, and none overtakes another.
FifoSpec == Fifo!Spec
=============================================================================
