------------------------------ MODULE Console -------------------------------
(***************************************************************************)
(* Where the kernel's output goes: _putchar's routing (src/putchar.c) while *)
(* _start hands the console over from the boot loader to the serial line   *)
(* and then to the framebuffer terminal, with the keyboard interrupt       *)
(* (which prints when its ring is full), CPU exceptions and panic printing  *)
(* in the middle of anybody's output.                                      *)
(*                                                                         *)
(* A writer is a list of things left to do: characters ("c", "nl"),        *)
(* assignments to kerror_mode, and the final stop.  The writers form a     *)
(* stack: the last one executes.                                           *)
(***************************************************************************)
EXTENDS Naturals, Sequences

CONSTANTS LOGBUF_SIZE, Offered

ASSUME ConsoleAssumption == LOGBUF_SIZE \in Nat \ {0, 1} /\ Offered \subseteq BOOLEAN

VARIABLES
    offered,       \* the boot loader offers a terminal (never changes)
    place,         \* how far _start is
    bootspace, kerror_mode, init_done,
    g_pml4, cr3,   \* "none" or "voyager"; "limine" or "voyager"
    term_context,  \* "NULL" or "up"
    loglen,        \* characters in the serial line buffer
    writers,       \* who is printing, innermost last
    out            \* ghost: the devices the last step wrote to

kernel == <<offered, place, init_done, g_pml4, cr3, term_context>>
vars == <<kernel, bootspace, kerror_mode, loglen, writers, out>>

\* _start as far as the console can tell.  "print" stands for all the output up
\* to the next step.
Start ==
    <<"terminal offered?", "print", "name framebuffer", "print", "idt_init", "print",
      "alloc root", "print", "load cr3", "print", "frame_init", "print", "serial only",
      "fbterm_init", "use terminal", "keyboard_init", "print", "init_done", "serial only",
      "use terminal", "tasks", "stopped", "faulted">>
At(step) == Start[place] = step
Position(step) == CHOOSE k \in DOMAIN Start : Start[k] = step
Past(step) == place > Position(step)

\* A writer: what it still has to do, and where in _putchar it is.
Writer(who, todo) == [who |-> who, todo |-> todo, at |-> "idle", n |-> 0]
Message == <<"c", "c", "nl">>
Writing == writers # <<>>
Me == writers[Len(writers)]
Has(who) == \E k \in DOMAIN writers : writers[k].who = who

Init ==
    /\ offered \in Offered /\ place = 1
    /\ bootspace = 2 /\ kerror_mode = 0 /\ init_done = FALSE
    /\ g_pml4 = "none" /\ cr3 = "limine" /\ term_context = "NULL"
    /\ loglen = 0 /\ writers = <<>> /\ out = {}

-----------------------------------------------------------------------------
(* _start.                                                                 *)

Boot(step) == ~Writing /\ At(step) /\ place' = place + 1 /\ out' = {}
Quiet == UNCHANGED <<kerror_mode, loglen, offered>>

check_terminal ==
    /\ Boot("terminal offered?")
    /\ bootspace' = IF offered THEN bootspace ELSE 1
    /\ UNCHANGED <<init_done, g_pml4, cr3, term_context, writers>> /\ Quiet

print ==
    /\ Boot("print")
    /\ writers' = <<Writer("boot", Message)>>
    /\ UNCHANGED <<bootspace, init_done, g_pml4, cr3, term_context>> /\ Quiet

\* Reads early_term.response->terminals[0], whether there is a response or not;
\* page 0 is not mapped and no IDT is loaded.
name_framebuffer ==
    /\ ~Writing /\ At("name framebuffer") /\ out' = {}
    /\ place' = IF offered THEN place + 1 ELSE Position("faulted")
    /\ UNCHANGED <<bootspace, init_done, g_pml4, cr3, term_context, writers>> /\ Quiet

idt_init ==
    /\ Boot("idt_init")
    /\ UNCHANGED <<bootspace, init_done, g_pml4, cr3, term_context, writers>> /\ Quiet

\* paging_bootstrap: the root is known before CR3 is loaded.
alloc_root ==
    /\ Boot("alloc root") /\ g_pml4' = "voyager"
    /\ UNCHANGED <<bootspace, init_done, cr3, term_context, writers>> /\ Quiet

load_cr3 ==
    /\ Boot("load cr3") /\ cr3' = "voyager"
    /\ UNCHANGED <<bootspace, init_done, g_pml4, term_context, writers>> /\ Quiet

serial_only ==
    /\ Boot("serial only") /\ bootspace' = 1
    /\ UNCHANGED <<init_done, g_pml4, cr3, term_context, writers>> /\ Quiet

frame_init ==
    /\ Boot("frame_init")
    /\ UNCHANGED <<bootspace, init_done, g_pml4, cr3, term_context, writers>> /\ Quiet

\* panic: the screen is forced only when initialisation is complete.
PanicMode == IF init_done THEN 1 ELSE kerror_mode

Panic ==
    /\ kerror_mode' = PanicMode
    /\ writers' = <<Writer("panic", Message \o <<"halt">>)>>

fbterm_init ==
    /\ Boot("fbterm_init") /\ term_context' = "up"
    /\ UNCHANGED <<bootspace, init_done, g_pml4, cr3, writers>> /\ Quiet

\* The calls of panic by _start and the tasks: memory bring-up without memory or
\* a usable map, no framebuffer or no memory for the terminal, and any panic of
\* a task or of the scheduler.
panics ==
    /\ ~Writing /\ out' = {}
    /\ Start[place] \in {"alloc root", "load cr3", "frame_init", "fbterm_init", "tasks"}
    /\ Panic
    /\ UNCHANGED <<kernel, bootspace, loglen>>

\* Mutant: output stays on the serial line.
use_terminal_forgotten ==
    /\ Boot("use terminal")
    /\ UNCHANGED <<bootspace, init_done, g_pml4, cr3, term_context, writers>> /\ Quiet

use_terminal ==
    /\ Boot("use terminal") /\ bootspace' = 0
    /\ UNCHANGED <<init_done, g_pml4, cr3, term_context, writers>> /\ Quiet

keyboard_init ==
    /\ Boot("keyboard_init")
    /\ UNCHANGED <<bootspace, init_done, g_pml4, cr3, term_context, writers>> /\ Quiet

finish_init ==
    /\ Boot("init_done") /\ init_done' = TRUE
    /\ UNCHANGED <<bootspace, g_pml4, cr3, term_context, writers>> /\ Quiet

\* The tasks print for ever.
task_prints ==
    /\ ~Writing /\ At("tasks") /\ out' = {}
    /\ writers' = <<Writer("task", Message)>>
    /\ UNCHANGED <<kernel, bootspace>> /\ Quiet

-----------------------------------------------------------------------------
(* The interruptions.                                                      *)

Running == place < Position("stopped")

\* IRQ1 with a full ring (kbd_push): interrupts are on from keyboard_init's
\* unmasking, except inside another handler.
keyboard_overflow ==
    /\ Running /\ Past("keyboard_init") /\ ~Has("irq1") /\ ~Has("exception")
    /\ writers' = Append(writers, Writer("irq1", <<"kerror 1">> \o Message \o <<"kerror 0">>))
    /\ out' = {}
    /\ UNCHANGED <<kernel, bootspace, kerror_mode, loglen>>

\* isr_exception_handler prints, forces the screen, prints and stops.
exception ==
    /\ Running /\ Past("idt_init") /\ ~Has("exception")
    /\ writers' = Append(writers, Writer("exception",
                             Message \o <<"kerror 1">> \o Message \o <<"halt">>))
    /\ out' = {}
    /\ UNCHANGED <<kernel, bootspace, kerror_mode, loglen>>

-----------------------------------------------------------------------------
(* The innermost writer.                                                   *)

Doing(item) == Running /\ Writing /\ Me.at = "idle" /\ Me.todo # <<>> /\ Head(Me.todo) = item
Become(w) == writers' = [writers EXCEPT ![Len(writers)] = w]
Done == Become([Me EXCEPT !.todo = Tail(@), !.at = "idle"])

set_kerror_mode ==
    /\ \E k \in {0, 1} :
         /\ Doing(IF k = 1 THEN "kerror 1" ELSE "kerror 0")
         /\ kerror_mode' = k
    /\ Done /\ out' = {}
    /\ UNCHANGED <<kernel, bootspace, loglen>>

return ==
    /\ Running /\ Writing /\ Me.todo = <<>>
    /\ writers' = SubSeq(writers, 1, Len(writers) - 1) /\ out' = {}
    /\ UNCHANGED <<kernel, bootspace, kerror_mode, loglen>>

Stop ==
    /\ place' = Position("stopped") /\ writers' = <<>>
    /\ UNCHANGED <<offered, init_done, g_pml4, cr3, term_context>>

halt ==
    /\ Doing("halt") /\ Stop /\ out' = {}
    /\ UNCHANGED <<bootspace, kerror_mode, loglen>>

\* Mutant: the page tables are not looked at.
voyager_page_tables_active_never == FALSE
voyager_page_tables_active == g_pml4 # "none" /\ cr3 = g_pml4

\* The devices _putchar sends a character to ("log": the serial line buffer).
\* "fallback": it prints its complaint about the missing terminal with printf_,
\* that is with itself, and comes back to the same place for every character.
Route ==
    LET limine == IF voyager_page_tables_active THEN {} ELSE {"limine"}
    IN  IF kerror_mode = 1 THEN {"terminal", "log"}
        ELSE IF kerror_mode = 2 \/ bootspace = 1 THEN {"log"}
        ELSE IF bootspace = 2 THEN limine \cup {"log"}
        ELSE IF bootspace = 3 THEN IF limine = {} THEN {"log"} ELSE limine
        ELSE IF term_context = "up" THEN {"terminal", "log"} ELSE {"log", "fallback"}

\* _putchar up to buffer_or_flush.  A write to a terminal that is not there
\* faults, and the fallback never ends: the machine is lost.
putchar_route ==
    /\ Doing("c") \/ Doing("nl")
    /\ out' = Route
    /\ IF "fallback" \in Route \/ ("terminal" \in Route /\ term_context = "NULL")
         THEN Stop
         ELSE /\ IF "log" \in Route THEN Become([Me EXCEPT !.at = "log"]) ELSE Done
              /\ UNCHANGED kernel
    /\ UNCHANGED <<bootspace, kerror_mode, loglen>>

\* buffer_or_flush reads loglen; an interrupt may print before the line is
\* flushed (and loglen cleared) or the character stored (and loglen written).
\* Mutant: the room for the terminating zero is forgotten.
MustFlush_late(c) == c = "nl" \/ loglen = LOGBUF_SIZE
MustFlush(c) == c = "nl" \/ loglen = LOGBUF_SIZE - 1

buffer_or_flush ==
    /\ Running /\ Writing /\ Me.at = "log"
    /\ IF MustFlush(Head(Me.todo))
         THEN IF loglen = 0 THEN Done ELSE Become([Me EXCEPT !.at = "flush"])
         ELSE Become([Me EXCEPT !.at = "store", !.n = loglen])
    /\ out' = {}
    /\ UNCHANGED <<kernel, bootspace, kerror_mode, loglen>>

store ==
    /\ Running /\ Writing /\ Me.at = "store"
    /\ loglen' = Me.n + 1
    /\ Done /\ out' = {}
    /\ UNCHANGED <<kernel, bootspace, kerror_mode>>

flush_serial_line ==
    /\ Running /\ Writing /\ Me.at = "flush"
    /\ loglen' = 0
    /\ Done /\ out' = {"serial"}
    /\ UNCHANGED <<kernel, bootspace, kerror_mode>>

Next ==
    \/ check_terminal \/ print \/ name_framebuffer \/ idt_init \/ alloc_root \/ load_cr3
    \/ frame_init \/ serial_only \/ fbterm_init \/ use_terminal \/ keyboard_init
    \/ finish_init \/ task_prints \/ panics
    \/ keyboard_overflow \/ exception
    \/ set_kerror_mode \/ return \/ halt \/ putchar_route \/ buffer_or_flush \/ store
    \/ flush_serial_line

Spec == Init /\ [][Next]_vars

-----------------------------------------------------------------------------
(* Properties.                                                             *)

\* Type invariant.  The line buffer always has room for its terminating zero,
\* whichever writers interrupt one another inside buffer_or_flush.
TypeOK ==
    /\ offered \in BOOLEAN /\ place \in DOMAIN Start
    /\ bootspace \in 0..3 /\ kerror_mode \in 0..2 /\ init_done \in BOOLEAN
    /\ g_pml4 \in {"none", "voyager"} /\ cr3 \in {"limine", "voyager"}
    /\ term_context \in {"NULL", "up"}
    /\ loglen \in 0..LOGBUF_SIZE - 1
    /\ \A k \in DOMAIN writers : /\ writers[k].at \in {"idle", "log", "flush", "store"}
                                 /\ writers[k].n \in 0..LOGBUF_SIZE - 2
    /\ out \subseteq {"limine", "terminal", "log", "fallback", "serial"}

\* _putchar sends every character only to devices that are usable at that moment,
\* whoever prints.  The boot loader's callback is executed only when it was
\* offered and only on its own page tables ("Once Voyager installs its own CR3, do
\* not execute that callback").  The terminal is written only once it exists,
\* except by a CPU exception taken before that, because isr_exception_handler
\* forces the screen unconditionally.  The complaint about a missing terminal,
\* which would print itself for ever, is never reached.
DevicesAreUsable ==
    [][/\ "limine" \in out' => cr3 = "limine" /\ offered
       /\ "terminal" \in out' => term_context = "up" \/ Has("exception")
       /\ "fallback" \notin out']_vars

\* Once initialisation is complete every character panic prints reaches the
\* screen, even when a keyboard overflow in the middle of the message resets
\* kerror_mode to 0.
PanicReachesScreen ==
    [][(Writing /\ Me.who = "panic" /\ init_done /\ putchar_route) => "terminal" \in out']_vars

=============================================================================
