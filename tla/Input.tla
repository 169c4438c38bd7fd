------------------------------- MODULE Input -------------------------------
(***************************************************************************)
(* From the key to the command: the keyboard driver (Keyboard) and the     *)
(* shell that reads from it (Shell), step by step.  A key reaches the      *)
(* shell only through the accesses of kbd_pop, and IRQ1 may arrive between *)
(* any two of them, while the shell parses, or while another process runs. *)
(***************************************************************************)
EXTENDS Keyboard

CONSTANTS
    VSH_CMD_BUFFER_SIZE, Letter, RETURN, BACKSPACE, HaltLines, SoakLine, MaxTasks,
    MaxKeys    \* keys queued, at most

VARIABLES
    pc, buffer, bufsize, pos, held, tasks, cpu, typed, taken,
    arrived    \* ghost: keys queued so far

S == INSTANCE Shell

shellVars == <<pc, buffer, bufsize, pos, held, tasks, cpu, typed, taken>>
inputVars == <<vars, shellVars, arrived>>

ASSUME InputAssumption ==
    /\ S!ShellConstants /\ MaxKeys \in Nat
    /\ {keyboard_map[code] : code \in Make \ {ENTER}}
           \subseteq Letter \cup {NEWLINE, RETURN, BACKSPACE, NUL}

InputInit == Init /\ S!Init /\ arrived = 0

\* IRQ1; the shell, if it is the one interrupted, does not notice.
irq1 ==
    /\ pc # "halted"
    /\ \E ready \in BOOLEAN, code \in Make \cup Break : keyboard_handler(ready, code)
    /\ IF kbd_head' = kbd_head THEN UNCHANGED arrived
       ELSE arrived < MaxKeys /\ arrived' = arrived + 1
    /\ UNCHANGED shellVars

\* vsh_readline is inside kbd_pop.
in_kbd_pop ==
    /\ S!At("read")
    /\ kbd_pop \/ kbd_pop_read \/ kbd_pop_advance
    /\ UNCHANGED <<shellVars, arrived>>

\* kbd_pop returns ch: 0 when its empty test comes true, else its local.
Returns(ch) ==
    IF pop = "idle" THEN kbd_tail = kbd_head /\ ch = NUL /\ UNCHANGED vars
    ELSE kbd_pop_return /\ ch = data

\* vsh_readline acts on what kbd_pop returns.
key_read ==
    /\ S!At("read")
    /\ \E ch \in Char :
           /\ Returns(ch)
           /\ \/ S!read_nothing(ch)
              \/ S!read_enter(ch)
              \/ S!read_backspace(ch)
              \/ S!read_letter(ch)
              \/ S!read_letter_fails(ch)
    /\ UNCHANGED arrived

readline == S!readline /\ UNCHANGED <<vars, arrived>>

\* The other steps of vsh_loop leave the keyboard alone.
elsewhere ==
    /\ S!readline_fails \/ S!cmd_parser \/ S!cmd_parser_panics \/ S!vsh_loop_yields
    /\ UNCHANGED <<vars, arrived>>

ShellProcess == in_kbd_pop \/ key_read \/ readline \/ elsewhere

others == S!others /\ UNCHANGED <<vars, arrived>>

InputNext == irq1 \/ ShellProcess \/ others

\* The CPU runs whoever has it, and the handler returns; the other processes are
\* loops that yield; and the heap does not refuse the line buffer for ever.
InputSpec ==
    /\ InputInit /\ [][InputNext]_inputVars
    /\ WF_inputVars(ShellProcess) /\ WF_inputVars(others) /\ SF_inputVars(readline)

-----------------------------------------------------------------------------
(* Correctness.                                                            *)

\* The command that cmd_parser is given is the line as the user edited it: the
\* keys that kbd_pop took out of the ring, in order, through interrupts inside
\* kbd_pop, a ring that wraps and fills, and however often the buffer grew.
CommandIsWhatWasTyped == S!CommandIsWhatWasTyped

\* Whatever is typed and wherever an allocation fails, vsh_readline and vsh_loop
\* hold one buffer while there is a line and none otherwise, and the line always
\* leaves room for the NUL that ends it.
LineBufferIsSound == S!LineBufferIsSound

\* A key that the interrupt queued is eventually acted on by the shell, unless
\* the machine stops: neither the other processes, nor more interrupts, nor a
\* failed command keeps vsh_readline from it.
KeysAreRead == \A n \in 1 .. MaxKeys : (arrived >= n) ~> (taken >= n \/ pc = "halted")
=============================================================================
