------------------------------- MODULE Shell -------------------------------
(***************************************************************************)
(* The command shell, src/shell.c: vsh_loop reads a line from the keyboard *)
(* queue into a heap buffer that grows as needed, runs the command and     *)
(* frees the buffer, yielding to the other processes while no key waits.   *)
(*                                                                         *)
(* These are its steps, given what kbd_pop returned; module Input runs     *)
(* them on the keyboard driver.  Of its other neighbours the shell uses    *)
(* what they promise: a buffer has the size that was asked for and keeps   *)
(* its content when it grows (KernelHeap), and every process yields and    *)
(* gets its turn again (Scheduler).                                        *)
(***************************************************************************)
EXTENDS Naturals, Sequences

CONSTANTS
    VSH_CMD_BUFFER_SIZE,
    Letter,           \* printable characters
    NEWLINE, RETURN, BACKSPACE, NUL,
    HaltLines,        \* the lines "halt" and "Halt"
    SoakLine,         \* the line "soak"
    MaxTasks          \* processes, at most

\* What the shell relies on; module Input, which runs it, assumes it.
ShellConstants ==
    /\ VSH_CMD_BUFFER_SIZE \in Nat \ {0} /\ MaxTasks \in Nat \ {0}
    /\ {NEWLINE, RETURN, BACKSPACE, NUL} \cap Letter = {}
    /\ NUL \notin {NEWLINE, RETURN, BACKSPACE} /\ BACKSPACE \notin {NEWLINE, RETURN}
    /\ HaltLines \subseteq Seq(Letter) /\ SoakLine \in Seq(Letter)

VARIABLES
    pc,                    \* "prompt", "read", "parse", "yield" or "halted"
    buffer, bufsize, pos,  \* vsh_readline's locals; buffer maps offsets to characters
    held,                  \* buffers allocated and not yet freed
    tasks, cpu,            \* number of processes; who runs, "shell" or "others"
    typed, taken           \* ghosts: keys read for the present line; keys read so far

line == <<buffer, bufsize, pos>>
sched == <<tasks, cpu>>
ghosts == <<typed, taken>>
vars == <<pc, line, held, sched, ghosts>>

Init ==
    /\ pc = "prompt"
    /\ buffer = <<>> /\ bufsize = 0 /\ pos = 0 /\ held = 0
    /\ tasks = 1 /\ cpu = "shell"
    /\ typed = <<>> /\ taken = 0

\* What a fresh or grown buffer holds where nothing was written yet.
Garbage == "garbage"
Offsets(size) == 0 .. size - 1

\* schedule(): with other processes in the ring the shell waits for its turn.
Yield == cpu' = IF tasks > 1 THEN "others" ELSE "shell"

\* The last of the other processes yields to the shell.
others ==
    /\ cpu = "others" /\ pc # "halted"
    /\ cpu' = "shell"
    /\ UNCHANGED <<pc, line, held, tasks, ghosts>>

At(place) == cpu = "shell" /\ pc = place

\* vsh_readline starts: the buffer, or NULL.
readline ==
    /\ At("prompt")
    /\ pc' = "read" /\ bufsize' = VSH_CMD_BUFFER_SIZE /\ pos' = 0
    /\ buffer' = [i \in Offsets(VSH_CMD_BUFFER_SIZE) |-> Garbage]
    /\ held' = held + 1 /\ typed' = <<>>
    /\ UNCHANGED <<sched, taken>>

readline_fails ==
    /\ At("prompt")
    /\ pc' = "yield"
    /\ UNCHANGED <<line, held, sched, ghosts>>

\* kbd_pop returned 0: there is no key.
read_nothing(ch) ==
    /\ At("read") /\ ch = NUL
    /\ Yield
    /\ UNCHANGED <<pc, line, held, tasks, ghosts>>

\* kbd_pop returned the key ch.
Take(ch) ==
    /\ At("read") /\ ch # NUL
    /\ typed' = Append(typed, ch) /\ taken' = taken + 1

\* Enter ends the line with a NUL.
read_enter(ch) ==
    /\ Take(ch) /\ ch \in {NEWLINE, RETURN}
    /\ buffer' = [buffer EXCEPT ![pos] = NUL]
    /\ pc' = "parse"
    /\ UNCHANGED <<bufsize, pos, held, sched>>

read_backspace(ch) ==
    /\ Take(ch) /\ ch = BACKSPACE
    /\ pos' = IF pos > 0 THEN pos - 1 ELSE pos
    /\ UNCHANGED <<pc, buffer, bufsize, held, sched>>

\* The buffer has room for one more character and the NUL.
Room == pos + 1 < bufsize

\* The size after krealloc, where it is called.
NewSize == IF Room THEN bufsize ELSE bufsize + VSH_CMD_BUFFER_SIZE

\* Mutant: a grown buffer starts without the old content.
Grown_empty == [i \in Offsets(NewSize) |-> IF Room THEN buffer[i] ELSE Garbage]
\* The buffer after krealloc, which keeps the old content.
Grown == [i \in Offsets(NewSize) |-> IF i < bufsize THEN buffer[i] ELSE Garbage]

read_letter(ch) ==
    /\ Take(ch) /\ ch \in Letter
    /\ buffer' = [Grown EXCEPT ![pos] = ch]
    /\ bufsize' = NewSize
    /\ pos' = pos + 1
    /\ UNCHANGED <<pc, held, sched>>

\* Mutant: the old buffer is forgotten when krealloc fails.
read_letter_fails_leaking(ch) ==
    /\ Take(ch) /\ ch \in Letter
    /\ ~Room
    /\ pc' = "yield"
    /\ UNCHANGED <<line, held, sched>>
\* krealloc returned NULL: the line is given up.
read_letter_fails(ch) ==
    /\ Take(ch) /\ ch \in Letter
    /\ ~Room
    /\ held' = held - 1
    /\ pc' = "yield"
    /\ UNCHANGED <<line, sched>>

\* The C string in the buffer: what precedes the first NUL.
Command ==
    LET end == CHOOSE n \in 0 .. bufsize :
                   /\ \A i \in Offsets(n) : buffer[i] # NUL
                   /\ n = bufsize \/ buffer[n] = NUL
    IN  [i \in 1 .. end |-> buffer[i - 1]]

\* cmd_parser, then kfree.  Commands that only print change nothing here.
cmd_parser ==
    /\ At("parse")
    /\ IF Command \in HaltLines
       THEN pc' = "halted" /\ UNCHANGED <<held, tasks>>
       ELSE /\ pc' = "yield" /\ held' = held - 1
            /\ tasks' = IF Command = SoakLine /\ tasks < MaxTasks THEN tasks + 1 ELSE tasks
    /\ UNCHANGED <<line, cpu, ghosts>>

\* "soak" without memory for the process: create_process panics.
cmd_parser_panics ==
    /\ At("parse") /\ Command = SoakLine
    /\ pc' = "halted"
    /\ UNCHANGED <<line, held, sched, ghosts>>

\* Mutant: the loop never comes back to the prompt.
vsh_loop_yields_forever ==
    /\ At("yield")
    /\ Yield
    /\ UNCHANGED <<pc, line, held, tasks, ghosts>>
\* The end of vsh_loop's body.
vsh_loop_yields ==
    /\ At("yield")
    /\ pc' = "prompt" /\ Yield
    /\ UNCHANGED <<line, held, tasks, ghosts>>

-----------------------------------------------------------------------------
(* Correctness.                                                            *)

\* What one key does to the line: a letter is appended, Backspace erases the
\* last one.
EditKey(l, ch) ==
    IF ch \in Letter THEN Append(l, ch)
    ELSE IF ch = BACKSPACE /\ l # <<>> THEN SubSeq(l, 1, Len(l) - 1) ELSE l

\* The line after the keys ks.
Edited(ks) ==
    LET after[n \in 0 .. Len(ks)] == IF n = 0 THEN <<>> ELSE EditKey(after[n - 1], ks[n])
    IN  after[Len(ks)]

\* The command that is run is the line as the user edited it, however often the
\* buffer grew in between.
CommandIsWhatWasTyped == pc = "parse" => Command = Edited(typed)

\* Whatever is typed and wherever an allocation fails, vsh_readline and vsh_loop
\* hold one buffer while there is a line and none otherwise, and the line always
\* leaves room for the NUL that ends it.
LineBufferIsSound ==
    /\ pc # "halted" => held = IF pc \in {"read", "parse"} THEN 1 ELSE 0
    /\ pc \in {"read", "parse"} => pos < bufsize
=============================================================================
