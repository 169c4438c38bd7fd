----------------------------- MODULE Interrupts -----------------------------
(***************************************************************************)
(* Hardware and software interrupts from the first instruction of _start   *)
(* (src/kernel.c) to running tasks: the IDT and its vector pool (idt.c),   *)
(* the two 8259 controllers (pic.c), the entry stubs (isr.asm) and         *)
(* irq_handler (interrupts.c).  Interrupts may be requested at any time;   *)
(* idt_init enables them while the controllers are not yet remapped, and   *)
(* pic_remap_offsets reinitialises the controllers with them enabled.      *)
(*                                                                         *)
(* The 8259 pair is external.  As the Limine protocol promises, it starts  *)
(* with every line masked, and IF clear; its vectors are the BIOS's.  ICW1 *)
(* clears the masks; no interrupt is raised before ICW4; an EOI clears the *)
(* in-service line of highest priority of one controller.                  *)
(***************************************************************************)
EXTENDS Integers, Sequences, FiniteSets

CONSTANT Line  \* the lines on which devices raise interrupts

ASSUME LineAssumption == Line \subseteq (0 .. 15) \ {2}

CASCADE == 2
Lines == 0 .. 15
None == -1

\* The calls of _start that touch interrupts, in order.
Boot == <<"stop_interrupts", "idt_init", "remap ICW1", "remap ICW2-4", "remap masks",
          "mask all", "time_init", "cli", "sti", "cli", "idt_reg_test", "int 48",
          "yield_register", "int 49", "memory_bringup", "mask PIT", "sti", "fbterm_init",
          "keyboard_init", "unmask PIT", "tasks">>

VARIABLES
    at,              \* index into Boot; the last entry is left only by a panic
    interrupts,      \* RFLAGS.IF
    installed,       \* vectors with a present descriptor
    vectors,         \* idt.c: vectors in use
    isr_delta,       \* idt.c: vectors with a dynamic handler
    imr, irr, isr,   \* the controllers: lines masked, requested, in service
    offset, ready,   \* the controllers: vector of line 0; initialised
    saved_masks,     \* pic_remap_offsets: master_mask, slave_mask
    vector,          \* the interrupt being handled, or None
    eoi,             \* its EOIs still to be sent, a sequence of "slave", "master"
    resumed,         \* RFLAGS.IF in the frame that iretq restores
    status           \* "up", or "halted" by an exception or a panic

idt == <<installed, vectors, isr_delta>>
pic == <<imr, irr, isr, offset, ready, saved_masks>>
frame == <<vector, eoi, resumed>>
vars == <<at, interrupts, idt, pic, frame, status>>

Init ==
    /\ at = 1 /\ interrupts = FALSE
    /\ installed = {} /\ vectors = {} /\ isr_delta = {}
    /\ imr = Lines /\ irr = {} /\ isr = {} /\ offset = 8 /\ ready = TRUE
    /\ saved_masks = {}
    /\ vector = None /\ eoi = <<>> /\ resumed = FALSE
    /\ status = "up"

-----------------------------------------------------------------------------
(* The controllers.                                                        *)

Slave == 8 .. 15
Priority(l) == IF l \in Slave THEN 2 + l ELSE IF l > CASCADE THEN 20 + l ELSE l
Highest(S) == CHOOSE l \in S : \A k \in S : Priority(l) <= Priority(k)

\* A device asks for service.
Request(l) ==
    /\ status = "up" /\ l \notin irr
    /\ irr' = irr \cup {l}
    /\ UNCHANGED <<at, interrupts, idt, imr, isr, offset, ready, saved_masks, frame, status>>

Deliverable ==
    {l \in irr \ imr : /\ l \in Slave => CASCADE \notin imr
                       /\ \A k \in isr : Priority(l) < Priority(k)}

VectorOf(l) == IF offset = 8 /\ l \in Slave THEN 112 + l - 8 ELSE offset + l

\* The CPU takes vector v through an interrupt gate; the entry stub clears IF.
Enter(v) ==
    /\ vector' = v /\ eoi' = <<>>
    /\ resumed' = interrupts /\ interrupts' = FALSE

Between == status = "up" /\ vector = None

accept ==
    /\ Between /\ interrupts /\ ready /\ Deliverable # {}
    /\ LET l == Highest(Deliverable) IN
       /\ Enter(VectorOf(l))
       /\ irr' = irr \ {l}
       /\ isr' = isr \cup (IF l \in Slave THEN {l, CASCADE} ELSE {l})
    /\ UNCHANGED <<at, idt, imr, offset, ready, saved_masks, status>>

\* The request went away while it was acknowledged: a spurious interrupt on the
\* last line of a controller, which is then not in service.
accept_spurious(l) ==
    /\ Between /\ interrupts /\ ready /\ isr = {}
    /\ CASCADE \notin imr \/ l \notin Slave
    /\ imr # Lines
    /\ Enter(VectorOf(l))
    /\ isr' = IF l \in Slave THEN {CASCADE} ELSE {}
    /\ UNCHANGED <<at, idt, irr, imr, offset, ready, saved_masks, status>>

-----------------------------------------------------------------------------
(* The handlers.                                                           *)

\* Mutant: the master is forgotten for lines of the slave.
EoisFor_one_controller(irq) == IF irq >= 8 THEN <<"slave">> ELSE <<"master">>
\* pic_send_eoi.
EoisFor(irq) == IF irq >= 8 THEN <<"slave", "master">> ELSE <<"master">>

\* irq_handler, up to the acknowledgement; an exception, an absent descriptor
\* and a dynamic vector without handler stop the machine.
irq_handler ==
    /\ status = "up" /\ vector # None /\ eoi = <<>>
    /\ IF vector \notin installed \/ vector < 32 \/ (vector >= 48 /\ vector \notin isr_delta)
       THEN status' = "halted" /\ UNCHANGED <<frame, interrupts>>
       ELSE IF vector < 48
       THEN eoi' = EoisFor(vector - 32) /\ UNCHANGED <<vector, resumed, interrupts, status>>
       ELSE vector' = None /\ interrupts' = resumed /\ UNCHANGED <<eoi, resumed, status>>
    /\ UNCHANGED <<at, idt, pic>>

\* One outb of pic_send_eoi; after the last, the stub returns with iretq.
pic_send_eoi ==
    /\ status = "up" /\ eoi # <<>>
    /\ LET mine == IF Head(eoi) = "slave" THEN isr \cap Slave ELSE isr \ Slave
       IN  isr' = IF mine = {} THEN isr ELSE isr \ {Highest(mine)}
    /\ eoi' = Tail(eoi)
    /\ IF Len(eoi) = 1 THEN vector' = None /\ interrupts' = resumed
       ELSE UNCHANGED <<vector, interrupts>>
    /\ UNCHANGED <<at, idt, imr, irr, offset, ready, saved_masks, resumed, status>>

-----------------------------------------------------------------------------
(* _start.                                                                 *)

Call(name) == Between /\ Boot[at] = name /\ at < Len(Boot) /\ at' = at + 1

stop_interrupts ==
    /\ Call("stop_interrupts") \/ Call("cli")
    /\ interrupts' = FALSE
    /\ UNCHANGED <<idt, pic, frame, status>>

sti ==
    /\ Call("sti")
    /\ interrupts' = TRUE
    /\ UNCHANGED <<idt, pic, frame, status>>

\* Descriptors and reservations for 0 .. 47, and sti.
idt_init ==
    /\ Call("idt_init")
    /\ installed' = 0 .. 47 /\ vectors' = 0 .. 47
    /\ interrupts' = TRUE
    /\ UNCHANGED <<isr_delta, pic, frame, status>>

\* Reads the masks; ICW1 restarts both controllers.
pic_remap_start ==
    /\ Call("remap ICW1")
    /\ saved_masks' = imr
    /\ imr' = {} /\ irr' = {} /\ isr' = {} /\ ready' = FALSE
    /\ UNCHANGED <<interrupts, idt, offset, frame, status>>

\* Mutant: ICW2 keeps the BIOS vectors.
pic_remap_icw_old_offset ==
    /\ Call("remap ICW2-4")
    /\ ready' = TRUE
    /\ UNCHANGED <<interrupts, idt, imr, irr, isr, offset, saved_masks, frame, status>>
pic_remap_icw ==
    /\ Call("remap ICW2-4")
    /\ offset' = 32 /\ ready' = TRUE
    /\ UNCHANGED <<interrupts, idt, imr, irr, isr, saved_masks, frame, status>>

pic_remap_masks ==
    /\ Call("remap masks")
    /\ imr' = saved_masks
    /\ UNCHANGED <<interrupts, idt, irr, isr, offset, ready, saved_masks, frame, status>>

SetMasks(masks) ==
    /\ imr' = masks
    /\ UNCHANGED <<interrupts, idt, irr, isr, offset, ready, saved_masks, frame, status>>

pic_mask_irq == (Call("mask all") /\ SetMasks(Lines)) \/ (Call("mask PIT") /\ SetMasks(imr \cup {0}))

pic_unmask_irq ==
    \/ (Call("time_init") \/ Call("unmask PIT")) /\ SetMasks(imr \ {0})
    \/ Call("keyboard_init") /\ SetMasks(imr \ {1})

\* idt_allocate_vector: the first vector not in use.
idt_allocate_vector == CHOOSE v \in (0 .. 255) \ vectors : \A u \in (0 .. 255) \ vectors : v <= u

\* idt_reg_test and yield_register.
Register(name) ==
    /\ Call(name)
    /\ vectors' = vectors \cup {idt_allocate_vector}
    /\ isr_delta' = isr_delta \cup {idt_allocate_vector}
    /\ installed' = installed \cup {idt_allocate_vector}
    /\ UNCHANGED <<interrupts, pic, frame, status>>
idt_reg_test == Register("idt_reg_test")
yield_register == Register("yield_register")

\* int $48 and int $49.
software_interrupt ==
    /\ \/ Call("int 48") /\ Enter(48)
       \/ Call("int 49") /\ Enter(49)
    /\ UNCHANGED <<idt, pic, status>>

\* Calls that leave the interrupt state alone.
other_calls ==
    /\ Call("memory_bringup") \/ Call("fbterm_init")
    /\ UNCHANGED <<interrupts, idt, pic, frame, status>>

\* Tasks run; switch_to disables and enables interrupts.
switch_to ==
    /\ Between /\ at = Len(Boot)
    /\ interrupts' = ~interrupts
    /\ UNCHANGED <<at, idt, pic, frame, status>>

Start ==
    \/ stop_interrupts
    \/ sti
    \/ idt_init
    \/ pic_remap_start
    \/ pic_remap_icw
    \/ pic_remap_masks
    \/ pic_mask_irq
    \/ pic_unmask_irq
    \/ idt_reg_test
    \/ yield_register
    \/ software_interrupt
    \/ other_calls
    \/ switch_to

Next ==
    \/ \E l \in Line : Request(l)
    \/ accept
    \/ \E l \in {7, 15} : accept_spurious(l)
    \/ irq_handler
    \/ pic_send_eoi
    \/ Start

Spec == Init /\ [][Next]_vars

-----------------------------------------------------------------------------
(* Correctness.                                                            *)

\* Every interrupt, hardware or software, finds its handler, although interrupts
\* are enabled before the controllers are remapped and while their masks are
\* cleared: none arrives as a CPU exception or at an absent descriptor.
InterruptsFindHandlers == status = "up"

\* Outside a handler nothing is in service: each interrupt was acknowledged at
\* every controller involved, and software interrupts acknowledged none.
AllAcknowledged == vector = None => isr = {}

=============================================================================
