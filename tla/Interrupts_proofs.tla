-------------------------- MODULE Interrupts_proofs --------------------------
(***************************************************************************)
(* The two invariants of Interrupts, for every set of lines on which       *)
(* devices raise interrupts.                                               *)
(*                                                                         *)
(* The inductive invariant follows _start: what the IDT, the vector pool   *)
(* and the controllers hold at each of its calls, and, inside a handler,   *)
(* which lines the acknowledgements still to be sent will clear.           *)
(***************************************************************************)
EXTENDS Interrupts, ArithFacts

\* How many dynamic vectors are registered by now.
Registered == IF at <= 11 THEN 0 ELSE IF at <= 13 THEN 1 ELSE 2

\* idt_init fills the table before anything can be delivered, and each
\* registration extends descriptors, pool and dynamic handlers by one vector.
TableInv ==
    /\ installed = vectors
    /\ at <= 2 => vectors = {}
    /\ at > 2 => vectors = 0 .. 47 + Registered
    /\ isr_delta = 48 .. 47 + Registered

\* Nothing is raised before idt_init, nothing gets through the masks from there
\* to ICW1 nor through the controllers from there to ICW4, and from then on the
\* lines have the vectors 32 .. 47.
ControllerInv ==
    /\ at <= 2 => ~interrupts
    /\ at <= 3 => imr = Lines
    /\ at = 4 => ~ready
    /\ at >= 5 => ready /\ offset = 32
    /\ at <= 4 => vector = None

\* In a handler for line l, isr holds no more than the EOIs to come will clear.
Serving(l) ==
    IF l < 8 THEN isr \subseteq {l} /\ eoi \in {<<>>, <<"master">>}
    ELSE \/ isr \subseteq {l, CASCADE} /\ eoi \in {<<>>, <<"slave", "master">>}
         \/ isr \subseteq {CASCADE} /\ eoi = <<"master">>

HandlerInv ==
    \/ vector = None /\ isr = {} /\ eoi = <<>>
    \/ vector \in isr_delta /\ isr = {} /\ eoi = <<>>
    \/ vector \in 32 .. 47 /\ Serving(vector - 32)

IInv ==
    /\ at \in 1 .. 21 /\ status = "up"
    /\ irr \subseteq Lines
    /\ interrupts \in BOOLEAN /\ resumed \in BOOLEAN
    /\ TableInv /\ ControllerInv /\ HandlerInv

-----------------------------------------------------------------------------
(* The operators of the model.                                             *)

\* Where in _start each call stands.
LEMMA Places ==
    ASSUME at \in 1 .. 21, NEW name, Call(name)
    PROVE  /\ at < 21 /\ at' = at + 1 /\ Between
           /\ name = "stop_interrupts" => at = 1
           /\ name = "idt_init" => at = 2
           /\ name = "remap ICW1" => at = 3
           /\ name = "remap ICW2-4" => at = 4
           /\ name = "remap masks" => at = 5
           /\ name = "mask all" => at = 6
           /\ name = "time_init" => at = 7
           /\ name = "cli" => at \in {8, 10}
           /\ name = "sti" => at \in {9, 17}
           /\ name = "idt_reg_test" => at = 11
           /\ name = "int 48" => at = 12
           /\ name = "yield_register" => at = 13
           /\ name = "int 49" => at = 14
           /\ name = "memory_bringup" => at = 15
           /\ name = "mask PIT" => at = 16
           /\ name = "fbterm_init" => at = 18
           /\ name = "keyboard_init" => at = 19
           /\ name = "unmask PIT" => at = 20
<1>1. Len(Boot) = 21
  BY Zenon DEF Boot
<1>2. at < 21 /\ at' = at + 1 /\ Between /\ Boot[at] = name
  BY <1>1, Zenon DEF Call
<1>3. \/ at = 1 \/ at = 2 \/ at = 3 \/ at = 4 \/ at = 5 \/ at = 6 \/ at = 7 \/ at = 8
      \/ at = 9 \/ at = 10 \/ at = 11 \/ at = 12 \/ at = 13 \/ at = 14 \/ at = 15
      \/ at = 16 \/ at = 17 \/ at = 18 \/ at = 19 \/ at = 20
  BY <1>2
<1>4. /\ Boot[1] = "stop_interrupts" /\ Boot[2] = "idt_init"
      /\ Boot[3] = "remap ICW1" /\ Boot[4] = "remap ICW2-4"
      /\ Boot[5] = "remap masks" /\ Boot[6] = "mask all"
      /\ Boot[7] = "time_init" /\ Boot[8] = "cli"
      /\ Boot[9] = "sti" /\ Boot[10] = "cli"
      /\ Boot[11] = "idt_reg_test" /\ Boot[12] = "int 48"
      /\ Boot[13] = "yield_register" /\ Boot[14] = "int 49"
      /\ Boot[15] = "memory_bringup" /\ Boot[16] = "mask PIT"
      /\ Boot[17] = "sti" /\ Boot[18] = "fbterm_init"
      /\ Boot[19] = "keyboard_init" /\ Boot[20] = "unmask PIT"
  BY Zenon DEF Boot
<1> QED BY <1>2, <1>3, <1>4, ZenonT(60)

\* The controllers' priority resolver picks one of the lines it is given.
LEMMA HighestIsMember ==
    ASSUME NEW S \in SUBSET Lines, S # {}
    PROVE  Highest(S) \in S
<1> DEFINE P == {Priority(l) : l \in S}
<1>0. \A l \in S : Priority(l) \in Nat
  BY DEF Priority, Lines, Slave, CASCADE
<1>1. P \in SUBSET Nat /\ P # {}
  BY <1>0, Zenon
<1>2. PICK m \in P : \A n \in P : m <= n
  BY <1>1, LeastElement, Zenon
<1>3. \E l \in S : \A k \in S : Priority(l) <= Priority(k)
  BY <1>2, Zenon
<1> QED BY <1>3, Zenon DEF Highest

\* idt_allocate_vector returns the vector after the ones in use.
LEMMA NextVector ==
    ASSUME NEW n \in 0 .. 254, vectors = 0 .. n
    PROVE  idt_allocate_vector = n + 1
<1> DEFINE F == (0 .. 255) \ vectors
<1>1. n + 1 \in F /\ \A u \in F : n + 1 <= u
  OBVIOUS
<1>2. \A v \in F : (\A u \in F : v <= u) => v = n + 1
  BY <1>1
<1> HIDE DEF F
<1>3. (CHOOSE v \in F : \A u \in F : v <= u) = n + 1
  BY <1>1, <1>2, Zenon
<1> QED BY <1>3, Zenon DEF idt_allocate_vector, F

-----------------------------------------------------------------------------
(* The invariant is inductive.                                             *)

\* The invariant holds at boot, with every line masked.
LEMMA InitIInv == Init => IInv
<1>1. 48 .. 47 + 0 = {}
  OBVIOUS
<1> SUFFICES ASSUME Init PROVE IInv
  BY Zenon
<1>2. TableInv
  BY <1>1 DEF Init, TableInv, Registered
<1>3. ControllerInv /\ HandlerInv
  BY DEF Init, ControllerInv, HandlerInv
<1>4. interrupts \in BOOLEAN /\ resumed \in BOOLEAN
  BY Zenon DEF Init
<1> QED BY <1>2, <1>3, <1>4 DEF Init, IInv

\* A device that raises its line keeps the invariant.
LEMMA RequestKeeps ==
    ASSUME IInv, NEW l \in Line, Request(l)
    PROVE  IInv'
  BY LineAssumption, SMTT(60) DEF IInv, Request, TableInv, ControllerInv, HandlerInv, Serving,
     Registered, Lines, idt, frame, pic

\* A line is served through one of the remapped vectors.
LEMMA acceptKeeps ==
    ASSUME IInv, accept
    PROVE  IInv'
<1> DEFINE l == Highest(Deliverable)
<1>1. Deliverable \subseteq irr \ imr /\ irr \subseteq Lines /\ Deliverable # {}
  BY Zenon DEF IInv, accept, Deliverable
<1>2. l \in Lines /\ l \notin imr
  BY <1>1, HighestIsMember, Zenon
<1> HIDE DEF l
<1>3. at >= 5 /\ offset = 32 /\ vector = None /\ isr = {}
  BY <1>2 DEF IInv, ControllerInv, HandlerInv, accept, Between, None, TableInv
<1>4. VectorOf(l) = 32 + l
  BY <1>2, <1>3 DEF VectorOf, Lines
<1>5. /\ vector' = 32 + l /\ eoi' = <<>> /\ resumed' = interrupts /\ interrupts' = FALSE
      /\ isr' = (IF l \in Slave THEN {l, CASCADE} ELSE {l}) /\ irr' \subseteq irr
      /\ UNCHANGED <<at, idt, imr, offset, ready, saved_masks, status>>
  BY <1>3, <1>4, Zenon DEF accept, Enter, l
<1>6. HandlerInv'
  BY <1>2, <1>5 DEF HandlerInv, Serving, Lines, Slave
<1>7. TableInv' /\ ControllerInv'
  BY <1>3, <1>5 DEF IInv, TableInv, ControllerInv, Registered, idt
<1>8. interrupts' \in BOOLEAN /\ resumed' \in BOOLEAN
  BY <1>5, Zenon DEF IInv
<1> QED BY <1>5, <1>6, <1>7, <1>8, Zenon DEF IInv

\* A spurious interrupt keeps the invariant.
LEMMA accept_spuriousKeeps ==
    ASSUME IInv, NEW l \in {7, 15}, accept_spurious(l)
    PROVE  IInv'
<1>1. at >= 5 /\ offset = 32 /\ vector = None
  BY DEF IInv, ControllerInv, accept_spurious, Between, TableInv
<1>2. VectorOf(l) = 32 + l
  BY <1>1 DEF VectorOf
<1>3. /\ vector' = 32 + l /\ eoi' = <<>> /\ resumed' = interrupts /\ interrupts' = FALSE
      /\ isr' = IF l \in Slave THEN {CASCADE} ELSE {}
      /\ UNCHANGED <<at, idt, irr, imr, offset, ready, saved_masks, status>>
  BY <1>2, Zenon DEF accept_spurious, Enter
<1>4. HandlerInv'
  BY <1>3 DEF HandlerInv, Serving, Slave
<1>5. TableInv' /\ ControllerInv'
  BY <1>1, <1>3 DEF IInv, TableInv, ControllerInv, Registered, idt
<1>6. interrupts' \in BOOLEAN /\ resumed' \in BOOLEAN
  BY <1>3, Zenon DEF IInv
<1> QED BY <1>3, <1>4, <1>5, <1>6, Zenon DEF IInv

\* From ICW4 on the controllers stay remapped.
LEMMA Remapped ==
    ASSUME at' \in 1 .. 21, at' >= 5, ready', offset' = 32
    PROVE  ControllerInv'
<1>1. ~(at' <= 2) /\ ~(at' <= 3) /\ at' # 4 /\ ~(at' <= 4)
  OBVIOUS
<1> QED BY <1>1, Zenon DEF ControllerInv

\* irq_handler finds a descriptor for every vector, and a handler for the
\* dynamic ones.
LEMMA irq_handlerKeeps ==
    ASSUME IInv, irq_handler
    PROVE  IInv'
<1>1. at >= 5 /\ installed = 0 .. 47 + Registered /\ Registered \in 0 .. 2
  BY DEF IInv, irq_handler, TableInv, ControllerInv, Registered
<1>2. UNCHANGED <<at, idt, pic>>
  BY Zenon DEF irq_handler
<1>3. UNCHANGED <<at, installed, vectors, isr_delta, imr, irr, isr, offset, ready>>
  BY <1>2, Zenon DEF idt, pic
<1>4. CASE vector \in isr_delta /\ isr = {} /\ eoi = <<>>
  <2>1. vector \in installed /\ vector \in Int /\ vector >= 48
    BY <1>1, <1>4 DEF IInv, TableInv
  <2>2. vector' = None /\ interrupts' = resumed /\ UNCHANGED <<eoi, resumed, status>>
    BY <1>4, <2>1 DEF irq_handler, frame
  <2>3. HandlerInv'
    BY <1>3, <1>4, <2>2, Zenon DEF HandlerInv
  <2>4. TableInv'
    BY <1>1, <1>3, <2>2, ZenonT(60) DEF IInv, TableInv, Registered
  <2>5. ControllerInv'
    BY <1>1, <1>3, Remapped, Zenon DEF IInv, ControllerInv
  <2> QED BY <1>3, <2>2, <2>3, <2>4, <2>5, Zenon DEF IInv
<1>5. CASE vector \in 32 .. 47 /\ Serving(vector - 32)
  <2>1. vector \in installed
    BY <1>1, <1>5
  <2>2. eoi' = EoisFor(vector - 32) /\ UNCHANGED <<vector, resumed, interrupts, status>>
    BY <1>1, <1>5, <2>1 DEF irq_handler
  <2>3. Serving(vector - 32)'
    BY <1>3, <1>5, <2>2 DEF Serving, EoisFor, irq_handler
  <2>4. HandlerInv'
    BY <1>5, <2>2, <2>3, Zenon DEF HandlerInv
  <2>5. TableInv' /\ ControllerInv'
    BY <1>1, <1>3, <2>2, ZenonT(60) DEF IInv, TableInv, ControllerInv, Registered
  <2> QED BY <1>3, <2>2, <2>4, <2>5, Zenon DEF IInv
<1> QED BY <1>4, <1>5, Zenon DEF IInv, HandlerInv, irq_handler

\* An EOI clears the line of its controller that is in service, and no other.
LEMMA pic_send_eoiKeeps ==
    ASSUME IInv, pic_send_eoi
    PROVE  IInv'
<1> DEFINE mine == IF Head(eoi) = "slave" THEN isr \cap Slave ELSE isr \ Slave
<1>1. /\ isr' = IF mine = {} THEN isr ELSE isr \ {Highest(mine)}
      /\ eoi' = Tail(eoi) /\ eoi # <<>>
      /\ IF Len(eoi) = 1 THEN vector' = None /\ interrupts' = resumed
         ELSE UNCHANGED <<vector, interrupts>>
      /\ UNCHANGED <<at, idt, imr, irr, offset, ready, saved_masks, resumed, status>>
  BY Zenon DEF pic_send_eoi
<1>2. vector \in 32 .. 47 /\ Serving(vector - 32) /\ at >= 5
  BY <1>1, SMTT(60) DEF IInv, HandlerInv, ControllerInv, None
<1> DEFINE l == vector - 32
<1>3. l \in Lines /\ isr \subseteq Lines
  BY <1>2, SMTT(60) DEF Serving, Lines, CASCADE
<1>4. mine # {} => Highest(mine) \in mine
  BY <1>3, HighestIsMember, Zenon
<1> HIDE DEF mine
<1>5. ASSUME eoi = <<"master">>, l < 8
      PROVE  HandlerInv'
  <2>1. mine = isr /\ isr \subseteq {l}
    BY <1>2, <1>5 DEF Serving, mine, Slave
  <2>2. isr' = {}
    BY <1>1, <1>4, <2>1, Zenon
  <2> QED BY <1>1, <1>5, <2>2 DEF HandlerInv
<1>6. ASSUME eoi = <<"slave", "master">>, l >= 8
      PROVE  HandlerInv'
  <2>1. isr \subseteq {l, CASCADE} /\ mine = isr \cap {l}
    BY <1>2, <1>3, <1>6 DEF Serving, mine, Slave, CASCADE
  <2>2. isr' \subseteq {CASCADE}
    BY <1>1, <1>4, <2>1, Zenon
  <2>3. eoi' = <<"master">> /\ vector' = vector
    BY <1>1, <1>6
  <2> QED BY <1>2, <1>6, <2>2, <2>3, Zenon DEF HandlerInv, Serving
<1>7. ASSUME eoi = <<"master">>, l >= 8
      PROVE  HandlerInv'
  <2>1. mine = isr /\ isr \subseteq {CASCADE}
    BY <1>2, <1>7 DEF Serving, mine, Slave, CASCADE
  <2>2. isr' = {}
    BY <1>1, <1>4, <2>1, Zenon
  <2> QED BY <1>1, <1>7, <2>2 DEF HandlerInv
<1>8. HandlerInv'
  BY <1>1, <1>2, <1>5, <1>6, <1>7 DEF Serving
<1>9. interrupts' \in BOOLEAN /\ resumed' \in BOOLEAN
  BY <1>1, Zenon DEF IInv
<1>10. TableInv'
  BY <1>1 DEF IInv, TableInv, Registered, idt
<1>11. ControllerInv'
  BY <1>1, <1>2, Remapped, Zenon DEF IInv, ControllerInv
<1> QED BY <1>1, <1>8, <1>9, <1>10, <1>11, Zenon DEF IInv

\* Between handlers nothing is in service and no EOI is owed.
LEMMA Idle ==
    ASSUME IInv, Between
    PROVE  vector = None /\ isr = {} /\ eoi = <<>>
  BY DEF IInv, Between, HandlerInv, TableInv, None, Registered

\* A call that changes neither the table nor the registrations.
LEMMA TableStays ==
    ASSUME IInv, UNCHANGED idt, at' = at + 1, at \notin {2, 11, 13}
    PROVE  TableInv'
  BY DEF IInv, TableInv, Registered, idt

\* A call outside a handler that leaves the frame and isr alone.
LEMMA StaysIdle ==
    ASSUME IInv, Between, UNCHANGED frame, isr' = isr
    PROVE  HandlerInv' /\ vector' = None /\ resumed' \in BOOLEAN
<1>1. UNCHANGED <<vector, eoi, resumed>>
  BY Zenon DEF frame
<1>2. vector' = None /\ isr' = {} /\ eoi' = <<>>
  BY <1>1, Idle, Zenon
<1> QED BY <1>1, <1>2, Zenon DEF HandlerInv, IInv

\* stop_interrupts keeps the invariant.
LEMMA stop_interruptsKeeps ==
    ASSUME IInv, stop_interrupts
    PROVE  IInv'
<1>1. /\ at \in {1, 8, 10} /\ at' = at + 1 /\ Between /\ interrupts' = FALSE
      /\ UNCHANGED <<idt, pic, frame, status>>
  BY Places, Zenon DEF stop_interrupts, IInv
<1>2. UNCHANGED <<imr, irr, isr, offset, ready>>
  BY <1>1, Zenon DEF pic
<1>3. TableInv' /\ HandlerInv' /\ vector' = None /\ resumed' \in BOOLEAN
  BY <1>1, <1>2, TableStays, StaysIdle, SMTT(60)
<1>4. ControllerInv'
  BY <1>1, <1>2, <1>3 DEF IInv, ControllerInv
<1>5. interrupts' \in BOOLEAN
  BY <1>1, Zenon
<1> QED BY <1>1, <1>2, <1>3, <1>4, <1>5 DEF IInv

\* sti keeps the invariant.
LEMMA stiKeeps ==
    ASSUME IInv, sti
    PROVE  IInv'
<1>1. /\ at \in {9, 17} /\ at' = at + 1 /\ Between /\ interrupts' = TRUE
      /\ UNCHANGED <<idt, pic, frame, status>>
  BY Places, Zenon DEF sti, IInv
<1>2. UNCHANGED <<imr, irr, isr, offset, ready>>
  BY <1>1, Zenon DEF pic
<1>3. TableInv' /\ HandlerInv' /\ resumed' \in BOOLEAN
  BY <1>1, <1>2, TableStays, StaysIdle, SMTT(60)
<1>4. ControllerInv'
  BY <1>1, <1>2, Remapped, SMTT(60) DEF IInv, ControllerInv
<1> QED BY <1>1, <1>2, <1>3, <1>4 DEF IInv

\* Interrupts come on while every line is still masked.
LEMMA idt_initKeeps ==
    ASSUME IInv, idt_init
    PROVE  IInv'
<1>1. /\ at = 2 /\ at' = at + 1 /\ Between /\ interrupts' = TRUE
      /\ installed' = 0 .. 47 /\ vectors' = 0 .. 47
      /\ UNCHANGED <<isr_delta, pic, frame, status>>
  BY Places, Zenon DEF idt_init, IInv
<1>2. UNCHANGED <<imr, irr, isr, offset, ready>>
  BY <1>1, Zenon DEF pic
<1>3. HandlerInv' /\ vector' = None /\ resumed' \in BOOLEAN
  BY <1>1, <1>2, StaysIdle, Zenon
<1>4. TableInv'
  BY <1>1 DEF IInv, TableInv, Registered
<1>5. ControllerInv'
  BY <1>1, <1>2, <1>3 DEF IInv, ControllerInv
<1> QED BY <1>1, <1>2, <1>3, <1>4, <1>5 DEF IInv

\* ICW1 drops the masks, but the controllers stay silent until ICW4.
LEMMA pic_remap_startKeeps ==
    ASSUME IInv, pic_remap_start
    PROVE  IInv'
<1>1. /\ at = 3 /\ at' = at + 1 /\ Between
      /\ irr' = {} /\ isr' = {} /\ ready' = FALSE
      /\ UNCHANGED <<interrupts, idt, offset, frame, status>>
  BY Places, Zenon DEF pic_remap_start, IInv
<1>2. isr' = isr
  BY <1>1, Idle, Zenon
<1>3. TableInv' /\ HandlerInv' /\ vector' = None /\ resumed' \in BOOLEAN
  BY <1>1, <1>2, TableStays, StaysIdle, SMTT(60)
<1>4. ControllerInv'
  BY <1>1, <1>3 DEF IInv, ControllerInv
<1> QED BY <1>1, <1>3, <1>4 DEF IInv

\* The initialisation words of pic_remap keep the invariant.
LEMMA pic_remap_icwKeeps ==
    ASSUME IInv, pic_remap_icw
    PROVE  IInv'
<1>1. /\ at = 4 /\ at' = at + 1 /\ Between /\ offset' = 32 /\ ready' = TRUE
      /\ UNCHANGED <<interrupts, idt, irr, isr, frame, status>>
  BY Places, Zenon DEF pic_remap_icw, IInv
<1>2. TableInv' /\ HandlerInv' /\ resumed' \in BOOLEAN
  BY <1>1, TableStays, StaysIdle
<1>3. ControllerInv'
  BY <1>1, Remapped
<1> QED BY <1>1, <1>2, <1>3 DEF IInv

\* The writes to the mask registers, all of them after ICW4: whatever masks they
\* write, an interrupt that gets through has a handler.
LEMMA MaskWritesKeep ==
    ASSUME IInv, pic_remap_masks \/ pic_mask_irq \/ pic_unmask_irq
    PROVE  IInv'
<1>1. /\ at \in {5, 6, 7, 16, 19, 20} /\ at' = at + 1 /\ Between
      /\ UNCHANGED <<interrupts, idt, irr, isr, offset, ready, frame, status>>
  BY Places, ZenonT(60) DEF pic_remap_masks, pic_mask_irq, pic_unmask_irq, SetMasks, IInv
<1>2. TableInv' /\ HandlerInv' /\ resumed' \in BOOLEAN
  BY <1>1, TableStays, StaysIdle
<1>3. ControllerInv'
  BY <1>1, Remapped DEF IInv, ControllerInv
<1> QED BY <1>1, <1>2, <1>3, SMTT(60) DEF IInv

\* A registration takes the first free vector: 48, then 49.
LEMMA RegisterKeeps ==
    ASSUME IInv, idt_reg_test \/ yield_register
    PROVE  IInv'
<1> DEFINE v == idt_allocate_vector
<1>1. /\ at \in {11, 13} /\ at' = at + 1 /\ Between
      /\ vectors' = vectors \cup {v} /\ isr_delta' = isr_delta \cup {v}
      /\ installed' = installed \cup {v}
      /\ UNCHANGED <<interrupts, pic, frame, status>>
  BY Places, Zenon DEF idt_reg_test, yield_register, Register, IInv
<1>2. UNCHANGED <<irr, isr, offset, ready>>
  BY <1>1, Zenon DEF pic
<1>3. Registered \in 0 .. 1 /\ Registered' = Registered + 1
  BY <1>1 DEF Registered
<1>4. vectors = 0 .. 47 + Registered /\ isr_delta = 48 .. 47 + Registered
  BY <1>1 DEF IInv, TableInv
<1>5. v = 48 + Registered
  <2>1. 47 + Registered \in 0 .. 254 /\ 48 + Registered = (47 + Registered) + 1
    BY <1>3
  <2> QED BY <1>4, <2>1, NextVector, Zenon
<1> HIDE DEF v
<1>6. /\ vectors' = 0 .. 47 + Registered' /\ isr_delta' = 48 .. 47 + Registered'
      /\ installed' = vectors'
  BY <1>1, <1>3, <1>4, <1>5 DEF IInv, TableInv
<1>7. TableInv'
  BY <1>1, <1>6 DEF TableInv
<1>8. HandlerInv' /\ resumed' \in BOOLEAN
  BY <1>1, <1>2, StaysIdle, Zenon
<1>9. ControllerInv'
  BY <1>1, <1>2, Remapped, SMTT(60) DEF IInv, ControllerInv
<1> QED BY <1>1, <1>2, <1>7, <1>8, <1>9, SMTT(60) DEF IInv

\* The vectors that the software interrupts name are the registered ones.
LEMMA software_interruptKeeps ==
    ASSUME IInv, software_interrupt
    PROVE  IInv'
<1>1. /\ at' = at + 1 /\ Between
      /\ \/ at = 12 /\ Enter(48)
         \/ at = 14 /\ Enter(49)
      /\ UNCHANGED <<idt, pic, status>>
  BY Places, ZenonT(60) DEF software_interrupt, IInv
<1>2. UNCHANGED <<irr, isr, offset, ready, isr_delta>> /\ isr = {}
  BY <1>1, Idle, Zenon DEF pic, idt
<1>3. /\ vector' = IF at = 12 THEN 48 ELSE 49
      /\ eoi' = <<>> /\ resumed' = interrupts /\ interrupts' = FALSE
  BY <1>1 DEF Enter
<1>4. vector' \in isr_delta'
  BY <1>1, <1>2, <1>3 DEF IInv, TableInv, Registered
<1>5. HandlerInv'
  BY <1>2, <1>3, <1>4, Zenon DEF HandlerInv
<1>6. TableInv'
  BY <1>1, TableStays
<1>7. ControllerInv'
  BY <1>1, <1>2, Remapped DEF IInv, ControllerInv
<1>8. interrupts' \in BOOLEAN /\ resumed' \in BOOLEAN
  BY <1>3, Zenon DEF IInv
<1> QED BY <1>1, <1>2, <1>5, <1>6, <1>7, <1>8, SMTT(60) DEF IInv

\* The calls that leave the controller alone keep the invariant.
LEMMA OtherCallsKeep ==
    ASSUME IInv, other_calls
    PROVE  IInv'
<1>1. /\ at \in {15, 18} /\ at' = at + 1 /\ Between
      /\ UNCHANGED <<interrupts, idt, pic, frame, status>>
  BY Places, Zenon DEF other_calls, IInv
<1>2. UNCHANGED <<irr, isr, offset, ready>>
  BY <1>1, Zenon DEF pic
<1>3. TableInv' /\ HandlerInv' /\ resumed' \in BOOLEAN
  BY <1>1, <1>2, TableStays, StaysIdle, SMTT(60)
<1>4. ControllerInv'
  BY <1>1, <1>2, Remapped DEF IInv, ControllerInv
<1> QED BY <1>1, <1>2, <1>3, <1>4 DEF IInv

\* A context switch keeps the invariant.
LEMMA switch_toKeeps ==
    ASSUME IInv, switch_to
    PROVE  IInv'
<1>1. Len(Boot) = 21
  BY Zenon DEF Boot
<1>2. /\ at = 21 /\ at' = at /\ Between /\ interrupts' = ~interrupts
      /\ UNCHANGED <<idt, pic, frame, status>>
  BY <1>1, Zenon DEF switch_to
<1>3. UNCHANGED <<irr, isr, offset, ready>>
  BY <1>2, Zenon DEF pic
<1>4. TableInv'
  BY <1>2 DEF IInv, TableInv, Registered, idt
<1>5. HandlerInv' /\ resumed' \in BOOLEAN
  BY <1>2, <1>3, StaysIdle, Zenon
<1>6. ControllerInv'
  BY <1>2, <1>3, Remapped DEF IInv, ControllerInv
<1>7. interrupts' \in BOOLEAN
  BY <1>2, Zenon DEF IInv
<1> QED BY <1>2, <1>3, <1>4, <1>5, <1>6, <1>7, Zenon DEF IInv

\* Every step keeps the invariant: one case for each action.
LEMMA NextKeeps == IInv /\ [Next]_vars => IInv'
<1> SUFFICES ASSUME IInv, [Next]_vars PROVE IInv'
  BY Zenon
<1>1. CASE UNCHANGED vars
  BY <1>1 DEF vars, idt, pic, frame, IInv, TableInv, ControllerInv, HandlerInv, Serving, Registered
<1>2. CASE Start
  BY <1>2, stop_interruptsKeeps, stiKeeps, idt_initKeeps, pic_remap_startKeeps,
     pic_remap_icwKeeps, MaskWritesKeep, RegisterKeeps, software_interruptKeeps,
     OtherCallsKeep, switch_toKeeps, Zenon DEF Start
<1> QED BY <1>1, <1>2, RequestKeeps, acceptKeeps, accept_spuriousKeeps, irq_handlerKeeps,
          pic_send_eoiKeeps, Zenon DEF Next

\* The table, the controllers and the acknowledgements agree throughout _start
\* and the tasks, for every set of interrupting lines.
THEOREM Inductive == Spec => []IInv
  BY InitIInv, NextKeeps, PTL DEF Spec

\* Whichever lines devices use and whenever they raise them, no interrupt reaches
\* irq_handler as an exception or finds no descriptor or handler: idt_init's early
\* sti and the cleared masks of pic_remap_offsets are harmless.
THEOREM EveryInterruptIsHandled == Spec => []InterruptsFindHandlers
<1>1. IInv => InterruptsFindHandlers
  BY Zenon DEF IInv, InterruptsFindHandlers
<1> QED BY <1>1, Inductive, PTL

\* Whichever lines devices use, irq_handler's acknowledgements leave no line in
\* service behind, spurious and cascaded interrupts included.
THEOREM EveryInterruptIsAcknowledged == Spec => []AllAcknowledged
<1>1. IInv => AllAcknowledged
  BY DEF IInv, AllAcknowledged, HandlerInv, TableInv, None, Registered
<1> QED BY <1>1, Inductive, PTL
=============================================================================
