--------------------------- MODULE Console_proofs ---------------------------
(***************************************************************************)
(* Proofs about the console, for every size of the serial line buffer and  *)
(* whether or not the boot loader offers a terminal.  A character's route  *)
(* is decided by four variables that _start, the keyboard interrupt,       *)
(* exceptions and panic assign at different moments: the inductive         *)
(* invariant ties each of them to how far _start is, and what a writer     *)
(* still has to do to who it is.                                           *)
(***************************************************************************)
EXTENDS Console, SequenceTheorems, TLAPS

Plain == {"c", "nl", "halt"}
Items == Plain \cup {"kerror 0", "kerror 1"}

WriterType ==
    [who : {"boot", "task", "panic", "irq1", "exception"}, todo : Seq(Items),
     at : {"idle", "log", "flush", "store"}, n : 0 .. LOGBUF_SIZE - 2]

\* A writer while _start is at p.  In the middle of _putchar it has a character
\* in hand; only the handlers assign kerror_mode; an exception ends in a stop.
Fits(w, p) ==
    /\ w \in WriterType
    /\ w.at # "idle" => w.todo # <<>> /\ Head(w.todo) \in {"c", "nl"}
    /\ w.who \in {"boot", "task", "panic"} => w.todo \in Seq(Plain)
    /\ w.who = "panic" => p \in {7, 9, 11, 14, 21}
    /\ w.who = "irq1" => p \in 17 .. 21
    /\ w.who = "exception" => w.todo # <<>> /\ w.todo[Len(w.todo)] = "halt"

Stack(ws, p) == ws \in Seq(WriterType) /\ \A k \in DOMAIN ws : Fits(ws[k], p)
Excepted(ws) == \E k \in DOMAIN ws : ws[k].who = "exception"

\* What _start has set up by the time it is at place.
Progress ==
    /\ offered \in BOOLEAN /\ place \in 1 .. 23 /\ init_done \in BOOLEAN
    /\ g_pml4 \in {"none", "voyager"} /\ cr3 \in {"limine", "voyager"}
    /\ term_context \in {"NULL", "up"}
    /\ place \in 8 .. 21 => g_pml4 = "voyager"
    /\ cr3 = "voyager" => g_pml4 = "voyager"
    /\ place \in 15 .. 21 => term_context = "up"
    /\ init_done => term_context = "up" /\ place >= 19

\* Where _putchar may send a character.
Routing ==
    /\ bootspace \in 0 .. 2 /\ kerror_mode \in 0 .. 1
    /\ bootspace = 2 => offered \/ place = 1
    /\ bootspace = 0 => term_context = "up"
    /\ place = 21 => bootspace = 0
    /\ kerror_mode = 1 => term_context = "up" \/ Excepted(writers) \/ place >= 22

IInv ==
    /\ Progress /\ Routing
    /\ Stack(writers, place) /\ (writers # <<>> => place # 1)
    /\ loglen \in 0 .. LOGBUF_SIZE - 1
    /\ out \subseteq {"limine", "terminal", "log", "fallback", "serial"}

-----------------------------------------------------------------------------
(* The steps of _start.                                                    *)

\* The steps one by one.
LEMMA StartIs ==
    /\ DOMAIN Start = 1 .. 23
    /\ Start[1] = "terminal offered?" /\ Start[2] = "print" /\ Start[3] = "name framebuffer"
    /\ Start[4] = "print" /\ Start[5] = "idt_init" /\ Start[6] = "print"
    /\ Start[7] = "alloc root" /\ Start[8] = "print" /\ Start[9] = "load cr3"
    /\ Start[10] = "print" /\ Start[11] = "frame_init" /\ Start[12] = "print"
    /\ Start[13] = "serial only" /\ Start[14] = "fbterm_init" /\ Start[15] = "use terminal"
    /\ Start[16] = "keyboard_init" /\ Start[17] = "print" /\ Start[18] = "init_done"
    /\ Start[19] = "serial only" /\ Start[20] = "use terminal" /\ Start[21] = "tasks"
    /\ Start[22] = "stopped" /\ Start[23] = "faulted"
  BY DEF Start

\* Where a step is, from its name.
LEMMA PlaceIs ==
    ASSUME NEW p \in 1 .. 23
    PROVE  /\ Start[p] = "terminal offered?" => p = 1
           /\ Start[p] = "print" => p \in {2, 4, 6, 8, 10, 12, 17}
           /\ Start[p] = "name framebuffer" => p = 3
           /\ Start[p] = "idt_init" => p = 5
           /\ Start[p] = "alloc root" => p = 7
           /\ Start[p] = "load cr3" => p = 9
           /\ Start[p] = "frame_init" => p = 11
           /\ Start[p] = "serial only" => p \in {13, 19}
           /\ Start[p] = "fbterm_init" => p = 14
           /\ Start[p] = "use terminal" => p \in {15, 20}
           /\ Start[p] = "keyboard_init" => p = 16
           /\ Start[p] = "init_done" => p = 18
           /\ Start[p] = "tasks" => p = 21
           /\ Start[p] = "stopped" => p = 22
           /\ Start[p] = "faulted" => p = 23
<1>1. \/ p = 1 \/ p = 2 \/ p = 3 \/ p = 4 \/ p = 5 \/ p = 6 \/ p = 7 \/ p = 8 \/ p = 9 \/ p = 10
      \/ p = 11 \/ p = 12 \/ p = 13 \/ p = 14 \/ p = 15 \/ p = 16 \/ p = 17 \/ p = 18 \/ p = 19
      \/ p = 20 \/ p = 21 \/ p = 22 \/ p = 23
  OBVIOUS
<1>2. /\ Start[p] = "terminal offered?" => p = 1
      /\ Start[p] = "print" => p \in {2, 4, 6, 8, 10, 12, 17}
      /\ Start[p] = "name framebuffer" => p = 3
      /\ Start[p] = "idt_init" => p = 5
      /\ Start[p] = "alloc root" => p = 7
  BY <1>1, StartIs, Zenon
<1>3. /\ Start[p] = "load cr3" => p = 9
      /\ Start[p] = "frame_init" => p = 11
      /\ Start[p] = "serial only" => p \in {13, 19}
      /\ Start[p] = "fbterm_init" => p = 14
      /\ Start[p] = "use terminal" => p \in {15, 20}
  BY <1>1, StartIs, ZenonT(60)
<1>4. /\ Start[p] = "keyboard_init" => p = 16
      /\ Start[p] = "init_done" => p = 18
      /\ Start[p] = "tasks" => p = 21
      /\ Start[p] = "stopped" => p = 22
      /\ Start[p] = "faulted" => p = 23
  BY <1>1, StartIs, ZenonT(60)
<1> QED BY <1>2, <1>3, <1>4, Zenon

\* The names that are asked for stand once.
LEMMA PositionIs ==
    /\ Position("idt_init") = 5 /\ Position("keyboard_init") = 16
    /\ Position("stopped") = 22 /\ Position("faulted") = 23
<1>1. ASSUME NEW name, NEW k \in DOMAIN Start, Start[k] = name,
             \A j \in DOMAIN Start : Start[j] = name => j = k
      PROVE  Position(name) = k
  BY <1>1, Zenon DEF Position
<1>0. /\ DOMAIN Start = 1 .. 23 /\ Start[5] = "idt_init" /\ Start[16] = "keyboard_init"
      /\ Start[22] = "stopped" /\ Start[23] = "faulted"
  BY StartIs, Zenon
<1>2. \A j \in DOMAIN Start : /\ Start[j] = "idt_init" => j = 5
                              /\ Start[j] = "keyboard_init" => j = 16
                              /\ Start[j] = "stopped" => j = 22
                              /\ Start[j] = "faulted" => j = 23
  BY <1>0, PlaceIs, Zenon
<1>3. 5 \in DOMAIN Start /\ 16 \in DOMAIN Start /\ 22 \in DOMAIN Start /\ 23 \in DOMAIN Start
  BY <1>0
<1>4. Position("idt_init") = 5
  BY <1>0, <1>1, <1>2, <1>3, ZenonT(60)
<1>5. Position("keyboard_init") = 16
  BY <1>0, <1>1, <1>2, <1>3, ZenonT(60)
<1>6. Position("stopped") = 22
  BY <1>0, <1>1, <1>2, <1>3, ZenonT(60)
<1>7. Position("faulted") = 23
  BY <1>0, <1>1, <1>2, <1>3, ZenonT(60)
<1> QED BY <1>4, <1>5, <1>6, <1>7, Zenon

-----------------------------------------------------------------------------
(* The stack of writers.                                                   *)

\* Nobody is printing, or one writer is.
LEMMA SmallStack ==
    ASSUME NEW p
    PROVE  /\ Stack(<<>>, p)
           /\ \A w : Fits(w, p) => Stack(<<w>>, p)
<1>1. Stack(<<>>, p)
  BY DEF Stack
<1>2. ASSUME NEW w, Fits(w, p) PROVE Stack(<<w>>, p)
  <2>1. w \in WriterType
    BY <1>2, Zenon DEF Fits
  <2>2. <<w>> \in Seq(WriterType) /\ DOMAIN <<w>> = {1} /\ <<w>>[1] = w
    BY <2>1
  <2> QED BY <2>2, <1>2, Zenon DEF Stack
<1> QED BY <1>1, <1>2, Zenon

\* An interruption.
LEMMA Interrupted ==
    ASSUME NEW p, NEW ws, Stack(ws, p), NEW w, Fits(w, p)
    PROVE  /\ Stack(Append(ws, w), p)
           /\ Excepted(ws) \/ w.who = "exception" => Excepted(Append(ws, w))
<1> DEFINE s == Append(ws, w)
<1>1. ws \in Seq(WriterType) /\ w \in WriterType
  BY Zenon DEF Stack, Fits
<1>2. /\ s \in Seq(WriterType) /\ DOMAIN s = 1 .. Len(ws) + 1 /\ DOMAIN ws = 1 .. Len(ws)
      /\ Len(ws) \in Nat /\ s[Len(ws) + 1] = w /\ \A k \in 1 .. Len(ws) : s[k] = ws[k]
  BY <1>1, AppendProperties
<1> HIDE DEF s
<1>3. \A k \in DOMAIN s : k \in DOMAIN ws \/ k = Len(ws) + 1
  BY <1>2
<1>4. Stack(s, p)
  BY <1>2, <1>3, Zenon DEF Stack
<1>5. Len(ws) + 1 \in DOMAIN s /\ \A k \in DOMAIN ws : k \in DOMAIN s
  BY <1>2
<1>6. Excepted(ws) \/ w.who = "exception" => Excepted(s)
  BY <1>2, <1>5, Zenon DEF Excepted
<1> QED BY <1>4, <1>6, Zenon DEF s

\* The innermost writer gets on.
LEMMA Continued ==
    ASSUME NEW p, NEW ws, Stack(ws, p), ws # <<>>, NEW w, Fits(w, p), w.who = ws[Len(ws)].who
    PROVE  LET s == [ws EXCEPT ![Len(ws)] = w] IN
           /\ Stack(s, p)
           /\ Excepted(ws) => Excepted(s)
           /\ s # <<>>
<1> DEFINE s == [ws EXCEPT ![Len(ws)] = w]
<1>1. ws \in Seq(WriterType) /\ w \in WriterType /\ Len(ws) \in Nat /\ DOMAIN ws = 1 .. Len(ws)
  BY DEF Stack, Fits
<1>2. Len(ws) \in DOMAIN ws
  BY <1>1
<1>3. /\ s \in Seq(WriterType) /\ DOMAIN s = DOMAIN ws /\ s[Len(ws)] = w
      /\ \A k \in DOMAIN ws : k # Len(ws) => s[k] = ws[k]
  BY <1>1, <1>2
<1>4. s # <<>>
  BY <1>2, <1>3
<1> HIDE DEF s
<1>5. Stack(s, p)
  BY <1>3, Zenon DEF Stack
<1>6. Excepted(ws) => Excepted(s)
  BY <1>2, <1>3, Zenon DEF Excepted
<1> QED BY <1>4, <1>5, <1>6, Zenon DEF s

\* The innermost writer is done, and was not an exception.
LEMMA Returned ==
    ASSUME NEW p, NEW ws, Stack(ws, p), ws # <<>>, ws[Len(ws)].todo = <<>>
    PROVE  Stack(SubSeq(ws, 1, Len(ws) - 1), p) /\ (Excepted(ws) => Excepted(SubSeq(ws, 1, Len(ws) - 1)))
<1> DEFINE s == SubSeq(ws, 1, Len(ws) - 1)
<1>1. ws \in Seq(WriterType) /\ Len(ws) \in Nat /\ DOMAIN ws = 1 .. Len(ws) /\ Len(ws) # 0
  BY DEF Stack
<1>2. /\ s \in Seq(WriterType) /\ Len(s) = Len(ws) - 1 /\ \A k \in 1 .. Len(ws) - 1 : s[k] = ws[k]
  <2>1. s = SubSeq(ws, 1, Len(ws) - 1)
    BY Zenon
  <2>2. Len(ws) - 1 \in 0 .. Len(ws)
    BY <1>1
  <2> QED BY <1>1, <2>1, <2>2, SubSeqProperties
<1>3. DOMAIN s = 1 .. Len(ws) - 1
  BY <1>2
<1> HIDE DEF s
<1>4. Stack(s, p)
  BY <1>1, <1>2, <1>3, SMTT(60) DEF Stack
<1>5. ws[Len(ws)].who # "exception"
  BY <1>1 DEF Stack, Fits
<1>6. \A k \in DOMAIN ws : ws[k].who = "exception" => k \in DOMAIN s /\ s[k] = ws[k]
  BY <1>1, <1>2, <1>3, <1>5
<1>7. Excepted(ws) => Excepted(s)
  BY <1>6, Zenon DEF Excepted
<1> QED BY <1>4, <1>7, Zenon DEF s

\* One more thing to do behind the rest.
LEMMA Trailing ==
    ASSUME NEW S, NEW s \in Seq(S), NEW x \in S
    PROVE  LET t == s \o <<x>> IN t \in Seq(S) /\ t # <<>> /\ t[Len(t)] = x
<1> DEFINE t == s \o <<x>>
<1>1. <<x>> \in Seq(S) /\ Len(<<x>>) = 1 /\ <<x>>[1] = x
  OBVIOUS
<1>2. t \in Seq(S) /\ Len(t) = Len(s) + 1 /\ Len(s) \in Nat
  BY <1>1, ConcatProperties
<1>3. t[Len(s) + 1] = <<x>>[1]
  <2>1. Len(s) + 1 \in 1 .. Len(s) + Len(<<x>>) /\ ~(Len(s) + 1 <= Len(s)) /\ (Len(s) + 1) - Len(s) = 1
    BY <1>1, <1>2
  <2> QED BY <1>1, <2>1, ConcatProperties
<1> HIDE DEF t
<1>4. t # <<>>
  BY <1>2
<1> QED BY <1>1, <1>2, <1>3, <1>4, Zenon DEF t

\* A writer that starts.
LEMMA Starting ==
    ASSUME NEW who \in {"boot", "task", "panic", "irq1", "exception"}, NEW todo \in Seq(Items)
    PROVE  LET w == Writer(who, todo) IN
           /\ w \in WriterType /\ w.who = who /\ w.todo = todo /\ w.at = "idle"
<1>1. 0 \in 0 .. LOGBUF_SIZE - 2
  BY ConsoleAssumption
<1> QED BY <1>1, Zenon DEF Writer, WriterType

\* The writers the kernel has, where it has them.
LEMMA WritersFit ==
    ASSUME NEW p
    PROVE  /\ Fits(Writer("boot", Message), p)
           /\ Fits(Writer("task", Message), p)
           /\ p \in {7, 9, 11, 14, 21} => Fits(Writer("panic", Message \o <<"halt">>), p)
           /\ p \in 17 .. 21 =>
                  Fits(Writer("irq1", <<"kerror 1">> \o Message \o <<"kerror 0">>), p)
           /\ Fits(Writer("exception", Message \o <<"kerror 1">> \o Message \o <<"halt">>), p)
<1>1. Message \in Seq(Plain) /\ Message \in Seq(Items)
  <2>1. "c" \in Plain /\ "nl" \in Plain /\ "c" \in Items /\ "nl" \in Items
    BY Zenon DEF Plain, Items
  <2> QED BY <2>1 DEF Message
<1>2. /\ "halt" \in Plain /\ "halt" \in Items /\ "kerror 1" \in Items /\ "kerror 0" \in Items
  BY Zenon DEF Plain, Items
<1> DEFINE last == Message \o <<"halt">>
           key == <<"kerror 1">> \o Message \o <<"kerror 0">>
           fault == Message \o <<"kerror 1">> \o Message \o <<"halt">>
<1>3. last \in Seq(Plain) /\ last \in Seq(Items)
  BY <1>1, <1>2, Trailing, Zenon
<1>4. key \in Seq(Items)
  <2>1. <<"kerror 1">> \in Seq(Items)
    <3>1. \A x \in Items : <<x>> \in Seq(Items)
      OBVIOUS
    <3> QED BY <1>2, <3>1, Zenon
  <2>2. <<"kerror 1">> \o Message \in Seq(Items)
    BY <1>1, <2>1, ConcatProperties, Zenon
  <2> QED BY <1>2, <2>2, Trailing, Zenon
<1>5. fault \in Seq(Items) /\ fault # <<>> /\ fault[Len(fault)] = "halt"
  <2>1. Message \o <<"kerror 1">> \in Seq(Items)
    BY <1>1, <1>2, Trailing, Zenon
  <2>2. (Message \o <<"kerror 1">>) \o Message \in Seq(Items)
    BY <1>1, <2>1, ConcatProperties, Zenon
  <2> QED BY <1>2, <2>2, Trailing, ZenonT(60)
<1> HIDE DEF last, key, fault, Message
<1>6. Fits(Writer("boot", Message), p)
  BY <1>1, Starting, Zenon DEF Fits
<1>7. Fits(Writer("task", Message), p)
  BY <1>1, Starting, ZenonT(60) DEF Fits
<1>8. p \in {7, 9, 11, 14, 21} => Fits(Writer("panic", last), p)
  BY <1>3, Starting DEF Fits
<1>9. p \in 17 .. 21 => Fits(Writer("irq1", key), p)
  BY <1>4, Starting, Zenon DEF Fits
<1>10. Fits(Writer("exception", fault), p)
  BY <1>5, Starting, ZenonT(60) DEF Fits
<1> QED BY <1>6, <1>7, <1>8, <1>9, <1>10, Zenon DEF last, key, fault

\* A writer that has done the first thing of its list, unless that was to stop.
LEMMA Advanced ==
    ASSUME NEW p, NEW w, Fits(w, p), w.todo # <<>>, Head(w.todo) # "halt"
    PROVE  LET v == [w EXCEPT !.todo = Tail(@), !.at = "idle"] IN Fits(v, p) /\ v.who = w.who
<1> DEFINE v == [w EXCEPT !.todo = Tail(@), !.at = "idle"]
           t == Tail(w.todo)
<1>1. w \in WriterType /\ w.todo \in Seq(Items)
  BY Zenon DEF Fits, WriterType
<1>2. /\ t \in Seq(Items) /\ Len(t) = Len(w.todo) - 1 /\ Len(w.todo) \in Nat /\ Len(w.todo) # 0
      /\ \A i \in 1 .. Len(t) : t[i] = w.todo[i + 1]
  BY <1>1, HeadTailProperties
<1>3. v \in WriterType /\ v.who = w.who /\ v.todo = t /\ v.at = "idle"
  BY <1>1, <1>2, Zenon DEF WriterType
<1>4. w.todo \in Seq(Plain) => t \in Seq(Plain)
  BY HeadTailProperties, Zenon
<1>5. w.who = "exception" => t # <<>> /\ t[Len(t)] = "halt"
  <2> SUFFICES ASSUME w.who = "exception" PROVE t # <<>> /\ t[Len(t)] = "halt"
    BY Zenon
  <2>1. w.todo[Len(w.todo)] = "halt"
    BY Zenon DEF Fits
  <2>2. Head(w.todo) = w.todo[1]
    OBVIOUS
  <2>3. Len(w.todo) # 1
    BY <2>1, <2>2, Zenon
  <2> HIDE DEF t
  <2>4. Len(t) \in 1 .. Len(t) /\ Len(t) + 1 = Len(w.todo)
    <3> DEFINE l == Len(t)
               m == Len(w.todo)
    <3>1. l = m - 1 /\ m \in Nat /\ m # 0 /\ m # 1
      BY <1>2, <2>3, Zenon
    <3> HIDE DEF l, m
    <3>2. l \in 1 .. l /\ l + 1 = m
      BY <3>1
    <3> QED BY <3>2, Zenon DEF l, m
  <2>5. t[Len(t)] = "halt"
    BY <1>2, <2>1, <2>4, Zenon
  <2> QED BY <2>4, <2>5
<1> HIDE DEF v, t
<1> QED BY <1>3, <1>4, <1>5, Zenon DEF Fits, v

\* A writer inside _putchar moves on with the same character.
LEMMA Within ==
    ASSUME NEW p, NEW w, Fits(w, p), w.todo # <<>>, Head(w.todo) \in {"c", "nl"},
           NEW at \in {"log", "flush", "store"}, NEW n \in 0 .. LOGBUF_SIZE - 2
    PROVE  LET v == [w EXCEPT !.at = at] 
               u == [w EXCEPT !.at = at, !.n = n]
           IN  Fits(v, p) /\ v.who = w.who /\ Fits(u, p) /\ u.who = w.who
<1> DEFINE v == [w EXCEPT !.at = at]
           u == [w EXCEPT !.at = at, !.n = n]
<1>1. w \in WriterType
  BY Zenon DEF Fits
<1>2. v \in WriterType /\ v.who = w.who /\ v.todo = w.todo /\ v.at = at
  BY <1>1, Zenon DEF WriterType
<1>3. u \in WriterType /\ u.who = w.who /\ u.todo = w.todo /\ u.at = at
  BY <1>1, Zenon DEF WriterType
<1> HIDE DEF v, u
<1>4. Fits(v, p)
  BY <1>2, Zenon DEF Fits
<1>5. Fits(u, p)
  BY <1>3, Zenon DEF Fits
<1> QED BY <1>2, <1>3, <1>4, <1>5, Zenon DEF v, u

-----------------------------------------------------------------------------
(* The invariant.                                                          *)

\* Nothing is printed and nothing is set up when _start begins.
LEMMA InitOk == Init => IInv
<1> SUFFICES ASSUME Init PROVE IInv
  BY Zenon
<1>1. Progress
  <2>1. /\ offered \in BOOLEAN /\ place = 1 /\ init_done = FALSE
        /\ g_pml4 = "none" /\ cr3 = "limine" /\ term_context = "NULL"
    BY ConsoleAssumption, Zenon DEF Init
  <2>2. place \in 1 .. 23 /\ place \notin 8 .. 21 /\ place \notin 15 .. 21
    BY <2>1
  <2> QED BY <2>1, <2>2, Zenon DEF Progress
<1>2. Routing
  <2>1. bootspace = 2 /\ kerror_mode = 0 /\ place = 1
    BY Zenon DEF Init
  <2>2. /\ bootspace \in 0 .. 2 /\ kerror_mode \in 0 .. 1 /\ bootspace # 0
        /\ place # 21 /\ kerror_mode # 1
    BY <2>1
  <2> QED BY <2>1, <2>2, Zenon DEF Routing
<1>3. Stack(writers, place) /\ (writers # <<>> => place # 1)
  BY SmallStack, Zenon DEF Init
<1>4. loglen \in 0 .. LOGBUF_SIZE - 1 /\ out \subseteq {"limine", "terminal", "log", "fallback", "serial"}
  BY ConsoleAssumption DEF Init
<1> QED BY <1>1, <1>2, <1>3, <1>4, Zenon DEF IInv

\* What a step of _start, taken while nobody prints, has to show.
LEMMA Booted ==
    ASSUME IInv, writers = <<>>, place \in 1 .. 21, Progress', place' # 1, bootspace' \in 0 .. 2,
           bootspace' = 2 => offered', bootspace' = 0 => term_context' = "up",
           place' = 21 => bootspace' = 0, term_context = "up" => term_context' = "up",
           kerror_mode' = kerror_mode \/ (kerror_mode' = 1 /\ term_context' = "up"),
           Stack(writers', place'), loglen' = loglen, out' = {}
    PROVE  IInv'
<1>1. kerror_mode \in 0 .. 1 /\ (kerror_mode = 1 => term_context = "up")
  BY DEF IInv, Routing, Excepted
<1>2. Routing'
  BY <1>1 DEF Routing
<1> QED BY <1>2, Zenon DEF IInv

\* The steps of _start.
LEMMA BootSteps ==
    ASSUME IInv,
           \/ check_terminal \/ print \/ name_framebuffer \/ idt_init \/ alloc_root \/ load_cr3
           \/ frame_init \/ serial_only \/ fbterm_init \/ use_terminal \/ keyboard_init
           \/ finish_init
    PROVE  IInv'
<1> USE DEF Boot, Quiet, At
<1>1. /\ offered \in BOOLEAN /\ place \in 1 .. 23 /\ init_done \in BOOLEAN
      /\ g_pml4 \in {"none", "voyager"} /\ cr3 \in {"limine", "voyager"}
      /\ term_context \in {"NULL", "up"}
      /\ place \in 8 .. 21 => g_pml4 = "voyager"
      /\ cr3 = "voyager" => g_pml4 = "voyager"
      /\ place \in 15 .. 21 => term_context = "up"
      /\ init_done => term_context = "up" /\ place >= 19
  BY Zenon DEF IInv, Progress
<1>2. /\ bootspace \in 0 .. 2 /\ (bootspace = 2 => offered \/ place = 1)
      /\ bootspace = 0 => term_context = "up"
  BY Zenon DEF IInv, Routing
<1>3. \A p : Stack(<<>>, p) /\ Stack(<<Writer("boot", Message)>>, p)
  BY SmallStack, WritersFit, Zenon
<1>4. CASE check_terminal
  <2>1. /\ writers = <<>> /\ place \in {1} /\ place' = place + 1 /\ out' = {} /\ writers' = <<>>
        /\ bootspace' = (IF offered THEN bootspace ELSE 1) /\ loglen' = loglen
        /\ kerror_mode' = kerror_mode /\ offered' = offered /\ init_done' = init_done
        /\ g_pml4' = g_pml4 /\ cr3' = cr3 /\ term_context' = term_context
    BY <1>1, <1>4, PlaceIs, Zenon DEF check_terminal, Writing
  <2>2. Progress'
    BY <1>1, <2>1 DEF Progress
  <2> QED BY <1>2, <1>3, <2>1, <2>2, Booted, SMTT(60)
<1>5. CASE print
  <2>1. /\ writers = <<>> /\ place \in {2, 4, 6, 8, 10, 12, 17} /\ place' = place + 1 /\ out' = {}
        /\ writers' = <<Writer("boot", Message)>> /\ bootspace' = bootspace /\ loglen' = loglen
        /\ kerror_mode' = kerror_mode /\ offered' = offered /\ init_done' = init_done
        /\ g_pml4' = g_pml4 /\ cr3' = cr3 /\ term_context' = term_context
    BY <1>1, <1>5, PlaceIs, Zenon DEF print, Writing
  <2>2. Progress'
    BY <1>1, <2>1 DEF Progress
  <2>3. place \in 1 .. 21 /\ place # 1 /\ place' # 1 /\ place' # 21
    BY <2>1
  <2>4. Stack(writers', place')
    BY <1>3, <2>1, Zenon
  <2> QED BY <1>2, <2>1, <2>2, <2>3, <2>4, Booted, Zenon
<1>6. CASE name_framebuffer
  <2>1. /\ writers = <<>> /\ place \in {3} /\ place' \in {place + 1, 23} /\ out' = {}
        /\ writers' = <<>> /\ bootspace' = bootspace /\ loglen' = loglen
        /\ kerror_mode' = kerror_mode /\ offered' = offered /\ init_done' = init_done
        /\ g_pml4' = g_pml4 /\ cr3' = cr3 /\ term_context' = term_context
    BY <1>1, <1>6, PlaceIs, PositionIs, Zenon DEF name_framebuffer, Writing
  <2>2. Progress'
    BY <1>1, <2>1 DEF Progress
  <2> QED BY <1>2, <1>3, <2>1, <2>2, Booted
<1>7. CASE idt_init \/ frame_init \/ keyboard_init
  <2>1. /\ writers = <<>> /\ place \in {5, 11, 16} /\ place' = place + 1 /\ out' = {}
        /\ writers' = <<>> /\ bootspace' = bootspace /\ loglen' = loglen
        /\ kerror_mode' = kerror_mode /\ offered' = offered /\ init_done' = init_done
        /\ g_pml4' = g_pml4 /\ cr3' = cr3 /\ term_context' = term_context
    BY <1>1, <1>7, PlaceIs, Zenon DEF idt_init, frame_init, keyboard_init, Writing
  <2>2. Progress'
    BY <1>1, <2>1 DEF Progress
  <2> QED BY <1>2, <1>3, <2>1, <2>2, Booted
<1>8. CASE alloc_root
  <2>1. /\ writers = <<>> /\ place \in {7} /\ place' = place + 1 /\ out' = {}
        /\ writers' = <<>> /\ bootspace' = bootspace /\ loglen' = loglen
        /\ kerror_mode' = kerror_mode /\ offered' = offered /\ init_done' = init_done
        /\ g_pml4' = "voyager" /\ cr3' = cr3 /\ term_context' = term_context
    BY <1>1, <1>8, PlaceIs, Zenon DEF alloc_root, Writing
  <2>2. Progress'
    BY <1>1, <2>1, SMTT(60) DEF Progress
  <2> QED BY <1>2, <1>3, <2>1, <2>2, Booted, SMTT(60)
<1>9. CASE load_cr3
  <2>1. /\ writers = <<>> /\ place \in {9} /\ place' = place + 1 /\ out' = {}
        /\ writers' = <<>> /\ bootspace' = bootspace /\ loglen' = loglen
        /\ kerror_mode' = kerror_mode /\ offered' = offered /\ init_done' = init_done
        /\ g_pml4' = g_pml4 /\ cr3' = "voyager" /\ term_context' = term_context
    BY <1>1, <1>9, PlaceIs, Zenon DEF load_cr3, Writing
  <2>2. Progress'
    BY <1>1, <2>1 DEF Progress
  <2> QED BY <1>2, <1>3, <2>1, <2>2, Booted
<1>10. CASE serial_only
  <2>1. /\ writers = <<>> /\ place \in {13, 19} /\ place' = place + 1 /\ out' = {}
        /\ writers' = <<>> /\ bootspace' = 1 /\ loglen' = loglen
        /\ kerror_mode' = kerror_mode /\ offered' = offered /\ init_done' = init_done
        /\ g_pml4' = g_pml4 /\ cr3' = cr3 /\ term_context' = term_context
    BY <1>1, <1>10, PlaceIs, Zenon DEF serial_only, Writing
  <2>2. Progress'
    BY <1>1, <2>1, SMTT(60) DEF Progress
  <2> QED BY <1>2, <1>3, <2>1, <2>2, Booted
<1>11. CASE fbterm_init
  <2>1. /\ writers = <<>> /\ place \in {14} /\ place' = place + 1 /\ out' = {}
        /\ writers' = <<>> /\ bootspace' = bootspace /\ loglen' = loglen
        /\ kerror_mode' = kerror_mode /\ offered' = offered /\ init_done' = init_done
        /\ g_pml4' = g_pml4 /\ cr3' = cr3 /\ term_context' = "up"
    BY <1>1, <1>11, PlaceIs, Zenon DEF fbterm_init, Writing
  <2>2. Progress'
    BY <1>1, <2>1, SMTT(60) DEF Progress
  <2> QED BY <1>2, <1>3, <2>1, <2>2, Booted
<1>12. CASE use_terminal
  <2>1. /\ writers = <<>> /\ place \in {15, 20} /\ place' = place + 1 /\ out' = {}
        /\ writers' = <<>> /\ bootspace' = 0 /\ loglen' = loglen
        /\ kerror_mode' = kerror_mode /\ offered' = offered /\ init_done' = init_done
        /\ g_pml4' = g_pml4 /\ cr3' = cr3 /\ term_context' = term_context
    BY <1>1, <1>12, PlaceIs, Zenon DEF use_terminal, Writing
  <2>2. Progress'
    BY <1>1, <2>1 DEF Progress
  <2> QED BY <1>1, <1>2, <1>3, <2>1, <2>2, Booted, SMTT(60)
<1>13. CASE finish_init
  <2>1. /\ writers = <<>> /\ place \in {18} /\ place' = place + 1 /\ out' = {}
        /\ writers' = <<>> /\ bootspace' = bootspace /\ loglen' = loglen
        /\ kerror_mode' = kerror_mode /\ offered' = offered /\ init_done' = TRUE
        /\ g_pml4' = g_pml4 /\ cr3' = cr3 /\ term_context' = term_context
    BY <1>1, <1>13, PlaceIs, Zenon DEF finish_init, Writing
  <2>2. Progress'
    BY <1>1, <2>1 DEF Progress
  <2> QED BY <1>2, <1>3, <2>1, <2>2, Booted
<1> QED BY <1>4, <1>5, <1>6, <1>7, <1>8, <1>9, <1>10, <1>11, <1>12, <1>13, ZenonT(60)

\* A task prints, or somebody panics.
LEMMA PrintSteps ==
    ASSUME IInv, task_prints \/ panics
    PROVE  IInv'
<1>1. Progress /\ place \in 1 .. 23 /\ bootspace \in 0 .. 2 /\ init_done \in BOOLEAN
  BY Zenon DEF IInv, Progress, Routing
<1>2. /\ bootspace = 2 => offered \/ place = 1
      /\ bootspace = 0 => term_context = "up"
      /\ place = 21 => bootspace = 0
      /\ init_done => term_context = "up"
  BY Zenon DEF IInv, Progress, Routing
<1>3. CASE task_prints
  <2>1. /\ writers = <<>> /\ place \in {21} /\ out' = {} /\ UNCHANGED <<kernel, bootspace>>
        /\ writers' = <<Writer("task", Message)>> /\ loglen' = loglen /\ kerror_mode' = kerror_mode
    BY <1>1, <1>3, PlaceIs, Zenon DEF task_prints, Writing, At, Quiet
  <2>2. Progress'
    BY <1>1, <2>1, Zenon DEF Progress, kernel
  <2>3. Stack(writers', place')
    BY <2>1, SmallStack, WritersFit, Zenon DEF kernel
  <2> QED BY <1>1, <1>2, <2>1, <2>2, <2>3, Booted DEF kernel
<1>4. CASE panics
  <2>1. /\ writers = <<>> /\ place \in {7, 9, 11, 14, 21} /\ out' = {}
        /\ UNCHANGED <<kernel, bootspace>> /\ loglen' = loglen
        /\ writers' = <<Writer("panic", Message \o <<"halt">>)>>
        /\ kerror_mode' = kerror_mode \/ (kerror_mode' = 1 /\ init_done)
    BY <1>1, <1>4, PlaceIs, ZenonT(60) DEF panics, Panic, PanicMode, Writing
  <2>2. Progress'
    BY <1>1, <2>1, Zenon DEF Progress, kernel
  <2>3. Stack(writers', place')
    BY <2>1, SmallStack, WritersFit, Zenon DEF kernel
  <2> QED BY <1>1, <1>2, <2>1, <2>2, <2>3, Booted DEF kernel
<1> QED BY <1>3, <1>4, Zenon

\* What a step of a writer that changes neither _start nor the route has to show.
LEMMA Written ==
    ASSUME IInv, writers # <<>> \/ place # 1, UNCHANGED <<kernel, bootspace>>,
           kerror_mode' \in 0 .. 1,
           kerror_mode' = 1 => kerror_mode = 1 \/ term_context = "up" \/ Excepted(writers),
           Stack(writers', place), Excepted(writers) => Excepted(writers'),
           loglen' \in 0 .. LOGBUF_SIZE - 1,
           out' \subseteq {"limine", "terminal", "log", "fallback", "serial"}
    PROVE  IInv'
<1>1. place # 1 /\ place' = place
  BY Zenon DEF IInv, kernel
<1>2. Progress'
  BY Zenon DEF IInv, Progress, kernel
<1>3. Routing'
  BY <1>1, Zenon DEF IInv, Routing, kernel
<1> QED BY <1>1, <1>2, <1>3, Zenon DEF IInv

\* The keyboard interrupt and exceptions.
LEMMA InterruptSteps ==
    ASSUME IInv, keyboard_overflow \/ exception
    PROVE  IInv'
<1>1. /\ place \in 1 .. 23 /\ kerror_mode \in 0 .. 1 /\ loglen \in 0 .. LOGBUF_SIZE - 1
      /\ Stack(writers, place)
  BY Zenon DEF IInv, Progress, Routing
<1>2. CASE keyboard_overflow
  <2> DEFINE w == Writer("irq1", <<"kerror 1">> \o Message \o <<"kerror 0">>)
  <2>1. place \in 17 .. 21
    <3>1. place < Position("stopped") /\ place > Position("keyboard_init")
      BY <1>2, Zenon DEF keyboard_overflow, Running, Past
    <3>2. place < 22 /\ place > 16
      BY <3>1, PositionIs, Zenon
    <3> QED BY <1>1, <3>2
  <2>2. writers' = Append(writers, w) /\ out' = {} /\ UNCHANGED <<kernel, bootspace, kerror_mode, loglen>>
    BY <1>2, Zenon DEF keyboard_overflow
  <2>3. Fits(w, place)
    BY <2>1, WritersFit, Zenon
  <2> HIDE DEF w
  <2>4. Stack(writers', place) /\ (Excepted(writers) => Excepted(writers'))
    BY <1>1, <2>2, <2>3, Interrupted, Zenon
  <2> QED BY <1>1, <2>1, <2>2, <2>4, Written, SMTT(60)
<1>3. CASE exception
  <2> DEFINE w == Writer("exception", Message \o <<"kerror 1">> \o Message \o <<"halt">>)
  <2>1. place # 1
    <3>1. place > Position("idt_init")
      BY <1>3, Zenon DEF exception, Past
    <3>2. place > 5
      BY <3>1, PositionIs, Zenon
    <3> QED BY <1>1, <3>2
  <2>2. writers' = Append(writers, w) /\ out' = {} /\ UNCHANGED <<kernel, bootspace, kerror_mode, loglen>>
    BY <1>3, Zenon DEF exception
  <2>3. Fits(w, place)
    BY WritersFit, Zenon
  <2> HIDE DEF w
  <2>4. Stack(writers', place) /\ (Excepted(writers) => Excepted(writers'))
    BY <1>1, <2>2, <2>3, Interrupted, Zenon
  <2> QED BY <1>1, <2>1, <2>2, <2>4, Written, Zenon
<1> QED BY <1>2, <1>3, Zenon

\* Done and Become, on the stack.
LEMMA Gets ==
    ASSUME NEW w, Stack(writers, place), writers # <<>>, Fits(w, place), w.who = Me.who, Become(w)
    PROVE  Stack(writers', place) /\ (Excepted(writers) => Excepted(writers'))
  BY Continued, Zenon DEF Become, Me

\* The machine stops.
LEMMA Stops ==
    ASSUME IInv, writers # <<>>, Stop, UNCHANGED <<bootspace, kerror_mode, loglen>>,
           out' \subseteq {"limine", "terminal", "log", "fallback", "serial"}
    PROVE  IInv'
<1>1. /\ place' = 22 /\ writers' = <<>> /\ UNCHANGED <<offered, init_done, g_pml4, cr3, term_context>>
      /\ place # 1
  BY PositionIs, Zenon DEF Stop, IInv
<1>2. Progress'
  BY <1>1 DEF IInv, Progress
<1>3. Routing'
  BY <1>1 DEF IInv, Routing
<1>4. Stack(writers', place')
  BY <1>1, SmallStack, Zenon
<1> QED BY <1>1, <1>2, <1>3, <1>4, Zenon DEF IInv

\* The innermost writer, while the machine runs.
LEMMA Innermost ==
    ASSUME IInv, writers # <<>>
    PROVE  /\ Fits(Me, place) /\ Stack(writers, place)
           /\ Me.who = "exception" => Excepted(writers)
           /\ \A who : Me.who = who => Has(who)
<1>1. Stack(writers, place) /\ writers \in Seq(WriterType)
  BY Zenon DEF IInv, Stack
<1>2. Len(writers) \in DOMAIN writers
  BY <1>1
<1> QED BY <1>1, <1>2, Zenon DEF Stack, Me, Excepted, Has

\* kerror_mode is assigned by the keyboard interrupt or by an exception.
LEMMA ModeStep == ASSUME IInv, set_kerror_mode PROVE IInv'
<1> DEFINE w == [Me EXCEPT !.todo = Tail(@), !.at = "idle"]
<1>1. PICK k \in {0, 1} : Doing(IF k = 1 THEN "kerror 1" ELSE "kerror 0") /\ kerror_mode' = k
  BY Zenon DEF set_kerror_mode
<1>2. /\ writers # <<>> /\ Me.todo # <<>> /\ Become(w) /\ out' = {}
      /\ UNCHANGED <<kernel, bootspace, loglen>>
      /\ Head(Me.todo) = IF k = 1 THEN "kerror 1" ELSE "kerror 0"
  BY <1>1, Zenon DEF set_kerror_mode, Doing, Writing, Done
<1>3. Fits(Me, place) /\ Stack(writers, place) /\ (Me.who = "exception" => Excepted(writers))
  BY <1>2, Innermost, Zenon
<1>4. Fits(w, place) /\ w.who = Me.who
  BY <1>2, <1>3, Advanced, Zenon
<1> HIDE DEF w
<1>5. Stack(writers', place) /\ (Excepted(writers) => Excepted(writers'))
  BY <1>2, <1>3, <1>4, Gets, Zenon
<1>6. k = 1 => term_context = "up" \/ Excepted(writers)
  <2> SUFFICES ASSUME k = 1, Me.who # "exception" PROVE term_context = "up"
    BY <1>3, Zenon
  <2>1. Head(Me.todo) \notin Plain
    BY <1>2, Zenon DEF Plain
  <2>2. Me.todo \notin Seq(Plain)
    BY <1>2, <2>1, HeadTailProperties, Zenon
  <2>3. Me.who = "irq1"
    BY <1>3, <2>2, Zenon DEF Fits, WriterType
  <2>4. place \in 17 .. 21
    BY <1>3, <2>3, Zenon DEF Fits
  <2> QED BY <2>4 DEF IInv, Progress
<1>7. loglen \in 0 .. LOGBUF_SIZE - 1
  BY Zenon DEF IInv
<1>8. kerror_mode' \in 0 .. 1 /\ (kerror_mode' = 1 => term_context = "up" \/ Excepted(writers))
  <2>1. kerror_mode' = k /\ (k = 0 \/ k = 1)
    BY <1>1, Zenon
  <2> QED BY <2>1, <1>6
<1>9. loglen' = loglen /\ UNCHANGED <<kernel, bootspace>>
  BY <1>2, Zenon
<1> QED BY <1>2, <1>5, <1>7, <1>8, <1>9, Written, Zenon

\* A writer returns to the one it interrupted.
LEMMA ReturnStep == ASSUME IInv, return PROVE IInv'
<1>1. /\ writers # <<>> /\ writers[Len(writers)].todo = <<>> /\ out' = {}
      /\ writers' = SubSeq(writers, 1, Len(writers) - 1)
      /\ UNCHANGED <<kernel, bootspace, kerror_mode, loglen>>
  BY Zenon DEF return, Writing, Me
<1>2. Stack(writers, place) /\ loglen \in 0 .. LOGBUF_SIZE - 1 /\ kerror_mode \in 0 .. 1
  BY Zenon DEF IInv, Routing
<1>3. Stack(writers', place) /\ (Excepted(writers) => Excepted(writers'))
  BY <1>1, <1>2, Returned, Zenon
<1> QED BY <1>1, <1>2, <1>3, Written, Zenon

\* The character is in the line buffer, or the line is sent.
LEMMA SerialStep == ASSUME IInv, store \/ flush_serial_line PROVE IInv'
<1> DEFINE w == [Me EXCEPT !.todo = Tail(@), !.at = "idle"]
<1>1. /\ writers # <<>> /\ Me.at \in {"store", "flush"} /\ Become(w) /\ out' \in {{}, {"serial"}}
      /\ UNCHANGED <<kernel, bootspace, kerror_mode>> /\ loglen' \in {0, Me.n + 1}
  BY Zenon DEF store, flush_serial_line, Writing, Done
<1>2. Fits(Me, place) /\ Stack(writers, place) /\ kerror_mode \in 0 .. 1
  BY <1>1, Innermost, Zenon DEF IInv, Routing
<1>3. Me.todo # <<>> /\ Head(Me.todo) # "halt" /\ Me.n \in 0 .. LOGBUF_SIZE - 2
  BY <1>1, <1>2, Zenon DEF Fits, WriterType
<1>4. Fits(w, place) /\ w.who = Me.who
  BY <1>2, <1>3, Advanced, Zenon
<1> HIDE DEF w
<1>5. Stack(writers', place) /\ (Excepted(writers) => Excepted(writers'))
  BY <1>1, <1>2, <1>4, Gets, Zenon
<1>6. loglen' \in 0 .. LOGBUF_SIZE - 1
  BY <1>1, <1>3, ConsoleAssumption
<1> QED BY <1>1, <1>2, <1>5, <1>6, Written, Zenon

\* buffer_or_flush decides.
LEMMA BufferStep == ASSUME IInv, buffer_or_flush PROVE IInv'
<1>1. /\ writers # <<>> /\ Me.at = "log" /\ out' = {}
      /\ UNCHANGED <<kernel, bootspace, kerror_mode, loglen>>
  BY Zenon DEF buffer_or_flush, Writing
<1>2. /\ Fits(Me, place) /\ Stack(writers, place) /\ kerror_mode \in 0 .. 1
      /\ loglen \in 0 .. LOGBUF_SIZE - 1
  BY <1>1, Innermost, Zenon DEF IInv, Routing
<1>3. Me.todo # <<>> /\ Head(Me.todo) \in {"c", "nl"} /\ Me.n \in 0 .. LOGBUF_SIZE - 2
  BY <1>1, <1>2, Zenon DEF Fits, WriterType
<1>4. \E w : Become(w) /\ Fits(w, place) /\ w.who = Me.who
  <2>1. CASE MustFlush(Head(Me.todo)) /\ loglen = 0
    <3> DEFINE w == [Me EXCEPT !.todo = Tail(@), !.at = "idle"]
    <3>1. Become(w)
      BY <2>1, Zenon DEF buffer_or_flush, Done
    <3>2. Fits(w, place) /\ w.who = Me.who
      BY <1>2, <1>3, Advanced, Zenon
    <3> QED BY <3>1, <3>2, Zenon
  <2>2. CASE MustFlush(Head(Me.todo)) /\ loglen # 0
    <3> DEFINE w == [Me EXCEPT !.at = "flush"]
    <3>1. Become(w)
      BY <2>2, Zenon DEF buffer_or_flush
    <3>2. Fits(w, place) /\ w.who = Me.who
      BY <1>2, <1>3, Within, Zenon
    <3> QED BY <3>1, <3>2, Zenon
  <2>3. CASE ~MustFlush(Head(Me.todo))
    <3> DEFINE w == [Me EXCEPT !.at = "store", !.n = loglen]
    <3>1. Become(w)
      BY <2>3, Zenon DEF buffer_or_flush
    <3>2. loglen \in 0 .. LOGBUF_SIZE - 2
      BY <2>3, <1>2, ConsoleAssumption DEF MustFlush
    <3>3. Fits(w, place) /\ w.who = Me.who
      BY <1>2, <1>3, <3>2, Within, ZenonT(60)
    <3> QED BY <3>1, <3>3, Zenon
  <2> QED BY <2>1, <2>2, <2>3, Zenon
<1>5. Stack(writers', place) /\ (Excepted(writers) => Excepted(writers'))
  BY <1>1, <1>2, <1>4, Gets, Zenon
<1> QED BY <1>1, <1>2, <1>5, Written, Zenon

\* _putchar chooses the devices.
LEMMA RouteStep == ASSUME IInv, putchar_route PROVE IInv'
<1>1. /\ writers # <<>> /\ Me.todo # <<>> /\ Head(Me.todo) \in {"c", "nl"}
      /\ UNCHANGED <<bootspace, kerror_mode, loglen>> /\ out' = Route
  BY Zenon DEF putchar_route, Doing, Writing
<1>2. /\ Fits(Me, place) /\ Stack(writers, place) /\ kerror_mode \in 0 .. 1
      /\ loglen \in 0 .. LOGBUF_SIZE - 1 /\ Me.n \in 0 .. LOGBUF_SIZE - 2
  BY <1>1, Innermost, Zenon DEF IInv, Routing, Fits, WriterType
<1>3. out' \subseteq {"limine", "terminal", "log", "fallback", "serial"}
  BY <1>1, Zenon DEF Route
<1>4. CASE Stop
  BY <1>1, <1>3, <1>4, Stops, Zenon
<1>5. CASE UNCHANGED kernel /\ \E w : Become(w) /\ Fits(w, place) /\ w.who = Me.who
  <2>1. Stack(writers', place) /\ (Excepted(writers) => Excepted(writers'))
    BY <1>1, <1>2, <1>5, Gets, Zenon
  <2> QED BY <1>1, <1>2, <1>3, <1>5, <2>1, Written, Zenon
<1>6. Stop \/ (UNCHANGED kernel /\ (Done \/ Become([Me EXCEPT !.at = "log"])))
  <2> DEFINE lost == "fallback" \in Route \/ ("terminal" \in Route /\ term_context = "NULL")
  <2>1. CASE lost
    <3>1. Stop
      BY <2>1, Zenon DEF putchar_route
    <3> QED BY <3>1, Zenon
  <2>2. CASE ~lost
    <3>1. /\ IF "log" \in Route THEN Become([Me EXCEPT !.at = "log"]) ELSE Done
          /\ UNCHANGED kernel
      BY <2>2, Zenon DEF putchar_route
    <3> QED BY <3>1, Zenon
  <2> QED BY <2>1, <2>2, Zenon
<1>7. Fits([Me EXCEPT !.at = "log"], place) /\ [Me EXCEPT !.at = "log"].who = Me.who
  BY <1>1, <1>2, Within, Zenon
<1>8. LET w == [Me EXCEPT !.todo = Tail(@), !.at = "idle"] IN Fits(w, place) /\ w.who = Me.who
  BY <1>1, <1>2, Advanced, Zenon
<1> QED BY <1>4, <1>5, <1>6, <1>7, <1>8, Zenon DEF Done

\* Every step keeps the invariant, whoever interrupts whom.
LEMMA NextKeeps == ASSUME IInv, [Next]_vars PROVE IInv'
<1>1. CASE \/ check_terminal \/ print \/ name_framebuffer \/ idt_init \/ alloc_root \/ load_cr3
           \/ frame_init \/ serial_only \/ fbterm_init \/ use_terminal \/ keyboard_init
           \/ finish_init
  BY <1>1, BootSteps, Zenon
<1>2. CASE task_prints \/ panics
  BY <1>2, PrintSteps, Zenon
<1>3. CASE keyboard_overflow \/ exception
  BY <1>3, InterruptSteps, Zenon
<1>4. CASE set_kerror_mode
  BY <1>4, ModeStep, Zenon
<1>5. CASE return
  BY <1>5, ReturnStep, Zenon
<1>6. CASE halt
  BY <1>6, Stops, ZenonT(60) DEF halt, Doing, Writing
<1>7. CASE putchar_route
  BY <1>7, RouteStep, Zenon
<1>8. CASE buffer_or_flush
  BY <1>8, BufferStep, Zenon
<1>9. CASE store \/ flush_serial_line
  BY <1>9, SerialStep, Zenon
<1>10. CASE UNCHANGED vars
  <2>1. Progress'
    BY <1>10, Zenon DEF vars, kernel, IInv, Progress
  <2>2. Routing'
    BY <1>10, Zenon DEF vars, kernel, IInv, Routing
  <2> QED BY <1>10, <2>1, <2>2, Zenon DEF IInv, vars, kernel
<1> QED BY <1>1, <1>2, <1>3, <1>4, <1>5, <1>6, <1>7, <1>8, <1>9, <1>10, ZenonT(60) DEF Next

-----------------------------------------------------------------------------
(* The theorems.                                                           *)

\* What _start has set up, what each writer may still do, and where _putchar
\* sends a character stay in step.
THEOREM Inductive == Spec => []IInv
  BY InitOk, NextKeeps, PTL DEF Spec

\* The serial line buffer of putchar.c has room for its terminating zero at any
\* size of it, however many writers are inside buffer_or_flush.
THEOREM LineBufferHasRoom == Spec => []TypeOK
<1>1. IInv => TypeOK
  <2> SUFFICES ASSUME IInv PROVE TypeOK
    BY Zenon
  <2>1. /\ offered \in BOOLEAN /\ place \in DOMAIN Start
        /\ bootspace \in 0 .. 3 /\ kerror_mode \in 0 .. 2 /\ init_done \in BOOLEAN
        /\ g_pml4 \in {"none", "voyager"} /\ cr3 \in {"limine", "voyager"}
        /\ term_context \in {"NULL", "up"}
    <3>1. DOMAIN Start = 1 .. 23
      BY StartIs, Zenon
    <3>2. bootspace \in 0 .. 3 /\ kerror_mode \in 0 .. 2
      BY DEF IInv, Routing
    <3>3. Progress
      BY Zenon DEF IInv
    <3> QED BY <3>1, <3>2, <3>3, Zenon DEF Progress
  <2>2. \A k \in DOMAIN writers : /\ writers[k].at \in {"idle", "log", "flush", "store"}
                                  /\ writers[k].n \in 0 .. LOGBUF_SIZE - 2
    BY Zenon DEF IInv, Stack, Fits, WriterType
  <2> QED BY <2>1, <2>2, Zenon DEF TypeOK, IInv
<1> QED BY <1>1, Inductive, PTL

\* _putchar never sends a character to a device that cannot take it: the boot
\* loader's callback only on its own page tables, the terminal only once it
\* exists (or by a CPU exception), and the complaint about a missing terminal
\* never.
THEOREM RoutesAreUsable == Spec => DevicesAreUsable
<1> DEFINE A == /\ "limine" \in out' => cr3 = "limine" /\ offered
                /\ "terminal" \in out' => term_context = "up" \/ Has("exception")
                /\ "fallback" \notin out'
<1>1. IInv /\ [Next]_vars => [A]_vars
  <2> SUFFICES ASSUME IInv, Next PROVE A \/ UNCHANGED vars
    BY Zenon
  <2>1. CASE putchar_route
    <3>1. /\ out' = Route /\ Running /\ writers # <<>>
      BY <2>1, Zenon DEF putchar_route, Doing, Writing
    <3>2. place < 22 /\ place \in 1 .. 23 /\ place # 1
      BY <3>1, PositionIs, Zenon DEF Running, IInv, Progress
    <3>3. /\ bootspace \in 0 .. 2 /\ kerror_mode \in 0 .. 1
          /\ bootspace = 2 => offered
          /\ bootspace = 0 => term_context = "up"
          /\ kerror_mode = 1 => term_context = "up" \/ Has("exception")
          /\ cr3 \in {"limine", "voyager"} /\ (cr3 = "voyager" => g_pml4 = "voyager")
      BY <3>2 DEF IInv, Progress, Routing, Excepted, Has
    <3>4. "limine" \in Route => cr3 = "limine" /\ offered
      BY <3>3 DEF Route, voyager_page_tables_active
    <3>5. "terminal" \in Route => term_context = "up" \/ Has("exception")
      BY <3>3, Zenon DEF Route, voyager_page_tables_active
    <3>6. "fallback" \notin Route
      BY <3>3 DEF Route, voyager_page_tables_active
    <3> QED BY <3>1, <3>4, <3>5, <3>6, Zenon
  <2>2. CASE ~putchar_route
    <3>1. out' = {} \/ out' = {"serial"} \/ UNCHANGED vars
      BY <2>2, Zenon DEF Next, check_terminal, print, name_framebuffer, idt_init, alloc_root, load_cr3,
                  frame_init, serial_only, fbterm_init, use_terminal, keyboard_init, finish_init,
                  task_prints, panics, keyboard_overflow, exception, set_kerror_mode, return,
                  halt, buffer_or_flush, store, flush_serial_line, Boot
    <3> QED BY <3>1, SMTT(60)
  <2> QED BY <2>1, <2>2, Zenon
<1> QED BY <1>1, Inductive, PTL DEF Spec, DevicesAreUsable

\* panic's message reaches the screen once initialisation is complete: bootspace
\* is 0 and the terminal exists wherever a panic may then come from, so that the
\* keyboard overflow's reset of kerror_mode does not divert it.
THEOREM PanicIsSeen == Spec => PanicReachesScreen
<1> DEFINE A == (Writing /\ Me.who = "panic" /\ init_done /\ putchar_route) => "terminal" \in out'
<1>1. IInv /\ [Next]_vars => [A]_vars
  <2> SUFFICES ASSUME IInv, writers # <<>>, Me.who = "panic", init_done, putchar_route
               PROVE  "terminal" \in out'
    BY Zenon DEF Writing
  <2>1. Fits(Me, place)
    BY Innermost, Zenon
  <2>2. place \in {7, 9, 11, 14, 21} /\ place >= 19
    BY <2>1, Zenon DEF Fits, IInv, Progress
  <2>3. bootspace = 0 /\ term_context = "up" /\ kerror_mode \in 0 .. 1
    BY <2>2 DEF IInv, Routing
  <2>4. "terminal" \in Route
    BY <2>3 DEF Route
  <2> QED BY <2>4, Zenon DEF putchar_route
<1> QED BY <1>1, Inductive, PTL DEF Spec, PanicReachesScreen

=============================================================================
