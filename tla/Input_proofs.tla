---------------------------- MODULE Input_proofs ----------------------------
(***************************************************************************)
(* From key to command, for every ring, buffer size and keyboard.          *)
(*                                                                         *)
(* The keyboard ring implements a FIFO: interrupts push between any two    *)
(* accesses of kbd_pop, and the compiler may order those accesses either   *)
(* way, but the slot kbd_pop still has to read is never the one kbd_push   *)
(* writes.                                                                 *)
(*                                                                         *)
(* The shell drives kbd_pop as the driver expects, and the line it hands   *)
(* to cmd_parser is the fold of the keys it took: the length of the edited *)
(* line is pos, its characters fill the buffer below pos, and the buffer   *)
(* is always longer than it.                                               *)
(***************************************************************************)
EXTENDS Input, ArithFacts, SequenceTheorems

N == KBD_STACK_SIZE

\* The slot i places after the tail, and the number of queued keys, without %.
Place(i) == IF kbd_tail + i < N THEN kbd_tail + i ELSE kbd_tail + i - N
Count == IF kbd_head >= kbd_tail THEN kbd_head - kbd_tail ELSE kbd_head + N - kbd_tail

RingType ==
    /\ kbd_stack \in [Slot -> Char] /\ kbd_head \in Slot /\ kbd_tail \in Slot
    /\ slot \in Slot /\ data \in Char /\ k_char \in Char
    /\ pop \in {"idle", "read and advance", "read", "advance", "done"}

\* Queued keys are keys.  While kbd_pop is under way its slot is the tail, or
\* the one just behind it, which kbd_push leaves alone: a ring that reaches it
\* is full.
RingInv ==
    /\ RingType
    /\ \A i \in 0 .. Count - 1 : kbd_stack[Place(i)] # NUL
    /\ pop \in {"read and advance", "advance"} => slot = kbd_tail /\ kbd_tail # kbd_head
    /\ pop = "advance" => data = kbd_stack[slot]
    /\ pop = "read" => After(slot) = kbd_tail /\ kbd_stack[slot] # NUL
    /\ pop = "done" => data # NUL

-----------------------------------------------------------------------------
(* Modular arithmetic on the ring.                                         *)

\* The ring's index arithmetic: the modulus of a sum below twice the size.
LEMMA Wrap ==
    ASSUME NEW x \in 0 .. 2 * N - 1
    PROVE  x % N = IF x < N THEN x ELSE x - N
<1>1. N \in Nat \ {0}
  BY KeyboardAssumption DEF N
<1> HIDE DEF N
<1>2. CASE x < N
  <2>1. x \in 0 .. N - 1 /\ N * 0 + x = x
    BY <1>1, <1>2
  <2> QED BY <1>1, <1>2, <2>1, QuotientUnique, Zenon
<1>3. CASE x >= N
  <2>1. x - N \in 0 .. N - 1 /\ N * 1 + (x - N) = x
    BY <1>1, <1>3
  <2>2. (N * 1 + (x - N)) % N = x - N
    BY <1>1, <2>1, QuotientUnique, Zenon
  <2> QED BY <1>1, <1>3, <2>1, <2>2, SMTT(60)
<1> QED BY <1>1, <1>2, <1>3, SMTT(60)

\* The place after one of the ring, with the wrap at the end.
LEMMA AfterIs ==
    ASSUME NEW i \in Slot
    PROVE  After(i) \in Slot /\ After(i) = IF i = N - 1 THEN 0 ELSE i + 1
<1>1. N \in Nat /\ N > 1 /\ i \in 0 .. N - 1
  BY KeyboardAssumption, Zenon DEF N, Slot
<1>2. After(i) = (i + 1) % N
  BY Zenon DEF After, N
<1>3. Slot = 0 .. N - 1
  BY Zenon DEF Slot, N
<1> HIDE DEF N
<1>4. i + 1 \in 0 .. 2 * N - 1
  BY <1>1
<1>5. (i + 1) % N = IF i + 1 < N THEN i + 1 ELSE i + 1 - N
  BY <1>1, <1>4, Wrap
<1> QED BY <1>1, <1>2, <1>3, <1>5, SMTT(60)

\* Queue in terms of Place and Count.
QueueByPlace ==
    /\ Queued = Count /\ Count \in 0 .. N - 1
    /\ Queue = [i \in 1 .. Count |-> kbd_stack[Place(i - 1)]]
    /\ \A i \in 0 .. N - 1 : Place(i) \in Slot
    /\ Queue \in Seq(Char) /\ Len(Queue) = Count

\* The queue's keys are the ring's cells from the tail on.
LEMMA QueueIs == RingType => QueueByPlace
<1> SUFFICES ASSUME RingType PROVE QueueByPlace
  BY Zenon
<1>1. N \in Nat /\ N > 1 /\ kbd_head \in 0 .. N - 1 /\ kbd_tail \in 0 .. N - 1 /\ Slot = 0 .. N - 1
  BY KeyboardAssumption, Zenon DEF N, Slot, RingType
<1>2. Queued = (kbd_head + N - kbd_tail) % N
  BY Zenon DEF Queued, N
<1>3. Queue = [i \in 1 .. Queued |-> kbd_stack[(kbd_tail + i - 1) % N]]
  BY Zenon DEF Queue, N
<1> HIDE DEF N
<1>4. Queued = Count /\ Count \in 0 .. N - 1
  <2> DEFINE x == kbd_head + N - kbd_tail
  <2>1. x \in 0 .. 2 * N - 1
    BY <1>1
  <2> HIDE DEF x
  <2>2. x % N = IF x < N THEN x ELSE x - N
    BY <2>1, Wrap, Zenon
  <2>3. Queued = IF x < N THEN x ELSE x - N
    BY <1>2, <2>2, Zenon DEF x
  <2> QED BY <1>1, <2>3 DEF Count, x
<1>5. ASSUME NEW i \in 1 .. Count
      PROVE  (kbd_tail + i - 1) % N = Place(i - 1)
  <2> DEFINE x == kbd_tail + i - 1
  <2>1. x \in 0 .. 2 * N - 1
    BY <1>1, <1>4
  <2> HIDE DEF x
  <2>2. x % N = IF x < N THEN x ELSE x - N
    BY <2>1, Wrap, Zenon
  <2>3. Place(i - 1) = IF x < N THEN x ELSE x - N
    BY <1>1, <1>4 DEF Place, x
  <2> QED BY <2>2, <2>3 DEF x
<1>6. \A i \in 0 .. N - 1 : Place(i) \in Slot
  BY <1>1 DEF Place
<1>7. Queue = [i \in 1 .. Count |-> kbd_stack[Place(i - 1)]]
  BY <1>3, <1>4, <1>5, Zenon
<1>8. \A i \in 1 .. Count : kbd_stack[Place(i - 1)] \in Char
  <2>1. \A i \in 1 .. Count : i - 1 \in 0 .. N - 1
    BY <1>1, <1>4
  <2> QED BY <1>6, <2>1, Zenon DEF RingType
<1>9. Queue \in [1 .. Count -> Char]
  BY <1>7, <1>8, Zenon
<1>10. Queue \in Seq(Char) /\ Len(Queue) = Count
  BY <1>4, <1>9, <1>1, SMTT(60)
<1> QED BY <1>4, <1>6, <1>7, <1>10, Zenon DEF QueueByPlace

-----------------------------------------------------------------------------
(* One key in, one key out.                                                *)

\* Where the next key goes, and that no queued key is there.
LEMMA HeadIsFree ==
    ASSUME RingType, ~Full
    PROVE  /\ Count < N - 1 /\ Place(Count) = kbd_head
           /\ \A i \in 0 .. Count - 1 : Place(i) # kbd_head
           /\ \A i \in Slot : After(i) = kbd_tail => i # kbd_head
<1>1. N \in Nat /\ N > 1 /\ kbd_head \in 0 .. N - 1 /\ kbd_tail \in 0 .. N - 1 /\ kbd_head \in Slot
  BY KeyboardAssumption, Zenon DEF N, Slot, RingType
<1>2. kbd_tail # IF kbd_head = N - 1 THEN 0 ELSE kbd_head + 1
  BY <1>1, AfterIs, Zenon DEF Full
<1>3. \A i \in Slot : After(i) = kbd_tail => i # kbd_head
  BY Zenon DEF Full
<1> HIDE DEF N
<1>4. Count < N - 1 /\ Count \in Nat /\ Place(Count) = kbd_head
  BY <1>1, <1>2, SMTT(60) DEF Count, Place
<1>5. \A i \in 0 .. Count - 1 : Place(i) # kbd_head
  BY <1>1, <1>2 DEF Count, Place
<1> QED BY <1>3, <1>4, <1>5, Zenon

\* kbd_push drops a key that finds the ring full and appends any other.
LEMMA Pushed ==
    ASSUME RingInv, NEW c \in Char \ {NUL}, kbd_push(c), UNCHANGED <<pop, slot, data>>,
           k_char' \in Char
    PROVE  RingInv' /\ (UNCHANGED <<Queue, Hand>> \/ Fifo!Put(c))
<1>0. RingType /\ N \in Nat /\ N > 1
  BY KeyboardAssumption, Zenon DEF RingInv, N
<1>1. CASE Full
  <2>1. UNCHANGED <<kbd_stack, kbd_head, kbd_tail, pop, slot, data>>
    BY <1>1, Zenon DEF kbd_push, ring
  <2>2. UNCHANGED <<Queue, Hand, Count>> /\ \A i : Place(i)' = Place(i)
    BY <2>1, Zenon DEF Queue, Queued, Hand, Count, Place
  <2>3. RingInv'
    BY <2>1, <2>2, Zenon DEF RingInv, RingType, After
  <2> QED BY <2>2, <2>3, Zenon
<1>2. CASE ~Full
  <2>1. /\ kbd_stack' = [kbd_stack EXCEPT ![kbd_head] = c] /\ kbd_head' = After(kbd_head)
        /\ kbd_tail' = kbd_tail
    BY <1>2, Zenon DEF kbd_push
  <2>2. kbd_head \in Slot /\ kbd_head' \in Slot /\ kbd_tail \in Slot
        /\ kbd_head' = IF kbd_head = N - 1 THEN 0 ELSE kbd_head + 1
    BY <1>0, <2>1, AfterIs, Zenon DEF RingType
  <2>3. RingType'
    BY <1>0, <2>1, <2>2, Zenon DEF RingType
  <2>4. \A i : Place(i)' = Place(i)
    BY <2>1, Zenon DEF Place
  <2>5. Count \in Nat /\ Count' = Count + 1
    BY <1>0, <1>2, <2>1, <2>2, HeadIsFree, SMTT(60) DEF Count, Slot, N
  <2>6. /\ \A i \in 0 .. Count - 1 : kbd_stack'[Place(i)] = kbd_stack[Place(i)]
        /\ kbd_stack'[Place(Count)] = c
    <3>1. \A i \in 0 .. Count - 1 : Place(i) \in Slot /\ Place(i) # kbd_head
      BY <1>0, <1>2, <2>5, HeadIsFree, QueueIs, SMTT(60) DEF QueueByPlace
    <3> QED BY <1>0, <1>2, <2>1, <2>2, <3>1, HeadIsFree, ZenonT(60) DEF RingType
  <2>7. \A i \in 0 .. Count' - 1 : kbd_stack'[Place(i)'] # NUL
    <3> SUFFICES ASSUME NEW i \in 0 .. Count' - 1 PROVE kbd_stack'[Place(i)] # NUL
      BY <2>4, Zenon
    <3>1. i \in 0 .. Count - 1 \/ i = Count
      BY <2>5
    <3> QED BY <2>6, <3>1, Zenon DEF RingInv
  <2>8. pop \in {"read and advance", "advance", "read"} => kbd_stack'[slot] = kbd_stack[slot]
    <3>1. pop \in {"read and advance", "advance", "read"} => slot # kbd_head
      BY <1>0, <1>2, HeadIsFree, Zenon DEF RingInv, RingType
    <3> QED BY <1>0, <2>1, <3>1, Zenon DEF RingType
  <2>9. kbd_tail # kbd_head'
    BY <1>2, <2>1, Zenon DEF Full
  <2>10. RingInv'
    <3>1. After(slot)' = After(slot)
      BY Zenon DEF After
    <3> QED BY <2>1, <2>3, <2>7, <2>8, <2>9, <3>1, ZenonT(60) DEF RingInv
  <2>11. Hand' = Hand
    BY <2>8, Zenon DEF Hand
  <2>12. Queue' = Append(Queue, c) /\ Len(Queue) < N - 1
    <3>1. /\ Queue \in Seq(Char) /\ Len(Queue) = Count
          /\ Queue = [i \in 1 .. Count |-> kbd_stack[Place(i - 1)]]
      BY <1>0, QueueIs, Zenon DEF QueueByPlace
    <3>2. /\ Queue' \in Seq(Char) /\ Len(Queue') = Count'
          /\ Queue' = [i \in 1 .. Count' |-> kbd_stack'[Place(i - 1)']]
      <4>1. QueueByPlace'
        BY <2>3, QueueIs, PTL
      <4> QED BY <4>1, Zenon DEF QueueByPlace
    <3>3. /\ Append(Queue, c) \in Seq(Char) /\ Len(Append(Queue, c)) = Count + 1
          /\ \A i \in 1 .. Count : Append(Queue, c)[i] = Queue[i]
          /\ Append(Queue, c)[Count + 1] = c
      <4> DEFINE s == Queue
      <4>1. c \in Char /\ s \in Seq(Char) /\ Len(s) = Count
        BY <3>1, Zenon
      <4> HIDE DEF s
      <4>2. /\ Append(s, c) \in Seq(Char) /\ Len(Append(s, c)) = Count + 1
            /\ \A i \in 1 .. Count : Append(s, c)[i] = s[i]
            /\ Append(s, c)[Count + 1] = c
        BY <4>1, AppendProperties, SMTT(60)
      <4> QED BY <4>2, Zenon DEF s
    <3>4. ASSUME NEW i \in 1 .. Count + 1
          PROVE  Queue'[i] = Append(Queue, c)[i]
      <4>1. Queue'[i] = kbd_stack'[Place(i - 1)]
        BY <2>4, <2>5, <3>2, ZenonT(60)
      <4>2. CASE i = Count + 1
        <5>1. i - 1 = Count
          BY <2>5, <4>2, SMTT(60)
        <5> QED BY <2>6, <3>3, <4>1, <4>2, <5>1, ZenonT(60)
      <4>3. CASE i \in 1 .. Count
        <5>1. i - 1 \in 0 .. Count - 1
          BY <2>5, <4>3
        <5> QED BY <2>6, <3>1, <3>3, <4>1, <4>3, <5>1, ZenonT(60)
      <4>4. i = Count + 1 \/ i \in 1 .. Count
        BY <2>5
      <4> QED BY <4>2, <4>3, <4>4, ZenonT(60)
    <3>5. Queue' = Append(Queue, c)
      <4> DEFINE s == Queue'
                 t == Append(Queue, c)
      <4>1. s \in Seq(Char) /\ t \in Seq(Char) /\ Len(s) = Len(t)
        BY <2>5, <3>2, <3>3, Zenon
      <4>2. \A i \in 1 .. Len(s) : s[i] = t[i]
        BY <2>5, <3>2, <3>4, Zenon
      <4> HIDE DEF s, t
      <4> QED BY <4>1, <4>2, SeqEqual, Zenon DEF s, t
    <3> QED BY <1>0, <1>2, <3>1, <3>5, HeadIsFree, ZenonT(60)
  <2> QED BY <2>10, <2>11, <2>12, Zenon DEF Fifo!Put, N
<1> QED BY <1>1, <1>2, Zenon

\* An interrupt changes nothing, drops its key, or appends it.
LEMMA Handled ==
    ASSUME RingInv, NEW ready \in BOOLEAN, NEW code \in Make \cup Break,
           keyboard_handler(ready, code)
    PROVE  RingInv' /\ [Fifo!Next]_<<Queue, Hand>>
<1>1. UNCHANGED <<pop, slot, data>>
  BY Zenon DEF keyboard_handler
<1>2. ASSUME UNCHANGED ring, k_char' \in Char
      PROVE  RingInv' /\ UNCHANGED <<Queue, Hand>>
  <2>1. UNCHANGED <<kbd_stack, kbd_head, kbd_tail>>
    BY <1>2, Zenon DEF ring
  <2>2. UNCHANGED <<Queue, Hand, Count>> /\ \A i : Place(i)' = Place(i)
    BY <1>1, <2>1, Zenon DEF Queue, Queued, Hand, Count, Place
  <2>3. RingInv'
    BY <1>1, <1>2, <2>1, <2>2, Zenon DEF RingInv, RingType, After
  <2> QED BY <2>2, <2>3, Zenon
<1>3. ASSUME NEW c \in Char \ {NUL}, kbd_push(c), k_char' \in Char
      PROVE  RingInv' /\ [Fifo!Next]_<<Queue, Hand>>
  BY <1>1, <1>3, Pushed, Zenon DEF Fifo!Next
<1>4. CASE ~ready \/ code \in Break
  <2>1. UNCHANGED <<ring, k_char>>
    BY <1>4, Zenon DEF keyboard_handler
  <2> QED BY <1>2, <2>1, Zenon DEF RingInv, RingType
<1>5. CASE ~(~ready \/ code \in Break)
  <2>1. Translate(code) /\ code \in Make
    BY <1>5, Zenon DEF keyboard_handler
  <2>2. CASE code = ENTER
    <3>1. k_char' = PLUS /\ kbd_push(NEWLINE)
      BY <2>1, <2>2, Zenon DEF Translate
    <3> QED BY <1>3, <3>1, KeyboardAssumption, Zenon
  <2>3. CASE code # ENTER
    <3>1. keyboard_map[code] \in Char
      BY <2>1, KeyboardAssumption, Zenon
    <3>2. /\ k_char' = keyboard_map[code]
          /\ IF keyboard_map[code] = NUL THEN UNCHANGED ring ELSE kbd_push(keyboard_map[code])
      BY <2>1, <2>3, Zenon DEF Translate
    <3> QED BY <1>2, <1>3, <3>1, <3>2, Zenon
  <2> QED BY <2>2, <2>3, Zenon
<1> QED BY <1>4, <1>5, Zenon

\* The first key of a nonempty ring is in the tail's slot, and advancing the tail
\* removes exactly that key.
LEMMA Advanced ==
    ASSUME RingInv, RingType', kbd_tail # kbd_head, kbd_tail' = After(kbd_tail),
           UNCHANGED <<kbd_stack, kbd_head>>
    PROVE  /\ Queue # <<>> /\ Head(Queue) = kbd_stack[kbd_tail] /\ Queue' = Tail(Queue)
           /\ kbd_stack[kbd_tail] # NUL
           /\ \A i \in 0 .. Count' - 1 : kbd_stack'[Place(i)'] # NUL
<1>0. RingType /\ N \in Nat /\ N > 1 /\ Slot = 0 .. N - 1
  BY KeyboardAssumption, Zenon DEF RingInv, N, Slot
<1> HIDE DEF N
<1>1. kbd_tail \in Slot /\ kbd_head \in Slot /\ kbd_tail' = IF kbd_tail = N - 1 THEN 0 ELSE kbd_tail + 1
  BY <1>0, AfterIs, ZenonT(60) DEF RingType
<1>2. Count \in Nat /\ Count > 0 /\ Count' = Count - 1 /\ Place(0) = kbd_tail
  <2>1. kbd_tail \in 0 .. N - 1 /\ kbd_head \in 0 .. N - 1 /\ kbd_head' = kbd_head
    BY <1>0, <1>1, ZenonT(60)
  <2>2. Count \in Nat /\ Count > 0 /\ Count' = Count - 1
    BY <1>0, <1>1, <2>1, SMTT(60) DEF Count
  <2> QED BY <1>0, <2>1, <2>2, SMTT(60) DEF Place
<1>3. \A i \in 0 .. N - 1 : Place(i)' = Place(i + 1)
  <2>1. ASSUME NEW i \in 0 .. N - 1 PROVE Place(i)' = Place(i + 1)
    BY <1>0, <1>1, SMTT(60) DEF Place
  <2> QED BY <2>1, Zenon
<1>4. /\ Queue \in Seq(Char) /\ Len(Queue) = Count /\ Count <= N - 1
      /\ Queue = [i \in 1 .. Count |-> kbd_stack[Place(i - 1)]]
  BY <1>0, QueueIs, SMTT(60) DEF QueueByPlace
<1>5. /\ Queue' \in Seq(Char) /\ Len(Queue') = Count'
      /\ Queue' = [i \in 1 .. Count' |-> kbd_stack[Place(i - 1)']]
  <2>1. QueueByPlace'
    BY QueueIs, PTL
  <2> QED BY <2>1, Zenon DEF QueueByPlace
<1>6. Queue # <<>> /\ Head(Queue) = Queue[1]
  BY <1>2, <1>4, SMTT(60)
<1>7. Queue[1] = kbd_stack[kbd_tail] /\ kbd_stack[kbd_tail] # NUL
  <2>1. Queue[1] = kbd_stack[Place(1 - 1)] /\ 1 - 1 = 0 /\ 0 \in 0 .. Count - 1
    BY <1>2, <1>4, SMTT(60)
  <2> QED BY <1>2, <2>1, Zenon DEF RingInv
<1>8. /\ Tail(Queue) \in Seq(Char) /\ Len(Tail(Queue)) = Count - 1
      /\ \A i \in 1 .. Count - 1 : Tail(Queue)[i] = Queue[i + 1]
  <2> DEFINE s == Queue
  <2>1. s \in Seq(Char) /\ s # <<>> /\ Len(s) = Count
    BY <1>4, <1>6, Zenon
  <2> HIDE DEF s
  <2>2. /\ Tail(s) \in Seq(Char) /\ Len(Tail(s)) = Count - 1
        /\ \A i \in 1 .. Count - 1 : Tail(s)[i] = s[i + 1]
    BY <2>1, HeadTailProperties, Zenon
  <2> QED BY <2>2, Zenon DEF s
<1>9. ASSUME NEW i \in 1 .. Count - 1
      PROVE  Queue'[i] = Tail(Queue)[i]
  <2>1. i - 1 \in 0 .. N - 1 /\ (i - 1) + 1 = i /\ (i + 1) - 1 = i /\ i + 1 \in 1 .. Count
    BY <1>0, <1>2, <1>4, SMTT(60)
  <2>2. Queue'[i] = kbd_stack[Place(i - 1)']
    BY <1>2, <1>5, Zenon
  <2>3. Place(i - 1)' = Place(i)
    BY <1>3, <2>1, Zenon
  <2>4. Queue[i + 1] = kbd_stack[Place(i)]
    BY <1>4, <2>1, Zenon
  <2> QED BY <1>8, <2>2, <2>3, <2>4, ZenonT(60)
<1>10. Queue' = Tail(Queue)
  <2> DEFINE s == Queue'
             t == Tail(Queue)
  <2>1. s \in Seq(Char) /\ t \in Seq(Char) /\ Len(s) = Len(t)
    BY <1>2, <1>5, <1>8, Zenon
  <2>2. \A i \in 1 .. Len(s) : s[i] = t[i]
    BY <1>2, <1>5, <1>9, Zenon
  <2> HIDE DEF s, t
  <2> QED BY <2>1, <2>2, SeqEqual, Zenon DEF s, t
<1>11. ASSUME NEW i \in 0 .. Count' - 1
       PROVE  kbd_stack'[Place(i)'] # NUL
  <2>1. i \in 0 .. N - 1 /\ i + 1 \in 0 .. Count - 1
    BY <1>0, <1>2, <1>4, SMTT(60)
  <2> QED BY <1>3, <2>1, Zenon DEF RingInv
<1> QED BY <1>6, <1>7, <1>10, <1>11, ZenonT(60)

\* kbd_pop takes the oldest key, and is a step of the FIFO.
LEMMA kbd_popStep ==
    ASSUME RingInv, kbd_pop
    PROVE  RingInv' /\ UNCHANGED <<Queue, Hand>>
<1>1. /\ pop = "idle" /\ kbd_tail # kbd_head /\ pop' = "read and advance" /\ slot' = kbd_tail
      /\ UNCHANGED <<kbd_stack, kbd_head, kbd_tail, k_char, data>>
  BY Zenon DEF kbd_pop, ring
<1>2. UNCHANGED <<Queue, Count>> /\ \A i : Place(i)' = Place(i)
  BY <1>1, Zenon DEF Queue, Queued, Count, Place
<1>3. Hand' = Hand
  BY <1>1, Zenon DEF Hand
<1>4. RingInv'
  BY <1>1, <1>2, ZenonT(60) DEF RingInv, RingType
<1> QED BY <1>2, <1>3, <1>4, Zenon

\* Reading the slot is invisible in either order: before the tail moves the key
\* still counts as queued, afterwards it is in the reader's hand already.
LEMMA kbd_pop_readStep ==
    ASSUME RingInv, kbd_pop_read
    PROVE  RingInv' /\ UNCHANGED <<Queue, Hand>>
<1>1. /\ pop \in {"read and advance", "read"} /\ data' = kbd_stack[slot]
      /\ pop' = IF pop = "read" THEN "done" ELSE "advance"
      /\ UNCHANGED <<kbd_stack, kbd_head, kbd_tail, k_char, slot>>
  BY Zenon DEF kbd_pop_read, ring
<1>2. UNCHANGED <<Queue, Count>> /\ \A i : Place(i)' = Place(i)
  BY <1>1, Zenon DEF Queue, Queued, Count, Place
<1>3. Hand' = Hand
  BY <1>1, Zenon DEF Hand
<1>4. RingInv'
  BY <1>1, <1>2, Zenon DEF RingInv, RingType
<1> QED BY <1>2, <1>3, <1>4, Zenon

\* Storing the new tail is the step that takes the key.
LEMMA kbd_pop_advanceStep ==
    ASSUME RingInv, kbd_pop_advance
    PROVE  RingInv' /\ Fifo!Get
<1>1. /\ pop \in {"read and advance", "advance"} /\ kbd_tail' = After(kbd_tail)
      /\ pop' = IF pop = "advance" THEN "done" ELSE "read"
      /\ UNCHANGED <<kbd_stack, kbd_head, k_char, slot, data>>
  BY Zenon DEF kbd_pop_advance
<1>2. slot = kbd_tail /\ kbd_tail # kbd_head /\ RingType
  BY <1>1, Zenon DEF RingInv
<1>3. kbd_tail' \in Slot
  BY <1>1, <1>2, AfterIs, Zenon DEF RingType
<1>4. RingType'
  BY <1>1, <1>2, <1>3, Zenon DEF RingType
<1>5. /\ Queue # <<>> /\ Head(Queue) = kbd_stack[kbd_tail] /\ Queue' = Tail(Queue)
      /\ kbd_stack[kbd_tail] # NUL
      /\ \A i \in 0 .. Count' - 1 : kbd_stack'[Place(i)'] # NUL
  BY <1>1, <1>2, <1>4, Advanced, ZenonT(60)
<1>6. After(slot)' = kbd_tail'
  BY <1>1, <1>2, Zenon DEF After
<1>7. RingInv'
  BY <1>1, <1>2, <1>4, <1>5, <1>6, ZenonT(60) DEF RingInv
<1>8. Hand = NUL /\ Hand' = kbd_stack[kbd_tail]
  BY <1>1, <1>2, Zenon DEF Hand, RingInv
<1> QED BY <1>5, <1>7, <1>8, ZenonT(60) DEF Fifo!Get

\* Handing the key to the caller is the FIFO's Deliver.
LEMMA kbd_pop_returnStep ==
    ASSUME RingInv, kbd_pop_return
    PROVE  RingInv' /\ Fifo!Deliver
<1>1. /\ pop = "done" /\ pop' = "idle"
      /\ UNCHANGED <<kbd_stack, kbd_head, kbd_tail, k_char, slot, data>>
  BY Zenon DEF kbd_pop_return, ring
<1>2. UNCHANGED <<Queue, Count>> /\ \A i : Place(i)' = Place(i)
  BY <1>1, Zenon DEF Queue, Queued, Count, Place
<1>3. Hand = data /\ Hand' = NUL
  BY <1>1, Zenon DEF Hand
<1>4. RingInv'
  BY <1>1, <1>2, Zenon DEF RingInv, RingType
<1> QED BY <1>1, <1>2, <1>3, <1>4, Zenon DEF Fifo!Deliver, RingInv

-----------------------------------------------------------------------------
(* The ring implements the FIFO.                                           *)

\* The ring starts empty, as the FIFO does.
LEMMA InitRing == Init => RingInv /\ Fifo!Init
<1> SUFFICES ASSUME Init PROVE RingInv /\ Fifo!Init
  BY Zenon
<1>1. RingType
  BY KeyboardAssumption DEF Init, RingType, Slot
<1>2. Count = 0 /\ 0 .. Count - 1 = {}
  BY DEF Init, Count
<1>3. RingInv
  BY <1>1, <1>2, Zenon DEF Init, RingInv
<1>4. Queue \in Seq(Char) /\ Len(Queue) = 0
  BY <1>1, <1>2, QueueIs, Zenon DEF QueueByPlace
<1>5. Queue = <<>>
  <2> HIDE DEF Queue
  <2> QED BY <1>4, EmptySeq, Zenon
<1> QED BY <1>3, <1>5, Zenon DEF Init, Hand, Fifo!Init

\* Every step of the driver keeps the ring and is a step or a stutter of the FIFO.
LEMMA NextRing == RingInv /\ [Next]_vars => RingInv' /\ [Fifo!Next]_<<Queue, Hand>>
<1> SUFFICES ASSUME RingInv, [Next]_vars
             PROVE  RingInv' /\ [Fifo!Next]_<<Queue, Hand>>
  BY Zenon
<1>1. CASE UNCHANGED vars
  <2>1. UNCHANGED <<kbd_stack, kbd_head, kbd_tail, k_char, pop, slot, data>>
    BY <1>1, Zenon DEF vars, ring
  <2>2. UNCHANGED <<Queue, Hand, Count>> /\ \A i : Place(i)' = Place(i)
    BY <2>1, Zenon DEF Queue, Queued, Hand, Count, Place
  <2>3. RingInv'
    BY <2>1, <2>2, Zenon DEF RingInv, RingType, After
  <2> QED BY <2>2, <2>3, Zenon
<1>2. CASE \E ready \in BOOLEAN, code \in Make \cup Break : keyboard_handler(ready, code)
  BY <1>2, Handled, Zenon
<1>3. CASE kbd_pop \/ kbd_pop_read
  BY <1>3, kbd_popStep, kbd_pop_readStep, ZenonT(60)
<1>4. CASE kbd_pop_advance
  BY <1>4, kbd_pop_advanceStep, Zenon DEF Fifo!Next
<1>5. CASE kbd_pop_return
  BY <1>5, kbd_pop_returnStep, Zenon DEF Fifo!Next
<1> QED BY <1>1, <1>2, <1>3, <1>4, <1>5, ZenonT(60) DEF Next

\* The ring never writes the slot that kbd_pop has yet to read, and never holds a
\* NUL among the queued keys.
THEOREM RingIsCoherent == Spec => []RingInv
<1>1. RingInv /\ [Next]_vars => RingInv'
  BY NextRing, Zenon
<1> QED BY <1>1, InitRing, PTL DEF Spec

\* kbd_push and kbd_pop implement a FIFO of KBD_STACK_SIZE - 1 keys, for every
\* ring size, in either order of kbd_pop's two accesses and with interrupts
\* between them.
THEOREM RingIsFifo == Spec => FifoSpec
<1>1. Init => Fifo!Init
  BY InitRing, Zenon
<1>2. RingInv /\ [Next]_vars => [Fifo!Next]_<<Queue, Hand>>
  BY NextRing, Zenon
<1> QED BY <1>1, <1>2, RingIsCoherent, PTL DEF Spec, FifoSpec, Fifo!Spec

-----------------------------------------------------------------------------
(* The shell drives the keyboard driver.                                   *)

\* Every step of the composition is a step of the keyboard driver or leaves the
\* driver alone.
LEMMA DriverSteps == [InputNext]_inputVars => [Next]_vars
<1> SUFFICES ASSUME [InputNext]_inputVars PROVE [Next]_vars
  BY Zenon
<1>1. CASE UNCHANGED inputVars
  BY <1>1, Zenon DEF inputVars
<1>2. CASE irq1
  BY <1>2, Zenon DEF irq1, Next
<1>3. CASE in_kbd_pop
  BY <1>3, Zenon DEF in_kbd_pop, Next
<1>4. CASE key_read
  BY <1>4, Zenon DEF key_read, Returns, Next
<1>5. CASE readline \/ elsewhere \/ others
  BY <1>5, Zenon DEF readline, elsewhere, others
<1> QED BY <1>1, <1>2, <1>3, <1>4, <1>5, ZenonT(60) DEF InputNext, ShellProcess

\* With the shell as its reader and interrupts at any time the driver keeps to
\* its own specification.
LEMMA DriverRuns == InputSpec => Spec
<1>1. InputInit => Init
  BY Zenon DEF InputInit
<1> QED BY <1>1, DriverSteps, PTL DEF InputSpec, Spec

\* Between the keyboard interrupt and vsh_readline the ring is a FIFO, whatever
\* its size and however the shell, the other processes and IRQ1 interleave.
THEOREM KeysArriveInOrder == InputSpec => FifoSpec
  BY DriverRuns, RingIsFifo, PTL

-----------------------------------------------------------------------------
(* The edited line, key by key.                                            *)

\* f gives the line after each prefix of ks.
Edits(ks, n, f) ==
    f = [i \in 0 .. n |-> IF i = 0 THEN <<>> ELSE S!EditKey(f[i - 1], ks[i])]

\* The history of edits that Edited chooses exists for every sequence of keys.
LEMMA EditsExist ==
    ASSUME NEW ks
    PROVE  \A n \in Nat : \E f : Edits(ks, n, f)
<1> DEFINE Ok == {n \in Nat : \E f : Edits(ks, n, f)}
<1>1. 0 \in Ok
  <2>1. Edits(ks, 0, [i \in 0 .. 0 |-> <<>>])
    BY DEF Edits
  <2> QED BY <2>1, Zenon
<1>2. ASSUME NEW n \in Ok PROVE n + 1 \in Ok
  <2>1. n \in Nat /\ \E f : Edits(ks, n, f)
    BY <1>2, Zenon
  <2>2. PICK f : Edits(ks, n, f)
    BY <2>1, Zenon
  <2>3. \A i \in 0 .. n : f[i] = IF i = 0 THEN <<>> ELSE S!EditKey(f[i - 1], ks[i])
    BY <2>2, Zenon DEF Edits
  <2> DEFINE g == [i \in 0 .. n + 1 |->
                      IF i = n + 1 THEN S!EditKey(f[n], ks[n + 1]) ELSE f[i]]
  <2>4. ASSUME NEW i \in 0 .. n + 1
        PROVE  g[i] = IF i = 0 THEN <<>> ELSE S!EditKey(g[i - 1], ks[i])
    <3>1. CASE i = n + 1
      BY <2>1, <3>1, SMTT(60)
    <3>2. CASE i \in 0 .. n
      <4>1. g[i] = f[i] /\ (i # 0 => i - 1 \in 0 .. n + 1 /\ g[i - 1] = f[i - 1])
        BY <2>1, <3>2, SMTT(60)
      <4> QED BY <2>3, <3>2, <4>1, ZenonT(60)
    <3>3. i = n + 1 \/ i \in 0 .. n
      BY <2>1, SMTT(60)
    <3> QED BY <3>1, <3>2, <3>3, ZenonT(60)
  <2>5. Edits(ks, n + 1, g)
    BY <2>4, Zenon DEF Edits
  <2> QED BY <2>1, <2>5, SMTT(60)
<1>3. Ok \in SUBSET Nat
  BY Zenon
<1> HIDE DEF Ok
<1>4. Ok = Nat
  BY <1>1, <1>2, <1>3, SetInduction, ZenonT(60)
<1> QED BY <1>4, Zenon DEF Ok

\* Edited is the last line of that history.
LEMMA EditedIs ==
    ASSUME NEW ks \in Seq(Char)
    PROVE  \E f : Edits(ks, Len(ks), f) /\ S!Edited(ks) = f[Len(ks)]
<1> DEFINE f == CHOOSE after : Edits(ks, Len(ks), after)
<1>1. Edits(ks, Len(ks), f)
  BY EditsExist
<1>2. S!Edited(ks) = f[Len(ks)]
  BY Zenon DEF S!Edited, Edits
<1> HIDE DEF f
<1> QED BY <1>1, <1>2, Zenon

\* The line after one more key.
LEMMA EditedGrows ==
    /\ S!Edited(<<>>) = <<>>
    /\ \A ks \in Seq(Char), ch \in Char :
           S!Edited(Append(ks, ch)) = S!EditKey(S!Edited(ks), ch)
<1>1. S!Edited(<<>>) = <<>>
  <2>1. PICK f : Edits(<<>>, 0, f) /\ S!Edited(<<>>) = f[0]
    <3>1. <<>> \in Seq(Char) /\ Len(<<>>) = 0
      BY EmptySeq, Zenon
    <3> QED BY <3>1, EditedIs, Zenon
  <2> QED BY <2>1 DEF Edits
<1>2. ASSUME NEW ks \in Seq(Char), NEW ch \in Char
      PROVE  S!Edited(Append(ks, ch)) = S!EditKey(S!Edited(ks), ch)
  <2> DEFINE n == Len(ks)
             us == Append(ks, ch)
  <2>1. /\ n \in Nat /\ us \in Seq(Char) /\ Len(us) = n + 1 /\ us[n + 1] = ch
        /\ \A i \in 1 .. n : us[i] = ks[i]
    BY AppendProperties, SMTT(60)
  <2>2. PICK f : Edits(ks, n, f) /\ S!Edited(ks) = f[n]
    BY EditedIs, Zenon
  <2> HIDE DEF n, us
  <2>3. PICK g : Edits(us, n + 1, g) /\ S!Edited(us) = g[n + 1]
    BY <2>1, EditedIs, ZenonT(60)
  <2> DEFINE Ok == {m \in Nat : m <= n => f[m] = g[m]}
  <2>4. 0 \in Ok
    BY <2>1, <2>2, <2>3, SMTT(60) DEF Edits
  <2>5. ASSUME NEW m \in Ok PROVE m + 1 \in Ok
    <3> SUFFICES ASSUME m + 1 <= n PROVE f[m + 1] = g[m + 1]
      OBVIOUS
    <3>1. m \in Nat /\ f[m] = g[m] /\ m + 1 \in 1 .. n
      BY <2>1, SMTT(60)
    <3>2. f[m + 1] = S!EditKey(f[m], ks[m + 1])
      BY <2>1, <2>2, <3>1, SMTT(60) DEF Edits
    <3>3. g[m + 1] = S!EditKey(g[m], us[m + 1])
      BY <2>1, <2>3, <3>1, SMTT(60) DEF Edits
    <3> QED BY <2>1, <3>1, <3>2, <3>3, ZenonT(60)
  <2>6. Ok \in SUBSET Nat
    BY Zenon
  <2> HIDE DEF Ok
  <2>7. Ok = Nat
    BY <2>4, <2>5, <2>6, SetInduction, ZenonT(60)
  <2>8. f[n] = g[n]
    BY <2>1, <2>7, SMTT(60) DEF Ok
  <2>9. g[n + 1] = S!EditKey(g[n], ch)
    BY <2>1, <2>3, SMTT(60) DEF Edits
  <2> QED BY <2>2, <2>3, <2>8, <2>9, ZenonT(60) DEF us
<1> QED BY <1>1, <1>2, Zenon

-----------------------------------------------------------------------------
(* The line.                                                               *)

\* The line in the buffer is the edited one.
LineIs(l, p, b) ==
    /\ l \in Seq(Letter) /\ Len(l) = p
    /\ \A i \in 1 .. p : b[i - 1] = l[i]

LineInv ==
    /\ pc \in {"prompt", "read", "parse", "yield", "halted"}
    /\ pc # "halted" => held = IF pc \in {"read", "parse"} THEN 1 ELSE 0
    /\ pc \in {"read", "parse"} =>
           /\ pos \in Nat /\ bufsize \in Nat /\ pos < bufsize
           /\ typed \in Seq(Char)
           /\ DOMAIN buffer = S!Offsets(bufsize)
           /\ LineIs(S!Edited(typed), pos, buffer)
    /\ pc = "parse" => buffer[pos] = NUL

\* NUL and the control characters are no letters.
LEMMA Constants ==
    /\ VSH_CMD_BUFFER_SIZE \in Nat \ {0}
    /\ NUL \notin Letter /\ NEWLINE \notin Letter /\ RETURN \notin Letter /\ BACKSPACE \notin Letter
    /\ BACKSPACE # NEWLINE /\ BACKSPACE # RETURN
  BY InputAssumption, ZenonT(60) DEF S!ShellConstants

\* readline starts with an empty line in a new buffer.
LEMMA readlineKeeps ==
    ASSUME LineInv, S!readline
    PROVE  LineInv'
<1>1. /\ pc = "prompt" /\ pc' = "read" /\ bufsize' = VSH_CMD_BUFFER_SIZE /\ pos' = 0
      /\ buffer' = [i \in S!Offsets(VSH_CMD_BUFFER_SIZE) |-> S!Garbage]
      /\ held' = held + 1 /\ typed' = <<>>
  BY Zenon DEF S!readline, S!At
<1>2. held' = 1 /\ typed' \in Seq(Char) /\ DOMAIN buffer' = S!Offsets(bufsize')
  BY <1>1, SMTT(60) DEF LineInv
<1>3. S!Edited(typed') = <<>>
  BY <1>1, EditedGrows, ZenonT(60)
<1>4. LineIs(<<>>, 0, buffer')
  <2>1. \A i \in 1 .. 0 : FALSE
    OBVIOUS
  <2> QED BY <2>1, SMTT(60) DEF LineIs
<1> QED BY <1>1, <1>2, <1>3, <1>4, Constants, SMTT(60) DEF LineInv

\* Enter: the NUL goes right behind the line, and the edited line stays.
LEMMA read_enterKeeps ==
    ASSUME LineInv, NEW ch \in Char, S!read_enter(ch)
    PROVE  LineInv'
<1> DEFINE l == S!Edited(typed)
<1>1. /\ pc = "read" /\ pc' = "parse" /\ typed' = Append(typed, ch) /\ ch \in {NEWLINE, RETURN}
      /\ buffer' = [buffer EXCEPT ![pos] = NUL] /\ UNCHANGED <<bufsize, pos, held>>
  BY Zenon DEF S!read_enter, S!Take, S!At
<1>2. /\ pos \in Nat /\ bufsize \in Nat /\ pos < bufsize /\ typed \in Seq(Char) /\ held = 1
      /\ DOMAIN buffer = S!Offsets(bufsize) /\ LineIs(l, pos, buffer)
  BY <1>1, ZenonT(60) DEF LineInv
<1>3. typed' \in Seq(Char) /\ S!Edited(typed') = l
  BY <1>1, <1>2, EditedGrows, Constants, SMTT(60) DEF S!EditKey
<1> HIDE DEF l
<1>5. pos \in DOMAIN buffer /\ DOMAIN buffer' = DOMAIN buffer /\ buffer'[pos] = NUL
  BY <1>1, <1>2, SMTT(60) DEF S!Offsets
<1>6. \A i \in 1 .. pos : buffer'[i - 1] = buffer[i - 1]
  BY <1>1, <1>2, SMTT(60) DEF S!Offsets
<1>7. LineIs(l, pos, buffer')
  BY <1>2, <1>6, ZenonT(60) DEF LineIs
<1> QED BY <1>1, <1>2, <1>3, <1>5, <1>7, ZenonT(60) DEF LineInv

\* Backspace takes the last character off, if there is one.
LEMMA read_backspaceKeeps ==
    ASSUME LineInv, NEW ch \in Char, S!read_backspace(ch)
    PROVE  LineInv'
<1> DEFINE l == S!Edited(typed)
           m == IF l # <<>> THEN SubSeq(l, 1, Len(l) - 1) ELSE l
<1>1. /\ pc = "read" /\ typed' = Append(typed, ch) /\ ch = BACKSPACE
      /\ pos' = IF pos > 0 THEN pos - 1 ELSE pos
      /\ UNCHANGED <<pc, buffer, bufsize, held>>
  BY Zenon DEF S!read_backspace, S!Take, S!At
<1>2. /\ pos \in Nat /\ bufsize \in Nat /\ pos < bufsize /\ typed \in Seq(Char) /\ held = 1
      /\ DOMAIN buffer = S!Offsets(bufsize) /\ LineIs(l, pos, buffer)
  BY <1>1, ZenonT(60) DEF LineInv
<1>3. typed' \in Seq(Char) /\ S!Edited(typed') = m
  BY <1>1, <1>2, EditedGrows, Constants, SMTT(60) DEF S!EditKey
<1> HIDE DEF l
<1>4. LineIs(m, pos', buffer)
  <2>1. /\ l \in Seq(Letter) /\ Len(l) = pos /\ \A i \in 1 .. pos : buffer[i - 1] = l[i]
    BY <1>2, Zenon DEF LineIs
  <2>2. CASE pos = 0
    <3>1. l = <<>>
      BY <2>1, <2>2, EmptySeq, ZenonT(60)
    <3> QED BY <1>1, <2>1, <2>2, <3>1, SMTT(60) DEF LineIs
  <2>3. CASE pos > 0
    <3>1. l # <<>> /\ m = SubSeq(l, 1, pos - 1) /\ pos' = pos - 1
      BY <1>1, <2>1, <2>3, SMTT(60)
    <3>2. \A i \in 1 .. pos - 1 : l[i] \in Letter
      BY <1>2, <2>1, SMTT(60)
    <3>3. /\ m \in Seq(Letter) /\ Len(m) = pos - 1
          /\ \A i \in 1 .. pos - 1 : m[i] = l[i]
      <4> HIDE DEF m
      <4>1. /\ m \in Seq(Letter) /\ Len(m) = IF 1 <= pos - 1 THEN pos - 1 - 1 + 1 ELSE 0
            /\ \A i \in 1 .. pos - 1 - 1 + 1 : m[i] = l[1 + i - 1]
        BY <1>2, <3>1, <3>2, SubSeqProperties, SMTT(60)
      <4> QED BY <1>2, <2>3, <4>1, SMTT(60)
    <3> QED BY <1>2, <2>1, <3>1, <3>3, SMTT(60) DEF LineIs
  <2> QED BY <1>2, <2>2, <2>3, SMTT(60)
<1>5. pos' \in Nat /\ pos' < bufsize
  BY <1>1, <1>2, SMTT(60)
<1> HIDE DEF m
<1> QED BY <1>1, <1>2, <1>3, <1>4, <1>5, ZenonT(60) DEF LineInv

\* A letter is written at pos, in a buffer that has grown if it had to and kept
\* its content.
LEMMA read_letterKeeps ==
    ASSUME LineInv, NEW ch \in Char, S!read_letter(ch)
    PROVE  LineInv'
<1> DEFINE l == S!Edited(typed)
<1>1. /\ pc = "read" /\ typed' = Append(typed, ch) /\ ch \in Letter
      /\ buffer' = [S!Grown EXCEPT ![pos] = ch] /\ bufsize' = S!NewSize /\ pos' = pos + 1
      /\ UNCHANGED <<pc, held>>
  BY Zenon DEF S!read_letter, S!Take, S!At
<1>2. /\ pos \in Nat /\ bufsize \in Nat /\ pos < bufsize /\ typed \in Seq(Char) /\ held = 1
      /\ DOMAIN buffer = S!Offsets(bufsize) /\ LineIs(l, pos, buffer)
  BY <1>1, ZenonT(60) DEF LineInv
<1>3. typed' \in Seq(Char) /\ S!Edited(typed') = Append(l, ch)
  BY <1>1, <1>2, EditedGrows, Constants, SMTT(60) DEF S!EditKey
<1> HIDE DEF l
<1>4. bufsize' \in Nat /\ bufsize <= bufsize' /\ pos + 1 < bufsize'
  BY <1>1, <1>2, Constants, SMTT(60) DEF S!NewSize, S!Room
<1>5. DOMAIN buffer' = S!Offsets(bufsize') /\ buffer'[pos] = ch
  BY <1>1, <1>2, <1>4, SMTT(60) DEF S!Grown, S!Offsets
<1>6. \A i \in 1 .. pos : buffer'[i - 1] = buffer[i - 1]
  BY <1>1, <1>2, <1>4, SMTT(60) DEF S!Grown, S!Offsets
<1>7. LineIs(Append(l, ch), pos + 1, buffer')
  <2>1. /\ l \in Seq(Letter) /\ Len(l) = pos /\ \A i \in 1 .. pos : buffer[i - 1] = l[i]
    BY <1>2, Zenon DEF LineIs
  <2>2. /\ Append(l, ch) \in Seq(Letter) /\ Len(Append(l, ch)) = pos + 1
        /\ \A i \in 1 .. pos : Append(l, ch)[i] = l[i]
        /\ Append(l, ch)[pos + 1] = ch
    BY <1>1, <2>1, AppendProperties, SMTT(60)
  <2>3. \A i \in 1 .. pos + 1 : i \in 1 .. pos \/ (i = pos + 1 /\ i - 1 = pos)
    BY <1>2, SMTT(60)
  <2>4. ASSUME NEW i \in 1 .. pos + 1
        PROVE  buffer'[i - 1] = Append(l, ch)[i]
    BY <1>5, <1>6, <2>1, <2>2, <2>3, ZenonT(60)
  <2> QED BY <2>2, <2>4, ZenonT(60) DEF LineIs
<1> QED BY <1>1, <1>2, <1>3, <1>4, <1>5, <1>7, SMTT(60) DEF LineInv

\* A letter for which the larger buffer cannot be had ends the line, and its
\* buffer is released.
LEMMA read_letter_failsKeeps ==
    ASSUME LineInv, NEW ch \in Char, S!read_letter_fails(ch)
    PROVE  LineInv'
<1>1. pc = "read" /\ held' = held - 1 /\ pc' = "yield"
  BY Zenon DEF S!read_letter_fails, S!Take, S!At
<1> QED BY <1>1, SMTT(60) DEF LineInv

\* A key that is no character changes nothing.
LEMMA read_nothingKeeps ==
    ASSUME LineInv, NEW ch \in Char, S!read_nothing(ch)
    PROVE  LineInv'
<1>1. UNCHANGED <<pc, buffer, bufsize, pos, held, typed>>
  BY Zenon DEF S!read_nothing, S!line, S!ghosts
<1> QED BY <1>1, Zenon DEF LineInv

\* The string that cmd_parser sees ends at the NUL that Enter wrote.
LEMMA CommandIs ==
    ASSUME LineInv, pc = "parse"
    PROVE  S!Command = S!Edited(typed)
<1> DEFINE l == S!Edited(typed)
           Ends(n) == /\ \A i \in S!Offsets(n) : buffer[i] # NUL
                      /\ n = bufsize \/ buffer[n] = NUL
<1>1. /\ pos \in Nat /\ bufsize \in Nat /\ pos < bufsize /\ LineIs(l, pos, buffer)
      /\ buffer[pos] = NUL
  BY Zenon DEF LineInv
<1> HIDE DEF l
<1>2. /\ l \in Seq(Letter) /\ Len(l) = pos /\ \A i \in 1 .. pos : buffer[i - 1] = l[i]
  BY <1>1, Zenon DEF LineIs
<1>3. ASSUME NEW i \in S!Offsets(pos) PROVE buffer[i] # NUL
  <2>1. i + 1 \in 1 .. pos /\ (i + 1) - 1 = i
    BY <1>1, SMTT(60) DEF S!Offsets
  <2>2. buffer[i] = l[i + 1] /\ l[i + 1] \in Letter
    BY <1>2, <2>1, SMTT(60)
  <2> QED BY <2>2, Constants, ZenonT(60)
<1>4. pos \in 0 .. bufsize /\ Ends(pos)
  BY <1>1, <1>3, SMTT(60)
<1>5. ASSUME NEW n \in 0 .. bufsize, Ends(n) PROVE n = pos
  <2>1. ~(pos < n)
    BY <1>1, <1>5, SMTT(60) DEF S!Offsets
  <2>2. ~(n < pos)
    <3>1. n < pos => n \in S!Offsets(pos) /\ n # bufsize
      BY <1>1, <1>5, SMTT(60) DEF S!Offsets
    <3> QED BY <1>3, <1>5, <3>1, ZenonT(60)
  <2> QED BY <1>1, <2>1, <2>2, SMTT(60)
<1>6. (CHOOSE n \in 0 .. bufsize : Ends(n)) = pos
  <2> HIDE DEF Ends
  <2> QED BY <1>4, <1>5, Zenon
<1>7. S!Command = [i \in 1 .. pos |-> buffer[i - 1]]
  BY <1>6, Zenon DEF S!Command
<1>8. l = [i \in 1 .. pos |-> l[i]]
  BY <1>2, LenProperties, ZenonT(60)
<1> QED BY <1>2, <1>7, <1>8, ZenonT(60) DEF l

\* The steps that edit no line: the command is run and its buffer released.
LEMMA ElsewhereKeeps ==
    ASSUME LineInv,
           S!readline_fails \/ S!cmd_parser \/ S!cmd_parser_panics \/ S!vsh_loop_yields \/ S!others
    PROVE  LineInv'
<1>1. CASE S!readline_fails
  BY <1>1, ZenonT(60) DEF LineInv, S!readline_fails, S!At
<1>2. CASE S!cmd_parser
  <2>1. pc = "parse" /\ (pc' = "halted" \/ (pc' = "yield" /\ held' = held - 1))
    BY <1>2, Zenon DEF S!cmd_parser, S!At
  <2> QED BY <2>1, SMTT(60) DEF LineInv
<1>3. CASE S!cmd_parser_panics
  BY <1>3, Zenon DEF LineInv, S!cmd_parser_panics
<1>4. CASE S!vsh_loop_yields
  BY <1>4, Zenon DEF LineInv, S!vsh_loop_yields, S!At
<1>5. CASE S!others
  <2>1. UNCHANGED <<pc, buffer, bufsize, pos, held, typed>>
    BY <1>5, Zenon DEF S!others, S!line, S!ghosts
  <2> QED BY <2>1, Zenon DEF LineInv
<1> QED BY <1>1, <1>2, <1>3, <1>4, <1>5, ZenonT(60)

\* The invariant of the line holds in every state.
LEMMA LineIsInductive == InputSpec => []LineInv
<1>1. InputInit => LineInv
  BY Zenon DEF InputInit, S!Init, LineInv
<1>2. LineInv /\ [InputNext]_inputVars => LineInv'
  <2> SUFFICES ASSUME LineInv, [InputNext]_inputVars PROVE LineInv'
    BY Zenon
  <2>1. ASSUME UNCHANGED shellVars PROVE LineInv'
    BY <2>1, Zenon DEF shellVars, LineInv
  <2>2. CASE UNCHANGED inputVars
    BY <2>1, <2>2, Zenon DEF inputVars
  <2>3. CASE irq1 \/ in_kbd_pop
    BY <2>1, <2>3, ZenonT(60) DEF irq1, in_kbd_pop
  <2>4. CASE key_read
    BY <2>4, read_nothingKeeps, read_enterKeeps, read_backspaceKeeps, read_letterKeeps,
       read_letter_failsKeeps, ZenonT(60) DEF key_read
  <2>5. CASE readline
    BY <2>5, readlineKeeps, Zenon DEF readline
  <2>6. CASE elsewhere \/ others
    BY <2>6, ElsewhereKeeps, Zenon DEF elsewhere, others
  <2> QED BY <2>2, <2>3, <2>4, <2>5, <2>6, ZenonT(60) DEF InputNext, ShellProcess
<1> QED BY <1>1, <1>2, PTL DEF InputSpec

\* cmd_parser is given the line as the user edited it: the fold of the keys that
\* vsh_readline took out of the ring, for every buffer size and any line length.
THEOREM CommandIsTyped == InputSpec => []CommandIsWhatWasTyped
<1>1. LineInv => CommandIsWhatWasTyped
  BY CommandIs, ZenonT(60) DEF CommandIsWhatWasTyped, S!CommandIsWhatWasTyped
<1> QED BY <1>1, LineIsInductive, PTL

\* vsh_readline and vsh_loop hold exactly one buffer while there is a line, give
\* it back on every other path, and never fill it to the last byte.
THEOREM BufferIsSound == InputSpec => []LineBufferIsSound
<1>1. LineInv => LineBufferIsSound
  BY Zenon DEF LineInv, LineBufferIsSound, S!LineBufferIsSound
<1> QED BY <1>1, LineIsInductive, PTL
=============================================================================
