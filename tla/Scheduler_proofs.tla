-------------------------- MODULE Scheduler_proofs --------------------------
(***************************************************************************)
(* The safety properties of Scheduler, for any number of processes.        *)
(*                                                                         *)
(* The inductive invariant pins down the ring by position (the processes   *)
(* are linked in the order of their pids), says for every place of the CPU *)
(* which process is RUNNING, which contexts are unused and whether         *)
(* interrupts are on, and bounds a process's wait by its distance to the   *)
(* current one along the ring.                                             *)
(***************************************************************************)
EXTENDS Scheduler, TLAPS

TaskContext == [at |-> "task", nxt |-> NULL]

\* Interrupts are on everywhere but inside switch_to and after a halt.
CpuInv ==
    /\ ~allow_sched
    /\ interrupts <=> (pc \notin {"load_new", "restore", "halted"})
    /\ pc # "restore" => stack = current

\* The ring, by position; nobody runs before the first process exists.
RingInv ==
    /\ next_pid = 1 => /\ run_queue_head = NULL /\ run_queue_tail = NULL
                       /\ current = NULL
                       /\ pc \in {"init", "create", "panic", "halted"}
    /\ next_pid > 1 => /\ run_queue_head = 1 /\ run_queue_tail = next_pid - 1
                       /\ pc \notin {"init", "create"}
                       /\ \A p \in Created : next[p] = IF p = next_pid - 1 THEN 1 ELSE p + 1

\* The successor schedule() picks.
Successor == IF current = NULL THEN 1 ELSE next[current]

DispatchInv ==
    /\ current \in Created \cup {NULL}
    /\ pc = "task" => current # NULL
    /\ pc = "start" => current = NULL
    /\ pc \in {"store ready", "store running", "switch_to", "load_new"} =>
           nxt = Successor /\ nxt \in Created /\ nxt # current
    /\ pc = "restore" => nxt = current /\ nxt \in Created

\* The process marked RUNNING, place by place.
Runner ==
    IF pc = "store running" THEN NULL
    ELSE IF pc \in {"switch_to", "load_new", "restore"} THEN nxt ELSE current

StateInv == \A p \in Created : state[p] = IF p = Runner THEN "RUNNING" ELSE "READY"

ContextInv ==
    /\ \A p \in Created : rsp[p] = TaskContext
    /\ saved = IF pc \in {"load_new", "restore"} THEN Created ELSE Created \ {current}

\* How many dispatches ago p, or a process in its place, was current.
Distance(p) ==
    IF current = NULL THEN 0
    ELSE IF p <= current THEN current - p ELSE next_pid - 1 - p + current

WaitInv ==
    /\ \A p \in Created : waited[p] <= Distance(p)
    /\ \A p \in Pid \ Created : waited[p] = 0

IInv ==
    TypeOK /\ CpuInv /\ RingInv /\ DispatchInv /\ StateInv /\ ContextInv /\ WaitInv

\* MaxProcs is a positive natural.
LEMMA ProcsPositive == MaxProcs \in Nat /\ MaxProcs >= 1
BY ProcsAssumption

\* What a state of IInv says of the pids, as plain arithmetic.
LEMMA Pids ==
    ASSUME TypeOK, DispatchInv
    PROVE  /\ next_pid \in Nat /\ 1 <= next_pid /\ next_pid <= MaxProcs + 1
           /\ current \in Nat /\ current < next_pid
           /\ nxt \in Nat /\ Created \subseteq Pid
           /\ \A p \in Pid : p \in Nat /\ 1 <= p /\ p <= MaxProcs
           /\ \A p \in Created : p \in Nat /\ 1 <= p /\ p < next_pid
<1>1. next_pid \in Nat /\ 1 <= next_pid /\ next_pid <= MaxProcs + 1
  BY ProcsPositive DEF TypeOK
<1>2. nxt \in Nat /\ current \in Nat /\ current < next_pid
  <2>1. nxt \in Pid \cup {NULL} /\ current \in Created \cup {NULL}
    BY Zenon DEF TypeOK, DispatchInv
  <2>2. QED
    BY <1>1, <2>1, ProcsPositive DEF Created, Pid, NULL
<1>3. \A p \in Pid : p \in Nat /\ 1 <= p /\ p <= MaxProcs
  BY ProcsPositive DEF Pid
<1>4. \A p \in Created : p \in Nat /\ 1 <= p /\ p < next_pid
  BY <1>1 DEF Created
<1>5. Created \subseteq Pid
  BY <1>1, ProcsPositive DEF Created, Pid
<1>6. QED
  BY <1>1, <1>2, <1>3, <1>4, <1>5, Zenon

\* The successor of a process along the ring.
LEMMA RingStep ==
    ASSUME TypeOK, RingInv, DispatchInv, NEW p \in Created
    PROVE  /\ next[p] \in Created /\ next[p] = (IF p = next_pid - 1 THEN 1 ELSE p + 1)
           /\ next_pid > 1 /\ run_queue_head = 1 /\ 1 \in Created
<1>1. p \in Nat /\ 1 <= p /\ p < next_pid /\ next_pid \in Nat
  BY Pids, Zenon
<1>2. next_pid > 1 /\ run_queue_head = 1 /\ next[p] = (IF p = next_pid - 1 THEN 1 ELSE p + 1)
  BY <1>1 DEF RingInv
<1>3. QED
  BY <1>1, <1>2 DEF Created

\* The initial state satisfies the invariant.
LEMMA InitInv == Init => IInv
<1> SUFFICES ASSUME Init PROVE IInv
  BY Zenon
<1>1. TypeOK
  <2>1. next \in [Pid -> Pid \cup {NULL}]
    BY Zenon DEF TypeOK, Init
  <2>2. state \in [Pid -> {"none", "READY", "RUNNING"}]
    BY Zenon DEF TypeOK, Init
  <2>3. rsp \in [Pid -> Context]
    BY Zenon DEF Init, Context, Places, NULL
  <2>4. run_queue_head \in Pid \cup {NULL} /\ run_queue_tail \in Pid \cup {NULL}
    BY Zenon DEF TypeOK, Init
  <2>5. next_pid \in 1 .. MaxProcs + 1
    BY ProcsPositive DEF Init
  <2>6. current \in Pid \cup {NULL} /\ nxt \in Pid \cup {NULL} /\ stack \in Pid \cup {NULL}
    BY Zenon DEF TypeOK, Init
  <2>7. allow_sched \in BOOLEAN /\ timer_fired \in BOOLEAN /\ interrupts \in BOOLEAN
    BY Zenon DEF TypeOK, Init
  <2>8. pc \in Places
    BY Zenon DEF Init, Places
  <2>9. saved \subseteq Pid
    BY Zenon DEF TypeOK, Init
  <2>10. waited \in [Pid -> Nat]
    BY Zenon DEF TypeOK, Init
  <2> QED
    BY <2>1, <2>2, <2>3, <2>4, <2>5, <2>6, <2>7, <2>8, <2>9, <2>10, Zenon DEF TypeOK
<1>2. CpuInv
  BY ProcsPositive, Zenon DEF Init, CpuInv, Pid, NULL
<1>3. RingInv
  BY ProcsPositive DEF Init, RingInv, Created, Pid, NULL
<1>4. DispatchInv
  BY ProcsPositive, Zenon DEF Init, DispatchInv, Created, Successor, Pid, NULL
<1>5. StateInv
  BY ProcsPositive DEF Init, StateInv, Runner, Created, Pid, NULL
<1>6. ContextInv
  BY ProcsPositive DEF Init, ContextInv, TaskContext, Created, Pid, NULL
<1>7. WaitInv
  BY ProcsPositive DEF Init, WaitInv, Distance, Created, Pid, NULL
<1>8. QED
  BY <1>1, <1>2, <1>3, <1>4, <1>5, <1>6, <1>7, Zenon DEF IInv

\* init_scheduler runs before any process exists.
LEMMA InitSchedulerInv == IInv /\ init_scheduler => IInv'
<1> SUFFICES ASSUME IInv, init_scheduler PROVE IInv'
  BY Zenon
<1>a. next_pid = 1 /\ current = NULL /\ nxt \in Nat
  BY Pids DEF IInv, RingInv, init_scheduler
<1>b. Created = {} /\ Created' = {} /\ current' = current /\ next_pid' = next_pid
  BY <1>a DEF Created, init_scheduler
<1>1. TypeOK'
  <2>1. (next \in [Pid -> Pid \cup {NULL}])'
    BY Zenon DEF IInv, TypeOK, init_scheduler, queue, ghosts
  <2>2. (state \in [Pid -> {"none", "READY", "RUNNING"}])'
    BY Zenon DEF IInv, TypeOK, init_scheduler, queue, ghosts
  <2>3. (rsp \in [Pid -> Context])'
    BY Zenon DEF IInv, TypeOK, init_scheduler, queue, ghosts
  <2>4. (run_queue_head \in Pid \cup {NULL} /\ run_queue_tail \in Pid \cup {NULL})'
    BY Zenon DEF IInv, TypeOK, init_scheduler, queue, ghosts
  <2>5. (next_pid \in 1 .. MaxProcs + 1)'
    BY ProcsPositive DEF init_scheduler
  <2>6. (current \in Pid \cup {NULL} /\ nxt \in Pid \cup {NULL} /\ stack \in Pid \cup {NULL})'
    BY Zenon DEF IInv, TypeOK, init_scheduler, queue, ghosts
  <2>7. (allow_sched \in BOOLEAN /\ timer_fired \in BOOLEAN /\ interrupts \in BOOLEAN)'
    BY Zenon DEF IInv, TypeOK, init_scheduler, queue, ghosts
  <2>8. (pc \in Places)'
    BY Zenon DEF IInv, TypeOK, Places, init_scheduler, panic
  <2>9. (saved \subseteq Pid)'
    BY Zenon DEF IInv, TypeOK, init_scheduler, queue, ghosts
  <2>10. (waited \in [Pid -> Nat])'
    BY Zenon DEF IInv, TypeOK, init_scheduler, queue, ghosts
  <2> QED
    BY <2>1, <2>2, <2>3, <2>4, <2>5, <2>6, <2>7, <2>8, <2>9, <2>10, Zenon DEF TypeOK
<1>2. CpuInv'
  BY <1>a, Zenon DEF IInv, init_scheduler, CpuInv
<1>3. RingInv'
  BY Pids DEF IInv, init_scheduler, queue, ghosts, RingInv, Created, NULL
<1>4. DispatchInv'
  BY <1>b, Zenon DEF init_scheduler, DispatchInv
<1>5. StateInv'
  BY <1>b, Zenon DEF StateInv
<1>6. ContextInv'
  BY <1>a, <1>b, Zenon DEF IInv, init_scheduler, ghosts, ContextInv
<1>7. WaitInv'
  BY <1>b, Zenon DEF IInv, init_scheduler, ghosts, WaitInv
<1>8. QED
  BY <1>1, <1>2, <1>3, <1>4, <1>5, <1>6, <1>7, Zenon DEF IInv

\* A failed create_process panics.
LEMMA FailInv == IInv /\ create_process_fails => IInv'
<1> SUFFICES ASSUME IInv, create_process_fails PROVE IInv'
  BY Zenon
<1>1. TypeOK'
  BY ZenonT(60) DEF IInv, TypeOK, create_process_fails, panic, queue, ghosts, Places
<1>2. CpuInv'
  BY Pids, Zenon DEF IInv, create_process_fails, panic, queue, ghosts, CpuInv, NULL
<1>3. RingInv'
  BY Pids, Zenon DEF IInv, create_process_fails, panic, queue, ghosts, RingInv, Created, NULL
<1>4. DispatchInv'
  BY Pids, Zenon DEF IInv, create_process_fails, panic, queue, ghosts, DispatchInv, Created, Successor, NULL
<1>5. StateInv'
  BY Pids, Zenon DEF IInv, create_process_fails, panic, queue, ghosts, StateInv, Runner, Created, NULL
<1>6. ContextInv'
  BY Pids, Zenon DEF IInv, create_process_fails, panic, queue, ghosts, ContextInv, TaskContext, Created, NULL
<1>7. WaitInv'
  BY Zenon DEF IInv, create_process_fails, panic, queue, ghosts, WaitInv, Distance, Created
<1>8. QED
  BY <1>1, <1>2, <1>3, <1>4, <1>5, <1>6, <1>7, Zenon DEF IInv

\* A task that returns panics.
LEMMA ReturnInv == IInv /\ task_returned => IInv'
<1> SUFFICES ASSUME IInv, task_returned PROVE IInv'
  BY Zenon
<1>1. TypeOK'
  BY DEF IInv, TypeOK, task_returned, panic, queue, ghosts, Places
<1>2. CpuInv'
  BY Pids, Zenon DEF IInv, task_returned, panic, queue, ghosts, CpuInv, NULL
<1>3. RingInv'
  BY Pids, Zenon DEF IInv, task_returned, panic, queue, ghosts, RingInv, Created, NULL
<1>4. DispatchInv'
  BY Pids, Zenon DEF IInv, task_returned, panic, queue, ghosts, DispatchInv, Created, Successor, NULL
<1>5. StateInv'
  BY Pids, Zenon DEF IInv, task_returned, panic, queue, ghosts, StateInv, Runner, Created, NULL
<1>6. ContextInv'
  BY Pids, Zenon DEF IInv, task_returned, panic, queue, ghosts, ContextInv, TaskContext, Created, NULL
<1>7. WaitInv'
  BY Zenon DEF IInv, task_returned, panic, queue, ghosts, WaitInv, Distance, Created
<1>8. QED
  BY <1>1, <1>2, <1>3, <1>4, <1>5, <1>6, <1>7, Zenon DEF IInv

\* The end of a panic.
LEMMA HaltInv == IInv /\ halt => IInv'
<1> SUFFICES ASSUME IInv, halt PROVE IInv'
  BY Zenon
<1>1. TypeOK'
  BY Zenon DEF IInv, TypeOK, halt, queue, ghosts, Places
<1>2. CpuInv'
  BY Pids, Zenon DEF IInv, halt, queue, ghosts, CpuInv, NULL
<1>3. RingInv'
  BY Pids, Zenon DEF IInv, halt, queue, ghosts, RingInv, Created, NULL
<1>4. DispatchInv'
  BY Pids, Zenon DEF IInv, halt, queue, ghosts, DispatchInv, Created, Successor, NULL
<1>5. StateInv'
  BY Pids, Zenon DEF IInv, halt, queue, ghosts, StateInv, Runner, Created, NULL
<1>6. ContextInv'
  BY Pids, Zenon DEF IInv, halt, queue, ghosts, ContextInv, TaskContext, Created, NULL
<1>7. WaitInv'
  BY Zenon DEF IInv, halt, queue, ghosts, WaitInv, Distance, Created
<1>8. QED
  BY <1>1, <1>2, <1>3, <1>4, <1>5, <1>6, <1>7, Zenon DEF IInv

\* schedule() picks the successor, or returns.
LEMMA ScheduleInv == IInv /\ schedule => IInv'
<1> SUFFICES ASSUME IInv, schedule PROVE IInv'
  BY Zenon
<1>a. current \in Created /\ current # NULL /\ pc = "task"
  BY Zenon DEF IInv, DispatchInv, schedule
<1>b. next[current] \in Created /\ next_pid > 1 /\ run_queue_head = 1
  BY <1>a, RingStep, Zenon DEF IInv
<1>c. \/ nxt' = NULL /\ pc' = "task"
      \/ nxt' = next[current] /\ next[current] # current /\ pc' = "store ready"
  BY <1>a, <1>b, Pids, Zenon DEF IInv, schedule, Choice, NULL
<1>d. UNCHANGED <<queue, state, rsp, current, allow_sched, timer_fired, stack, interrupts, ghosts>>
  BY Zenon DEF schedule
<1>1. TypeOK'
  <2>1. (next \in [Pid -> Pid \cup {NULL}])'
    BY Zenon DEF IInv, TypeOK, schedule, Choice, queue, ghosts
  <2>2. (state \in [Pid -> {"none", "READY", "RUNNING"}])'
    BY Zenon DEF IInv, TypeOK, schedule, Choice, queue, ghosts
  <2>3. (rsp \in [Pid -> Context])'
    BY Zenon DEF IInv, TypeOK, schedule, Choice, queue, ghosts
  <2>4. (run_queue_head \in Pid \cup {NULL} /\ run_queue_tail \in Pid \cup {NULL})'
    BY Zenon DEF IInv, TypeOK, schedule, Choice, queue, ghosts
  <2>5. (next_pid \in 1 .. MaxProcs + 1)'
    BY Zenon DEF IInv, TypeOK, schedule, Choice, queue, ghosts
  <2>6. (current \in Pid \cup {NULL} /\ nxt \in Pid \cup {NULL} /\ stack \in Pid \cup {NULL})'
    BY <1>b, <1>c, <1>d, Pids, Zenon DEF IInv, TypeOK
  <2>7. (allow_sched \in BOOLEAN /\ timer_fired \in BOOLEAN /\ interrupts \in BOOLEAN)'
    BY Zenon DEF IInv, TypeOK, schedule, Choice, queue, ghosts
  <2>8. (pc \in Places)'
    BY <1>c, Zenon DEF Places
  <2>9. (saved \subseteq Pid)'
    BY Zenon DEF IInv, TypeOK, schedule, Choice, queue, ghosts
  <2>10. (waited \in [Pid -> Nat])'
    BY Zenon DEF IInv, TypeOK, schedule, Choice, queue, ghosts
  <2> QED
    BY <2>1, <2>2, <2>3, <2>4, <2>5, <2>6, <2>7, <2>8, <2>9, <2>10, Zenon DEF TypeOK
<1>2. CpuInv'
  BY <1>a, <1>c, <1>d, Zenon DEF IInv, queue, ghosts, CpuInv
<1>3. RingInv'
  <2>1. next_pid \in Nat /\ next_pid # 1
    BY <1>b, Pids DEF IInv
  <2>2. pc' \notin {"init", "create"}
    BY <1>c, Zenon
  <2>3. QED
    BY <1>b, <1>d, <2>1, <2>2, Zenon DEF IInv, queue, RingInv, Created
<1>4. DispatchInv'
  BY <1>a, <1>b, <1>c, <1>d, Zenon DEF queue, DispatchInv, Created, Successor
<1>5. StateInv'
  BY <1>a, <1>c, <1>d, Zenon DEF IInv, queue, ghosts, StateInv, Runner, Created
<1>6. ContextInv'
  BY <1>a, <1>c, <1>d, Zenon DEF IInv, queue, ghosts, ContextInv, Created
<1>7. WaitInv'
  BY <1>d, Zenon DEF IInv, queue, ghosts, WaitInv, Created, Distance
<1>8. QED
  BY <1>1, <1>2, <1>3, <1>4, <1>5, <1>6, <1>7, Zenon DEF IInv

\* scheduler_start dispatches the first process.
LEMMA StartInv == IInv /\ scheduler_start => IInv'
<1> SUFFICES ASSUME IInv, scheduler_start PROVE IInv'
  BY Zenon
<1>a. current = NULL /\ pc = "start" /\ next_pid > 1 /\ run_queue_head = 1 /\ 1 \in Created
  <2>1. current = NULL /\ pc = "start"
    BY Zenon DEF IInv, DispatchInv, scheduler_start
  <2>2. next_pid \in Nat /\ next_pid > 1
    BY <2>1, Pids DEF IInv, RingInv
  <2>3. QED
    BY <2>1, <2>2 DEF IInv, RingInv, Created
<1>e. Choice = 1 /\ Choice # NULL
  BY <1>a DEF Choice, NULL
<1>f. run_queue_head # NULL /\ current = NULL
  BY <1>a DEF NULL
<1>b. nxt' = 1 /\ pc' = "store ready"
  BY <1>e, <1>f, Zenon DEF scheduler_start
<1>c. UNCHANGED <<queue, state, rsp, current, timer_fired, stack, interrupts, ghosts>>
  BY <1>e, <1>f, Zenon DEF scheduler_start
<1>g. allow_sched' = FALSE
  BY Zenon DEF scheduler_start
<1>1. TypeOK'
  <2>1. (next \in [Pid -> Pid \cup {NULL}])'
    BY <1>c, Zenon DEF IInv, TypeOK, queue, ghosts
  <2>2. (state \in [Pid -> {"none", "READY", "RUNNING"}])'
    BY <1>c, Zenon DEF IInv, TypeOK, queue, ghosts
  <2>3. (rsp \in [Pid -> Context])'
    BY <1>c, Zenon DEF IInv, TypeOK, queue, ghosts
  <2>4. (run_queue_head \in Pid \cup {NULL} /\ run_queue_tail \in Pid \cup {NULL})'
    BY <1>c, Zenon DEF IInv, TypeOK, queue, ghosts
  <2>5. (next_pid \in 1 .. MaxProcs + 1)'
    BY <1>c, Zenon DEF IInv, TypeOK, queue, ghosts
  <2>6. (current \in Pid \cup {NULL} /\ nxt \in Pid \cup {NULL} /\ stack \in Pid \cup {NULL})'
    BY <1>a, <1>b, <1>c, Pids, Zenon DEF IInv, TypeOK
  <2>7. (allow_sched \in BOOLEAN /\ timer_fired \in BOOLEAN /\ interrupts \in BOOLEAN)'
    BY <1>c, <1>g, Zenon DEF IInv, TypeOK
  <2>8. (pc \in Places)'
    BY <1>b, Zenon DEF Places
  <2>9. (saved \subseteq Pid)'
    BY <1>c, Zenon DEF IInv, TypeOK, queue, ghosts
  <2>10. (waited \in [Pid -> Nat])'
    BY <1>c, Zenon DEF IInv, TypeOK, queue, ghosts
  <2> QED
    BY <2>1, <2>2, <2>3, <2>4, <2>5, <2>6, <2>7, <2>8, <2>9, <2>10, Zenon DEF TypeOK
<1>2. CpuInv'
  BY <1>a, <1>b, <1>c, <1>g, Zenon DEF IInv, CpuInv
<1>3. RingInv'
  BY <1>a, <1>b, <1>c, Zenon DEF IInv, queue, ghosts, RingInv, Created
<1>4. DispatchInv'
  <2>1. Created' = Created /\ current' = NULL
    BY <1>a, <1>c, Zenon DEF queue, Created
  <2>2. nxt' = Successor' /\ nxt' \in Created' /\ nxt' # current'
    <3>1. Successor' = 1
      BY <2>1, Zenon DEF Successor
    <3>2. nxt' # current'
      <4>1. 1 # NULL
        BY DEF NULL
      <4>2. QED
        BY <1>b, <2>1, <4>1, Zenon
    <3>3. nxt' \in Created'
      BY <1>a, <1>b, <2>1, Zenon
    <3>4. QED
      BY <1>b, <3>1, <3>2, <3>3, Zenon
  <2>3. QED
    BY <1>b, <2>1, <2>2, Zenon DEF DispatchInv
<1>5. StateInv'
  <2>1. Runner' = Runner
    BY <1>a, <1>b, <1>c, Zenon DEF Runner
  <2>2. QED
    BY <2>1, <1>c, Zenon DEF IInv, StateInv, queue, Created
<1>6. ContextInv'
  BY <1>a, <1>b, <1>c, Zenon DEF IInv, queue, ghosts, ContextInv, Created
<1>7. WaitInv'
  BY <1>a, <1>b, <1>c, Zenon DEF IInv, queue, ghosts, WaitInv, Created, Distance
<1>8. QED
  BY <1>1, <1>2, <1>3, <1>4, <1>5, <1>6, <1>7, Zenon DEF IInv

\* The first store of schedule().
LEMMA StoreReadyInv == IInv /\ store_ready => IInv'
<1> SUFFICES ASSUME IInv, store_ready PROVE IInv'
  BY Zenon
<1>1. TypeOK'
  BY ZenonT(60) DEF IInv, TypeOK, store_ready, queue, ghosts, Places
<1>2. CpuInv'
  BY Pids, Zenon DEF IInv, store_ready, queue, ghosts, CpuInv, NULL
<1>3. RingInv'
  BY Pids, Zenon DEF IInv, store_ready, queue, ghosts, RingInv, Created, NULL
<1>4. DispatchInv'
  BY Pids, Zenon DEF IInv, store_ready, queue, ghosts, DispatchInv, Created, Successor, NULL
<1>5. StateInv'
  <2>1. \A p \in Created : p \in Pid /\ p # NULL
    BY Pids DEF IInv, NULL
  <2>2. \A p \in Created : state[p] = IF p = current THEN "RUNNING" ELSE "READY"
    BY Zenon DEF IInv, StateInv, Runner, store_ready
  <2>3. \A p \in Created : state'[p] = "READY"
    BY <2>1, <2>2, Zenon DEF IInv, TypeOK, store_ready
  <2>4. QED
    BY <2>1, <2>3, Zenon DEF StateInv, Runner, store_ready, queue, Created
<1>6. ContextInv'
  BY Pids, Zenon DEF IInv, store_ready, queue, ghosts, ContextInv, TaskContext, Created, NULL
<1>7. WaitInv'
  BY Zenon DEF IInv, store_ready, queue, ghosts, WaitInv, Distance, Created
<1>8. QED
  BY <1>1, <1>2, <1>3, <1>4, <1>5, <1>6, <1>7, Zenon DEF IInv

\* The second store of schedule().
LEMMA StoreRunningInv == IInv /\ store_running => IInv'
<1> SUFFICES ASSUME IInv, store_running PROVE IInv'
  BY Zenon
<1>1. TypeOK'
  BY ZenonT(60) DEF IInv, TypeOK, store_running, queue, ghosts, Places
<1>2. CpuInv'
  BY Pids, Zenon DEF IInv, store_running, queue, ghosts, CpuInv, NULL
<1>3. RingInv'
  BY Pids, Zenon DEF IInv, store_running, queue, ghosts, RingInv, Created, NULL
<1>4. DispatchInv'
  BY Pids, Zenon DEF IInv, store_running, queue, ghosts, DispatchInv, Created, Successor, NULL
<1>5. StateInv'
  <2>1. \A p \in Created : p \in Pid /\ p # NULL
    BY Pids DEF IInv, NULL
  <2>2. \A p \in Created : state[p] = "READY"
    BY <2>1, Zenon DEF IInv, StateInv, Runner, store_running
  <2>3. \A p \in Created : state'[p] = IF p = nxt THEN "RUNNING" ELSE "READY"
    BY <2>1, <2>2, Zenon DEF IInv, TypeOK, store_running
  <2>4. QED
    BY <2>3, Zenon DEF StateInv, Runner, store_running, queue, Created
<1>6. ContextInv'
  BY Pids, Zenon DEF IInv, store_running, queue, ghosts, ContextInv, TaskContext, Created, NULL
<1>7. WaitInv'
  BY Zenon DEF IInv, store_running, queue, ghosts, WaitInv, Distance, Created
<1>8. QED
  BY <1>1, <1>2, <1>3, <1>4, <1>5, <1>6, <1>7, Zenon DEF IInv

\* The outgoing context is saved with interrupts off.
LEMMA SaveInv == IInv /\ switch_to_save => IInv'
<1> SUFFICES ASSUME IInv, switch_to_save PROVE IInv'
  BY Zenon
<1>a. UNCHANGED <<queue, state, current, allow_sched, timer_fired, nxt, stack, waited>>
  BY Zenon DEF switch_to_save
<1>b. pc = "switch_to" /\ pc' = "load_new" /\ interrupts' = FALSE
  BY Zenon DEF switch_to_save
<1>c. rsp' = [p \in Pid |-> IF p = current THEN TaskContext ELSE rsp[p]]
  <2>1. \A p \in Pid : p # NULL
    BY Pids DEF IInv, NULL
  <2>2. CASE current = NULL
    BY <2>1, <2>2 DEF IInv, TypeOK, switch_to_save
  <2>3. CASE current # NULL
    BY <2>3, Zenon DEF switch_to_save, TaskContext, IInv, TypeOK
  <2>4. QED
    BY <2>2, <2>3, Zenon
<1>d. saved' = Created
  <2>1. saved = Created \ {current} /\ current \in Created \cup {NULL}
    BY <1>b, Zenon DEF IInv, ContextInv, DispatchInv
  <2>2. NULL \notin Created
    BY Pids DEF IInv, NULL
  <2>3. saved' = IF current = NULL THEN saved ELSE saved \cup {current}
    BY Zenon DEF switch_to_save
  <2>4. QED
    BY <2>1, <2>2, <2>3, Zenon
<1>1. TypeOK'
  <2>1. (next \in [Pid -> Pid \cup {NULL}])'
    BY <1>a, Zenon DEF IInv, TypeOK, queue
  <2>2. (state \in [Pid -> {"none", "READY", "RUNNING"}])'
    BY <1>a, Zenon DEF IInv, TypeOK, queue
  <2>3. (rsp \in [Pid -> Context])'
    <3>1. TaskContext \in Context
      BY Zenon DEF TaskContext, Context, Places
    <3>2. QED
      BY <1>c, <3>1, Zenon DEF IInv, TypeOK
  <2>4. (run_queue_head \in Pid \cup {NULL} /\ run_queue_tail \in Pid \cup {NULL})'
    BY <1>a, Zenon DEF IInv, TypeOK, queue
  <2>5. (next_pid \in 1 .. MaxProcs + 1)'
    BY <1>a, Zenon DEF IInv, TypeOK, queue
  <2>6. (current \in Pid \cup {NULL} /\ nxt \in Pid \cup {NULL} /\ stack \in Pid \cup {NULL})'
    BY <1>a, Zenon DEF IInv, TypeOK, queue
  <2>7. (allow_sched \in BOOLEAN /\ timer_fired \in BOOLEAN /\ interrupts \in BOOLEAN)'
    BY <1>a, <1>b, Zenon DEF IInv, TypeOK
  <2>8. (pc \in Places)'
    BY <1>b, Zenon DEF Places
  <2>9. (saved \subseteq Pid)'
    BY <1>d, Pids, Zenon DEF IInv
  <2>10. (waited \in [Pid -> Nat])'
    BY <1>a, Zenon DEF IInv, TypeOK, queue
  <2> QED
    BY <2>1, <2>2, <2>3, <2>4, <2>5, <2>6, <2>7, <2>8, <2>9, <2>10, Zenon DEF TypeOK
<1>2. CpuInv'
  BY <1>a, <1>b, Zenon DEF IInv, queue, CpuInv
<1>3. RingInv'
  BY <1>a, <1>b, Zenon DEF IInv, queue, RingInv, Created
<1>4. DispatchInv'
  BY <1>a, <1>b, Zenon DEF IInv, queue, DispatchInv, Created, Successor
<1>5. StateInv'
  BY <1>a, <1>b, Zenon DEF IInv, queue, StateInv, Runner, Created
<1>6. ContextInv'
  BY <1>a, <1>b, <1>c, <1>d, Pids, Zenon DEF IInv, ContextInv, queue, Created
<1>7. WaitInv'
  BY <1>a, <1>b, Zenon DEF IInv, queue, WaitInv, Created, Distance
<1>8. QED
  BY <1>1, <1>2, <1>3, <1>4, <1>5, <1>6, <1>7, Zenon DEF IInv

\* The next process becomes current; everybody else has waited one turn more.
LEMMA LoadInv == IInv /\ switch_to_load_new => IInv'
<1> SUFFICES ASSUME IInv, switch_to_load_new PROVE IInv'
  BY Zenon
<1>a. UNCHANGED <<queue, state, rsp, allow_sched, timer_fired, nxt, stack, interrupts, saved>>
  BY Zenon DEF switch_to_load_new
<1>b. pc = "load_new" /\ pc' = "restore" /\ current' = nxt
  BY Zenon DEF switch_to_load_new
<1>c. nxt = Successor /\ nxt \in Created /\ nxt # current
  BY <1>b, Zenon DEF IInv, DispatchInv
<1>d. \A p \in Pid : waited'[p] = IF p = nxt \/ p \notin Created THEN 0 ELSE waited[p] + 1
  BY Zenon DEF switch_to_load_new, Dispatched
<1>1. TypeOK'
  <2>1. (next \in [Pid -> Pid \cup {NULL}])'
    BY <1>a, Zenon DEF IInv, TypeOK, queue
  <2>2. (state \in [Pid -> {"none", "READY", "RUNNING"}])'
    BY <1>a, Zenon DEF IInv, TypeOK, queue
  <2>3. (rsp \in [Pid -> Context])'
    BY <1>a, Zenon DEF IInv, TypeOK, queue
  <2>4. (run_queue_head \in Pid \cup {NULL} /\ run_queue_tail \in Pid \cup {NULL})'
    BY <1>a, Zenon DEF IInv, TypeOK, queue
  <2>5. (next_pid \in 1 .. MaxProcs + 1)'
    BY <1>a, Zenon DEF IInv, TypeOK, queue
  <2>6. (current \in Pid \cup {NULL} /\ nxt \in Pid \cup {NULL} /\ stack \in Pid \cup {NULL})'
    BY <1>a, <1>b, Zenon DEF IInv, TypeOK
  <2>7. (allow_sched \in BOOLEAN /\ timer_fired \in BOOLEAN /\ interrupts \in BOOLEAN)'
    BY <1>a, Zenon DEF IInv, TypeOK, queue
  <2>8. (pc \in Places)'
    BY <1>b, Zenon DEF Places
  <2>9. (saved \subseteq Pid)'
    BY <1>a, Zenon DEF IInv, TypeOK, queue
  <2>10. (waited \in [Pid -> Nat])'
    <3>1. \A p \in Pid : waited[p] \in Nat
      BY Zenon DEF IInv, TypeOK
    <3>2. QED
      BY <3>1 DEF switch_to_load_new, Dispatched
  <2> QED
    BY <2>1, <2>2, <2>3, <2>4, <2>5, <2>6, <2>7, <2>8, <2>9, <2>10, Zenon DEF TypeOK
<1>2. CpuInv'
  BY <1>a, <1>b, <1>c, Pids, Zenon DEF IInv, queue, CpuInv
<1>3. RingInv'
  BY <1>a, <1>b, <1>c, Pids, Zenon DEF IInv, queue, RingInv, Created
<1>4. DispatchInv'
  BY <1>a, <1>b, <1>c, Pids, Zenon DEF IInv, queue, DispatchInv, Created, NULL
<1>5. StateInv'
  BY <1>a, <1>b, <1>c, Pids, Zenon DEF IInv, queue, StateInv, Runner, Created
<1>6. ContextInv'
  BY <1>a, <1>b, <1>c, Pids, Zenon DEF IInv, queue, ContextInv, Created
<1>7. WaitInv'
  <2>1. /\ next_pid \in Nat /\ current \in Nat /\ nxt \in Nat /\ current < next_pid
        /\ 1 <= nxt /\ nxt < next_pid
    BY <1>c, Pids, Zenon DEF IInv
  <2>2. nxt = IF current = 0 \/ current = next_pid - 1 THEN 1 ELSE current + 1
    <3>1. CASE current = NULL
      BY <3>1, <1>c, Zenon DEF Successor, NULL
    <3>2. CASE current # NULL
      <4>1. current \in Created
        BY <3>2, Zenon DEF IInv, DispatchInv
      <4>2. next[current] = IF current = next_pid - 1 THEN 1 ELSE current + 1
        BY <4>1, RingStep, Zenon DEF IInv
      <4>3. QED
        BY <3>2, <4>2, <1>c, Zenon DEF Successor, NULL
    <3>3. QED
      BY <3>1, <3>2, Zenon
  <2>3. ASSUME NEW p \in Created PROVE waited'[p] <= Distance(p)'
    <3>1. p \in Nat /\ 1 <= p /\ p < next_pid /\ p \in Pid
      BY Pids, Zenon DEF IInv
    <3>2. waited[p] \in Nat
      BY <3>1, Zenon DEF IInv, TypeOK
    <3>3. waited[p] <= IF current = 0 THEN 0
                       ELSE IF p <= current THEN current - p ELSE next_pid - 1 - p + current
      BY Zenon DEF IInv, WaitInv, Distance, NULL
    <3>4. Distance(p)' = IF p <= nxt THEN nxt - p ELSE next_pid - 1 - p + nxt
      BY <1>a, <1>b, <2>1 DEF Distance, NULL, queue
    <3>5. waited'[p] = IF p = nxt THEN 0 ELSE waited[p] + 1
      BY <1>d, <3>1, Zenon
    <3>6. QED
      BY <2>1, <2>2, <3>1, <3>2, <3>3, <3>4, <3>5
  <2>4. \A p \in Pid \ Created : waited'[p] = 0
    BY <1>d, Zenon
  <2>5. Created' = Created
    BY <1>a, Zenon DEF queue, Created
  <2>6. QED
    BY <2>3, <2>4, <2>5, Zenon DEF WaitInv
<1>8. QED
  BY <1>1, <1>2, <1>3, <1>4, <1>5, <1>6, <1>7, Zenon DEF IInv

\* The next process resumes on its own stack.
LEMMA RestoreInv == IInv /\ switch_to_restore => IInv'
<1> SUFFICES ASSUME IInv, switch_to_restore PROVE IInv'
  BY Zenon
<1>a. pc = "restore" /\ nxt = current /\ nxt \in Created /\ nxt # NULL
  BY Pids DEF IInv, DispatchInv, switch_to_restore, NULL
<1>b. pc' = "task" /\ nxt' = NULL
  <2>1. rsp[nxt] = TaskContext
    BY <1>a, Zenon DEF IInv, ContextInv
  <2>2. QED
    BY <2>1 DEF TaskContext, switch_to_restore
<1>c. UNCHANGED <<queue, state, rsp, current, allow_sched, timer_fired, waited>>
  BY Zenon DEF switch_to_restore
<1>d. stack' = nxt /\ interrupts' = TRUE /\ saved' = saved \ {nxt}
  BY Zenon DEF switch_to_restore
<1>1. TypeOK'
  <2>1. (next \in [Pid -> Pid \cup {NULL}])'
    BY <1>c, Zenon DEF IInv, TypeOK, queue
  <2>2. (state \in [Pid -> {"none", "READY", "RUNNING"}])'
    BY <1>c, Zenon DEF IInv, TypeOK, queue
  <2>3. (rsp \in [Pid -> Context])'
    BY <1>c, Zenon DEF IInv, TypeOK, queue
  <2>4. (run_queue_head \in Pid \cup {NULL} /\ run_queue_tail \in Pid \cup {NULL})'
    BY <1>c, Zenon DEF IInv, TypeOK, queue
  <2>5. (next_pid \in 1 .. MaxProcs + 1)'
    BY <1>c, Zenon DEF IInv, TypeOK, queue
  <2>6. (current \in Pid \cup {NULL} /\ nxt \in Pid \cup {NULL} /\ stack \in Pid \cup {NULL})'
    BY <1>b, <1>c, <1>d, Zenon DEF IInv, TypeOK
  <2>7. (allow_sched \in BOOLEAN /\ timer_fired \in BOOLEAN /\ interrupts \in BOOLEAN)'
    BY <1>c, <1>d, Zenon DEF IInv, TypeOK
  <2>8. (pc \in Places)'
    BY <1>b, Zenon DEF Places
  <2>9. (saved \subseteq Pid)'
    BY <1>d, Zenon DEF IInv, TypeOK
  <2>10. (waited \in [Pid -> Nat])'
    BY <1>c, Zenon DEF IInv, TypeOK, queue
  <2> QED
    BY <2>1, <2>2, <2>3, <2>4, <2>5, <2>6, <2>7, <2>8, <2>9, <2>10, Zenon DEF TypeOK
<1>2. CpuInv'
  BY <1>a, <1>b, <1>c, <1>d, Zenon DEF IInv, queue, CpuInv
<1>3. RingInv'
  BY <1>a, <1>b, <1>c, <1>d, Zenon DEF IInv, queue, RingInv, Created
<1>4. DispatchInv'
  BY <1>a, <1>b, <1>c, <1>d, Zenon DEF IInv, queue, DispatchInv, Created
<1>5. StateInv'
  BY <1>a, <1>b, <1>c, <1>d, Zenon DEF IInv, queue, StateInv, Runner, Created
<1>6. ContextInv'
  BY <1>a, <1>b, <1>c, <1>d, Zenon DEF IInv, queue, ContextInv, Created
<1>7. WaitInv'
  BY <1>a, <1>b, <1>c, <1>d, Zenon DEF IInv, queue, WaitInv, Distance, Created
<1>8. QED
  BY <1>1, <1>2, <1>3, <1>4, <1>5, <1>6, <1>7, Zenon DEF IInv

\* The tick never preempts, because allow_sched is false.
LEMMA TickInv == IInv /\ sys_clock_handler_alt => IInv'
<1> SUFFICES ASSUME IInv, sys_clock_handler_alt PROVE IInv'
  BY Zenon
<1>a. UNCHANGED <<queue, state, rsp, current, allow_sched, cpu, ghosts>> /\ timer_fired' = TRUE
  BY Zenon DEF IInv, CpuInv, sys_clock_handler_alt
<1>1. TypeOK'
  BY <1>a, Zenon DEF IInv, TypeOK, queue, cpu, ghosts
<1>2. CpuInv'
  BY <1>a, Zenon DEF IInv, queue, cpu, ghosts, CpuInv
<1>3. RingInv'
  BY <1>a, Zenon DEF IInv, queue, cpu, ghosts, RingInv, Created
<1>4. DispatchInv'
  BY <1>a, Zenon DEF IInv, queue, cpu, ghosts, DispatchInv, Created, Successor
<1>5. StateInv'
  BY <1>a, Zenon DEF IInv, queue, cpu, ghosts, StateInv, Runner, Created
<1>6. ContextInv'
  BY <1>a, Zenon DEF IInv, queue, cpu, ghosts, ContextInv, Created
<1>7. WaitInv'
  BY <1>a, Zenon DEF IInv, queue, cpu, ghosts, WaitInv, Distance, Created
<1>8. QED
  BY <1>1, <1>2, <1>3, <1>4, <1>5, <1>6, <1>7, Zenon DEF IInv

\* A new process is appended behind the tail.
LEMMA CreateInv == IInv /\ create_process => IInv'
<1> SUFFICES ASSUME IInv, create_process PROVE IInv'
  BY Zenon
<1> DEFINE n == next_pid
<1>a. /\ n \in Pid /\ n \in Nat /\ 1 <= n /\ n <= MaxProcs /\ n \notin Created /\ n # NULL
      /\ current \in Nat /\ current < n
  BY Pids DEF IInv, create_process, NULL
<1>b. next_pid' = n + 1 /\ Created' = Created \cup {n}
  <2>1. next_pid' = n + 1
    BY Zenon DEF create_process
  <2>2. QED
    BY <2>1, <1>a DEF Created
<1>c. UNCHANGED <<current, allow_sched, timer_fired, nxt, stack, interrupts, waited>>
  BY Zenon DEF create_process
<1>d. \/ pc = "create" /\ pc' = "start" /\ n = 1
      \/ pc = "task" /\ pc' = "task" /\ n > 1
  BY <1>a DEF create_process, IInv, RingInv
<1>e. run_queue_head' = 1 /\ run_queue_tail' = n
  BY <1>a, <1>d DEF IInv, RingInv, create_process, NULL
<1>f. next' = [q \in Pid |-> IF q = n THEN 1 ELSE IF q = n - 1 THEN n ELSE next[q]]
  <2>1. CASE n = 1
    <3>1. next' = [next EXCEPT ![n] = n]
      BY <2>1, <1>d, Zenon DEF IInv, RingInv, create_process, RingWith
    <3>2. \A q \in Pid : q # n - 1
      BY <2>1, Pids DEF IInv
    <3>3. QED
      BY <2>1, <3>1, <3>2, Zenon DEF IInv, TypeOK
  <2>2. CASE n # 1
    <3>1. run_queue_head = 1 /\ run_queue_tail = n - 1 /\ n - 1 # n
      BY <2>2, <1>a DEF IInv, RingInv
    <3>2. next' = [next EXCEPT ![n] = 1, ![n - 1] = n]
      BY <3>1 DEF create_process, RingWith, NULL
    <3>3. QED
      BY <3>1, <3>2, Zenon DEF IInv, TypeOK
  <2>3. QED
    BY <2>1, <2>2, Zenon
<1>g. rsp' = [rsp EXCEPT ![n] = TaskContext] /\ state' = [state EXCEPT ![n] = "READY"]
  BY Zenon DEF create_process, TaskContext
<1>h. saved' = saved \cup {n}
  BY Zenon DEF create_process
<1>i. \A p \in Created : p \in Nat /\ 1 <= p /\ p < n /\ p \in Pid
  BY Pids, Zenon DEF IInv
<1> HIDE DEF n
<1>1. TypeOK'
  <2>1. (next \in [Pid -> Pid \cup {NULL}])'
    <3>1. 1 \in Pid
      BY ProcsPositive DEF Pid
    <3>2. QED
      BY <3>1, <1>a, <1>f, Zenon DEF IInv, TypeOK
  <2>2. (state \in [Pid -> {"none", "READY", "RUNNING"}])'
    BY <1>g, Zenon DEF IInv, TypeOK
  <2>3. (rsp \in [Pid -> Context])'
    <3>1. TaskContext \in Context
      BY Zenon DEF TaskContext, Context, Places
    <3>2. QED
      BY <3>1, <1>g, Zenon DEF IInv, TypeOK
  <2>4. (run_queue_head \in Pid \cup {NULL} /\ run_queue_tail \in Pid \cup {NULL})'
    BY <1>a, <1>e, ProcsPositive DEF Pid
  <2>5. (next_pid \in 1 .. MaxProcs + 1)'
    BY <1>a, <1>b, ProcsPositive
  <2>6. (current \in Pid \cup {NULL} /\ nxt \in Pid \cup {NULL} /\ stack \in Pid \cup {NULL})'
    BY <1>c, Zenon DEF IInv, TypeOK
  <2>7. (allow_sched \in BOOLEAN /\ timer_fired \in BOOLEAN /\ interrupts \in BOOLEAN)'
    BY <1>c, Zenon DEF IInv, TypeOK
  <2>8. (pc \in Places)'
    BY <1>d, Zenon DEF Places
  <2>9. (saved \subseteq Pid)'
    BY <1>a, <1>h, Zenon DEF IInv, TypeOK
  <2>10. (waited \in [Pid -> Nat])'
    BY <1>c, Zenon DEF IInv, TypeOK
  <2> QED
    BY <2>1, <2>2, <2>3, <2>4, <2>5, <2>6, <2>7, <2>8, <2>9, <2>10, Zenon DEF TypeOK
<1>2. CpuInv'
  BY <1>c, <1>d, Zenon DEF IInv, CpuInv
<1>3. RingInv'
  <2>1. ASSUME NEW p \in Created'
        PROVE  next'[p] = IF p = n THEN 1 ELSE p + 1
    <3>1. CASE p = n
      BY <3>1, <1>a, <1>f, Zenon
    <3>2. CASE p # n
      <4>1. p \in Created /\ p \in Pid /\ p \in Nat /\ p < n
        BY <3>2, <1>b, <1>i, Zenon
      <4>2. next[p] = IF p = n - 1 THEN 1 ELSE p + 1
        BY <4>1, RingStep, Zenon DEF IInv, n
      <4>3. next'[p] = IF p = n - 1 THEN n ELSE next[p]
        BY <4>1, <3>2, <1>f, Zenon
      <4>4. QED
        BY <4>1, <4>2, <4>3, <3>2, <1>a
    <3>3. QED
      BY <3>1, <3>2, Zenon
  <2>2. next_pid' - 1 = n /\ next_pid' # 1
    BY <1>a, <1>b
  <2>3. QED
    BY <2>1, <2>2, <1>d, <1>e, Zenon DEF RingInv
<1>4. DispatchInv'
  <2>1. current' \in Created' \cup {NULL}
    BY <1>b, <1>c, Zenon DEF IInv, DispatchInv
  <2>2. pc' = "task" => current' # NULL
    BY <1>c, <1>d, Zenon DEF IInv, DispatchInv
  <2>3. pc' = "start" => current' = NULL
    BY <1>a, <1>c, <1>d DEF NULL
  <2>4. QED
    BY <2>1, <2>2, <2>3, <1>d, Zenon DEF DispatchInv
<1>5. StateInv'
  <2>1. Runner = current /\ Runner' = current
    BY <1>c, <1>d, Zenon DEF Runner
  <2>2. state'[n] = "READY" /\ n # current
    BY <1>a, <1>g DEF IInv, TypeOK
  <2>3. \A p \in Created : state'[p] = state[p]
    BY <1>a, <1>g, <1>i, Zenon DEF IInv, TypeOK
  <2>4. QED
    BY <2>1, <2>2, <2>3, <1>b, Zenon DEF IInv, StateInv
<1>6. ContextInv'
  <2>1. saved = Created \ {current} /\ n # current
    BY <1>a, <1>d DEF IInv, ContextInv
  <2>2. \A p \in Created' : rsp'[p] = TaskContext
    BY <1>a, <1>b, <1>g, <1>i, Zenon DEF IInv, TypeOK, ContextInv
  <2>3. saved' = Created' \ {current'}
    BY <2>1, <1>b, <1>c, <1>h, Zenon
  <2>4. QED
    BY <2>2, <2>3, <1>d, Zenon DEF ContextInv
<1>7. WaitInv'
  <2>1. \A p \in Pid : waited'[p] = waited[p] /\ waited[p] \in Nat
    BY <1>c, Zenon DEF IInv, TypeOK
  <2>2. waited[n] = 0
    BY <1>a, Zenon DEF IInv, WaitInv
  <2>3. ASSUME NEW p \in Created' PROVE waited'[p] <= Distance(p)'
    <3>1. Distance(p)' = IF current = 0 THEN 0
                         ELSE IF p <= current THEN current - p ELSE n - p + current
      <4>1. p \in Nat
        BY <1>a, <1>b, <1>i, Zenon
      <4>2. next_pid' - 1 - p = n - p
        BY <4>1, <1>a, <1>b
      <4>3. QED
        BY <4>2, <1>c, Zenon DEF Distance, NULL
    <3>2. CASE p = n
      BY <3>1, <3>2, <2>1, <2>2, <1>a
    <3>3. CASE p # n
      <4>1. p \in Created /\ p \in Nat /\ p \in Pid
        BY <3>3, <1>b, <1>i, Zenon
      <4>2. waited[p] <= IF current = 0 THEN 0
                         ELSE IF p <= current THEN current - p ELSE n - 1 - p + current
        BY <4>1, Zenon DEF IInv, WaitInv, Distance, NULL, n
      <4>3. QED
        BY <3>1, <4>1, <4>2, <2>1, <1>a
    <3>4. QED
      BY <3>2, <3>3, Zenon
  <2>4. \A p \in Pid \ Created' : waited'[p] = 0
    BY <1>b, <2>1, Zenon DEF IInv, WaitInv
  <2>5. QED
    BY <2>3, <2>4, Zenon DEF WaitInv
<1>8. QED
  BY <1>1, <1>2, <1>3, <1>4, <1>5, <1>6, <1>7, Zenon DEF IInv

\* The scheduler stays in its inductive invariant.
THEOREM Invariance == Spec => []IInv
<1>1. IInv /\ [Next]_vars => IInv'
  <2> SUFFICES ASSUME IInv, [Next]_vars PROVE IInv'
    BY Zenon
  <2>1. CASE CpuStep
    BY <2>1, InitSchedulerInv, StartInv, ScheduleInv, StoreReadyInv, StoreRunningInv,
       SaveInv, LoadInv, RestoreInv, HaltInv, Zenon DEF CpuStep
  <2>2. CASE UNCHANGED vars
    <3>1. TypeOK' /\ CpuInv'
      BY <2>2 DEF vars, queue, cpu, ghosts, IInv, TypeOK, CpuInv
    <3>2. RingInv' /\ DispatchInv'
      BY <2>2, Zenon DEF vars, queue, cpu, IInv, RingInv, DispatchInv, Successor, Created
    <3>3. StateInv' /\ ContextInv'
      BY <2>2, Zenon DEF vars, queue, cpu, ghosts, IInv, StateInv, Runner, ContextInv, Created
    <3>4. WaitInv'
      BY <2>2, Zenon DEF vars, queue, ghosts, IInv, WaitInv, Distance, Created
    <3>5. QED
      BY <3>1, <3>2, <3>3, <3>4, Zenon DEF IInv
  <2>3. QED
    BY <2>1, <2>2, CreateInv, FailInv, ReturnInv, TickInv, Zenon DEF Next
<1>2. QED
  BY <1>1, InitInv, PTL DEF Spec

\* Type correctness of the scheduler's state.
THEOREM TypeCorrect == Spec => []TypeOK
<1>1. IInv => TypeOK
  BY Zenon DEF IInv
<1>2. QED
  BY <1>1, Invariance, PTL

\* create_process keeps the run queue one ring of all processes.
THEOREM Ring == Spec => []OneRing
<1>1. IInv => OneRing
  BY Zenon DEF IInv, RingInv, OneRing
<1>2. QED
  BY <1>1, Invariance, PTL

\* schedule() leaves one process RUNNING, the one that executes.
THEOREM Running == Spec => []OneRunning
<1>1. ASSUME IInv PROVE OneRunning
  <2>1. \A p, q \in Created : state[p] = "RUNNING" /\ state[q] = "RUNNING" => p = q
    BY <1>1, Zenon DEF IInv, StateInv
  <2>2. pc = "task" => current \in Created /\ Runner = current
    BY <1>1, Zenon DEF IInv, DispatchInv, Runner
  <2>3. QED
    BY <1>1, <2>1, <2>2, Zenon DEF IInv, StateInv, OneRunning
<1>2. QED
  BY <1>1, Invariance, PTL

\* The cli of switch_to hides its intermediate states from the interrupts.
THEOREM Coherent == Spec => []InterruptsSeeCoherentCpu
<1>1. IInv => InterruptsSeeCoherentCpu
  BY Zenon DEF IInv, CpuInv, InterruptsSeeCoherentCpu
<1>2. QED
  BY <1>1, Invariance, PTL

\* switch_to resumes every saved context once.
THEOREM UsedOnce == Spec => []ContextsUsedOnce
<1>1. IInv => ContextsUsedOnce
  BY Zenon DEF IInv, ContextInv, DispatchInv, ContextsUsedOnce
<1>2. QED
  BY <1>1, Invariance, PTL

\* Nobody waits for more turns than there are other processes.
THEOREM Waiting == Spec => []BoundedWaiting
<1>1. ASSUME IInv, NEW p \in Created PROVE waited[p] < next_pid - 1
  <2>1. /\ next_pid \in Nat /\ current \in Nat /\ current < next_pid
        /\ p \in Nat /\ 1 <= p /\ p < next_pid /\ p \in Pid
    BY <1>1, Pids, Zenon DEF IInv
  <2>2. waited[p] \in Nat
    BY <1>1, <2>1, Zenon DEF IInv, TypeOK
  <2>3. waited[p] <= IF current = 0 THEN 0
                     ELSE IF p <= current THEN current - p ELSE next_pid - 1 - p + current
    BY <1>1, Zenon DEF IInv, WaitInv, Distance, NULL
  <2>4. QED
    BY <2>1, <2>2, <2>3
<1>2. IInv => BoundedWaiting
  BY <1>1, Zenon DEF BoundedWaiting
<1>3. QED
  BY <1>2, Invariance, PTL
=============================================================================
