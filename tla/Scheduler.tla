----------------------------- MODULE Scheduler -----------------------------
(***************************************************************************)
(* The cooperative round-robin scheduler: src/sched.c, the context switch  *)
(* of src/sched_ll.asm, and the PIT interrupt (src/time.c) that may arrive *)
(* between any two of their steps while interrupts are enabled.            *)
(*                                                                         *)
(* A process is its pid; 0 is NULL.  schedule() is cut at every store that *)
(* an interrupt could observe, switch_to at every instruction that changes *)
(* current, the stack or the interrupt flag.                               *)
(***************************************************************************)
EXTENDS Naturals, FiniteSets

CONSTANT MaxProcs \* processes created, at most (the heap bounds them)

ASSUME ProcsAssumption == MaxProcs \in Nat \ {0}

Pid == 1 .. MaxProcs
NULL == 0

VARIABLES
    next, state,      \* process_t.next, process_t.state
    rsp,              \* where the context at process_t.rsp resumes
    run_queue_head, run_queue_tail, next_pid, current, allow_sched,
    timer_fired,      \* time.c: the PIT has ticked
    pc, nxt,          \* the CPU: position, and schedule()'s local `next`
    stack,            \* the CPU: whose stack it is on (NULL: the boot stack)
    interrupts,       \* the CPU: RFLAGS.IF
    saved,            \* ghost: processes whose rsp holds an unused context
    waited            \* ghost: dispatches of others since a process last ran

queue == <<next, run_queue_head, run_queue_tail, next_pid>>
cpu == <<pc, nxt, stack, interrupts>>
ghosts == <<saved, waited>>
vars == <<queue, state, rsp, current, allow_sched, timer_fired, cpu, ghosts>>

Created == 1 .. next_pid - 1

\* Where the CPU can be: the three calls of _start, ordinary task code, the two
\* stores of schedule(), the three parts of switch_to, in panic, and stopped.
Places == {"init", "create", "start", "task", "store ready", "store running",
           "switch_to", "load_new", "restore", "panic", "halted"}
Context == [at : Places, nxt : Pid \cup {NULL}]

Init ==
    /\ next = [p \in Pid |-> NULL]
    /\ state = [p \in Pid |-> "none"]
    /\ rsp = [p \in Pid |-> [at |-> "halted", nxt |-> NULL]]
    /\ run_queue_head = NULL /\ run_queue_tail = NULL
    /\ next_pid = 1 /\ current = NULL /\ allow_sched = FALSE
    /\ timer_fired = FALSE
    /\ pc = "init" /\ nxt = NULL /\ stack = NULL /\ interrupts = TRUE
    /\ saved = {} /\ waited = [p \in Pid |-> 0]

\* panic prints with interrupts as they are, then halts for good.
panic == pc' = "panic" /\ UNCHANGED <<nxt, stack, interrupts>>

halt ==
    /\ pc = "panic"
    /\ pc' = "halted" /\ interrupts' = FALSE
    /\ UNCHANGED <<queue, state, rsp, current, allow_sched, timer_fired, nxt, stack, ghosts>>

init_scheduler ==
    /\ pc = "init"
    /\ current' = NULL /\ run_queue_head' = NULL /\ run_queue_tail' = NULL
    /\ next_pid' = 1 /\ allow_sched' = FALSE
    /\ pc' = "create"
    /\ UNCHANGED <<next, state, rsp, timer_fired, nxt, stack, interrupts, ghosts>>

\* The ring after p was appended: behind the tail, in front of the head.
\* Mutant: the old tail keeps pointing at the head.
RingWith_tail_not_linked(p) ==
    IF run_queue_head = NULL THEN [next EXCEPT ![p] = p]
    ELSE [next EXCEPT ![p] = run_queue_head]
\* Mutant: the new tail leads back to the old one.
RingWith_links_back(p) ==
    IF run_queue_head = NULL THEN [next EXCEPT ![p] = p]
    ELSE [next EXCEPT ![p] = run_queue_tail, ![run_queue_tail] = p]
RingWith(p) ==
    IF run_queue_head = NULL THEN [next EXCEPT ![p] = p]
    ELSE [next EXCEPT ![p] = run_queue_head, ![run_queue_tail] = p]

\* By _start for the shell, later by the running task.
create_process ==
    /\ pc \in {"create", "task"}
    /\ next_pid \in Pid
    /\ LET p == next_pid IN
       /\ next' = RingWith(p)
       /\ run_queue_head' = IF run_queue_head = NULL THEN p ELSE run_queue_head
       /\ run_queue_tail' = p
       /\ next_pid' = p + 1
       /\ state' = [state EXCEPT ![p] = "READY"]
       /\ rsp' = [rsp EXCEPT ![p] = [at |-> "task", nxt |-> NULL]]
       /\ saved' = saved \cup {p}
    /\ pc' = IF pc = "create" THEN "start" ELSE pc
    /\ UNCHANGED <<current, allow_sched, timer_fired, nxt, stack, interrupts, waited>>

\* No memory for the process or its stack.
create_process_fails ==
    /\ pc \in {"create", "task"}
    /\ panic
    /\ UNCHANGED <<queue, state, rsp, current, allow_sched, timer_fired, ghosts>>

\* A task's entry function returned into task_returned.
task_returned ==
    /\ pc = "task"
    /\ panic
    /\ UNCHANGED <<queue, state, rsp, current, allow_sched, timer_fired, ghosts>>

-----------------------------------------------------------------------------
(* schedule().                                                             *)

\* The process schedule() picks, or NULL where it returns without a switch.
Choice ==
    LET n == IF current # NULL THEN next[current] ELSE run_queue_head
    IN  IF run_queue_head = NULL \/ n = current THEN NULL ELSE n

schedule ==
    /\ pc = "task"
    /\ nxt' = Choice
    /\ pc' = IF Choice = NULL THEN "task" ELSE "store ready"
    /\ UNCHANGED <<queue, state, rsp, current, allow_sched, timer_fired, stack, interrupts, ghosts>>

\* Panics on an empty queue, on a second start, and when schedule() returns.
scheduler_start ==
    /\ pc = "start"
    /\ allow_sched' = FALSE
    /\ IF run_queue_head = NULL \/ current # NULL \/ Choice = NULL
       THEN panic
       ELSE nxt' = Choice /\ pc' = "store ready" /\ UNCHANGED <<stack, interrupts>>
    /\ UNCHANGED <<queue, state, rsp, current, timer_fired, ghosts>>

store_ready ==
    /\ pc = "store ready"
    /\ state' = IF current = NULL THEN state ELSE [state EXCEPT ![current] = "READY"]
    /\ pc' = "store running"
    /\ UNCHANGED <<queue, rsp, current, allow_sched, timer_fired, nxt, stack, interrupts, ghosts>>

store_running ==
    /\ pc = "store running"
    /\ state' = [state EXCEPT ![nxt] = "RUNNING"]
    /\ pc' = "switch_to"
    /\ UNCHANGED <<queue, rsp, current, allow_sched, timer_fired, nxt, stack, interrupts, ghosts>>

-----------------------------------------------------------------------------
(* switch_to(nxt).                                                         *)

\* Mutant: the cli is missing.
switch_to_save_without_cli ==
    /\ pc = "switch_to"
    /\ IF current = NULL THEN UNCHANGED <<rsp, saved>>
       ELSE /\ rsp' = [rsp EXCEPT ![current] = [at |-> "task", nxt |-> NULL]]
            /\ saved' = saved \cup {current}
    /\ pc' = "load_new"
    /\ UNCHANGED <<queue, state, current, allow_sched, timer_fired, nxt, stack, interrupts, waited>>

\* Mutant: the outgoing context is not stored.
switch_to_save_forgets ==
    /\ pc = "switch_to"
    /\ interrupts' = FALSE
    /\ pc' = "load_new"
    /\ UNCHANGED <<queue, state, rsp, current, allow_sched, timer_fired, nxt, stack, ghosts>>

\* cli; the outgoing process keeps its registers on its own stack.
switch_to_save ==
    /\ pc = "switch_to"
    /\ interrupts' = FALSE
    /\ IF current = NULL THEN UNCHANGED <<rsp, saved>>
       ELSE /\ rsp' = [rsp EXCEPT ![current] = [at |-> "task", nxt |-> NULL]]
            /\ saved' = saved \cup {current}
    /\ pc' = "load_new"
    /\ UNCHANGED <<queue, state, current, allow_sched, timer_fired, nxt, stack, waited>>

Dispatched(p) ==
    [q \in Pid |-> IF q = p \/ q \notin Created THEN 0 ELSE waited[q] + 1]

\* current = next.
switch_to_load_new ==
    /\ pc = "load_new"
    /\ current' = nxt
    /\ waited' = Dispatched(nxt)
    /\ pc' = "restore"
    /\ UNCHANGED <<queue, state, rsp, allow_sched, timer_fired, nxt, stack, interrupts, saved>>

\* rsp = next->rsp, the pops, sti and ret: the next process runs on.
switch_to_restore ==
    /\ pc = "restore"
    /\ stack' = nxt
    /\ interrupts' = TRUE
    /\ pc' = rsp[nxt].at
    /\ nxt' = rsp[nxt].nxt
    /\ saved' = saved \ {nxt}
    /\ UNCHANGED <<queue, state, rsp, current, allow_sched, timer_fired, waited>>

-----------------------------------------------------------------------------
(* The PIT interrupt.  With allow_sched it would run schedule() and        *)
(* switch_to from the handler, on the stack of whatever it interrupted.    *)

sys_clock_handler_alt ==
    /\ interrupts
    /\ timer_fired' = TRUE
    /\ IF ~allow_sched \/ Choice = NULL
       THEN UNCHANGED <<state, rsp, current, cpu, ghosts>>
       ELSE LET n == Choice IN
            /\ state' = [p \in Pid |-> IF p = n THEN "RUNNING"
                                       ELSE IF p = current THEN "READY" ELSE state[p]]
            /\ rsp' = IF current = NULL THEN rsp
                      ELSE [rsp EXCEPT ![current] = [at |-> pc, nxt |-> nxt]]
            /\ current' = n
            /\ stack' = n
            /\ pc' = rsp[n].at /\ nxt' = rsp[n].nxt
            /\ saved' = (saved \cup ({current} \ {NULL})) \ {n}
            /\ waited' = Dispatched(n)
            /\ UNCHANGED interrupts
    /\ UNCHANGED <<queue, allow_sched>>

-----------------------------------------------------------------------------

CpuStep ==
    \/ init_scheduler
    \/ scheduler_start
    \/ schedule
    \/ store_ready
    \/ store_running
    \/ switch_to_save
    \/ switch_to_load_new
    \/ switch_to_restore
    \/ halt

Next ==
    \/ CpuStep
    \/ create_process
    \/ create_process_fails
    \/ task_returned
    \/ sys_clock_handler_alt

Spec == Init /\ [][Next]_vars

\* The CPU keeps executing, and every task is a loop that reaches schedule():
\* soak on each turn, vsh_readline whenever no key is waiting, memtest within
\* its loops.
FairSpec == Spec /\ WF_vars(CpuStep) /\ WF_vars(pc = "create" /\ create_process)

-----------------------------------------------------------------------------
(* Correctness.                                                            *)

\* Every variable keeps its type.
TypeOK ==
    /\ next \in [Pid -> Pid \cup {NULL}]
    /\ state \in [Pid -> {"none", "READY", "RUNNING"}]
    /\ rsp \in [Pid -> Context]
    /\ run_queue_head \in Pid \cup {NULL} /\ run_queue_tail \in Pid \cup {NULL}
    /\ next_pid \in 1 .. MaxProcs + 1
    /\ current \in Pid \cup {NULL} /\ nxt \in Pid \cup {NULL}
    /\ stack \in Pid \cup {NULL}
    /\ allow_sched \in BOOLEAN /\ timer_fired \in BOOLEAN /\ interrupts \in BOOLEAN
    /\ pc \in Places
    /\ saved \subseteq Pid /\ waited \in [Pid -> Nat]

\* The run queue is one ring of all created processes, in creation order: the
\* last one created, the tail, leads back to the first, the head.
OneRing ==
    pc \notin {"init", "create"} /\ next_pid > 1 =>
        /\ run_queue_head = 1 /\ run_queue_tail = next_pid - 1
        /\ \A p \in Created : next[p] = IF p = next_pid - 1 THEN 1 ELSE p + 1

\* At most one process is RUNNING, and outside schedule() it is the one whose
\* code executes, whatever interrupts arrive inside it.
OneRunning ==
    /\ \A p, q \in Created : state[p] = "RUNNING" /\ state[q] = "RUNNING" => p = q
    /\ pc = "task" => state[current] = "RUNNING"

\* An interrupt handler sees current and the stack agree: the half-switched
\* state of switch_to is never exposed.
InterruptsSeeCoherentCpu == interrupts => stack = current

\* A context is used once: whoever is not executing has exactly one unused
\* context, and switch_to only ever resumes such a process.
ContextsUsedOnce ==
    /\ pc = "task" => saved = Created \ {current}
    /\ pc = "restore" => nxt \in saved

\* Between two turns of a process the others together have fewer turns than
\* there are processes.
BoundedWaiting == \A p \in Created : waited[p] < next_pid - 1

\* Round robin serves everybody: a created process eventually runs, unless the
\* machine panics first.
EveryoneRuns == \A p \in Pid : (p \in Created) ~> (current = p /\ pc = "task") \/ pc = "halted"
=============================================================================
