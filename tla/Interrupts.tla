----------------------------- MODULE Interrupts -----------------------------
(***************************************************************************)
(* Interrupt delivery: the two 8259 interrupt controllers, isr_dispatch    *)
(* (irq.c), the interrupt flag across task switches (sched.c, switch.S),   *)
(* and the clock that the timer's interrupt drives (pit.c).                *)
(*                                                                         *)
(* A line is a number from 0 to 15; line 2 is the input of the master that *)
(* the slave, lines 8 to 15, is wired to.  Devices raise lines at any      *)
(* time.  stage is what the CPU does: "task" is code of the task cur, the  *)
(* other stages are the steps of an interrupt on that task's stack.        *)
(* Module Scheduler says which task a switch picks; here it may be any.    *)
(***************************************************************************)
EXTENDS Integers, FiniteSets

CONSTANTS
    Tasks,       \* the tasks there are
    Lines,       \* lines that devices are connected to
    DriverLine,  \* line whose driver comes and goes
    Registrar,   \* the task that registers and unregisters it
    Hz,          \* timer_init's argument
    PitOscFreq,  \* input frequency of the timer chip
    MaxDivisor,  \* largest reload value of the timer chip
    MaxTicks     \* bound of the model on tick_count

TimerLine == 0
KeyboardLine == 1
Cascade == 2
Slave == 8..15

ASSUME InterruptsAssumption ==
    /\ Tasks # {}
    /\ Registrar \in Tasks
    /\ Lines \subseteq (0..15) \ {Cascade}
    /\ DriverLine \in Lines \ {TimerLine, KeyboardLine}
    /\ Hz \in Nat \ {0}
    /\ PitOscFreq \in Nat \ {0} /\ MaxDivisor \in 1..PitOscFreq
    /\ MaxTicks \in Nat

VARIABLES
    irr,             \* lines that are raised and not yet delivered
    isr,             \* lines in service
    imr,             \* lines masked
    handlers,        \* lines with a handler
    irqs,            \* whether the CPU's interrupt flag is set
    cur,             \* the task on the CPU
    stage,           \* what the CPU does
    line,            \* line of the interrupt on the CPU
    resume,          \* resume[t]: how t goes on when it is switched to
    depth,           \* depth[t]: unfinished interrupts on t's stack
    section,         \* tasks inside a critical section of their own
    PreemptPending,
    tick_count,
    up,              \* the call of timer_uptime_ms: point, reads and result
    reg              \* point of irq_register or irq_unregister

picVars == <<irr, isr, imr, handlers>>
cpuVars == <<irqs, cur, stage, line, resume, depth, section, PreemptPending>>
otherVars == <<tick_count, up, reg>>
vars == <<picVars, cpuVars, otherVars>>

None == -1

-----------------------------------------------------------------------------
(* The timer chip.                                                         *)

divisor ==
    LET d == PitOscFreq \div Hz
    IN  IF d = 0 THEN 1 ELSE IF d > MaxDivisor THEN MaxDivisor ELSE d

ticks_per_second == PitOscFreq \div divisor

-----------------------------------------------------------------------------
(* The controllers.                                                        *)

Chip(l) == IF l \in Slave THEN Slave ELSE 0..7

\* The input of the master that line l comes in on.
Input(l) == IF l \in Slave THEN Cascade ELSE l

\* Nothing of the same or a higher priority is in service.
Unblocked(l) ==
    /\ \A i \in isr \ Slave : Input(l) < i
    /\ \A i \in isr \cap Slave : l \in Slave => l < i

\* Line l is the one the controllers would deliver next.
Pending(l) ==
    /\ l \in irr \ imr
    /\ Input(l) \notin imr
    /\ Unblocked(l)
    /\ \A j \in irr \ (imr \cup {l}) : Input(j) \notin imr =>
           Input(l) < Input(j) \/ (Input(l) = Input(j) /\ l < j)

\* The non-specific end of interrupt, written to the chip of line l: it clears
\* the bit of the highest priority that is in service on that chip.
Acknowledged(s, l) == s \ {i \in s \cap Chip(l) : \A j \in s \cap Chip(l) : i <= j}

\* The EOIs of isr_dispatch.
Eoi(s, l) == Acknowledged(IF l \in Slave THEN Acknowledged(s, l) ELSE s, Cascade)

-----------------------------------------------------------------------------
(* Interrupts.  The gates are interrupt gates, so the flag goes off on the *)
(* way in, and iret puts back the flag the interrupted code had, which is on.*)

Raise(l) ==
    /\ l \notin irr
    /\ l = TimerLine => tick_count + 1 < MaxTicks
    /\ irr' = irr \cup {l}
    /\ UNCHANGED <<isr, imr, handlers, cpuVars, otherVars>>

\* An interrupt takes the CPU; hlt, too, ends here.
Enter(l) ==
    /\ irqs
    /\ irqs' = FALSE
    /\ line' = l
    /\ stage' = "dispatch"
    /\ depth' = [depth EXCEPT ![cur] = @ + 1]
    /\ UNCHANGED <<cur, resume, section, PreemptPending>>

Deliver(l) ==
    /\ Enter(l)
    /\ Pending(l)
    /\ irr' = irr \ {l}
    /\ isr' = isr \cup {l, Input(l)}
    /\ UNCHANGED <<imr, handlers, otherVars>>

\* A line drops before it is acknowledged, and the controller that raised it
\* reports its lowest line, of which the in-service bit stays clear.
Glitch(l) ==
    /\ Enter(l)
    /\ l \in {7, 15}
    /\ Unblocked(l)
    /\ l = 15 => Cascade \notin imr
    /\ isr' = IF l = 15 THEN isr \cup {Cascade} ELSE isr
    /\ UNCHANGED <<irr, imr, handlers, otherVars>>

\* isr_dispatch finds the in-service bit clear: it acknowledges only the master and
\* only for line 15, counts and reports, and returns without SchedPreempt.
Spurious ==
    /\ stage = "dispatch"
    /\ line \in {7, 15} \ isr
    /\ isr' = IF line = 15 THEN Acknowledged(isr, Cascade) ELSE isr
    /\ stage' = "iret"
    /\ UNCHANGED <<irr, imr, handlers, irqs, cur, line, resume, depth, section,
                   PreemptPending, otherVars>>

\* timer_callback counts the tick, and its SchedTick asks for a preemption when the
\* slice is used up.  What it does to the queues is in module Scheduler.
timer_callback ==
    /\ tick_count' = tick_count + 1
    /\ PreemptPending' \in {PreemptPending, TRUE}

\* isr_dispatch calls the handler, if there is one.
Handle ==
    /\ stage = "dispatch"
    /\ line \notin {7, 15} \ isr
    /\ IF line = TimerLine /\ line \in handlers THEN timer_callback
       ELSE UNCHANGED <<tick_count, PreemptPending>>
    /\ stage' = "eoi"
    /\ UNCHANGED <<picVars, irqs, cur, line, resume, depth, section, up, reg>>

SendEoi ==
    /\ stage = "eoi"
    /\ isr' = Eoi(isr, line)
    /\ stage' = "SchedPreempt"
    /\ UNCHANGED <<irr, imr, handlers, irqs, cur, line, resume, depth, section,
                   PreemptPending, otherVars>>

-----------------------------------------------------------------------------
(* Task switches.                                                          *)

\* Mutant: SchedUnlockIrq puts interrupts on whatever they were before.
UnlockAlways(was_enabled) == TRUE

\* Mutant: SchedUnlockIrq leaves interrupts off.
UnlockNever(was_enabled) == FALSE

SchedUnlockIrq(was_enabled) == was_enabled

\* SchedSwitch from cur, which will go on as how, to u.  A new task starts with
\* the flags 0x202 that its stack was prepared with; any other is inside its own
\* SchedYield and has was_enabled from there.
SwitchTo(u, how) ==
    /\ u # cur
    /\ cur' = u
    /\ resume' = [resume EXCEPT ![cur] = how]
    /\ irqs' = IF resume[u] = "new" THEN TRUE
             ELSE SchedUnlockIrq(resume[u] = "yieldOn")
    /\ stage' = IF resume[u] = "preempted" THEN "iret" ELSE "task"
    /\ UNCHANGED <<line, depth, section>>

\* Mutant: the preemption comes before the EOI.
PreemptBeforeEoi(u) ==
    /\ stage = "eoi"
    /\ PreemptPending
    /\ SwitchTo(u, "preempted")
    /\ PreemptPending' = FALSE
    /\ UNCHANGED <<picVars, otherVars>>

\* SchedPreempt at the end of isr_dispatch switches to u ...
Preempt(u) ==
    /\ stage = "SchedPreempt"
    /\ PreemptPending
    /\ SwitchTo(u, "preempted")
    /\ PreemptPending' = FALSE
    /\ UNCHANGED <<picVars, otherVars>>

\* ... or returns: nothing was asked for, or there is nobody else.
NoPreempt ==
    /\ stage = "SchedPreempt"
    /\ stage' = "iret"
    /\ PreemptPending' \in {FALSE, PreemptPending}
    /\ UNCHANGED <<picVars, irqs, cur, line, resume, depth, section, otherVars>>

Iret ==
    /\ stage = "iret"
    /\ irqs' = TRUE
    /\ stage' = "task"
    /\ line' = None
    /\ depth' = [depth EXCEPT ![cur] = @ - 1]
    /\ UNCHANGED <<picVars, cur, resume, section, PreemptPending, otherVars>>

\* SchedYield from the code of the task, with interrupts on or off.
Yield(u) ==
    /\ stage = "task"
    /\ SwitchTo(u, IF irqs THEN "yieldOn" ELSE "yieldOff")
    /\ UNCHANGED <<picVars, PreemptPending, otherVars>>

\* The task enters and leaves a critical section.
Cli ==
    /\ stage = "task"
    /\ irqs
    /\ irqs' = FALSE
    /\ section' = section \cup {cur}
    /\ UNCHANGED <<picVars, cur, stage, line, resume, depth, PreemptPending,
                   otherVars>>

Sti ==
    /\ stage = "task"
    /\ cur \in section
    /\ irqs' = TRUE
    /\ section' = section \ {cur}
    /\ UNCHANGED <<picVars, cur, stage, line, resume, depth, PreemptPending,
                   otherVars>>

-----------------------------------------------------------------------------
(* timer_uptime_ms, called by one task.                                    *)

Ms(secs, rem) == secs * 1000 + (rem * 1000) \div ticks_per_second

UptimeOf(t) == Ms(t \div ticks_per_second, t % ticks_per_second)

InTask(t) == stage = "task" /\ cur = t

\* Mutant: the remainder is read first.
UptimeSwapped ==
    /\ InTask(Registrar)
    /\ \/ up.at = "first" /\ up' = [at |-> "second", first |-> tick_count, ms |-> 0]
       \/ /\ up.at = "second"
          /\ up' = [up EXCEPT !.at = "first",
                      !.ms = Ms(tick_count \div ticks_per_second,
                                up.first % ticks_per_second)]
    /\ UNCHANGED <<picVars, cpuVars, tick_count, reg>>

\* secs is computed from the first read of tick_count, rem from the second.
timer_uptime_ms ==
    /\ InTask(Registrar)
    /\ \/ up.at = "first" /\ up' = [at |-> "second", first |-> tick_count, ms |-> 0]
       \/ /\ up.at = "second"
          /\ up' = [up EXCEPT !.at = "first",
                      !.ms = Ms(up.first \div ticks_per_second,
                                tick_count % ticks_per_second)]
    /\ UNCHANGED <<picVars, cpuVars, tick_count, reg>>

-----------------------------------------------------------------------------
(* Drivers that come and go.                                               *)

\* Mutant: the slave's line is opened and the cascade is not.
RegisterNoCascade ==
    /\ InTask(Registrar)
    /\ \/ /\ reg = "out" /\ DriverLine \notin handlers
          /\ handlers' = handlers \cup {DriverLine}
          /\ reg' = "unmask" /\ UNCHANGED imr
       \/ /\ reg = "unmask"
          /\ imr' = imr \ {DriverLine}
          /\ reg' = "out" /\ UNCHANGED handlers
    /\ UNCHANGED <<irr, isr, cpuVars, tick_count, up>>

\* irq_register: the handler, then the mask, then the cascade's mask.  One task
\* does this, so the mask it writes is the one it read.
irq_register ==
    /\ InTask(Registrar)
    /\ \/ /\ reg = "out" /\ DriverLine \notin handlers
          /\ handlers' = handlers \cup {DriverLine}
          /\ reg' = "unmask" /\ UNCHANGED imr
       \/ /\ reg = "unmask"
          /\ imr' = imr \ {DriverLine}
          /\ reg' = IF DriverLine \in Slave THEN "cascade" ELSE "out"
          /\ UNCHANGED handlers
       \/ /\ reg = "cascade"
          /\ imr' = imr \ {Cascade}
          /\ reg' = "out" /\ UNCHANGED handlers
    /\ UNCHANGED <<irr, isr, cpuVars, tick_count, up>>

\* irq_unregister: the handler goes first, so its line may still interrupt.
irq_unregister ==
    /\ InTask(Registrar)
    /\ \/ /\ reg = "out" /\ DriverLine \in handlers
          /\ handlers' = handlers \ {DriverLine}
          /\ reg' = "mask" /\ UNCHANGED imr
       \/ /\ reg = "mask"
          /\ imr' = imr \cup {DriverLine}
          /\ reg' = "out" /\ UNCHANGED handlers
    /\ UNCHANGED <<irr, isr, cpuVars, tick_count, up>>

-----------------------------------------------------------------------------

\* The lines that pic_init masks.
pic_init == 0..15

\* After hw_init: timer_init and keyboard_init have registered their lines, and
\* interrupts are on.
Init ==
    /\ irr = {} /\ isr = {}
    /\ imr = pic_init \ {TimerLine, KeyboardLine}
    /\ handlers = {TimerLine, KeyboardLine}
    /\ irqs = TRUE
    /\ cur \in Tasks
    /\ stage = "task"
    /\ line = None
    /\ resume = [t \in Tasks |-> "new"]
    /\ depth = [t \in Tasks |-> 0]
    /\ section = {}
    /\ PreemptPending = FALSE
    /\ tick_count = 0
    /\ up = [at |-> "first", first |-> 0, ms |-> 0]
    /\ reg = "out"

InterruptStep ==
    \/ Spurious \/ Handle \/ SendEoi \/ NoPreempt \/ Iret
    \/ \E u \in Tasks : Preempt(u)

TaskStep ==
    \/ Cli \/ Sti \/ \E u \in Tasks : Yield(u)
    \/ timer_uptime_ms \/ irq_register \/ irq_unregister

Next ==
    \/ \E l \in Lines : Raise(l) \/ Deliver(l)
    \/ \E l \in {7, 15} : Glitch(l)
    \/ InterruptStep \/ TaskStep

Spec == Init /\ [][Next]_vars

\* The controller keeps a request until the CPU takes it, at the latest after the
\* next instruction with interrupts on; a handler runs to its end; a critical
\* section of a task is finite.
Fairness ==
    /\ \A l \in Lines : SF_vars(Deliver(l))
    /\ WF_vars(InterruptStep)
    /\ WF_vars(Sti)

FairSpec == Spec /\ Fairness

-----------------------------------------------------------------------------

\* "The scheduler must not switch tasks while the line is still in service"
\* (isr_dispatch): a line is in service only while its own interrupt is being
\* dispatched, with interrupts off and on the stack of the task it interrupted;
\* a real or spurious one of the slave holds the cascade with it.  When task code
\* runs, both controllers are free to deliver anything.
ServiceEndsFirst ==
    isr # {} =>
        /\ stage \in {"dispatch", "eoi"}
        /\ ~irqs
        /\ Input(line) \in isr
        /\ isr \subseteq {line, Input(line)}

\* Interrupts do not nest: a task has at most one unfinished interrupt on its
\* stack, however often it is preempted inside isr_dispatch and resumed, because
\* SchedYield gives it back the flag it had there.  A task that is off the CPU has
\* one exactly when it was preempted.
OneFrame ==
    \A t \in Tasks :
        depth[t] = IF t = cur THEN (IF stage = "task" THEN 0 ELSE 1)
                   ELSE (IF resume[t] = "preempted" THEN 1 ELSE 0)

\* A driver's line is open: outside irq_register and irq_unregister the lines with
\* a handler are the ones not masked, and the cascade is open for one of the slave.
RegisteredIsOpen ==
    reg = "out" =>
        /\ handlers = (0..15) \ (imr \cup {Cascade})
        /\ handlers \cap Slave # {} => Cascade \notin imr

\* timer_uptime_ms reads tick_count twice, and ticks come between the reads.  The
\* result is never ahead of the clock at its return, and less than a second
\* behind the clock at its call.
UptimeIsClose ==
    up.at = "first" =>
        /\ up.ms <= UptimeOf(tick_count)
        /\ up.ms + 1000 > UptimeOf(up.first)

\* No request is left pending for ever ("the controller would stop delivering
\* interrupts"): through preemptions, spurious interrupts and critical sections
\* the timer is served again and again, and only requests of a higher priority
\* hold up another line.
RequestsAreServed ==
    \A l \in Lines : l \in irr ~>
        \/ l \notin irr
        \/ {l, Input(l)} \cap imr # {}
        \/ \E h \in irr : Input(h) < Input(l)

=============================================================================
