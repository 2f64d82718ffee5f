-------------------------- MODULE InterruptsProofs --------------------------
(***************************************************************************)
(* Proofs about Interrupts, for any set of tasks and of lines: interrupts  *)
(* never nest on a task's stack, a line leaves service before the          *)
(* scheduler can switch tasks, and registered lines are open.              *)
(***************************************************************************)
EXTENDS Interrupts, TLAPS

Resumes == {"new", "yieldOn", "yieldOff", "preempted"}

\* The part of the types that the proof needs.
CpuTypes ==
    /\ isr \subseteq 0..15
    /\ irqs \in BOOLEAN
    /\ cur \in Tasks
    /\ stage \in {"task", "dispatch", "eoi", "SchedPreempt", "iret"}
    /\ line \in 0..15 \cup {None}
    /\ resume \in [Tasks -> Resumes]
    /\ depth \in [Tasks -> Nat]

\* The inductive invariant: besides the two properties, the flag is off from the
\* entry of an interrupt to its iret, and a line is known until its EOI.
IInv ==
    /\ CpuTypes
    /\ stage # "task" => ~irqs
    /\ stage \in {"dispatch", "eoi"} => line \in 0..15
    /\ ServiceEndsFirst
    /\ OneFrame

-----------------------------------------------------------------------------

\* Acknowledging a chip on which at most line i is in service leaves none there.
LEMMA AckClears ==
    ASSUME NEW l \in 0..15, NEW i \in 0..15, i \in Chip(l),
           NEW s \in SUBSET (0..15), s \cap Chip(l) \subseteq {i}
    PROVE  Acknowledged(s, l) = s \ {i}
  BY DEF Acknowledged, Chip, Slave

\* The EOIs of isr_dispatch end the service of the line and of its cascade.
LEMMA EoiClears ==
    ASSUME NEW l \in 0..15, NEW s, s \subseteq {l, Input(l)}
    PROVE  Eoi(s, l) = {}
<1>1. CASE l \in Slave
  <2>1. s \subseteq {l, Cascade} BY <1>1 DEF Input
  <2>2. /\ Chip(l) = 8..15 /\ Chip(Cascade) = 0..7 /\ Cascade \in 0..7
        /\ l \in 8..15
    BY <1>1 DEF Chip, Slave, Cascade
  <2>3. s \in SUBSET (0..15) /\ s \cap Chip(l) \subseteq {l} /\ l \in Chip(l)
    BY <2>1, <2>2
  <2>4. Acknowledged(s, l) = s \ {l}
    BY <2>3, AckClears
  <2>5. /\ s \ {l} \in SUBSET (0..15)
        /\ (s \ {l}) \cap Chip(Cascade) \subseteq {Cascade}
        /\ Cascade \in Chip(Cascade) /\ Cascade \in 0..15
    BY <2>1, <2>2, <2>3
  <2>6. Acknowledged(s \ {l}, Cascade) = (s \ {l}) \ {Cascade}
    BY <2>5, AckClears
  <2>7. QED
    BY <1>1, <2>1, <2>4, <2>6 DEF Eoi
<1>2. CASE l \notin Slave
  <2>1. s \subseteq {l} /\ l \in 0..7 BY <1>2 DEF Input, Slave
  <2>2. Chip(Cascade) = 0..7 /\ Cascade \in 0..15 BY DEF Chip, Slave, Cascade
  <2>3. s \in SUBSET (0..15) /\ s \cap Chip(Cascade) \subseteq {l} /\ l \in Chip(Cascade)
    BY <2>1, <2>2
  <2>4. Acknowledged(s, Cascade) = s \ {l}
    BY <2>2, <2>3, AckClears
  <2>5. QED
    BY <1>2, <2>1, <2>4 DEF Eoi
<1>3. QED BY <1>1, <1>2

-----------------------------------------------------------------------------

\* A task switch, made while no line is in service, keeps every task's frames.
LEMMA SwitchKeeps ==
    ASSUME IInv, isr = {}, UNCHANGED isr, NEW u \in Tasks, NEW how \in Resumes,
           how = "preempted" <=> stage # "task", SwitchTo(u, how)
    PROVE  IInv'
<1>1. CpuTypes'
  BY DEF IInv, CpuTypes, SwitchTo, SchedUnlockIrq, Resumes
<1>2. (stage # "task" => ~irqs)'
  BY DEF IInv, CpuTypes, SwitchTo, SchedUnlockIrq
<1>3. (stage \in {"dispatch", "eoi"} => line \in 0..15)'
  BY DEF SwitchTo
<1>4. ServiceEndsFirst'
  BY DEF ServiceEndsFirst
<1>5. OneFrame'
  <2>1. \A t \in Tasks : resume'[t] = IF t = cur THEN how ELSE resume[t]
    BY DEF SwitchTo, IInv, CpuTypes
  <2>2. cur' = u /\ u # cur /\ depth' = depth
        /\ stage' = (IF resume[u] = "preempted" THEN "iret" ELSE "task")
    BY DEF SwitchTo
  <2>3. QED
    BY <2>1, <2>2 DEF IInv, OneFrame, CpuTypes
<1>6. QED BY <1>1, <1>2, <1>3, <1>4, <1>5 DEF IInv

\* An interrupt that takes the CPU finds no other on the task's stack.
LEMMA EnterKeeps ==
    ASSUME IInv, NEW l \in 0..15, Enter(l),
           isr' \subseteq {l, Input(l)}, isr' # {} => Input(l) \in isr'
    PROVE  IInv'
<1>1. stage = "task" /\ depth[cur] = 0 BY DEF IInv, Enter, OneFrame, CpuTypes
<1>2. isr' \subseteq 0..15 BY DEF Input, Cascade
<1>3. CpuTypes'
  <2>1. depth' \in [Tasks -> Nat] BY DEF IInv, CpuTypes, Enter
  <2>2. line' \in 0..15 \cup {None} BY DEF Enter
  <2>3. irqs' \in BOOLEAN BY DEF Enter
  <2>4. QED BY <1>2, <2>1, <2>2, <2>3 DEF IInv, CpuTypes, Enter
<1>4. ServiceEndsFirst'
  <2>1. line' = l /\ stage' = "dispatch" /\ irqs' = FALSE BY DEF Enter
  <2>2. Input(line') = Input(l) BY <2>1
  <2>3. QED BY <2>1, <2>2 DEF ServiceEndsFirst
<1>5. OneFrame'
  <2>1. \A t \in Tasks : depth'[t] = IF t = cur THEN 1 ELSE depth[t]
    BY <1>1 DEF Enter, IInv, CpuTypes
  <2>2. QED BY <1>1, <2>1 DEF Enter, IInv, OneFrame, CpuTypes
<1>6. QED BY <1>3, <1>4, <1>5 DEF IInv, Enter

LEMMA InitIInv == ASSUME InterruptsAssumption, Init PROVE IInv
BY DEF InterruptsAssumption, Init, IInv, CpuTypes, ServiceEndsFirst, OneFrame, Resumes, None

LEMMA NextIInv == ASSUME InterruptsAssumption, IInv, [Next]_vars PROVE IInv'
<1> USE DEF IInv
<1>0. irqs => stage = "task" /\ isr = {} BY DEF ServiceEndsFirst
<1>1. ASSUME NEW l \in Lines, Raise(l) PROVE IInv'
  BY <1>1 DEF Raise, cpuVars, CpuTypes, ServiceEndsFirst, OneFrame
<1>2. ASSUME NEW l \in Lines, Deliver(l) PROVE IInv'
  <2>1. l \in 0..15 BY DEF InterruptsAssumption
  <2>2. isr' = {l, Input(l)} BY <1>0, <1>2 DEF Deliver, Enter
  <2>3. QED BY <1>2, <2>1, <2>2, EnterKeeps DEF Deliver
<1>3. ASSUME NEW l \in {7, 15}, Glitch(l) PROVE IInv'
  <2>1. isr' = IF l = 15 THEN {Cascade} ELSE {} BY <1>0, <1>3 DEF Glitch, Enter
  <2>2. isr' \subseteq {l, Input(l)} /\ (isr' # {} => Input(l) \in isr')
    BY <2>1 DEF Input, Slave
  <2>3. l \in 0..15 OBVIOUS
  <2>4. QED BY <1>3, <2>2, <2>3, EnterKeeps DEF Glitch
<1>4. CASE Spurious
  <2>1. isr' = {}
    <3>1. isr \subseteq {line, Input(line)} BY DEF ServiceEndsFirst
    <3>2. CASE line = 15
      <4>1. isr \subseteq {Cascade} BY <1>4, <3>1, <3>2 DEF Spurious, Input, Slave
      <4>2. Chip(Cascade) = 0..7 /\ Cascade \in 0..7 BY DEF Chip, Cascade, Slave
      <4>3. isr \in SUBSET (0..15) /\ isr \cap Chip(Cascade) \subseteq {Cascade}
            /\ Cascade \in Chip(Cascade) /\ Cascade \in 0..15
        BY <4>1, <4>2
      <4>4. Acknowledged(isr, Cascade) = isr \ {Cascade} BY <4>3, AckClears
      <4>5. QED BY <1>4, <3>2, <4>1, <4>4 DEF Spurious
    <3>3. CASE line = 7
      <4>1. isr \subseteq {7} BY <3>1, <3>3 DEF Input, Slave
      <4>2. QED BY <1>4, <3>3, <4>1 DEF Spurious
    <3>4. QED BY <1>4, <3>2, <3>3 DEF Spurious
  <2>2. QED BY <1>4, <2>1 DEF Spurious, CpuTypes, ServiceEndsFirst, OneFrame
<1>5. CASE Handle
  BY <1>5 DEF Handle, timer_callback, picVars, CpuTypes, ServiceEndsFirst, OneFrame
<1>6. CASE SendEoi
  <2>1. line \in 0..15 /\ isr \subseteq {line, Input(line)}
    BY <1>6 DEF SendEoi, ServiceEndsFirst
  <2>2. isr' = {} BY <1>6, <2>1, EoiClears DEF SendEoi
  <2>3. QED BY <1>6, <2>2 DEF SendEoi, CpuTypes, ServiceEndsFirst, OneFrame
<1>7. ASSUME NEW u \in Tasks, Preempt(u) PROVE IInv'
  <2>1. isr = {} /\ isr' = isr /\ stage # "task"
    BY <1>7 DEF Preempt, picVars, ServiceEndsFirst
  <2>2. QED BY <1>7, <2>1, SwitchKeeps DEF Preempt, Resumes
<1>8. CASE NoPreempt
  BY <1>8 DEF NoPreempt, picVars, CpuTypes, ServiceEndsFirst, OneFrame
<1>9. CASE Iret
  <2>1. isr = {} /\ isr' = isr BY <1>9 DEF Iret, picVars, ServiceEndsFirst
  <2>2. depth[cur] = 1 BY <1>9 DEF Iret, OneFrame, CpuTypes
  <2>3. \A t \in Tasks : depth'[t] = IF t = cur THEN 0 ELSE depth[t]
    BY <1>9, <2>2 DEF Iret, CpuTypes
  <2>4. OneFrame' BY <1>9, <2>3 DEF Iret, OneFrame, CpuTypes
  <2>5. CpuTypes' BY <1>9, <2>1, <2>2, <2>3 DEF Iret, CpuTypes
  <2>6. QED BY <1>9, <2>1, <2>4, <2>5 DEF Iret, ServiceEndsFirst
<1>10. ASSUME NEW u \in Tasks, Yield(u) PROVE IInv'
  <2>1. isr = {} /\ isr' = isr /\ stage = "task"
    BY <1>10 DEF Yield, picVars, ServiceEndsFirst
  <2>2. QED BY <1>10, <2>1, SwitchKeeps DEF Yield, Resumes
<1>11. CASE Cli \/ Sti
  BY <1>11 DEF Cli, Sti, picVars, CpuTypes, ServiceEndsFirst, OneFrame
<1>12. CASE timer_uptime_ms \/ irq_register \/ irq_unregister
  BY <1>12 DEF timer_uptime_ms, irq_register, irq_unregister, picVars, cpuVars, CpuTypes,
              ServiceEndsFirst, OneFrame
<1>13. CASE UNCHANGED vars
  BY <1>13 DEF vars, picVars, cpuVars, CpuTypes, ServiceEndsFirst, OneFrame
<1>14. QED
  BY <1>1, <1>2, <1>3, <1>4, <1>5, <1>6, <1>7, <1>8, <1>9, <1>10, <1>11, <1>12, <1>13
     DEF Next, InterruptStep, TaskStep

-----------------------------------------------------------------------------

\* isr_dispatch acknowledges a line before SchedPreempt may switch tasks, and task
\* code runs with nothing in service, for any number of tasks and lines.
THEOREM InterruptsService == Spec => []ServiceEndsFirst
<1>1. Init => IInv BY InitIInv, InterruptsAssumption
<1>2. IInv /\ [Next]_vars => IInv' BY NextIInv, InterruptsAssumption
<1>3. IInv => ServiceEndsFirst BY DEF IInv
<1>4. QED BY <1>1, <1>2, <1>3, PTL DEF Spec

\* A task has at most one unfinished interrupt on its stack, because SchedYield
\* gives a preempted task back the flag it had inside isr_dispatch.
THEOREM InterruptsOneFrame == Spec => []OneFrame
<1>1. Init => IInv BY InitIInv, InterruptsAssumption
<1>2. IInv /\ [Next]_vars => IInv' BY NextIInv, InterruptsAssumption
<1>3. IInv => OneFrame BY DEF IInv
<1>4. QED BY <1>1, <1>2, <1>3, PTL DEF Spec

-----------------------------------------------------------------------------

Open == (0..15) \ (imr \cup {Cascade})

\* What irq_register and irq_unregister have done so far: the driver's handler may be
\* ahead of its mask, and the cascade's mask comes last.
RInv ==
    /\ imr \subseteq 0..15
    /\ reg \in {"out", "unmask", "cascade", "mask"}
    /\ reg \in {"out", "cascade"} => handlers = Open
    /\ reg = "unmask" => handlers = Open \cup {DriverLine}
    /\ reg = "mask" => DriverLine \notin handlers /\ Open = handlers \cup {DriverLine}
    /\ reg = "cascade" => DriverLine \in Slave
    /\ reg = "out" => (handlers \cap Slave # {} => Cascade \notin imr)
    /\ reg # "out" => ((handlers \ {DriverLine}) \cap Slave # {} => Cascade \notin imr)

LEMMA DriverIs == DriverLine \in 0..15 /\ DriverLine # Cascade
BY InterruptsAssumption

LEMMA InitRInv == ASSUME Init PROVE RInv
<1>1. imr = (0..15) \ {0, 1} /\ handlers = {0, 1} /\ reg = "out"
  BY DEF Init, pic_init, TimerLine, KeyboardLine
<1>2. Open = {0, 1} BY <1>1 DEF Open, Cascade
<1>3. handlers \cap Slave = {} BY <1>1 DEF Slave
<1>4. QED BY <1>1, <1>2, <1>3 DEF RInv

LEMMA RegisterKeeps == ASSUME RInv, irq_register PROVE RInv'
<1> USE DEF RInv, Open
<1>1. CASE reg = "out"
  <2>1. /\ DriverLine \notin handlers /\ handlers' = handlers \cup {DriverLine}
        /\ reg' = "unmask" /\ imr' = imr
    BY <1>1 DEF irq_register
  <2>2. QED BY <1>1, <2>1
<1>2. CASE reg = "unmask"
  <2>1. /\ imr' = imr \ {DriverLine} /\ handlers' = handlers
        /\ reg' = IF DriverLine \in Slave THEN "cascade" ELSE "out"
    BY <1>2 DEF irq_register
  <2>2. handlers' = Open' BY <1>2, <2>1, DriverIs
  <2>3. Cascade \in imr' => Cascade \in imr BY <2>1
  <2>4. QED BY <1>2, <2>1, <2>2, <2>3
<1>3. CASE reg = "cascade"
  <2>1. imr' = imr \ {Cascade} /\ handlers' = handlers /\ reg' = "out"
    BY <1>3 DEF irq_register
  <2>2. QED BY <1>3, <2>1
<1>4. QED BY <1>1, <1>2, <1>3 DEF irq_register

LEMMA UnregisterKeeps == ASSUME RInv, irq_unregister PROVE RInv'
<1> USE DEF RInv, Open
<1>1. CASE reg = "out"
  <2>1. /\ DriverLine \in handlers /\ handlers' = handlers \ {DriverLine}
        /\ reg' = "mask" /\ imr' = imr
    BY <1>1 DEF irq_unregister
  <2>2. QED BY <1>1, <2>1
<1>2. CASE reg = "mask"
  <2>1. imr' = imr \cup {DriverLine} /\ handlers' = handlers /\ reg' = "out"
    BY <1>2 DEF irq_unregister
  <2>2. handlers' = Open' BY <1>2, <2>1, DriverIs
  <2>3. Cascade \in imr' => Cascade \in imr BY <2>1, DriverIs
  <2>4. QED BY <1>2, <2>1, <2>2, <2>3, DriverIs
<1>3. QED BY <1>1, <1>2 DEF irq_unregister

LEMMA NextRInv == ASSUME RInv, [Next]_vars PROVE RInv'
<1>1. CASE irq_register BY <1>1, RegisterKeeps
<1>2. CASE irq_unregister BY <1>2, UnregisterKeeps
<1>3. CASE ~irq_register /\ ~irq_unregister
  <2>1. UNCHANGED <<imr, handlers, reg>>
    BY <1>3 DEF Next, InterruptStep, TaskStep, Raise, Deliver, Glitch, Spurious, Handle,
           timer_callback, SendEoi, Preempt, NoPreempt, Iret, Yield, Cli, Sti, timer_uptime_ms,
           vars, picVars, otherVars
  <2>2. QED BY <2>1 DEF RInv, Open
<1>4. QED BY <1>1, <1>2, <1>3

\* Whatever interrupts come between the stores of irq_register and irq_unregister, when
\* they are through exactly the lines with a handler are open, for any driver's line.
THEOREM InterruptsRegistered == Spec => []RegisteredIsOpen
<1>1. Init => RInv BY InitRInv
<1>2. RInv /\ [Next]_vars => RInv' BY NextRInv
<1>3. RInv => RegisteredIsOpen BY DEF RInv, RegisteredIsOpen, Open
<1>4. QED BY <1>1, <1>2, <1>3, PTL DEF Spec

=============================================================================
