----------------------- MODULE InterruptManager_proofs -----------------------
(***************************************************************************)
(* Proofs about InterruptManager, for any number of tasks, any length of   *)
(* the task table, any interrupt lines and any number of ESC keys.         *)
(***************************************************************************)
EXTENDS InterruptManager, TLAPS

Last(x) == frames[x][Len(frames[x])]

(* Nobody's stack but kernel_main's and the tasks' is in use; whoever does *)
(* not run sleeps; and kernel_main, once it has given the CPU to a task,   *)
(* never gets it back, so while it runs no task has run.                   *)
StacksSettled ==
  /\ cpu \in {Boot} \cup Tasks
  /\ \A x \in Contexts \ ({Boot} \cup Tasks) : frames[x] = <<>>
  /\ \A x \in Contexts \ {cpu} : frames[x] # <<>> => Last(x).stage = "asleep"
  /\ cpu = Boot => \A t \in Tasks : Len(frames[t]) = 1

(* The innermost frame of the running context; IF is set in a handler only *)
(* if that is the keyboard's, behind its sti.                              *)
TopSettled ==
  InHandler =>
    /\ Top.stage # "asleep"
    /\ Top.stage = "entered" => Top.esp = Here
    /\ iflag => /\ Top.irq = Keyboard /\ Top.stage \in {"eoi", "return"}
                /\ Top.esp = Here

(* The stack pointer about to be loaded is the innermost frame of a task   *)
(* that does not run.                                                      *)
SwitchSettled ==
  Switching =>
    /\ Top.irq = Timer
    /\ \E t \in Tasks \ {cpu} : Top.esp = <<t, Len(frames[t])>>

(* While the manager is inactive, kernel_main runs, and no interrupt is    *)
(* interrupted.                                                            *)
InactiveSettled ==
  ~ active => current_task = NoTask /\ Depth <= 1 /\ (InHandler => ~ iflag)

Awaits(x, d) == d \in DOMAIN frames[x] /\ frames[x][d].stage \in {"entered", "eoi"}
Line(x, d)   == MasterLine(frames[x][d].irq)

(* What the PICs' order of EOIs rests on: of the handlers that have not    *)
(* come to their EOI each is on a line of its own; the only one that is    *)
(* not the most urgent in service is one that the running timer interrupt  *)
(* has interrupted; and one on the slave is alone there.                   *)
EoiOrder ==
  /\ \A x, y \in Contexts : \A d \in DOMAIN frames[x], e \in DOMAIN frames[y] :
       Awaits(x, d) /\ Awaits(y, e) /\ Line(x, d) = Line(y, e) => x = y /\ d = e
  /\ \A x \in Contexts : \A d \in DOMAIN frames[x], s \in master :
       Awaits(x, d) /\ s < Line(x, d) =>
         /\ s = Timer /\ <<x, d>> # Here
         /\ InHandler /\ Top.irq = Timer /\ Top.stage \in {"entered", "eoi"}
  /\ \A x \in Contexts : \A d \in DOMAIN frames[x] :
       Awaits(x, d) /\ frames[x][d].irq >= 8 => slave = {frames[x][d].irq}
  /\ slave # {} => Cascade \in master

IInv ==
  /\ TypeOK /\ ContextIntact /\ OnlyEscapeNests /\ InServiceMatchesFrames
  /\ StacksSettled /\ TopSettled /\ SwitchSettled /\ InactiveSettled /\ EoiOrder

-----------------------------------------------------------------------------
(* The stacks.                                                             *)

LEMMA FrameFields ==
  \A f \in Frame : /\ f.irq \in Irqs /\ f.stage \in Stages /\ f.esp \in Location
                   /\ f = [irq |-> f.irq, stage |-> f.stage, esp |-> f.esp]
BY DEF Frame

LEMMA StackFacts ==
  ASSUME TypeOK
  PROVE  /\ \A x \in Contexts :
              /\ frames[x] \in Seq(Frame) /\ Len(frames[x]) \in Nat
              /\ DOMAIN frames[x] = 1 .. Len(frames[x])
              /\ \A d \in DOMAIN frames[x] : frames[x][d] \in Frame
         /\ cpu \in Contexts /\ Depth \in Nat /\ Tasks \subseteq Contexts \ {Boot}
         /\ InHandler => Depth \in DOMAIN frames[cpu] /\ Top \in Frame
<1>1. \A x \in Contexts :
        /\ frames[x] \in Seq(Frame) /\ Len(frames[x]) \in Nat
        /\ DOMAIN frames[x] = 1 .. Len(frames[x])
        /\ \A d \in DOMAIN frames[x] : frames[x][d] \in Frame
  BY DEF TypeOK
<1>2. cpu \in Contexts /\ num_tasks \in 0 .. MaxTasks
  BY DEF TypeOK
<1>3. Tasks \subseteq Contexts \ {Boot}
  BY <1>2, InterruptAssumption DEF Tasks, Contexts, Boot
<1>4. InHandler => Depth \in DOMAIN frames[cpu] /\ Top \in Frame
  BY <1>1, <1>2 DEF InHandler, Depth, Top
<1> QED BY <1>1, <1>2, <1>3, <1>4 DEF Depth

(* The innermost frame is replaced by f.                                   *)
TopBecomes(f) == frames' = [frames EXCEPT ![cpu] = [@ EXCEPT ![Depth] = f]]

LEMMA TopBecomesFacts ==
  ASSUME TypeOK, InHandler, NEW f \in Frame, TopBecomes(f)
  PROVE  /\ frames' \in [Contexts -> Seq(Frame)]
         /\ \A x \in Contexts : /\ Len(frames'[x]) = Len(frames[x])
                                /\ DOMAIN frames'[x] = DOMAIN frames[x]
         /\ \A x \in Contexts : \A d \in DOMAIN frames[x] :
              frames'[x][d] = IF x = cpu /\ d = Depth THEN f ELSE frames[x][d]
<1>1. /\ cpu \in Contexts /\ frames \in [Contexts -> Seq(Frame)]
      /\ frames[cpu] \in Seq(Frame) /\ Depth \in 1 .. Len(frames[cpu])
  BY StackFacts DEF TypeOK
<1> DEFINE s == [frames[cpu] EXCEPT ![Depth] = f]
<1>2. /\ s \in Seq(Frame) /\ Len(s) = Len(frames[cpu])
      /\ DOMAIN s = DOMAIN frames[cpu]
      /\ \A d \in DOMAIN frames[cpu] : s[d] = IF d = Depth THEN f ELSE frames[cpu][d]
  BY <1>1
<1>3. frames' = [frames EXCEPT ![cpu] = s]
  BY DEF TopBecomes
<1> HIDE DEF s
<1>4. \A x \in Contexts : frames'[x] = IF x = cpu THEN s ELSE frames[x]
  BY <1>1, <1>3
<1>5. frames' \in [Contexts -> Seq(Frame)]
  BY <1>1, <1>2, <1>3
<1> QED BY <1>2, <1>4, <1>5

LEMMA AdvanceIsTopBecomes ==
  ASSUME TypeOK, InHandler, NEW stage \in Stages, Advance(stage)
  PROVE  /\ [Top EXCEPT !.stage = stage] \in Frame
         /\ TopBecomes([Top EXCEPT !.stage = stage])
<1>1. Top \in Frame
  BY StackFacts
<1> QED BY <1>1 DEF Frame, Advance, TopBecomes, Top

LEMMA TopAfter ==
  ASSUME TypeOK, InHandler, NEW f \in Frame, TopBecomes(f), cpu' = cpu
  PROVE  /\ Depth' = Depth /\ Top' = f /\ InHandler' /\ Here' = Here
         /\ Switching' <=> f.stage \in {"eoi", "return"} /\ f.esp # Here
<1>1. cpu \in Contexts /\ Depth \in DOMAIN frames[cpu]
  BY StackFacts
<1>2. Depth' = Depth
  BY <1>1, TopBecomesFacts DEF Depth
<1>3. Top' = f
  BY <1>1, <1>2, TopBecomesFacts DEF Top
<1>4. InHandler' /\ Here' = Here
  BY <1>2 DEF InHandler, Here, Depth
<1> QED BY <1>2, <1>3, <1>4 DEF Switching

(* What the invariants say of the stacks alone.                            *)
StackInv ==
  /\ ContextIntact /\ OnlyEscapeNests
  /\ StacksSettled /\ TopSettled /\ SwitchSettled /\ InactiveSettled

PicInv == InServiceMatchesFrames /\ EoiOrder

(* A step that leaves the stacks and the task table alone.                 *)
LEMMA StacksKept ==
  ASSUME TypeOK, StackInv, UNCHANGED <<cpu, frames, num_tasks, current_task, cpu_state>>,
         InHandler => iflag' = iflag,
         active' = active \/ (active' = TRUE) \/ (cpu = Boot /\ ~ InHandler)
  PROVE  StackInv'
<1>1. /\ Depth' = Depth /\ Top' = Top /\ Here' = Here
      /\ InHandler' = InHandler /\ Switching' = Switching /\ Tasks' = Tasks
  BY DEF Depth, Top, Here, InHandler, Switching, Tasks
<1>2. ContextIntact' /\ OnlyEscapeNests'
  BY <1>1 DEF StackInv, ContextIntact, OnlyEscapeNests
<1>3. StacksSettled' /\ TopSettled' /\ SwitchSettled'
  BY <1>1 DEF StackInv, StacksSettled, TopSettled, SwitchSettled, Last
<1>4. InactiveSettled'
  <2>1. CASE cpu = Boot /\ ~ InHandler
    <3>1. current_task = NoTask
      BY <2>1 DEF StackInv, ContextIntact, Switching, Boot, NoTask
    <3>2. Depth = 0
      BY <2>1, StackFacts DEF InHandler
    <3> QED BY <1>1, <2>1, <3>1, <3>2 DEF InactiveSettled
  <2>2. CASE active' = active \/ active' = TRUE
    BY <1>1, <2>2 DEF StackInv, InactiveSettled
  <2> QED BY <2>1, <2>2
<1> QED BY <1>2, <1>3, <1>4 DEF StackInv

(* A step of a handler that moves its frame to the next stage.             *)
LEMMA AdvanceStack ==
  ASSUME TypeOK, StackInv, InHandler, NEW stage \in {"eoi", "return"}, Advance(stage),
         Top.stage \in {"entered", "eoi"}, UNCHANGED <<active, cpu, sched>>,
         iflag' = iflag \/ (Top.irq = Keyboard /\ Top.stage = "entered" /\ active)
  PROVE  StackInv'
<1> DEFINE f == [Top EXCEPT !.stage = stage]
<1>1. f \in Frame /\ TopBecomes(f)
  BY AdvanceIsTopBecomes DEF Stages
<1>2. f.irq = Top.irq /\ f.stage = stage /\ f.esp = Top.esp
  BY StackFacts DEF Frame
<1> HIDE DEF f
<1>3. /\ Depth' = Depth /\ Top' = f /\ InHandler' /\ Here' = Here
      /\ Switching' <=> f.stage \in {"eoi", "return"} /\ f.esp # Here
  BY <1>1, TopAfter
<1>4. Top.stage = "entered" => Top.esp = Here
  BY DEF StackInv, TopSettled
<1>5. Switching' <=> Switching
  BY <1>2, <1>3, <1>4 DEF Switching
<1>6. /\ UNCHANGED <<num_tasks, current_task, cpu_state>> /\ Tasks' = Tasks
  BY DEF sched, Tasks
<1>7. /\ \A x \in Contexts : /\ Len(frames'[x]) = Len(frames[x])
                             /\ DOMAIN frames'[x] = DOMAIN frames[x]
      /\ \A x \in Contexts : \A d \in DOMAIN frames[x] :
           frames'[x][d] = IF x = cpu /\ d = Depth THEN f ELSE frames[x][d]
  BY <1>1, TopBecomesFacts
<1>8. /\ cpu \in Contexts /\ Tasks \subseteq Contexts
      /\ \A x \in Contexts : Len(frames[x]) \in Nat /\ DOMAIN frames[x] = 1 .. Len(frames[x])
  BY StackFacts
<1>9. ContextIntact'
  <2>1. current_task' = IF Switching' THEN Top'.esp[1] ELSE cpu'
    BY <1>2, <1>3, <1>5, <1>6 DEF StackInv, ContextIntact
  <2>2. ASSUME NEW t \in Tasks, t # cpu \/ Switching
        PROVE  LET d == Len(frames'[t])
               IN  /\ d > 0 /\ cpu_state'[t] = <<t, d>>
                   /\ frames'[t][d].irq = Timer
                   /\ t # cpu => frames'[t][d] = [irq |-> Timer, stage |-> "asleep", esp |-> <<t, d>>]
    BY <1>2, <1>6, <1>7, <1>8, <2>2 DEF StackInv, ContextIntact, Top, Depth
  <2> QED BY <1>5, <1>6, <2>1, <2>2 DEF ContextIntact
<1>10. OnlyEscapeNests'
  BY <1>7, <1>8 DEF StackInv, OnlyEscapeNests, Depth
<1>11. StacksSettled'
  BY <1>6, <1>7, <1>8 DEF StackInv, StacksSettled, Last
<1>12. TopSettled'
  BY <1>2, <1>3, <1>4 DEF StackInv, TopSettled
<1>13. SwitchSettled'
  BY <1>2, <1>3, <1>5, <1>6, <1>7, <1>8 DEF StackInv, SwitchSettled
<1>14. InactiveSettled'
  BY <1>3, <1>6 DEF StackInv, InactiveSettled
<1> QED BY <1>9, <1>10, <1>11, <1>12, <1>13, <1>14 DEF StackInv

(* schedule() with tasks in its table: the facts the step rests on.        *)
LEMMA ScheduleFacts ==
  ASSUME TypeOK, StackInv, Schedule, num_tasks # 0
  PROVE  /\ Following \in Tasks /\ cpu = current_task /\ ~ Switching
         /\ cpu \in Tasks => Stored = [cpu_state EXCEPT ![cpu] = Here]
         /\ cpu = Boot => Stored = cpu_state
         /\ Stored \in [Contexts \ {Boot} -> Location] /\ Stored[Following] \in Location
         /\ Following = cpu => Stored[Following] = Here
         /\ Following # cpu => /\ Stored[Following] = <<Following, Len(frames[Following])>>
                               /\ Stored[Following] # Here
<1>1. /\ num_tasks \in Nat \ {0} /\ current_task \in -1 .. (num_tasks - 1)
      /\ cpu_state \in [Contexts \ {Boot} -> Location]
  BY InterruptAssumption DEF TypeOK
<1>2. Following \in 0 .. (num_tasks - 1)
  <2>1. current_task + 1 \in Nat
    BY <1>1
  <2> QED BY <1>1, <2>1 DEF Following
<1>3. Following \in Tasks /\ Tasks \subseteq Contexts \ {Boot} /\ Boot \notin Tasks
  BY <1>2, StackFacts DEF Tasks
<1>4. ~ Switching /\ cpu = current_task
  BY DEF Schedule, Switching, StackInv, ContextIntact
<1>5. Here \in Location
  BY StackFacts DEF Here, Location, Depth
<1>6. /\ cpu \in Tasks => Stored = [cpu_state EXCEPT ![cpu] = Here]
      /\ cpu = Boot => Stored = cpu_state
  BY <1>4 DEF Stored, Tasks, Boot
<1>7. cpu \in {Boot} \cup Tasks
  BY DEF StackInv, StacksSettled
<1>8. Stored \in [Contexts \ {Boot} -> Location]
  BY <1>1, <1>3, <1>5, <1>6, <1>7
<1>9. Following = cpu => Stored[Following] = Here
  BY <1>1, <1>3, <1>6, <1>7
<1>10. ASSUME Following # cpu
       PROVE  /\ Stored[Following] = <<Following, Len(frames[Following])>>
              /\ Stored[Following] # Here
  <2>1. Stored[Following] = cpu_state[Following]
    BY <1>1, <1>3, <1>6, <1>7, <1>10
  <2>2. cpu_state[Following] = <<Following, Len(frames[Following])>>
    BY <1>3, <1>10 DEF StackInv, ContextIntact
  <2> QED BY <1>10, <2>1, <2>2 DEF Here
<1> QED BY <1>3, <1>4, <1>6, <1>8, <1>9, <1>10

LEMMA ScheduleTop ==
  ASSUME TypeOK, StackInv, Schedule, num_tasks # 0
  PROVE  LET f == [irq |-> Timer, stage |-> "eoi", esp |-> Stored[Following]]
         IN  f \in Frame /\ TopBecomes(f)
<1>1. Top \in Frame /\ Top.irq = Timer /\ InHandler
  BY StackFacts DEF Schedule
<1>2. Stored[Following] \in Location
  BY ScheduleFacts
<1>3. frames' = [frames EXCEPT ![cpu][Depth].stage = "eoi",
                               ![cpu][Depth].esp = Stored[Following]]
  BY DEF Schedule
<1> DEFINE f == [irq |-> Timer, stage |-> "eoi", esp |-> Stored[Following]]
<1>4. f \in Frame
  BY <1>1, <1>2 DEF Frame, Stages
<1>5. f = [Top EXCEPT !.stage = "eoi", !.esp = Stored[Following]]
  <2>1. Top = [irq |-> Timer, stage |-> Top.stage, esp |-> Top.esp]
    BY <1>1, FrameFields
  <2>2. [Top EXCEPT !.stage = "eoi", !.esp = Stored[Following]]
          = [[Top EXCEPT !.stage = "eoi"] EXCEPT !.esp = Stored[Following]]
    OBVIOUS
  <2>3. [Top EXCEPT !.stage = "eoi"] = [irq |-> Timer, stage |-> "eoi", esp |-> Top.esp]
    BY <2>1
  <2>4. [[irq |-> Timer, stage |-> "eoi", esp |-> Top.esp] EXCEPT !.esp = Stored[Following]] = f
    OBVIOUS
  <2> HIDE DEF f
  <2> QED BY <2>2, <2>3, <2>4, Zenon
<1>6. TopBecomes(f)
  <2> HIDE DEF f
  <2>1. /\ cpu \in Contexts /\ frames \in [Contexts -> Seq(Frame)]
        /\ Depth \in DOMAIN frames[cpu] /\ frames[cpu] \in Seq(Frame)
    BY <1>1, StackFacts DEF TypeOK
  <2> QED BY <1>3, <1>5, <2>1 DEF TopBecomes, Top
<1> QED BY <1>4, <1>6

LEMMA ScheduleStack ==
  ASSUME TypeOK, StackInv, Schedule, num_tasks # 0
  PROVE  StackInv'
<1> DEFINE f == [irq |-> Timer, stage |-> "eoi", esp |-> Stored[Following]]
<1>1. f \in Frame /\ TopBecomes(f)
  BY ScheduleTop
<1>2. f.irq = Timer /\ f.stage = "eoi" /\ f.esp = Stored[Following]
  OBVIOUS
<1> HIDE DEF f
<1>3. /\ InHandler /\ active /\ Top.irq = Timer /\ Top.stage = "entered"
      /\ current_task' = Following /\ cpu_state' = Stored
      /\ UNCHANGED <<active, iflag, cpu, num_tasks>> /\ Tasks' = Tasks
  BY DEF Schedule, Tasks
<1>4. /\ Depth' = Depth /\ Top' = f /\ InHandler' /\ Here' = Here
      /\ Switching' <=> Stored[Following] # Here
  BY <1>1, <1>2, <1>3, TopAfter
<1>5. /\ Following \in Tasks /\ ~ Switching
      /\ cpu \in Tasks => Stored = [cpu_state EXCEPT ![cpu] = Here]
      /\ cpu = Boot => Stored = cpu_state
      /\ Following = cpu => Stored[Following] = Here
      /\ Following # cpu => /\ Stored[Following] = <<Following, Len(frames[Following])>>
                            /\ Stored[Following] # Here
  BY ScheduleFacts
<1>6. /\ \A x \in Contexts : /\ Len(frames'[x]) = Len(frames[x])
                             /\ DOMAIN frames'[x] = DOMAIN frames[x]
      /\ \A x \in Contexts : \A d \in DOMAIN frames[x] :
           frames'[x][d] = IF x = cpu /\ d = Depth THEN f ELSE frames[x][d]
  BY <1>1, <1>3, TopBecomesFacts
<1>7. /\ cpu \in Contexts /\ Tasks \subseteq Contexts \ {Boot}
      /\ \A x \in Contexts : Len(frames[x]) \in Nat /\ DOMAIN frames[x] = 1 .. Len(frames[x])
      /\ cpu \in {Boot} \cup Tasks /\ cpu_state \in [Contexts \ {Boot} -> Location]
  BY StackFacts DEF StackInv, StacksSettled, TypeOK
<1>8. Switching' <=> Following # cpu
  BY <1>4, <1>5
<1>9. ContextIntact'
  <2>1. current_task' = IF Switching' THEN Top'.esp[1] ELSE cpu'
    BY <1>2, <1>3, <1>4, <1>5, <1>8
  <2>2. ASSUME NEW t \in Tasks, t # cpu
        PROVE  LET d == Len(frames'[t])
               IN  /\ d > 0 /\ cpu_state'[t] = <<t, d>>
                   /\ frames'[t][d].irq = Timer
                   /\ t # cpu => frames'[t][d] = [irq |-> Timer, stage |-> "asleep", esp |-> <<t, d>>]
    BY <1>3, <1>5, <1>6, <1>7, <2>2 DEF StackInv, ContextIntact
  <2>3. ASSUME cpu \in Tasks
        PROVE  /\ Len(frames'[cpu]) = Depth /\ Depth > 0 /\ cpu_state'[cpu] = <<cpu, Depth>>
               /\ frames'[cpu][Depth].irq = Timer
    BY <1>2, <1>3, <1>5, <1>6, <1>7, <2>3 DEF Depth, Here, InHandler
  <2> QED BY <1>3, <2>1, <2>2, <2>3 DEF ContextIntact
<1>10. OnlyEscapeNests'
  BY <1>6, <1>7 DEF StackInv, OnlyEscapeNests, Depth
<1>11. StacksSettled'
  BY <1>3, <1>6, <1>7 DEF StackInv, StacksSettled, Last
<1>12. TopSettled'
  BY <1>2, <1>3, <1>4 DEF StackInv, TopSettled, Timer, Keyboard
<1>13. SwitchSettled'
  BY <1>2, <1>3, <1>4, <1>5, <1>6, <1>7, <1>8 DEF SwitchSettled
<1>14. InactiveSettled'
  BY <1>3 DEF InactiveSettled
<1> QED BY <1>9, <1>10, <1>11, <1>12, <1>13, <1>14 DEF StackInv

(* iret to the code that the innermost handler interrupted.                *)
LEMMA ReturnHomeFacts ==
  ASSUME TypeOK, Return, Top.esp = Here
  PROVE  /\ cpu' = cpu /\ frames' \in [Contexts -> Seq(Frame)]
         /\ Len(frames'[cpu]) = Depth - 1 /\ DOMAIN frames'[cpu] = 1 .. (Depth - 1)
         /\ \A d \in 1 .. (Depth - 1) : frames'[cpu][d] = frames[cpu][d]
         /\ \A x \in Contexts \ {cpu} : frames'[x] = frames[x]
<1>1. /\ cpu \in Contexts /\ frames \in [Contexts -> Seq(Frame)]
      /\ frames[cpu] \in Seq(Frame) /\ Depth \in 1 .. Len(frames[cpu])
      /\ Depth = Len(frames[cpu])
  BY StackFacts DEF TypeOK, Return, Depth
<1>2. cpu' = cpu /\ frames' = [frames EXCEPT ![cpu] = SubSeq(@, 1, Depth - 1)]
  BY DEF Return, Here, Depth
<1> DEFINE s == SubSeq(frames[cpu], 1, Depth - 1)
<1>3. /\ s \in Seq(Frame) /\ Len(s) = Depth - 1 /\ DOMAIN s = 1 .. (Depth - 1)
      /\ \A d \in 1 .. (Depth - 1) : s[d] = frames[cpu][d]
  BY <1>1
<1> HIDE DEF s
<1>4. frames' = [frames EXCEPT ![cpu] = s]
  BY <1>2 DEF s
<1> QED BY <1>1, <1>2, <1>3, <1>4

LEMMA ReturnHomeStack ==
  ASSUME TypeOK, StackInv, Return, Top.esp = Here
  PROVE  StackInv'
<1>1. /\ cpu' = cpu
      /\ Len(frames'[cpu]) = Depth - 1 /\ DOMAIN frames'[cpu] = 1 .. (Depth - 1)
      /\ \A d \in 1 .. (Depth - 1) : frames'[cpu][d] = frames[cpu][d]
      /\ \A x \in Contexts \ {cpu} : frames'[x] = frames[x]
  BY ReturnHomeFacts
<1>2. /\ InHandler /\ iflag' = TRUE /\ UNCHANGED <<active, num_tasks, current_task, cpu_state>>
      /\ Tasks' = Tasks
  BY DEF Return, sched, Tasks
<1>3. /\ cpu \in Contexts /\ Tasks \subseteq Contexts \ {Boot} /\ Depth \in Nat
      /\ \A x \in Contexts : Len(frames[x]) \in Nat /\ DOMAIN frames[x] = 1 .. Len(frames[x])
  BY StackFacts
<1>4. Depth' = Depth - 1 /\ Here' = <<cpu, Depth - 1>>
  BY <1>1 DEF Depth, Here
<1>5. InHandler' =>
        /\ Depth - 1 \in 1 .. (Len(frames[cpu]) - 1) /\ Top' = frames[cpu][Depth - 1]
        /\ Top'.irq = Keyboard /\ Top'.stage \in {"eoi", "return"} /\ Top'.esp = Here'
  <2> SUFFICES ASSUME InHandler'
               PROVE  /\ Depth - 1 \in 1 .. (Len(frames[cpu]) - 1)
                      /\ Top' = frames[cpu][Depth - 1]
                      /\ Top'.irq = Keyboard /\ Top'.stage \in {"eoi", "return"}
                      /\ Top'.esp = Here'
    OBVIOUS
  <2>1. Depth - 1 \in 1 .. (Len(frames[cpu]) - 1)
    BY <1>3, <1>4 DEF InHandler, Depth
  <2>2. Top' = frames[cpu][Depth - 1]
    <3>1. Depth - 1 \in 1 .. (Depth - 1)
      BY <1>3, <2>1 DEF Depth
    <3>2. Top' = frames'[cpu][Depth - 1]
      BY <1>1, <1>4 DEF Top
    <3>3. frames'[cpu][Depth - 1] = frames[cpu][Depth - 1]
      BY <1>1, <3>1
    <3> QED BY <3>2, <3>3
  <2> QED BY <1>3, <1>4, <2>1, <2>2 DEF StackInv, OnlyEscapeNests
<1>6. ~ Switching /\ ~ Switching'
  BY <1>5 DEF Switching
<1>7. ContextIntact'
  BY <1>1, <1>2, <1>3, <1>6 DEF StackInv, ContextIntact
<1>8. OnlyEscapeNests'
  <2> SUFFICES ASSUME NEW x \in Contexts, NEW d \in 1 .. (Len(frames'[x]) - 1)
               PROVE  /\ frames'[x][d].irq = Keyboard
                      /\ frames'[x][d].stage \in {"eoi", "return"}
                      /\ frames'[x][d].esp = <<x, d>>
    BY DEF OnlyEscapeNests
  <2>1. d \in 1 .. (Len(frames[x]) - 1) /\ frames'[x][d] = frames[x][d]
    BY <1>1, <1>3 DEF Depth
  <2> QED BY <2>1 DEF StackInv, OnlyEscapeNests
<1>9. StacksSettled'
  BY <1>1, <1>2, <1>3 DEF StackInv, StacksSettled, Last
<1>10. TopSettled'
  BY <1>5 DEF TopSettled
<1>11. SwitchSettled'
  BY <1>6 DEF SwitchSettled
<1>12. InactiveSettled'
  BY <1>2, <1>3, <1>4 DEF StackInv, InactiveSettled, InHandler
<1> QED BY <1>7, <1>8, <1>9, <1>10, <1>11, <1>12 DEF StackInv

(* iret on another stack, that of task t.                                  *)
LEMMA ReturnAwayFacts ==
  ASSUME TypeOK, StackInv, Return, Switching,
         NEW t \in Tasks \ {cpu}, Top.esp = <<t, Len(frames[t])>>
  PROVE  LET f == [irq |-> Timer, stage |-> "asleep", esp |-> Here]
             n == Len(frames[t])
         IN  /\ cpu' = t /\ n > 0 /\ frames' \in [Contexts -> Seq(Frame)]
             /\ frames[t][n].stage = "asleep"
             /\ Len(frames'[t]) = n - 1 /\ DOMAIN frames'[t] = 1 .. (n - 1)
             /\ \A d \in 1 .. (n - 1) : frames'[t][d] = frames[t][d]
             /\ Len(frames'[cpu]) = Depth /\ DOMAIN frames'[cpu] = DOMAIN frames[cpu]
             /\ \A d \in DOMAIN frames[cpu] :
                  frames'[cpu][d] = IF d = Depth THEN f ELSE frames[cpu][d]
             /\ \A x \in Contexts \ {cpu, t} : frames'[x] = frames[x]
<1> DEFINE f == [irq |-> Timer, stage |-> "asleep", esp |-> Here]
           n == Len(frames[t])
           slept == [frames EXCEPT ![cpu] = [@ EXCEPT ![Depth] = f]]
<1>1. /\ cpu \in Contexts /\ t \in Contexts /\ frames \in [Contexts -> Seq(Frame)]
      /\ frames[cpu] \in Seq(Frame) /\ Depth \in DOMAIN frames[cpu]
      /\ frames[t] \in Seq(Frame) /\ n \in Nat /\ DOMAIN frames[cpu] = 1 .. Len(frames[cpu])
      /\ Depth = Len(frames[cpu]) /\ Top \in Frame
  BY StackFacts DEF TypeOK, Switching, Depth
<1>2. Top.irq = Timer /\ Top.esp # Here
  BY DEF StackInv, SwitchSettled, Switching
<1>3. n > 0 /\ frames[t][n].stage = "asleep"
  <2> HIDE DEF f, slept
  <2>1. t \in Tasks /\ t # cpu
    OBVIOUS
  <2>2. n > 0 /\ frames[t][n] = [irq |-> Timer, stage |-> "asleep", esp |-> <<t, n>>]
    BY <2>1 DEF StackInv, ContextIntact
  <2> QED BY <2>2
<1>4. f \in Frame
  <2>1. Here \in Location
    BY <1>1, StackFacts DEF Here, Location
  <2> QED BY <1>1, <1>2, <2>1 DEF Frame, Stages
<1>5. [Top EXCEPT !.stage = "asleep", !.esp = Here] = f
  <2>1. [Top EXCEPT !.stage = "asleep", !.esp = Here]
          = [[Top EXCEPT !.stage = "asleep"] EXCEPT !.esp = Here]
    OBVIOUS
  <2>2. [Top EXCEPT !.stage = "asleep"] = [irq |-> Timer, stage |-> "asleep", esp |-> Top.esp]
    <3>1. Top = [irq |-> Timer, stage |-> Top.stage, esp |-> Top.esp]
      BY <1>1, <1>2, FrameFields
    <3> QED BY <3>1
  <2>3. [[irq |-> Timer, stage |-> "asleep", esp |-> Top.esp] EXCEPT !.esp = Here] = f
    OBVIOUS
  <2> HIDE DEF f
  <2> QED BY <2>1, <2>2, <2>3, Zenon
<1>6. slept = [frames EXCEPT ![cpu][Depth].stage = "asleep", ![cpu][Depth].esp = Here]
  <2> HIDE DEF f
  <2> QED BY <1>1, <1>5 DEF Top
<1>7. cpu' = t /\ frames' = [slept EXCEPT ![t] = SubSeq(@, 1, n - 1)]
  <2> HIDE DEF f, slept
  <2>1. Top.esp[1] = t /\ Top.esp[2] = n
    OBVIOUS
  <2>2. /\ frames' = [slept EXCEPT ![Top.esp[1]] = SubSeq(@, 1, Top.esp[2] - 1)]
        /\ cpu' = Top.esp[1]
    BY <1>2, <1>6, Zenon DEF Return
  <2> QED BY <2>1, <2>2, Zenon
<1> DEFINE s == SubSeq(frames[t], 1, n - 1)
           r == [frames[cpu] EXCEPT ![Depth] = f]
<1> HIDE DEF f
<1>8. /\ s \in Seq(Frame) /\ Len(s) = n - 1 /\ DOMAIN s = 1 .. (n - 1)
      /\ \A d \in 1 .. (n - 1) : s[d] = frames[t][d]
  BY <1>1, <1>3
<1>9. /\ r \in Seq(Frame) /\ Len(r) = Depth /\ DOMAIN r = DOMAIN frames[cpu]
      /\ \A d \in DOMAIN frames[cpu] : r[d] = IF d = Depth THEN f ELSE frames[cpu][d]
  BY <1>1, <1>4
<1>10. frames' = [[frames EXCEPT ![cpu] = r] EXCEPT ![t] = s]
  BY <1>1, <1>7
<1> HIDE DEF s, r
<1>11. /\ frames' \in [Contexts -> Seq(Frame)] /\ frames'[t] = s /\ frames'[cpu] = r
       /\ \A x \in Contexts \ {cpu, t} : frames'[x] = frames[x]
  BY <1>1, <1>8, <1>9, <1>10
<1> QED BY <1>3, <1>7, <1>8, <1>9, <1>11 DEF f

LEMMA ReturnAwayStack ==
  ASSUME TypeOK, StackInv, Return, Switching,
         NEW t \in Tasks \ {cpu}, Top.esp = <<t, Len(frames[t])>>
  PROVE  StackInv'
<1> DEFINE f == [irq |-> Timer, stage |-> "asleep", esp |-> Here]
           n == Len(frames[t])
<1>1. /\ cpu' = t /\ n > 0
      /\ Len(frames'[t]) = n - 1 /\ DOMAIN frames'[t] = 1 .. (n - 1)
      /\ \A d \in 1 .. (n - 1) : frames'[t][d] = frames[t][d]
      /\ Len(frames'[cpu]) = Depth /\ DOMAIN frames'[cpu] = DOMAIN frames[cpu]
      /\ \A d \in DOMAIN frames[cpu] : frames'[cpu][d] = IF d = Depth THEN f ELSE frames[cpu][d]
      /\ \A x \in Contexts \ {cpu, t} : frames'[x] = frames[x]
  BY ReturnAwayFacts
<1>2. f.irq = Timer /\ f.stage = "asleep" /\ f.esp = Here
  OBVIOUS
<1>3. /\ InHandler /\ iflag' = TRUE /\ UNCHANGED <<active, num_tasks, current_task, cpu_state>>
      /\ Tasks' = Tasks
  BY DEF Return, sched, Tasks
<1>4. /\ cpu \in Contexts /\ Tasks \subseteq Contexts \ {Boot} /\ Depth \in Nat \ {0}
      /\ \A x \in Contexts : Len(frames[x]) \in Nat /\ DOMAIN frames[x] = 1 .. Len(frames[x])
      /\ Depth = Len(frames[cpu]) /\ t \in Contexts \ {Boot} /\ t # cpu /\ t \in Tasks
      /\ n \in Nat
  BY <1>3, StackFacts DEF Depth, InHandler
<1> HIDE DEF f
<1>5. Depth' = n - 1 /\ Here' = <<t, n - 1>>
  BY <1>1 DEF Depth, Here
<1>6. InHandler' =>
        /\ n - 1 \in 1 .. (n - 1) /\ Top' = frames[t][n - 1]
        /\ Top'.irq = Keyboard /\ Top'.stage \in {"eoi", "return"} /\ Top'.esp = Here'
  <2> SUFFICES ASSUME InHandler'
               PROVE  /\ n - 1 \in 1 .. (n - 1) /\ Top' = frames[t][n - 1]
                      /\ Top'.irq = Keyboard /\ Top'.stage \in {"eoi", "return"}
                      /\ Top'.esp = Here'
    OBVIOUS
  <2>1. n - 1 \in 1 .. (n - 1)
    BY <1>4, <1>5 DEF InHandler
  <2>2. Top' = frames[t][n - 1]
    BY <1>1, <1>5, <2>1 DEF Top
  <2> QED BY <1>4, <1>5, <2>1, <2>2 DEF StackInv, OnlyEscapeNests
<1>7. ~ Switching'
  BY <1>6 DEF Switching
<1>8. current_task = t
  BY DEF StackInv, ContextIntact
<1>9. ContextIntact'
  <2>1. ASSUME NEW u \in Tasks, u # t
        PROVE  LET d == Len(frames'[u])
               IN  /\ d > 0 /\ cpu_state[u] = <<u, d>>
                   /\ frames'[u][d].irq = Timer
                   /\ frames'[u][d] = [irq |-> Timer, stage |-> "asleep", esp |-> <<u, d>>]
    <3>1. CASE u = cpu
      <4> HIDE DEF n
      <4>0. cpu_state[u] = <<u, Len(frames[u])>>
        BY <3>1 DEF StackInv, ContextIntact
      <4>1. cpu_state[u] = <<u, Depth>> /\ Depth \in DOMAIN frames[cpu]
        BY <1>4, <3>1, <4>0
      <4>2. frames'[u][Depth] = f /\ f = [irq |-> Timer, stage |-> "asleep", esp |-> <<u, Depth>>]
        BY <1>1, <1>4, <3>1, <4>1 DEF f, Here, Depth
      <4>3. Len(frames'[u]) = Depth /\ Depth > 0
        BY <1>1, <1>4, <3>1, <4>1 DEF Depth
      <4> HIDE DEF f
      <4> QED BY <1>2, <3>1, <4>1, <4>2, <4>3
    <3>2. CASE u # cpu
      <4>1. frames'[u] = frames[u]
        BY <1>1, <1>4, <2>1, <3>2
      <4> QED BY <3>2, <4>1 DEF StackInv, ContextIntact
    <3> QED BY <3>1, <3>2
  <2> QED BY <1>1, <1>3, <1>7, <1>8, <2>1 DEF ContextIntact
<1>10. OnlyEscapeNests'
  <2> SUFFICES ASSUME NEW x \in Contexts, NEW d \in 1 .. (Len(frames'[x]) - 1)
               PROVE  /\ frames'[x][d].irq = Keyboard
                      /\ frames'[x][d].stage \in {"eoi", "return"}
                      /\ frames'[x][d].esp = <<x, d>>
    BY DEF OnlyEscapeNests
  <2>1. d \in 1 .. (Len(frames[x]) - 1) /\ frames'[x][d] = frames[x][d]
    BY <1>1, <1>4, SMTT(30)
  <2> QED BY <2>1 DEF StackInv, OnlyEscapeNests
<1>11. StacksSettled'
  <2>1. cpu' \in {Boot} \cup Tasks' /\ cpu' # Boot
    BY <1>1, <1>3, <1>4
  <2>2. ASSUME NEW x \in Contexts \ ({Boot} \cup Tasks) PROVE frames'[x] = <<>>
    <3>1. x # t /\ x # cpu
      BY <1>4 DEF StackInv, StacksSettled
    <3> QED BY <1>1, <3>1 DEF StackInv, StacksSettled
  <2>3. ASSUME NEW x \in Contexts, x # t, frames'[x] # <<>>
        PROVE  frames'[x][Len(frames'[x])].stage = "asleep"
    BY <1>1, <1>2, <1>4, <2>3 DEF StackInv, StacksSettled, Last
  <2> QED BY <1>1, <1>3, <2>1, <2>2, <2>3 DEF StacksSettled, Last
<1>12. TopSettled'
  BY <1>6 DEF TopSettled
<1>13. SwitchSettled'
  BY <1>7 DEF SwitchSettled
<1>14. InactiveSettled'
  BY <1>3, <1>4, <1>8 DEF StackInv, InactiveSettled, Tasks, NoTask
<1> QED BY <1>9, <1>10, <1>11, <1>12, <1>13, <1>14 DEF StackInv

LEMMA AddTaskStack ==
  ASSUME TypeOK, StackInv, AddTask
  PROVE  TypeOK' /\ StackInv'
<1> DEFINE n == num_tasks
           f == FirstFrame(n)
<1>1. /\ n \in Nat /\ n < MaxTasks /\ n \in Contexts \ {Boot} /\ n # cpu
      /\ Tasks' = Tasks \cup {n} /\ n \notin Tasks /\ cpu = Boot
  BY InterruptAssumption DEF TypeOK, AddTask, Contexts, Boot, Tasks
<1>2. <<n, 1>> \in Location
  BY <1>1 DEF Location
<1>3. f \in Frame /\ f = [irq |-> Timer, stage |-> "asleep", esp |-> <<n, 1>>] /\ f.irq = Timer
      /\ f.stage = "asleep"
  BY <1>2, InterruptAssumption DEF FirstFrame, Frame, Stages
<1>4. /\ frames' = [frames EXCEPT ![n] = <<f>>]
      /\ cpu_state' = [cpu_state EXCEPT ![n] = <<n, 1>>]
      /\ num_tasks' = n + 1 /\ ~ InHandler /\ current_task = NoTask
      /\ UNCHANGED <<active, iflag, closing, cpu, current_task, pics, keys, ends>>
  BY DEF AddTask
<1> HIDE DEF f
<1>5. /\ frames \in [Contexts -> Seq(Frame)] /\ cpu_state \in [Contexts \ {Boot} -> Location]
  BY DEF TypeOK
<1>6. <<f>> \in Seq(Frame) /\ Len(<<f>>) = 1 /\ <<f>>[1] = f
  BY <1>3
<1>7. /\ frames' \in [Contexts -> Seq(Frame)] /\ cpu_state' \in [Contexts \ {Boot} -> Location]
      /\ frames'[n] = <<f>> /\ \A x \in Contexts \ {n} : frames'[x] = frames[x]
      /\ cpu_state'[n] = <<n, 1>> /\ \A x \in Tasks : cpu_state'[x] = cpu_state[x]
  BY <1>1, <1>2, <1>4, <1>5, <1>6, StackFacts
<1>8. TypeOK'
  <2>1. num_tasks' \in 0 .. MaxTasks /\ current_task' \in -1 .. (num_tasks' - 1)
    BY <1>1, <1>4, InterruptAssumption DEF NoTask
  <2> QED BY <1>4, <1>7, <2>1 DEF TypeOK, pics, keys, ends
<1>9. /\ cpu \in Contexts /\ Tasks \subseteq Contexts \ {Boot, n}
  BY <1>1, StackFacts
<1>10. /\ Depth' = Depth /\ ~ InHandler' /\ ~ Switching' /\ ~ Switching
  BY <1>1, <1>4, <1>7, <1>9 DEF Depth, InHandler, Switching
<1>11. ContextIntact'
  <2>1. ASSUME NEW t \in Tasks
        PROVE  LET d == Len(frames'[t])
               IN  /\ d > 0 /\ cpu_state'[t] = <<t, d>>
                   /\ frames'[t][d].irq = Timer
                   /\ frames'[t][d] = [irq |-> Timer, stage |-> "asleep", esp |-> <<t, d>>]
    <3>1. t # cpu /\ frames'[t] = frames[t] /\ cpu_state'[t] = cpu_state[t]
      BY <1>1, <1>7, <1>9 DEF Tasks, Boot
    <3> QED BY <3>1 DEF StackInv, ContextIntact
  <2>2. LET d == Len(frames'[n])
        IN  /\ d > 0 /\ cpu_state'[n] = <<n, d>>
            /\ frames'[n][d].irq = Timer
            /\ frames'[n][d] = [irq |-> Timer, stage |-> "asleep", esp |-> <<n, d>>]
    BY <1>3, <1>6, <1>7
  <2>3. current_task' = cpu'
    BY <1>1, <1>4 DEF NoTask, Boot
  <2> QED BY <1>1, <1>10, <2>1, <2>2, <2>3 DEF ContextIntact
<1>12. OnlyEscapeNests'
  <2> SUFFICES ASSUME NEW x \in Contexts, NEW d \in 1 .. (Len(frames'[x]) - 1)
               PROVE  /\ frames'[x][d].irq = Keyboard
                      /\ frames'[x][d].stage \in {"eoi", "return"}
                      /\ frames'[x][d].esp = <<x, d>>
    BY DEF OnlyEscapeNests
  <2>1. x # n
    <3> SUFFICES ASSUME x = n PROVE FALSE
      OBVIOUS
    <3>1. Len(frames'[x]) = 1
      BY <1>6, <1>7
    <3> QED BY <3>1
  <2>2. frames'[x] = frames[x] /\ d \in 1 .. (Len(frames[x]) - 1)
    BY <1>7, <2>1
  <2> QED BY <2>2 DEF StackInv, OnlyEscapeNests
<1>13. StacksSettled'
  BY <1>1, <1>3, <1>4, <1>6, <1>7, <1>9 DEF StackInv, StacksSettled, Last
<1>14. TopSettled' /\ SwitchSettled' /\ InactiveSettled'
  BY <1>4, <1>10 DEF StackInv, TopSettled, SwitchSettled, InactiveSettled
<1> QED BY <1>8, <1>11, <1>12, <1>13, <1>14 DEF StackInv

(* The gate and the stub put a frame for line i on the running stack.      *)
Pushed(i) == [irq |-> i, stage |-> "entered", esp |-> <<cpu, Depth + 1>>]
Push(i)   == frames' = [frames EXCEPT ![cpu] = Append(@, Pushed(i))]

LEMMA PushFacts ==
  ASSUME TypeOK, NEW i \in Irqs, Push(i), cpu' = cpu
  PROVE  /\ Pushed(i) \in Frame /\ frames' \in [Contexts -> Seq(Frame)]
         /\ Pushed(i).irq = i /\ Pushed(i).stage = "entered" /\ Pushed(i).esp = Here'
         /\ Len(frames'[cpu]) = Depth + 1 /\ DOMAIN frames'[cpu] = 1 .. (Depth + 1)
         /\ frames'[cpu][Depth + 1] = Pushed(i)
         /\ \A d \in 1 .. Depth : frames'[cpu][d] = frames[cpu][d]
         /\ \A x \in Contexts \ {cpu} : frames'[x] = frames[x]
         /\ Depth' = Depth + 1 /\ InHandler' /\ Top' = Pushed(i)
<1>1. /\ cpu \in Contexts /\ frames \in [Contexts -> Seq(Frame)] /\ Depth \in Nat
      /\ frames[cpu] \in Seq(Frame) /\ Depth = Len(frames[cpu])
  BY StackFacts DEF TypeOK, Depth
<1> DEFINE g == Pushed(i)
           s == Append(frames[cpu], g)
<1>2. g \in Frame /\ g.irq = i /\ g.stage = "entered" /\ g.esp = <<cpu, Depth + 1>>
  <2>1. <<cpu, Depth + 1>> \in Location
    BY <1>1 DEF Location
  <2> QED BY <2>1 DEF Pushed, Frame, Stages
<1> HIDE DEF g
<1>3. /\ s \in Seq(Frame) /\ Len(s) = Depth + 1 /\ DOMAIN s = 1 .. (Depth + 1)
      /\ s[Depth + 1] = g /\ \A d \in 1 .. Depth : s[d] = frames[cpu][d]
  BY <1>1, <1>2
<1>4. frames' = [frames EXCEPT ![cpu] = s]
  BY DEF Push, g
<1> HIDE DEF s
<1>5. /\ frames' \in [Contexts -> Seq(Frame)] /\ frames'[cpu] = s
      /\ \A x \in Contexts \ {cpu} : frames'[x] = frames[x]
  BY <1>1, <1>3, <1>4
<1>6. Depth' = Depth + 1
  BY <1>3, <1>5 DEF Depth
<1>7. Top' = g /\ Here' = <<cpu, Depth + 1>> /\ InHandler'
  BY <1>1, <1>3, <1>5, <1>6 DEF Top, Here, Depth, InHandler
<1> QED BY <1>1, <1>2, <1>3, <1>5, <1>6, <1>7 DEF g

LEMMA DeliverStack ==
  ASSUME TypeOK, StackInv, NEW i \in Irqs, Push(i), iflag, ~ iflag',
         UNCHANGED <<active, cpu, sched>>
  PROVE  StackInv'
<1> DEFINE g == Pushed(i)
<1>1. /\ g \in Frame /\ g.irq = i /\ g.stage = "entered" /\ g.esp = Here'
      /\ Len(frames'[cpu]) = Depth + 1 /\ DOMAIN frames'[cpu] = 1 .. (Depth + 1)
      /\ frames'[cpu][Depth + 1] = g
      /\ \A d \in 1 .. Depth : frames'[cpu][d] = frames[cpu][d]
      /\ \A x \in Contexts \ {cpu} : frames'[x] = frames[x]
      /\ Depth' = Depth + 1 /\ InHandler' /\ Top' = g
  BY PushFacts
<1> HIDE DEF g
<1>2. /\ UNCHANGED <<num_tasks, current_task, cpu_state>> /\ Tasks' = Tasks
  BY DEF sched, Tasks
<1>3. /\ cpu \in Contexts /\ Tasks \subseteq Contexts \ {Boot} /\ Depth \in Nat
      /\ \A x \in Contexts : Len(frames[x]) \in Nat /\ DOMAIN frames[x] = 1 .. Len(frames[x])
      /\ Depth = Len(frames[cpu])
  BY StackFacts DEF Depth
<1>4. InHandler => Top.irq = Keyboard /\ Top.stage \in {"eoi", "return"} /\ Top.esp = Here
  BY DEF StackInv, TopSettled
<1>5. ~ Switching /\ ~ Switching'
  BY <1>1, <1>4 DEF Switching
<1>6. ContextIntact'
  BY <1>1, <1>2, <1>3, <1>5 DEF StackInv, ContextIntact
<1>7. OnlyEscapeNests'
  <2> SUFFICES ASSUME NEW x \in Contexts, NEW d \in 1 .. (Len(frames'[x]) - 1)
               PROVE  /\ frames'[x][d].irq = Keyboard
                      /\ frames'[x][d].stage \in {"eoi", "return"}
                      /\ frames'[x][d].esp = <<x, d>>
    BY DEF OnlyEscapeNests
  <2>1. CASE x = cpu /\ d = Depth
    <3>1. InHandler /\ frames'[x][d] = Top
      BY <1>1, <1>3, <2>1 DEF InHandler, Top
    <3> QED BY <1>3, <1>4, <2>1, <3>1 DEF Here
  <2>2. CASE ~ (x = cpu /\ d = Depth)
    <3>1. d \in 1 .. (Len(frames[x]) - 1) /\ frames'[x][d] = frames[x][d]
      BY <1>1, <1>3, <2>2
    <3> QED BY <3>1 DEF StackInv, OnlyEscapeNests
  <2> QED BY <2>1, <2>2
<1>8. StacksSettled'
  BY <1>1, <1>2, <1>3 DEF StackInv, StacksSettled, Last
<1>9. TopSettled' /\ SwitchSettled'
  BY <1>1, <1>5 DEF TopSettled, SwitchSettled
<1>10. InactiveSettled'
  BY <1>1, <1>2, <1>3 DEF StackInv, InactiveSettled, InHandler
<1> QED BY <1>6, <1>7, <1>8, <1>9, <1>10 DEF StackInv

-----------------------------------------------------------------------------
(* The PICs.                                                               *)

LEMMA LineFacts ==
  \A i \in Irqs : /\ i \in 0 .. 15 /\ i # Cascade
                  /\ MasterLine(i) \in 0 .. 7
                  /\ MasterLine(i) = Cascade <=> i >= 8
                  /\ MasterLine(i) # Cascade => MasterLine(i) = i
BY InterruptAssumption DEF MasterLine, Cascade

LEMMA AwaitEoiIs ==
  ASSUME TypeOK
  PROVE  /\ \A i : i \in AwaitEoi <=>
              \E x \in Contexts : \E d \in DOMAIN frames[x] :
                Awaits(x, d) /\ frames[x][d].irq = i
         /\ AwaitEoi \subseteq Irqs
<1>1. \A i : i \in AwaitEoi <=>
        \E x \in Contexts : \E d \in DOMAIN frames[x] :
          Awaits(x, d) /\ frames[x][d].irq = i
  BY DEF AwaitEoi, Awaits
<1> QED BY <1>1, StackFacts, FrameFields

TimerOnTop == InHandler /\ Top.irq = Timer /\ Top.stage \in {"entered", "eoi"}

(* A step that starts and ends nobody's wait for an EOI.                   *)
LEMMA PicsKept ==
  ASSUME TypeOK, TypeOK', PicInv, UNCHANGED <<master, slave, ignored>>,
         \A x \in Contexts : \A d \in DOMAIN frames[x] :
           Awaits(x, d) => Awaits(x, d)' /\ frames'[x][d].irq = frames[x][d].irq,
         \A x \in Contexts : \A d \in DOMAIN frames'[x] :
           Awaits(x, d)' => Awaits(x, d) /\ frames'[x][d].irq = frames[x][d].irq,
         TimerOnTop => TimerOnTop' /\ Here' = Here
  PROVE  PicInv'
<1>1. \A x \in Contexts : \A d \in DOMAIN frames'[x] : Awaits(x, d)' => d \in DOMAIN frames[x]
  BY DEF Awaits
<1>2. \A x \in Contexts : \A d \in DOMAIN frames[x] : Awaits(x, d) => d \in DOMAIN frames'[x]
  BY DEF Awaits
<1>3. AwaitEoi' = AwaitEoi
  <2>1. ASSUME NEW i PROVE i \in AwaitEoi' <=> i \in AwaitEoi
    <3>1. i \in AwaitEoi <=>
            \E x \in Contexts : \E d \in DOMAIN frames[x] : Awaits(x, d) /\ frames[x][d].irq = i
      BY AwaitEoiIs
    <3>2. i \in AwaitEoi' <=>
            \E x \in Contexts : \E d \in DOMAIN frames'[x] :
              Awaits(x, d)' /\ frames'[x][d].irq = i
      BY DEF AwaitEoi, Awaits
    <3> QED BY <1>1, <1>2, <3>1, <3>2
  <2> QED BY <2>1
<1>4. InServiceMatchesFrames'
  BY <1>3 DEF PicInv, InServiceMatchesFrames
<1>5. \A x \in Contexts : \A d \in DOMAIN frames'[x] : Awaits(x, d)' => Line(x, d)' = Line(x, d)
  BY DEF Line
<1>6. EoiOrder'
  BY <1>1, <1>5 DEF PicInv, EoiOrder, TimerOnTop
<1> QED BY <1>4, <1>6 DEF PicInv

(* A handler's frame goes from "entered" to its EOI.                       *)
LEMMA HandledPics ==
  ASSUME TypeOK, TypeOK', PicInv, InHandler, NEW f \in Frame, TopBecomes(f), cpu' = cpu,
         f.irq = Top.irq, f.stage = "eoi", Top.stage = "entered",
         UNCHANGED <<master, slave, ignored>>
  PROVE  PicInv'
<1>1. /\ Depth' = Depth /\ Top' = f /\ InHandler' /\ Here' = Here
  BY TopAfter
<1>2. /\ \A x \in Contexts : DOMAIN frames'[x] = DOMAIN frames[x]
      /\ \A x \in Contexts : \A d \in DOMAIN frames[x] :
           frames'[x][d] = IF x = cpu /\ d = Depth THEN f ELSE frames[x][d]
  BY TopBecomesFacts
<1>3. \A x \in Contexts : \A d \in DOMAIN frames[x] :
        frames'[x][d].irq = frames[x][d].irq /\ (Awaits(x, d)' <=> Awaits(x, d))
  BY <1>2 DEF Awaits, Top
<1>4. TimerOnTop => TimerOnTop'
  BY <1>1 DEF TimerOnTop
<1> QED BY <1>1, <1>2, <1>3, <1>4, PicsKept

(* No handler is interrupted while the manager is inactive.                *)
LEMMA InactiveAlone ==
  ASSUME TypeOK, StackInv, ~ active, NEW x \in Contexts, NEW d \in DOMAIN frames[x], Awaits(x, d)
  PROVE  InHandler /\ x = cpu /\ d = Depth
<1>1. current_task = NoTask /\ Depth <= 1
  BY DEF StackInv, InactiveSettled
<1>2. /\ d \in 1 .. Len(frames[x]) /\ Len(frames[x]) \in Nat /\ Tasks \subseteq Contexts \ {Boot}
      /\ frames[x][d].stage # "asleep" /\ Depth \in Nat
  BY StackFacts DEF Awaits
<1>3. cpu = Boot
  <2>1. CASE Switching
    BY <1>1, <2>1 DEF StackInv, SwitchSettled, ContextIntact, Tasks, NoTask
  <2>2. CASE ~ Switching
    BY <1>1, <2>2 DEF StackInv, ContextIntact, NoTask, Boot
  <2> QED BY <2>1, <2>2
<1>4. x = cpu
  <2> SUFFICES ASSUME x # cpu PROVE FALSE
    OBVIOUS
  <2>1. x \in Tasks
    BY <1>2, <1>3 DEF StackInv, StacksSettled
  <2>2. Len(frames[x]) = 1
    BY <1>3, <2>1 DEF StackInv, StacksSettled
  <2>3. frames[x] # <<>> /\ Last(x).stage = "asleep"
    BY <2>2 DEF StackInv, StacksSettled
  <2> QED BY <1>2, <2>2, <2>3 DEF Last
<1> QED BY <1>1, <1>2, <1>4 DEF Depth, InHandler

LEMMA IgnorePics ==
  ASSUME TypeOK, TypeOK', StackInv, PicInv, Ignore
  PROVE  PicInv'
<1> DEFINE f == [Top EXCEPT !.stage = "return"]
<1>1. InHandler /\ ~ active /\ Advance("return") /\ cpu' = cpu /\ UNCHANGED <<master, slave>>
  BY DEF Ignore, pics
<1>2. f \in Frame /\ TopBecomes(f) /\ f.stage = "return"
  <2>1. f \in Frame /\ TopBecomes(f)
    BY <1>1, AdvanceIsTopBecomes DEF Stages
  <2> QED BY <1>1, <2>1, StackFacts DEF Frame
<1> HIDE DEF f
<1>3. /\ \A x \in Contexts : DOMAIN frames'[x] = DOMAIN frames[x]
      /\ \A x \in Contexts : \A d \in DOMAIN frames[x] :
           frames'[x][d] = IF x = cpu /\ d = Depth THEN f ELSE frames[x][d]
  BY <1>1, <1>2, TopBecomesFacts
<1>4. \A x \in Contexts : \A d \in DOMAIN frames'[x] : ~ Awaits(x, d)'
  <2> SUFFICES ASSUME NEW x \in Contexts, NEW d \in DOMAIN frames[x], Awaits(x, d)' PROVE FALSE
    BY <1>3
  <2>1. ~ (x = cpu /\ d = Depth)
    BY <1>2, <1>3 DEF Awaits
  <2>2. Awaits(x, d)
    BY <1>3, <2>1 DEF Awaits
  <2> QED BY <1>1, <2>1, <2>2, InactiveAlone
<1>5. AwaitEoi' = {}
  <2>1. \A i : i \in AwaitEoi' <=>
          \E x \in Contexts : \E d \in DOMAIN frames'[x] :
            Awaits(x, d)' /\ frames'[x][d].irq = i
    BY DEF AwaitEoi, Awaits
  <2> QED BY <1>4, <2>1
<1>6. InServiceMatchesFrames'
  BY <1>5 DEF Ignore, InServiceMatchesFrames
<1>7. EoiOrder'
  BY <1>1, <1>4 DEF PicInv, EoiOrder
<1> QED BY <1>6, <1>7 DEF PicInv

(* The EOI of the running handler ends its own interrupt and no other.     *)
LEMMA EoiEndsTop ==
  ASSUME TypeOK, PicInv, Eoi
  PROVE  /\ Top.irq \in Irqs /\ MasterLine(Top.irq) \in master
         /\ master' = master \ {MasterLine(Top.irq)}
         /\ slave' = IF Top.irq >= 8 THEN {} ELSE slave
         /\ Top.irq >= 8 => slave = {Top.irq}
<1> DEFINE i == Top.irq
           m == MasterLine(Top.irq)
<1>1. /\ InHandler /\ Top.stage = "eoi" /\ i \in Irqs /\ cpu \in Contexts
      /\ Depth \in DOMAIN frames[cpu] /\ master \subseteq 0 .. 7
  BY StackFacts, FrameFields DEF Eoi, TypeOK
<1>2. Awaits(cpu, Depth) /\ frames[cpu][Depth].irq = i /\ Line(cpu, Depth) = m
  BY <1>1 DEF Awaits, Top, Line
<1>3. m \in master
  <2>1. i \in AwaitEoi
    BY <1>1, <1>2, AwaitEoiIs
  <2> QED BY <2>1 DEF PicInv, InServiceMatchesFrames
<1>4. m \in 0 .. 7
  BY <1>1, LineFacts
<1>5. \A s \in master : ~ (s < m)
  BY <1>1, <1>2 DEF PicInv, EoiOrder, Here, Depth
<1> HIDE DEF m
<1>6. EndHighest(master) = master \ {m}
  <2>1. ASSUME NEW s \in master PROVE (\E t \in master : t < s) <=> s # m
    <3>1. s \in 0 .. 7 /\ (s # m => m < s)
      BY <1>1, <1>4, <1>5
    <3> QED BY <1>3, <1>4, <1>5, <3>1
  <2> QED BY <2>1 DEF EndHighest
<1>7. i >= 8 => slave = {i}
  BY <1>1, <1>2 DEF PicInv, EoiOrder
<1>8. i >= 8 => EndHighest(slave) = {}
  BY <1>1, <1>7, LineFacts DEF EndHighest
<1> QED BY <1>1, <1>3, <1>6, <1>7, <1>8 DEF Eoi, MasterAfterEoi, SlaveAfterEoi, m

LEMMA EoiPics ==
  ASSUME TypeOK, TypeOK', PicInv, Eoi
  PROVE  PicInv'
<1> DEFINE f == [Top EXCEPT !.stage = "return"]
           m == MasterLine(Top.irq)
<1>1. InHandler /\ Top.stage = "eoi" /\ Advance("return") /\ cpu' = cpu /\ ignored' = ignored
  BY DEF Eoi, ends
<1>2. f \in Frame /\ TopBecomes(f) /\ f.stage = "return"
  <2>1. f \in Frame /\ TopBecomes(f)
    BY <1>1, AdvanceIsTopBecomes DEF Stages
  <2> QED BY <1>1, <2>1, StackFacts DEF Frame
<1> HIDE DEF f
<1>3. /\ \A x \in Contexts : DOMAIN frames'[x] = DOMAIN frames[x]
      /\ \A x \in Contexts : \A d \in DOMAIN frames[x] :
           frames'[x][d] = IF x = cpu /\ d = Depth THEN f ELSE frames[x][d]
      /\ cpu \in Contexts /\ Depth \in DOMAIN frames[cpu]
  BY <1>1, <1>2, TopBecomesFacts, StackFacts
<1>4. /\ Top.irq \in Irqs /\ m \in master /\ master' = master \ {m}
      /\ slave' = IF Top.irq >= 8 THEN {} ELSE slave
      /\ Top.irq >= 8 => slave = {Top.irq}
  BY EoiEndsTop
<1>5. Awaits(cpu, Depth) /\ Line(cpu, Depth) = m /\ frames[cpu][Depth].irq = Top.irq
  BY <1>1, <1>3 DEF Awaits, Line, Top
<1>6. ASSUME NEW x \in Contexts, NEW d \in DOMAIN frames[x]
      PROVE  /\ Awaits(x, d)' <=> Awaits(x, d) /\ ~ (x = cpu /\ d = Depth)
             /\ Awaits(x, d)' => frames'[x][d] = frames[x][d] /\ Line(x, d)' = Line(x, d)
                                 /\ Line(x, d) # m
  <2>1. Awaits(x, d)' <=> Awaits(x, d) /\ ~ (x = cpu /\ d = Depth)
    BY <1>2, <1>3 DEF Awaits
  <2>2. Awaits(x, d)' => frames'[x][d] = frames[x][d]
    BY <1>3, <2>1
  <2>3. Awaits(x, d) /\ Line(x, d) = m => x = cpu /\ d = Depth
    BY <1>3, <1>5 DEF PicInv, EoiOrder
  <2> QED BY <2>1, <2>2, <2>3 DEF Line
<1> HIDE DEF m
<1>7. ASSUME NEW i
      PROVE  i \in AwaitEoi' <=> i \in AwaitEoi /\ MasterLine(i) # m
  <2>1. i \in AwaitEoi <=>
          \E x \in Contexts : \E d \in DOMAIN frames[x] : Awaits(x, d) /\ frames[x][d].irq = i
    BY AwaitEoiIs
  <2>2. i \in AwaitEoi' <=>
          \E x \in Contexts : \E d \in DOMAIN frames'[x] :
            Awaits(x, d)' /\ frames'[x][d].irq = i
    BY DEF AwaitEoi, Awaits
  <2>3. ASSUME NEW x \in Contexts, NEW d \in DOMAIN frames[x], frames[x][d].irq = i
        PROVE  Line(x, d) = MasterLine(i)
    BY <2>3 DEF Line
  <2>4. ASSUME NEW x \in Contexts, NEW d \in DOMAIN frames[x], frames[x][d].irq = i,
               Awaits(x, d), MasterLine(i) # m
        PROVE  Awaits(x, d)' /\ frames'[x][d].irq = i
    BY <1>5, <1>6, <2>3, <2>4
  <2> QED BY <1>3, <1>6, <2>1, <2>2, <2>3, <2>4
<1>8. InServiceMatchesFrames'
  <2>1. {MasterLine(i) : i \in AwaitEoi'} = {MasterLine(i) : i \in AwaitEoi} \ {m}
    BY <1>7
  <2>2. AwaitEoi \subseteq Irqs /\ AwaitEoi' \subseteq AwaitEoi
    BY <1>7, AwaitEoiIs
  <2>3. Top.irq \in AwaitEoi
    BY <1>3, <1>5, AwaitEoiIs
  <2>4. Top.irq >= 8 => m = Cascade
    BY <1>4, LineFacts DEF m
  <2>5. {i \in AwaitEoi' : i >= 8} = IF Top.irq >= 8 THEN {} ELSE {i \in AwaitEoi : i >= 8}
    <3>1. CASE Top.irq >= 8
      <4>1. \A i \in AwaitEoi : i >= 8 => MasterLine(i) = m
        BY <2>2, <2>4, <3>1, LineFacts
      <4> QED BY <1>7, <3>1, <4>1
    <3>2. CASE ~ (Top.irq >= 8)
      <4>1. m # Cascade
        BY <1>4, <3>2, LineFacts DEF m
      <4>2. \A i \in AwaitEoi : i >= 8 => MasterLine(i) # m
        BY <2>2, <4>1, LineFacts
      <4> QED BY <1>7, <3>2, <4>2
    <3> QED BY <3>1, <3>2
  <2> QED BY <1>1, <1>4, <2>1, <2>5 DEF PicInv, InServiceMatchesFrames
<1>9. EoiOrder'
  <2>1. \A x, y \in Contexts : \A d \in DOMAIN frames'[x], e \in DOMAIN frames'[y] :
          Awaits(x, d)' /\ Awaits(y, e)' /\ Line(x, d)' = Line(y, e)' => x = y /\ d = e
    BY <1>3, <1>6 DEF PicInv, EoiOrder
  <2>2. ASSUME NEW x \in Contexts, NEW d \in DOMAIN frames'[x], NEW s \in master',
               Awaits(x, d)', s < Line(x, d)'
        PROVE  FALSE
    <3>1. s \in master /\ s # m /\ d \in DOMAIN frames[x] /\ Awaits(x, d) /\ s < Line(x, d)
      BY <1>3, <1>4, <1>6, <2>2
    <3>2. s = Timer /\ Top.irq = Timer
      BY <3>1 DEF PicInv, EoiOrder
    <3> QED BY <3>1, <3>2 DEF m, MasterLine, Timer
  <2>3. ASSUME NEW x \in Contexts, NEW d \in DOMAIN frames'[x],
               Awaits(x, d)', frames'[x][d].irq >= 8
        PROVE  slave' = {frames'[x][d].irq}
    <3>1. d \in DOMAIN frames[x] /\ Awaits(x, d) /\ frames'[x][d] = frames[x][d] /\ Line(x, d) # m
      BY <1>3, <1>6, <2>3
    <3>2. frames[x][d].irq \in Irqs
      BY <3>1, StackFacts, FrameFields
    <3>3. m # Cascade
      BY <2>3, <3>1, <3>2, LineFacts DEF Line
    <3>4. ~ (Top.irq >= 8)
      BY <1>4, <3>3, LineFacts DEF m
    <3> QED BY <1>4, <2>3, <3>1, <3>4 DEF PicInv, EoiOrder
  <2>4. slave' # {} => Cascade \in master'
    <3>1. ~ (Top.irq >= 8) => m # Cascade
      BY <1>4, LineFacts DEF m
    <3> QED BY <1>4, <3>1 DEF PicInv, EoiOrder
  <2> QED BY <2>1, <2>2, <2>3, <2>4 DEF EoiOrder
<1> QED BY <1>8, <1>9 DEF PicInv

LEMMA DeliverPics ==
  ASSUME TypeOK, TypeOK', StackInv, PicInv, NEW i \in Irqs, Push(i), iflag, cpu' = cpu,
         Deliverable(i), master' = master \cup {MasterLine(i)},
         slave' = IF i >= 8 THEN slave \cup {i} ELSE slave, ignored' = ignored
  PROVE  PicInv'
<1> DEFINE m == MasterLine(i)
           new == Depth + 1
<1>1. /\ Len(frames'[cpu]) = new /\ DOMAIN frames'[cpu] = 1 .. new
      /\ frames'[cpu][new].irq = i /\ frames'[cpu][new].stage = "entered"
      /\ \A d \in 1 .. Depth : frames'[cpu][d] = frames[cpu][d]
      /\ \A x \in Contexts \ {cpu} : frames'[x] = frames[x]
      /\ Depth' = new /\ InHandler' /\ Top' = frames'[cpu][new]
      /\ cpu \in Contexts /\ Depth \in Nat /\ DOMAIN frames[cpu] = 1 .. Depth
  BY PushFacts, StackFacts DEF Depth
<1>2. /\ m \in 0 .. 7 /\ \A s \in master : m < s
      /\ master \subseteq 0 .. 7 /\ i \in 0 .. 15 /\ i # Cascade
      /\ (m = Cascade) <=> (i >= 8)
      /\ m # Cascade => m = i
  BY LineFacts DEF Deliverable, TypeOK
<1>3. m \notin master
  BY <1>2
<1>4. ASSUME NEW x \in Contexts, NEW d \in DOMAIN frames'[x], ~ (x = cpu /\ d = new)
      PROVE  /\ d \in DOMAIN frames[x] /\ frames'[x][d] = frames[x][d]
             /\ Line(x, d)' = Line(x, d)
             /\ Awaits(x, d)' <=> Awaits(x, d)
  <2>1. d \in DOMAIN frames[x] /\ frames'[x][d] = frames[x][d]
    BY <1>1, <1>4
  <2> QED BY <2>1 DEF Awaits, Line
<1>5. ASSUME NEW x \in Contexts, NEW d \in DOMAIN frames[x]
      PROVE  d \in DOMAIN frames'[x] /\ ~ (x = cpu /\ d = new)
  BY <1>1
<1>6. /\ new \in DOMAIN frames'[cpu]
      /\ \A x \in Contexts : \A d \in DOMAIN frames'[x] :
           x = cpu /\ d = new => Awaits(x, d)' /\ Line(x, d)' = m /\ frames'[x][d].irq = i
  BY <1>1 DEF Awaits, Line
<1>7. ASSUME NEW x \in Contexts, NEW d \in DOMAIN frames[x], Awaits(x, d)
      PROVE  /\ frames[x][d].irq = Keyboard /\ Line(x, d) = Keyboard /\ Line(x, d) \in master
  <2>1. frames[x][d].irq = Keyboard
    <3>1. d \in 1 .. Len(frames[x]) /\ Len(frames[x]) \in Nat
      BY StackFacts
    <3>2. CASE d < Len(frames[x])
      BY <3>1, <3>2 DEF StackInv, OnlyEscapeNests
    <3>3. CASE d = Len(frames[x])
      <4>1. frames[x] # <<>> /\ frames[x][d].stage # "asleep"
        BY <1>7, <3>1, <3>3 DEF Awaits
      <4>2. x = cpu
        BY <3>3, <4>1 DEF StackInv, StacksSettled, Last
      <4>3. InHandler /\ Top = frames[x][d]
        BY <3>1, <3>3, <4>2 DEF InHandler, Depth, Top
      <4> QED BY <4>3 DEF StackInv, TopSettled
    <3> QED BY <3>1, <3>2, <3>3
  <2>2. Line(x, d) = Keyboard
    BY <2>1 DEF Line, MasterLine, Keyboard
  <2>3. Keyboard \in AwaitEoi
    BY <1>7, <2>1, AwaitEoiIs
  <2>4. MasterLine(Keyboard) \in master
    BY <2>3 DEF PicInv, InServiceMatchesFrames
  <2> QED BY <2>1, <2>2, <2>4 DEF MasterLine, Keyboard
<1> HIDE DEF m, new
<1>8. AwaitEoi' = AwaitEoi \cup {i}
  <2>1. ASSUME NEW j PROVE j \in AwaitEoi' <=> j \in AwaitEoi \/ j = i
    <3>1. j \in AwaitEoi <=>
            \E x \in Contexts : \E d \in DOMAIN frames[x] : Awaits(x, d) /\ frames[x][d].irq = j
      BY AwaitEoiIs
    <3>2. j \in AwaitEoi' <=>
            \E x \in Contexts : \E d \in DOMAIN frames'[x] :
              Awaits(x, d)' /\ frames'[x][d].irq = j
      BY DEF AwaitEoi, Awaits
    <3>3. j \in AwaitEoi' => j \in AwaitEoi \/ j = i
      BY <1>1, <1>4, <3>1, <3>2
    <3>4. j \in AwaitEoi => j \in AwaitEoi'
      <4>1. ASSUME NEW x \in Contexts, NEW d \in DOMAIN frames[x], Awaits(x, d),
                   frames[x][d].irq = j
            PROVE  d \in DOMAIN frames'[x] /\ Awaits(x, d)' /\ frames'[x][d].irq = j
        <5>1. d \in DOMAIN frames'[x] /\ ~ (x = cpu /\ d = new)
          BY <1>5
        <5> QED BY <1>4, <4>1, <5>1
      <4> QED BY <3>1, <3>2, <4>1
    <3>5. i \in AwaitEoi'
      <4>1. i \in AwaitEoi' <=>
              \E x \in Contexts : \E d \in DOMAIN frames'[x] :
                Awaits(x, d)' /\ frames'[x][d].irq = i
        BY DEF AwaitEoi, Awaits
      <4> QED BY <1>1, <1>6, <4>1
    <3> QED BY <3>3, <3>4, <3>5
  <2> QED BY <2>1
<1>9. InServiceMatchesFrames'
  <2>1. {MasterLine(j) : j \in AwaitEoi'} = {MasterLine(j) : j \in AwaitEoi} \cup {m}
    BY <1>8 DEF m
  <2>2. {j \in AwaitEoi' : j >= 8} = {j \in AwaitEoi : j >= 8} \cup (IF i >= 8 THEN {i} ELSE {})
    BY <1>8
  <2>3. master' = master \cup {m}
    BY DEF m
  <2> QED BY <2>1, <2>2, <2>3 DEF PicInv, InServiceMatchesFrames
<1>10. \A x, y \in Contexts : \A d \in DOMAIN frames'[x], e \in DOMAIN frames'[y] :
         Awaits(x, d)' /\ Awaits(y, e)' /\ Line(x, d)' = Line(y, e)' => x = y /\ d = e
  <2>1. ASSUME NEW x \in Contexts, NEW d \in DOMAIN frames'[x], Awaits(x, d)',
               ~ (x = cpu /\ d = new)
        PROVE  Line(x, d)' # m
    BY <1>3, <1>4, <1>7, <2>1
  <2>2. ASSUME NEW x \in Contexts, NEW y \in Contexts,
               NEW d \in DOMAIN frames'[x], NEW e \in DOMAIN frames'[y],
               Awaits(x, d)', Awaits(y, e)', Line(x, d)' = Line(y, e)',
               ~ (x = cpu /\ d = new), ~ (y = cpu /\ e = new)
        PROVE  x = y /\ d = e
    BY <1>4, <2>2 DEF PicInv, EoiOrder
  <2> QED BY <1>6, <2>1, <2>2
<1>11. ASSUME NEW x \in Contexts, NEW d \in DOMAIN frames'[x], NEW s \in master',
              Awaits(x, d)', s < Line(x, d)'
       PROVE  /\ s = Timer /\ <<x, d>> # Here'
              /\ InHandler' /\ Top'.irq = Timer /\ Top'.stage \in {"entered", "eoi"}
  <2>1. ~ (x = cpu /\ d = new)
    <3> SUFFICES ASSUME x = cpu, d = new PROVE FALSE
      OBVIOUS
    <3>1. s \in 0 .. 7 /\ (s = m \/ m < s) /\ s < m
      BY <1>2, <1>6, <1>11 DEF m
    <3> QED BY <1>2, <3>1
  <2>2. Awaits(x, d) /\ s < Line(x, d) /\ d \in DOMAIN frames[x] /\ Line(x, d) = Keyboard
    BY <1>4, <1>7, <1>11, <2>1
  <2>3. s \notin master
    <3> SUFFICES ASSUME s \in master PROVE FALSE
      OBVIOUS
    <3>1. InHandler /\ Top.irq = Timer
      BY <2>2 DEF PicInv, EoiOrder
    <3> QED BY <3>1 DEF StackInv, TopSettled, Timer, Keyboard
  <2>4. s = m /\ m < 1
    BY <1>11, <2>2, <2>3 DEF m, Keyboard
  <2>5. s = Timer /\ i = Timer
    BY <1>2, <2>4 DEF Timer, Cascade
  <2>6. Here' = <<cpu, new>>
    BY <1>1 DEF Here, Depth
  <2> QED BY <1>1, <2>1, <2>5, <2>6
<1>12. slave # {} => i < 8
  <2> SUFFICES ASSUME slave # {} PROVE i < 8
    OBVIOUS
  <2>1. Cascade \in master
    BY DEF PicInv, EoiOrder
  <2>2. m < Cascade
    BY <1>2, <2>1
  <2>3. ~ (i >= 8)
    BY <1>2, <2>2 DEF Cascade
  <2> QED BY <1>2, <2>3
<1>13. ASSUME NEW x \in Contexts, NEW d \in DOMAIN frames'[x],
              Awaits(x, d)', frames'[x][d].irq >= 8
       PROVE  slave' = {frames'[x][d].irq}
  <2>1. CASE x = cpu /\ d = new
    BY <1>1, <1>2, <1>12, <1>13, <2>1
  <2>2. CASE ~ (x = cpu /\ d = new)
    BY <1>4, <1>7, <1>13, <2>2 DEF Keyboard
  <2> QED BY <2>1, <2>2
<1>14. slave' # {} => Cascade \in master'
  <2>1. master' = master \cup {m}
    BY DEF m
  <2>2. CASE i >= 8
    BY <1>2, <2>1, <2>2
  <2>3. CASE ~ (i >= 8)
    BY <2>1, <2>3 DEF PicInv, EoiOrder
  <2> QED BY <2>2, <2>3
<1> QED BY <1>9, <1>10, <1>11, <1>13, <1>14 DEF PicInv, EoiOrder

-----------------------------------------------------------------------------
(* The steps of Next.                                                      *)

LEMMA InitInv ==
  Init => IInv
<1> SUFFICES ASSUME Init PROVE IInv
  OBVIOUS
<1>1. Boot \in Contexts /\ Tasks = {} /\ Boot # 0 /\ \A x \in Contexts : frames[x] = <<>>
  BY DEF Init, Contexts, Boot, Tasks
<1>2. \A x \in Contexts : Len(frames[x]) = 0 /\ DOMAIN frames[x] = {}
  BY <1>1
<1>3. Depth = 0 /\ ~ InHandler /\ ~ Switching
  BY <1>1, <1>2 DEF Init, Depth, InHandler, Switching
<1>4. TypeOK
  <2>1. <<>> \in Seq(Frame)
    OBVIOUS
  <2>2. \A t \in Contexts \ {Boot} : <<t, 0>> \in Location
    BY DEF Location
  <2>3. frames \in [Contexts -> Seq(Frame)] /\ cpu_state \in [Contexts \ {Boot} -> Location]
    BY <2>1, <2>2 DEF Init
  <2>4. /\ num_tasks \in 0 .. MaxTasks /\ escapes \in 0 .. MaxEscapes
        /\ current_task \in -1 .. (num_tasks - 1)
    BY InterruptAssumption DEF Init, NoTask
  <2> QED BY <1>1, <2>3, <2>4 DEF Init, TypeOK
<1>5. ContextIntact
  BY <1>1, <1>3 DEF Init, ContextIntact, NoTask, Boot
<1>6. OnlyEscapeNests
  BY <1>2 DEF OnlyEscapeNests
<1>7. StacksSettled
  BY <1>1 DEF Init, StacksSettled
<1>8. TopSettled /\ SwitchSettled /\ InactiveSettled
  BY <1>3 DEF Init, TopSettled, SwitchSettled, InactiveSettled, NoTask
<1>9. AwaitEoi = {}
  BY <1>2 DEF AwaitEoi
<1>10. InServiceMatchesFrames
  BY <1>9 DEF Init, InServiceMatchesFrames
<1>11. EoiOrder
  BY <1>2 DEF Init, EoiOrder
<1> QED BY <1>4, <1>5, <1>6, <1>7, <1>8, <1>10, <1>11 DEF IInv

(* A step of kernel_main or of a device: no stack changes.                 *)
LEMMA QuietStep ==
  ASSUME IInv, TypeOK', UNCHANGED <<cpu, frames, sched, master, slave, ignored>>,
         InHandler => iflag' = iflag,
         active' = active \/ active' = TRUE \/ (cpu = Boot /\ ~ InHandler)
  PROVE  IInv'
<1>1. TypeOK /\ StackInv /\ PicInv
  BY DEF IInv, StackInv, PicInv
<1>2. StackInv'
  BY <1>1, StacksKept DEF sched
<1>3. Here' = Here /\ TimerOnTop' = TimerOnTop
  BY DEF Here, TimerOnTop, InHandler, Top, Depth
<1>4. \A x, d : Awaits(x, d)' <=> Awaits(x, d)
  BY DEF Awaits
<1>5. PicInv'
  BY <1>1, <1>3, <1>4, PicsKept
<1> QED BY <1>2, <1>5 DEF IInv, StackInv, PicInv

LEMMA KernelStep ==
  ASSUME IInv, Activate \/ Deactivate \/ DeactivateCli \/ LeaveTask \/ \E i \in Irqs : Raise(i)
  PROVE  IInv'
<1>1. CASE Activate
  <2>1. TypeOK'
    BY <1>1 DEF IInv, TypeOK, Activate, sched, pics, keys, ends
  <2> QED BY <1>1, <2>1, QuietStep DEF Activate, sched, pics, ends
<1>2. CASE Deactivate
  <2>1. TypeOK'
    BY <1>2 DEF IInv, TypeOK, Deactivate, sched, pics, keys, ends
  <2> QED BY <1>2, <2>1, QuietStep DEF Deactivate, sched, pics, ends
<1>3. CASE DeactivateCli
  <2>1. TypeOK'
    BY <1>3 DEF IInv, TypeOK, DeactivateCli, sched, pics, keys, ends
  <2> QED BY <1>3, <2>1, QuietStep DEF DeactivateCli, sched, pics, ends
<1>4. CASE LeaveTask
  <2>1. TypeOK'
    BY <1>4 DEF IInv, TypeOK, LeaveTask, sched, pics, keys
  <2> QED BY <1>4, <2>1, QuietStep DEF LeaveTask, sched, pics
<1>5. ASSUME NEW i \in Irqs, Raise(i) PROVE IInv'
  <2>1. TypeOK'
    BY <1>5 DEF IInv, TypeOK, Raise, sched, keys, ends
  <2> QED BY <1>5, <2>1, QuietStep DEF Raise, sched, ends
<1> QED BY <1>1, <1>2, <1>3, <1>4, <1>5

LEMMA AddTaskStep ==
  ASSUME IInv, AddTask
  PROVE  IInv'
<1>1. TypeOK /\ StackInv /\ PicInv
  BY DEF IInv, StackInv, PicInv
<1>2. TypeOK' /\ StackInv'
  BY <1>1, AddTaskStack
<1> DEFINE n == num_tasks
           f == FirstFrame(n)
<1>3. /\ n \in Contexts /\ n \notin Tasks /\ n # Boot /\ frames \in [Contexts -> Seq(Frame)]
      /\ ~ InHandler /\ frames' = [frames EXCEPT ![n] = <<f>>] /\ f.stage = "asleep"
      /\ UNCHANGED <<master, slave, ignored>>
  BY <1>1, InterruptAssumption
     DEF AddTask, TypeOK, Contexts, Boot, Tasks, FirstFrame, pics, ends
<1> HIDE DEF f
<1>4. frames[n] = <<>>
  BY <1>1, <1>3 DEF StackInv, StacksSettled
<1>5. /\ frames'[n] = <<f>> /\ \A x \in Contexts \ {n} : frames'[x] = frames[x]
  BY <1>3
<1>6. ASSUME NEW x \in Contexts, NEW d
      PROVE  /\ Awaits(x, d)' <=> Awaits(x, d)
             /\ Awaits(x, d) => frames'[x][d] = frames[x][d]
  <2>1. CASE x = n
    BY <1>3, <1>4, <1>5, <2>1 DEF Awaits
  <2>2. CASE x # n
    BY <1>5, <2>2 DEF Awaits
  <2> QED BY <2>1, <2>2
<1>7. ~ TimerOnTop
  BY <1>3 DEF TimerOnTop
<1>8. PicInv'
  BY <1>1, <1>2, <1>3, <1>6, <1>7, PicsKept
<1> QED BY <1>2, <1>8 DEF IInv, StackInv, PicInv

LEMMA DeliverStep ==
  ASSUME IInv, Deliver
  PROVE  IInv'
<1>1. TypeOK /\ StackInv /\ PicInv
  BY DEF IInv, StackInv, PicInv
<1>2. PICK i \in Irqs :
        /\ Deliverable(i) /\ Push(i)
        /\ irr' = irr \ {i} /\ master' = master \cup {MasterLine(i)}
        /\ slave' = IF i >= 8 THEN slave \cup {i} ELSE slave
  BY DEF Deliver, Push, Pushed
<1>3. /\ iflag /\ iflag' = FALSE /\ UNCHANGED <<active, closing, cpu, sched, keys, ends>>
  BY DEF Deliver, IfBehindGate
<1>4. TypeOK'
  <2>1. frames' \in [Contexts -> Seq(Frame)]
    BY <1>1, <1>2, <1>3, PushFacts
  <2>2. MasterLine(i) \in 0 .. 7 /\ (i >= 8 => i \in 8 .. 15)
    BY LineFacts
  <2>3. master' \subseteq 0 .. 7 /\ slave' \subseteq 8 .. 15 /\ irr' \subseteq Irqs
    BY <1>1, <1>2, <2>2 DEF TypeOK
  <2> QED BY <1>1, <1>3, <2>1, <2>3 DEF TypeOK, sched, keys, ends
<1>5. StackInv'
  BY <1>1, <1>2, <1>3, DeliverStack
<1>6. PicInv'
  BY <1>1, <1>2, <1>3, <1>4, DeliverPics DEF ends
<1> QED BY <1>4, <1>5, <1>6 DEF IInv, StackInv, PicInv

LEMMA IgnoreStep ==
  ASSUME IInv, Ignore
  PROVE  IInv'
<1>1. TypeOK /\ StackInv /\ PicInv
  BY DEF IInv, StackInv, PicInv
<1>2. /\ InHandler /\ Top.stage = "entered" /\ Advance("return")
      /\ ignored' = TRUE
      /\ UNCHANGED <<active, iflag, closing, cpu, sched, pics, keys, stray>>
  BY DEF Ignore
<1>3. frames' \in [Contexts -> Seq(Frame)]
  BY <1>1, <1>2, AdvanceIsTopBecomes, TopBecomesFacts DEF Stages
<1>4. TypeOK'
  BY <1>1, <1>2, <1>3 DEF TypeOK, sched, pics, keys
<1>5. StackInv'
  BY <1>1, <1>2, AdvanceStack
<1>6. PicInv'
  BY <1>1, <1>4, IgnorePics
<1> QED BY <1>4, <1>5, <1>6 DEF IInv, StackInv, PicInv

(* A handler that answers the stack pointer it was given.                  *)
LEMMA HandledStep ==
  ASSUME IInv, InHandler, Top.stage = "entered", active, Advance("eoi"),
         UNCHANGED <<active, cpu, sched, master, slave, ignored>>,
         iflag' = iflag \/ Top.irq = Keyboard, TypeOK'
  PROVE  IInv'
<1>1. TypeOK /\ StackInv /\ PicInv
  BY DEF IInv, StackInv, PicInv
<1>2. StackInv'
  BY <1>1, AdvanceStack
<1> DEFINE f == [Top EXCEPT !.stage = "eoi"]
<1>3. f \in Frame /\ TopBecomes(f)
  BY <1>1, AdvanceIsTopBecomes DEF Stages
<1>4. f.irq = Top.irq /\ f.stage = "eoi"
  BY <1>1, StackFacts DEF Frame
<1> HIDE DEF f
<1>5. PicInv'
  BY <1>1, <1>3, <1>4, HandledPics
<1> QED BY <1>2, <1>5 DEF IInv, StackInv, PicInv

LEMMA HandleDeviceStep ==
  ASSUME IInv, HandleDevice
  PROVE  IInv'
<1>1. /\ InHandler /\ Top.stage = "entered" /\ active /\ Advance("eoi")
      /\ UNCHANGED <<active, iflag, closing, cpu, sched, pics, keys, ends>>
  BY DEF HandleDevice
<1>2. frames' \in [Contexts -> Seq(Frame)]
  BY <1>1, AdvanceIsTopBecomes, TopBecomesFacts DEF Stages, IInv
<1>3. TypeOK'
  BY <1>1, <1>2 DEF IInv, TypeOK, sched, pics, keys, ends
<1> QED BY <1>1, <1>3, HandledStep DEF pics, ends

LEMMA HandleEscapeStep ==
  ASSUME IInv, HandleEscape
  PROVE  IInv'
<1>1. /\ InHandler /\ Top.stage = "entered" /\ active /\ Top.irq = Keyboard /\ Advance("eoi")
      /\ escapes < MaxEscapes /\ escapes' = escapes + 1
      /\ tasks_should_stop' = TRUE /\ iflag' = TRUE
      /\ UNCHANGED <<active, closing, cpu, sched, pics, ends>>
  BY DEF HandleEscape
<1>2. frames' \in [Contexts -> Seq(Frame)]
  BY <1>1, AdvanceIsTopBecomes, TopBecomesFacts DEF Stages, IInv
<1>3. escapes' \in 0 .. MaxEscapes
  BY <1>1, InterruptAssumption DEF IInv, TypeOK
<1>4. TypeOK'
  BY <1>1, <1>2, <1>3 DEF IInv, TypeOK, sched, pics, ends
<1> QED BY <1>1, <1>4, HandledStep DEF pics, ends

LEMMA ScheduleStep ==
  ASSUME IInv, Schedule
  PROVE  IInv'
<1>1. TypeOK /\ StackInv /\ PicInv
  BY DEF IInv, StackInv, PicInv
<1>2. /\ InHandler /\ Top.stage = "entered" /\ active /\ Top.irq = Timer
      /\ UNCHANGED <<active, iflag, closing, cpu, pics, keys, ends>>
  BY DEF Schedule
<1>3. CASE num_tasks = 0
  <2>1. Advance("eoi") /\ UNCHANGED sched
    BY <1>3 DEF Schedule
  <2>2. frames' \in [Contexts -> Seq(Frame)]
    BY <1>1, <1>2, <2>1, AdvanceIsTopBecomes, TopBecomesFacts DEF Stages
  <2>3. TypeOK'
    BY <1>1, <1>2, <2>1, <2>2 DEF TypeOK, sched, pics, keys, ends
  <2> QED BY <1>2, <2>1, <2>3, HandledStep DEF pics, ends
<1>4. CASE num_tasks # 0
  <2> DEFINE f == [irq |-> Timer, stage |-> "eoi", esp |-> Stored[Following]]
  <2>1. f \in Frame /\ TopBecomes(f) /\ f.irq = Top.irq /\ f.stage = "eoi"
    BY <1>1, <1>2, <1>4, ScheduleTop
  <2> HIDE DEF f
  <2>2. frames' \in [Contexts -> Seq(Frame)]
    BY <1>1, <1>2, <2>1, TopBecomesFacts
  <2>3. /\ Following \in Tasks /\ Stored \in [Contexts \ {Boot} -> Location]
        /\ cpu_state' = Stored /\ current_task' = Following /\ num_tasks' = num_tasks
    BY <1>1, <1>4, ScheduleFacts DEF Schedule
  <2>4. current_task' \in -1 .. (num_tasks' - 1)
    BY <1>1, <2>3, InterruptAssumption DEF Tasks, TypeOK
  <2>5. TypeOK'
    BY <1>1, <1>2, <2>2, <2>3, <2>4 DEF TypeOK, pics, keys, ends
  <2>6. StackInv'
    BY <1>1, <1>4, ScheduleStack
  <2>7. PicInv'
    BY <1>1, <1>2, <2>1, <2>5, HandledPics DEF pics, ends
  <2> QED BY <2>5, <2>6, <2>7 DEF IInv, StackInv, PicInv
<1> QED BY <1>3, <1>4

LEMMA EoiStep ==
  ASSUME IInv, Eoi
  PROVE  IInv'
<1>1. TypeOK /\ StackInv /\ PicInv
  BY DEF IInv, StackInv, PicInv
<1>2. /\ InHandler /\ Top.stage = "eoi" /\ Advance("return")
      /\ UNCHANGED <<active, iflag, closing, cpu, sched, irr, keys, ends>>
  BY DEF Eoi
<1>3. frames' \in [Contexts -> Seq(Frame)]
  BY <1>1, <1>2, AdvanceIsTopBecomes, TopBecomesFacts DEF Stages
<1>4. master' \subseteq master /\ slave' \subseteq slave
  BY <1>1, EoiEndsTop
<1>5. TypeOK'
  BY <1>1, <1>2, <1>3, <1>4 DEF TypeOK, sched, keys, ends
<1>6. StackInv'
  BY <1>1, <1>2, AdvanceStack
<1>7. PicInv'
  BY <1>1, <1>5, EoiPics
<1> QED BY <1>5, <1>6, <1>7 DEF IInv, StackInv, PicInv

LEMMA ReturnStep ==
  ASSUME IInv, Return
  PROVE  IInv'
<1>1. TypeOK /\ StackInv /\ PicInv
  BY DEF IInv, StackInv, PicInv
<1>2. /\ InHandler /\ Top.stage = "return" /\ iflag' = TRUE /\ ~ TimerOnTop
      /\ UNCHANGED <<active, closing, sched, pics, keys, ends>>
  BY DEF Return, TimerOnTop
<1>3. /\ cpu \in Contexts /\ Depth \in Nat \ {0} /\ DOMAIN frames[cpu] = 1 .. Depth
      /\ Tasks \subseteq Contexts \ {Boot}
      /\ \A x \in Contexts : Len(frames[x]) \in Nat /\ DOMAIN frames[x] = 1 .. Len(frames[x])
  BY <1>1, <1>2, StackFacts DEF Depth, InHandler
<1>4. CASE Top.esp = Here
  <2>1. /\ cpu' = cpu /\ frames' \in [Contexts -> Seq(Frame)]
        /\ DOMAIN frames'[cpu] = 1 .. (Depth - 1)
        /\ \A d \in 1 .. (Depth - 1) : frames'[cpu][d] = frames[cpu][d]
        /\ \A x \in Contexts \ {cpu} : frames'[x] = frames[x]
    BY <1>1, <1>4, ReturnHomeFacts
  <2>2. TypeOK'
    BY <1>1, <1>2, <2>1 DEF TypeOK, sched, pics, keys, ends
  <2>3. ASSUME NEW x \in Contexts, NEW d
        PROVE  /\ Awaits(x, d)' <=> Awaits(x, d)
               /\ Awaits(x, d) => frames'[x][d] = frames[x][d]
    <3>1. CASE x = cpu /\ d = Depth
      <4>1. ~ Awaits(x, d) /\ ~ Awaits(x, d)'
        BY <1>2, <1>3, <2>1, <3>1 DEF Awaits, Top
      <4> QED BY <4>1
    <3>2. CASE x = cpu /\ d # Depth
      <4>1. d \in 1 .. Depth <=> d \in 1 .. (Depth - 1)
        BY <1>3, <3>2
      <4> QED BY <1>3, <2>1, <3>2, <4>1 DEF Awaits
    <3>3. CASE x # cpu
      BY <2>1, <3>3 DEF Awaits
    <3> QED BY <3>1, <3>2, <3>3
  <2>4. PicInv'
    BY <1>1, <1>2, <2>2, <2>3, PicsKept DEF pics, ends
  <2>5. StackInv'
    BY <1>1, <1>4, ReturnHomeStack
  <2> QED BY <2>2, <2>4, <2>5 DEF IInv, StackInv, PicInv
<1>5. CASE Top.esp # Here
  <2>1. Switching
    BY <1>2, <1>5 DEF Switching
  <2>2. PICK t \in Tasks \ {cpu} : Top.esp = <<t, Len(frames[t])>>
    BY <1>1, <2>1 DEF StackInv, SwitchSettled
  <2> DEFINE f == [irq |-> Timer, stage |-> "asleep", esp |-> Here]
             n == Len(frames[t])
  <2>3. /\ cpu' = t /\ n > 0 /\ frames' \in [Contexts -> Seq(Frame)]
        /\ frames[t][n].stage = "asleep"
        /\ DOMAIN frames'[t] = 1 .. (n - 1)
        /\ \A d \in 1 .. (n - 1) : frames'[t][d] = frames[t][d]
        /\ DOMAIN frames'[cpu] = DOMAIN frames[cpu]
        /\ \A d \in DOMAIN frames[cpu] : frames'[cpu][d] = IF d = Depth THEN f ELSE frames[cpu][d]
        /\ \A x \in Contexts \ {cpu, t} : frames'[x] = frames[x]
    BY <1>1, <2>1, <2>2, ReturnAwayFacts
  <2>4. f.stage = "asleep" /\ t \in Contexts /\ t # cpu
    BY <1>3
  <2> HIDE DEF f, n
  <2>5. TypeOK'
    BY <1>1, <1>2, <2>3, <2>4 DEF TypeOK, sched, pics, keys, ends
  <2>6. ASSUME NEW x \in Contexts, NEW d
        PROVE  /\ Awaits(x, d)' <=> Awaits(x, d)
               /\ Awaits(x, d) => frames'[x][d] = frames[x][d]
    <3>1. CASE x = cpu
      <4>1. CASE d = Depth
        <5>1. ~ Awaits(x, d) /\ ~ Awaits(x, d)'
          BY <1>2, <1>3, <2>3, <2>4, <3>1, <4>1 DEF Awaits, Top
        <5> QED BY <5>1
      <4>2. CASE d # Depth
        BY <1>3, <2>3, <3>1, <4>2 DEF Awaits
      <4> QED BY <4>1, <4>2
    <3>2. CASE x = t
      <4>1. CASE d = n
        <5>1. ~ Awaits(x, d) /\ ~ Awaits(x, d)'
          BY <1>3, <2>3, <2>4, <3>2, <4>1 DEF Awaits, n
        <5> QED BY <5>1
      <4>2. CASE d # n
        <5>1. d \in DOMAIN frames[t] <=> d \in 1 .. (n - 1)
          BY <1>3, <2>4, <4>2 DEF n
        <5> QED BY <2>3, <3>2, <5>1 DEF Awaits
      <4> QED BY <4>1, <4>2
    <3>3. CASE x # cpu /\ x # t
      BY <2>3, <3>3 DEF Awaits
    <3> QED BY <3>1, <3>2, <3>3
  <2>7. PicInv'
    BY <1>1, <1>2, <2>5, <2>6, PicsKept DEF pics, ends
  <2>8. StackInv'
    BY <1>1, <2>1, <2>2, ReturnAwayStack
  <2> QED BY <2>5, <2>7, <2>8 DEF IInv, StackInv, PicInv
<1> QED BY <1>4, <1>5

LEMMA NextInv ==
  IInv /\ [Next]_vars => IInv'
<1> SUFFICES ASSUME IInv, [Next]_vars PROVE IInv'
  OBVIOUS
<1>1. CASE UNCHANGED vars
  <2>1. UNCHANGED <<active, iflag, closing, cpu, frames, num_tasks, current_task, cpu_state,
                    irr, master, slave, tasks_should_stop, escapes, stray, ignored>>
    BY <1>1 DEF vars, sched, pics, keys, ends
  <2>2. TypeOK'
    BY <2>1 DEF IInv, TypeOK
  <2> QED BY <2>1, <2>2, QuietStep DEF sched
<1>2. CASE AddTask
  BY <1>2, AddTaskStep
<1>3. CASE Activate \/ Deactivate \/ DeactivateCli \/ LeaveTask \/ \E i \in Irqs : Raise(i)
  BY <1>3, KernelStep
<1>4. CASE Deliver
  BY <1>4, DeliverStep
<1>5. CASE Ignore
  BY <1>5, IgnoreStep
<1>6. CASE Schedule
  BY <1>6, ScheduleStep
<1>7. CASE HandleDevice
  BY <1>7, HandleDeviceStep
<1>8. CASE HandleEscape
  BY <1>8, HandleEscapeStep
<1>9. CASE Eoi
  BY <1>9, EoiStep
<1>10. CASE Return
  BY <1>10, ReturnStep
<1> QED BY <1>1, <1>2, <1>3, <1>4, <1>5, <1>6, <1>7, <1>8, <1>9, <1>10 DEF Next, Kernel, Handle

(* The inductive invariant holds in every state that kernel_main, the      *)
(* tasks, the devices and the handlers can reach.                          *)
THEOREM Invariance == Spec => []IInv
<1>1. Init => IInv
  BY InitInv
<1>2. IInv /\ [Next]_vars => IInv'
  BY NextInv
<1> QED BY <1>1, <1>2, PTL DEF Spec

(* Every variable keeps its type: no task number leaves the table and no   *)
(* stack pointer leaves the stacks.                                        *)
THEOREM TypeCorrect == Spec => []TypeOK
<1>1. IInv => TypeOK
  BY DEF IInv
<1> QED BY <1>1, Invariance, PTL

(* However interrupts nest and whenever schedule() is called,              *)
(* TaskScheduler's table and current_task agree with the stacks: what is   *)
(* stored for a task that does not run is the innermost frame of its own   *)
(* stack.                                                                  *)
THEOREM ContextsStayIntact == Spec => []ContextIntact
<1>1. IInv => ContextIntact
  BY DEF IInv
<1> QED BY <1>1, Invariance, PTL

(* No handler but the keyboard's is ever interrupted, and it only behind   *)
(* its sti; interrupt gates see to it, whatever the lines and priorities.  *)
THEOREM OnlyTheEscapeHandlerNests == Spec => []OnlyEscapeNests
<1>1. IInv => OnlyEscapeNests
  BY DEF IInv
<1> QED BY <1>1, Invariance, PTL

(* The in-service bits of both PICs are those of the suspended handlers    *)
(* that still owe an EOI, over all the stacks.                             *)
THEOREM InServiceIsOwed == Spec => []InServiceMatchesFrames
<1>1. IInv => InServiceMatchesFrames
  BY DEF IInv
<1> QED BY <1>1, Invariance, PTL

LEMMA EoiEndsOwnStep ==
  ASSUME IInv, [Next]_vars
  PROVE  /\ \A i \in master \ master' : InHandler /\ i = MasterLine(Top.irq)
         /\ \A i \in slave \ slave' : InHandler /\ i = Top.irq
<1>1. CASE Eoi
  <2>1. /\ master' = master \ {MasterLine(Top.irq)}
        /\ slave' = IF Top.irq >= 8 THEN {} ELSE slave
        /\ Top.irq >= 8 => slave = {Top.irq}
    BY <1>1, EoiEndsTop DEF IInv, PicInv
  <2> QED BY <1>1, <2>1 DEF Eoi
<1>2. CASE ~ Eoi
  <2>1. master \subseteq master' /\ slave \subseteq slave'
    BY <1>2 DEF Next, Kernel, Handle, vars, pics, AddTask, Activate, Deactivate, DeactivateCli,
                LeaveTask, Raise, Deliver, Ignore, Schedule, HandleDevice, HandleEscape, Return
  <2> QED BY <2>1
<1> QED BY <1>1, <1>2

(* A non-specific EOI names no interrupt: still the one that               *)
(* do_handle_interrupt() sends always ends its own handler's, at the       *)
(* master and at the slave.                                                *)
THEOREM EveryEoiEndsItsOwn == Spec => EoiEndsOwn
<1>1. IInv /\ [Next]_vars =>
        [ /\ \A i \in master \ master' : InHandler /\ i = MasterLine(Top.irq)
          /\ \A i \in slave \ slave' : InHandler /\ i = Top.irq ]_vars
  BY EoiEndsOwnStep
<1> QED BY <1>1, Invariance, PTL DEF Spec, EoiEndsOwn

=============================================================================
