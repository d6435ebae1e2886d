-------------------------- MODULE InterruptManager --------------------------
(***************************************************************************)
(* Interrupt dispatch and task switching: src/src/interrupts.cpp,          *)
(* interruptstubs.s and task_scheduler.cpp, with the CPU's interrupt flag  *)
(* and the two cascaded 8259 PICs they drive.                              *)
(*                                                                         *)
(* A context is a stack: Boot is the one kernel_main runs on, the others   *)
(* are the stacks inside the Task objects, numbered as TaskScheduler::tasks*)
(* is.  frames[x] holds one frame per interrupt that context x has not     *)
(* returned from; a stack pointer is <<context, number of frames>>.  The   *)
(* frame of an interrupt goes through the stages of                        *)
(*                                                                         *)
(*   "entered"   the stub has saved the registers                          *)
(*   "eoi"       do_handle_interrupt() has run handler and schedule()      *)
(*   "return"    it is about to load frame.esp and execute iret            *)
(*                                                                         *)
(* and a frame that another context's frame was loaded over stays "asleep" *)
(* until its own stack pointer is loaded again.                            *)
(***************************************************************************)
EXTENDS Integers, Sequences, FiniteSets

CONSTANTS
  MaxTasks,       (* how many tasks kernel_main tries to add: a bound       *)
  Capacity,       (* the length of TaskScheduler::tasks: 256 in the code    *)
  Irqs,           (* the interrupt request lines with a device on them      *)
  MaxEscapes,     (* bound on how often the ESC key is pressed              *)
  MayDeactivate   (* whether kernel_main's context may call deactivate()    *)

Timer    == 0
Keyboard == 1
Cascade  == 2     (* the line of the master the slave hangs on              *)

ASSUME InterruptAssumption ==
  /\ MaxTasks \in Nat
  /\ Capacity \in Nat \ {0}
  /\ Irqs \subseteq (0 .. 15) \ {Cascade}
  /\ Timer \in Irqs
  /\ MaxEscapes \in Nat
  /\ MayDeactivate \in BOOLEAN

VARIABLES
  active,         (* active_interrupt_manager # 0                           *)
  iflag,          (* the IF bit of eflags                                   *)
  closing,        (* deactivate() has run up to its cli                     *)
  cpu,            (* the context whose stack the CPU is on                  *)
  frames,         (* context |-> its frames, innermost last                 *)
  num_tasks,
  current_task,
  cpu_state,      (* task |-> Task::cpu_state, a stack pointer              *)
  irr,            (* requests the PICs hold                                 *)
  master, slave,  (* in-service bits, by line of the PIC                    *)
  tasks_should_stop,
  escapes,        (* ESC keys handled so far                                *)
  stray,          (* some task has returned from its entry point            *)
  ignored         (* history: an interrupt found no active manager          *)

pics  == <<irr, master, slave>>
sched == <<num_tasks, current_task, cpu_state>>
keys  == <<tasks_should_stop, escapes>>
ends  == <<stray, ignored>>
vars  == <<active, iflag, closing, cpu, frames, sched, pics, keys, ends>>

Boot     == -1
Tasks    == 0 .. (num_tasks - 1)
Contexts == {Boot} \cup (0 .. (MaxTasks - 1))

Stages == {"entered", "eoi", "return", "asleep"}

Here == <<cpu, Len(frames[cpu])>>

Depth == Len(frames[cpu])
Top   == frames[cpu][Depth]

InHandler == Depth > 0

(* TaskScheduler::current_task before the first switch.                    *)
NoTask == -1

-----------------------------------------------------------------------------
(* The PICs.                                                               *)

MasterLine(i) == IF i < 8 THEN i ELSE Cascade

(* Fully nested mode: a request waits for all that are in service at its   *)
(* own or a higher priority.                                               *)
(* Mutant: the PIC is programmed to mask an interrupt in service only.     *)
DeliverableUnnested(i) == i \in irr /\ MasterLine(i) \notin master

Deliverable(i) ==
  /\ i \in irr
  /\ \A s \in master : MasterLine(i) < s
  /\ i >= 8 => \A s \in slave : i < s

Outranks(i, j) ==
  \/ MasterLine(i) < MasterLine(j)
  \/ MasterLine(i) = MasterLine(j) /\ i <= j

(* A non-specific EOI ends the highest-priority request in service.        *)
EndHighest(pic) == {s \in pic : \E t \in pic : t < s}

-----------------------------------------------------------------------------

Init ==
  /\ active = FALSE /\ iflag = FALSE /\ closing = FALSE
  /\ cpu = Boot
  /\ frames = [x \in Contexts |-> <<>>]
  /\ num_tasks = 0 /\ current_task = NoTask
  /\ cpu_state = [t \in Contexts \ {Boot} |-> <<t, 0>>]
  /\ irr = {} /\ master = {} /\ slave = {}
  /\ tasks_should_stop = FALSE /\ escapes = 0
  /\ stray = FALSE /\ ignored = FALSE

(* The constructor of a Task lays out the frame that the first switch to   *)
(* the task returns through.                                               *)
FirstFrame(t) == [irq |-> Timer, stage |-> "asleep", esp |-> <<t, 1>>]

(* kernel_main, before it activates the manager: add_task() enters a task  *)
(* in the table if the table has room.                                     *)
AddTask ==
  /\ ~ active /\ ~ closing /\ current_task = NoTask /\ cpu = Boot /\ ~ InHandler
  /\ num_tasks < MaxTasks
  /\ num_tasks < Capacity
  /\ frames' = [frames EXCEPT ![num_tasks] = <<FirstFrame(num_tasks)>>]
  /\ cpu_state' = [cpu_state EXCEPT ![num_tasks] = <<num_tasks, 1>>]
  /\ num_tasks' = num_tasks + 1
  /\ UNCHANGED <<active, iflag, closing, cpu, current_task, pics, keys, ends>>

Activate ==
  /\ cpu = Boot /\ ~ InHandler /\ ~ active /\ ~ closing
  /\ active' = TRUE
  /\ iflag' = TRUE
  /\ UNCHANGED <<closing, cpu, frames, sched, pics, keys, ends>>

(* deactivate() clears the pointer first and the interrupt flag second.    *)
Deactivate ==
  /\ MayDeactivate
  /\ cpu = Boot /\ ~ InHandler /\ active
  /\ active' = FALSE
  /\ closing' = TRUE
  /\ UNCHANGED <<iflag, cpu, frames, sched, pics, keys, ends>>

DeactivateCli ==
  /\ closing /\ cpu = Boot /\ ~ InHandler
  /\ iflag' = FALSE
  /\ closing' = FALSE
  /\ UNCHANGED <<active, cpu, frames, sched, pics, keys, ends>>

-----------------------------------------------------------------------------

Raise(i) ==
  /\ irr' = irr \cup {i}
  /\ UNCHANGED <<active, iflag, closing, cpu, frames, sched, master, slave,
                 keys, ends>>

(* Mutant: trap gates.                                                     *)
IfBehindTrap == TRUE

(* Every entry of the IDT is an interrupt gate, which clears IF.           *)
IfBehindGate == FALSE

(* The CPU takes the most urgent request: the gate clears IF and           *)
(* the stub pushes the registers on the stack of whoever was running.      *)
Deliver ==
  /\ iflag
  /\ \E i \in Irqs :
       /\ Deliverable(i)
       /\ \A j \in Irqs : Deliverable(j) => Outranks(i, j)
       /\ irr' = irr \ {i}
       /\ master' = master \cup {MasterLine(i)}
       /\ slave' = IF i >= 8 THEN slave \cup {i} ELSE slave
       /\ frames' = [frames EXCEPT ![cpu] =
            Append(@, [irq |-> i, stage |-> "entered", esp |-> <<cpu, Depth + 1>>])]
  /\ iflag' = IfBehindGate
  /\ UNCHANGED <<active, closing, cpu, sched, keys, ends>>

Advance(stage) == frames' = [frames EXCEPT ![cpu][Depth].stage = stage]

(* handle_interrupt() with no active manager: not even an EOI.             *)
Ignore ==
  /\ InHandler /\ Top.stage = "entered" /\ ~ active
  /\ Advance("return")
  /\ ignored' = TRUE
  /\ UNCHANGED <<active, iflag, closing, cpu, sched, pics, keys, stray>>

(* Mutants: no wrap at the end of the table; no way back from its end.     *)
FollowingUnbounded == current_task + 1
FollowingClamped == IF current_task + 1 >= num_tasks THEN current_task ELSE current_task + 1

Following == (current_task + 1) % num_tasks

(* Mutant: the stack pointer is stored after current_task has moved on.    *)
StoredLate == [cpu_state EXCEPT ![Following] = Here]

Stored ==
  IF current_task >= 0 THEN [cpu_state EXCEPT ![current_task] = Here] ELSE cpu_state

(* The timer: nobody registers for it, do_handle_interrupt() calls         *)
(* schedule(), which stores the interrupted stack pointer in the current   *)
(* task, if there is one, and answers the next task's.                     *)
Schedule ==
  /\ InHandler /\ Top.stage = "entered" /\ active
  /\ Top.irq = Timer
  /\ IF num_tasks = 0
       THEN Advance("eoi") /\ UNCHANGED sched
       ELSE /\ cpu_state' = Stored
            /\ current_task' = Following
            /\ frames' = [frames EXCEPT ![cpu][Depth].stage = "eoi",
                                        ![cpu][Depth].esp = Stored[Following]]
            /\ UNCHANGED num_tasks
  /\ UNCHANGED <<active, iflag, closing, cpu, pics, keys, ends>>

(* Any other line: its handler runs and returns the stack pointer it got.  *)
HandleDevice ==
  /\ InHandler /\ Top.stage = "entered" /\ active
  /\ Top.irq # Timer
  /\ Advance("eoi")
  /\ UNCHANGED <<active, iflag, closing, cpu, sched, pics, keys, ends>>

(* The keyboard driver on ESC: cli, tasks_should_stop = true, sti.  From   *)
(* here to its iret this handler runs with interrupts enabled.             *)
HandleEscape ==
  /\ InHandler /\ Top.stage = "entered" /\ active
  /\ Top.irq = Keyboard
  /\ escapes < MaxEscapes
  /\ escapes' = escapes + 1
  /\ tasks_should_stop' = TRUE
  /\ iflag' = TRUE
  /\ Advance("eoi")
  /\ UNCHANGED <<active, closing, cpu, sched, pics, ends>>

(* Mutants: an interrupt of the slave is ended at one of the PICs only.    *)
MasterUnlessSlave(i) == IF i >= 8 THEN master ELSE EndHighest(master)
SlaveNever(i) == slave

MasterAfterEoi(i) == EndHighest(master)
SlaveAfterEoi(i) == IF i >= 8 THEN EndHighest(slave) ELSE slave

Eoi ==
  /\ InHandler /\ Top.stage = "eoi"
  /\ master' = MasterAfterEoi(Top.irq)
  /\ slave' = SlaveAfterEoi(Top.irq)
  /\ Advance("return")
  /\ UNCHANGED <<active, iflag, closing, cpu, sched, irr, keys, ends>>

(* movl %eax, %esp; pops; iret.  The frame at the new stack pointer is     *)
(* left, and IF becomes what it was when that frame was made: set.         *)
Return ==
  /\ InHandler /\ Top.stage = "return"
  /\ LET to    == Top.esp
         slept == IF to = Here THEN frames
                  ELSE [frames EXCEPT ![cpu][Depth].stage = "asleep",
                                      ![cpu][Depth].esp = Here]
     IN  /\ frames' = [slept EXCEPT ![to[1]] = SubSeq(@, 1, to[2] - 1)]
         /\ cpu' = to[1]
  /\ iflag' = TRUE
  /\ UNCHANGED <<active, closing, sched, pics, keys, ends>>

(* A task whose loop sees tasks_should_stop returns from its entry point,  *)
(* through a return address that the constructor of Task never wrote: what *)
(* the machine does next is anybody's guess, and the model ends here.      *)
LeaveTask ==
  /\ cpu # Boot /\ ~ InHandler
  /\ tasks_should_stop
  /\ stray' = TRUE
  /\ UNCHANGED <<active, iflag, closing, cpu, frames, sched, pics, keys, ignored>>

-----------------------------------------------------------------------------

Handle == Ignore \/ Schedule \/ HandleDevice \/ HandleEscape

Kernel == AddTask \/ Activate \/ Deactivate \/ DeactivateCli \/ LeaveTask

Next ==
  \/ /\ ~ stray
     /\ \/ Kernel
        \/ \E i \in Irqs : Raise(i)
        \/ Deliver \/ Handle \/ Eoi \/ Return
  \/ stray /\ UNCHANGED vars

Spec == Init /\ [][Next]_vars

EoiOf(i) == InHandler /\ Top.irq = i /\ Eoi

(* kernel_main gets as far as activate(); the CPU keeps executing and      *)
(* takes interrupts that it may take; the timer keeps ticking.  A handler  *)
(* with interrupts enabled gets on: the time between two requests is long  *)
(* compared with the few instructions it has left, so that it is not       *)
(* interrupted at the same instruction for ever (strong fairness).         *)
Fairness ==
  /\ WF_vars(~ stray /\ Activate) /\ WF_vars(~ stray /\ DeactivateCli)
  /\ WF_vars(~ stray /\ Deliver)
  /\ WF_vars(~ stray /\ (Handle \/ Eoi \/ Return))
  /\ \A i \in Irqs : SF_vars(~ stray /\ EoiOf(i))
  /\ WF_vars(~ stray /\ Raise(Timer))

FairSpec == Spec /\ Fairness

-----------------------------------------------------------------------------

Location == Contexts \X Nat

Frame == [irq : Irqs, stage : Stages, esp : Location]

TypeOK ==
  /\ active \in BOOLEAN /\ iflag \in BOOLEAN /\ closing \in BOOLEAN
  /\ cpu \in Contexts
  /\ frames \in [Contexts -> Seq(Frame)]
  /\ num_tasks \in 0 .. MaxTasks
  /\ current_task \in -1 .. (num_tasks - 1)
  /\ cpu_state \in [Contexts \ {Boot} -> Location]
  /\ irr \subseteq Irqs
  /\ master \subseteq 0 .. 7 /\ slave \subseteq 8 .. 15
  /\ tasks_should_stop \in BOOLEAN
  /\ escapes \in 0 .. MaxEscapes
  /\ stray \in BOOLEAN /\ ignored \in BOOLEAN

(* schedule() has chosen another stack and the stub has not loaded it yet. *)
Switching == InHandler /\ Top.stage \in {"eoi", "return"} /\ Top.esp # Here

(* The task table agrees with the stacks: current_task names the context   *)
(* that runs or is about to, and the stack pointer stored for every other  *)
(* task is the innermost frame of that task's own stack, a timer frame     *)
(* whose EOI has been or is being sent.                                    *)
ContextIntact ==
  /\ current_task = IF Switching THEN Top.esp[1] ELSE cpu
  /\ \A t \in Tasks : (t # cpu \/ Switching) =>
       LET d == Len(frames[t])
       IN  /\ d > 0
           /\ cpu_state[t] = <<t, d>>
           /\ frames[t][d].irq = Timer
           /\ t # cpu => frames[t][d] = [irq |-> Timer, stage |-> "asleep", esp |-> <<t, d>>]

(* Interrupts nest only inside a keyboard handler that has executed sti,   *)
(* and no stack pointer is pending below the innermost frame.              *)
OnlyEscapeNests ==
  \A x \in Contexts : \A d \in 1 .. (Len(frames[x]) - 1) :
    /\ frames[x][d].irq = Keyboard
    /\ frames[x][d].stage \in {"eoi", "return"}
    /\ frames[x][d].esp = <<x, d>>

AwaitEoi ==
  UNION {{frames[x][d].irq : d \in {e \in DOMAIN frames[x] :
            frames[x][e].stage \in {"entered", "eoi"}}} : x \in Contexts}

(* The PICs' in-service bits are those of the interrupts whose handlers    *)
(* have not come to their EOI, on whichever stack they are suspended; once *)
(* an interrupt found the manager inactive, also those it left behind.     *)
InServiceMatchesFrames ==
  LET lines == {MasterLine(i) : i \in AwaitEoi}
      low   == {i \in AwaitEoi : i >= 8}
  IN  /\ lines \subseteq master /\ low \subseteq slave
      /\ ~ ignored => master = lines /\ slave = low

(* The non-specific EOI never ends somebody else's interrupt, although a   *)
(* keyboard handler may be interrupted, and its task suspended, before its *)
(* own EOI.                                                                *)
EoiEndsOwn ==
  [][ /\ \A i \in master \ master' : InHandler /\ i = MasterLine(Top.irq)
      /\ \A i \in slave \ slave' : InHandler /\ i = Top.irq ]_vars

(* Round robin: every task of the table gets the CPU again and again, with *)
(* any number of keyboard and network interrupts in between, provided the  *)
(* manager stays active.                                                   *)
EveryTaskRuns ==
  (<>[]active /\ []~ ignored) =>
    \A t \in 0 .. (MaxTasks - 1) : []<>(t < num_tasks => cpu = t \/ stray)

(* The handler of line i is suspended on the stack schedule() gave up.     *)
Abandoned(i) ==
  /\ cpu # Boot
  /\ \E d \in DOMAIN frames[Boot] :
       frames[Boot][d].irq = i /\ frames[Boot][d].stage \in {"entered", "eoi"}

InService(i) == MasterLine(i) \in master

(* Even an interrupt whose handler is itself interrupted and whose task is *)
(* suspended gets its EOI, unless it interrupted kernel_main and the first *)
(* task switch came before its EOI.                                        *)
EoiUnlessAbandoned ==
  []~ ignored =>
    \A i \in Irqs : InService(i) ~> (~ InService(i) \/ stray \/ Abandoned(i))

(* "EOI is always sent": no interrupt stays in service for ever.           *)
EoiAlwaysSent ==
  \A i \in Irqs : InService(i) ~> (~ InService(i) \/ stray)
=============================================================================
