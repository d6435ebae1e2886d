---------------------------- MODULE InterruptStub ----------------------------
(***************************************************************************)
(* The assembly stubs of src/src/interruptstubs.s, word by word on the     *)
(* stacks of the contexts they interrupt.  Stacks grow to the right; %esp  *)
(* is <<current, Len(stack[current])>>.                                    *)
(*                                                                         *)
(* The gate clears IF, and the stub runs to the call without a break: one  *)
(* action is a run of its pushes.  Behind the sti of the ESC handler       *)
(* (keyboard.cpp:288) IF stays set to the iret, so from there on every     *)
(* instruction of the stub is an action, and any request may come between  *)
(* two of them, save its own frame and switch to another stack.            *)
(***************************************************************************)
EXTENDS Integers, Sequences, SequencesExt

CONSTANTS
  Boot,       (* the stack kernel_main runs on                              *)
  Tasks,      (* the stacks inside the Task objects                         *)
  Vectors,    (* the interrupt vectors that occur                           *)
  MaxDepth    (* bound on the interrupts under way on one stack             *)

ASSUME StubAssumption ==
  /\ Boot \notin Tasks
  /\ Vectors \subseteq 0 .. 255
  /\ MaxDepth \in Nat \ {0}

VARIABLES
  current,            (* the context whose stack %esp points into           *)
  stack,              (* context |-> its stack                              *)
  cpu,                (* CPUState field |-> the word in that register       *)
  interrupt_number,   (* the byte in .data                                  *)
  saved,              (* task |-> Task::cpu_state, the length it points at  *)
  interrupted         (* history: context |-> what each interrupt under way *)
                      (*   on its stack has interrupted, the latest last    *)

vars == <<current, stack, cpu, interrupt_number, saved, interrupted>>

Contexts == {Boot} \cup Tasks

IRQ_BASE == 32
Timer    == IRQ_BASE
Keyboard == IRQ_BASE + 1

HasErrorCode(v) == v \in {8, 10, 11, 12, 13, 14, 17}    (* the CPU pushes it *)
Exceptions == 0 .. 19
Requests   == IRQ_BASE .. (IRQ_BASE + 15)

General == <<"ebp", "edi", "esi", "edx", "ecx", "ebx", "eax">>
Special == <<"eflags", "cs", "eip">>
Fields  == Range(General) \cup Range(Special)

(* A word says whose it is, what it holds, and a number and a text to tell *)
(* apart what the program tells apart: a text in eip is the place in the   *)
(* code, in eflags the interrupt flag.                                     *)
Word(x, n, field, text) == <<x, n, field, text>>
Pointer(x, length)      == Word(x, length, "esp", "")
Address(x, place, n)    == Word(x, n, "eip", place)
Error                   == Word(Boot, 0, "error", "")

(* The registers of the code that runs at a place, after n interrupts on   *)
(* the stack of x: the context's own code (n = 0), or the wrapper.         *)
Registers(x, n, place, flag) ==
  [f \in Fields |-> Word(x, n, f, CASE f = "eip"    -> place
                                    [] f = "eflags" -> flag
                                    [] OTHER        -> "")]

OwnRegisters(x) == Registers(x, 0, "run", "on")

(* What lies on the stack of x below all frames; on that of a Task the two *)
(* last fields of the CPUState in its constructor.                         *)
Own(x) == <<Word(x, 0, "ss", ""), Word(x, 0, "esp", "")>>

Saved(registers, fields) == [i \in DOMAIN fields |-> registers[fields[i]]]

(* The fields of struct CPUState as pushed, the last word at %esp.         *)
CPUState(registers) ==
  Saved(registers, Special) \o <<Error>> \o Saved(registers, General)

-----------------------------------------------------------------------------

Here  == stack[current]
Depth == Len(interrupted[current])

Place         == cpu["eip"][4]
Operand       == cpu["eip"][2]
InterruptFlag == cpu["eflags"][4]

Push(words) == stack' = [stack EXCEPT ![current] = @ \o words]
Pop(n)      == stack' = [stack EXCEPT ![current] = SubSeq(@, 1, Len(@) - n)]

Jump(place, n) == cpu' = [cpu EXCEPT !["eip"] = Address(current, place, n)]

(* A Task that has never run: its constructor wrote a CPUState, as if its  *)
(* code had been interrupted where it begins.                              *)
Init ==
  /\ current = Boot
  /\ stack = [x \in Contexts |->
       IF x = Boot THEN Own(x) ELSE Own(x) \o CPUState(OwnRegisters(x))]
  /\ cpu = OwnRegisters(Boot)
  /\ interrupt_number = 0
  /\ saved = [t \in Tasks |-> Len(stack[t])]
  /\ interrupted = [x \in Contexts |->
       IF x = Boot THEN <<>>
       ELSE <<[cpu |-> OwnRegisters(x), stack |-> Own(x), vector |-> Timer]>>]

(* Mutant: the entries of the IDT are trap gates.                          *)
FlagBehindTrap == "on"

(* Every entry of the IDT is an interrupt gate, which clears IF.           *)
FlagBehindGate == "off"

(* The CPU saves eflags, cs, eip and, for some exceptions, an error code,  *)
(* and goes to the stub or, where the IDT names none, to interrupt_ignore. *)
(* A request waits for IF; code that may fault, or execute int, is that    *)
(* of the context and of the wrapper.                                      *)
Interrupt(v) ==
  /\ Depth < MaxDepth
  /\ IF v \in Requests THEN InterruptFlag = "on" ELSE Place \in {"run", "wrapper"}
  /\ Push(Saved(cpu, Special) \o (IF HasErrorCode(v) THEN <<Error>> ELSE <<>>))
  /\ interrupted' = [interrupted EXCEPT ![current] =
       Append(@, [cpu |-> cpu, stack |-> Here, vector |-> v])]
  /\ cpu' = [cpu EXCEPT
       !["eflags"] = Word(current, Depth + 1, "eflags", FlagBehindGate),
       !["eip"]    = IF v \in Exceptions \cup Requests
                       THEN Address(current, "stub", v)
                       ELSE Address(current, "iret", 0)]
  /\ UNCHANGED <<current, interrupt_number, saved>>

HandleException ==
  /\ Place = "stub" /\ Operand \in Exceptions
  /\ interrupt_number' = Operand
  /\ Jump("bottom", 0)
  /\ UNCHANGED <<current, stack, saved, interrupted>>

Number(num) == num + IRQ_BASE

(* pushl $0, where an exception may have an error code.                    *)
Filler == <<Error>>

HandleInterruptRequest ==
  /\ Place = "stub" /\ Operand \in Requests
  /\ interrupt_number' = Number(Operand - IRQ_BASE)
  /\ Push(Filler)
  /\ Jump("bottom", 0)
  /\ UNCHANGED <<current, saved, interrupted>>

SaveRegisters ==
  /\ Place = "bottom"
  /\ Push(Saved(cpu, General))
  /\ Jump("call", 0)
  /\ UNCHANGED <<current, interrupt_number, saved, interrupted>>

(* The arguments, the last pushed first; the call pushes where to return.  *)
CallWrapper ==
  /\ Place = "call"
  /\ Push(<<Pointer(current, Len(Here)),
            Word(current, interrupt_number, "number", ""),
            Address(current, "switch", 0)>>)
  /\ cpu' = Registers(current, Depth, "wrapper", InterruptFlag)
  /\ UNCHANGED <<current, interrupt_number, saved, interrupted>>

(* What handle_interrupt_wrapper() finds on its stack.                     *)
EspArgument    == Here[Len(Here) - 2]
NumberArgument == Here[Len(Here) - 1][2]

(* The keyboard handler on ESC.                                            *)
Sti ==
  /\ Place = "wrapper" /\ NumberArgument = Keyboard
  /\ cpu' = [cpu EXCEPT !["eflags"] = Word(current, Depth, "eflags", "on")]
  /\ UNCHANGED <<current, stack, interrupt_number, saved, interrupted>>

Return(answer) ==
  /\ cpu' = [cpu EXCEPT !["eax"] = answer, !["eip"] = Last(Here)]
  /\ Pop(1)
  /\ UNCHANGED <<current, interrupt_number, interrupted>>

(* Whatever a handler does, it answers the stack pointer it was given; so  *)
(* does the timer's with no active manager, and with no task in the table. *)
WrapperReturns ==
  /\ Place = "wrapper"
  /\ Return(EspArgument)
  /\ UNCHANGED saved

(* On a timer interrupt schedule() stores the stack pointer in the current *)
(* task, if there is one, and answers that of some task.                   *)
Schedule ==
  /\ Place = "wrapper" /\ NumberArgument = Timer
  /\ saved' = IF current \in Tasks THEN [saved EXCEPT ![current] = EspArgument[2]]
              ELSE saved
  /\ \E t \in Tasks : Return(Pointer(t, saved'[t]))

(* movl %eax, %esp                                                         *)
SwitchStack ==
  /\ Place = "switch"
  /\ LET esp == cpu["eax"]
     IN  /\ current' = esp[1]
         /\ stack' = [stack EXCEPT ![esp[1]] = SubSeq(@, 1, esp[2])]
         /\ cpu' = [cpu EXCEPT !["eip"] = Address(esp[1], "pop", Len(General))]
  /\ UNCHANGED <<interrupt_number, saved, interrupted>>

(* popl, with as many registers left to pop as the operand says.           *)
PopRegister ==
  /\ Place = "pop"
  /\ cpu' = [cpu EXCEPT
       ![General[Operand]] = Last(Here),
       !["eip"] = IF Operand > 1 THEN Address(current, "pop", Operand - 1)
                  ELSE Address(current, "add", 0)]
  /\ Pop(1)
  /\ UNCHANGED <<current, interrupt_number, saved, interrupted>>

(* Mutant: the error code stays on the stack.                              *)
NothingDropped == 0

(* add $4, %esp                                                            *)
Dropped == 1

DropErrorCode ==
  /\ Place = "add"
  /\ Pop(Dropped)
  /\ Jump("iret", 0)
  /\ UNCHANGED <<current, interrupt_number, saved, interrupted>>

(* interrupt_ignore, which interrupt_bottom runs into.                     *)
Iret ==
  /\ Place = "iret"
  /\ cpu' = [cpu EXCEPT !["eflags"] = Here[Len(Here) - 2],
                        !["cs"]     = Here[Len(Here) - 1],
                        !["eip"]    = Here[Len(Here)]]
  /\ Pop(Len(Special))
  /\ interrupted' = [interrupted EXCEPT ![current] = Front(@)]
  /\ UNCHANGED <<current, interrupt_number, saved>>

Next ==
  \/ \E v \in Vectors : Interrupt(v)
  \/ HandleException
  \/ HandleInterruptRequest
  \/ SaveRegisters
  \/ CallWrapper
  \/ Sti
  \/ WrapperReturns
  \/ Schedule
  \/ SwitchStack
  \/ PopRegister
  \/ DropErrorCode
  \/ Iret

Spec == Init /\ [][Next]_vars

-----------------------------------------------------------------------------

(* What the innermost interrupt on the stack of x has interrupted, and the *)
(* stack up to the CPUState it saved.                                      *)
Resumed(x) == Last(interrupted[x])
Frame(x)   == Resumed(x).stack \o CPUState(Resumed(x).cpu)

(* An interrupt is invisible to what it interrupts, be that a context's    *)
(* own code, a handler behind its sti or another stub on its way out, and  *)
(* however many interrupts and task switches come between: at the iret the *)
(* registers and the stack are as they were, and on top lie the flags and  *)
(* the address to go on with.                                              *)
Transparent ==
  /\ Place = "iret" =>
       /\ Here = Resumed(current).stack \o Saved(Resumed(current).cpu, Special)
       /\ \A f \in Range(General) : cpu[f] = Resumed(current).cpu[f]
  /\ Place = "run" => cpu = OwnRegisters(current) /\ Here = Own(current)

(* Whoever reads through a stack pointer, or switches to it, finds the     *)
(* CPUState of what was interrupted there: the wrapper under its argument, *)
(* though nested stubs have used the same stack, and schedule() in every   *)
(* task that is switched out.  And the wrapper is given the vector that    *)
(* occurred, through the one byte that all stubs share.                    *)
FrameIsCPUState ==
  /\ \A t \in Tasks \ {current} : SubSeq(stack[t], 1, saved[t]) = Frame(t)
  /\ Place = "wrapper" =>
       /\ EspArgument = Pointer(current, Len(Frame(current)))
       /\ SubSeq(Here, 1, Len(Frame(current))) = Frame(current)
       /\ NumberArgument = Resumed(current).vector

(* IDT (Complete): returning from an exception resumes the code it         *)
(* interrupted, where it was.                                              *)
ExceptionsReturn == Transparent
=============================================================================
