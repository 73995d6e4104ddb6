------------------------------- MODULE Machine -------------------------------
(***************************************************************************)
(* What an instruction of the program reads and writes: the registers      *)
(* (src/vm/registers.cpp), the memory, and the devices behind four         *)
(* addresses (WriteMemory in src/vm/rvss/rvss_vm.cpp).  The program's text *)
(* is kept apart from the memory of its data: no program here reads or     *)
(* overwrites its own text.                                                *)
(*                                                                         *)
(* Widths are those of Words.  The ALU and the codec are operators given   *)
(* as constants: Alu, FloatUnit and a small code where TLC checks, any     *)
(* where proofs do not need them.                                          *)
(***************************************************************************)
EXTENDS Words, Sequences

CONSTANTS
  MemSize,                 (* bytes of memory                              *)
  ProgramSize,             (* program_size_                                *)
  Gprs, Fprs, Csrs,        (* numbers of the registers kept                *)
  Page,                    (* 1 << 12, the unit of lui and auipc           *)
  AudioOut, ImageOut,      (* 0x10000000 and 0x20000000                    *)
  AudioIn, ImageIn,        (* 0x30000000 and 0x40000000                    *)
  audio_samples, image_samples,
  Inputs,                  (* lines of stdin, as sequences of bytes        *)
  Lines(_),                (* lines a program may have at an address, as   *)
                           (* the parser leaves them                       *)
  Execute(_, _, _),        (* outcomes of Alu::execute                     *)
  FpExecute(_, _, _, _, _, _, _),    (* result, flags and mode of the host *)
  Protected(_, _, _),      (* data given a code, a frequency, significance *)
  Checked(_),              (* adaptive_check_error                         *)
  SetBits(_, _), ClearBits(_, _)     (* csr | value and csr & ~value       *)

ASSUME MachineAssumption ==
  /\ MemSize \in Nat \ {0} /\ ProgramSize \in Nat /\ ProgramSize + 4 < Full
  /\ Page \in Nat \ {0} /\ (Page * 1048576) % Data = 0
  /\ Gprs \subseteq 0 .. 31 /\ Fprs \subseteq 0 .. 31 /\ Csrs \subseteq 0 .. 4095
  /\ {0, 10, 11, 12, 17} \subseteq Gprs /\ {2, 3} \subseteq Csrs
  /\ audio_samples \in Seq(Registers) /\ image_samples \in Seq(Registers)
  /\ Inputs \subseteq Seq(0 .. Radix - 1)

Memories == [0 .. MemSize - 1 -> 0 .. Radix - 1]

kFrm  == 2    (* the rounding mode, 0x002 *)
kFcsr == 3    (* the flags, 0x003         *)

SIG_LOW    == 1
SIG_POINTER == 40

SYSCALL_PRINT_STRING == 4
SYSCALL_EXIT == 10
SYSCALL_READ == 63
SYSCALL_WRITE == 64

(* Mutant: x0 is written like the others.                                  *)
WrittenAnywhere(registers, rd, w) == [registers EXCEPT ![rd] = w]

(* WriteGpr and ReadGpr keep x0 zero.                                      *)
Written(registers, rd, w) == IF rd = 0 THEN registers ELSE [registers EXCEPT ![rd] = w]

(* A register that is not kept is never written and still 0.                *)
Register(registers, r) == IF r \in DOMAIN registers THEN registers[r] ELSE 0

InRange(a, n) == a + n =< MemSize

(* The next sample of a stream, which starts anew after one 0.             *)
Sample(samples, i)    == IF i < Len(samples) THEN samples[i + 1] ELSE 0
NextIndex(samples, i) == IF i < Len(samples) THEN i + 1 ELSE 0

Indices == [audio : 0 .. Len(audio_samples), image : 0 .. Len(image_samples)]

(* SYSCALL_READ: the line, cut at the length of the buffer or ended by a   *)
(* zero byte.                                                              *)
Received(m, buffer, length, input) ==
  [ i \in DOMAIN m |->
      IF i \notin buffer .. buffer + length - 1 THEN m[i]
      ELSE IF i - buffer < Len(input)           THEN input[i - buffer + 1]
      ELSE IF i - buffer = Len(input)           THEN 0 ELSE m[i] ]

(* What HandleSyscall makes of the registers: the descriptor, the buffer   *)
(* and its length are a0, a1 and a2.  A byte read outside the memory       *)
(* throws, and nobody catches it.  Calls that only print, unknown calls    *)
(* and unsupported descriptors are quiet.                                  *)
Buffered(g) == g[12] = 0 \/ InRange(g[11], g[12])

SyscallKind(g, m) ==
  CASE g[17] = SYSCALL_EXIT -> "exit"
    [] g[17] = SYSCALL_PRINT_STRING /\ ~(\E i \in DOMAIN m : i >= g[10] /\ m[i] = 0) -> "fault"
    [] g[17] = SYSCALL_READ /\ g[10] = 0  -> IF Buffered(g) THEN "read" ELSE "fault"
    [] g[17] = SYSCALL_WRITE /\ g[10] = 1 -> IF Buffered(g) THEN "write" ELSE "fault"
    [] OTHER -> "quiet"

=============================================================================
