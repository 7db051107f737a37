--------------------------- MODULE ExceptionFrame ---------------------------
(***************************************************************************)
(* What is on an interrupt stack when an exception handler is called: the  *)
(* words the processor pushes, those of the stub (exceptions.S), and       *)
(* amd64_exception_info, the struct the handler reads them with.           *)
(*                                                                         *)
(* A word is a pair: the register it was pushed from and the context that  *)
(* register belonged to, or an immediate operand and its value.            *)
(***************************************************************************)
EXTENDS Naturals, Sequences

X86_EXC_DIVIDE       == 0
X86_EXC_DEBUG        == 1
X86_EXC_NMI          == 2
X86_EXC_BREAKPOINT   == 3
X86_EXC_DOUBLE_FAULT == 8
X86_EXC_GPF          == 13
X86_EXC_PAGING       == 14
X86_EXC_MCE          == 18

\* The vectors with a handler: 9 and 15 are not used by the processor, 21 and
\* above not by this kernel
Vectors == (0 .. 20) \ {9, 15}

\* The vectors for which the processor pushes an error code (external)
HasErrorCode == {8, 10, 11, 12, 13, 14, 17}

\* The stubs that push a zero in its place
PushesZero == {0, 1, 2, 3, 4, 5, 6, 7, 16, 18, 19, 20}

imm(n) == <<"imm", n>>

\* Pushed by the processor, the first one at the highest address (external)
HardwareWords(v, ctx) ==
  <<<<"ss", ctx>>, <<"rsp", ctx>>, <<"rflags", ctx>>, <<"cs", ctx>>, <<"rip", ctx>>>>
    \o (IF v \in HasErrorCode THEN <<<<"errCode", ctx>>>> ELSE <<>>)

\* Mutant of StubWords: amd64_exception_alignment_check like its neighbours
StubWordsAlignmentZero(v) ==
  (IF v \in PushesZero \cup {17} THEN <<imm(0)>> ELSE <<>>) \o <<imm(v)>>

\* The error code, where the stub has to supply one, and the vector's number
StubWords(v) == (IF v \in PushesZero THEN <<imm(0)>> ELSE <<>>) \o <<imm(v)>>

\* error_common_stub, and the page fault's stub, which repeats it
RegisterWords(ctx) ==
  <<<<"rax", ctx>>, <<"rcx", ctx>>, <<"rdx", ctx>>, <<"rbx", ctx>>, <<"rbp", ctx>>,
    <<"rsi", ctx>>, <<"rdi", ctx>>, <<"r8", ctx>>, <<"r9", ctx>>, <<"r10", ctx>>,
    <<"r11", ctx>>, <<"r12", ctx>>, <<"r13", ctx>>, <<"r14", ctx>>, <<"r15", ctx>>>>

-----------------------------------------------------------------------------
\* amd64_exception_info, its fields from the lowest address on
Fields ==
  <<"r15", "r14", "r13", "r12", "r11", "r10", "r9", "r8", "rdi", "rsi", "rbp",
    "rbx", "rdx", "rcx", "rax", "intNo", "errCode", "rip", "cs", "rflags", "rsp", "ss">>

\* The field at place k of the struct, info pointing to the last word pushed;
\* past the first word is what lies above the stack
Field(frame, k) ==
  LET i == Len(frame) + 1 - k IN IF i \in DOMAIN frame THEN frame[i] ELSE <<"above", 0>>

\* What a handler for v has to find: the interrupted context, all of it
Expected(f, v, ctx) ==
  CASE f = "intNo"                           -> imm(v)
    [] f = "errCode" /\ v \notin HasErrorCode -> imm(0)
    [] OTHER                                 -> <<f, ctx>>

IsContext(frame, v, ctx) ==
  /\ Len(frame) = Len(Fields)
  /\ \A k \in DOMAIN Fields : Field(frame, k) = Expected(Fields[k], v, ctx)
=============================================================================
