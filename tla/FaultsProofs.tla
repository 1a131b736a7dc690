------------------------------ MODULE FaultsProofs -----------------------------
(* Proofs about Faults, for every set of exceptions the program may cause and   *)
(* every content of the low memory; and about Descriptors, by whose tables the  *)
(* processor finds the stub of an exception: that create_descriptor keeps its   *)
(* arguments whatever they are, and that the tables are what Faults and the     *)
(* other modules take them for.                                                 *)
EXTENDS Faults, Descriptors, TLAPS, SequenceTheorems
--------------------------------------------------------------------------------
(* The frame *)

Labels == {"eflags", "cs", "eip", "err_code", "dummy", "int_no", "saved", "r"}

StackWord == Labels \X Nat

(* What the processor has pushed when it enters a stub.                         *)
ProcessorsPart ==
    LET top == Len(stack)
    IN  IF vector \in WithErrorCode
           THEN top >= 4 /\ stack[top] = Word("err_code") /\ stack[top - 1] = Word("eip")
           ELSE top >= 3 /\ stack[top] = Word("eip")

(* The frame, with the word of the vector as the top-th.                        *)
FrameBelow(top) ==
    /\ top \in 3 .. Len(stack)
    /\ stack[top][1] = "int_no"
    /\ vector \notin StubsPushingMemory => stack[top][2] = vector
    /\ stack[top - 1] = Word(IF vector \in WithErrorCode THEN "err_code" ELSE "dummy")
    /\ stack[top - 2] = Word("eip")

(* FrameLayout and ReportedTruly are not inductive: they say nothing of the     *)
(* frame before fault_handler has it.  This one follows it as it grows.         *)
IInv ==
    /\ TypeOK
    /\ pc = "isr" => ProcessorsPart
    /\ pc = "isr_common_stub" => FrameBelow(Len(stack))
    /\ pc = "fault_handler" => FrameBelow(Len(stack) - 1 - SavedWords)
    /\ ReportedTruly

(* The words pushed lie on top of the ones that were there, which stay.         *)
LEMMA Pushed ==
    ASSUME NEW s \in Seq(StackWord), NEW t \in Seq(StackWord)
    PROVE  /\ s \o t \in Seq(StackWord)
           /\ Len(s) \in Nat /\ Len(t) \in Nat
           /\ Len(s \o t) = Len(s) + Len(t)
           /\ \A i \in 1 .. Len(s) : (s \o t)[i] = s[i]
           /\ \A i \in 1 .. Len(t) : (s \o t)[Len(s) + i] = t[i]
<1>1. /\ s \o t \in Seq(StackWord)
      /\ Len(s) \in Nat /\ Len(t) \in Nat
      /\ Len(s \o t) = Len(s) + Len(t)
  BY ConcatProperties, LenProperties
<1>2. \A i \in 1 .. Len(s \o t) : (s \o t)[i] = IF i <= Len(s) THEN s[i] ELSE t[i - Len(s)]
  BY ConcatProperties
<1>3. ASSUME NEW i \in 1 .. Len(s)
      PROVE  (s \o t)[i] = s[i]
  <2>1. i \in 1 .. Len(s \o t) /\ i <= Len(s)
    BY <1>1
  <2> QED BY <1>2, <2>1
<1>4. ASSUME NEW i \in 1 .. Len(t)
      PROVE  (s \o t)[Len(s) + i] = t[i]
  <2> DEFINE j == Len(s) + i
  <2>1. j \in 1 .. Len(s \o t) /\ ~ (j <= Len(s)) /\ j - Len(s) = i
    BY <1>1
  <2> HIDE DEF j
  <2>2. (s \o t)[j] = t[i]
    BY <1>2, <2>1
  <2> QED BY <2>2 DEF j
<1> QED BY <1>1, <1>3, <1>4

LEMMA WordTyped ==
    ASSUME NEW name \in Labels
    PROVE  Word(name) \in StackWord /\ Word(name)[1] = name
BY DEF Word, StackWord

LEMMA InitIInv == Init => IInv
<1> SUFFICES ASSUME Init PROVE IInv
  OBVIOUS
<1>1. stack = <<>> /\ screen = <<>> /\ pc = "running" /\ vector = 0 /\ nmi_masked = FALSE
  BY DEF Init
<1>2. TypeOK
  <2>1. vector \in 0 .. 31
    BY <1>1
  <2>2. nmi_masked \in BOOLEAN
    BY <1>1, Zenon
  <2> QED BY <1>1, <2>1, <2>2 DEF TypeOK
<1>3. ReportedTruly
  BY <1>1 DEF ReportedTruly, Reported
<1> QED BY <1>1, <1>2, <1>3 DEF IInv

(* The processor enters a stub.                                                 *)
LEMMA ExceptionIInv ==
    ASSUME IInv, NEW v \in 0 .. 31, Exception(v), nmi_masked' \in BOOLEAN
    PROVE  IInv'
<1> DEFINE part == Words(<<"eflags", "cs", "eip">>)
           code == IF v \in WithErrorCode THEN <<Word("err_code")>> ELSE <<>>
<1>1. /\ stack' = (stack \o part) \o code
      /\ pc' = "isr" /\ vector' = v /\ UNCHANGED screen
  BY DEF Exception
<1>2. stack \in Seq(StackWord)
  BY DEF IInv, TypeOK, StackWord, Labels
<1>3. part \in Seq(StackWord) /\ Len(part) = 3 /\ part[3] = Word("eip")
  <2>1. part = <<Word("eflags"), Word("cs"), Word("eip")>>
    BY DEF Words
  <2>2. \A name \in {"eflags", "cs", "eip"} : Word(name) \in StackWord
    BY WordTyped DEF Labels
  <2> HIDE DEF part
  <2> QED BY <2>1, <2>2
<1>4. /\ code \in Seq(StackWord)
      /\ v \in WithErrorCode => Len(code) = 1 /\ code[1] = Word("err_code")
      /\ v \notin WithErrorCode => code = <<>> /\ Len(code) = 0
  BY WordTyped DEF Labels
<1> HIDE DEF part, code
<1> DEFINE under == stack \o part
<1>5. /\ under \in Seq(StackWord)
      /\ Len(under) = Len(stack) + 3 /\ Len(stack) \in Nat
      /\ under[Len(stack) + 3] = Word("eip")
  <2>1. /\ under \in Seq(StackWord) /\ Len(stack) \in Nat
        /\ Len(under) = Len(stack) + Len(part)
        /\ \A i \in 1 .. Len(part) : under[Len(stack) + i] = part[i]
    BY <1>2, <1>3, Pushed, Zenon
  <2> QED BY <1>3, <2>1
<1> HIDE DEF under
<1>6. /\ stack' \in Seq(StackWord)
      /\ Len(stack') = Len(stack) + 3 + Len(code)
      /\ stack'[Len(stack) + 3] = Word("eip")
      /\ v \in WithErrorCode => stack'[Len(stack) + 4] = Word("err_code")
  <2>1. /\ stack' \in Seq(StackWord)
        /\ Len(stack') = Len(under) + Len(code)
        /\ \A i \in 1 .. Len(under) : stack'[i] = under[i]
        /\ \A i \in 1 .. Len(code) : stack'[Len(under) + i] = code[i]
    BY <1>1, <1>4, <1>5, Pushed, Zenon DEF under
  <2>2. ASSUME v \in WithErrorCode
        PROVE  stack'[Len(under) + 1] = Word("err_code")
    <3>1. 1 \in 1 .. Len(code) /\ code[1] = Word("err_code")
      BY <1>4, <2>2
    <3> QED BY <2>1, <3>1, Zenon
  <2> QED BY <1>5, <2>1, <2>2
<1>7. TypeOK'
  BY <1>1, <1>6 DEF IInv, TypeOK, StackWord, Labels
<1>8. ProcessorsPart'
  <2>1. CASE v \in WithErrorCode
    <3>1. /\ Len(stack') = Len(stack) + 4 /\ Len(stack') - 1 = Len(stack) + 3
          /\ Len(stack') >= 4
      <4>1. Len(code) = 1
        BY <1>4, <2>1, Zenon
      <4>2. Len(stack) \in Nat /\ Len(stack') = Len(stack) + 3 + Len(code)
        BY <1>5, <1>6, Zenon
      <4> QED BY <4>1, <4>2
    <3>2. stack'[Len(stack')] = Word("err_code") /\ stack'[Len(stack') - 1] = Word("eip")
      BY <1>6, <2>1, <3>1
    <3> QED BY <1>1, <2>1, <3>1, <3>2 DEF ProcessorsPart
  <2>2. CASE v \notin WithErrorCode
    BY <1>1, <1>4, <1>5, <1>6, <2>2 DEF ProcessorsPart
  <2> QED BY <2>1, <2>2
<1> QED BY <1>1, <1>7, <1>8 DEF IInv, ReportedTruly, Reported

(* A stub completes the frame, with or without a dummy for the error code.      *)
LEMMA StubIInv ==
    ASSUME IInv, Stub
    PROVE  IInv'
<1>1. PICK word \in IF vector \in StubsPushingMemory THEN LowWords ELSE {vector} :
        stack' = (stack \o (IF vector \in StubsWithoutDummy THEN <<>> ELSE <<Word("dummy")>>))
                    \o <<<<"int_no", word>>>>
  BY DEF Stub
<1> DEFINE dummy == IF vector \in StubsWithoutDummy THEN <<>> ELSE <<Word("dummy")>>
           number == <<<<"int_no", word>>>>
           below == stack \o dummy
           under == Len(below)
<1>2. /\ pc = "isr" /\ pc' = "isr_common_stub" /\ UNCHANGED <<vector, nmi_masked, screen>>
      /\ ProcessorsPart
  BY DEF Stub, IInv
<1>3. stack \in Seq(StackWord) /\ vector \in 0 .. 31
  BY DEF IInv, TypeOK, StackWord, Labels
<1>4. word \in Nat /\ (vector \notin StubsPushingMemory => word = vector)
  BY <1>1, <1>3, FaultsAssumption
<1>5. vector \in StubsWithoutDummy <=> vector \in WithErrorCode
  BY DEF StubsWithoutDummy, WithErrorCode
<1>6. /\ dummy \in Seq(StackWord)
      /\ vector \in WithErrorCode => dummy = <<>> /\ Len(dummy) = 0
      /\ vector \notin WithErrorCode => Len(dummy) = 1 /\ dummy[1] = Word("dummy")
  BY <1>5, WordTyped DEF Labels
<1>7. /\ number \in Seq(StackWord) /\ Len(number) = 1
      /\ number[1][1] = "int_no" /\ number[1][2] = word
  <2>1. <<"int_no", word>> \in StackWord
    BY <1>4 DEF StackWord, Labels
  <2> QED BY <2>1
<1> HIDE DEF dummy, number
<1>8. /\ stack' = below \o number
      /\ below \in Seq(StackWord) /\ Len(stack) \in Nat
      /\ under = Len(stack) + Len(dummy)
      /\ \A i \in 1 .. Len(stack) : below[i] = stack[i]
      /\ \A i \in 1 .. Len(dummy) : below[Len(stack) + i] = dummy[i]
  <2>1. stack' = below \o number
    BY <1>1 DEF dummy, number
  <2> QED BY <1>3, <1>6, <2>1, Pushed, Zenon
<1> HIDE DEF below
<1>9. /\ under >= 2
      /\ below[under]
            = Word(IF vector \in WithErrorCode THEN "err_code" ELSE "dummy")
      /\ below[under - 1] = Word("eip")
  <2>1. CASE vector \in WithErrorCode
    <3>1. under = Len(stack) /\ Len(stack) >= 4
      BY <1>2, <1>6, <1>8, <2>1 DEF ProcessorsPart
    <3>2. below[under] = stack[under] /\ below[under - 1] = stack[under - 1]
      BY <1>8, <3>1
    <3> QED BY <1>2, <2>1, <3>1, <3>2 DEF ProcessorsPart
  <2>2. CASE vector \notin WithErrorCode
    <3>1. under = Len(stack) + 1 /\ Len(stack) >= 3
      BY <1>2, <1>6, <1>8, <2>2 DEF ProcessorsPart
    <3>2. below[under] = dummy[1] /\ below[under - 1] = stack[Len(stack)]
      BY <1>6, <1>8, <2>2, <3>1
    <3> QED BY <1>2, <1>6, <2>2, <3>1, <3>2 DEF ProcessorsPart
  <2> QED BY <2>1, <2>2
<1> HIDE DEF under
<1>10. /\ stack' \in Seq(StackWord)
       /\ Len(stack') = under + 1 /\ under \in Nat
       /\ stack'[under + 1] = number[1]
       /\ stack'[under] = below[under]
       /\ stack'[under - 1] = below[under - 1]
  <2>1. /\ stack' \in Seq(StackWord) /\ under \in Nat
        /\ Len(stack') = under + Len(number)
        /\ \A i \in 1 .. under : stack'[i] = below[i]
        /\ \A i \in 1 .. Len(number) : stack'[under + i] = number[i]
    BY <1>7, <1>8, Pushed, Zenon DEF under
  <2> QED BY <1>7, <1>9, <2>1
<1>11. FrameBelow(Len(stack))'
  BY <1>2, <1>4, <1>7, <1>9, <1>10 DEF FrameBelow
<1>12. TypeOK'
  BY <1>2, <1>10 DEF IInv, TypeOK, StackWord, Labels
<1> QED BY <1>2, <1>11, <1>12 DEF IInv, ReportedTruly, Reported

(* isr_common_stub saves the registers above the frame.                         *)
LEMMA CommonStubIInv ==
    ASSUME IInv, isr_common_stub
    PROVE  IInv'
<1> DEFINE saved == [i \in 1 .. SavedWords |-> Word("saved")]
           argument == <<Word(Argument)>>
           top == Len(stack)
           below == stack \o saved
<1>1. /\ stack' = below \o argument
      /\ pc = "isr_common_stub" /\ pc' = "fault_handler"
      /\ UNCHANGED <<vector, nmi_masked, screen>>
      /\ FrameBelow(top)
  BY DEF isr_common_stub, IInv, Callee
<1>2. stack \in Seq(StackWord) /\ top \in Nat
  BY DEF IInv, TypeOK, StackWord, Labels
<1>3. /\ saved \in Seq(StackWord) /\ Len(saved) = 12
      /\ argument \in Seq(StackWord) /\ Len(argument) = 1
  BY WordTyped DEF Labels, SavedWords, Argument
<1> HIDE DEF saved, argument
<1>4. /\ below \in Seq(StackWord) /\ Len(below) = top + Len(saved)
      /\ \A i \in 1 .. top : below[i] = stack[i]
  BY <1>2, <1>3, Pushed, Zenon
<1> HIDE DEF below
<1>5. /\ stack' \in Seq(StackWord) /\ Len(stack') = Len(below) + Len(argument)
      /\ \A i \in 1 .. Len(below) : stack'[i] = below[i]
  BY <1>1, <1>3, <1>4, Pushed, Zenon
<1>6. /\ Len(stack') - 1 - SavedWords = top
      /\ \A i \in 1 .. top : stack'[i] = stack[i]
  BY <1>2, <1>3, <1>4, <1>5 DEF SavedWords
<1> HIDE DEF top
<1>7. FrameBelow(Len(stack) - 1 - SavedWords)'
  <2>1. top \in 3 .. Len(stack') /\ {top, top - 1, top - 2} \subseteq 1 .. top
    BY <1>1, <1>2, <1>3, <1>4, <1>5 DEF FrameBelow
  <2>2. /\ stack'[top] = stack[top]
        /\ stack'[top - 1] = stack[top - 1]
        /\ stack'[top - 2] = stack[top - 2]
    BY <1>6, <2>1
  <2>3. SavedWords' = SavedWords /\ top = Len(stack') - 1 - SavedWords
    BY <1>6 DEF SavedWords
  <2> QED BY <1>1, <2>1, <2>2, <2>3 DEF FrameBelow
<1>8. TypeOK'
  BY <1>1, <1>5 DEF IInv, TypeOK, StackWord, Labels
<1> QED BY <1>1, <1>7, <1>8 DEF IInv, ReportedTruly, Reported

(* fault_handler reads the frame.                                               *)
LEMMA HandlerIInv ==
    ASSUME IInv, fault_handler
    PROVE  IInv'
<1> DEFINE line == <<IF r.int_no[2] < 32 THEN "message" ELSE "number", r.int_no[2]>>
           top == Len(stack) - 1 - SavedWords
<1>1. /\ screen' = Append(screen, line)
      /\ pc = "fault_handler" /\ pc' = "halted"
      /\ UNCHANGED <<stack, vector, nmi_masked>>
      /\ FrameBelow(top)
  BY DEF fault_handler, IInv
<1>2. /\ stack \in Seq(StackWord) /\ screen \in Seq({"message", "number"} \X Nat)
      /\ vector \in 0 .. 31 /\ Len(stack) \in Nat
  BY DEF IInv, TypeOK, StackWord, Labels
<1>3. r.int_no = stack[top]
  BY DEF r, RegsField
<1>4. stack[top] \in StackWord
  BY <1>1, <1>2 DEF FrameBelow
<1>5. line \in {"message", "number"} \X Nat
  BY <1>3, <1>4 DEF StackWord
<1>6. vector \notin StubsPushingMemory => line = <<"message", vector>>
  <2> SUFFICES ASSUME vector \notin StubsPushingMemory PROVE line = <<"message", vector>>
    OBVIOUS
  <2>1. r.int_no[2] = vector
    BY <1>1, <1>3 DEF FrameBelow
  <2>2. vector < 32
    BY <1>2
  <2> QED BY <2>1, <2>2
<1> HIDE DEF line
<1>7. screen' \in Seq({"message", "number"} \X Nat) /\ screen'[Len(screen')] = line
  BY <1>1, <1>2, <1>5
<1>8. TypeOK'
  BY <1>1, <1>7 DEF IInv, TypeOK
<1>9. ReportedTruly'
  BY <1>1, <1>6, <1>7 DEF ReportedTruly, Reported
<1> QED BY <1>1, <1>8, <1>9 DEF IInv

LEMMA NextIInv == IInv /\ [Next]_vars => IInv'
<1> SUFFICES ASSUME IInv, [Next]_vars PROVE IInv'
  OBVIOUS
<1>1. CASE Trap
  <2>1. PICK v \in Traps \ {NMI} : Exception(v)
    BY <1>1 DEF Trap
  <2>2. v \in 0 .. 31 /\ nmi_masked' \in BOOLEAN
    BY <1>1, FaultsAssumption DEF Trap, IInv, TypeOK
  <2> QED BY <2>1, <2>2, ExceptionIInv
<1>2. CASE NonMaskable
  BY <1>2, ExceptionIInv DEF NonMaskable, NMI
<1>3. CASE Stub
  BY <1>3, StubIInv
<1>4. CASE isr_common_stub
  BY <1>4, CommonStubIInv
<1>5. CASE fault_handler
  BY <1>5, HandlerIInv
<1>6. CASE UNCHANGED vars
  BY <1>6 DEF vars, IInv, TypeOK, ProcessorsPart, FrameBelow, ReportedTruly, Reported
<1> QED BY <1>1, <1>2, <1>3, <1>4, <1>5, <1>6 DEF Next

THEOREM Invariance == Spec => []IInv
BY InitIInv, NextIInv, PTL DEF Spec

(* The variables keep their types.                                              *)
THEOREM TypeCorrect == Spec => []TypeOK
<1>1. IInv => TypeOK
  BY DEF IInv
<1> QED BY Invariance, <1>1, PTL

(* However exceptions nest, fault_handler finds each field of struct regs on    *)
(* the word that was pushed for it.                                             *)
THEOREM FieldsInPlace == Spec => []FrameLayout
<1>1. IInv => FrameLayout
  BY DEF IInv, FrameBelow, FrameLayout, r, RegsField, SavedWords, TypeOK
<1> QED BY Invariance, <1>1, PTL

(* What is reported is the exception that was taken, if its stub pushes its own *)
(* number.                                                                      *)
THEOREM Truly == Spec => []ReportedTruly
<1>1. IInv => ReportedTruly
  BY DEF IInv
<1> QED BY Invariance, <1>1, PTL
--------------------------------------------------------------------------------
(* The tables *)

(* A bit of a word shifted to the right is a bit of the word, further left.     *)
LEMMA ShrMember ==
    ASSUME NEW w \in SUBSET Int, NEW n \in Int, NEW b
    PROVE  b \in Shr(w, n) <=> b \in Nat /\ b + n \in w
<1>1. ASSUME b \in Shr(w, n)
      PROVE  b \in Nat /\ b + n \in w
    <2>1. PICK c \in w : c >= n /\ b = c - n
        BY <1>1 DEF Shr
    <2>2. c \in Int /\ b + n = c
        BY <2>1
    <2> QED
        BY <2>1, <2>2
<1>2. ASSUME b \in Nat, b + n \in w
      PROVE  b \in Shr(w, n)
    <2>1. b + n >= n /\ b = (b + n) - n
        BY <1>2
    <2> QED
        BY <1>2, <2>1 DEF Shr
<1> QED
    BY <1>1, <1>2

(* create_descriptor: see FieldsKept.                                           *)
THEOREM DescriptorKeepsFields ==
    ASSUME NEW base \in Word32, NEW limit \in Word32, NEW flag \in Word16
    PROVE  FieldsKept(base, limit, flag)
<1> DEFINE d == create_descriptor(base, limit, flag)
<1>1. base \subseteq 0 .. 31 /\ limit \subseteq 0 .. 31 /\ flag \subseteq 0 .. 15
    BY DEF Word32, Word16
<1>2. ASSUME NEW b
      PROVE  b \in d <=>
                \/ b \in 0 .. 15 /\ b \in limit
                \/ b \in 16 .. 31 /\ b - 16 \in base
                \/ b \in 32 .. 39 /\ b - 16 \in base
                \/ b \in (40 .. 47 \cup 52 .. 55) /\ b - 40 \in flag
                \/ b \in 48 .. 51 /\ b - 32 \in limit
                \/ b \in 56 .. 63 /\ b - 32 \in base
    BY <1>1 DEF create_descriptor, Shl, Shr
<1> HIDE DEF d
<1>3. d \subseteq 0 .. 63
    BY <1>2
<1>4. Base(d) = base
    <2>1. ASSUME NEW b PROVE b \in Shr(d \cap 16 .. 39, 16) <=> b \in 0 .. 23 /\ b \in base
        BY <1>1, <1>2, ShrMember
    <2>2. ASSUME NEW b PROVE b \in Shr(d \cap 56 .. 63, 32) <=> b \in 24 .. 31 /\ b \in base
        BY <1>1, <1>2, ShrMember
    <2>3. ASSUME NEW b PROVE b \in Base(d) <=> b \in (0 .. 23 \cup 24 .. 31) /\ b \in base
        BY <2>1, <2>2, Zenon DEF Base
    <2>4. 0 .. 23 \cup 24 .. 31 = 0 .. 31
        OBVIOUS
    <2> QED
        BY <1>1, <2>3, <2>4
<1>5. Limit(d) = limit \cap 0 .. 19
    <2>1. ASSUME NEW b PROVE b \in Shr(d \cap 48 .. 51, 32) <=> b \in 16 .. 19 /\ b \in limit
        BY <1>1, <1>2, ShrMember
    <2> QED
        BY <1>1, <1>2, <2>1 DEF Limit
<1>6. Attributes(d) = flag \ 8 .. 11
    <2>1. ASSUME NEW b
          PROVE  b \in Shr(d \cap (40 .. 47 \cup 52 .. 55), 40)
                    <=> b \in (0 .. 7 \cup 12 .. 15) /\ b \in flag
        BY <1>1, <1>2, ShrMember
    <2>2. ASSUME NEW b PROVE b \in Attributes(d) <=> b \in flag \ 8 .. 11
        <3>1. b \in Attributes(d) <=> b \in (0 .. 7 \cup 12 .. 15) /\ b \in flag
            BY <2>1, Zenon DEF Attributes
        <3>2. 0 .. 7 \cup 12 .. 15 = 0 .. 15 \ 8 .. 11
            OBVIOUS
        <3> QED
            BY <1>1, <3>1, <3>2
    <2> QED
        BY <2>2
<1> QED
    BY <1>3, <1>4, <1>5, <1>6 DEF FieldsKept, d

(* The tables: see SegmentsFlat, for every address and size of the task state   *)
(* segment.                                                                     *)
THEOREM KernelSegmentsFlat ==
    ASSUME tss \in Word32, tss_end \in Word32
    PROVE  SegmentsFlat
<1>1. Shr(cs, 3) = {0} /\ Shr(ds, 3) = {1} /\ Shr(tr, 3) = {0, 2}
    BY DEF Shr, cs, ds, tr
<1>2. /\ Named(cs) = create_descriptor({}, 0 .. 31, GDT_CODE_PL0)
      /\ Named(ds) = create_descriptor({}, 0 .. 31, GDT_DATA_PL0)
      /\ Named(tr) = create_descriptor(tss, tss_end, GDT_TSS)
    <2>1. {0} # {} /\ {1} # {} /\ {0, 2} # {} /\ {1} # {0} /\ {0, 2} # {0} /\ {0, 2} # {1}
          /\ {0, 2} # {0, 1} /\ {0, 2} # {2} /\ {1} # {0, 1} /\ {0} # {0, 1} /\ {0} # {2} /\ {1} # {2}
        OBVIOUS
    <2>2. /\ gdt[{0}] = create_descriptor({}, 0 .. 31, GDT_CODE_PL0)
          /\ gdt[{1}] = create_descriptor({}, 0 .. 31, GDT_DATA_PL0)
          /\ gdt[{0, 2}] = create_descriptor(tss, tss_end, GDT_TSS)
        BY <2>1, Zenon DEF gdt
    <2> QED
        BY <1>1, <2>2, Zenon DEF Named
<1>3. /\ GDT_CODE_PL0 = {1, 3, 4, 7, 14, 15}
      /\ GDT_DATA_PL0 = {1, 4, 7, 14, 15}
      /\ GDT_TSS = {0, 3, 7, 14}
    BY DEF GDT_CODE_PL0, GDT_DATA_PL0, GDT_TSS, SEG_DESCTYPE, SEG_PRES, SEG_SIZE, SEG_GRAN,
           SEG_CODE_EXRD, SEG_DATA_RDWR, SEG_CODE_EXA
<1>4. /\ {} \in Word32 /\ 0 .. 31 \in Word32
      /\ GDT_CODE_PL0 \in Word16 /\ GDT_DATA_PL0 \in Word16 /\ GDT_TSS \in Word16
    BY <1>3 DEF Word32, Word16
<1>5. FieldsKept({}, 0 .. 31, GDT_CODE_PL0) /\ FieldsKept({}, 0 .. 31, GDT_DATA_PL0)
    BY <1>4, DescriptorKeepsFields
<1>6. FieldsKept(tss, tss_end, GDT_TSS)
    BY <1>4, DescriptorKeepsFields
<1>7. Flat(Named(cs)) /\ Code(Named(cs))
    <2>1. Attributes(Named(cs)) = {1, 3, 4, 7, 14, 15}
        BY <1>2, <1>3, <1>5 DEF FieldsKept
    <2> QED
        BY <1>2, <1>5, <2>1 DEF FieldsKept, Flat, Code
<1>8. Flat(Named(ds)) /\ Writable(Named(ds))
    <2>1. Attributes(Named(ds)) = {1, 4, 7, 14, 15}
        BY <1>2, <1>3, <1>5 DEF FieldsKept
    <2> QED
        BY <1>2, <1>5, <2>1 DEF FieldsKept, Flat, Writable
<1>9. Base(Named(tr)) = tss /\ Attributes(Named(tr)) = {0, 3, 7, 14}
    BY <1>2, <1>3, <1>6 DEF FieldsKept
<1> QED
    BY <1>7, <1>8, <1>9 DEF SegmentsFlat

(* Every gate: see GatesEnterStubs, for every address of every stub.            *)
THEOREM EveryGateEntersItsStub ==
    ASSUME stub \in [0 .. 47 -> Word32]
    PROVE  GatesEnterStubs
<1>1. ASSUME NEW base \in Word32, NEW sel, NEW flags
      PROVE  Offset(idt_set_gate(base, sel, flags)) = base
    <2>1. base \subseteq 0 .. 31
        BY DEF Word32
    <2>2. ASSUME NEW b PROVE b \in Shr(base, 16) <=> b \in 0 .. 15 /\ b + 16 \in base
        BY <2>1, ShrMember
    <2>3. ASSUME NEW b
          PROVE  b \in Shl(Shr(base, 16) \cap 0 .. 15, 16) <=> b \in 16 .. 31 /\ b \in base
        <3>1. b \in Shl(Shr(base, 16) \cap 0 .. 15, 16) => b \in 16 .. 31 /\ b \in base
            BY <2>2 DEF Shl
        <3>2. ASSUME b \in 16 .. 31, b \in base
              PROVE  b \in Shl(Shr(base, 16) \cap 0 .. 15, 16)
            <4>1. b - 16 \in Shr(base, 16) \cap 0 .. 15
                BY <2>2, <3>2
            <4>2. b = (b - 16) + 16
                BY <3>2
            <4> QED
                BY <4>1, <4>2 DEF Shl
        <3> QED
            BY <3>1, <3>2
    <2>4. Offset(idt_set_gate(base, sel, flags))
            = (base \cap 0 .. 15) \cup Shl(Shr(base, 16) \cap 0 .. 15, 16)
        BY Zenon DEF Offset, idt_set_gate
    <2> DEFINE upper == Shl(Shr(base, 16) \cap 0 .. 15, 16)
    <2>5. \A b : b \in upper <=> b \in 16 .. 31 /\ b \in base
        BY <2>3
    <2> HIDE DEF upper
    <2>6. 0 .. 31 = 0 .. 15 \cup 16 .. 31
        OBVIOUS
    <2>7. (base \cap 0 .. 15) \cup upper = base
        BY <2>1, <2>5, <2>6, Zenon
    <2> QED
        BY <2>4, <2>7 DEF upper
<1>2. ASSUME NEW num \in 0 .. 47
      PROVE  /\ InterruptGate(IDT[num]) /\ Offset(IDT[num]) = stub[num]
             /\ Named(IDT[num].selector) = Named(cs)
    <2> num \in 0 .. 255
        OBVIOUS
    <2>1. IDT[num] = idt_set_gate(stub[num], {3}, {1, 2, 3, 7})
        BY Zenon DEF IDT
    <2>2. InterruptGate(IDT[num])
        BY <2>1 DEF InterruptGate, idt_set_gate
    <2>3. Offset(IDT[num]) = stub[num]
        BY <1>1, <2>1
    <2>4. IDT[num].selector = cs
        BY <2>1 DEF idt_set_gate, cs
    <2> QED
        BY <2>2, <2>3, <2>4
<1>3. ASSUME NEW num \in 0 .. 255, num \notin 0 .. 47
      PROVE  7 \notin IDT[num].type_attr
    BY <1>3 DEF IDT
<1> QED
    BY <1>2, <1>3 DEF GatesEnterStubs
================================================================================
