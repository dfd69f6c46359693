-------------------------- MODULE CodeMemoryProofs --------------------------
(***************************************************************************)
(* Theorems about CodeMemory, for a program and patches of any size, any   *)
(* pieces that cover the memory, and any number of patches and upsets.     *)
(***************************************************************************)
EXTENDS CodeMemory, FiniteSetTheorems, TLAPS

----------------------------------------------------------------------------
(* The algebra of checksums *)

LEMMA XorAlgebra ==
  ASSUME NEW x, NEW y, NEW z
  PROVE  /\ Xor(x, y) = Xor(y, x)
         /\ Xor(Xor(x, y), z) = Xor(x, Xor(y, z))
         /\ Xor(x, x) = {} /\ Xor(x, {}) = x /\ Xor({}, x) = x
         /\ Xor(x, y) = {} => x = y
BY DEF Xor

LEMMA XorType ==
  ASSUME NEW x \in Bytes, NEW y \in Bytes
  PROVE  Xor(x, y) \in Bytes
BY DEF Xor, Bytes

LEMMA SumType ==
  ASSUME NEW code, NEW S
  PROVE  Sum(code, S) \in Bytes
BY DEF Sum, Bytes

\* Whether a set has an odd number of elements.
Odd(S) == Cardinality(S) % 2 = 1

LEMMA OddXor ==
  ASSUME NEW S, NEW T, IsFiniteSet(S), IsFiniteSet(T)
  PROVE  Odd(Xor(S, T)) <=> (Odd(S) <=> ~Odd(T))
<1>1. /\ IsFiniteSet(S \ T) /\ Cardinality(S \ T) = Cardinality(S) - Cardinality(S \cap T)
      /\ IsFiniteSet(T \ S) /\ Cardinality(T \ S) = Cardinality(T) - Cardinality(T \cap S)
  BY FS_Difference
<1>2. S \cap T = T \cap S /\ (S \ T) \cap (T \ S) = {}
  OBVIOUS
<1>3. Cardinality({}) = 0
  BY FS_EmptySet
<1>4. Cardinality(Xor(S, T)) = Cardinality(S \ T) + Cardinality(T \ S) - 0
  <2>1. Cardinality((S \ T) \cup (T \ S)) =
          Cardinality(S \ T) + Cardinality(T \ S) - Cardinality((S \ T) \cap (T \ S))
    BY <1>1, FS_Union
  <2>2. Xor(S, T) = (T \ S) \cup (S \ T)
    BY DEF Xor
  <2>3. (T \ S) \cup (S \ T) = (S \ T) \cup (T \ S)
    OBVIOUS
  <2>. QED  BY <2>1, <2>2, <2>3, <1>2, <1>3
<1>5. IsFiniteSet(S \cap T)
  BY FS_Intersection
<1>6. /\ Cardinality(S) \in Nat /\ Cardinality(T) \in Nat /\ Cardinality(S \cap T) \in Nat
  BY <1>5, FS_CardinalityType
<1>7. Cardinality(Xor(S, T)) = Cardinality(S) + Cardinality(T) - 2 * Cardinality(S \cap T)
  <2>1. Cardinality(T \ S) = Cardinality(T) - Cardinality(S \cap T)
    BY <1>1, <1>2
  <2>2. Cardinality(S \ T) = Cardinality(S) - Cardinality(S \cap T)
    BY <1>1
  <2>. QED  BY <2>1, <2>2, <1>4, <1>6
<1>8. \A m, n, k \in Nat : (m + n - 2 * k) % 2 = 1 <=> (m % 2 = 1 <=> ~(n % 2 = 1))
  OBVIOUS
<1>. QED  BY <1>6, <1>7, <1>8 DEF Odd

\* The checksum of two sets of addresses that have nothing in common.
LEMMA SumUnion ==
  ASSUME NEW code, NEW S, NEW T, IsFiniteSet(S), IsFiniteSet(T), S \cap T = {}
  PROVE  Sum(code, S \cup T) = Xor(Sum(code, S), Sum(code, T))
<1>. DEFINE On(X, b) == {a \in X : b \in code[a]}
<1>1. ASSUME NEW b \in Bits
      PROVE  b \in Sum(code, S \cup T) <=> b \in Xor(Sum(code, S), Sum(code, T))
  <2>1. IsFiniteSet(On(S, b)) /\ IsFiniteSet(On(T, b))
    <3>1. On(S, b) \in SUBSET S /\ On(T, b) \in SUBSET T
      OBVIOUS
    <3>. QED  BY <3>1, FS_Subset
  <2>2. On(S \cup T, b) = Xor(On(S, b), On(T, b))
    BY DEF Xor
  <2>3. Odd(On(S \cup T, b)) <=> (Odd(On(S, b)) <=> ~Odd(On(T, b)))
    <3>. HIDE DEF On
    <3>. QED  BY <2>1, <2>2, OddXor
  <2>4. \A X : b \in Sum(code, X) <=> Odd(On(X, b))
    BY DEF Sum, Odd
  <2>. QED
    <3>. HIDE DEF On
    <3>. QED  BY <2>3, <2>4 DEF Xor
<1>2. Sum(code, S \cup T) \subseteq Bits /\ Xor(Sum(code, S), Sum(code, T)) \subseteq Bits
  BY DEF Sum, Xor
<1>. QED  BY <1>1, <1>2

LEMMA SumEmpty ==
  ASSUME NEW code
  PROVE  Sum(code, {}) = {}
<1>1. \A b : {a \in {} : b \in code[a]} = {}
  OBVIOUS
<1>2. Cardinality({}) % 2 # 1
  BY FS_EmptySet
<1>. QED  BY <1>1, <1>2 DEF Sum

LEMMA SumOne ==
  ASSUME NEW code, NEW a, code[a] \in Bytes
  PROVE  Sum(code, {a}) = code[a]
<1>1. ASSUME NEW b \in Bits
      PROVE  b \in Sum(code, {a}) <=> b \in code[a]
  <2>1. CASE b \in code[a]
    <3>1. {c \in {a} : b \in code[c]} = {a}
      BY <2>1
    <3>2. Cardinality({a}) = 1
      BY FS_Singleton
    <3>. QED  BY <2>1, <3>1, <3>2 DEF Sum
  <2>2. CASE b \notin code[a]
    <3>1. {c \in {a} : b \in code[c]} = {}
      BY <2>2
    <3>2. Cardinality({}) = 0
      BY FS_EmptySet
    <3>. QED  BY <2>2, <3>1, <3>2 DEF Sum
  <2>. QED  BY <2>1, <2>2
<1>2. Sum(code, {a}) \subseteq Bits /\ code[a] \subseteq Bits
  BY DEF Sum, Bytes
<1>. QED  BY <1>1, <1>2

\* Programs that agree on some addresses have the same checksum there.
LEMMA SumSame ==
  ASSUME NEW code, NEW other, NEW S, \A a \in S : code[a] = other[a]
  PROVE  Sum(code, S) = Sum(other, S)
<1>1. \A b : {a \in S : b \in code[a]} = {a \in S : b \in other[a]}
  OBVIOUS
<1>. QED  BY <1>1 DEF Sum

\* The checksum of a program that is the XOR of two others, byte for byte.
LEMMA SumXor ==
  ASSUME NEW code, NEW other, NEW both, NEW S, IsFiniteSet(S),
         \A a \in S : both[a] = Xor(code[a], other[a])
  PROVE  Sum(both, S) = Xor(Sum(code, S), Sum(other, S))
<1>. DEFINE On(c, b) == {a \in S : b \in c[a]}
<1>1. ASSUME NEW b \in Bits
      PROVE  b \in Sum(both, S) <=> b \in Xor(Sum(code, S), Sum(other, S))
  <2>1. IsFiniteSet(On(code, b)) /\ IsFiniteSet(On(other, b))
    <3>1. On(code, b) \in SUBSET S /\ On(other, b) \in SUBSET S
      OBVIOUS
    <3>. QED  BY <3>1, FS_Subset
  <2>2. On(both, b) = Xor(On(code, b), On(other, b))
    BY DEF Xor
  <2>3. Odd(On(both, b)) <=> (Odd(On(code, b)) <=> ~Odd(On(other, b)))
    <3>. HIDE DEF On
    <3>. QED  BY <2>1, <2>2, OddXor
  <2>4. \A c : b \in Sum(c, S) <=> Odd(On(c, b))
    BY DEF Sum, Odd
  <2>. QED
    <3>. HIDE DEF On
    <3>. QED  BY <2>3, <2>4 DEF Xor
<1>2. Sum(both, S) \subseteq Bits /\ Xor(Sum(code, S), Sum(other, S)) \subseteq Bits
  BY DEF Sum, Xor
<1>. QED  BY <1>1, <1>2

----------------------------------------------------------------------------
(* The memory and its pieces *)

LEMMA Memory ==
  /\ Addresses \subseteq Nat /\ IsFiniteSet(Addresses)
  /\ SRAM1 \subseteq Addresses /\ IsFiniteSet(SRAM1)
<1>1. CODE_MEMORY_END \in Nat /\ BEGIN_SRAM1 \in Nat /\ BEGIN_SRAM1 <= CODE_MEMORY_END
  BY ConstantsAssumption DEF Addresses
<1>2. IsFiniteSet(0 .. CODE_MEMORY_END) /\ IsFiniteSet(BEGIN_SRAM1 .. CODE_MEMORY_END)
  BY <1>1, FS_Interval
<1>. QED  BY <1>1, <1>2 DEF Addresses, SRAM1

LEMMA WrittenMemory ==
  ASSUME NEW address \in SRAM1, address + MEM_BUFFER_SIZE - 1 <= CODE_MEMORY_END
  PROVE  /\ Written(address) \subseteq SRAM1
         /\ IsFiniteSet(Written(address))
         /\ \A a \in Written(address) : a - address \in 0 .. MEM_BUFFER_SIZE - 1
<1>1. /\ CODE_MEMORY_END \in Nat /\ BEGIN_SRAM1 \in Nat /\ MEM_BUFFER_SIZE \in Nat
      /\ address \in Nat /\ address >= BEGIN_SRAM1
  BY ConstantsAssumption DEF Addresses, SRAM1
<1>2. IsFiniteSet(Written(address))
  BY <1>1, FS_Interval DEF Written
<1>. QED  BY <1>1, <1>2 DEF Written, SRAM1

\* A product of sizes grows with the count.
LEMMA Product ==
  ASSUME NEW k \in Nat, NEW n \in Nat, NEW size \in Nat \ {0}, k < n
  PROVE  /\ k * size \in Nat /\ n * size \in Nat
         /\ k * size + size <= n * size
<1>1. /\ k * size \in Nat /\ n * size \in Nat /\ (n - k - 1) * size \in Nat
  OBVIOUS
<1>2. n * size = k * size + size + (n - k - 1) * size
  OBVIOUS
<1>. QED  BY <1>1, <1>2

\* The pieces are not empty, lie in the memory, and each one ends where the one that was
\* added before it starts.
LEMMA Pieces ==
  ASSUME checksum_count \in 0 .. CHECK_COUNT
  PROVE  /\ check_start \in Nat /\ check_end \in Addresses /\ check_start <= check_end
         /\ checksum_count = 0 => check_start = 0
         /\ checksum_count > 0 => check_start - 1 = (checksum_count - 1) * CHECK_SIZE
                                                    + CHECK_SIZE - 1
<1>1. /\ CHECK_COUNT \in Nat /\ CHECK_SIZE \in Nat \ {0} /\ CODE_MEMORY_END \in Nat
      /\ CHECK_COUNT * CHECK_SIZE <= CODE_MEMORY_END /\ checksum_count \in Nat
  BY ConstantsAssumption
<1>2. CHECK_COUNT * CHECK_SIZE \in Nat /\ checksum_count * CHECK_SIZE \in Nat
  BY <1>1
<1>3. checksum_count # CHECK_COUNT =>
        checksum_count * CHECK_SIZE + CHECK_SIZE <= CHECK_COUNT * CHECK_SIZE
  BY <1>1, Product
<1>4. check_start \in Nat /\ check_end \in Addresses /\ check_start <= check_end
  BY <1>1, <1>2, <1>3 DEF check_start, check_end, Addresses
<1>5. checksum_count = 0 => check_start = 0
  BY <1>1 DEF check_start
<1>6. checksum_count > 0 => checksum_count * CHECK_SIZE - 1 =
        (checksum_count - 1) * CHECK_SIZE + CHECK_SIZE - 1
  BY <1>1
<1>. QED  BY <1>4, <1>5, <1>6 DEF check_start

----------------------------------------------------------------------------
(* Types *)

LEMMA FetchType ==
  ASSUME sram \in Images, NEW a \in Addresses
  PROVE  Fetch(a) \in Bytes
BY ProgramAssumption DEF Fetch, Images

LEMMA NothingType == {} \in Bytes /\ [a \in SRAM1 |-> {}] \in Images
BY DEF Bytes, Images

\* What a reset leaves of the types.
LEMMA ResetTypes ==
  ASSUME TypeOK, NEW class \in ResetClasses, Reset(class)
  PROVE  /\ health' = [health EXCEPT !.at = "Init_DPU"]
         /\ health' \in [at : Places, i : Nat] /\ ~At("add")'
         /\ s_w_reset' \in ResetClasses /\ interrupted' \in BOOLEAN
<1>1. health \in [at : Places, i : Nat] /\ interrupted \in BOOLEAN
  BY DEF TypeOK
<1>. QED  BY <1>1 DEF Reset, Goto, At, Places

THEOREM TypeInit == Init => TypeOK
<1>. SUFFICES ASSUME Init PROVE TypeOK
  OBVIOUS
<1>1. counts \in [patches : 0 .. MaxPatches, upsets : 0 .. MaxUpsets]
  BY ConstantsAssumption DEF Init
<1>2. checksum_count \in 0 .. CHECK_COUNT
  BY ConstantsAssumption DEF Init
<1>. QED  BY <1>1, <1>2, NothingType DEF Init, TypeOK, At, Places, ResetClasses, NotWarm

LEMMA InitDPUTypes ==
  ASSUME TypeOK, Init_DPU
  PROVE  TypeOK'
<1>1. sram' \in Images /\ failed_code_address' \in BOOLEAN
      /\ upsets' \in Images /\ repaired' \in Bytes /\ patched_beside' \in BOOLEAN
  <2>1. PROM_Image \in Images
    BY Memory, ProgramAssumption DEF PROM_Image, Images
  <2>2. CASE s_w_reset = "warm_reset_e"
    BY <2>2 DEF TypeOK, Init_DPU, InitCode_RAM, KeepCode
  <2>3. CASE s_w_reset # "warm_reset_e"
    <3>1. PICK failed \in BOOLEAN, contents \in {sram, [a \in SRAM1 |-> {}]} :
            TestAndCopy(failed, contents)
      BY <2>3 DEF Init_DPU, InitCode_RAM
    <3>2. contents \in Images
      BY NothingType DEF TypeOK
    <3>. QED  BY <2>1, <3>1, <3>2, NothingType DEF TestAndCopy, ForgetHistory
  <2>. QED  BY <2>2, <2>3
<1>2. garbage' \subseteq Data
  BY DEF Init_DPU, InitData_RAM, TypeOK
<1>3. checksum_count' \in 0 .. CHECK_COUNT
  BY ConstantsAssumption DEF Init_DPU
<1>4. health' \in [at : Places, i : Nat] /\ ~At("add")'
  BY DEF Init_DPU, Goto, TypeOK, At, Places
<1>. QED  BY <1>1, <1>2, <1>3, <1>4 DEF TypeOK, Init_DPU

LEMMA BootTypes ==
  ASSUME TypeOK, Boot
  PROVE  TypeOK'
<1>1. health' \in [at : Places, i : Nat] /\ ~At("add")'
  BY DEF Boot, Goto, TypeOK, At, Places, Running
<1>2. reference_checksum' \in Bytes
  BY NothingType DEF Boot, ReferenceAfter, INITIAL_CHECKSUM_VALUE, TypeOK
<1>3. garbage' \subseteq Data
  BY DEF Boot, TypeOK
<1>. QED  BY <1>1, <1>2, <1>3 DEF TypeOK, Boot, memory, history

LEMMA HardwareResetTypes ==
  ASSUME TypeOK, NEW class \in HardwareClasses, HardwareReset(class)
  PROVE  TypeOK'
<1>1. class \in ResetClasses
  BY DEF HardwareClasses, ResetClasses, NotWarm
<1>2. garbage' \subseteq Data
  BY DEF HardwareReset, TypeOK
<1>3. Reset(class)
  BY DEF HardwareReset
<1>. QED  BY <1>1, <1>2, <1>3, ResetTypes DEF TypeOK, HardwareReset, memory, checksum

LEMMA UpsetTypes ==
  ASSUME TypeOK, NEW a \in SRAM1, NEW b \in Bits, Upset(a, b)
  PROVE  TypeOK'
<1>1. ASSUME NEW image \in Images
      PROVE  [image EXCEPT ![a] = Xor(@, {b})] \in Images
  BY XorType DEF Images, Bytes
<1>2. sram' \in Images /\ upsets' \in Images
  BY <1>1 DEF Upset, TypeOK
<1>3. counts' \in [patches : 0 .. MaxPatches, upsets : 0 .. MaxUpsets]
  BY ConstantsAssumption DEF Upset, TypeOK
<1>4. At("add")' => health'.i \in check_start' .. check_end'
  BY DEF Upset, checksum, TypeOK, At, check_start, check_end
<1>. QED  BY <1>2, <1>3, <1>4 DEF TypeOK, Upset, checksum

LEMMA PatchTypes ==
  ASSUME TypeOK, NEW address \in SRAM1, NEW bytes \in Contents, NEW command \in Commands,
         MemoryPatch(address, bytes, command)
  PROVE  TypeOK'
<1>1. address + MEM_BUFFER_SIZE - 1 <= CODE_MEMORY_END
  BY DEF MemoryPatch
<1>2. sram' \in Images
  BY <1>1, WrittenMemory DEF MemoryPatch, PatchBytes, Contents, Images, TypeOK
<1>3. reference_checksum' \in Bytes /\ repaired' \in Bytes
  BY XorType, SumType DEF MemoryPatch, PatchedReference, TypeOK
<1>4. upsets' \in Images /\ code_not_patched' \in BOOLEAN /\ patched_beside' \in BOOLEAN
  BY DEF MemoryPatch, MarkPatched, TypeOK, Images, Bytes
<1>5. counts' \in [patches : 0 .. MaxPatches, upsets : 0 .. MaxUpsets]
  BY ConstantsAssumption DEF MemoryPatch, TypeOK
<1>6. CASE UNCHANGED <<health, s_w_reset, interrupted>>
  <2>1. At("add")' => health'.i \in check_start' .. check_end'
    BY <1>6 DEF MemoryPatch, TypeOK, At, check_start, check_end
  <2>. QED  BY <1>2, <1>3, <1>4, <1>5, <1>6, <2>1 DEF TypeOK, MemoryPatch
<1>7. CASE \E class \in ResetClasses : Reset(class)
  BY <1>2, <1>3, <1>4, <1>5, <1>7, ResetTypes DEF TypeOK, MemoryPatch
<1>. QED  BY <1>6, <1>7 DEF MemoryPatch, Execute, ResetClasses, NotWarm

LEMMA SoftResetTypes ==
  ASSUME TypeOK, SoftReset
  PROVE  TypeOK'
<1>1. Reset("soft_reset_e") /\ "soft_reset_e" \in ResetClasses
  BY DEF SoftReset, ResetClasses, NotWarm
<1>. QED  BY <1>1, ResetTypes DEF TypeOK, SoftReset, memory, checksum

LEMMA CountTypes ==
  ASSUME TypeOK, UpdatePeriodCounter
  PROVE  checksum_count' \in 0 .. CHECK_COUNT
BY ConstantsAssumption DEF TypeOK, UpdatePeriodCounter

LEMMA StartPieceTypes ==
  ASSUME TypeOK, StartPiece
  PROVE  TypeOK'
<1>1. health' = [at |-> "add", i |-> check_start] /\ checksum_count' = checksum_count
  BY DEF StartPiece
<1>2. check_start \in Nat /\ check_end \in Addresses /\ check_start <= check_end
  BY Pieces DEF TypeOK
<1>3. check_start' = check_start /\ check_end' = check_end
  BY <1>1 DEF check_start, check_end
<1>4. /\ health' \in [at : Places, i : Nat]
      /\ health'.i \in check_start' .. check_end'
  BY <1>1, <1>2, <1>3, Memory DEF Places, Running
<1>5. /\ code_checksum' \in Bytes
      /\ code_not_patched' \in BOOLEAN /\ upset_in_cycle' \in BOOLEAN
  BY NothingType DEF StartPiece, BeginPiece, BeginCycle, TypeOK
<1>. QED  BY <1>4, <1>5 DEF TypeOK, StartPiece, memory

LEMMA AddByteTypes ==
  ASSUME TypeOK, AddByte
  PROVE  TypeOK'
<1>1. checksum_count' = checksum_count
  BY DEF AddByte
<1>2. health.i \in check_start .. check_end /\ check_start \in Nat /\ check_end \in Nat
      /\ check_end <= CODE_MEMORY_END /\ CODE_MEMORY_END \in Nat
  BY Pieces, ConstantsAssumption DEF TypeOK, AddByte, Addresses
<1>3. code_checksum' \in Bytes
  <2>1. health.i \in Addresses
    BY <1>2 DEF Addresses
  <2>. QED  BY <2>1, FetchType, XorType DEF AddByte, TypeOK
<1>4. check_start' = check_start /\ check_end' = check_end
  BY <1>1 DEF check_start, check_end
<1>5. /\ health' \in [at : Places, i : Nat]
      /\ At("add")' => health'.i \in check_start' .. check_end'
  BY <1>2, <1>4 DEF AddByte, Places, Running, At
<1>. QED  BY <1>3, <1>5 DEF TypeOK, AddByte, memory, history

LEMMA CompareTypes ==
  ASSUME TypeOK, Compare \/ RebootUnlessPatched
  PROVE  TypeOK'
<1>1. CASE Compare
  <2>1. checksum_count' \in 0 .. CHECK_COUNT
    BY <1>1, CountTypes DEF Compare, EndPiece, TypeOK
  <2>2. health' \in [at : Places, i : Nat] /\ ~At("add")'
    BY <1>1 DEF Compare, EndPiece, Goto, TypeOK, At, Places, Running
  <2>. QED  BY <1>1, <2>1, <2>2 DEF TypeOK, Compare, memory, history
<1>2. CASE RebootUnlessPatched
  <2>1. checksum_count' \in 0 .. CHECK_COUNT
    BY <1>2, CountTypes DEF RebootUnlessPatched, EndPiece, TypeOK
  <2>2. CASE Reset("checksum_reset_e")
    <3>1. "checksum_reset_e" \in ResetClasses
      BY DEF ResetClasses, NotWarm
    <3>. QED  BY <1>2, <2>1, <2>2, <3>1, ResetTypes DEF TypeOK, RebootUnlessPatched, memory
  <2>3. CASE EndPiece /\ UNCHANGED <<s_w_reset, interrupted>>
    <3>1. health' \in [at : Places, i : Nat] /\ ~At("add")'
      BY <2>3 DEF EndPiece, Goto, TypeOK, At, Places, Running
    <3>. QED  BY <1>2, <2>1, <2>3, <3>1 DEF TypeOK, RebootUnlessPatched, memory
  <2>. QED  BY <1>2, <2>2, <2>3 DEF RebootUnlessPatched
<1>. QED  BY <1>1, <1>2

LEMMA TypeStutter ==
  ASSUME TypeOK, UNCHANGED vars
  PROVE  TypeOK'
<1>1. At("add")' => health'.i \in check_start' .. check_end'
  BY DEF vars, checksum, TypeOK, At, check_start, check_end
<1>. QED  BY <1>1 DEF TypeOK, vars, memory, checksum, history

\* Every step of the boot, the telecommands, the health task and the hardware keeps the
\* types; the health task adds no byte outside the piece of its round.
THEOREM TypeNext == TypeOK /\ [Next]_vars => TypeOK'
<1>. SUFFICES ASSUME TypeOK, [Next]_vars PROVE TypeOK'
  OBVIOUS
<1>1. CASE Init_DPU
  BY <1>1, InitDPUTypes
<1>2. CASE Boot
  BY <1>2, BootTypes
<1>3. CASE \E class \in HardwareClasses : HardwareReset(class)
  BY <1>3, HardwareResetTypes
<1>4. CASE \E a \in SRAM1, b \in Bits : Upset(a, b)
  BY <1>4, UpsetTypes
<1>5. CASE \E address \in SRAM1, bytes \in Contents, command \in Commands :
             MemoryPatch(address, bytes, command)
  BY <1>5, PatchTypes
<1>6. CASE SoftReset
  BY <1>6, SoftResetTypes
<1>7. CASE CalculateChecksum
  BY <1>7, StartPieceTypes, AddByteTypes, CompareTypes DEF CalculateChecksum
<1>8. CASE UNCHANGED vars
  BY <1>8, TypeStutter
<1>. QED  BY <1>1, <1>2, <1>3, <1>4, <1>5, <1>6, <1>7, <1>8 DEF Next

\* Every variable of the program memory keeps its type, and the checksum is computed over
\* addresses of the program only.
THEOREM TypeCorrect == Spec => []TypeOK
BY TypeInit, TypeNext, PTL DEF Spec

----------------------------------------------------------------------------
(* The boot: what it leaves of the memory, the reference and the data *)

NoUpsets == [a \in SRAM1 |-> {}]

\* What a boot or a program that runs leaves to a warm reset.
Kept == IsRunning \/ s_w_reset = "warm_reset_e"

\* The memory mode is that of the last test of SRAM1; until the first test the boot is no
\* warm one.
ModeInv == Kept \/ At("Boot") =>
             memory_mode = IF failed_code_address THEN "PROM_e" ELSE "SRAM_e"

\* A boot that is not warm goes on with the program of the PROM.
CopyInv == At("Boot") /\ s_w_reset # "warm_reset_e" =>
             /\ upsets = NoUpsets /\ repaired = {}
             /\ memory_mode = "SRAM_e" => sram = PROM_Image

BesideInv == memory_mode = "PROM_e" /\ ~patched_beside => repaired = {}

ReferenceInv == Kept /\ ~patched_beside =>
                  reference_checksum = Xor(Sum(Intended, Addresses), repaired)

DataInv == ~interrupted /\ (IsRunning \/ s_w_reset # "power_up_reset_e") => garbage = {}

BootInv == ModeInv /\ CopyInv /\ BesideInv /\ ReferenceInv /\ DataInv

\* The program in the PROM, or copied to SRAM1 and not upset, has the checksum 0.
LEMMA CopyHasChecksum ==
  ASSUME CopyInv, At("Boot"), s_w_reset # "warm_reset_e", TypeOK
  PROVE  Sum(Intended, Addresses) = {}
<1>0. \A x : Xor(x, {}) = x
  BY DEF Xor
<1>1. ASSUME NEW a \in Addresses
      PROVE  Intended[a] = Program[a]
  <2>1. CASE memory_mode = "SRAM_e" /\ a \in SRAM1
    <3>1. sram[a] = Program[a] /\ upsets[a] = {}
      BY <2>1 DEF CopyInv, NoUpsets, PROM_Image
    <3>. QED  BY <1>0, <2>1, <3>1 DEF Intended
  <2>2. CASE ~(memory_mode = "SRAM_e" /\ a \in SRAM1)
    BY <2>2 DEF Intended
  <2>. QED  BY <2>1, <2>2
<1>. QED  BY <1>1, SumSame, ProgramAssumption DEF INITIAL_CHECKSUM_VALUE

\* Only what the program is made of decides what is intended.
LEMMA IntendedSame ==
  ASSUME UNCHANGED <<memory_mode, sram, upsets>>
  PROVE  Intended' = Intended
BY DEF Intended

\* Steps after which the program runs on, with the same memories.
LEMMA BootInvStays ==
  ASSUME BootInv, UNCHANGED memory, UNCHANGED <<reference_checksum, garbage, upsets,
         repaired, patched_beside, interrupted, s_w_reset>>,
         IsRunning, IsRunning'
  PROVE  BootInv'
<1>1. Intended' = Intended
  BY IntendedSame DEF memory
<1>2. ~At("Boot")'
  BY DEF IsRunning, Running, At
<1>. QED
  BY <1>1, <1>2 DEF BootInv, ModeInv, CopyInv, BesideInv, ReferenceInv, DataInv, Kept, memory

\* A reset while the program runs.
LEMMA BootInvReset ==
  ASSUME BootInv, TypeOK, UNCHANGED memory, UNCHANGED <<reference_checksum, garbage, upsets,
         repaired, patched_beside>>, IsRunning,
         NEW class \in ResetClasses \ {"power_up_reset_e"}, Reset(class)
  PROVE  BootInv'
<1>1. Intended' = Intended
  BY IntendedSame DEF memory
<1>2. ~At("Boot")' /\ ~IsRunning' /\ s_w_reset' = class /\ interrupted' = interrupted
  BY DEF Reset, Goto, IsRunning, Running, At, TypeOK
<1>. QED
  BY <1>1, <1>2 DEF BootInv, ModeInv, CopyInv, BesideInv, ReferenceInv, DataInv, Kept, memory

LEMMA BootInvInit == Init => BootInv
<1>. SUFFICES ASSUME Init PROVE BootInv
  OBVIOUS
<1>1. ~IsRunning /\ ~At("Boot") /\ s_w_reset = "power_up_reset_e" /\ repaired = {}
  BY DEF Init, IsRunning, Running, At
<1>. QED  BY <1>1 DEF BootInv, ModeInv, CopyInv, BesideInv, ReferenceInv, DataInv, Kept

LEMMA BootInvInit_DPU ==
  ASSUME TypeOK, BootInv, Init_DPU
  PROVE  BootInv'
<1>1. At("Boot")' /\ ~IsRunning' /\ ~IsRunning /\ s_w_reset' = s_w_reset
      /\ interrupted' = interrupted
  BY DEF Init_DPU, Goto, IsRunning, Running, At, TypeOK
<1>2. ModeInv'
  BY DEF ModeInv, Init_DPU
<1>3. DataInv'
  BY <1>1 DEF BootInv, DataInv, Init_DPU, InitData_RAM
<1>4. CASE s_w_reset = "warm_reset_e"
  <2>1. KeepCode
    BY <1>4 DEF Init_DPU, InitCode_RAM
  <2>2. memory_mode' = memory_mode
    BY <1>4, <2>1 DEF KeepCode, Init_DPU, BootInv, ModeInv, Kept
  <2>3. Intended' = Intended
    BY <2>1, <2>2, IntendedSame DEF KeepCode
  <2>4. CopyInv'
    BY <1>1, <1>4 DEF CopyInv
  <2>5. BesideInv'
    BY <2>1, <2>2 DEF BootInv, BesideInv, KeepCode
  <2>6. ReferenceInv'
    BY <1>4, <2>1, <2>3 DEF BootInv, ReferenceInv, Kept, KeepCode, Init_DPU
  <2>. QED  BY <1>2, <1>3, <2>4, <2>5, <2>6 DEF BootInv
<1>5. CASE s_w_reset # "warm_reset_e"
  <2>1. PICK failed \in BOOLEAN, contents \in {sram, [a \in SRAM1 |-> {}]} :
          TestAndCopy(failed, contents)
    BY <1>5 DEF Init_DPU, InitCode_RAM
  <2>2. upsets' = NoUpsets /\ repaired' = {}
    BY <2>1 DEF TestAndCopy, ForgetHistory, NoUpsets
  <2>3. memory_mode' = "SRAM_e" => sram' = PROM_Image
    BY <2>1 DEF TestAndCopy, Init_DPU
  <2>4. ~Kept'
    BY <1>1, <1>5 DEF Kept
  <2>5. CopyInv' /\ BesideInv' /\ ReferenceInv'
    BY <2>2, <2>3, <2>4 DEF CopyInv, BesideInv, ReferenceInv, NoUpsets, PROM_Image
  <2>. QED  BY <1>2, <1>3, <2>5 DEF BootInv
<1>. QED  BY <1>4, <1>5

LEMMA BootInvBoot ==
  ASSUME TypeOK, BootInv, Boot
  PROVE  BootInv'
<1>1. At("Boot") /\ ~At("Boot")' /\ IsRunning' /\ ~IsRunning /\ s_w_reset' = s_w_reset
  BY DEF Boot, Goto, IsRunning, Running, At, TypeOK
<1>2. Intended' = Intended
  BY IntendedSame DEF Boot, memory, history
<1>3. ModeInv' /\ CopyInv' /\ BesideInv'
  BY <1>1 DEF BootInv, ModeInv, CopyInv, BesideInv, Boot, memory, history
<1>4. ReferenceInv'
  <2>1. CASE s_w_reset = "warm_reset_e"
    BY <1>2, <2>1 DEF BootInv, ReferenceInv, Kept, Boot, ReferenceAfter, history
  <2>2. CASE s_w_reset # "warm_reset_e"
    <3>1. Sum(Intended, Addresses) = {} /\ repaired = {}
      BY <1>1, <2>2, CopyHasChecksum DEF BootInv, CopyInv
    <3>2. reference_checksum' = {} /\ repaired' = repaired
      BY <2>2 DEF Boot, ReferenceAfter, INITIAL_CHECKSUM_VALUE, history
    <3>3. Xor({}, {}) = {}
      BY DEF Xor
    <3>. QED  BY <1>2, <3>1, <3>2, <3>3 DEF ReferenceInv
  <2>. QED  BY <2>1, <2>2
<1>5. DataInv'
  <2>1. garbage' = garbage \ Initialised(s_w_reset) /\ interrupted' = interrupted
    BY DEF Boot, history
  <2>2. CASE s_w_reset = "power_up_reset_e"
    <3>1. Initialised(s_w_reset) = Data
      BY <2>2 DEF Initialised, InitialisedWith, Data
    <3>. QED  BY <2>1, <3>1 DEF DataInv, TypeOK
  <2>3. CASE s_w_reset # "power_up_reset_e"
    BY <2>1, <2>3 DEF BootInv, DataInv
  <2>. QED  BY <2>2, <2>3
<1>. QED  BY <1>3, <1>4, <1>5 DEF BootInv

LEMMA BootInvHardwareReset ==
  ASSUME TypeOK, BootInv, NEW class \in HardwareClasses, HardwareReset(class)
  PROVE  BootInv'
<1>1. ~At("Boot")' /\ ~IsRunning' /\ s_w_reset' = class /\ class # "warm_reset_e"
  BY DEF HardwareReset, HardwareClasses, Reset, Goto, IsRunning, Running, At, TypeOK
<1>2. ModeInv' /\ CopyInv' /\ ReferenceInv'
  BY <1>1 DEF ModeInv, CopyInv, ReferenceInv, Kept
<1>3. BesideInv'
  BY DEF BootInv, BesideInv, HardwareReset, memory
<1>4. DataInv'
  BY <1>1 DEF BootInv, DataInv, HardwareReset, Reset
<1>. QED  BY <1>2, <1>3, <1>4 DEF BootInv

\* An upset changes the program, but not what it should be.
LEMMA BootInvUpset ==
  ASSUME TypeOK, BootInv, NEW a \in SRAM1, NEW b \in Bits, Upset(a, b)
  PROVE  BootInv'
<1>1. IsRunning /\ IsRunning' /\ ~At("Boot")'
  BY DEF Upset, checksum, IsRunning, Running, At
<1>2. \A x, y : Xor(Xor(x, {b}), Xor(y, {b})) = Xor(x, y)
  BY DEF Xor
<1>3. \A c \in SRAM1 : Xor(sram'[c], upsets'[c]) = Xor(sram[c], upsets[c])
  <2>1. /\ sram \in Images /\ sram' = [sram EXCEPT ![a] = Xor(@, {b})]
        /\ upsets \in Images /\ upsets' = [upsets EXCEPT ![a] = Xor(@, {b})]
    BY DEF Upset, TypeOK
  <2>2. ASSUME NEW c \in SRAM1
        PROVE  Xor(sram'[c], upsets'[c]) = Xor(sram[c], upsets[c])
    <3>1. CASE c = a
      <4>1. sram'[c] = Xor(sram[c], {b}) /\ upsets'[c] = Xor(upsets[c], {b})
        BY <2>1, <3>1 DEF Images
      <4>. QED  BY <1>2, <4>1
    <3>2. CASE c # a
      BY <2>1, <3>2 DEF Images
    <3>. QED  BY <3>1, <3>2
  <2>. QED  BY <2>2
<1>4. Intended' = Intended
  BY <1>3 DEF Intended, Upset
<1>. QED  BY <1>1, <1>4 DEF BootInv, ModeInv, CopyInv, BesideInv, ReferenceInv, DataInv, Kept,
                            Upset, checksum

\* A patch takes the old bytes out of the reference and puts the new ones in; upset bytes
\* under the patch go from the upsets to the repaired bytes.
LEMMA PatchedSums ==
  ASSUME TypeOK, NEW address \in SRAM1, NEW bytes \in Contents, NEW command \in Commands,
         MemoryPatch(address, bytes, command), memory_mode = "SRAM_e",
         reference_checksum = Xor(Sum(Intended, Addresses), repaired)
  PROVE  reference_checksum' = Xor(Sum(Intended', Addresses), repaired')
<1>. DEFINE W == Written(address)
            Rest == Addresses \ W
<1>1. W \subseteq SRAM1 /\ W \subseteq Addresses /\ IsFiniteSet(W) /\ IsFiniteSet(Rest)
  <2>1. W \subseteq SRAM1 /\ IsFiniteSet(W)
    BY WrittenMemory DEF MemoryPatch
  <2>. QED  BY <2>1, Memory, FS_Difference
<1>2. memory_mode' = memory_mode
  BY DEF MemoryPatch
<1>3. Sum(Intended', Rest) = Sum(Intended, Rest)
  <2>1. \A a \in SRAM1 : a \notin W => sram'[a] = sram[a] /\ upsets'[a] = upsets[a]
    BY DEF MemoryPatch, PatchBytes
  <2>2. \A a \in Rest : Intended'[a] = Intended[a]
    BY <1>2, <2>1 DEF Intended
  <2>. QED  BY <2>2, SumSame
<1>4. Sum(Intended', W) = Sum(sram', W)
  <2>1. \A a \in W : upsets'[a] = {}
    BY <1>1 DEF MemoryPatch
  <2>2. \A x : Xor(x, {}) = x
    BY DEF Xor
  <2>3. \A a \in W : Intended'[a] = sram'[a]
    BY <1>1, <1>2, <2>1, <2>2 DEF Intended
  <2>. QED  BY <2>3, SumSame
<1>5. Sum(Intended, W) = Xor(Sum(sram, W), Sum(upsets, W))
  <2>1. \A a \in W : Intended[a] = Xor(sram[a], upsets[a])
    BY <1>1 DEF Intended
  <2>. QED  BY <1>1, <2>1, SumXor
<1>6. \A code : Sum(code, Addresses) = Xor(Sum(code, Rest), Sum(code, W))
  <2>1. Addresses = Rest \cup W /\ Rest \cap W = {}
    BY <1>1
  <2>2. \A code : Sum(code, Rest \cup W) = Xor(Sum(code, Rest), Sum(code, W))
    BY <1>1, <2>1, SumUnion
  <2>. QED  BY <2>1, <2>2
<1>7. /\ reference_checksum' = Xor(reference_checksum, Xor(Sum(sram, W), Sum(sram', W)))
      /\ repaired' = Xor(repaired, Sum(upsets, W))
  BY DEF MemoryPatch, PatchedReference
<1>8. \A rest, old, new, up, rep :
        Xor(Xor(Xor(rest, Xor(old, up)), rep), Xor(old, new)) = Xor(Xor(rest, new), Xor(rep, up))
  BY DEF Xor
<1>. QED
  <2>1. reference_checksum =
          Xor(Xor(Sum(Intended, Rest), Xor(Sum(sram, W), Sum(upsets, W))), repaired)
    BY <1>5, <1>6
  <2>2. Sum(Intended', Addresses) = Xor(Sum(Intended, Rest), Sum(sram', W))
    BY <1>3, <1>4, <1>6
  <2>. QED  BY <1>7, <1>8, <2>1, <2>2

LEMMA BootInvPatch ==
  ASSUME TypeOK, BootInv, NEW address \in SRAM1, NEW bytes \in Contents,
         NEW command \in Commands, MemoryPatch(address, bytes, command)
  PROVE  BootInv'
<1>1. IsRunning /\ ~At("Boot")' /\ interrupted' = interrupted
  BY DEF MemoryPatch, Execute, Reset, Goto, IsRunning, Running, At, TypeOK
<1>2. IsRunning' \/ s_w_reset' # "power_up_reset_e"
  BY <1>1 DEF MemoryPatch, Execute, Reset, IsRunning
<1>3. memory_mode' = memory_mode /\ failed_code_address' = failed_code_address
      /\ garbage' = garbage
  BY DEF MemoryPatch
<1>4. ModeInv' /\ CopyInv' /\ DataInv'
  BY <1>1, <1>3 DEF BootInv, ModeInv, CopyInv, DataInv, Kept
<1>5. CASE memory_mode = "SRAM_e"
  <2>1. patched_beside' = patched_beside
    BY <1>5 DEF MemoryPatch, TypeOK
  <2>2. ReferenceInv'
    BY <1>1, <1>5, <2>1, PatchedSums DEF BootInv, ReferenceInv, Kept
  <2>3. BesideInv'
    BY <1>3, <1>5 DEF BesideInv
  <2>. QED  BY <1>4, <2>2, <2>3 DEF BootInv
<1>6. CASE memory_mode = "PROM_e"
  <2>1. patched_beside'
    BY <1>6 DEF MemoryPatch
  <2>. QED  BY <1>4, <2>1 DEF BootInv, ReferenceInv, BesideInv
<1>. QED  BY <1>5, <1>6 DEF TypeOK

LEMMA BootInvChecksum ==
  ASSUME TypeOK, BootInv, CalculateChecksum
  PROVE  BootInv'
<1>1. CASE StartPiece
  BY <1>1, BootInvStays DEF StartPiece, IsRunning, Running, At
<1>2. CASE AddByte
  BY <1>2, BootInvStays DEF AddByte, history, IsRunning, Running, At
<1>3. CASE Compare
  <2>1. IsRunning /\ IsRunning'
    BY <1>3 DEF Compare, EndPiece, Goto, IsRunning, Running, At, TypeOK
  <2>. QED  BY <1>3, <2>1, BootInvStays DEF Compare, history
<1>4. CASE RebootUnlessPatched
  <2>1. IsRunning
    BY <1>4 DEF RebootUnlessPatched, IsRunning, Running, At
  <2>2. CASE Reset("checksum_reset_e")
    <3>1. "checksum_reset_e" \in ResetClasses \ {"power_up_reset_e"}
      BY DEF ResetClasses, NotWarm
    <3>. QED  BY <1>4, <2>1, <2>2, <3>1, BootInvReset DEF RebootUnlessPatched
  <2>3. CASE EndPiece /\ UNCHANGED <<s_w_reset, interrupted>>
    <3>1. IsRunning'
      BY <2>3 DEF EndPiece, Goto, IsRunning, Running, TypeOK
    <3>. QED  BY <1>4, <2>1, <2>3, <3>1, BootInvStays DEF RebootUnlessPatched
  <2>. QED  BY <1>4, <2>2, <2>3 DEF RebootUnlessPatched
<1>. QED  BY <1>1, <1>2, <1>3, <1>4 DEF CalculateChecksum

LEMMA BootInvNext == TypeOK /\ BootInv /\ [Next]_vars => BootInv'
<1>. SUFFICES ASSUME TypeOK, BootInv, [Next]_vars PROVE BootInv'
  OBVIOUS
<1>1. CASE Init_DPU
  BY <1>1, BootInvInit_DPU
<1>2. CASE Boot
  BY <1>2, BootInvBoot
<1>3. CASE \E class \in HardwareClasses : HardwareReset(class)
  BY <1>3, BootInvHardwareReset
<1>4. CASE \E a \in SRAM1, b \in Bits : Upset(a, b)
  BY <1>4, BootInvUpset
<1>5. CASE \E address \in SRAM1, bytes \in Contents, command \in Commands :
             MemoryPatch(address, bytes, command)
  BY <1>5, BootInvPatch
<1>6. CASE SoftReset
  <2>1. "soft_reset_e" \in ResetClasses \ {"power_up_reset_e"}
    BY DEF ResetClasses, NotWarm
  <2>. QED  BY <1>6, <2>1, BootInvReset DEF SoftReset, checksum
<1>7. CASE CalculateChecksum
  BY <1>7, BootInvChecksum
<1>8. CASE UNCHANGED vars
  <2>1. Intended' = Intended
    BY <1>8, IntendedSame DEF vars, memory, history
  <2>. QED  BY <1>8, <2>1 DEF BootInv, ModeInv, CopyInv, BesideInv, ReferenceInv, DataInv,
                  Kept, IsRunning, At, vars, memory, checksum, history
<1>. QED  BY <1>1, <1>2, <1>3, <1>4, <1>5, <1>6, <1>7, <1>8 DEF Next

LEMMA BootInvariant == Spec => [](TypeOK /\ BootInv)
<1>1. Init => TypeOK /\ BootInv
  BY TypeInit, BootInvInit
<1>2. TypeOK /\ BootInv /\ [Next]_vars => (TypeOK /\ BootInv)'
  BY TypeNext, BootInvNext
<1>. QED  BY <1>1, <1>2, PTL DEF Spec

\* After any sequence of patches and resets the reference checksum is that of the program as
\* it should be, for a program of any size and patches anywhere in it.
THEOREM ReferenceCorrect == Spec => []ReferenceFollowsCode
<1>1. TypeOK /\ BootInv => ReferenceFollowsCode
  BY DEF BootInv, ReferenceInv, ReferenceFollowsCode, Kept
<1>. QED  BY <1>1, BootInvariant, PTL

\* The program runs on data that the program has initialised, after any sequence of resets
\* in which no watchdog reset has ended a boot after power-up.
THEOREM DataCorrect == Spec => []DataInitialised
<1>1. TypeOK /\ BootInv => DataInitialised
  BY DEF BootInv, DataInv, DataInitialised
<1>. QED  BY <1>1, BootInvariant, PTL

----------------------------------------------------------------------------
(* The checksum cycle *)

\* The program as it is.
Code == [a \in Addresses |-> Fetch(a)]

\* The addresses whose bytes have been added in this cycle: the pieces above the current
\* one, and what of the current one has been added.
Added ==
  {a \in Addresses : a > check_end} \cup
    (IF At("add") THEN check_start .. health.i - 1
     ELSE IF At("interval") THEN {} ELSE check_start .. check_end)

InCycle == IsRunning /\ ~(At("interval") /\ checksum_count = CHECK_COUNT)

\* Without a patch and an upset in this cycle the checksum is that of what has been added.
SumInv == InCycle /\ code_not_patched /\ ~upset_in_cycle => code_checksum = Sum(Code, Added)

\* A mismatch is one of whole checksums, and stays one until the program is patched.
MismatchInv == At("mismatch") =>
                 /\ checksum_count = 0
                 /\ code_not_patched => code_checksum # reference_checksum

\* A cycle begins after a boot.
StartInv == At("Boot") => checksum_count = CHECK_COUNT

CycleInv == SumInv /\ MismatchInv /\ StartInv

LEMMA AddedFinite ==
  ASSUME TypeOK
  PROVE  Added \subseteq Addresses /\ IsFiniteSet(Added)
<1>1. /\ check_start \in Nat /\ check_end \in Nat /\ check_end <= CODE_MEMORY_END
      /\ CODE_MEMORY_END \in Nat
  BY Pieces, ConstantsAssumption DEF TypeOK, Addresses
<1>2. check_start .. check_end \subseteq Addresses
  BY <1>1 DEF Addresses
<1>3. At("add") => check_start .. health.i - 1 \subseteq Addresses
  BY <1>1 DEF Addresses, TypeOK
<1>4. Added \in SUBSET Addresses
  BY <1>2, <1>3 DEF Added
<1>. QED  BY <1>4, Memory, FS_Subset

LEMMA CodeSame ==
  ASSUME UNCHANGED <<sram, memory_mode>>
  PROVE  Code' = Code
BY DEF Code, Fetch

\* Steps that leave the health task and the memory where they are.
LEMMA CycleInvStays ==
  ASSUME CycleInv, UNCHANGED <<sram, memory_mode, checksum, health, upset_in_cycle>>
  PROVE  CycleInv'
<1>1. Code' = Code /\ Added' = Added
  BY CodeSame DEF Added, checksum, At, check_start, check_end
<1>. QED  BY <1>1 DEF CycleInv, SumInv, MismatchInv, StartInv, InCycle, IsRunning, At, checksum

\* A reset ends the cycle.
LEMMA CycleInvEnds ==
  ASSUME ~IsRunning', ~At("Boot")'
  PROVE  CycleInv'
BY DEF CycleInv, SumInv, MismatchInv, StartInv, InCycle, IsRunning, At, Running

LEMMA CycleInvStartPiece ==
  ASSUME TypeOK, CycleInv, StartPiece
  PROVE  CycleInv'
<1>1. /\ At("interval") /\ At("add")' /\ ~At("interval")' /\ ~At("mismatch")' /\ ~At("Boot")'
      /\ health'.i = check_start
  BY DEF StartPiece, At
<1>2. check_start' = check_start /\ check_end' = check_end
  BY DEF StartPiece, check_start, check_end
<1>3. Code' = Code
  BY CodeSame DEF StartPiece, memory
<1>4. check_start \in Nat /\ check_end \in Addresses
  BY Pieces DEF TypeOK
<1>5. Added = {a \in Addresses : a > check_end} /\ Added' = Added
  <2>1. check_start .. check_start - 1 = {}
    BY <1>4
  <2>. QED  BY <1>1, <1>2, <2>1 DEF Added, At
<1>6. SumInv'
  <2>1. CASE checksum_count = CHECK_COUNT
    <3>1. check_end = CODE_MEMORY_END
      BY <2>1 DEF check_end
    <3>2. Added = {}
      BY <1>5, <3>1, ConstantsAssumption DEF Addresses
    <3>3. code_checksum' = {}
      BY <2>1 DEF StartPiece, BeginPiece, BeginCycle
    <3>. QED  BY <1>5, <3>2, <3>3, SumEmpty DEF SumInv
  <2>2. CASE checksum_count # CHECK_COUNT
    <3>1. InCycle
      BY <1>1, <2>2 DEF InCycle, IsRunning, Running, At
    <3>2. UNCHANGED <<code_checksum, code_not_patched, upset_in_cycle>>
      BY <2>2 DEF StartPiece, BeginPiece
    <3>. QED  BY <1>3, <1>5, <3>1, <3>2 DEF CycleInv, SumInv
  <2>. QED  BY <2>1, <2>2
<1>. QED  BY <1>1, <1>6 DEF CycleInv, MismatchInv, StartInv

LEMMA CycleInvAddByte ==
  ASSUME TypeOK, CycleInv, AddByte
  PROVE  CycleInv'
<1>1. /\ At("add") /\ ~At("interval")' /\ ~At("mismatch")' /\ ~At("Boot")'
      /\ health'.i = health.i + 1
      /\ health.i = check_end => At("compare")' /\ ~At("add")'
      /\ health.i # check_end => At("add")'
  BY DEF AddByte, At
<1>2. check_start' = check_start /\ check_end' = check_end
  BY DEF AddByte, check_start, check_end
<1>3. /\ health.i \in check_start .. check_end /\ check_start \in Nat /\ check_end \in Addresses
      /\ health.i \in Addresses
  <2>1. health.i \in check_start .. check_end /\ check_start \in Nat /\ check_end \in Addresses
    BY <1>1, Pieces DEF TypeOK
  <2>. QED  BY <2>1, ConstantsAssumption DEF Addresses
<1>4. Added' = Added \cup {health.i} /\ health.i \notin Added
  <2>1. Added = {a \in Addresses : a > check_end} \cup (check_start .. health.i - 1)
    BY <1>1 DEF Added
  <2>2. Added' = {a \in Addresses : a > check_end} \cup (check_start .. health.i)
    <3>1. health.i # check_end =>
            Added' = {a \in Addresses : a > check_end} \cup (check_start .. health.i)
      <4>1. health.i # check_end =>
              Added' = {a \in Addresses : a > check_end'} \cup (check_start' .. health'.i - 1)
        BY <1>1 DEF Added
      <4>2. health'.i - 1 = health.i
        BY <1>1, <1>3
      <4>3. check_start' .. health'.i - 1 = check_start .. health.i
        BY <1>2, <4>2
      <4>4. {a \in Addresses : a > check_end'} = {a \in Addresses : a > check_end}
        BY <1>2
      <4>. QED  BY <4>1, <4>3, <4>4
    <3>2. health.i = check_end =>
            Added' = {a \in Addresses : a > check_end} \cup (check_start .. check_end)
      BY <1>1, <1>2 DEF Added, At
    <3>. QED  BY <3>1, <3>2
  <2>3. check_start .. health.i = (check_start .. health.i - 1) \cup {health.i}
    BY <1>3
  <2>4. health.i \notin Added
    BY <1>3, <2>1 DEF Addresses
  <2>. QED  BY <2>1, <2>2, <2>3, <2>4
<1>5. SumInv'
  <2>. SUFFICES ASSUME InCycle', code_not_patched', ~upset_in_cycle'
                PROVE  code_checksum' = Sum(Code', Added')
    BY DEF SumInv
  <2>1. code_checksum = Sum(Code, Added)
    BY <1>1 DEF AddByte, history, CycleInv, SumInv, InCycle, IsRunning, Running, At
  <2>2. Code[health.i] = Fetch(health.i) /\ Code[health.i] \in Bytes
    BY <1>3, FetchType DEF Code, TypeOK
  <2>3. Sum(Code, Added \cup {health.i}) = Xor(Sum(Code, Added), Sum(Code, {health.i}))
    <3>1. IsFiniteSet({health.i}) /\ Added \cap {health.i} = {}
      BY <1>4, FS_Singleton
    <3>. QED  BY <3>1, AddedFinite, SumUnion
  <2>4. Code' = Code
    BY CodeSame DEF AddByte, memory
  <2>. QED  BY <1>4, <2>1, <2>2, <2>3, <2>4, SumOne DEF AddByte
<1>. QED  BY <1>1, <1>5 DEF CycleInv, MismatchInv, StartInv

\* The piece that has ended is the end of the next one's predecessors.
LEMMA CycleInvEndPiece ==
  ASSUME TypeOK, CycleInv, At("compare") \/ At("mismatch"), EndPiece, UNCHANGED memory,
         UNCHANGED <<code_checksum, code_not_patched, upset_in_cycle>>
  PROVE  CycleInv'
<1>1. At("interval")' /\ ~At("mismatch")' /\ ~At("Boot")' /\ ~At("add")'
  BY DEF EndPiece, Goto, At, TypeOK
<1>2. SumInv'
  <2>. SUFFICES ASSUME InCycle', code_not_patched', ~upset_in_cycle'
                PROVE  code_checksum' = Sum(Code', Added')
    BY DEF SumInv
  <2>1. checksum_count > 0 /\ checksum_count' = checksum_count - 1
    BY <1>1 DEF InCycle, EndPiece, UpdatePeriodCounter, TypeOK
  <2>2. code_checksum = Sum(Code, Added)
    BY DEF CycleInv, SumInv, InCycle, IsRunning, Running, At
  <2>3. check_end' = (checksum_count - 1) * CHECK_SIZE + CHECK_SIZE - 1
    BY <2>1, ConstantsAssumption DEF check_end, check_start, TypeOK
  <2>4. check_end' = check_start - 1
    BY <2>1, <2>3, Pieces DEF TypeOK
  <2>5. /\ check_start \in Nat /\ check_end \in Addresses /\ check_start <= check_end
    BY Pieces DEF TypeOK
  <2>6. Added' = Added
    <3>1. Added' = {a \in Addresses : a > check_end'}
      BY <1>1 DEF Added
    <3>2. Added = {a \in Addresses : a > check_end} \cup (check_start .. check_end)
      BY DEF Added, At
    <3>3. ASSUME NEW a \in Addresses
          PROVE  a > check_start - 1 <=> (a > check_end \/ a \in check_start .. check_end)
      BY <2>5 DEF Addresses
    <3>4. check_start .. check_end \subseteq Addresses
      BY <2>5, ConstantsAssumption DEF Addresses
    <3>. QED  BY <2>4, <3>1, <3>2, <3>3, <3>4
  <2>7. Code' = Code
    BY CodeSame DEF memory
  <2>. QED  BY <2>2, <2>6, <2>7
<1>. QED  BY <1>1, <1>2 DEF CycleInv, MismatchInv, StartInv

LEMMA CycleInvCompare ==
  ASSUME TypeOK, CycleInv, Compare
  PROVE  CycleInv'
<1>1. CASE Mismatch
  <2>1. /\ At("compare") /\ At("mismatch")' /\ ~At("interval")' /\ ~At("add")' /\ ~At("Boot")'
        /\ UNCHANGED <<checksum_count, code_checksum, reference_checksum, code_not_patched,
                       upset_in_cycle>>
    BY <1>1 DEF Compare, Goto, At, TypeOK, history
  <2>2. Code' = Code
    BY CodeSame DEF Compare, memory
  <2>3. Added' = Added
    BY <2>1 DEF Added, At, check_start, check_end
  <2>4. InCycle
    BY <2>1 DEF InCycle, IsRunning, Running, At
  <2>. QED  BY <1>1, <2>1, <2>2, <2>3, <2>4 DEF CycleInv, SumInv, MismatchInv, StartInv, Mismatch
<1>2. CASE ~Mismatch
  BY <1>2, CycleInvEndPiece DEF Compare, history
<1>. QED  BY <1>1, <1>2

LEMMA CycleInvPatch ==
  ASSUME TypeOK, CycleInv, NEW address \in SRAM1, NEW bytes \in Contents,
         NEW command \in Commands, MemoryPatch(address, bytes, command)
  PROVE  CycleInv'
<1>1. ~code_not_patched' /\ checksum_count' = checksum_count
  BY DEF MemoryPatch, MarkPatched
<1>2. ~At("Boot")' /\ (At("mismatch")' => At("mismatch"))
  BY DEF MemoryPatch, Execute, Reset, Goto, IsRunning, Running, At, TypeOK
<1>. QED  BY <1>1, <1>2 DEF CycleInv, SumInv, MismatchInv, StartInv

LEMMA CycleInvNext == TypeOK /\ CycleInv /\ [Next]_vars => CycleInv'
<1>. SUFFICES ASSUME TypeOK, CycleInv, [Next]_vars PROVE CycleInv'
  OBVIOUS
<1>1. ASSUME NEW class, Reset(class)
      PROVE  CycleInv'
  BY <1>1, CycleInvEnds DEF Reset, Goto, IsRunning, Running, At, TypeOK
<1>2. CASE Init_DPU
  BY <1>2 DEF Init_DPU, Goto, IsRunning, Running, At, TypeOK, CycleInv, SumInv, MismatchInv,
              StartInv, InCycle
<1>3. CASE Boot
  <2>1. At("Boot") /\ At("interval")' /\ ~At("Boot")' /\ ~At("mismatch")'
        /\ checksum_count' = checksum_count
    BY <1>3 DEF Boot, Goto, At, TypeOK
  <2>. QED  BY <2>1 DEF CycleInv, SumInv, MismatchInv, StartInv, InCycle
<1>4. CASE \E class \in HardwareClasses : HardwareReset(class)
  BY <1>1, <1>4 DEF HardwareReset
<1>5. CASE \E a \in SRAM1, b \in Bits : Upset(a, b)
  BY <1>5 DEF Upset, checksum, CycleInv, SumInv, MismatchInv, StartInv, At
<1>6. CASE \E address \in SRAM1, bytes \in Contents, command \in Commands :
             MemoryPatch(address, bytes, command)
  BY <1>6, CycleInvPatch
<1>7. CASE SoftReset
  BY <1>1, <1>7 DEF SoftReset
<1>8. CASE CalculateChecksum
  <2>1. CASE RebootUnlessPatched
    BY <1>1, <2>1, CycleInvEndPiece DEF RebootUnlessPatched
  <2>. QED  BY <1>8, <2>1, CycleInvStartPiece, CycleInvAddByte, CycleInvCompare
            DEF CalculateChecksum
<1>9. CASE UNCHANGED vars
  BY <1>9, CycleInvStays DEF vars, memory, checksum, history
<1>. QED  BY <1>2, <1>3, <1>4, <1>5, <1>6, <1>7, <1>8, <1>9 DEF Next

LEMMA CycleInvInit == Init => CycleInv
BY DEF Init, CycleInv, SumInv, MismatchInv, StartInv, InCycle, IsRunning, Running, At

\* At the end of a cycle in which nothing has changed the program, the reference and the
\* checksum differ by the upsets and the upset bytes that patches have overwritten.
LEMMA AlarmIsAnomaly ==
  ASSUME TypeOK, BootInv, CycleInv
  PROVE  NoFalseAlarm
<1>. SUFFICES ASSUME At("mismatch"), code_not_patched, ~Anomaly PROVE FALSE
  BY DEF NoFalseAlarm
<1>1. /\ ~upset_in_cycle /\ ~patched_beside
      /\ Xor(Sum(upsets, SRAM1), repaired) = {}
  BY DEF Anomaly
<1>2. checksum_count = 0 /\ code_checksum # reference_checksum
  BY DEF CycleInv, MismatchInv
<1>3. IsRunning /\ InCycle
  BY DEF IsRunning, InCycle, Running, At
<1>4. Added = Addresses
  <2>1. check_start = 0 /\ check_end \in Addresses
    BY <1>2, Pieces DEF TypeOK
  <2>2. Added = {a \in Addresses : a > check_end} \cup (0 .. check_end)
    BY <2>1 DEF Added, At
  <2>. QED  BY <2>1, <2>2, ConstantsAssumption DEF Addresses
<1>5. code_checksum = Sum(Code, Addresses)
  BY <1>1, <1>3, <1>4 DEF CycleInv, SumInv
<1>6. reference_checksum = Xor(Sum(Intended, Addresses), repaired)
  BY <1>1, <1>3 DEF BootInv, ReferenceInv, Kept
<1>7. CASE memory_mode = "PROM_e"
  <2>1. repaired = {}
    BY <1>1, <1>7 DEF BootInv, BesideInv
  <2>2. \A a \in Addresses : Intended[a] = Code[a]
    BY <1>7 DEF Intended, Code, Fetch
  <2>3. Sum(Intended, Addresses) = Sum(Code, Addresses)
    BY <2>2, SumSame
  <2>4. \A x : Xor(x, {}) = x
    BY DEF Xor
  <2>. QED  BY <1>2, <1>5, <1>6, <2>1, <2>3, <2>4
<1>8. CASE memory_mode = "SRAM_e"
  <2>. DEFINE Low == Addresses \ SRAM1
  <2>1. IsFiniteSet(Low) /\ IsFiniteSet(SRAM1) /\ Addresses = Low \cup SRAM1
        /\ Low \cap SRAM1 = {}
    <3>1. SRAM1 \subseteq Addresses /\ IsFiniteSet(SRAM1) /\ IsFiniteSet(Addresses)
      BY Memory
    <3>. QED  BY <3>1, FS_Difference
  <2>2. \A code : Sum(code, Addresses) = Xor(Sum(code, Low), Sum(code, SRAM1))
    <3>1. \A code : Sum(code, Low \cup SRAM1) = Xor(Sum(code, Low), Sum(code, SRAM1))
      BY <2>1, SumUnion
    <3>. QED  BY <2>1, <3>1
  <2>3. Sum(Intended, Low) = Sum(Code, Low)
    <3>1. \A a \in Low : Intended[a] = Code[a]
      BY DEF Intended, Code, Fetch
    <3>. QED  BY <3>1, SumSame
  <2>4. Sum(Intended, SRAM1) = Xor(Sum(Code, SRAM1), Sum(upsets, SRAM1))
    <3>1. \A a \in SRAM1 : Intended[a] = Xor(Code[a], upsets[a])
      BY <1>8, <2>1 DEF Intended, Code, Fetch
    <3>. QED  BY <2>1, <3>1, SumXor
  <2>5. Sum(upsets, SRAM1) = repaired
    BY <1>1 DEF Xor
  <2>6. \A low, code, up : Xor(Xor(low, Xor(code, up)), up) = Xor(low, code)
    BY DEF Xor
  <2>. QED  BY <1>2, <1>5, <1>6, <2>2, <2>3, <2>4, <2>5, <2>6
<1>. QED  BY <1>7, <1>8 DEF TypeOK

LEMMA CycleInvariant == Spec => []CycleInv
<1>. QED  BY CycleInvInit, CycleInvNext, TypeInit, TypeNext, PTL DEF Spec

\* No patch and no reset ever leads to a checksum reset: for any program, any pieces that
\* cover it and any patches at any step of a cycle, an alarm has an anomaly as its cause.
THEOREM AlarmsAreTrue == Spec => []NoFalseAlarm
<1>1. TypeOK /\ BootInv /\ CycleInv => NoFalseAlarm
  BY AlarmIsAnomaly
<1>. QED  BY <1>1, BootInvariant, CycleInvariant, PTL

=============================================================================
