-------------------------- MODULE AssemblerProofs --------------------------
(***************************************************************************)
(* Proofs about the assembler: types, where labels lead, and which         *)
(* instruction a line's breakpoint is set on.                              *)
(***************************************************************************)
EXTENDS Assembler, TLAPS

LEMMA ItemType ==
  ASSUME TypeOK, ~AtEnd
  PROVE  /\ Item \in Items
         /\ Item.type = "LABEL" => Item.value \in Names
         /\ Item.type = "VALUES" => Item.size \in {1, 2, 4, 8} /\ Item.count \in Nat
         /\ Item.type = "OPCODE" =>
              Item.value \in Opcodes /\ Item.label \in Names /\ Item.imm \in Int
<1>1. source \in Seq(Items) /\ pos \in 1 .. Len(source)
  BY DEF TypeOK, AtEnd
<1>2. Item \in Items
  BY <1>1 DEF Item
<1>3. Item.type = "LABEL" => Item \in Labels
  BY <1>2 DEF Items, Directives, Labels, DataLines, TextLines
<1>4. Item.type = "VALUES" => Item \in DataLines
  BY <1>2 DEF Items, Directives, Labels, DataLines, TextLines
<1>5. Item.type = "OPCODE" => Item \in TextLines
  BY <1>2 DEF Items, Directives, Labels, DataLines, TextLines
<1> QED  BY <1>2, <1>3, <1>4, <1>5 DEF Labels, DataLines, TextLines

LEMMA AlignType ==
  ASSUME NEW n \in Nat, NEW a \in {1, 2, 4, 8}
  PROVE  Align(n, a) \in Nat
  BY DEF Align

(* A division of integers, as a quotient and a rest.                       *)
LEMMA Division ==
  ASSUME NEW m \in Int, NEW p \in Nat \ {0}
  PROVE  \E q \in Int, r \in 0 .. p - 1 : q = m \div p /\ m = p * q + r
<1>1. m \div p \in Int /\ m % p \in 0 .. p - 1
  OBVIOUS
<1>2. PICK q \in Int : q = m \div p
  BY <1>1
<1>3. PICK r \in 0 .. p - 1 : r = m % p
  BY <1>1
<1>4. m = p * q + r
  BY <1>2, <1>3
<1> QED  BY <1>2, <1>3, <1>4

(* The two immediates of a wide operand are in range and add up to it.     *)
LEMMA HighLow ==
  ASSUME NEW n \in Int
  PROVE  /\ High(n) \in Int
         /\ Low(n) \in Int
         /\ n = High(n) * Page + Low(n)
         /\ Fits(Low(n), Page \div 2)
<1>1. /\ Page \in Nat \ {0}
      /\ Page \div 2 \in Nat
      /\ Page = (Page \div 2) + (Page \div 2)
  BY PageAssumption
<1>2. n + Page \div 2 \in Int
  BY <1>1
<1>3. PICK q \in Int, r \in 0 .. Page - 1 :
        q = (n + Page \div 2) \div Page /\ n + Page \div 2 = Page * q + r
  BY <1>1, <1>2, Division
<1>4. High(n) = q
  BY <1>3 DEF High
<1>5. q * Page = Page * q /\ q * Page \in Int
  BY <1>1
<1>6. Low(n) = n - q * Page
  BY <1>4 DEF Low
<1>7. Low(n) = r - Page \div 2
  BY <1>1, <1>3, <1>5, <1>6
<1>8. Low(n) \in Int /\ Fits(Low(n), Page \div 2)
  BY <1>1, <1>3, <1>7 DEF Fits
<1> QED  BY <1>4, <1>5, <1>6, <1>8

LEMMA MakeType ==
  ASSUME TypeOK,
         NEW op \in {"plain", "beq", "jal", "auipc", "lui", "addi", "load"},
         NEW label \in Names \cup {NoLabel}, NEW imm \in Int, NEW done \in BOOLEAN
  PROVE  Make(op, label, imm, done) \in Unit
  BY DEF TypeOK, Make, Unit

LEMMA OneUnit ==
  ASSUME NEW u \in Unit
  PROVE  <<u>> \in Seq(Unit) /\ Len(<<u>>) = 1 /\ <<u>>[1] = u
  OBVIOUS

LEMMA TwoUnits ==
  ASSUME NEW u \in Unit, NEW w \in Unit
  PROVE  <<u, w>> \in Seq(Unit) /\ Len(<<u, w>>) = 2 /\ <<u, w>>[1] = u /\ <<u, w>>[2] = w
  OBVIOUS

LEMMA EmitType ==
  ASSUME TypeOK, NEW units \in Seq(Unit), Emit(units)
  PROVE  intermediate_code' \in Seq(Unit) /\ instruction_index' \in Nat
  BY DEF TypeOK, Emit

LEMMA DistanceType ==
  ASSUME TypeOK, NEW n \in Names, NEW index \in Nat
  PROVE  Distance(n, index) \in Int
<1>1. symbol_table[n] \in Symbol
  BY DEF TypeOK
<1> QED  BY <1>1 DEF Distance, Symbol

LEMMA DefineType ==
  ASSUME TypeOK, NEW n \in Names, NEW address \in Nat, NEW isData \in BOOLEAN,
         Define(n, address, isData)
  PROVE  symbol_table' \in [Names -> Symbol]
  BY DEF TypeOK, Define, Symbol

LEMMA TypeFirst ==
  ASSUME TypeOK, First
  PROVE  TypeOK'
<1>1. CASE (FirstOuter \/ LeaveSection \/ SkipSection \/ DataJunk) /\ UNCHANGED <<source, phase, code, results>>
  <2>1. /\ UNCHANGED <<source, phase, code, results, symbols>>
        /\ section' \in {section, "data", "bss", "text", "none"}
        /\ pos' \in {pos, pos + 1}
        /\ errors' \in BOOLEAN
    BY <1>1 DEF TypeOK, FirstOuter, LeaveSection, SkipSection, DataJunk,
                Advance, GoTo, Fail, Enter, symbols, code, results
  <2> QED  BY <2>1 DEF TypeOK, symbols, code, results
<1>2. CASE DataLabel /\ UNCHANGED <<source, phase, code, results>>
  <2>1. ~AtEnd /\ Item.value \in Names
    BY <1>2, ItemType DEF DataLabel
  <2>2. data_index' \in Nat /\ errors' \in BOOLEAN
    <3>1. CASE pos < Len(source) /\ source[pos + 1].type = "VALUES"
      <4>1. source[pos + 1] \in Items
        BY <3>1 DEF TypeOK
      <4>2. source[pos + 1] \in DataLines
        BY <3>1, <4>1 DEF Items, Directives, Labels, DataLines, TextLines
      <4>3. source[pos + 1].size \in {1, 2, 4, 8}
        BY <4>2 DEF DataLines
      <4> QED  BY <1>2, <3>1, <4>3, AlignType DEF DataLabel, TypeOK
    <3>2. CASE ~(pos < Len(source) /\ source[pos + 1].type = "VALUES")
      BY <1>2, <3>2 DEF DataLabel, TypeOK
    <3> QED  BY <3>1, <3>2
  <2>3. symbol_table' \in [Names -> Symbol]
    BY <1>2, <2>1, <2>2 DEF DataLabel, Define, TypeOK, Symbol
  <2>4. /\ pos' = pos + 1
        /\ UNCHANGED <<source, phase, section, data_buffer, code, results>>
    BY <1>2 DEF DataLabel, Advance
  <2> QED  BY <2>2, <2>3, <2>4 DEF TypeOK, code, results
<1>3. CASE DataValues /\ UNCHANGED <<source, phase, code, results>>
  <2>1. ~AtEnd /\ Item.size \in {1, 2, 4, 8} /\ Item.count \in Nat
    BY <1>3, ItemType DEF DataValues, Is, Sees
  <2>2. [i \in 1 .. Item.count |-> [line |-> pos, nth |-> i, size |-> Item.size]] \in Seq(Value)
    <3>1. \A i \in 1 .. Item.count : [line |-> pos, nth |-> i, size |-> Item.size] \in Value
      BY <2>1 DEF Value, TypeOK
    <3> QED  BY <2>1, <3>1
  <2>3. data_buffer' \in Seq(Value)
    BY <1>3, <2>2 DEF DataValues, TypeOK
  <2>4. data_index' \in Nat
    <3>1. Align(data_index, Item.size) \in Nat
      BY <2>1, AlignType DEF TypeOK
    <3>2. Item.count * Item.size \in Nat
      BY <2>1
    <3> QED  BY <1>3, <3>1, <3>2 DEF DataValues, TypeOK
  <2>5. /\ pos' = pos + 1 /\ errors' \in BOOLEAN
        /\ UNCHANGED <<source, phase, section, symbol_table, code, results>>
    BY <1>3 DEF DataValues, Advance, Is, Sees, TypeOK
  <2> QED  BY <2>3, <2>4, <2>5 DEF TypeOK, code, results
<1>4. CASE EndFirst
  BY <1>4 DEF EndFirst, TypeOK, symbols, code, results
<1> QED  BY <1>1, <1>2, <1>3, <1>4 DEF First

LEMMA TypeInstruction ==
  ASSUME TypeOK, Instruction
  PROVE  /\ intermediate_code' \in Seq(Unit)
         /\ instruction_index' \in Nat
         /\ back_patch' \in Seq(Nat)
         /\ errors' \in BOOLEAN
<1>1. CASE Branch
  <2>1. ~AtEnd /\ Item.value \in {"beq", "jal"} /\ Item.label \in Names
    BY <1>1, ItemType DEF Branch, Is, Sees
  <2>2. instruction_index \in Nat /\ Distance(Item.label, instruction_index) \in Int
    BY <2>1, DistanceType DEF TypeOK
  <2>3. /\ <<Make(Item.value, Item.label, 0, FALSE)>> \in Seq(Unit)
        /\ <<Make(Item.value, Item.label, Distance(Item.label, instruction_index), TRUE)>> \in Seq(Unit)
    <3>1. Make(Item.value, Item.label, 0, FALSE) \in Unit
      BY <2>1 DEF Make, Unit, TypeOK
    <3>2. Make(Item.value, Item.label, Distance(Item.label, instruction_index), TRUE) \in Unit
      BY <2>1, <2>2, MakeType
    <3> QED  BY <3>1, <3>2, OneUnit
  <2>4. intermediate_code' \in Seq(Unit) /\ instruction_index' \in Nat
    BY <1>1, <2>3, EmitType DEF Branch, TypeOK, Reject, code
  <2>5. back_patch' \in {back_patch, Append(back_patch, instruction_index)}
    BY <1>1 DEF Branch, Reject, code
  <2>6. back_patch' \in Seq(Nat)
    <3>1. back_patch \in Seq(Nat)
      BY DEF TypeOK
    <3>2. Append(back_patch, instruction_index) \in Seq(Nat)
      BY <2>2, <3>1
    <3> QED  BY <2>5, <3>1, <3>2
  <2>7. errors' \in BOOLEAN
    BY <1>1 DEF Branch, TypeOK, Reject, Fail
  <2> QED  BY <2>4, <2>6, <2>7
<1>2. CASE DataReference
  <2>1. ~AtEnd /\ Item.label \in Names
    BY <1>2, ItemType DEF DataReference, Is, Sees
  <2> DEFINE offset == DataStart + symbol_table[Item.label].address - 4 * instruction_index
             second == IF Item.value = "la" THEN "addi" ELSE "load"
  <2>2. offset \in Int
    <3>1. symbol_table[Item.label] \in Symbol
      BY <2>1 DEF TypeOK
    <3>2. DataStart \in Nat /\ instruction_index \in Nat
      BY ReachAssumption DEF TypeOK
    <3>3. symbol_table[Item.label].address \in Nat
      BY <3>1 DEF Symbol
    <3> QED  BY <3>2, <3>3
  <2>3. High(offset) \in Int /\ Low(offset) \in Int
    <3> HIDE DEF offset
    <3> QED  BY <2>2, HighLow
  <2>4. <<Make("auipc", Item.label, High(offset), TRUE),
          Make(second, Item.label, Low(offset), TRUE)>> \in Seq(Unit)
    <3> HIDE DEF offset
    <3>1. Make("auipc", Item.label, High(offset), TRUE) \in Unit
      BY <2>1, <2>3, MakeType
    <3>2. Make(second, Item.label, Low(offset), TRUE) \in Unit
      BY <2>1, <2>3, MakeType
    <3> QED  BY <3>1, <3>2, TwoUnits
  <2> HIDE DEF offset, second
  <2> QED  BY <1>2, <2>4, EmitType DEF DataReference, TypeOK, Reject, Fail, code, offset, second
<1>3. CASE LoadImmediate
  <2>1. ~AtEnd /\ Item.imm \in Int
    BY <1>3, ItemType DEF LoadImmediate, Is, Sees
  <2>2. High(Item.imm) \in Int /\ Low(Item.imm) \in Int
    BY <2>1, HighLow
  <2> DEFINE upper == Make("lui", NoLabel, High(Item.imm), TRUE)
             lower == Make("addi", NoLabel, Low(Item.imm), TRUE)
  <2>3. upper \in Unit /\ lower \in Unit /\ Make("addi", NoLabel, Item.imm, TRUE) \in Unit
    BY <2>1, <2>2, MakeType
  <2> HIDE DEF upper, lower
  <2>4. /\ (IF Low(Item.imm) # 0 THEN <<upper, lower>> ELSE <<upper>>) \in Seq(Unit)
        /\ <<Make("addi", NoLabel, Item.imm, TRUE)>> \in Seq(Unit)
    BY <2>3, OneUnit, TwoUnits
  <2> QED  BY <1>3, <2>4, EmitType DEF LoadImmediate, TypeOK, Reject, Fail, code, upper, lower
<1>4. CASE Plain
  <2>1. Make("plain", NoLabel, 0, TRUE) \in Unit
    BY DEF Make, Unit, TypeOK
  <2>2. <<Make("plain", NoLabel, 0, TRUE)>> \in Seq(Unit)
    BY <2>1, OneUnit
  <2> QED  BY <1>4, <2>2, EmitType DEF Plain, TypeOK, Reject, Fail, code
<1> QED  BY <1>1, <1>2, <1>3, <1>4 DEF Instruction

LEMMA TypeSecond ==
  ASSUME TypeOK, Second
  PROVE  TypeOK'
<1>1. CASE (SecondOuter \/ SkipToText \/ LeaveText) /\ UNCHANGED <<source, phase, data_buffer, data_index, results>>
  <2>1. /\ UNCHANGED <<source, phase, data_buffer, data_index, results, symbol_table, code>>
        /\ section' \in {section, "skip", "text", "none"}
        /\ pos' \in {pos, pos + 1}
        /\ errors' \in BOOLEAN
    BY <1>1 DEF TypeOK, SecondOuter, SkipToText, LeaveText,
                Advance, GoTo, Fail, Enter, symbols, code, results
  <2> QED  BY <2>1 DEF TypeOK, code, results
<1>2. CASE TextLabel /\ UNCHANGED <<source, phase, data_buffer, data_index, results>>
  <2>1. ~AtEnd /\ Item.value \in Names
    BY <1>2, ItemType DEF TextLabel
  <2>2. symbol_table' \in [Names -> Symbol] /\ errors' \in BOOLEAN
    <3>1. 4 * instruction_index \in Nat
      BY DEF TypeOK
    <3>2. CASE Known(Item.value)
      BY <1>2, <3>2 DEF TextLabel, Fail, TypeOK
    <3>3. CASE ~Known(Item.value)
      BY <1>2, <2>1, <3>1, <3>3, DefineType DEF TextLabel, TypeOK
    <3> QED  BY <3>2, <3>3
  <2>3. /\ pos' = pos + 1
        /\ UNCHANGED <<source, phase, section, data_buffer, data_index, code, results>>
    BY <1>2 DEF TextLabel, Advance
  <2> QED  BY <2>2, <2>3 DEF TypeOK, code, results
<1>3. CASE Instruction /\ UNCHANGED <<source, phase, data_buffer, data_index, results>>
  <2>1. /\ pos' = pos + 1
        /\ UNCHANGED <<source, phase, section, symbol_table, data_buffer, data_index, results>>
    BY <1>3 DEF Instruction, Advance
  <2> QED  BY <1>3, <2>1, TypeInstruction DEF TypeOK, results
<1>4. CASE EndSecond
  BY <1>4 DEF EndSecond, TypeOK, symbols, code, results
<1> QED  BY <1>1, <1>2, <1>3, <1>4 DEF Second

----------------------------------------------------------------------------
(* The inductive invariant.                                                *)

Jumps == {"beq", "jal"}

(* Until the second pass there is no code, and all labels are of data.     *)
Nothing ==
  phase = "first" =>
    /\ intermediate_code = << >> /\ back_patch = << >>
    /\ \A n \in Names : ~IsText(n)

Counted == instruction_index = Len(intermediate_code)

Ordered ==
  \A i, j \in Numbers : i < j => intermediate_code[i].line =< intermediate_code[j].line

(* The second pass has come past all the instructions and labels it made.  *)
Behind ==
  phase = "second" =>
    /\ \A i \in Numbers : intermediate_code[i].line < pos
    /\ \A n \in Names : IsText(n) => symbol_table[n].line < pos

(* The address of a label is that of the first instruction after it.       *)
Addressed ==
  \A n \in Names :
    IsText(n) => \E t \in 0 .. Len(intermediate_code) :
                   symbol_table[n].address = 4 * t /\ StandsAfter(n, t)

Linked ==
  \A i \in Numbers :
    LET unit == intermediate_code[i]
    IN  unit.op \in Jumps =>
          /\ unit.label \in Names
          /\ unit.done =>
               \/ IsData(unit.label)
               \/ /\ IsText(unit.label)
                  /\ 4 * (i - 1) + unit.imm = symbol_table[unit.label].address

(* What is to be patched are branches and jumps.                           *)
Patchable ==
  \A k \in 1 .. Len(back_patch) :
    /\ back_patch[k] + 1 \in Numbers
    /\ intermediate_code[back_patch[k] + 1].op \in Jumps

(* What is not done will be patched, or will have been an error.           *)
Pending ==
  \A i \in Numbers :
    ~intermediate_code[i].done =>
      /\ ~Accepted
      /\ phase \in {"second", "patch"} =>
           \E k \in 1 .. Len(back_patch) :
             /\ back_patch[k] = i - 1
             /\ phase = "patch" => errors \/ k >= pos

LInv == /\ TypeOK /\ Nothing /\ Counted /\ Ordered /\ Behind
        /\ Addressed /\ Linked /\ Patchable /\ Pending

(* The lines before prev_line are mapped, each to the first instruction    *)
(* that is not before it.                                                  *)
Mapped ==
  phase \in {"lines", "load", "ready"} =>
    LET mapped == IF phase = "lines" THEN pos - 1 ELSE Len(intermediate_code)
    IN  /\ mapped =< Len(intermediate_code)
        /\ prev_line = IF mapped = 0 THEN 1 ELSE intermediate_code[mapped].line + 1
        /\ \A l \in DOMAIN line_map :
             /\ line_map[l] # -1 <=> l < prev_line
             /\ line_map[l] # -1 =>
                  /\ line_map[l] < mapped
                  /\ \A j \in Numbers : j =< line_map[l] <=> intermediate_code[j].line < l

Unmapped ==
  phase \notin {"lines", "load", "ready"} =>
    prev_line = 1 /\ \A l \in DOMAIN line_map : line_map[l] = -1

BInv == LInv /\ Mapped /\ Unmapped


LEMMA TypePatch ==
  ASSUME TypeOK, Patchable, Linked, Patch
  PROVE  TypeOK'
<1> DEFINE index == back_patch[pos]
           unit == intermediate_code[index + 1]
           offset == Distance(unit.label, index)
<1>1. pos \in 1 .. Len(back_patch) /\ index \in Nat /\ index + 1 \in Numbers
  <2>1. back_patch \in Seq(Nat) /\ pos \in Nat \ {0}
    BY DEF TypeOK
  <2>2. pos \in 1 .. Len(back_patch)
    BY <2>1 DEF Patch
  <2> QED  BY <2>1, <2>2 DEF Patchable
<1>2. unit \in Unit /\ unit.label \in Names
  <2>1. unit \in Unit
    BY <1>1 DEF TypeOK, Numbers
  <2>2. unit.op \in Jumps
    BY <1>1 DEF Patchable
  <2> QED  BY <1>1, <2>1, <2>2 DEF Linked
<1>3. offset \in Int
  BY <1>1, <1>2, DistanceType
<1>4. intermediate_code' \in Seq(Unit)
  <2> HIDE DEF unit, offset
  <2>1. [unit EXCEPT !.imm = offset, !.done = TRUE] \in Unit
    BY <1>2, <1>3 DEF Unit
  <2>2. [unit EXCEPT !.done = TRUE] \in Unit
    BY <1>2 DEF Unit
  <2>3. PICK u \in Unit : intermediate_code' = [intermediate_code EXCEPT ![index + 1] = u]
    BY <1>2, <2>1, <2>2 DEF Patch, unit, offset
  <2> QED  BY <1>1, <2>3 DEF TypeOK, Numbers
<1>5. /\ pos' = pos + 1 /\ errors' \in BOOLEAN
      /\ UNCHANGED <<source, phase, section, symbols, instruction_index, back_patch, results>>
  BY DEF Patch, TypeOK
<1> QED  BY <1>4, <1>5 DEF TypeOK, symbols, results

LEMMA TypeMapLines ==
  ASSUME TypeOK, MapLines
  PROVE  TypeOK'
<1>1. intermediate_code[pos].line \in Nat
  <2>1. intermediate_code[pos] \in Unit
    BY DEF MapLines, TypeOK
  <2> QED  BY <2>1 DEF Unit
<1>2. line_map' \in [1 .. Len(source) -> Nat \cup {-1}]
  BY DEF MapLines, LinesTo, TypeOK
<1>3. prev_line' \in Nat /\ pos' = pos + 1
  BY <1>1 DEF MapLines
<1>4. UNCHANGED <<source, phase, section, symbols, code, errors, data_counter, memory>>
  BY DEF MapLines
<1> QED  BY <1>2, <1>3, <1>4 DEF TypeOK, symbols, code

LEMMA TypeLoadData ==
  ASSUME TypeOK, LoadData
  PROVE  TypeOK'
<1> DEFINE value == data_buffer[pos]
<1>1. value \in Value
  BY DEF LoadData, TypeOK
<1>2. Place(value.size) \in Nat /\ value.size \in Nat
  <2>1. value.size \in {1, 2, 4, 8}
    BY <1>1 DEF Value
  <2> HIDE DEF value
  <2>2. data_counter \in Nat
    BY DEF TypeOK
  <2>3. Align(data_counter, value.size) \in Nat
    BY <2>1, <2>2, AlignType
  <2> QED  BY <2>1, <2>3 DEF Place
<1>3. data_counter' \in Nat
  BY <1>2 DEF LoadData
<1>4. memory' \subseteq [value : Value, address : Nat]
  <2>1. DataStart + Place(value.size) \in Nat
    BY <1>2, ReachAssumption
  <2>2. [value |-> value, address |-> DataStart + Place(value.size)] \in [value : Value, address : Nat]
    BY <1>1, <2>1
  <2> QED  BY <2>2 DEF LoadData, TypeOK
<1>5. /\ pos' = pos + 1
      /\ UNCHANGED <<source, phase, section, symbols, code, errors, line_map, prev_line>>
  BY DEF LoadData
<1> QED  BY <1>3, <1>4, <1>5 DEF TypeOK, symbols, code

LEMMA TypeNext ==
  ASSUME LInv, [Next]_vars
  PROVE  TypeOK'
<1> USE DEF LInv
<1>1. CASE First
  BY <1>1, TypeFirst
<1>2. CASE Second
  BY <1>2, TypeSecond
<1>3. CASE Patch
  BY <1>3, TypePatch
<1>4. CASE MapLines
  BY <1>4, TypeMapLines
<1>5. CASE LoadData
  BY <1>5, TypeLoadData
<1>6. CASE Conclude \/ EndLines \/ EndLoad
  <2>1. /\ phase' \in {"failed", "lines", "load", "ready"} /\ pos' \in {1, pos}
        /\ UNCHANGED <<source, section, symbols, code, errors, results>>
    BY <1>6 DEF Conclude, EndLines, EndLoad
  <2> QED  BY <2>1 DEF TypeOK, symbols, code, results
<1>7. CASE UNCHANGED vars
  BY <1>7 DEF vars, TypeOK, symbols, code, results
<1> QED  BY <1>1, <1>2, <1>3, <1>4, <1>5, <1>6, <1>7 DEF Next

----------------------------------------------------------------------------
(* Steps that leave code and labels alone.                                 *)

LEMMA Frame ==
  ASSUME LInv, UNCHANGED <<code, symbol_table>>
  PROVE  (Counted /\ Ordered /\ Addressed /\ Linked /\ Patchable)'
<1>1. UNCHANGED <<intermediate_code, instruction_index, back_patch, symbol_table>>
  BY DEF code
<1>2. Counted' /\ Ordered'
  BY <1>1 DEF LInv, Counted, Ordered, Numbers
<1>3. Addressed'
  BY <1>1 DEF LInv, Addressed, StandsAfter, IsText, Known, Numbers
<1>4. Linked' /\ Patchable'
  BY <1>1 DEF LInv, Linked, Patchable, IsText, IsData, Known, Numbers
<1> QED  BY <1>2, <1>3, <1>4

LEMMA Empty ==
  ASSUME intermediate_code' = << >>, back_patch' = << >>, instruction_index' = 0,
         \A n \in Names : ~IsText(n)'
  PROVE  (Counted /\ Ordered /\ Addressed /\ Linked /\ Patchable /\ Pending)'
  BY DEF Counted, Ordered, Addressed, Linked, Patchable, Pending, Numbers

LEMMA LFirst ==
  ASSUME LInv, First
  PROVE  LInv'
<1>1. /\ intermediate_code = << >> /\ back_patch = << >>
      /\ \A n \in Names : ~IsText(n)
      /\ instruction_index = 0
  BY DEF LInv, First, Nothing, Counted
<1>2. UNCHANGED <<intermediate_code, back_patch, instruction_index>>
  BY DEF First, EndFirst, code
<1>3. \A n \in Names : ~IsText(n)'
  <2>1. CASE DataLabel
    <3>1. ~AtEnd /\ Item.value \in Names
      BY <2>1, ItemType DEF DataLabel, LInv
    <3> QED  BY <1>1, <2>1, <3>1 DEF DataLabel, Define, IsText, Known, LInv, TypeOK
  <2>2. CASE UNCHANGED symbol_table
    BY <1>1, <2>2 DEF IsText, Known
  <2> QED  BY <2>1, <2>2 DEF First, FirstOuter, LeaveSection, SkipSection, DataValues,
                             DataJunk, EndFirst, symbols
<1>4. phase' \in {"first", "second"}
  BY DEF First, EndFirst
<1>5. Nothing' /\ Behind'
  BY <1>1, <1>2, <1>3 DEF Nothing, Behind, Numbers
<1>6. TypeOK'
  BY TypeFirst DEF LInv
<1> QED  BY <1>1, <1>2, <1>3, <1>5, <1>6, Empty DEF LInv

----------------------------------------------------------------------------
(* The second pass.                                                        *)

LEMMA Still ==
  ASSUME LInv, phase = "second", UNCHANGED <<phase, code, symbol_table>>,
         pos' \in {pos, pos + 1}, TypeOK'
  PROVE  LInv'
<1>1. UNCHANGED <<code, symbol_table>> /\ pos' \in {pos, pos + 1}
  OBVIOUS
<1>2. UNCHANGED <<intermediate_code, back_patch>>
  BY <1>1 DEF code
<1>3. Nothing'
  BY DEF Nothing
<1>4. Behind'
  <2>1. pos' >= pos /\ pos \in Nat /\ pos' \in Nat
    BY <1>1 DEF LInv, TypeOK
  <2>2. \A i \in Numbers : intermediate_code[i].line < pos'
    <3> SUFFICES ASSUME NEW i \in Numbers PROVE intermediate_code[i].line < pos'
      OBVIOUS
    <3>1. intermediate_code[i] \in Unit /\ intermediate_code[i].line < pos
      BY DEF LInv, Behind, TypeOK, Numbers
    <3> QED  BY <2>1, <3>1 DEF Unit
  <2>3. \A n \in Names : IsText(n) => symbol_table[n].line < pos'
    <3> SUFFICES ASSUME NEW n \in Names, IsText(n) PROVE symbol_table[n].line < pos'
      OBVIOUS
    <3>1. symbol_table[n] \in Symbol /\ symbol_table[n].line < pos
      BY DEF LInv, Behind, TypeOK
    <3> QED  BY <2>1, <3>1 DEF Symbol
  <2> QED  BY <1>1, <1>2, <2>2, <2>3 DEF Behind, Numbers, IsText, Known
<1>5. Pending'
  BY <1>2 DEF LInv, Pending, Numbers, Accepted
<1> QED  BY <1>1, <1>3, <1>4, <1>5, Frame DEF LInv

(* A new label: all the instructions so far are before it.                 *)
LEMMA LTextLabel ==
  ASSUME LInv, phase = "second", TextLabel,
         UNCHANGED <<source, phase, data_buffer, data_index, results>>
  PROVE  LInv'
<1>1. UNCHANGED <<intermediate_code, instruction_index, back_patch>> /\ pos' = pos + 1
  BY DEF TextLabel, Advance, code
<1>2. ~AtEnd /\ Item.value \in Names
  BY ItemType DEF TextLabel, LInv
<1> DEFINE name == Item.value
           new == [address |-> 4 * instruction_index, line |-> pos, isData |-> FALSE]
<1>3. \A n \in Names : Known(n) => symbol_table'[n] = symbol_table[n]
  BY <1>2 DEF TextLabel, Define, LInv, TypeOK
<1>4. \A n \in Names : symbol_table'[n] # symbol_table[n] => n = name /\ symbol_table'[n] = new
  BY <1>2 DEF TextLabel, Define, LInv, TypeOK
<1>5. instruction_index \in Nat /\ pos \in Nat /\ instruction_index = Len(intermediate_code)
  BY DEF LInv, TypeOK, Counted
<1>6. \A i \in Numbers : intermediate_code[i].line \in Nat /\ intermediate_code[i].line < pos
  <2> SUFFICES ASSUME NEW i \in Numbers
               PROVE  intermediate_code[i].line \in Nat /\ intermediate_code[i].line < pos
    OBVIOUS
  <2>1. intermediate_code[i] \in Unit
    BY DEF LInv, TypeOK, Numbers
  <2> QED  BY <2>1 DEF Unit, LInv, Behind
<1> HIDE DEF name
<1>7. Nothing'
  BY DEF Nothing
<1>8. Counted' /\ Ordered'
  BY <1>1 DEF LInv, Counted, Ordered, Numbers
<1>9. Behind'
  <2>1. \A n \in Names : symbol_table[n].line \in Nat
    BY DEF LInv, TypeOK, Symbol
  <2>2. \A n \in Names : IsText(n)' => symbol_table'[n].line < pos + 1
    <3> SUFFICES ASSUME NEW n \in Names, IsText(n)' PROVE symbol_table'[n].line < pos + 1
      OBVIOUS
    <3>1. CASE symbol_table'[n] = symbol_table[n]
      BY <1>5, <2>1, <3>1 DEF IsText, Known, LInv, Behind
    <3>2. CASE symbol_table'[n] # symbol_table[n]
      BY <1>4, <1>5, <3>2
    <3> QED  BY <3>1, <3>2
  <2>3. \A i \in Numbers : intermediate_code[i].line < pos + 1
    BY <1>5, <1>6
  <2> QED  BY <1>1, <2>2, <2>3 DEF Behind, Numbers
<1>10. Addressed'
  <2> SUFFICES ASSUME NEW n \in Names, IsText(n)'
               PROVE  \E t \in 0 .. Len(intermediate_code) :
                        /\ symbol_table'[n].address = 4 * t
                        /\ \A j \in Numbers :
                             j =< t <=> intermediate_code[j].line < symbol_table'[n].line
    BY <1>1 DEF Addressed, StandsAfter, Numbers
  <2>1. CASE symbol_table'[n] = symbol_table[n]
    <3>1. IsText(n)
      BY <2>1 DEF IsText, Known
    <3> QED  BY <2>1, <3>1 DEF LInv, Addressed, StandsAfter
  <2>2. CASE symbol_table'[n] # symbol_table[n]
    <3>1. symbol_table'[n].address = 4 * Len(intermediate_code) /\ symbol_table'[n].line = pos
      BY <1>4, <1>5, <2>2
    <3>2. \A j \in Numbers :
            j =< Len(intermediate_code) <=> intermediate_code[j].line < symbol_table'[n].line
      BY <1>5, <1>6, <3>1 DEF Numbers
    <3>3. Len(intermediate_code) \in 0 .. Len(intermediate_code)
      BY <1>5
    <3> QED  BY <3>1, <3>2, <3>3
  <2> QED  BY <2>1, <2>2
<1>11. Linked'
  BY <1>1, <1>3 DEF LInv, Linked, IsText, IsData, Known, Numbers
<1>12. Patchable' /\ Pending'
  BY <1>1 DEF LInv, Patchable, Pending, Numbers, Accepted
<1>13. TypeOK'
  BY TypeSecond DEF Second, LInv
<1> QED  BY <1>7, <1>8, <1>9, <1>10, <1>11, <1>12, <1>13 DEF LInv

(* Instructions that come from the line at hand.                           *)
LEMMA Concat ==
  ASSUME NEW s \in Seq(Unit), NEW u \in Seq(Unit)
  PROVE  /\ Len(s \o u) = Len(s) + Len(u)
         /\ \A i \in 1 .. Len(s) : (s \o u)[i] = s[i]
         /\ \A i \in 1 .. Len(s) + Len(u) :
              i > Len(s) => i - Len(s) \in 1 .. Len(u) /\ (s \o u)[i] = u[i - Len(s)]
  OBVIOUS

(* What a new instruction may be: number i, if it is a branch whose        *)
(* distance is known, leads to its label.                                  *)
Sound(unit, i) ==
  /\ unit.line = pos
  /\ unit.op \in Jumps =>
       /\ unit.label \in Names
       /\ unit.done =>
            /\ IsText(unit.label)
            /\ 4 * (i - 1) + unit.imm = symbol_table[unit.label].address

LEMMA EmitKeeps ==
  ASSUME LInv, phase = "second", NEW units \in Seq(Unit), Emit(units),
         \A u \in 1 .. Len(units) : Sound(units[u], Len(intermediate_code) + u),
         UNCHANGED <<phase, symbol_table>>, pos' = pos + 1
  PROVE  /\ (Nothing /\ Counted /\ Ordered /\ Behind /\ Addressed /\ Linked)'
         /\ Len(intermediate_code') = Len(intermediate_code) + Len(units)
         /\ \A i \in Numbers : intermediate_code'[i] = intermediate_code[i]
         /\ \A i \in Numbers' : i \notin Numbers =>
              /\ i - Len(intermediate_code) \in 1 .. Len(units)
              /\ intermediate_code'[i] = units[i - Len(intermediate_code)]
<1> DEFINE old == Len(intermediate_code)
<1>1. /\ intermediate_code \in Seq(Unit) /\ old \in Nat /\ Len(units) \in Nat
      /\ pos \in Nat /\ instruction_index = old
  BY DEF LInv, TypeOK, Counted
<1>2. /\ Len(intermediate_code') = old + Len(units)
      /\ \A i \in Numbers : intermediate_code'[i] = intermediate_code[i]
      /\ \A i \in 1 .. old + Len(units) : i > old =>
           /\ i - old \in 1 .. Len(units)
           /\ intermediate_code'[i] = units[i - old]
  BY <1>1, Concat DEF Emit, Numbers
<1> HIDE DEF old
<1>3. /\ Numbers = 1 .. old
      /\ Numbers' = 1 .. old + Len(units)
  BY <1>2 DEF Numbers, old
<1>4. \A i \in Numbers : intermediate_code[i].line \in Nat /\ intermediate_code[i].line < pos
  <2> SUFFICES ASSUME NEW i \in Numbers
               PROVE  intermediate_code[i].line \in Nat /\ intermediate_code[i].line < pos
    OBVIOUS
  <2>1. intermediate_code[i] \in Unit
    BY <1>1 DEF Numbers, old
  <2> QED  BY <2>1 DEF Unit, LInv, Behind
<1>5. \A i \in Numbers' : i \notin Numbers => Sound(intermediate_code'[i], i)
  <2> SUFFICES ASSUME NEW i \in Numbers', i \notin Numbers
               PROVE  Sound(intermediate_code'[i], i)
    OBVIOUS
  <2>1. i \in 1 .. old + Len(units) /\ i > old
    BY <1>1, <1>3
  <2>2. i - old \in 1 .. Len(units) /\ intermediate_code'[i] = units[i - old]
    BY <1>2, <2>1
  <2>3. old + (i - old) = i
    BY <1>1, <2>1
  <2>4. Sound(units[i - old], old + (i - old))
    BY <2>2 DEF old
  <2> QED  BY <2>2, <2>3, <2>4
<1>6. \A i \in Numbers' : i \notin Numbers => intermediate_code'[i].line = pos
  BY <1>5 DEF Sound
<1>7. Nothing'
  BY DEF Nothing
<1>8. Counted'
  BY <1>1, <1>2 DEF Counted, Emit
<1>9. Ordered'
  <2> SUFFICES ASSUME NEW i \in Numbers', NEW j \in Numbers', i < j
               PROVE  intermediate_code'[i].line =< intermediate_code'[j].line
    BY DEF Ordered
  <2>1. CASE j \in Numbers
    <3>1. i \in Numbers
      BY <1>1, <1>3, <2>1
    <3> QED  BY <1>2, <2>1, <3>1 DEF LInv, Ordered
  <2>2. CASE j \notin Numbers /\ i \in Numbers
    <3>1. intermediate_code'[j].line = pos /\ intermediate_code'[i] = intermediate_code[i]
      BY <1>2, <1>6, <2>2
    <3>2. intermediate_code[i].line \in Nat /\ intermediate_code[i].line < pos
      BY <1>4, <2>2
    <3> QED  BY <1>1, <3>1, <3>2
  <2>3. CASE j \notin Numbers /\ i \notin Numbers
    BY <1>1, <1>6, <2>3
  <2> QED  BY <2>1, <2>2, <2>3
<1>10. Behind'
  <2>1. \A i \in Numbers' : intermediate_code'[i].line < pos + 1
    <3> SUFFICES ASSUME NEW i \in Numbers' PROVE intermediate_code'[i].line < pos + 1
      OBVIOUS
    <3>1. CASE i \in Numbers
      <4>1. /\ intermediate_code'[i] = intermediate_code[i]
            /\ intermediate_code[i].line \in Nat /\ intermediate_code[i].line < pos
        BY <1>2, <1>4, <3>1
      <4> QED  BY <1>1, <4>1
    <3>2. CASE i \notin Numbers
      BY <1>1, <1>6, <3>2
    <3> QED  BY <3>1, <3>2
  <2>2. \A n \in Names : IsText(n) => symbol_table[n].line < pos + 1
    BY <1>1 DEF LInv, Behind, TypeOK, Symbol
  <2> QED  BY <2>1, <2>2 DEF Behind, IsText, Known
<1>11. Addressed'
  <2> SUFFICES ASSUME NEW n \in Names, IsText(n)
               PROVE  \E t \in 0 .. old + Len(units) :
                        symbol_table[n].address = 4 * t /\ StandsAfter(n, t)'
    BY <1>2 DEF Addressed, IsText, Known
  <2>1. PICK t \in 0 .. old : symbol_table[n].address = 4 * t /\ StandsAfter(n, t)
    BY DEF LInv, Addressed, old
  <2>2. symbol_table[n].line < pos /\ symbol_table[n].line \in Nat
    BY DEF LInv, Behind, TypeOK, Symbol
  <2>3. \A j \in Numbers' : j =< t <=> intermediate_code'[j].line < symbol_table[n].line
    <3> SUFFICES ASSUME NEW j \in Numbers'
                 PROVE  j =< t <=> intermediate_code'[j].line < symbol_table[n].line
      OBVIOUS
    <3>1. CASE j \in Numbers
      BY <1>2, <2>1, <3>1 DEF StandsAfter
    <3>2. CASE j \notin Numbers
      <4>1. j \in Nat /\ ~(j =< t)
        BY <1>1, <1>3, <3>2
      <4>2. intermediate_code'[j].line = pos
        BY <1>6, <3>2
      <4>3. ~(intermediate_code'[j].line < symbol_table[n].line)
        BY <1>1, <2>2, <4>2
      <4> QED  BY <4>1, <4>3
    <3> QED  BY <3>1, <3>2
  <2>4. StandsAfter(n, t)'
    BY <2>3 DEF StandsAfter
  <2>5. t \in 0 .. old + Len(units)
    BY <1>1
  <2> QED  BY <2>1, <2>4, <2>5 DEF StandsAfter
<1>12. Linked'
  <2> SUFFICES ASSUME NEW i \in Numbers', intermediate_code'[i].op \in Jumps
               PROVE  /\ intermediate_code'[i].label \in Names
                      /\ intermediate_code'[i].done =>
                           \/ IsData(intermediate_code'[i].label)
                           \/ /\ IsText(intermediate_code'[i].label)
                              /\ 4 * (i - 1) + intermediate_code'[i].imm =
                                   symbol_table[intermediate_code'[i].label].address
    BY DEF Linked, IsData, IsText, Known
  <2>1. CASE i \in Numbers
    BY <1>2, <2>1 DEF LInv, Linked
  <2>2. CASE i \notin Numbers
    BY <1>5, <2>2 DEF Sound
  <2> QED  BY <2>1, <2>2
<1>13. \A i \in Numbers' : i \notin Numbers =>
         i - old \in 1 .. Len(units) /\ intermediate_code'[i] = units[i - old]
  BY <1>1, <1>2, <1>3
<1> QED  BY <1>2, <1>7, <1>8, <1>9, <1>10, <1>11, <1>12, <1>13 DEF old

LEMMA EmitDone ==
  ASSUME LInv, phase = "second", NEW units \in Seq(Unit), Emit(units),
         \A u \in 1 .. Len(units) :
           Sound(units[u], Len(intermediate_code) + u) /\ units[u].done,
         UNCHANGED <<phase, symbol_table, back_patch>>, pos' = pos + 1, TypeOK'
  PROVE  LInv'
<1>1. /\ (Nothing /\ Counted /\ Ordered /\ Behind /\ Addressed /\ Linked)'
      /\ Len(intermediate_code') = Len(intermediate_code) + Len(units)
      /\ \A i \in Numbers : intermediate_code'[i] = intermediate_code[i]
      /\ \A i \in Numbers' : i \notin Numbers =>
           /\ i - Len(intermediate_code) \in 1 .. Len(units)
           /\ intermediate_code'[i] = units[i - Len(intermediate_code)]
  BY EmitKeeps
<1>2. Len(intermediate_code) \in Nat /\ Len(units) \in Nat
  BY DEF LInv, TypeOK
<1>3. \A i \in Numbers : i \in Numbers'
  BY <1>1, <1>2 DEF Numbers
<1>4. Patchable'
  BY <1>1, <1>3 DEF LInv, Patchable
<1>5. Pending'
  <2> SUFFICES ASSUME NEW i \in Numbers', ~intermediate_code'[i].done
               PROVE  \E k \in 1 .. Len(back_patch) : back_patch[k] = i - 1
    BY DEF Pending, Accepted
  <2>1. i \in Numbers /\ ~intermediate_code[i].done
    BY <1>1
  <2> QED  BY <2>1 DEF LInv, Pending
<1> QED  BY <1>1, <1>4, <1>5 DEF LInv

LEMMA LInstruction ==
  ASSUME LInv, phase = "second", Instruction,
         UNCHANGED <<source, phase, data_buffer, data_index, results>>
  PROVE  LInv'
<1>1. UNCHANGED <<phase, symbol_table>> /\ pos' = pos + 1 /\ TypeOK'
  BY TypeSecond DEF Instruction, Advance, Second, LInv
<1>2. CASE UNCHANGED code
  BY <1>1, <1>2, Still
<1>3. ASSUME NEW units \in Seq(Unit), Emit(units), UNCHANGED back_patch,
             \A u \in 1 .. Len(units) :
               units[u].line = pos /\ units[u].op \notin Jumps /\ units[u].done
      PROVE  LInv'
  BY <1>1, <1>3, EmitDone DEF Sound
<1>4. CASE Branch
  <2>1. ~AtEnd /\ Item.value \in Jumps /\ Item.label \in Names
    BY <1>4, ItemType DEF Branch, Is, Sees, Jumps, LInv
  <2>2. instruction_index = Len(intermediate_code) /\ instruction_index \in Nat
    BY DEF LInv, TypeOK, Counted
  <2> DEFINE offset == Distance(Item.label, instruction_index)
             later  == Make(Item.value, Item.label, 0, FALSE)
             now    == Make(Item.value, Item.label, offset, TRUE)
  <2>3. offset \in Int /\ 4 * instruction_index + offset = symbol_table[Item.label].address
    <3>1. symbol_table[Item.label] \in Symbol
      BY <2>1 DEF LInv, TypeOK
    <3> QED  BY <2>2, <3>1 DEF Distance, Symbol
  <2>4. CASE IsText(Item.label) /\ Emit(<<now>>) /\ UNCHANGED back_patch
    <3>1. now \in Unit
      BY <2>1, <2>3, MakeType DEF LInv, Jumps
    <3>2. /\ now.line = pos /\ now.op = Item.value /\ now.label = Item.label
          /\ now.imm = offset /\ now.done
      BY DEF Make
    <3> HIDE DEF now, offset
    <3>3. Sound(now, Len(intermediate_code) + 1)
      BY <2>1, <2>2, <2>3, <2>4, <3>2 DEF Sound
    <3>4. <<now>> \in Seq(Unit) /\ Len(<<now>>) = 1 /\ <<now>>[1] = now
      BY <3>1, OneUnit
    <3>5. \A u \in 1 .. Len(<<now>>) :
            Sound(<<now>>[u], Len(intermediate_code) + u) /\ <<now>>[u].done
      BY <3>2, <3>3, <3>4
    <3> QED  BY <1>1, <2>4, <3>4, <3>5, EmitDone
  <2>5. CASE Emit(<<later>>) /\ back_patch' = Append(back_patch, instruction_index)
    <3>1. later \in Unit
      BY <2>1 DEF Make, Unit, LInv, TypeOK, Jumps
    <3>2. /\ later.line = pos /\ later.op = Item.value /\ later.label = Item.label
          /\ ~later.done
      BY DEF Make
    <3> HIDE DEF later
    <3>3. Sound(later, Len(intermediate_code) + 1)
      BY <2>1, <3>2 DEF Sound
    <3>4. <<later>> \in Seq(Unit) /\ Len(<<later>>) = 1 /\ <<later>>[1] = later
      BY <3>1, OneUnit
    <3>5. \A u \in 1 .. Len(<<later>>) : Sound(<<later>>[u], Len(intermediate_code) + u)
      BY <3>3, <3>4
    <3>6. /\ (Nothing /\ Counted /\ Ordered /\ Behind /\ Addressed /\ Linked)'
          /\ Len(intermediate_code') = Len(intermediate_code) + 1
          /\ \A i \in Numbers : intermediate_code'[i] = intermediate_code[i]
          /\ \A i \in Numbers' : i \notin Numbers =>
               /\ i - Len(intermediate_code) \in 1 .. 1
               /\ intermediate_code'[i] = <<later>>[i - Len(intermediate_code)]
      BY <1>1, <2>5, <3>4, <3>5, EmitKeeps
    <3>7. /\ Numbers = 1 .. instruction_index
          /\ Numbers' = 1 .. instruction_index + 1
          /\ intermediate_code'[instruction_index + 1] = later
      BY <2>2, <3>4, <3>6 DEF Numbers
    <3>8. /\ back_patch \in Seq(Nat)
          /\ Len(back_patch') = Len(back_patch) + 1
          /\ \A k \in 1 .. Len(back_patch) : back_patch'[k] = back_patch[k]
          /\ back_patch'[Len(back_patch) + 1] = instruction_index
      BY <2>2, <2>5 DEF LInv, TypeOK
    <3>9. Patchable'
      <4> SUFFICES ASSUME NEW k \in 1 .. Len(back_patch')
                   PROVE  /\ back_patch'[k] + 1 \in Numbers'
                          /\ intermediate_code'[back_patch'[k] + 1].op \in Jumps
        BY DEF Patchable
      <4>1. CASE k \in 1 .. Len(back_patch)
        <5>1. back_patch[k] + 1 \in Numbers /\ intermediate_code[back_patch[k] + 1].op \in Jumps
          BY <4>1 DEF LInv, Patchable
        <5> QED  BY <2>2, <3>6, <3>7, <3>8, <4>1, <5>1
      <4>2. CASE k = Len(back_patch) + 1
        BY <2>1, <2>2, <3>2, <3>7, <3>8, <4>2
      <4> QED  BY <3>8, <4>1, <4>2
    <3>10. Pending'
      <4> SUFFICES ASSUME NEW i \in Numbers', ~intermediate_code'[i].done
                   PROVE  \E k \in 1 .. Len(back_patch') : back_patch'[k] = i - 1
        BY <1>1 DEF Pending, Accepted
      <4>1. CASE i \in Numbers
        <5>1. PICK k \in 1 .. Len(back_patch) : back_patch[k] = i - 1
          BY <3>6, <4>1 DEF LInv, Pending
        <5> QED  BY <3>8, <5>1
      <4>2. CASE i = instruction_index + 1
        <5>1. Len(back_patch) + 1 \in 1 .. Len(back_patch')
          BY <3>8
        <5> QED  BY <2>2, <3>8, <4>2, <5>1
      <4> QED  BY <2>2, <3>7, <4>1, <4>2
    <3> QED  BY <1>1, <3>6, <3>9, <3>10 DEF LInv
  <2> QED  BY <1>2, <1>4, <2>4, <2>5 DEF Branch, Reject, code
<1>5. CASE DataReference
  <2>1. ~AtEnd /\ Item.label \in Names
    BY <1>5, ItemType DEF DataReference, Is, Sees, LInv
  <2> DEFINE offset == DataStart + symbol_table[Item.label].address - 4 * instruction_index
             second == IF Item.value = "la" THEN "addi" ELSE "load"
             first  == Make("auipc", Item.label, High(offset), TRUE)
             last   == Make(second, Item.label, Low(offset), TRUE)
  <2>2. High(offset) \in Int /\ Low(offset) \in Int
    <3>1. symbol_table[Item.label] \in Symbol
      BY <2>1 DEF LInv, TypeOK
    <3>2. offset \in Int
      <4>1. DataStart \in Nat /\ instruction_index \in Nat
        BY ReachAssumption DEF LInv, TypeOK
      <4>2. symbol_table[Item.label].address \in Nat
        BY <3>1 DEF Symbol
      <4> QED  BY <4>1, <4>2
    <3> HIDE DEF offset
    <3> QED  BY <3>2, HighLow
  <2> HIDE DEF offset
  <2>3. first \in Unit /\ last \in Unit
    BY <2>1, <2>2, MakeType DEF LInv
  <2>4. /\ first.line = pos /\ first.op \notin Jumps /\ first.done
        /\ last.line = pos /\ last.op \notin Jumps /\ last.done
    BY DEF Make, Jumps
  <2> HIDE DEF first, last, second
  <2>5. /\ <<first, last>> \in Seq(Unit) /\ Len(<<first, last>>) = 2
        /\ <<first, last>>[1] = first /\ <<first, last>>[2] = last
    BY <2>3, TwoUnits
  <2>6. \A u \in 1 .. Len(<<first, last>>) :
          /\ <<first, last>>[u].line = pos
          /\ <<first, last>>[u].op \notin Jumps
          /\ <<first, last>>[u].done
    BY <2>4, <2>5
  <2>7. UNCHANGED code \/ (Emit(<<first, last>>) /\ UNCHANGED back_patch)
    BY <1>5 DEF DataReference, Reject, offset, first, last, second
  <2> QED  BY <1>2, <1>3, <2>5, <2>6, <2>7
<1>6. CASE LoadImmediate
  <2>1. ~AtEnd /\ Item.imm \in Int
    BY <1>6, ItemType DEF LoadImmediate, Is, Sees, LInv
  <2>2. High(Item.imm) \in Int /\ Low(Item.imm) \in Int
    BY <2>1, HighLow
  <2> DEFINE upper == Make("lui", NoLabel, High(Item.imm), TRUE)
             lower == Make("addi", NoLabel, Low(Item.imm), TRUE)
             small == Make("addi", NoLabel, Item.imm, TRUE)
  <2>3. upper \in Unit /\ lower \in Unit /\ small \in Unit
    BY <2>1, <2>2, MakeType DEF LInv
  <2>4. /\ upper.line = pos /\ upper.op \notin Jumps /\ upper.done
        /\ lower.line = pos /\ lower.op \notin Jumps /\ lower.done
        /\ small.line = pos /\ small.op \notin Jumps /\ small.done
    BY DEF Make, Jumps
  <2>5. \/ UNCHANGED code
        \/ UNCHANGED back_patch /\ (Emit(<<small>>) \/ Emit(<<upper>>) \/ Emit(<<upper, lower>>))
    BY <1>6 DEF LoadImmediate, Reject
  <2> HIDE DEF upper, lower, small
  <2>6. CASE UNCHANGED back_patch /\ Emit(<<small>>)
    <3>1. <<small>> \in Seq(Unit) /\ Len(<<small>>) = 1 /\ <<small>>[1] = small
      BY <2>3, OneUnit
    <3>2. \A u \in 1 .. Len(<<small>>) :
            <<small>>[u].line = pos /\ <<small>>[u].op \notin Jumps /\ <<small>>[u].done
      BY <2>4, <3>1
    <3> QED  BY <1>3, <2>6, <3>1, <3>2
  <2>7. CASE UNCHANGED back_patch /\ Emit(<<upper>>)
    <3>1. <<upper>> \in Seq(Unit) /\ Len(<<upper>>) = 1 /\ <<upper>>[1] = upper
      BY <2>3, OneUnit
    <3>2. \A u \in 1 .. Len(<<upper>>) :
            <<upper>>[u].line = pos /\ <<upper>>[u].op \notin Jumps /\ <<upper>>[u].done
      BY <2>4, <3>1
    <3> QED  BY <1>3, <2>7, <3>1, <3>2
  <2>8. CASE UNCHANGED back_patch /\ Emit(<<upper, lower>>)
    <3>1. /\ <<upper, lower>> \in Seq(Unit) /\ Len(<<upper, lower>>) = 2
          /\ <<upper, lower>>[1] = upper /\ <<upper, lower>>[2] = lower
      BY <2>3, TwoUnits
    <3>2. \A u \in 1 .. Len(<<upper, lower>>) :
            /\ <<upper, lower>>[u].line = pos
            /\ <<upper, lower>>[u].op \notin Jumps
            /\ <<upper, lower>>[u].done
      BY <2>4, <3>1
    <3> QED  BY <1>3, <2>8, <3>1, <3>2
  <2> QED  BY <1>2, <2>5, <2>6, <2>7, <2>8
<1>7. CASE Plain
  <2> DEFINE plain == Make("plain", NoLabel, 0, TRUE)
  <2>1. plain \in Unit
    BY DEF Make, Unit, LInv, TypeOK
  <2>2. plain.line = pos /\ plain.op \notin Jumps /\ plain.done
    BY DEF Make, Jumps
  <2>3. UNCHANGED code \/ (Emit(<<plain>>) /\ UNCHANGED back_patch)
    BY <1>7 DEF Plain, Reject
  <2> HIDE DEF plain
  <2>4. <<plain>> \in Seq(Unit) /\ Len(<<plain>>) = 1 /\ <<plain>>[1] = plain
    BY <2>1, OneUnit
  <2>5. \A u \in 1 .. Len(<<plain>>) :
          <<plain>>[u].line = pos /\ <<plain>>[u].op \notin Jumps /\ <<plain>>[u].done
    BY <2>2, <2>4
  <2> QED  BY <1>2, <1>3, <2>3, <2>4, <2>5
<1> QED  BY <1>4, <1>5, <1>6, <1>7 DEF Instruction

LEMMA LSecond ==
  ASSUME LInv, Second
  PROVE  LInv'
<1>1. TypeOK'
  BY TypeSecond DEF LInv
<1>2. CASE /\ SecondOuter \/ SkipToText \/ LeaveText
           /\ UNCHANGED <<source, phase, data_buffer, data_index, results>>
  <2>1. pos' \in {pos, pos + 1} /\ UNCHANGED <<phase, code, symbol_table>>
    BY <1>2 DEF SecondOuter, SkipToText, LeaveText, Advance, GoTo, Enter
  <2> QED  BY <1>1, <2>1, Still DEF Second, EndSecond
<1>3. CASE TextLabel /\ UNCHANGED <<source, phase, data_buffer, data_index, results>>
  BY <1>3, LTextLabel DEF Second
<1>4. CASE Instruction /\ UNCHANGED <<source, phase, data_buffer, data_index, results>>
  BY <1>4, LInstruction DEF Second
<1>5. CASE EndSecond
  <2>1. /\ phase = "second" /\ phase' = "patch" /\ pos' = 1
        /\ UNCHANGED <<code, symbol_table>>
    BY <1>5 DEF EndSecond, Second, symbols
  <2>2. Nothing' /\ Behind'
    BY <2>1 DEF Nothing, Behind
  <2>3. Pending'
    BY <2>1 DEF LInv, Pending, Numbers, Accepted, code
  <2> QED  BY <1>1, <2>1, <2>2, <2>3, Frame DEF LInv
<1> QED  BY <1>2, <1>3, <1>4, <1>5 DEF Second

----------------------------------------------------------------------------
(* Back-patching and what follows.                                         *)

LEMMA SameNumbers ==
  ASSUME NEW n \in Nat, NEW m \in Nat, 1 .. n = 1 .. m
  PROVE  n = m
<1>1. \A k \in Nat \ {0} : k \in 1 .. n <=> k \in 1 .. m
  OBVIOUS
<1>2. \A k \in Nat \ {0} : k =< n <=> k =< m
  BY <1>1
<1>3. CASE n = 0
  BY <1>2, <1>3
<1>4. CASE m = 0
  BY <1>2, <1>4
<1>5. CASE n # 0 /\ m # 0
  BY <1>2, <1>5
<1> QED  BY <1>3, <1>4, <1>5

LEMMA LPatch ==
  ASSUME LInv, Patch
  PROVE  LInv'
<1> DEFINE index == back_patch[pos]
           unit == intermediate_code[index + 1]
           new == intermediate_code'[index + 1]
           offset == Distance(unit.label, index)
<1>1. /\ UNCHANGED <<phase, symbol_table, instruction_index, back_patch>>
      /\ phase = "patch" /\ pos' = pos + 1
  BY DEF Patch, symbols
<1>2. pos \in 1 .. Len(back_patch) /\ index \in Nat /\ index + 1 \in Numbers
  <2>1. back_patch \in Seq(Nat) /\ pos \in Nat \ {0} /\ Patchable
    BY DEF LInv, TypeOK
  <2>2. pos \in 1 .. Len(back_patch)
    BY <2>1 DEF Patch
  <2> QED  BY <2>1, <2>2 DEF Patchable
<1>3. unit \in Unit /\ unit.op \in Jumps /\ unit.label \in Names
  <2>1. unit \in Unit
    BY <1>2 DEF LInv, TypeOK, Numbers
  <2>2. unit.op \in Jumps
    BY <1>2 DEF LInv, Patchable
  <2> QED  BY <1>2, <2>1, <2>2 DEF LInv, Linked
<1>4. offset \in Int /\ 4 * index + offset = symbol_table[unit.label].address
  <2>1. symbol_table[unit.label] \in Symbol
    BY <1>3 DEF LInv, TypeOK
  <2> HIDE DEF unit, index
  <2> QED  BY <1>2, <2>1 DEF Distance, Symbol
<1>5. PICK u : /\ intermediate_code' = [intermediate_code EXCEPT ![index + 1] = u]
               /\ \/ u = [unit EXCEPT !.imm = offset, !.done = TRUE] /\
                     (IsText(unit.label) \/ IsData(unit.label))
                  \/ u = [unit EXCEPT !.done = TRUE] /\ IsData(unit.label)
                  \/ u = unit /\ errors'
  <2> DEFINE fits == Fits(offset, Reach(unit.op))
             allowed == IsText(unit.label) \/ (unit.op = "jal" /\ IsData(unit.label))
             code_with(u) == [intermediate_code EXCEPT ![index + 1] = u]
  <2>1. /\ errors' = (errors \/ ~allowed \/ ~fits)
        /\ intermediate_code' =
             code_with(CASE allowed /\ fits -> [unit EXCEPT !.imm = offset, !.done = TRUE]
                         [] unit.op = "beq" /\ IsData(unit.label) -> [unit EXCEPT !.done = TRUE]
                         [] OTHER -> unit)
    BY DEF Patch
  <2>2. allowed => IsText(unit.label) \/ IsData(unit.label)
    OBVIOUS
  <2>3. ~(allowed /\ unit.op = "beq" /\ IsData(unit.label))
    BY DEF IsData, IsText
  <2> HIDE DEF allowed, fits, offset, unit
  <2>5. CASE allowed /\ fits
    <3>1. intermediate_code' = [intermediate_code EXCEPT ![index + 1] =
                                 [unit EXCEPT !.imm = offset, !.done = TRUE]]
      BY <2>1, <2>3, <2>5
    <3>2. IsText(unit.label) \/ IsData(unit.label)
      BY <2>2, <2>5
    <3> QED  BY <3>1, <3>2
  <2>6. CASE ~(allowed /\ fits) /\ unit.op = "beq" /\ IsData(unit.label)
    BY <2>1, <2>6
  <2>7. CASE ~(allowed /\ fits) /\ ~(unit.op = "beq" /\ IsData(unit.label))
    <3>1. errors'
      BY <2>1, <2>7
    <3> QED  BY <2>1, <2>7, <3>1
  <2> QED  BY <2>5, <2>6, <2>7
<1>6. /\ intermediate_code \in Seq(Unit)
      /\ intermediate_code' \in Seq(Unit)
      /\ Len(intermediate_code') = Len(intermediate_code)
      /\ Numbers' = Numbers
      /\ new = u
      /\ \A i \in Numbers : i # index + 1 => intermediate_code'[i] = intermediate_code[i]
  <2>1. TypeOK' /\ TypeOK
    BY TypePatch DEF LInv
  <2>2. intermediate_code \in Seq(Unit) /\ intermediate_code' \in Seq(Unit)
    BY <2>1 DEF TypeOK
  <2> HIDE DEF index, unit, offset
  <2>3. /\ DOMAIN intermediate_code = Numbers
        /\ DOMAIN intermediate_code' = Numbers'
        /\ DOMAIN intermediate_code' = DOMAIN intermediate_code
    BY <1>5, <2>2 DEF Numbers
  <2>4. new = u /\ \A i \in Numbers : i # index + 1 => intermediate_code'[i] = intermediate_code[i]
    BY <1>2, <1>5, <2>3
  <2>5. Len(intermediate_code') = Len(intermediate_code)
    <3>1. Len(intermediate_code) \in Nat /\ Len(intermediate_code') \in Nat
      BY <2>2
    <3>2. 1 .. Len(intermediate_code) = 1 .. Len(intermediate_code')
      BY <2>3 DEF Numbers
    <3> QED  BY <3>1, <3>2, SameNumbers
  <2> QED  BY <2>2, <2>3, <2>4, <2>5
<1>7. u.line = unit.line /\ u.op = unit.op /\ u.label = unit.label
  <2> HIDE DEF unit, offset
  <2> QED  BY <1>3, <1>5 DEF Unit
<1>8. /\ u.done => \/ IsData(unit.label)
                   \/ IsText(unit.label) /\ u.imm = offset
                   \/ u = unit
      /\ ~u.done => errors'
  <2> HIDE DEF unit, offset
  <2> QED  BY <1>3, <1>5 DEF Unit
<1>9. \A i \in Numbers : /\ intermediate_code'[i].line = intermediate_code[i].line
                         /\ intermediate_code'[i].op = intermediate_code[i].op
                         /\ intermediate_code'[i].label = intermediate_code[i].label
  BY <1>6, <1>7
<1>10. Nothing' /\ Behind'
  BY <1>1 DEF Nothing, Behind
<1>11. Counted' /\ Ordered'
  BY <1>1, <1>6, <1>9 DEF LInv, Counted, Ordered
<1>12. Addressed'
  BY <1>1, <1>6, <1>9 DEF LInv, Addressed, StandsAfter, IsText, Known
<1>13. Linked'
  <2> SUFFICES ASSUME NEW i \in Numbers, intermediate_code[i].op \in Jumps
               PROVE  /\ intermediate_code[i].label \in Names
                      /\ intermediate_code'[i].done =>
                           \/ IsData(intermediate_code[i].label)
                           \/ /\ IsText(intermediate_code[i].label)
                              /\ 4 * (i - 1) + intermediate_code'[i].imm =
                                   symbol_table[intermediate_code[i].label].address
    BY <1>1, <1>6, <1>9 DEF Linked, IsData, IsText, Known
  <2>1. CASE i # index + 1
    BY <1>6, <2>1 DEF LInv, Linked
  <2>2. CASE i = index + 1
    <3>1. i - 1 = index
      BY <1>2, <2>2
    <3>2. CASE u = unit
      BY <1>6, <2>2, <3>2 DEF LInv, Linked
    <3> QED  BY <1>3, <1>4, <1>6, <1>8, <2>2, <3>1, <3>2
  <2> QED  BY <2>1, <2>2
<1>14. Patchable'
  BY <1>1, <1>6, <1>9 DEF LInv, Patchable
<1>15. Pending'
  <2> SUFFICES ASSUME NEW i \in Numbers, ~intermediate_code'[i].done
               PROVE  \E k \in 1 .. Len(back_patch) :
                        back_patch[k] = i - 1 /\ (errors' \/ k >= pos + 1)
    BY <1>1, <1>6 DEF Pending, Accepted
  <2>1. CASE i # index + 1
    <3>1. ~intermediate_code[i].done
      BY <1>6, <2>1
    <3>2. PICK k \in 1 .. Len(back_patch) : back_patch[k] = i - 1 /\ (errors \/ k >= pos)
      BY <1>1, <3>1 DEF LInv, Pending
    <3>3. k # pos
      BY <1>2, <2>1, <3>2 DEF Numbers
    <3>4. errors => errors'
      BY DEF Patch
    <3> QED  BY <1>2, <3>2, <3>3, <3>4
  <2>2. CASE i = index + 1
    <3>1. errors'
      BY <1>6, <1>8, <2>2
    <3>2. back_patch[pos] = i - 1
      BY <1>2, <2>2
    <3> QED  BY <1>2, <3>1, <3>2
  <2> QED  BY <2>1, <2>2
<1>16. TypeOK'
  BY TypePatch DEF LInv
<1> QED  BY <1>10, <1>11, <1>12, <1>13, <1>14, <1>15, <1>16 DEF LInv

LEMMA LInit ==
  ASSUME Init
  PROVE  LInv
<1>1. TypeOK
  <2>1. source \in Seq(Items)
    BY ProgramAssumption DEF Init
  <2>2. symbol_table \in [Names -> Symbol]
    BY DEF Init, Symbol, Unknown
  <2>3. line_map \in [1 .. Len(source) -> Nat \cup {-1}]
    BY DEF Init
  <2>4. /\ data_buffer \in Seq(Value) /\ intermediate_code \in Seq(Unit)
        /\ back_patch \in Seq(Nat) /\ memory \subseteq [value : Value, address : Nat]
    BY DEF Init
  <2>5. /\ phase \in {"first", "second", "patch", "lines", "load", "ready", "failed"}
        /\ section \in {"none", "data", "bss", "text", "skip"}
        /\ pos \in Nat \ {0} /\ data_index \in Nat /\ instruction_index \in Nat
        /\ prev_line \in Nat /\ data_counter \in Nat
    <3>1. phase = "first" /\ section = "none"
      BY DEF Init
    <3>2. pos = 1 /\ data_index = 0 /\ instruction_index = 0 /\ prev_line = 1 /\ data_counter = 0
      BY DEF Init
    <3> QED  BY <3>1, <3>2
  <2>6. errors \in BOOLEAN
    BY Zenon DEF Init
  <2> QED  BY <2>1, <2>2, <2>3, <2>4, <2>5, <2>6 DEF TypeOK
<1>2. \A n \in Names : ~IsText(n)
  BY DEF Init, IsText, Known
<1>3. /\ intermediate_code = << >> /\ back_patch = << >> /\ instruction_index = 0
      /\ phase = "first"
  BY DEF Init
<1>4. Numbers = {}
  BY <1>3 DEF Numbers
<1>5. Nothing /\ Counted /\ Ordered /\ Behind /\ Patchable /\ Pending
  BY <1>2, <1>3, <1>4 DEF Nothing, Counted, Ordered, Behind, Patchable, Pending
<1>6. Addressed /\ Linked
  BY <1>2, <1>4 DEF Addressed, Linked
<1> QED  BY <1>1, <1>5, <1>6 DEF LInv

LEMMA LNext ==
  ASSUME LInv, [Next]_vars
  PROVE  LInv'
<1>1. TypeOK'
  BY TypeNext
<1>2. CASE First
  BY <1>2, LFirst
<1>3. CASE Second
  BY <1>3, LSecond
<1>4. CASE Patch
  BY <1>4, LPatch
<1>5. CASE Conclude
  <2>1. /\ phase = "patch" /\ pos > Len(back_patch)
        /\ phase' = IF errors THEN "failed" ELSE "lines"
        /\ UNCHANGED <<code, symbol_table>>
    BY <1>5 DEF Conclude, symbols
  <2>2. Nothing' /\ Behind'
    BY <2>1 DEF Nothing, Behind
  <2>3. ~errors => \A i \in Numbers : intermediate_code[i].done
    BY <2>1 DEF LInv, Pending, TypeOK
  <2>4. Pending'
    BY <2>1, <2>3 DEF Pending, Numbers, Accepted, code
  <2> QED  BY <1>1, <2>1, <2>2, <2>4, Frame DEF LInv
<1>6. CASE MapLines \/ EndLines \/ LoadData \/ EndLoad
  <2>1. /\ UNCHANGED <<code, symbol_table>>
        /\ Accepted /\ Accepted'
    BY <1>6 DEF MapLines, EndLines, LoadData, EndLoad, symbols, Accepted
  <2>2. Nothing' /\ Behind'
    BY <2>1 DEF Nothing, Behind, Accepted
  <2>3. Pending'
    BY <2>1 DEF LInv, Pending, Numbers, Accepted, code
  <2> QED  BY <1>1, <2>1, <2>2, <2>3, Frame DEF LInv
<1>7. CASE UNCHANGED vars
  <2>1. UNCHANGED <<phase, pos, errors, code, symbol_table>>
    BY <1>7 DEF vars, symbols
  <2>2. Nothing' /\ Behind' /\ Pending'
    BY <2>1 DEF LInv, Nothing, Behind, Pending, Numbers, Accepted, IsText, Known, code
  <2> QED  BY <1>1, <2>1, <2>2, Frame DEF LInv
<1> QED  BY <1>2, <1>3, <1>4, <1>5, <1>6, <1>7 DEF Next

LEMMA LabelsInvariant == Spec => []LInv
<1>1. Init => LInv
  BY LInit
<1>2. LInv /\ [Next]_vars => LInv'
  BY LNext
<1> QED  BY <1>1, <1>2, PTL DEF Spec

(* Every variable of the assembler keeps to its type, whatever the source. *)
THEOREM AssemblerTypeOK == Spec => []TypeOK
<1>1. LInv => TypeOK
  BY DEF LInv
<1> QED  BY <1>1, LabelsInvariant, PTL

(* In a source of any length that the assembler accepts, each branch and   *)
(* jump to a label in the text, resolved at once or by back-patching,      *)
(* leads to the first instruction that the lines after the label made.     *)
THEOREM AssemblerLabelsLead == Spec => []LabelsLead
<1>1. LInv => LabelsLead
  <2> SUFFICES ASSUME LInv, Accepted, NEW i \in Numbers,
                      intermediate_code[i].op \in Jumps,
                      ~IsData(intermediate_code[i].label)
               PROVE  /\ intermediate_code[i].done
                      /\ IsText(intermediate_code[i].label)
                      /\ \E t \in 0 .. Len(intermediate_code) :
                           /\ 4 * (i - 1) + intermediate_code[i].imm = 4 * t
                           /\ StandsAfter(intermediate_code[i].label, t)
    BY DEF LabelsLead, Jumps
  <2>1. intermediate_code[i].done
    BY DEF LInv, Pending
  <2>2. /\ intermediate_code[i].label \in Names
        /\ IsText(intermediate_code[i].label)
        /\ 4 * (i - 1) + intermediate_code[i].imm =
             symbol_table[intermediate_code[i].label].address
    BY <2>1 DEF LInv, Linked
  <2> QED  BY <2>1, <2>2 DEF LInv, Addressed
<1> QED  BY <1>1, LabelsInvariant, PTL

----------------------------------------------------------------------------
(* The map from lines to instructions.                                     *)

LEMMA LineTypes ==
  ASSUME LInv
  PROVE  /\ \A j \in Numbers : intermediate_code[j].line \in Nat \ {0}
         /\ \A i, j \in Numbers : i =< j => intermediate_code[i].line =< intermediate_code[j].line
         /\ DOMAIN line_map = 1 .. Len(source)
         /\ \A l \in DOMAIN line_map : l \in Nat \ {0} /\ line_map[l] \in Nat \cup {-1}
<1>1. TypeOK /\ Ordered
  BY DEF LInv
<1>2. \A j \in Numbers : intermediate_code[j].line \in Nat \ {0}
  <2> SUFFICES ASSUME NEW j \in Numbers PROVE intermediate_code[j].line \in Nat \ {0}
    OBVIOUS
  <2>1. intermediate_code[j] \in Unit
    BY <1>1 DEF TypeOK, Numbers
  <2> QED  BY <2>1 DEF Unit
<1>3. \A i, j \in Numbers : i =< j => intermediate_code[i].line =< intermediate_code[j].line
  <2> SUFFICES ASSUME NEW i \in Numbers, NEW j \in Numbers, i =< j
               PROVE  intermediate_code[i].line =< intermediate_code[j].line
    OBVIOUS
  <2>1. CASE i < j
    BY <1>1, <2>1 DEF Ordered
  <2>2. CASE i = j
    BY <1>2, <2>2
  <2> QED  BY <2>1, <2>2 DEF Numbers
<1>4. DOMAIN line_map = 1 .. Len(source) /\ Len(source) \in Nat
  BY <1>1 DEF TypeOK
<1>5. \A l \in DOMAIN line_map : line_map[l] \in Nat \cup {-1}
  BY <1>1 DEF TypeOK
<1> QED  BY <1>2, <1>3, <1>4, <1>5

LEMMA BMapLines ==
  ASSUME BInv, MapLines
  PROVE  Mapped'
<1> DEFINE line == intermediate_code[pos].line
<1>1. /\ phase = "lines" /\ phase' = "lines" /\ pos' = pos + 1
      /\ pos \in Numbers /\ Len(intermediate_code) \in Nat
      /\ prev_line' = line + 1
      /\ line_map' = LinesTo(prev_line, line, pos - 1)
      /\ UNCHANGED intermediate_code
  BY DEF MapLines, BInv, LInv, TypeOK, Numbers, code
<1>2. /\ \A j \in Numbers : intermediate_code[j].line \in Nat \ {0}
      /\ \A i, j \in Numbers : i =< j => intermediate_code[i].line =< intermediate_code[j].line
      /\ \A l \in DOMAIN line_map : l \in Nat \ {0} /\ line_map[l] \in Nat \cup {-1}
  BY LineTypes DEF BInv
<1>3. /\ prev_line = IF pos = 1 THEN 1 ELSE intermediate_code[pos - 1].line + 1
      /\ \A l \in DOMAIN line_map :
           /\ line_map[l] # -1 <=> l < prev_line
           /\ line_map[l] # -1 =>
                /\ line_map[l] < pos - 1
                /\ \A j \in Numbers : j =< line_map[l] <=> intermediate_code[j].line < l
  BY <1>1 DEF BInv, Mapped, Numbers
<1>4. pos \in Nat \ {0} /\ Numbers = 1 .. Len(intermediate_code)
  BY <1>1 DEF Numbers
<1>5. line \in Nat \ {0}
  BY <1>1, <1>2
<1>6. prev_line \in Nat /\ prev_line =< line + 1
  <2>1. CASE pos = 1
    BY <1>3, <1>5, <2>1
  <2>2. CASE pos # 1
    <3>1. pos - 1 \in Numbers /\ pos - 1 =< pos
      BY <1>1, <1>4, <2>2
    <3>2. intermediate_code[pos - 1].line =< line /\ intermediate_code[pos - 1].line \in Nat
      BY <1>1, <1>2, <3>1
    <3> QED  BY <1>3, <1>5, <2>2, <3>2
  <2> QED  BY <2>1, <2>2
<1>7. \A j \in Numbers : j =< pos - 1 => intermediate_code[j].line < prev_line
  <2> SUFFICES ASSUME NEW j \in Numbers, j =< pos - 1
               PROVE  intermediate_code[j].line < prev_line
    OBVIOUS
  <2>1. pos - 1 \in Numbers /\ pos # 1
    BY <1>1, <1>4
  <2>2. /\ intermediate_code[j].line =< intermediate_code[pos - 1].line
        /\ intermediate_code[j].line \in Nat /\ intermediate_code[pos - 1].line \in Nat
    BY <1>2, <2>1
  <2> QED  BY <1>3, <2>1, <2>2
<1>8. \A j \in Numbers : ~(j =< pos - 1) => line =< intermediate_code[j].line
  BY <1>1, <1>2, <1>4
<1> HIDE DEF line
<1>9. ASSUME NEW l \in DOMAIN line_map
      PROVE  /\ line_map'[l] # -1 <=> l < line + 1
             /\ line_map'[l] # -1 =>
                  /\ line_map'[l] < pos
                  /\ \A j \in Numbers : j =< line_map'[l] <=> intermediate_code[j].line < l
  <2>1. l \in Nat /\ line_map[l] \in Nat \cup {-1}
    BY <1>2
  <2>2. CASE prev_line =< l /\ l =< line
    <3>1. line_map'[l] = pos - 1
      BY <1>1, <2>2 DEF LinesTo
    <3>2. \A j \in Numbers : j =< pos - 1 <=> intermediate_code[j].line < l
      <4> SUFFICES ASSUME NEW j \in Numbers
                   PROVE  j =< pos - 1 <=> intermediate_code[j].line < l
        OBVIOUS
      <4>1. intermediate_code[j].line \in Nat
        BY <1>2
      <4>2. CASE j =< pos - 1
        BY <1>6, <1>7, <2>1, <2>2, <4>1, <4>2
      <4>3. CASE ~(j =< pos - 1)
        BY <1>5, <1>8, <2>1, <2>2, <4>1, <4>3
      <4> QED  BY <4>2, <4>3
    <3> QED  BY <1>4, <1>5, <2>1, <2>2, <3>1, <3>2
  <2>3. CASE ~(prev_line =< l /\ l =< line)
    <3>1. line_map'[l] = line_map[l]
      BY <1>1, <2>3 DEF LinesTo
    <3>2. l < prev_line <=> l < line + 1
      BY <1>5, <1>6, <2>1, <2>3
    <3>3. line_map[l] # -1 => line_map[l] < pos
      BY <1>3, <1>4, <2>1
    <3> QED  BY <1>3, <3>1, <3>2, <3>3
  <2> QED  BY <2>2, <2>3
<1>10. DOMAIN line_map' = DOMAIN line_map
  BY <1>1 DEF LinesTo
<1>11. pos # 0 /\ pos + 1 - 1 = pos /\ pos =< Len(intermediate_code)
  BY <1>1, <1>4
<1> QED  BY <1>1, <1>9, <1>10, <1>11 DEF Mapped, Numbers, line

LEMMA BNext ==
  ASSUME BInv, [Next]_vars
  PROVE  BInv'
<1>1. LInv'
  BY LNext DEF BInv
<1>2. CASE First \/ Second \/ Patch
  <2>1. /\ phase \notin {"lines", "load", "ready"}
        /\ phase' \notin {"lines", "load", "ready"}
        /\ UNCHANGED <<line_map, prev_line>>
    BY <1>2 DEF First, EndFirst, Second, EndSecond, Patch, results
  <2> QED  BY <1>1, <2>1 DEF BInv, Mapped, Unmapped
<1>3. CASE Conclude
  <2>1. /\ phase = "patch" /\ phase' \in {"failed", "lines"} /\ pos' = 1
        /\ UNCHANGED <<line_map, prev_line, intermediate_code>>
    BY <1>3 DEF Conclude, results, code
  <2>2. prev_line = 1 /\ \A l \in DOMAIN line_map : line_map[l] = -1
    BY <2>1 DEF BInv, Unmapped
  <2>3. \A l \in DOMAIN line_map : l \in Nat \ {0}
    BY LineTypes DEF BInv
  <2>4. Len(intermediate_code) \in Nat
    BY DEF BInv, LInv, TypeOK
  <2> QED  BY <1>1, <2>1, <2>2, <2>3, <2>4 DEF BInv, Mapped, Unmapped
<1>4. CASE MapLines
  <2>1. phase' = "lines"
    BY <1>4 DEF MapLines
  <2> QED  BY <1>1, <1>4, <2>1, BMapLines DEF BInv, Unmapped
<1>5. CASE EndLines
  <2>1. /\ phase = "lines" /\ phase' = "load" /\ pos > Len(intermediate_code)
        /\ UNCHANGED <<line_map, prev_line, intermediate_code>>
    BY <1>5 DEF EndLines, results, code
  <2>2. pos - 1 =< Len(intermediate_code)
    BY <2>1 DEF BInv, Mapped
  <2>3. pos - 1 = Len(intermediate_code)
    BY <2>1, <2>2 DEF BInv, LInv, TypeOK
  <2> QED  BY <1>1, <2>1, <2>3 DEF BInv, Mapped, Unmapped, Numbers
<1>6. CASE LoadData \/ EndLoad
  <2>1. /\ phase = "load" /\ phase' \in {"load", "ready"}
        /\ UNCHANGED <<line_map, prev_line, intermediate_code>>
    BY <1>6 DEF LoadData, EndLoad, results, code
  <2> QED  BY <1>1, <2>1 DEF BInv, Mapped, Unmapped, Numbers
<1>7. CASE UNCHANGED vars
  BY <1>1, <1>7 DEF vars, code, results, BInv, Mapped, Unmapped, Numbers
<1> QED  BY <1>2, <1>3, <1>4, <1>5, <1>6, <1>7 DEF Next

(* A line with a breakpoint number has that of the first instruction that  *)
(* the line or a later one made, also where a line made two; the lines     *)
(* without one come after all the instructions.                            *)
THEOREM AssemblerBreakpointLines == Spec => []BreakpointLines
<1>1. Init => BInv
  <2> SUFFICES ASSUME Init PROVE BInv
    OBVIOUS
  <2>1. LInv
    BY LInit
  <2>2. phase = "first" /\ prev_line = 1 /\ line_map = [l \in 1 .. Len(source) |-> -1]
    BY DEF Init
  <2> QED  BY <2>1, <2>2 DEF BInv, Mapped, Unmapped
<1>2. BInv /\ [Next]_vars => BInv'
  BY BNext
<1>3. BInv => BreakpointLines
  <2> SUFFICES ASSUME BInv, phase \in {"load", "ready"}, NEW l \in DOMAIN line_map
               PROVE  LET number == IF line_map[l] = -1 THEN Len(intermediate_code)
                                                        ELSE line_map[l]
                      IN  /\ line_map[l] # -1 => number < Len(intermediate_code)
                          /\ \A j \in Numbers :
                               j =< number <=> intermediate_code[j].line < l
    BY DEF BreakpointLines
  <2> DEFINE last == Len(intermediate_code)
  <2>1. /\ \A j \in Numbers : intermediate_code[j].line \in Nat \ {0}
        /\ \A i, j \in Numbers : i =< j => intermediate_code[i].line =< intermediate_code[j].line
        /\ l \in Nat \ {0}
    BY LineTypes DEF BInv
  <2>2. last \in Nat /\ Numbers = 1 .. last
    BY DEF BInv, LInv, TypeOK, Numbers
  <2>3. /\ prev_line = IF last = 0 THEN 1 ELSE intermediate_code[last].line + 1
        /\ line_map[l] # -1 <=> l < prev_line
        /\ line_map[l] # -1 =>
             /\ line_map[l] < last
             /\ \A j \in Numbers : j =< line_map[l] <=> intermediate_code[j].line < l
    BY DEF BInv, Mapped
  <2>4. CASE line_map[l] # -1
    BY <2>3, <2>4
  <2>5. CASE line_map[l] = -1
    <3>1. ~(l < prev_line)
      BY <2>3, <2>5
    <3> SUFFICES ASSUME NEW j \in Numbers
                 PROVE  j =< last /\ intermediate_code[j].line < l
      BY <2>5
    <3>2. last # 0 /\ last \in Numbers /\ j =< last
      BY <2>2
    <3>3. intermediate_code[j].line =< intermediate_code[last].line
      BY <2>1, <3>2
    <3> HIDE DEF last
    <3>4. intermediate_code[j].line < l
      BY <2>1, <2>3, <3>1, <3>2, <3>3
    <3> QED  BY <3>2, <3>4
  <2> QED  BY <2>4, <2>5
<1> QED  BY <1>1, <1>2, <1>3, PTL DEF Spec


----------------------------------------------------------------------------
(* Wide operands.                                                          *)

Uppers == {"auipc", "lui"}

(* What WideOperands says of the i-th of the instructions c, which gets    *)
(* the given number; a label it needs is defined for good, and nothing on  *)
(* its line is a branch.                                                   *)
Adds(c, i, number) ==
  LET item == source[c[i].line]
      pair == i < Len(c) /\ c[i + 1].line = c[i].line
      low  == IF pair THEN c[i + 1].imm ELSE 0
      sum  == c[i].imm * Page + low
  IN  c[i].op \in Uppers =>
        /\ Fits(low, Page \div 2)
        /\ pair => c[i + 1].op \notin Jumps
        /\ item.value = "li" => sum = item.imm
        /\ item.value # "li" =>
             /\ item.label \in Names
             /\ Known(item.label)
             /\ 4 * (number - 1) + sum = DataStart + symbol_table[item.label].address

Wide == \A i \in Numbers : Adds(intermediate_code, i, i)

WInv == LInv /\ Wide

KeepsSymbols == \A n \in Names : Known(n) => symbol_table'[n] = symbol_table[n]

LEMMA WideFrame ==
  ASSUME Wide, UNCHANGED <<source, intermediate_code>>, KeepsSymbols
  PROVE  Wide'
<1> SUFFICES ASSUME NEW i \in Numbers PROVE Adds(intermediate_code, i, i)'
  BY DEF Wide, Numbers
<1>1. Adds(intermediate_code, i, i)
  BY DEF Wide
<1> QED  BY <1>1 DEF Adds, Known, KeepsSymbols

(* Instructions of the line at hand, which is behind all others, do not    *)
(* pair with those before.                                                 *)
LEMMA WideEmit ==
  ASSUME WInv, phase = "second", NEW units \in Seq(Unit), Emit(units),
         UNCHANGED <<source, symbol_table>>,
         \A u \in 1 .. Len(units) :
           units[u].line = pos /\ Adds(units, u, Len(intermediate_code) + u)
  PROVE  Wide'
<1> DEFINE old == Len(intermediate_code)
<1>1. /\ intermediate_code \in Seq(Unit) /\ old \in Nat /\ Len(units) \in Nat /\ pos \in Nat
  BY DEF WInv, LInv, TypeOK
<1>2. /\ Len(intermediate_code') = old + Len(units)
      /\ \A i \in 1 .. old : intermediate_code'[i] = intermediate_code[i]
      /\ \A i \in 1 .. old + Len(units) : i > old =>
           /\ i - old \in 1 .. Len(units)
           /\ intermediate_code'[i] = units[i - old]
  BY <1>1, Concat DEF Emit
<1>3. \A i \in 1 .. old : intermediate_code[i].line \in Nat /\ intermediate_code[i].line < pos
  <2> SUFFICES ASSUME NEW i \in 1 .. old
               PROVE  intermediate_code[i].line \in Nat /\ intermediate_code[i].line < pos
    OBVIOUS
  <2>1. intermediate_code[i] \in Unit
    BY <1>1
  <2> QED  BY <2>1 DEF Unit, WInv, LInv, Behind, Numbers
<1>4. Numbers' = 1 .. old + Len(units) /\ Numbers = 1 .. old
  BY <1>2 DEF Numbers
<1> HIDE DEF old
<1> SUFFICES ASSUME NEW i \in 1 .. old + Len(units) PROVE Adds(intermediate_code, i, i)'
  BY <1>4 DEF Wide
<1>5. CASE i \in 1 .. old
  <2>1. Adds(intermediate_code, i, i)
    BY <1>4, <1>5 DEF WInv, Wide
  <2>2. intermediate_code'[i] = intermediate_code[i]
    BY <1>2, <1>5
  <2>3. CASE i < old
    <3>1. i + 1 \in 1 .. old /\ i < old + Len(units) /\ i < Len(intermediate_code)
      BY <1>1, <1>5, <2>3 DEF old
    <3>2. intermediate_code'[i + 1] = intermediate_code[i + 1]
      BY <1>2, <3>1
    <3> QED  BY <1>2, <2>1, <2>2, <3>1, <3>2 DEF Adds, Known
  <2>4. CASE i = old
    <3>1. ~(i < Len(intermediate_code))
      BY <1>1, <2>4 DEF old
    <3>2. ~(i < Len(intermediate_code') /\ intermediate_code'[i + 1].line = intermediate_code[i].line)
      <4> SUFFICES ASSUME i < old + Len(units)
                   PROVE  intermediate_code'[i + 1].line # intermediate_code[i].line
        BY <1>2
      <4>1. i + 1 \in 1 .. old + Len(units) /\ i + 1 > old
        BY <1>1, <1>5, <2>4
      <4>2. intermediate_code'[i + 1].line = pos
        BY <1>2, <4>1
      <4>3. intermediate_code[i].line \in Nat /\ intermediate_code[i].line < pos
        BY <1>3, <1>5
      <4> QED  BY <1>1, <4>2, <4>3
    <3> QED  BY <2>1, <2>2, <3>1, <3>2 DEF Adds, Known
  <2> QED  BY <1>1, <1>5, <2>3, <2>4
<1>6. CASE i \notin 1 .. old
  <2>1. i > old /\ i - old \in 1 .. Len(units) /\ intermediate_code'[i] = units[i - old]
    BY <1>1, <1>2, <1>6
  <2> DEFINE u == i - old
  <2>2. u \in 1 .. Len(units) /\ old + u = i /\ intermediate_code'[i] = units[u]
    BY <1>1, <2>1
  <2>3. Adds(units, u, i)
    BY <2>2 DEF old
  <2>4. i < Len(intermediate_code') <=> u < Len(units)
    BY <1>1, <1>2, <2>2
  <2>5. u < Len(units) => intermediate_code'[i + 1] = units[u + 1]
    <3> SUFFICES ASSUME u < Len(units) PROVE intermediate_code'[i + 1] = units[u + 1]
      OBVIOUS
    <3>1. i + 1 \in 1 .. old + Len(units) /\ i + 1 > old /\ (i + 1) - old = u + 1
      BY <1>1, <2>2
    <3> QED  BY <1>2, <3>1
  <2> HIDE DEF u
  <2> QED  BY <2>2, <2>3, <2>4, <2>5 DEF Adds, Known
<1> QED  BY <1>5, <1>6

(* The instructions of one line.                                           *)
LEMMA WideOne ==
  ASSUME NEW u \in Unit, u.op \notin Uppers
  PROVE  /\ <<u>> \in Seq(Unit)
         /\ \A number : \A i \in 1 .. Len(<<u>>) : <<u>>[i] = u /\ Adds(<<u>>, i, number)
  BY OneUnit DEF Adds

LEMMA WideBranch ==
  ASSUME WInv, phase = "second", Branch, UNCHANGED <<source, symbol_table>>
  PROVE  Wide'
<1>1. ~AtEnd /\ Item.value \in Jumps /\ Item.label \in Names
  BY ItemType DEF Branch, Is, Sees, Jumps, WInv, LInv
<1> DEFINE offset == Distance(Item.label, instruction_index)
           later  == Make(Item.value, Item.label, 0, FALSE)
           now    == Make(Item.value, Item.label, offset, TRUE)
<1>2. offset \in Int
  BY <1>1, DistanceType DEF WInv, LInv, TypeOK
<1>3. Emit(<<later>>) \/ Emit(<<now>>) \/ UNCHANGED code
  BY DEF Branch, Reject
<1> HIDE DEF offset
<1>4. /\ later \in Unit /\ later.line = pos /\ later.op \notin Uppers
      /\ now \in Unit /\ now.line = pos /\ now.op \notin Uppers
  <2>1. later \in Unit
    BY <1>1 DEF Make, Unit, Jumps, WInv, LInv, TypeOK
  <2>2. now \in Unit
    BY <1>1, <1>2, MakeType DEF Jumps, WInv, LInv
  <2>3. later.line = pos /\ now.line = pos /\ later.op = Item.value /\ now.op = Item.value
    BY DEF Make
  <2> QED  BY <1>1, <2>1, <2>2, <2>3 DEF Jumps, Uppers
<1> HIDE DEF later, now
<1>5. CASE Emit(<<later>>)
  BY <1>4, <1>5, WideOne, WideEmit
<1>6. CASE Emit(<<now>>)
  BY <1>4, <1>6, WideOne, WideEmit
<1>7. CASE UNCHANGED code
  BY <1>7, WideFrame DEF WInv, code, KeepsSymbols
<1> QED  BY <1>3, <1>5, <1>6, <1>7

LEMMA WideReference ==
  ASSUME WInv, phase = "second", DataReference, UNCHANGED <<source, symbol_table>>
  PROVE  Wide'
<1>1. /\ ~AtEnd /\ Item.label \in Names /\ Item.value \in {"la", "lw"}
      /\ Item = source[pos]
  BY ItemType DEF DataReference, Is, Sees, WInv, LInv, Item
<1> DEFINE offset == DataStart + symbol_table[Item.label].address - 4 * instruction_index
           second == IF Item.value = "la" THEN "addi" ELSE "load"
           upper  == Make("auipc", Item.label, High(offset), TRUE)
           lower  == Make(second, Item.label, Low(offset), TRUE)
<1>2. /\ DataStart \in Nat /\ symbol_table[Item.label].address \in Nat
      /\ instruction_index \in Nat /\ instruction_index = Len(intermediate_code)
  <2>1. symbol_table[Item.label] \in Symbol
    BY <1>1 DEF WInv, LInv, TypeOK
  <2> QED  BY <2>1, ReachAssumption DEF Symbol, WInv, LInv, TypeOK, Counted
<1>3. offset \in Int /\ 4 * instruction_index + offset = DataStart + symbol_table[Item.label].address
  BY <1>2
<1>4. CASE IsData(Item.label) /\ Emit(<<upper, lower>>)
  <2>1. /\ High(offset) \in Int /\ Low(offset) \in Int
        /\ offset = High(offset) * Page + Low(offset) /\ Fits(Low(offset), Page \div 2)
    <3> HIDE DEF offset
    <3> QED  BY <1>3, HighLow
  <2>2. /\ upper \in Unit /\ upper.line = pos /\ upper.op = "auipc" /\ upper.imm = High(offset)
        /\ lower \in Unit /\ lower.line = pos /\ lower.op \in {"addi", "load"}
        /\ lower.imm = Low(offset)
    <3> HIDE DEF offset
    <3> QED  BY <1>1, <2>1, MakeType DEF Make, WInv, LInv
  <2> HIDE DEF upper, lower, offset
  <2> DEFINE units == <<upper, lower>>
  <2>3. units \in Seq(Unit) /\ Len(units) = 2 /\ units[1] = upper /\ units[2] = lower
    BY <2>2, TwoUnits
  <2> HIDE DEF units
  <2>4. Known(Item.label)
    BY <1>4 DEF IsData
  <2>5. 4 * ((Len(intermediate_code) + 1) - 1) + (High(offset) * Page + Low(offset))
          = DataStart + symbol_table[Item.label].address
    BY <1>2, <1>3, <2>1
  <2>6. Adds(units, 1, Len(intermediate_code) + 1)
    BY <1>1, <2>1, <2>2, <2>3, <2>4, <2>5 DEF Adds, Jumps
  <2>7. Adds(units, 2, Len(intermediate_code) + 2)
    BY <2>2, <2>3 DEF Adds, Uppers
  <2>8. \A u \in 1 .. Len(units) : u = 1 \/ u = 2
    BY <2>3
  <2>9. \A u \in 1 .. Len(units) :
          units[u].line = pos /\ Adds(units, u, Len(intermediate_code) + u)
    BY <2>2, <2>3, <2>6, <2>7, <2>8
  <2>10. Emit(units)
    BY <1>4 DEF units
  <2> QED  BY <2>3, <2>9, <2>10, WideEmit
<1>5. CASE UNCHANGED code
  BY <1>5, WideFrame DEF WInv, code, KeepsSymbols
<1> QED  BY <1>4, <1>5 DEF DataReference, Reject

LEMMA WideLoadImmediate ==
  ASSUME WInv, phase = "second", LoadImmediate, UNCHANGED <<source, symbol_table>>
  PROVE  Wide'
<1>1. /\ ~AtEnd /\ Item.imm \in Int /\ Item.value = "li" /\ Item = source[pos]
  BY ItemType DEF LoadImmediate, Is, Sees, WInv, LInv, Item
<1> DEFINE imm == Item.imm
           upper == Make("lui", NoLabel, High(imm), TRUE)
           lower == Make("addi", NoLabel, Low(imm), TRUE)
           only  == Make("addi", NoLabel, imm, TRUE)
<1>2. /\ High(imm) \in Int /\ Low(imm) \in Int
      /\ imm = High(imm) * Page + Low(imm) /\ Fits(Low(imm), Page \div 2)
  BY <1>1, HighLow
<1>3. /\ upper \in Unit /\ upper.line = pos /\ upper.op = "lui" /\ upper.imm = High(imm)
      /\ lower \in Unit /\ lower.line = pos /\ lower.op = "addi" /\ lower.imm = Low(imm)
      /\ only \in Unit /\ only.line = pos /\ only.op = "addi"
  BY <1>1, <1>2, MakeType DEF Make, WInv, LInv
<1>4. \/ Emit(<<only>>)
      \/ Low(imm) # 0 /\ Emit(<<upper, lower>>)
      \/ Low(imm) = 0 /\ Emit(<<upper>>)
      \/ UNCHANGED code
  BY DEF LoadImmediate, Reject
<1> HIDE DEF upper, lower, only
<1>5. CASE Emit(<<only>>)
  BY <1>3, <1>5, WideOne, WideEmit DEF Uppers
<1>6. CASE Low(imm) # 0 /\ Emit(<<upper, lower>>)
  <2> DEFINE units == <<upper, lower>>
  <2>1. units \in Seq(Unit) /\ Len(units) = 2 /\ units[1] = upper /\ units[2] = lower
    BY <1>3, TwoUnits
  <2>2. Emit(units)
    BY <1>6
  <2> HIDE DEF units
  <2>3. Adds(units, 1, Len(intermediate_code) + 1)
    BY <1>1, <1>2, <1>3, <2>1 DEF Adds, Jumps
  <2>4. Adds(units, 2, Len(intermediate_code) + 2)
    BY <1>3, <2>1 DEF Adds, Uppers
  <2>5. \A u \in 1 .. Len(units) : u = 1 \/ u = 2
    BY <2>1
  <2>6. \A u \in 1 .. Len(units) :
          units[u].line = pos /\ Adds(units, u, Len(intermediate_code) + u)
    BY <1>3, <2>1, <2>3, <2>4, <2>5
  <2> QED  BY <2>1, <2>2, <2>6, WideEmit
<1>7. CASE Low(imm) = 0 /\ Emit(<<upper>>)
  <2> DEFINE units == <<upper>>
  <2>1. units \in Seq(Unit) /\ Len(units) = 1 /\ units[1] = upper
    BY <1>3, OneUnit
  <2>2. Emit(units)
    BY <1>7
  <2> HIDE DEF units
  <2>3. High(imm) * Page + 0 = imm
    BY <1>1, <1>2, <1>7, PageAssumption
  <2>4. Adds(units, 1, Len(intermediate_code) + 1)
    BY <1>1, <1>2, <1>3, <1>7, <2>1, <2>3 DEF Adds
  <2>5. \A u \in 1 .. Len(units) :
          units[u].line = pos /\ Adds(units, u, Len(intermediate_code) + u)
    BY <1>3, <2>1, <2>4
  <2> QED  BY <2>1, <2>2, <2>5, WideEmit
<1>8. CASE UNCHANGED code
  BY <1>8, WideFrame DEF WInv, code, KeepsSymbols
<1> QED  BY <1>4, <1>5, <1>6, <1>7, <1>8

LEMMA WidePlain ==
  ASSUME WInv, phase = "second", Plain, UNCHANGED <<source, symbol_table>>
  PROVE  Wide'
<1> DEFINE unit == Make("plain", NoLabel, 0, TRUE)
<1>1. unit \in Unit /\ unit.line = pos /\ unit.op \notin Uppers
  BY DEF Make, Unit, Uppers, WInv, LInv, TypeOK
<1>2. CASE Emit(<<unit>>)
  <2> HIDE DEF unit
  <2> QED  BY <1>1, <1>2, WideOne, WideEmit
<1>3. CASE UNCHANGED code
  BY <1>3, WideFrame DEF WInv, code, KeepsSymbols
<1> QED  BY <1>2, <1>3 DEF Plain, Reject

(* Back-patching changes branches and jumps only, and none of these is on  *)
(* the line of a wide operand.                                             *)
LEMMA WidePatch ==
  ASSUME WInv, Patch
  PROVE  Wide'
<1> DEFINE index == back_patch[pos]
<1>1. index + 1 \in Numbers /\ intermediate_code[index + 1].op \in Jumps
  <2>1. pos \in 1 .. Len(back_patch)
    BY DEF Patch, WInv, LInv, TypeOK
  <2> QED  BY <2>1 DEF WInv, LInv, Patchable
<1>2. UNCHANGED <<source, symbol_table>>
  BY DEF Patch, symbols
<1>3. /\ Len(intermediate_code') = Len(intermediate_code)
      /\ \A i \in Numbers : i # index + 1 => intermediate_code'[i] = intermediate_code[i]
  BY DEF Patch, WInv, LInv, TypeOK, Numbers
<1>4. /\ intermediate_code'[index + 1].op = intermediate_code[index + 1].op
      /\ intermediate_code'[index + 1].line = intermediate_code[index + 1].line
  <2> DEFINE unit == intermediate_code[index + 1]
             offset == Distance(unit.label, index)
  <2>1. unit \in Unit
    BY <1>1 DEF WInv, LInv, TypeOK, Numbers
  <2>2. intermediate_code'[index + 1] \in
          {[unit EXCEPT !.imm = offset, !.done = TRUE], [unit EXCEPT !.done = TRUE], unit}
    BY <1>1 DEF Patch, WInv, LInv, TypeOK, Numbers
  <2> HIDE DEF unit, offset
  <2>3. intermediate_code'[index + 1].op = unit.op /\ intermediate_code'[index + 1].line = unit.line
    BY <2>1, <2>2 DEF Unit
  <2> QED  BY <2>3 DEF unit
<1> HIDE DEF index
<1>5. Numbers' = Numbers
  BY <1>3 DEF Numbers
<1> SUFFICES ASSUME NEW i \in Numbers PROVE Adds(intermediate_code, i, i)'
  BY <1>5 DEF Wide
<1>6. Adds(intermediate_code, i, i)
  BY DEF WInv, Wide
<1>7. CASE i = index + 1
  BY <1>1, <1>4, <1>7 DEF Adds, Jumps, Uppers
<1>8. CASE i # index + 1
  <2>1. intermediate_code'[i] = intermediate_code[i]
    BY <1>3, <1>8
  <2>2. CASE intermediate_code[i].op \notin Uppers
    BY <2>1, <2>2 DEF Adds
  <2>3. CASE /\ intermediate_code[i].op \in Uppers
             /\ ~(i < Len(intermediate_code) /\ intermediate_code[i + 1].line = intermediate_code[i].line)
    <3>1. ~(i < Len(intermediate_code') /\ intermediate_code'[i + 1].line = intermediate_code'[i].line)
      <4>1. i < Len(intermediate_code) => i + 1 \in Numbers
        BY DEF Numbers, WInv, LInv, TypeOK
      <4>2. i < Len(intermediate_code) => intermediate_code'[i + 1].line = intermediate_code[i + 1].line
        BY <1>3, <1>4, <4>1
      <4> QED  BY <1>3, <2>1, <2>3, <4>2
    <3> QED  BY <1>2, <1>6, <2>1, <2>3, <3>1 DEF Adds, Known
  <2>4. CASE /\ intermediate_code[i].op \in Uppers
             /\ i < Len(intermediate_code) /\ intermediate_code[i + 1].line = intermediate_code[i].line
    <3>1. i + 1 \in Numbers
      BY <2>4 DEF Numbers, WInv, LInv, TypeOK
    <3>2. intermediate_code[i + 1].op \notin Jumps
      BY <1>6, <2>4 DEF Adds
    <3>3. intermediate_code'[i + 1] = intermediate_code[i + 1]
      BY <1>1, <1>3, <3>1, <3>2
    <3> QED  BY <1>2, <1>3, <1>6, <2>1, <2>4, <3>3 DEF Adds, Known
  <2> QED  BY <2>2, <2>3, <2>4
<1> QED  BY <1>7, <1>8

LEMMA WideNext ==
  ASSUME WInv, [Next]_vars
  PROVE  WInv'
<1>1. LInv'
  BY LNext DEF WInv
<1>2. CASE First
  <2>1. intermediate_code' = << >>
    BY <1>2 DEF First, EndFirst, code, WInv, LInv, Nothing
  <2> QED  BY <1>1, <2>1 DEF WInv, Wide, Numbers
<1>3. CASE Second
  <2>1. CASE TextLabel
    <3>1. KeepsSymbols
      <4>1. ~AtEnd /\ Item.value \in Names
        BY <2>1, ItemType DEF TextLabel, WInv, LInv
      <4> QED  BY <2>1, <4>1 DEF TextLabel, Define, WInv, LInv, TypeOK, KeepsSymbols
    <3>2. UNCHANGED <<source, intermediate_code>>
      BY <1>3, <2>1 DEF Second, TextLabel, EndSecond, code
    <3> QED  BY <1>1, <3>1, <3>2, WideFrame DEF WInv
  <2>2. CASE Instruction
    <3>1. UNCHANGED <<source, symbol_table>> /\ phase = "second"
      BY <1>3, <2>2 DEF Second, Instruction, EndSecond
    <3>2. Wide'
      BY <2>2, <3>1, WideBranch, WideReference, WideLoadImmediate, WidePlain DEF Instruction
    <3> QED  BY <1>1, <3>2 DEF WInv
  <2>3. CASE SecondOuter \/ SkipToText \/ LeaveText \/ EndSecond
    <3>1. UNCHANGED <<source, intermediate_code, symbol_table>>
      BY <1>3, <2>3 DEF Second, SecondOuter, SkipToText, LeaveText, EndSecond, code, symbols
    <3> QED  BY <1>1, <3>1, WideFrame DEF WInv, KeepsSymbols
  <2> QED  BY <1>3, <2>1, <2>2, <2>3 DEF Second
<1>4. CASE Patch
  BY <1>1, <1>4, WidePatch DEF WInv
<1>5. CASE Conclude \/ MapLines \/ EndLines \/ LoadData \/ EndLoad \/ UNCHANGED vars
  <2>1. UNCHANGED <<source, intermediate_code, symbol_table>>
    BY <1>5 DEF Conclude, MapLines, EndLines, LoadData, EndLoad, vars, code, symbols
  <2> QED  BY <1>1, <2>1, WideFrame DEF WInv, KeepsSymbols
<1> QED  BY <1>2, <1>3, <1>4, <1>5 DEF Next

(* The two immediates of la, of a load from a label and of li add up to    *)
(* what was meant, for every address, number and distance.                 *)
THEOREM AssemblerWideOperands == Spec => []WideOperands
<1>1. Init => WInv
  <2>1. Init => intermediate_code = << >>
    BY DEF Init
  <2>2. Init => Numbers = {}
    BY <2>1 DEF Numbers
  <2> QED  BY <2>2, LInit DEF WInv, Wide
<1>2. WInv => WideOperands
  BY DEF WInv, Wide, Adds, WideOperands, Uppers
<1> QED  BY <1>1, <1>2, WideNext, PTL DEF Spec

----------------------------------------------------------------------------
(* The labels of the data section.                                         *)

(* Where the k-th value begins, if it needs no gap before it.              *)
Reached(place, k) == IF k = 1 THEN 0 ELSE place[k - 1] + data_buffer[k - 1].size

(* The values of data_buffer are at these places, from the first one on.   *)
Laid(place) ==
  /\ place \in [1 .. Len(data_buffer) -> Nat]
  /\ \A k \in 1 .. Len(data_buffer) : place[k] = Align(Reached(place, k), data_buffer[k].size)

(* A label is where the first value on the line after it is.               *)
Labelled(place) ==
  \A n \in Names, k \in 1 .. Len(data_buffer) :
    IsData(n) /\ data_buffer[k].line = symbol_table[n].line + 1 /\ data_buffer[k].nth = 1
      => symbol_table[n].address = place[k]

(* The parser counts as far, and in front of values it may have aligned    *)
(* its index already: for a label on the line before.                      *)
Reserved(place) ==
  LET end == Reached(place, Len(data_buffer) + 1)
  IN  phase = "first" =>
        /\ data_index = end \/ (section = "data" /\ Sees({"VALUES"}) /\ data_index = Align(end, Item.size))
        /\ \A k \in 1 .. Len(data_buffer) : data_buffer[k].line < pos
        /\ \A n \in Names : IsData(n) =>
             /\ symbol_table[n].line < pos
             /\ symbol_table[n].line = pos - 1 /\ Sees({"VALUES"})
                  => symbol_table[n].address = Align(end, Item.size)

(* LoadProgram puts them there.                                            *)
Placed(place) ==
  /\ phase \notin {"load", "ready"} => memory = {} /\ data_counter = 0
  /\ phase = "load" => pos =< Len(data_buffer) + 1 /\ data_counter = Reached(place, pos)
  /\ \A m \in memory : \E k \in 1 .. Len(data_buffer) :
       m = [value |-> data_buffer[k], address |-> DataStart + place[k]]

Layout(place) == Laid(place) /\ Labelled(place) /\ Reserved(place) /\ Placed(place)

DInv == OperandsGiven => \E place : Layout(place)

(* A run of values of one size has no gaps.                                *)
LEMMA AlignRun ==
  ASSUME NEW n \in Nat, NEW i \in Nat, NEW a \in {1, 2, 4, 8}
  PROVE  /\ Align(n, a) + i * a \in Nat
         /\ Align(Align(n, a) + i * a, a) = Align(n, a) + i * a
         /\ (Align(n, a) + i * a) + a = Align(n, a) + (i + 1) * a
<1>1. CASE a = 1
  BY <1>1 DEF Align
<1>2. CASE a = 2
  BY <1>2 DEF Align
<1>3. CASE a = 4
  BY <1>3 DEF Align
<1>4. CASE a = 8
  BY <1>4 DEF Align
<1> QED  BY <1>1, <1>2, <1>3, <1>4

LEMMA AlignTwice ==
  ASSUME NEW n \in Nat, NEW a \in {1, 2, 4, 8}
  PROVE  Align(Align(n, a), a) = Align(n, a)
BY DEF Align

LEMMA ValueType ==
  ASSUME TypeOK, NEW k \in 1 .. Len(data_buffer)
  PROVE  /\ data_buffer[k].line \in Nat \ {0} /\ data_buffer[k].nth \in Nat \ {0}
         /\ data_buffer[k].size \in {1, 2, 4, 8}
<1>1. data_buffer \in Seq(Value)
  BY DEF TypeOK
<1>2. data_buffer[k] \in Value
  BY <1>1
<1> QED  BY <1>2 DEF Value

LEMMA ReachedType ==
  ASSUME TypeOK, NEW place, Laid(place), NEW k \in 1 .. Len(data_buffer) + 1
  PROVE  Reached(place, k) \in Nat
<1>0. data_buffer \in Seq(Value) /\ Len(data_buffer) \in Nat
  BY DEF TypeOK
<1>1. CASE k = 1
  BY <1>1 DEF Reached
<1>2. CASE k # 1
  <2>1. k - 1 \in 1 .. Len(data_buffer)
    BY <1>0, <1>2
  <2>2. place[k - 1] \in Nat
    BY <2>1 DEF Laid
  <2>3. data_buffer[k - 1] \in Value
    BY <1>0, <2>1
  <2>4. data_buffer[k - 1].size \in Nat
    BY <2>3 DEF Value
  <2> QED  BY <1>2, <2>2, <2>4 DEF Reached
<1> QED  BY <1>1, <1>2

(* Steps of the first pass that enter nothing.                             *)
LEMMA LayoutPassed ==
  ASSUME TypeOK, NEW place, Layout(place), phase = "first",
         FirstOuter \/ LeaveSection \/ SkipSection \/ DataJunk,
         UNCHANGED <<source, phase, code, results>>
  PROVE  Layout(place)'
<1>1. /\ UNCHANGED <<symbol_table, data_buffer, data_index, memory, data_counter, source, phase>>
      /\ pos' \in {pos, pos + 1} /\ pos \in Nat
  BY DEF FirstOuter, LeaveSection, SkipSection, DataJunk, symbols, results, Advance, Enter, GoTo, TypeOK
<1>2. ~(section = "data" /\ Sees({"VALUES"}))
  <2> SUFFICES ASSUME section = "data", Sees({"VALUES"}) PROVE FALSE
    OBVIOUS
  <2>1. ~AtEnd /\ Item.type = "VALUES"
    BY DEF Sees
  <2>2. Item.value \in {"values", "zero"}
    <3>1. Item \in Items
      BY <2>1, ItemType
    <3> QED  BY <2>1, <3>1 DEF Items, Directives, Labels, DataLines, TextLines
  <2>3. ~Reads(Leaves)
    BY <2>2 DEF Reads, Leaves
  <2> QED  BY <2>1, <2>3 DEF FirstOuter, LeaveSection, SkipSection, DataJunk, Is, Sees
<1>3. Laid(place)' /\ Labelled(place)' /\ Placed(place)'
  BY <1>1 DEF Layout, Laid, Labelled, Placed, Reached, IsData, Known
<1> DEFINE end == Reached(place, Len(data_buffer) + 1)
<1>4. end' = end
  BY <1>1 DEF Reached
<1>5. data_index = end
  BY <1>2 DEF Layout, Reserved
<1>6. ASSUME NEW k \in 1 .. Len(data_buffer) PROVE data_buffer[k].line < pos'
  <2>1. data_buffer[k].line < pos
    BY DEF Layout, Reserved
  <2>2. data_buffer[k].line \in Nat
    BY ValueType
  <2> QED  BY <1>1, <2>1, <2>2
<1>7. ASSUME NEW n \in Names, IsData(n)
      PROVE  /\ symbol_table[n].line < pos'
             /\ symbol_table[n].line = pos' - 1 => pos' = pos
  <2>1. symbol_table[n].line < pos /\ symbol_table[n].line \in Nat
    BY <1>7 DEF Layout, Reserved, TypeOK, Symbol
  <2> QED  BY <1>1, <2>1
<1>8. pos' = pos => Sees({"VALUES"})' = Sees({"VALUES"}) /\ Item' = Item
  BY <1>1 DEF Sees, AtEnd, Item
<1>9. Reserved(place)'
  <2>1. ASSUME NEW n \in Names, IsData(n), symbol_table[n].line = pos' - 1, Sees({"VALUES"})'
        PROVE  symbol_table[n].address = Align(end, Item'.size)
    <3>1. pos' = pos
      BY <1>7, <2>1
    <3>2. symbol_table[n].address = Align(end, Item.size)
      BY <1>8, <2>1, <3>1 DEF Layout, Reserved
    <3> QED  BY <1>8, <3>1, <3>2
  <2>2. \A n \in Names : IsData(n)' = IsData(n)
    BY <1>1 DEF IsData, Known
  <2> HIDE DEF end
  <2> SUFFICES /\ data_index' = end'
               /\ \A k \in 1 .. Len(data_buffer') : data_buffer'[k].line < pos'
               /\ \A n \in Names : IsData(n)' =>
                    /\ symbol_table'[n].line < pos'
                    /\ symbol_table'[n].line = pos' - 1 /\ Sees({"VALUES"})'
                         => symbol_table'[n].address = Align(end', Item'.size)
    BY DEF Reserved, end
  <2> QED  BY <1>1, <1>4, <1>5, <1>6, <1>7, <2>1, <2>2
<1> QED  BY <1>3, <1>9 DEF Layout

(* A label of the data section is at the end of the values so far, but for *)
(* the gap that the values after it need.                                  *)
LEMMA LayoutLabel ==
  ASSUME TypeOK, NEW place, Layout(place), phase = "first", DataLabel,
         UNCHANGED <<source, phase, code, results>>
  PROVE  Layout(place)'
<1> DEFINE end == Reached(place, Len(data_buffer) + 1)
           valued == pos < Len(source) /\ source[pos + 1].type = "VALUES"
           n == Item.value
<1>1. /\ UNCHANGED <<data_buffer, memory, data_counter, source, phase>>
      /\ pos' = pos + 1 /\ pos \in Nat /\ section' = "data" /\ ~AtEnd /\ Item.type = "LABEL"
  BY DEF DataLabel, results, Advance, TypeOK
<1>2. n \in Names
  BY <1>1, ItemType
<1>3. data_index = end
  BY <1>1 DEF Layout, Reserved, Sees
<1>4. /\ data_index' = IF valued THEN Align(end, source[pos + 1].size) ELSE end
      /\ symbol_table' = [symbol_table EXCEPT ![n] = [address |-> data_index', line |-> pos, isData |-> TRUE]]
  BY <1>3 DEF DataLabel, Define
<1>5. Sees({"VALUES"})' <=> valued
  <2>1. source \in Seq(Items) /\ Len(source) \in Nat
    BY DEF TypeOK
  <2> QED  BY <1>1, <2>1 DEF Sees, AtEnd, Item
<1>6. valued => Item' = source[pos + 1]
  BY <1>1 DEF Item
<1>7. /\ symbol_table'[n] = [address |-> data_index', line |-> pos, isData |-> TRUE]
      /\ \A m \in Names \ {n} : symbol_table'[m] = symbol_table[m]
  <2>1. symbol_table \in [Names -> Symbol]
    BY DEF TypeOK
  <2> HIDE DEF n
  <2> QED  BY <1>2, <1>4, <2>1
<1>8. \A m \in Names \ {n} : IsData(m)' = IsData(m)
  BY <1>7 DEF IsData, Known
<1> HIDE DEF n
<1>9. Laid(place)' /\ Placed(place)'
  BY <1>1 DEF Layout, Laid, Placed, Reached
<1>10. end' = end
  BY <1>1 DEF Reached
<1>11. ASSUME NEW k \in 1 .. Len(data_buffer)
       PROVE  data_buffer[k].line < pos /\ data_buffer[k].line \in Nat
  <2>1. data_buffer[k].line < pos
    BY DEF Layout, Reserved
  <2> QED  BY <2>1, ValueType
<1>12. Labelled(place)'
  <2> SUFFICES ASSUME NEW m \in Names, NEW k \in 1 .. Len(data_buffer),
                      IsData(m)', data_buffer[k].line = symbol_table'[m].line + 1, data_buffer[k].nth = 1
               PROVE  symbol_table'[m].address = place[k]
    BY <1>1 DEF Labelled
  <2>1. m # n
    BY <1>1, <1>7, <1>11
  <2> QED  BY <1>7, <1>8, <2>1 DEF Layout, Labelled
<1>13. Reserved(place)'
  <2>1. ASSUME NEW m \in Names, IsData(m)'
        PROVE  /\ symbol_table'[m].line < pos + 1
               /\ symbol_table'[m].line = pos /\ Sees({"VALUES"})'
                    => symbol_table'[m].address = Align(end, Item'.size)
    <3>1. CASE m = n
      BY <1>1, <1>4, <1>5, <1>6, <1>7, <3>1
    <3>2. CASE m # n
      <4>1. symbol_table'[m] = symbol_table[m] /\ IsData(m)
        BY <1>7, <1>8, <2>1, <3>2
      <4>2. symbol_table[m].line < pos /\ symbol_table[m].line \in Nat
        BY <4>1 DEF Layout, Reserved, TypeOK, Symbol
      <4> QED  BY <1>1, <4>1, <4>2
    <3> QED  BY <3>1, <3>2
  <2>2. data_index' = end \/ (Sees({"VALUES"})' /\ data_index' = Align(end, Item'.size))
    BY <1>4, <1>5, <1>6
  <2>3. pos' - 1 = pos
    BY <1>1
  <2>4. \A k \in 1 .. Len(data_buffer) : data_buffer[k].line < pos + 1
    BY <1>1, <1>11
  <2> HIDE DEF end
  <2> SUFFICES /\ data_index' = end' \/ (section' = "data" /\ Sees({"VALUES"})' /\ data_index' = Align(end', Item'.size))
               /\ \A k \in 1 .. Len(data_buffer') : data_buffer'[k].line < pos'
               /\ \A m \in Names : IsData(m)' =>
                    /\ symbol_table'[m].line < pos'
                    /\ symbol_table'[m].line = pos' - 1 /\ Sees({"VALUES"})'
                         => symbol_table'[m].address = Align(end', Item'.size)
    BY DEF Reserved, end
  <2> QED  BY <1>1, <1>10, <2>1, <2>2, <2>3, <2>4
<1> QED  BY <1>9, <1>12, <1>13 DEF Layout

LEMMA ConcatValues ==
  ASSUME NEW s \in Seq(Value), NEW u \in Seq(Value)
  PROVE  /\ Len(s \o u) = Len(s) + Len(u)
         /\ \A i \in 1 .. Len(s) : (s \o u)[i] = s[i]
         /\ \A i \in Len(s) + 1 .. Len(s) + Len(u) : (s \o u)[i] = u[i - Len(s)]
  OBVIOUS

(* Values follow each other after one gap, if there are any.               *)
LEMMA LayoutValues ==
  ASSUME TypeOK, NEW place, Layout(place), OperandsGiven, phase = "first", DataValues,
         UNCHANGED <<source, phase, code, results>>
  PROVE  \E there : Layout(there)'
<1> DEFINE count == Item.count
           size == Item.size
           len == Len(data_buffer)
           end == Reached(place, len + 1)
           start == Align(end, size)
<1>1. /\ UNCHANGED <<symbol_table, memory, data_counter, source, phase>>
      /\ pos' = pos + 1 /\ section' = section /\ ~AtEnd /\ Item.type = "VALUES"
      /\ data_buffer' = data_buffer \o [i \in 1 .. count |-> [line |-> pos, nth |-> i, size |-> size]]
      /\ data_index' = IF count > 0 THEN Align(data_index, size) + count * size ELSE data_index
  BY DEF DataValues, results, Advance, Is, Sees
<1>2. pos \in 1 .. Len(source) /\ len \in Nat
  BY <1>1 DEF TypeOK, AtEnd
<1>3. size \in {1, 2, 4, 8} /\ count \in Nat \ {0}
  <2>1. size \in {1, 2, 4, 8} /\ count \in Nat
    BY <1>1, ItemType
  <2>2. count > 0
    BY <1>1, <1>2 DEF OperandsGiven, Item
  <2> QED  BY <2>1, <2>2
<1>4. end \in Nat
  <2>1. len + 1 \in 1 .. len + 1
    BY <1>2
  <2> QED  BY <2>1, ReachedType DEF Layout
<1>5. start \in Nat
  BY <1>3, <1>4, AlignType
<1>0. PICK there :
        there = [k \in 1 .. len + count |-> IF k =< len THEN place[k] ELSE start + (k - len - 1) * size]
  OBVIOUS
<1>6. /\ Len(data_buffer') = len + count
      /\ \A k \in 1 .. len : data_buffer'[k] = data_buffer[k]
      /\ \A k \in len + 1 .. len + count :
           data_buffer'[k] = [line |-> pos, nth |-> k - len, size |-> size]
  <2> DEFINE more == [i \in 1 .. count |-> [line |-> pos, nth |-> i, size |-> size]]
  <2>1. data_buffer \in Seq(Value)
    BY DEF TypeOK
  <2>2. more \in Seq(Value) /\ Len(more) = count
    <3>1. \A i \in 1 .. count : [line |-> pos, nth |-> i, size |-> size] \in Value
      BY <1>2, <1>3 DEF Value
    <3> HIDE DEF count, size
    <3> QED  BY <1>3, <3>1
  <2>3. data_buffer' = data_buffer \o more
    BY <1>1
  <2>4. \A i \in 1 .. count : more[i] = [line |-> pos, nth |-> i, size |-> size]
    OBVIOUS
  <2> HIDE DEF more, count, size
  <2>5. /\ Len(data_buffer') = len + count
        /\ \A k \in 1 .. len : data_buffer'[k] = data_buffer[k]
        /\ \A k \in len + 1 .. len + count : data_buffer'[k] = more[k - len]
    BY <1>2, <1>3, <2>1, <2>2, <2>3, ConcatValues
  <2>6. \A k \in len + 1 .. len + count : k - len \in 1 .. count
    BY <1>2, <1>3
  <2> QED  BY <2>4, <2>5, <2>6
<1> HIDE DEF size, count
<1>7. ASSUME NEW k \in 1 .. len
      PROVE  /\ there[k] = place[k] /\ Reached(there, k)' = Reached(place, k)
             /\ data_buffer'[k] = data_buffer[k]
  <2>1. k \in 1 .. len + count /\ k =< len /\ (k # 1 => k - 1 \in 1 .. len /\ k - 1 \in 1 .. len + count /\ k - 1 =< len)
    BY <1>2, <1>3
  <2>2. there[k] = place[k]
    BY <1>0, <2>1
  <2>3. k # 1 => there[k - 1] = place[k - 1]
    BY <1>0, <2>1
  <2> QED  BY <1>6, <2>1, <2>2, <2>3 DEF Reached
<1>8. ASSUME NEW k \in len + 1 .. len + count
      PROVE  /\ there[k] = start + (k - len - 1) * size
             /\ there[k] \in Nat
             /\ there[k] = Align(Reached(there, k)', size)
  <2>1. k \in 1 .. len + count /\ ~(k =< len) /\ k - len - 1 \in Nat
    BY <1>2, <1>3
  <2>2. there[k] = start + (k - len - 1) * size
    BY <1>0, <2>1
  <2>3. start + (k - len - 1) * size \in Nat /\ Align(start + (k - len - 1) * size, size) = start + (k - len - 1) * size
    <3> HIDE DEF end
    <3> QED  BY <1>3, <1>4, <2>1, AlignRun
  <2>4. CASE k = len + 1
    <3>1. Reached(there, k)' = end
      <4>1. CASE len = 0
        BY <2>4, <4>1 DEF Reached
      <4>2. CASE len # 0
        <5>1. len \in 1 .. len /\ k - 1 = len /\ k # 1 /\ len + 1 # 1 /\ (len + 1) - 1 = len
          BY <1>2, <2>4, <4>2
        <5>2. there[len] = place[len] /\ data_buffer'[len] = data_buffer[len]
          BY <1>7, <5>1
        <5> QED  BY <5>1, <5>2 DEF Reached
      <4> QED  BY <4>1, <4>2
    <3>2. (k - len - 1) * size = 0 /\ start + 0 = start
      BY <1>2, <1>3, <1>5, <2>4
    <3> QED  BY <2>2, <2>3, <3>1, <3>2
  <2>5. CASE k # len + 1
    <3>1. /\ k - 1 \in len + 1 .. len + count /\ k # 1 /\ k - 1 \in 1 .. len + count /\ ~(k - 1 =< len)
          /\ (k - 1) - len - 1 = (k - len - 1) - 1 /\ (k - len - 1) - 1 \in Nat
      BY <1>2, <1>3, <2>5
    <3>2. /\ there[k - 1] = start + ((k - len - 1) - 1) * size
          /\ data_buffer'[k - 1] = [line |-> pos, nth |-> (k - 1) - len, size |-> size]
      BY <1>6, <1>0, <3>1
    <3>3. Reached(there, k)' = (start + ((k - len - 1) - 1) * size) + size
      BY <3>1, <3>2 DEF Reached
    <3>4. (start + ((k - len - 1) - 1) * size) + size = start + (k - len - 1) * size
      <4> DEFINE i == (k - len - 1) - 1
      <4>0. i \in Nat
        BY <3>1
      <4>1. i + 1 = k - len - 1
        BY <1>2
      <4> HIDE DEF i
      <4> HIDE DEF end
      <4>2. (start + i * size) + size = start + (i + 1) * size
        <5> HIDE DEF start
        <5>1. CASE size = 1
          BY <1>5, <4>0, <5>1
        <5>2. CASE size = 2
          BY <1>5, <4>0, <5>2
        <5>3. CASE size = 4
          BY <1>5, <4>0, <5>3
        <5>4. CASE size = 8
          BY <1>5, <4>0, <5>4
        <5> QED  BY <1>3, <5>1, <5>2, <5>3, <5>4
      <4> QED  BY <4>1, <4>2 DEF i
    <3> QED  BY <2>2, <2>3, <3>3, <3>4
  <2> QED  BY <2>2, <2>3, <2>4, <2>5
<1>9. Reached(there, Len(data_buffer) + 1)' = start + count * size
  <2>1. /\ len + count \in len + 1 .. len + count /\ (len + count + 1) # 1 /\ (len + count + 1) - 1 = len + count
        /\ (len + count) - len - 1 = count - 1 /\ count - 1 \in Nat /\ (count - 1) + 1 = count
    BY <1>2, <1>3
  <2>2. there[len + count] = start + (count - 1) * size /\ data_buffer'[len + count].size = size
    <3>1. there[len + count] = start + ((len + count) - len - 1) * size
      BY <1>0, <2>1, <1>2, <1>3
    <3>2. data_buffer'[len + count] = [line |-> pos, nth |-> (len + count) - len, size |-> size]
      BY <1>6, <2>1
    <3> QED  BY <2>1, <3>1, <3>2
  <2>3. (start + (count - 1) * size) + size = start + count * size
    <3> HIDE DEF end
    <3>1. (start + (count - 1) * size) + size = start + ((count - 1) + 1) * size
      BY <1>3, <1>4, <2>1, AlignRun
    <3> QED  BY <2>1, <3>1
  <2> QED  BY <1>6, <2>1, <2>2, <2>3 DEF Reached

<1>10. Laid(there)'
  <2>1. there \in [1 .. len + count -> Nat]
    <3>1. \A k \in 1 .. len + count : there[k] \in Nat
      <4> SUFFICES ASSUME NEW k \in 1 .. len + count PROVE there[k] \in Nat
        OBVIOUS
      <4>1. CASE k =< len
        <5>1. k \in 1 .. len
          BY <1>2, <1>3, <4>1
        <5> QED  BY <1>7, <5>1 DEF Layout, Laid
      <4>2. CASE ~(k =< len)
        <5>1. k \in len + 1 .. len + count
          BY <1>2, <1>3, <4>2
        <5> QED  BY <1>8, <5>1
      <4> QED  BY <4>1, <4>2
    <3> QED  BY <1>0, <3>1
  <2>2. ASSUME NEW k \in 1 .. len + count
        PROVE  there[k] = Align(Reached(there, k)', data_buffer'[k].size)
    <3>1. CASE k =< len
      <4>1. k \in 1 .. len
        BY <1>2, <1>3, <3>1
      <4>2. place[k] = Align(Reached(place, k), data_buffer[k].size)
        BY <4>1 DEF Layout, Laid
      <4> QED  BY <1>7, <4>1, <4>2
    <3>2. CASE ~(k =< len)
      <4>1. k \in len + 1 .. len + count
        BY <1>2, <1>3, <3>2
      <4>2. data_buffer'[k] = [line |-> pos, nth |-> k - len, size |-> size]
        BY <1>6, <4>1
      <4> QED  BY <1>8, <4>1, <4>2
    <3> QED  BY <3>1, <3>2
  <2> SUFFICES /\ there \in [1 .. Len(data_buffer') -> Nat]
               /\ \A k \in 1 .. Len(data_buffer') : there[k] = Align(Reached(there, k)', data_buffer'[k].size)
    BY DEF Laid, Align
  <2> QED  BY <1>6, <2>1, <2>2
<1>11. \A n \in Names : IsData(n)' = IsData(n)
  BY <1>1 DEF IsData, Known
<1>12. Labelled(there)'
  <2> SUFFICES ASSUME NEW n \in Names, NEW k \in 1 .. len + count, IsData(n),
                      data_buffer'[k].line = symbol_table[n].line + 1, data_buffer'[k].nth = 1
               PROVE  symbol_table[n].address = there[k]
    BY <1>1, <1>6, <1>11 DEF Labelled
  <2>1. CASE k =< len
    <3>1. k \in 1 .. len
      BY <1>2, <1>3, <2>1
    <3> QED  BY <1>7, <3>1 DEF Layout, Labelled
  <2>2. CASE ~(k =< len)
    <3>1. k \in len + 1 .. len + count
      BY <1>2, <1>3, <2>2
    <3>2. data_buffer'[k] = [line |-> pos, nth |-> k - len, size |-> size]
      BY <1>6, <3>1
    <3>3. k = len + 1
      BY <1>2, <1>3, <3>1, <3>2
    <3>4. symbol_table[n].line \in Nat
      BY DEF TypeOK, Symbol
    <3>5. symbol_table[n].line = pos - 1
      BY <1>2, <3>2, <3>4
    <3>6. symbol_table[n].address = start
      BY <1>1, <3>5 DEF Layout, Reserved, Sees, size
    <3>7. there[k] = start + (k - len - 1) * size /\ (k - len - 1) * size = 0 /\ start + 0 = start
      BY <1>2, <1>3, <1>5, <1>8, <3>1, <3>3
    <3> QED  BY <3>6, <3>7
  <2> QED  BY <2>1, <2>2
<1>13. Reserved(there)'
  <2>1. Align(data_index, size) = start
    <3>1. data_index = end \/ data_index = Align(end, size)
      BY DEF Layout, Reserved, size
    <3> HIDE DEF end
    <3> QED  BY <1>3, <1>4, <3>1, AlignTwice
  <2>2. data_index' = start + count * size
    BY <1>1, <1>3, <2>1
  <2>3. ASSUME NEW k \in 1 .. len + count PROVE data_buffer'[k].line < pos + 1
    <3>1. CASE k =< len
      <4>1. k \in 1 .. len
        BY <1>2, <1>3, <3>1
      <4>2. data_buffer[k].line < pos /\ data_buffer[k].line \in Nat
        BY <4>1, ValueType DEF Layout, Reserved
      <4> QED  BY <1>2, <1>7, <4>1, <4>2
    <3>2. CASE ~(k =< len)
      <4>1. k \in len + 1 .. len + count
        BY <1>2, <1>3, <3>2
      <4>2. data_buffer'[k] = [line |-> pos, nth |-> k - len, size |-> size]
        BY <1>6, <4>1
      <4> QED  BY <1>2, <4>2
    <3> QED  BY <3>1, <3>2
  <2>4. ASSUME NEW n \in Names, IsData(n)
        PROVE  symbol_table[n].line < pos + 1 /\ symbol_table[n].line # (pos + 1) - 1
    <3>1. symbol_table[n].line < pos /\ symbol_table[n].line \in Nat
      BY <2>4 DEF Layout, Reserved, TypeOK, Symbol
    <3> QED  BY <1>2, <3>1
  <2> DEFINE far == Reached(there, Len(data_buffer) + 1)'
  <2> SUFFICES /\ data_index' = far
               /\ \A k \in 1 .. Len(data_buffer') : data_buffer'[k].line < pos'
               /\ \A n \in Names : IsData(n)' =>
                    symbol_table'[n].line < pos' /\ symbol_table'[n].line # pos' - 1
    BY DEF Reserved
  <2> HIDE DEF far
  <2>5. far = start + count * size
    BY <1>9 DEF far
  <2> QED  BY <1>1, <1>6, <1>11, <2>2, <2>3, <2>4, <2>5
<1>14. Placed(there)'
  BY <1>1 DEF Layout, Placed
<1> QED  BY <1>10, <1>12, <1>13, <1>14 DEF Layout

(* The second pass makes no labels of data, and changes none.              *)
LEMMA LayoutSecond ==
  ASSUME TypeOK, NEW place, Layout(place), phase # "first", phase' # "first",
         UNCHANGED <<data_buffer, data_counter, memory>>,
         phase \in {"load", "ready"} => phase' \in {"load", "ready"},
         phase' = "load" => \/ phase = "load" /\ pos' = pos
                            \/ phase \notin {"load", "ready"} /\ pos' = 1,
         UNCHANGED source,
         \A n \in Names : IsData(n)' => IsData(n) /\ symbol_table'[n] = symbol_table[n]
  PROVE  Layout(place)'
<1>1. Laid(place)'
  BY DEF Layout, Laid, Reached
<1>2. Labelled(place)'
  BY DEF Layout, Labelled
<1>3. Reserved(place)'
  BY DEF Reserved
<1>4. Placed(place)'
  <2>1. data_buffer \in Seq(Value)
    BY DEF TypeOK
  <2>2. 1 =< Len(data_buffer) + 1
    BY <2>1
  <2> QED  BY <2>2 DEF Layout, Placed, Reached
<1> QED  BY <1>1, <1>2, <1>3, <1>4 DEF Layout

(* Loading counts as the parser did.                                       *)
LEMMA LayoutLoaded ==
  ASSUME TypeOK, NEW place, Layout(place), LoadData
  PROVE  Layout(place)'
<1> DEFINE value == data_buffer[pos]
<1>1. /\ phase = "load" /\ pos =< Len(data_buffer) /\ pos' = pos + 1
      /\ UNCHANGED <<source, phase, symbol_table, data_buffer>>
      /\ memory' = memory \cup {[value |-> value, address |-> DataStart + Align(data_counter, value.size)]}
      /\ data_counter' = Align(data_counter, value.size) + value.size
  BY DEF LoadData, Place, symbols
<1>2. pos \in 1 .. Len(data_buffer)
  BY <1>1 DEF TypeOK
<1>3. Align(data_counter, value.size) = place[pos]
  BY <1>1, <1>2 DEF Layout, Laid, Placed
<1>4. Laid(place)' /\ Labelled(place)' /\ Reserved(place)'
  BY <1>1 DEF Layout, Laid, Labelled, Reserved, Reached, IsData, Known
<1>5. pos + 1 =< Len(data_buffer) + 1 /\ pos + 1 # 1 /\ (pos + 1) - 1 = pos
  BY <1>2
<1>6. data_counter' = Reached(place, pos)'
  BY <1>1, <1>3, <1>5 DEF Reached
<1>7. \A m \in memory' : \E k \in 1 .. Len(data_buffer) :
        m = [value |-> data_buffer[k], address |-> DataStart + place[k]]
  BY <1>1, <1>2, <1>3 DEF Layout, Placed
<1> HIDE DEF value
<1>8. Placed(place)'
  BY <1>1, <1>5, <1>6, <1>7 DEF Placed
<1> QED  BY <1>4, <1>8 DEF Layout

LEMMA DNext ==
  ASSUME TypeOK, DInv, [Next]_vars
  PROVE  DInv'
<1> SUFFICES ASSUME OperandsGiven, NEW place, Layout(place)
             PROVE  \E there : Layout(there)'
  <2>1. source' = source
    BY DEF Next, First, Second, Patch, Conclude, MapLines, EndLines, LoadData, EndLoad, EndFirst, EndSecond, vars
  <2>2. OperandsGiven' = OperandsGiven
    BY <2>1 DEF OperandsGiven
  <2> QED  BY <2>2 DEF DInv
<1>1. CASE First /\ ~EndFirst
  <2>1. /\ phase = "first" /\ UNCHANGED <<source, phase, code, results>>
        /\ FirstOuter \/ LeaveSection \/ SkipSection \/ DataLabel \/ DataValues \/ DataJunk
    BY <1>1 DEF First
  <2>2. CASE FirstOuter \/ LeaveSection \/ SkipSection \/ DataJunk
    BY <2>1, <2>2, LayoutPassed
  <2>3. CASE DataLabel
    BY <2>1, <2>3, LayoutLabel
  <2>4. CASE DataValues
    BY <2>1, <2>4, LayoutValues
  <2> QED  BY <2>1, <2>2, <2>3, <2>4
<1>2. CASE First /\ EndFirst
  <2>1. /\ phase = "first" /\ phase' = "second"
        /\ UNCHANGED <<source, symbol_table, data_buffer, data_counter, memory>>
    BY <1>2 DEF First, EndFirst, symbols, results
  <2>2. Laid(place)' /\ Labelled(place)' /\ Reserved(place)' /\ Placed(place)'
    BY <2>1 DEF Layout, Laid, Labelled, Reserved, Placed, Reached, IsData, Known
  <2> QED  BY <2>2 DEF Layout
<1>3. CASE Second
  <2>1. /\ phase = "second" /\ phase' \in {"second", "patch"} /\ UNCHANGED <<source, data_buffer, data_counter, memory>>
    BY <1>3 DEF Second, EndSecond, symbols, results
  <2>2. symbol_table' = symbol_table \/ TextLabel
    BY <1>3 DEF Second, EndSecond, SecondOuter, SkipToText, LeaveText, Instruction, symbols
  <2>3. ASSUME NEW n \in Names, IsData(n)'
        PROVE  IsData(n) /\ symbol_table'[n] = symbol_table[n]
    <3>1. CASE symbol_table' = symbol_table
      BY <2>3, <3>1 DEF IsData, Known
    <3>2. CASE TextLabel /\ symbol_table' # symbol_table
      <4>1. /\ ~Known(Item.value) /\ Item.value \in Names
            /\ symbol_table' = [symbol_table EXCEPT ![Item.value] =
                                 [address |-> 4 * instruction_index, line |-> pos, isData |-> FALSE]]
        BY <3>2, ItemType DEF TextLabel, Define
      <4>2. symbol_table \in [Names -> Symbol]
        BY DEF TypeOK
      <4>3. n # Item.value
        BY <2>3, <4>1, <4>2 DEF IsData
      <4> QED  BY <2>3, <4>1, <4>2, <4>3 DEF IsData, Known
    <3> QED  BY <2>2, <3>1, <3>2
  <2> QED  BY <2>1, <2>3, LayoutSecond
<1>4. CASE LoadData
  BY <1>4, LayoutLoaded
<1>5. CASE Patch \/ Conclude \/ MapLines \/ EndLines \/ EndLoad \/ UNCHANGED vars
  <2>1. UNCHANGED <<source, symbol_table, data_buffer, data_counter, memory>>
    BY <1>5 DEF Patch, Conclude, MapLines, EndLines, EndLoad, vars, symbols, results
  <2>2. \/ phase \in {"patch", "lines"} /\ phase' \in {"patch", "lines", "failed"}
        \/ phase = "lines" /\ phase' = "load" /\ pos' = 1
        \/ phase = "load" /\ phase' = "ready"
        \/ phase' = phase /\ pos' = pos /\ UNCHANGED <<data_index, section>>
    BY <1>5 DEF Patch, Conclude, MapLines, EndLines, EndLoad, vars, symbols
  <2>3. \A n \in Names : IsData(n)' = IsData(n)
    BY <2>1 DEF IsData, Known
  <2>4. CASE phase = "first"
    <3>1. phase' = phase /\ pos' = pos /\ UNCHANGED <<data_index, section>>
      BY <2>2, <2>4
    <3>2. Laid(place)' /\ Labelled(place)' /\ Placed(place)'
      BY <2>1, <3>1 DEF Layout, Laid, Labelled, Placed, Reached, IsData, Known
    <3>3. Reserved(place)'
      BY <2>1, <3>1 DEF Layout, Reserved, Reached, IsData, Known, Sees, AtEnd, Item
    <3> QED  BY <3>2, <3>3 DEF Layout
  <2>5. CASE phase # "first"
    <3>1. phase' # "first"
      BY <2>2, <2>5
    <3> QED  BY <2>1, <2>2, <2>3, <2>5, <3>1, LayoutSecond
  <2> QED  BY <2>4, <2>5
<1> QED  BY <1>1, <1>2, <1>3, <1>4, <1>5 DEF Next

LEMMA DInit == Init => DInv
<1> SUFFICES ASSUME Init PROVE DInv
  OBVIOUS
<1>1. /\ data_buffer = << >> /\ data_index = 0 /\ phase = "first" /\ memory = {} /\ data_counter = 0
      /\ \A n \in Names : ~IsData(n)
  BY DEF Init, IsData, Known, Unknown
<1>2. PICK place : place = [k \in 1 .. 0 |-> 0]
  OBVIOUS
<1>3. Len(data_buffer) = 0 /\ 1 .. Len(data_buffer) = {}
  BY <1>1
<1>4. Laid(place) /\ Labelled(place) /\ Reserved(place) /\ Placed(place)
  BY <1>1, <1>2, <1>3 DEF Laid, Labelled, Reserved, Placed, Reached
<1> QED  BY <1>4 DEF Layout, DInv

(* The parser and the loader count the data section each for itself, with  *)
(* gaps of the parser's before labels and of the loader's before values,   *)
(* and agree on where a label leads, as long as all directives have        *)
(* operands.                                                               *)
THEOREM AssemblerDataLabelsAgree == Spec => []DataLabelsAgree
<1>1. Init => LInv /\ DInv
  BY LInit, DInit
<1>2. (LInv /\ DInv) /\ [Next]_vars => (LInv /\ DInv)'
  BY LNext, DNext DEF LInv
<1>3. LInv /\ DInv => DataLabelsAgree
  <2> SUFFICES ASSUME TypeOK, OperandsGiven, NEW place, Layout(place), NEW n \in Names, NEW m \in memory,
                      IsData(n), m.value.line = symbol_table[n].line + 1, m.value.nth = 1
               PROVE  m.address = DataStart + symbol_table[n].address
    BY DEF LInv, DInv, DataLabelsAgree
  <2>1. PICK k \in 1 .. Len(data_buffer) : m = [value |-> data_buffer[k], address |-> DataStart + place[k]]
    BY DEF Layout, Placed
  <2>2. symbol_table[n].address = place[k]
    BY <2>1 DEF Layout, Labelled
  <2> QED  BY <2>1, <2>2
<1> QED  BY <1>1, <1>2, <1>3, PTL DEF Spec

----------------------------------------------------------------------------
(* The two passes agree on the sections.                                   *)

(* Text is open at line p: it has been since the beginning or since a word *)
(* "text", a directive or the name of a label, and no directive after it.  *)
Opened(p) ==
  \E q \in 0 .. p - 1 :
    /\ q = 0 \/ source[q].value = "text"
    /\ \A r \in q + 1 .. p - 1 : source[r].type # "DIRECTIVE"

(* What the first pass has made of line p, once past it.                   *)
Entered(p) ==
  InSection(p, "data") /\ ~Opened(p) =>
    /\ source[p].type = "VALUES" =>
         \A k \in 1 .. source[p].count :
           \E i \in 1 .. Len(data_buffer) : data_buffer[i].line = p /\ data_buffer[i].nth = k
    /\ source[p].type = "LABEL" /\ source[p].value # "text" => Known(source[p].value)

(* What the second pass has made of it.                                    *)
Assembled(p) ==
  errors \/
    /\ Opened(p) /\ source[p].type = "OPCODE" => \E i \in Numbers : intermediate_code[i].line = p
    /\ Opened(p) => source[p].type # "VALUES"
    /\ source[p].type = "LABEL" /\ (Opened(p) \/ source[p].value = "text") => Known(source[p].value)

(* The loop a pass is in is that of the section of the line at hand, if    *)
(* the line is not one that ends it.                                       *)
InData ==
  phase = "first" /\ ~AtEnd /\ ~Reads(Leaves) /\ InSection(pos, "data") /\ ~Opened(pos)
    => section = "data"

InText ==
  phase = "second" /\ ~AtEnd /\ Item.type # "DIRECTIVE" /\ Opened(pos) => section \in {"none", "text"}

Lines == 1 .. Len(source)

Complete ==
  /\ \A p \in Lines : (phase = "first" => p < pos) => Entered(p)
  /\ \A p \in Lines : phase # "first" /\ (phase = "second" => p < pos) => Assembled(p)
  /\ Accepted => ~errors

NInv == InData /\ InText /\ Complete

LEMMA SameSections ==
  ASSUME UNCHANGED source, NEW p
  PROVE  Opened(p)' = Opened(p) /\ InSection(p, "data")' = InSection(p, "data")
BY DEF Opened, InSection

(* What is entered stays so.                                               *)
LEMMA EnteredStays ==
  ASSUME UNCHANGED source,
         \A n \in Names : Known(n) => Known(n)',
         \A i \in 1 .. Len(data_buffer) : i \in 1 .. Len(data_buffer') /\ data_buffer'[i] = data_buffer[i],
         TypeOK, NEW p \in Lines, Entered(p)
  PROVE  Entered(p)'
<1>1. source[p].type = "LABEL" => source[p].value \in Names
  <2>1. source[p] \in Items
    BY DEF TypeOK, Lines
  <2> QED  BY <2>1 DEF Items, Directives, Labels, DataLines, TextLines
<1> QED  BY <1>1, SameSections DEF Entered

LEMMA AssembledStays ==
  ASSUME UNCHANGED source, errors => errors',
         \A n \in Names : Known(n) => Known(n)',
         \A i \in Numbers : i \in Numbers' /\ intermediate_code'[i].line = intermediate_code[i].line,
         TypeOK, NEW p \in Lines, Assembled(p)
  PROVE  Assembled(p)'
<1>1. source[p].type = "LABEL" => source[p].value \in Names
  <2>1. source[p] \in Items
    BY DEF TypeOK, Lines
  <2> QED  BY <2>1 DEF Items, Directives, Labels, DataLines, TextLines
<1> QED  BY <1>1, SameSections DEF Assembled

(* How a section goes on from one line to the next.                        *)
LEMMA SectionsGoOn ==
  ASSUME NEW p \in Nat \ {0}
  PROVE  /\ Opened(p + 1) <=> source[p].value = "text" \/ (Opened(p) /\ source[p].type # "DIRECTIVE")
         /\ InSection(p + 1, "data") <=>
              \/ source[p] = [type |-> "DIRECTIVE", value |-> "data"]
              \/ InSection(p, "data") /\ source[p].type # "DIRECTIVE"
<1>1. (p + 1) - 1 = p /\ p - 1 \in Nat /\ p \in 0 .. p
  OBVIOUS
<1>2. ASSUME NEW q \in 0 .. p - 1
      PROVE  /\ q \in 0 .. p
             /\ (\A r \in q + 1 .. p : source[r].type # "DIRECTIVE")
                  <=> source[p].type # "DIRECTIVE" /\ \A r \in q + 1 .. p - 1 : source[r].type # "DIRECTIVE"
  <2>1. \A r : r \in q + 1 .. p <=> r \in q + 1 .. p - 1 \/ r = p
    OBVIOUS
  <2> QED  BY <2>1
<1>3. ASSUME NEW q \in 0 .. p, q # p
      PROVE  q \in 0 .. p - 1
  BY <1>3
<1>4. p + 1 .. p = {} /\ p # 0
  OBVIOUS
<1>5. Opened(p + 1) <=> source[p].value = "text" \/ (Opened(p) /\ source[p].type # "DIRECTIVE")
  <2>1. Opened(p + 1) <=> \E q \in 0 .. p : /\ q = 0 \/ source[q].value = "text"
                                            /\ \A r \in q + 1 .. p : source[r].type # "DIRECTIVE"
    BY <1>1 DEF Opened
  <2> QED  BY <1>1, <1>2, <1>3, <1>4, <2>1 DEF Opened
<1>6. InSection(p + 1, "data") <=> \/ source[p] = [type |-> "DIRECTIVE", value |-> "data"]
                                   \/ InSection(p, "data") /\ source[p].type # "DIRECTIVE"
  <2>1. InSection(p + 1, "data") <=>
          \E q \in 0 .. p : /\ q # 0 /\ source[q] = [type |-> "DIRECTIVE", value |-> "data"]
                            /\ \A r \in q + 1 .. p : source[r].type # "DIRECTIVE"
    BY <1>1 DEF InSection
  <2>2. InSection(p, "data") <=>
          \E q \in 0 .. p - 1 : /\ q # 0 /\ source[q] = [type |-> "DIRECTIVE", value |-> "data"]
                                /\ \A r \in q + 1 .. p - 1 : source[r].type # "DIRECTIVE"
    BY DEF InSection
  <2> QED  BY <1>1, <1>2, <1>3, <1>4, <2>1, <2>2
<1> QED  BY <1>5, <1>6

(* The values of a line are added behind those there are.                  *)
LEMMA ValuesAdded ==
  ASSUME TypeOK, DataValues
  PROVE  /\ \A i \in 1 .. Len(data_buffer) : i \in 1 .. Len(data_buffer') /\ data_buffer'[i] = data_buffer[i]
         /\ \A k \in 1 .. Item.count :
              \E i \in 1 .. Len(data_buffer') : data_buffer'[i].line = pos /\ data_buffer'[i].nth = k
<1> DEFINE count == Item.count
           size == Item.size
           len == Len(data_buffer)
           more == [i \in 1 .. count |-> [line |-> pos, nth |-> i, size |-> size]]
<1>1. /\ ~AtEnd /\ Item.type = "VALUES" /\ data_buffer' = data_buffer \o more
      /\ data_buffer \in Seq(Value) /\ len \in Nat /\ pos \in Nat \ {0}
  BY DEF DataValues, Is, Sees, TypeOK
<1>2. count \in Nat /\ size \in {1, 2, 4, 8}
  BY <1>1, ItemType
<1>3. \A i \in 1 .. count : more[i] = [line |-> pos, nth |-> i, size |-> size]
  OBVIOUS
<1>4. more \in Seq(Value) /\ Len(more) = count
  <2>1. \A i \in 1 .. count : [line |-> pos, nth |-> i, size |-> size] \in Value
    BY <1>1, <1>2 DEF Value
  <2> HIDE DEF count, size
  <2> QED  BY <1>2, <2>1
<1> HIDE DEF count, size, more
<1>5. /\ Len(data_buffer') = len + count
      /\ \A i \in 1 .. len : data_buffer'[i] = data_buffer[i]
      /\ \A i \in len + 1 .. len + count : data_buffer'[i] = more[i - len]
  BY <1>1, <1>4, ConcatValues
<1>6. \A i \in 1 .. len : i \in 1 .. len + count
  BY <1>1, <1>2
<1>7. ASSUME NEW k \in 1 .. count
      PROVE  \E i \in 1 .. Len(data_buffer') : data_buffer'[i].line = pos /\ data_buffer'[i].nth = k
  <2>1. len + k \in 1 .. len + count /\ len + k \in len + 1 .. len + count /\ (len + k) - len = k
    BY <1>1, <1>2
  <2>2. data_buffer'[len + k] = [line |-> pos, nth |-> k, size |-> size]
    BY <1>3, <1>5, <2>1
  <2> QED  BY <1>5, <2>1, <2>2
<1> QED  BY <1>5, <1>6, <1>7 DEF count

LEMMA Mute ==
  ASSUME TypeOK, ~AtEnd, Item.type \in {"VALUES", "OPCODE"}
  PROVE  ~Reads(Leaves)
<1>1. Item \in DataLines \/ Item \in TextLines
  BY ItemType DEF Items, Directives, Labels, DataLines, TextLines
<1>2. Item.value \in {"values", "zero"} \cup Opcodes
  BY <1>1 DEF DataLines, TextLines
<1> QED  BY <1>2 DEF Reads, Leaves, Opcodes

(* A step of the first pass keeps what is known, and what it passes in a   *)
(* data section it enters.                                                 *)
LEMMA NFirst ==
  ASSUME TypeOK, NInv, phase = "first",
         FirstOuter \/ LeaveSection \/ SkipSection \/ DataLabel \/ DataValues \/ DataJunk,
         UNCHANGED <<source, phase, code, results>>
  PROVE  NInv'
<1>1. /\ UNCHANGED <<source, phase>> /\ pos \in Nat \ {0} /\ Len(source) \in Nat
      /\ pos' = pos \/ (pos' = pos + 1 /\ ~AtEnd)
  <2>1. pos \in Nat \ {0} /\ Len(source) \in Nat
    BY DEF TypeOK
  <2>2. pos' = pos \/ (pos' = pos + 1 /\ ~AtEnd)
    <3>1. FirstOuter => pos' = pos \/ (pos' = pos + 1 /\ ~AtEnd)
      BY DEF FirstOuter, Advance, Enter, GoTo
    <3>2. LeaveSection => pos' = pos
      BY DEF LeaveSection, GoTo
    <3>3. SkipSection \/ DataLabel \/ DataValues \/ DataJunk => pos' = pos + 1 /\ ~AtEnd
      BY DEF SkipSection, DataLabel, DataValues, DataJunk, Advance, Is, Sees
    <3> QED  BY <3>1, <3>2, <3>3
  <2> QED  BY <2>1, <2>2
<1>2. ASSUME NEW n \in Names, Known(n) PROVE Known(n)'
  <2>1. CASE DataLabel
    <3>1. /\ Item.value \in Names
          /\ symbol_table' = [symbol_table EXCEPT ![Item.value] = [address |-> data_index', line |-> pos, isData |-> TRUE]]
      BY <2>1, ItemType DEF DataLabel, Define
    <3>2. symbol_table \in [Names -> Symbol]
      BY DEF TypeOK
    <3> QED  BY <1>1, <1>2, <3>1, <3>2 DEF Known, Unknown
  <2>2. CASE ~DataLabel
    BY <1>2, <2>2 DEF Known, FirstOuter, LeaveSection, SkipSection, DataValues, DataJunk, symbols
  <2> QED  BY <2>1, <2>2
<1>3. ASSUME NEW i \in 1 .. Len(data_buffer)
      PROVE  i \in 1 .. Len(data_buffer') /\ data_buffer'[i] = data_buffer[i]
  <2>1. CASE DataValues
    BY <1>1, <2>1, ValuesAdded
  <2>2. CASE ~DataValues
    BY <2>2 DEF FirstOuter, LeaveSection, SkipSection, DataLabel, DataJunk, symbols
  <2> QED  BY <2>1, <2>2
<1>4. ASSUME NEW p \in Lines, p < pos PROVE Entered(p)'
  <2>1. Entered(p)
    BY <1>4 DEF NInv, Complete
  <2> QED  BY <1>1, <1>2, <1>3, <2>1, EnteredStays
<1>5. CASE pos' = pos
  <2>1. InData'
    <3> SUFFICES ASSUME ~AtEnd, ~Reads(Leaves), InSection(pos, "data"), ~Opened(pos) PROVE FALSE
      BY <1>1, <1>5 DEF InData, AtEnd, Reads, Item, InSection, Opened
    <3>1. section = "data"
      BY DEF NInv, InData
    <3>2. ~LeaveSection /\ ~FirstOuter /\ ~SkipSection
      BY <3>1 DEF LeaveSection, FirstOuter, SkipSection
    <3>3. pos' = pos + 1
      BY <3>2 DEF DataLabel, DataValues, DataJunk, Advance
    <3> QED  BY <1>1, <1>5, <3>3
  <2>2. Lines' = Lines
    BY <1>1 DEF Lines
  <2>3. Complete'
    BY <1>1, <1>4, <1>5, <2>2 DEF Complete, Accepted
  <2> QED  BY <1>1, <2>1, <2>3 DEF NInv, InText
<1>6. CASE pos' = pos + 1 /\ ~AtEnd
  <2>0. pos' # pos
    BY <1>1, <1>6
  <2>1. Item.type = "LABEL" => ~Reads(Sections)
    BY <2>0 DEF FirstOuter, LeaveSection, SkipSection, DataLabel, DataValues, DataJunk, Advance, Enter, GoTo,
         Is, Sees, Reads, Leaves, Sections
  <2>2. ASSUME Item.type # "DIRECTIVE", InSection(pos, "data"), ~Opened(pos), Item.value # "text"
        PROVE  section = "data" /\ section' = "data" /\ (DataLabel \/ DataValues \/ DataJunk)
    <3>1. ~Reads(Leaves)
      <4>1. Item.type \in {"LABEL", "VALUES", "OPCODE"}
        BY <1>6, <2>2, ItemType DEF Items, Directives, Labels, DataLines, TextLines
      <4>2. CASE Item.type = "LABEL"
        BY <2>1, <2>2, <4>2 DEF Reads, Leaves, Sections
      <4> QED  BY <1>6, <4>1, <4>2, Mute
    <3>2. section = "data"
      BY <1>6, <2>2, <3>1 DEF NInv, InData
    <3>3. ~LeaveSection /\ ~FirstOuter /\ ~SkipSection
      BY <1>6, <3>1, <3>2 DEF LeaveSection, FirstOuter, SkipSection
    <3> QED  BY <3>2, <3>3 DEF DataLabel, DataValues, DataJunk, Advance
  <2>3. pos \in Lines /\ Item = source[pos]
    BY <1>1, <1>6 DEF Lines, AtEnd, Item
  <2>4. ASSUME NEW p \in Lines, p = pos PROVE Entered(p)'
    <3> SUFFICES ASSUME InSection(pos, "data"), ~Opened(pos)
                 PROVE  /\ Item.type = "VALUES" =>
                             \A k \in 1 .. Item.count :
                               \E i \in 1 .. Len(data_buffer') : data_buffer'[i].line = pos /\ data_buffer'[i].nth = k
                        /\ Item.type = "LABEL" /\ Item.value # "text" => symbol_table'[Item.value] # Unknown
      <4>1. InSection(p, "data")' = InSection(pos, "data") /\ Opened(p)' = Opened(pos)
        BY <1>1, <2>4, SameSections
      <4> QED  BY <1>1, <2>3, <2>4, <4>1 DEF Entered, Known
    <3>1. ASSUME Item.type = "VALUES"
          PROVE  \A k \in 1 .. Item.count :
                   \E i \in 1 .. Len(data_buffer') : data_buffer'[i].line = pos /\ data_buffer'[i].nth = k
      <4>1. Item.value # "text"
        BY <1>6, <3>1, Mute DEF Reads, Leaves
      <4>2. DataValues
        BY <2>2, <3>1, <4>1 DEF DataLabel, DataJunk, Is, Sees
      <4> QED  BY <4>2, ValuesAdded
    <3>2. ASSUME Item.type = "LABEL", Item.value # "text" PROVE symbol_table'[Item.value] # Unknown
      <4>1. DataLabel
        BY <2>2, <3>2 DEF DataValues, DataJunk, Is, Sees
      <4>2. Item.value \in Names /\ symbol_table \in [Names -> Symbol]
        BY <1>6, <3>2, ItemType DEF TypeOK
      <4>3. symbol_table'[Item.value] = [address |-> data_index', line |-> pos, isData |-> TRUE]
        BY <4>1, <4>2 DEF DataLabel, Define
      <4> QED  BY <1>1, <4>3 DEF Unknown
    <3> QED  BY <3>1, <3>2
  <2>5. InData'
    <3> SUFFICES ASSUME InSection(pos + 1, "data"), ~Opened(pos + 1) PROVE section' = "data"
      BY <1>1, <1>6 DEF InData, InSection, Opened
    <3>1. Item.value # "text" /\ (Opened(pos) => Item.type = "DIRECTIVE")
      BY <1>1, <2>3, SectionsGoOn
    <3>2. CASE Item = [type |-> "DIRECTIVE", value |-> "data"]
      <4>1. Reads({"data"}) /\ Item.type = "DIRECTIVE"
        BY <1>6, <3>2 DEF Reads
      <4> QED  BY <2>0, <4>1 DEF FirstOuter, LeaveSection, SkipSection, DataLabel, DataValues, DataJunk, Advance,
                   Enter, GoTo, Is, Sees, Reads, Leaves, Sections
    <3>3. CASE InSection(pos, "data") /\ Item.type # "DIRECTIVE"
      BY <2>2, <3>1, <3>3
    <3> QED  BY <1>1, <2>3, <3>2, <3>3, SectionsGoOn
  <2>6. \A p \in Lines : p < pos + 1 => p < pos \/ p = pos
    BY <1>1 DEF Lines
  <2>7. Lines' = Lines
    BY <1>1 DEF Lines
  <2>8. Complete'
    BY <1>1, <1>4, <1>6, <2>4, <2>6, <2>7 DEF Complete, Accepted
  <2> QED  BY <1>1, <2>5, <2>8 DEF NInv, InText
<1> QED  BY <1>1, <1>5, <1>6

(* An instruction of the source is an error or one or two of the code,     *)
(* which come from its line.                                               *)
LEMMA Emitted ==
  ASSUME TypeOK, Instruction
  PROVE  \/ errors' /\ UNCHANGED intermediate_code
         \/ \E units \in Seq(Unit) :
              /\ Len(units) > 0 /\ \A u \in 1 .. Len(units) : units[u].line = pos
              /\ Emit(units)
<1>1. ~AtEnd /\ Item.type = "OPCODE" /\ Item.label \in Names /\ Item.imm \in Int /\ pos \in Nat \ {0}
  BY ItemType DEF Instruction, Branch, DataReference, LoadImmediate, Plain, Is, Sees, TypeOK
<1>2. ASSUME NEW op \in {"plain", "beq", "jal", "auipc", "lui", "addi", "load"},
             NEW label \in Names \cup {NoLabel}, NEW imm \in Int, NEW done \in BOOLEAN
      PROVE  Make(op, label, imm, done) \in Unit /\ Make(op, label, imm, done).line = pos
  BY MakeType DEF Make
<1>3. ASSUME NEW u \in Unit, u.line = pos, Emit(<<u>>)
      PROVE  \E units \in Seq(Unit) : /\ Len(units) > 0 /\ \A k \in 1 .. Len(units) : units[k].line = pos
                                      /\ Emit(units)
  <2>1. <<u>> \in Seq(Unit) /\ Len(<<u>>) = 1 /\ <<u>>[1] = u
    BY OneUnit
  <2>2. Len(<<u>>) > 0 /\ \A k \in 1 .. Len(<<u>>) : <<u>>[k].line = pos
    BY <1>3, <2>1
  <2> QED  BY <1>3, <2>1, <2>2
<1>4. ASSUME NEW u \in Unit, NEW v \in Unit, u.line = pos, v.line = pos, Emit(<<u, v>>)
      PROVE  \E units \in Seq(Unit) : /\ Len(units) > 0 /\ \A k \in 1 .. Len(units) : units[k].line = pos
                                      /\ Emit(units)
  <2>1. <<u, v>> \in Seq(Unit) /\ Len(<<u, v>>) = 2 /\ <<u, v>>[1] = u /\ <<u, v>>[2] = v
    BY TwoUnits
  <2>2. Len(<<u, v>>) > 0 /\ \A k \in 1 .. Len(<<u, v>>) : <<u, v>>[k].line = pos
    BY <1>4, <2>1
  <2> QED  BY <1>4, <2>1, <2>2
<1>5. CASE Branch
  <2>1. Item.value \in {"beq", "jal"}
    BY <1>5 DEF Branch, Is
  <2>2. Distance(Item.label, instruction_index) \in Int
    BY <1>1, DistanceType DEF TypeOK
  <2> DEFINE far == Make(Item.value, Item.label, Distance(Item.label, instruction_index), TRUE)
             later == Make(Item.value, Item.label, 0, FALSE)
  <2>3. far \in Unit /\ far.line = pos
    <3>1. /\ Item.value \in {"plain", "beq", "jal", "auipc", "lui", "addi", "load"}
          /\ Item.label \in Names \cup {NoLabel} /\ TRUE \in BOOLEAN
      BY <1>1, <2>1
    <3> QED  BY <1>2, <2>2, <3>1
  <2>4. later \in Unit /\ later.line = pos
    <3>1. /\ Item.value \in {"plain", "beq", "jal", "auipc", "lui", "addi", "load"}
          /\ Item.label \in Names \cup {NoLabel} /\ 0 \in Int /\ FALSE \in BOOLEAN
      BY <1>1, <2>1
    <3> QED  BY <1>2, <3>1
  <2>5. Emit(<<later>>) \/ Emit(<<far>>) \/ Reject
    BY <1>5 DEF Branch
  <2> HIDE DEF far, later
  <2> QED  BY <1>3, <2>3, <2>4, <2>5 DEF Reject, Fail, code
<1>6. CASE DataReference
  <2> DEFINE offset == DataStart + symbol_table[Item.label].address - 4 * instruction_index
             second == IF Item.value = "la" THEN "addi" ELSE "load"
             upper == Make("auipc", Item.label, High(offset), TRUE)
             lower == Make(second, Item.label, Low(offset), TRUE)
  <2>1. offset \in Int
    <3>1. symbol_table[Item.label] \in Symbol
      BY <1>1 DEF TypeOK
    <3>2. DataStart \in Nat /\ instruction_index \in Nat
      BY ReachAssumption DEF TypeOK
    <3>3. symbol_table[Item.label].address \in Nat
      BY <3>1 DEF Symbol
    <3> QED  BY <3>2, <3>3
  <2> HIDE DEF offset
  <2>2. High(offset) \in Int /\ Low(offset) \in Int
    BY <2>1, HighLow
  <2>3. upper \in Unit /\ upper.line = pos /\ lower \in Unit /\ lower.line = pos
    BY <1>1, <1>2, <2>2
  <2>4. Emit(<<upper, lower>>) \/ Reject
    BY <1>6 DEF DataReference, offset
  <2> HIDE DEF upper, lower
  <2> QED  BY <1>4, <2>3, <2>4 DEF Reject, Fail, code
<1>7. CASE LoadImmediate
  <2> DEFINE upper == Make("lui", NoLabel, High(Item.imm), TRUE)
             lower == Make("addi", NoLabel, Low(Item.imm), TRUE)
             alone == Make("addi", NoLabel, Item.imm, TRUE)
  <2>1. High(Item.imm) \in Int /\ Low(Item.imm) \in Int
    BY <1>1, HighLow
  <2>2. /\ upper \in Unit /\ upper.line = pos /\ lower \in Unit /\ lower.line = pos
        /\ alone \in Unit /\ alone.line = pos
    BY <1>1, <1>2, <2>1
  <2>3. Emit(<<upper, lower>>) \/ Emit(<<upper>>) \/ Emit(<<alone>>) \/ Reject
    BY <1>7 DEF LoadImmediate
  <2> HIDE DEF upper, lower, alone
  <2> QED  BY <1>3, <1>4, <2>2, <2>3 DEF Reject, Fail, code
<1>8. CASE Plain
  <2> DEFINE plain == Make("plain", NoLabel, 0, TRUE)
  <2>1. plain \in Unit /\ plain.line = pos
    <3>1. /\ "plain" \in {"plain", "beq", "jal", "auipc", "lui", "addi", "load"}
          /\ NoLabel \in Names \cup {NoLabel} /\ 0 \in Int /\ TRUE \in BOOLEAN
      OBVIOUS
    <3> QED  BY <1>2, <3>1
  <2>2. Emit(<<plain>>) \/ Reject
    BY <1>8 DEF Plain
  <2> HIDE DEF plain
  <2> QED  BY <1>3, <2>1, <2>2 DEF Reject, Fail, code
<1> QED  BY <1>5, <1>6, <1>7, <1>8 DEF Instruction

LEMMA InstructionAdded ==
  ASSUME TypeOK, Instruction
  PROVE  /\ \A i \in Numbers : i \in Numbers' /\ intermediate_code'[i] = intermediate_code[i]
         /\ errors' \/ \E i \in Numbers' : intermediate_code'[i].line = pos
<1>1. intermediate_code \in Seq(Unit) /\ Len(intermediate_code) \in Nat
  BY DEF TypeOK
<1>2. CASE errors' /\ UNCHANGED intermediate_code
  BY <1>2 DEF Numbers
<1>3. ASSUME NEW units \in Seq(Unit), Len(units) > 0, \A u \in 1 .. Len(units) : units[u].line = pos, Emit(units)
      PROVE  /\ \A i \in Numbers : i \in Numbers' /\ intermediate_code'[i] = intermediate_code[i]
             /\ \E i \in Numbers' : intermediate_code'[i].line = pos
  <2> DEFINE len == Len(intermediate_code)
  <2>1. Len(units) \in Nat
    OBVIOUS
  <2>2. /\ Len(intermediate_code') = len + Len(units)
        /\ \A i \in 1 .. len : intermediate_code'[i] = intermediate_code[i]
        /\ \A i \in 1 .. len + Len(units) :
             i > len => i - len \in 1 .. Len(units) /\ intermediate_code'[i] = units[i - len]
    BY <1>1, <1>3, Concat DEF Emit
  <2>3. Numbers = 1 .. len /\ Numbers' = 1 .. len + Len(units)
    BY <2>2 DEF Numbers
  <2> HIDE DEF len
  <2>4. len \in Nat /\ len + 1 \in 1 .. len + Len(units) /\ len + 1 > len
    BY <1>1, <1>3, <2>1 DEF len
  <2>5. \A i \in 1 .. len : i \in 1 .. len + Len(units)
    BY <2>1, <2>4
  <2> QED  BY <1>3, <2>2, <2>3, <2>4, <2>5
<1> QED  BY <1>2, <1>3, Emitted

(* A step of the second pass keeps what is known and the code it made, and *)
(* what it passes where text is open it assembles.                         *)
LEMMA NSecond ==
  ASSUME TypeOK, NInv, phase = "second",
         SecondOuter \/ SkipToText \/ LeaveText \/ TextLabel \/ Instruction,
         UNCHANGED <<source, phase, data_buffer, data_index, results>>
  PROVE  NInv'
<1>1. /\ UNCHANGED <<source, phase, data_buffer>> /\ pos \in Nat \ {0} /\ Len(source) \in Nat
      /\ pos' = pos \/ (pos' = pos + 1 /\ ~AtEnd)
  <2>1. pos \in Nat \ {0} /\ Len(source) \in Nat
    BY DEF TypeOK
  <2>2. pos' = pos \/ (pos' = pos + 1 /\ ~AtEnd)
    <3>1. SecondOuter => pos' = pos \/ (pos' = pos + 1 /\ ~AtEnd)
      BY DEF SecondOuter, Advance, Enter, GoTo
    <3>2. LeaveText => pos' = pos
      BY DEF LeaveText, GoTo
    <3>3. SkipToText => pos' = pos \/ (pos' = pos + 1 /\ ~AtEnd)
      BY DEF SkipToText, GoTo, Advance
    <3>4. TextLabel => pos' = pos + 1 /\ ~AtEnd
      BY DEF TextLabel, Advance
    <3>5. Instruction => pos' = pos + 1 /\ ~AtEnd
      BY DEF Instruction, Advance, Branch, DataReference, LoadImmediate, Plain, Is, Sees
    <3> QED  BY <3>1, <3>2, <3>3, <3>4, <3>5
  <2> QED  BY <2>1, <2>2
<1>2. ASSUME NEW n \in Names, Known(n) PROVE Known(n)'
  <2>1. CASE TextLabel /\ symbol_table' # symbol_table
    <3>1. /\ Item.value \in Names /\ ~Known(Item.value)
          /\ symbol_table' = [symbol_table EXCEPT ![Item.value] =
                               [address |-> 4 * instruction_index, line |-> pos, isData |-> FALSE]]
      BY <2>1, ItemType DEF TextLabel, Define
    <3>2. symbol_table \in [Names -> Symbol]
      BY DEF TypeOK
    <3> QED  BY <1>2, <3>1, <3>2 DEF Known
  <2>2. CASE symbol_table' = symbol_table
    BY <1>2, <2>2 DEF Known
  <2>3. symbol_table' = symbol_table \/ TextLabel
    BY DEF SecondOuter, SkipToText, LeaveText, Instruction
  <2> QED  BY <2>1, <2>2, <2>3
<1>3. ASSUME NEW i \in Numbers
      PROVE  i \in Numbers' /\ intermediate_code'[i].line = intermediate_code[i].line
  <2>1. CASE Instruction
    BY <2>1, InstructionAdded
  <2>2. CASE ~Instruction
    BY <2>2 DEF SecondOuter, SkipToText, LeaveText, TextLabel, code, Numbers
  <2> QED  BY <2>1, <2>2
<1>4. errors => errors'
  <2>1. Instruction => errors' \in {errors, TRUE}
    BY DEF Instruction, Branch, DataReference, LoadImmediate, Plain, Reject, Fail
  <2>2. SecondOuter \/ SkipToText \/ LeaveText \/ TextLabel => errors' \in {errors, TRUE}
    BY DEF SecondOuter, SkipToText, LeaveText, TextLabel, Fail
  <2> QED  BY <2>1, <2>2
<1>5. ASSUME NEW p \in Lines PROVE Entered(p)'
  <2>1. Entered(p)
    BY DEF NInv, Complete
  <2> QED  BY <1>1, <1>2, <2>1, EnteredStays
<1>6. ASSUME NEW p \in Lines, p < pos PROVE Assembled(p)'
  <2>1. Assembled(p)
    BY <1>6 DEF NInv, Complete
  <2> QED  BY <1>1, <1>2, <1>3, <1>4, <2>1, AssembledStays
<1>7. Lines' = Lines
  BY <1>1 DEF Lines
<1>8. CASE pos' = pos
  <2>1. InText'
    <3> SUFFICES ASSUME ~AtEnd, Item.type # "DIRECTIVE", Opened(pos) PROVE section' \in {"none", "text"}
      BY <1>1, <1>8 DEF InText, AtEnd, Item, Opened
    <3>1. section \in {"none", "text"}
      BY DEF NInv, InText
    <3>2. pos' # pos + 1
      BY <1>1, <1>8
    <3> QED  BY <3>1, <3>2 DEF SecondOuter, SkipToText, LeaveText, TextLabel, Instruction, GoTo, Advance, Enter,
                Is, Sees
  <2>2. Complete'
    BY <1>1, <1>5, <1>6, <1>7, <1>8 DEF Complete, Accepted
  <2> QED  BY <1>1, <2>1, <2>2 DEF NInv, InData
<1>9. CASE pos' = pos + 1 /\ ~AtEnd
  <2>0. pos' # pos
    BY <1>1, <1>9
  <2>1. pos \in Lines /\ Item = source[pos]
    BY <1>1, <1>9 DEF Lines, AtEnd, Item
  <2>2. ASSUME Item.value = "text" PROVE section \in {"none", "text"} /\ section' = "text"
    <3>1. Item.type \in {"DIRECTIVE", "LABEL"}
      BY <1>9, <2>2, ItemType, Mute DEF Items, Directives, Labels, DataLines, TextLines, Reads, Leaves
    <3>2. Reads({"text"}) /\ Item.value \notin {"section", "data", "bss"}
      BY <1>9, <2>2 DEF Reads
    <3> QED  BY <2>0, <3>1, <3>2 DEF SecondOuter, SkipToText, LeaveText, TextLabel, Instruction, Branch,
                DataReference, LoadImmediate, Plain, GoTo, Advance, Enter, Is, Sees
  <2>3. ASSUME Opened(pos), Item.type # "DIRECTIVE" PROVE section \in {"none", "text"} /\ section' = section
    <3>1. section \in {"none", "text"}
      BY <1>9, <2>3 DEF NInv, InText
    <3> QED  BY <2>0, <2>3, <3>1 DEF SecondOuter, SkipToText, LeaveText, TextLabel, Instruction, GoTo, Advance, Enter,
                Is, Sees
  <2>4. InText'
    <3> SUFFICES ASSUME Opened(pos + 1) PROVE section' \in {"none", "text"}
      BY <1>1, <1>9 DEF InText, Opened
    <3>1. Item.value = "text" \/ (Opened(pos) /\ Item.type # "DIRECTIVE")
      BY <1>1, <2>1, SectionsGoOn
    <3> QED  BY <2>2, <2>3, <3>1
  <2>5. ASSUME NEW p \in Lines, p = pos PROVE Assembled(p)'
    <3>1. CASE Opened(pos) /\ Item.type = "OPCODE"
      <4>1. section \in {"none", "text"}
        BY <2>3, <3>1
      <4>2. Instruction
        BY <2>0, <3>1, <4>1 DEF SecondOuter, SkipToText, LeaveText, TextLabel, GoTo, Advance, Enter, Is, Sees
      <4>3. errors' \/ \E i \in Numbers' : intermediate_code'[i].line = p
        BY <2>5, <4>2, InstructionAdded
      <4> QED  BY <1>1, <2>1, <2>5, <3>1, <4>3 DEF Assembled
    <3>2. CASE Opened(pos) /\ Item.type = "VALUES"
      <4>1. section \in {"none", "text"}
        BY <2>3, <3>2
      <4>2. errors'
        BY <2>0, <3>2, <4>1 DEF SecondOuter, SkipToText, LeaveText, TextLabel, Instruction, Branch,
           DataReference, LoadImmediate, Plain, GoTo, Advance, Enter, Is, Sees, Fail
      <4> QED  BY <4>2 DEF Assembled
    <3>3. CASE Item.type = "LABEL" /\ (Opened(pos) \/ Item.value = "text")
      <4>1. section \in {"none", "text"}
        BY <2>2, <2>3, <3>3
      <4>2. TextLabel
        BY <2>0, <3>3, <4>1 DEF SecondOuter, SkipToText, LeaveText, Instruction, Branch,
           DataReference, LoadImmediate, Plain, GoTo, Advance, Enter, Is, Sees
      <4>3. Item.value \in Names /\ symbol_table \in [Names -> Symbol]
        BY <1>9, <3>3, ItemType DEF TypeOK
      <4>4. errors' \/ symbol_table'[Item.value] # Unknown
        BY <1>1, <4>2, <4>3 DEF TextLabel, Define, Fail, Known, Unknown
      <4> QED  BY <1>1, <2>1, <2>5, <3>3, <4>4 DEF Assembled, Known
    <3>4. CASE ~(Opened(pos) /\ Item.type \in {"OPCODE", "VALUES"}) /\ ~(Item.type = "LABEL" /\ (Opened(pos) \/ Item.value = "text"))
      <4>1. Opened(p)' = Opened(pos)
        BY <1>1, <2>5, SameSections
      <4> QED  BY <1>1, <2>1, <2>5, <3>4, <4>1 DEF Assembled
    <3> QED  BY <3>1, <3>2, <3>3, <3>4
  <2>6. \A p \in Lines : p < pos + 1 => p < pos \/ p = pos
    BY <1>1 DEF Lines
  <2>7. Complete'
    BY <1>1, <1>5, <1>6, <1>7, <1>9, <2>5, <2>6 DEF Complete, Accepted
  <2> QED  BY <1>1, <2>4, <2>7 DEF NInv, InData
<1> QED  BY <1>1, <1>8, <1>9

LEMMA NNext ==
  ASSUME TypeOK, NInv, [Next]_vars
  PROVE  NInv'
<1>1. pos \in Nat \ {0} /\ Len(source) \in Nat
  BY DEF TypeOK
<1>2. CASE First /\ ~EndFirst
  BY <1>2, NFirst DEF First
<1>3. CASE First /\ EndFirst
  <2>1. /\ phase = "first" /\ phase' = "second" /\ pos' = 1 /\ section' = "none"
        /\ UNCHANGED <<source, data_buffer, symbol_table>>
    BY <1>3 DEF First, EndFirst, symbols
  <2>2. \A p \in Lines : p < pos
    BY <1>1, <1>3 DEF EndFirst, AtEnd, Lines
  <2>3. \A p \in Lines : Entered(p)
    BY <2>2 DEF NInv, Complete
  <2>4. \A p \in Lines : Entered(p)'
    BY <2>1, <2>3 DEF Entered, Opened, InSection, Known
  <2>5. Lines' = Lines /\ \A p \in Lines : ~(p < 1)
    BY <1>1, <2>1 DEF Lines
  <2>6. Complete'
    BY <2>1, <2>4, <2>5 DEF Complete, Accepted
  <2> QED  BY <2>1, <2>6 DEF NInv, InData, InText
<1>4. CASE Second /\ ~EndSecond
  BY <1>4, NSecond DEF Second
<1>5. CASE Second /\ EndSecond
  <2>1. /\ phase = "second" /\ phase' = "patch"
        /\ UNCHANGED <<source, symbol_table, data_buffer, intermediate_code, errors>>
    BY <1>5 DEF Second, EndSecond, symbols, code
  <2>2. \A p \in Lines : p < pos
    BY <1>1, <1>5 DEF EndSecond, AtEnd, Lines
  <2>3. \A p \in Lines : Entered(p) /\ Assembled(p)
    BY <2>1, <2>2 DEF NInv, Complete
  <2>4. \A p \in Lines : Entered(p)' /\ Assembled(p)'
    BY <2>1, <2>3 DEF Entered, Assembled, Opened, InSection, Known, Numbers
  <2>5. Lines' = Lines
    BY <2>1 DEF Lines
  <2> QED  BY <2>1, <2>4, <2>5 DEF NInv, InData, InText, Complete, Accepted
<1>6. CASE Patch
  <2>1. /\ phase = "patch" /\ phase' = "patch"
        /\ errors => errors'
        /\ UNCHANGED <<source, symbol_table, data_buffer>>
    BY <1>6 DEF Patch, symbols
  <2>2. \A i \in Numbers : i \in Numbers' /\ intermediate_code'[i].line = intermediate_code[i].line
    <3>1. intermediate_code \in Seq(Unit)
      BY DEF TypeOK
    <3>2. \A i \in Numbers : intermediate_code[i] \in Unit
      BY <3>1 DEF Numbers
    <3> DEFINE index == back_patch[pos]
               unit == intermediate_code[index + 1]
    <3> DEFINE allowed == IsText(unit.label) \/ (unit.op = "jal" /\ IsData(unit.label))
               offset  == Distance(unit.label, index)
               new == CASE allowed /\ Fits(offset, Reach(unit.op)) -> [unit EXCEPT !.imm = offset, !.done = TRUE]
                        [] unit.op = "beq" /\ IsData(unit.label) -> [unit EXCEPT !.done = TRUE]
                        [] OTHER -> unit
    <3>3. intermediate_code' = [intermediate_code EXCEPT ![index + 1] = new]
      BY <1>6 DEF Patch
    <3>4. unit \in Unit => new.line = unit.line
      <4>1. CASE allowed /\ Fits(offset, Reach(unit.op))
        <5>1. new = [unit EXCEPT !.imm = offset, !.done = TRUE]
          <6>1. ~(unit.op = "beq" /\ IsData(unit.label))
            BY <4>1 DEF IsText, IsData
          <6> QED  BY <4>1, <6>1
        <5> HIDE DEF new, offset, allowed
        <5> QED  BY <5>1 DEF Unit
      <4>2. CASE ~(allowed /\ Fits(offset, Reach(unit.op)))
        <5>1. new = unit \/ new = [unit EXCEPT !.done = TRUE]
          BY <4>2
        <5> HIDE DEF new, offset, allowed
        <5> QED  BY <5>1 DEF Unit
      <4> QED  BY <4>1, <4>2
    <3> HIDE DEF new, offset, allowed
    <3>5. Len(intermediate_code') = Len(intermediate_code) /\ DOMAIN intermediate_code = Numbers
      BY <3>1, <3>3 DEF Numbers
    <3>6. Numbers' = Numbers
      BY <3>5 DEF Numbers
    <3> HIDE DEF index
    <3> QED  BY <3>2, <3>3, <3>4, <3>5, <3>6
  <2>3. ASSUME NEW p \in Lines PROVE Entered(p)' /\ Assembled(p)'
    <3>1. Entered(p) /\ Assembled(p)
      BY <2>1 DEF NInv, Complete
    <3> QED  BY <2>1, <2>2, <3>1, AssembledStays, EnteredStays DEF Known
  <2>4. Lines' = Lines
    BY <2>1 DEF Lines
  <2> QED  BY <2>1, <2>3, <2>4 DEF NInv, InData, InText, Complete, Accepted
<1>7. CASE Conclude \/ MapLines \/ EndLines \/ LoadData \/ EndLoad
  <2>1. /\ phase \notin {"first", "second"} /\ phase' \notin {"first", "second"}
        /\ Accepted' => ~errors \/ Accepted
        /\ UNCHANGED <<source, symbol_table, data_buffer, intermediate_code, errors>>
    BY <1>7 DEF Conclude, MapLines, EndLines, LoadData, EndLoad, symbols, code, Accepted
  <2>2. ASSUME NEW p \in Lines PROVE Entered(p)' /\ Assembled(p)'
    <3>1. Entered(p) /\ Assembled(p)
      BY <2>1 DEF NInv, Complete
    <3> QED  BY <2>1, <3>1 DEF Entered, Assembled, Opened, InSection, Known, Numbers
  <2>3. Lines' = Lines
    BY <2>1 DEF Lines
  <2> QED  BY <2>1, <2>2, <2>3 DEF NInv, InData, InText, Complete
<1>8. CASE UNCHANGED vars
  BY <1>8 DEF vars, symbols, code, results, NInv, InData, InText, Complete, Entered, Assembled, Opened, InSection,
     Known, Numbers, Lines, AtEnd, Reads, Item, Accepted
<1> QED  BY <1>2, <1>3, <1>4, <1>5, <1>6, <1>7, <1>8 DEF Next

LEMMA NInit ==
  ASSUME TypeOK, Init
  PROVE  NInv
<1>1. pos = 1 /\ phase = "first" /\ Len(source) \in Nat
  BY DEF Init, TypeOK
<1>2. ~InSection(pos, "data")
  BY <1>1 DEF InSection
<1>3. \A p \in Lines : ~(p < pos)
  BY <1>1 DEF Lines
<1> QED  BY <1>1, <1>2, <1>3 DEF NInv, InData, InText, Complete, Accepted

(* Of a source that the parser accepts, nothing in a text or data section  *)
(* is lost between its two passes, which find the sections each in its own *)
(* way: every instruction has become code, every label is in the symbol    *)
(* table and every value is in the data buffer.                            *)
THEOREM AssemblerNothingLost == Spec => []NothingLost
<1>1. LInv /\ NInv => NothingLost
  <2> SUFFICES ASSUME NInv, Accepted, NEW p \in Lines
               PROVE  /\ source[p].type = "OPCODE" /\ InSection(p, "text") =>
                           \E i \in Numbers : intermediate_code[i].line = p
                      /\ source[p].type = "LABEL" /\ (InSection(p, "text") \/ InSection(p, "data")) =>
                           Known(source[p].value)
                      /\ source[p].type = "VALUES" /\ InSection(p, "data") =>
                           \A k \in 1 .. source[p].count :
                             \E i \in 1 .. Len(data_buffer) :
                               data_buffer[i].line = p /\ data_buffer[i].nth = k
    BY DEF NothingLost, Lines
  <2>1. phase \notin {"first", "second"} /\ ~errors
    BY DEF NInv, Complete, Accepted
  <2>2. Entered(p) /\ Assembled(p)
    BY <2>1 DEF NInv, Complete
  <2>3. InSection(p, "text") => Opened(p)
    BY DEF InSection, Opened
  <2> QED  BY <2>1, <2>2, <2>3 DEF Entered, Assembled
<1>2. Init => LInv /\ NInv
  BY LInit, NInit DEF LInv
<1>3. (LInv /\ NInv) /\ [Next]_vars => (LInv /\ NInv)'
  BY LNext, NNext DEF LInv
<1> QED  BY <1>1, <1>2, <1>3, PTL DEF Spec

=============================================================================
