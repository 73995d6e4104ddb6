----------------------------- MODULE Assembler -----------------------------
(***************************************************************************)
(* The assembler (src/assembler/parser.cpp, parse_formats/, assembler.cpp) *)
(* and the loading of what it makes (src/vm/vm_base.cpp).                  *)
(*                                                                         *)
(* A source is a sequence of lines, each of which holds one item: a        *)
(* section directive, a label, a data directive with its operands, or an   *)
(* instruction.  A step is one turn of the loop the parser is in: two      *)
(* passes over the source, the back-patching of labels, the map from lines *)
(* to instructions, and the loading of the data.                           *)
(*                                                                         *)
(* Widths of immediates are parameters: an immediate of addi and of loads  *)
(* covers -Page \div 2 .. Page \div 2 - 1, lui and auipc count in Pages    *)
(* (4096 in the code).                                                     *)
(***************************************************************************)
EXTENDS Integers, Sequences

CONSTANTS
  Programs,     (* the sources that may be assembled                       *)
  Names,        (* what labels are called                                  *)
  Page,         (* 2^12                                                    *)
  BranchReach,  (* 4096                                                    *)
  JumpReach,    (* 1048576                                                 *)
  WordReach,    (* 2^31                                                    *)
  DataStart,    (* config.data_section_start                               *)
  MExtension    (* config.m_extension_enabled                              *)

Directives == [type : {"DIRECTIVE"}, value : {"section", "data", "bss", "text"}]
Labels     == [type : {"LABEL"}, value : Names]
DataLines  == [type : {"VALUES"}, value : {"values", "zero"},
               size : {1, 2, 4, 8}, count : Nat]
Opcodes    == {"plain", "mul", "bad", "beq", "jal", "la", "lw", "li"}
TextLines  == [type : {"OPCODE"}, value : Opcodes, label : Names, imm : Int]
Items      == Directives \cup Labels \cup DataLines \cup TextLines

ASSUME ProgramAssumption == Programs \subseteq Seq(Items)
ASSUME PageAssumption    == Page \in Nat /\ Page # 0 /\ Page % 2 = 0
ASSUME ReachAssumption   == {BranchReach, JumpReach, WordReach, DataStart} \subseteq Nat
ASSUME FlagAssumption    == MExtension \in BOOLEAN

VARIABLES
  source,             (* tokens_                                           *)
  phase,              (* how far the assembly has come                     *)
  section,            (* the loop of a pass: the outer one, or a section's *)
  pos,                (* pos_, or the index of a later loop                *)
  symbol_table,       (* symbol_table_                                     *)
  data_buffer,        (* data_buffer_                                      *)
  data_index,         (* data_index_                                       *)
  intermediate_code,  (* intermediate_code_                                *)
  instruction_index,  (* instruction_index_                                *)
  back_patch,         (* back_patch_                                       *)
  errors,             (* errors_.count # 0                                 *)
  line_map,           (* line_number_instruction_number_mapping            *)
  prev_line,          (* of the loop that fills it                         *)
  data_counter,       (* of LoadProgram                                    *)
  memory              (* the data section: where which value is            *)

symbols == <<symbol_table, data_buffer, data_index>>
code    == <<intermediate_code, instruction_index, back_patch>>
results == <<line_map, prev_line, data_counter, memory>>
vars    == <<source, phase, section, pos, symbols, code, errors, results>>

NoLabel == "no label"
Unknown == [address |-> 0, line |-> 0, isData |-> FALSE]
Symbol  == [address : Nat, line : Nat, isData : BOOLEAN]
Unit    == [op : {"plain", "beq", "jal", "auipc", "lui", "addi", "load"},
            line : Nat \ {0}, label : Names \cup {NoLabel}, imm : Int, done : BOOLEAN]
Value   == [line : Nat \ {0}, nth : Nat \ {0}, size : {1, 2, 4, 8}]

TypeOK ==
  /\ source \in Seq(Items)
  /\ phase \in {"first", "second", "patch", "lines", "load", "ready", "failed"}
  /\ section \in {"none", "data", "bss", "text", "skip"}
  /\ pos \in Nat \ {0}
  /\ symbol_table \in [Names -> Symbol]
  /\ data_buffer \in Seq(Value)
  /\ data_index \in Nat
  /\ intermediate_code \in Seq(Unit)
  /\ instruction_index \in Nat
  /\ back_patch \in Seq(Nat)
  /\ errors \in BOOLEAN
  /\ line_map \in [1 .. Len(source) -> Nat \cup {-1}]
  /\ prev_line \in Nat
  /\ data_counter \in Nat
  /\ memory \subseteq [value : Value, address : Nat]

Init ==
  /\ source \in Programs
  /\ phase = "first"
  /\ section = "none"
  /\ pos = 1
  /\ symbol_table = [n \in Names |-> Unknown]
  /\ data_buffer = << >>
  /\ data_index = 0
  /\ intermediate_code = << >>
  /\ instruction_index = 0
  /\ back_patch = << >>
  /\ errors = FALSE
  /\ line_map = [l \in 1 .. Len(source) |-> -1]
  /\ prev_line = 1
  /\ data_counter = 0
  /\ memory = {}

----------------------------------------------------------------------------
(* The item at hand.                                                       *)

AtEnd == pos > Len(source)
Item  == source[pos]

Sees(types) == ~AtEnd /\ Item.type \in types

Is(type, values) == Sees({type}) /\ Item.value \in values

(* The parser compares the text of a token, a label's included.            *)
Reads(values) == ~AtEnd /\ Item.value \in values

Align(n, alignment) ==
  IF n % alignment # 0 THEN n + (alignment - (n % alignment)) ELSE n

Known(n)  == symbol_table[n] # Unknown
IsText(n) == Known(n) /\ ~symbol_table[n].isData
IsData(n) == Known(n) /\ symbol_table[n].isData

Define(n, address, isData) ==
  symbol_table' = [symbol_table EXCEPT ![n] =
                    [address |-> address, line |-> pos, isData |-> isData]]

GoTo(s) == section' = s /\ UNCHANGED pos
Advance == pos' = pos + 1 /\ UNCHANGED section
Fail    == errors' = TRUE
Enter(s) == section' = s /\ pos' = pos + 1

----------------------------------------------------------------------------
(* The first pass: parse, parseDataDirective, parseBSSDirective.           *)

(* Mutant: text runs on into a data section without .section.              *)
SectionsWithoutData == {"section", "bss"}

Sections == {"data", "section", "bss"}
Leaves   == {"text", "data", "bss", "section"}

(* The outer loop.  A section of text is only skipped.                     *)
FirstOuter ==
  /\ section = "none"
  /\ ~AtEnd
  /\ \/ Is("DIRECTIVE", {"section"}) /\ Advance /\ UNCHANGED errors
     \/ Is("DIRECTIVE", {"data"}) /\ Enter("data") /\ UNCHANGED errors
     \/ Is("DIRECTIVE", {"bss"}) /\ Enter("bss") /\ UNCHANGED errors
     \/ /\ Is("DIRECTIVE", {"text"}) \/ Item.type \in {"LABEL", "OPCODE"}
        /\ GoTo("text")
        /\ UNCHANGED errors
     \/ Item.type = "VALUES" /\ Advance /\ Fail
  /\ UNCHANGED symbols

LeaveSection ==
  /\ \/ section \in {"data", "bss"} /\ (AtEnd \/ Reads(Leaves))
     \/ section = "text" /\ (AtEnd \/ Reads(Sections))
  /\ GoTo("none")
  /\ UNCHANGED <<symbols, errors>>

SkipSection ==
  /\ \/ section = "bss" /\ ~AtEnd /\ ~Reads(Leaves)
     \/ section = "text" /\ ~AtEnd /\ ~Reads(Sections)
  /\ Advance
  /\ UNCHANGED <<symbols, errors>>

(* The index is aligned for the values that follow; a label that stands    *)
(* before anything else is entered and reported.                           *)
DataLabel ==
  /\ section = "data"
  /\ ~Reads(Leaves)
  /\ ~AtEnd
  /\ Item.type = "LABEL"
  /\ LET valued == pos < Len(source) /\ source[pos + 1].type = "VALUES"
     IN  /\ data_index' = IF valued THEN Align(data_index, source[pos + 1].size)
                                    ELSE data_index
         /\ errors' = (errors \/ ~valued)
  /\ Define(Item.value, data_index', TRUE)
  /\ Advance
  /\ UNCHANGED data_buffer

DataValues ==
  /\ section = "data"
  /\ Is("VALUES", {"values", "zero"})
  /\ data_buffer' = data_buffer \o
       [i \in 1 .. Item.count |-> [line |-> pos, nth |-> i, size |-> Item.size]]
  /\ data_index' = IF Item.count > 0
                   THEN Align(data_index, Item.size) + Item.count * Item.size
                   ELSE data_index
  /\ errors' = (errors \/ (Item.value = "zero" /\ Item.count = 0))
  /\ Advance
  /\ UNCHANGED symbol_table

DataJunk ==
  /\ section = "data"
  /\ ~Reads(Leaves)
  /\ Is("OPCODE", Opcodes)
  /\ Advance
  /\ Fail
  /\ UNCHANGED symbols

EndFirst ==
  /\ section = "none"
  /\ AtEnd
  /\ phase' = "second"
  /\ pos' = 1
  /\ UNCHANGED <<source, section, symbols, code, errors, results>>

First ==
  /\ phase = "first"
  /\ \/ /\ FirstOuter \/ LeaveSection \/ SkipSection \/ DataLabel \/ DataValues \/ DataJunk
        /\ UNCHANGED <<source, phase, code, results>>
     \/ EndFirst

----------------------------------------------------------------------------
(* The second pass: parse, parseTextDirective.                             *)

SecondOuter ==
  /\ section = "none"
  /\ ~AtEnd
  /\ \/ Is("DIRECTIVE", {"section"}) /\ Advance /\ UNCHANGED errors
     \/ Is("DIRECTIVE", {"data", "bss"}) /\ GoTo("skip") /\ UNCHANGED errors
     \/ Is("DIRECTIVE", {"text"}) /\ Enter("text") /\ UNCHANGED errors
     \/ Item.type \in {"LABEL", "OPCODE"} /\ GoTo("text") /\ UNCHANGED errors
     \/ Item.type = "VALUES" /\ Advance /\ Fail
  /\ UNCHANGED <<symbol_table, code>>

SkipToText ==
  /\ section = "skip"
  /\ IF AtEnd \/ Reads({"text"}) THEN GoTo("none") ELSE Advance
  /\ UNCHANGED <<symbol_table, code, errors>>

(* Mutant: the end of the source is not an end of the section.             *)
LeaveTextAtDirective ==
  /\ section = "text"
  /\ ~AtEnd
  /\ Item.type \in {"DIRECTIVE", "VALUES"}
  /\ GoTo("none")
  /\ UNCHANGED <<symbol_table, code, errors>>

LeaveText ==
  /\ section = "text"
  /\ AtEnd \/ Sees({"DIRECTIVE", "VALUES"})
  /\ GoTo("none")
  /\ UNCHANGED <<symbol_table, code, errors>>

TextLabel ==
  /\ section = "text"
  /\ ~AtEnd
  /\ Item.type = "LABEL"
  /\ IF Known(Item.value)
     THEN Fail /\ UNCHANGED symbol_table
     ELSE Define(Item.value, 4 * instruction_index, FALSE) /\ UNCHANGED errors
  /\ Advance
  /\ UNCHANGED code

(* Mutant: lines are counted from 0.                                       *)
MakeFromZero(op, label, imm, done) ==
  [op |-> op, line |-> pos - 1, label |-> label, imm |-> imm, done |-> done]

(* An instruction of the intermediate code.                                *)
Make(op, label, imm, done) ==
  [op |-> op, line |-> pos, label |-> label, imm |-> imm, done |-> done]

Emit(units) ==
  /\ intermediate_code' = intermediate_code \o units
  /\ instruction_index' = instruction_index + Len(units)

Reject ==
  /\ Fail
  /\ UNCHANGED code

Fits(offset, reach) == -reach =< offset /\ offset =< reach - 1

Reach(op) == IF op = "beq" THEN BranchReach ELSE JumpReach

(* Mutant: counts in lines, not in instructions.                           *)
DistanceInLines(n, index) == symbol_table[n].address - 4 * (pos - 1)

(* From instruction number index, counted from 0, to the label.            *)
Distance(n, index) == symbol_table[n].address - 4 * index

(* Branches and jumps to labels (parse_O_GPR_C_GPR_C_IL, parse_O_GPR_C_IL): *)
(* only what is known to be text is resolved at once.                      *)
Branch ==
  /\ Is("OPCODE", {"beq", "jal"})
  /\ LET offset == Distance(Item.label, instruction_index)
     IN  \/ /\ ~IsText(Item.label)
            /\ Emit(<<Make(Item.value, Item.label, 0, FALSE)>>)
            /\ back_patch' = Append(back_patch, instruction_index)
            /\ UNCHANGED errors
         \/ /\ IsText(Item.label)
            /\ Fits(offset, Reach(Item.value))
            /\ Emit(<<Make(Item.value, Item.label, offset, TRUE)>>)
            /\ UNCHANGED <<back_patch, errors>>
         \/ /\ IsText(Item.label)
            /\ ~Fits(offset, Reach(Item.value))
            /\ Reject

(* Mutant: the part below a page is cut off, not rounded.                  *)
HighTruncated(n) == n \div Page

(* n = High(n) * Page + Low(n), where Low(n) is a signed immediate.        *)
High(n) == (n + Page \div 2) \div Page
Low(n)  == n - High(n) * Page

(* la and the loads of a data label: auipc, then addi or the load.         *)
DataReference ==
  /\ Is("OPCODE", {"la", "lw"})
  /\ IF IsData(Item.label)
     THEN LET offset == DataStart + symbol_table[Item.label].address - 4 * instruction_index
              second == IF Item.value = "la" THEN "addi" ELSE "load"
          IN  /\ Emit(<<Make("auipc", Item.label, High(offset), TRUE),
                        Make(second, Item.label, Low(offset), TRUE)>>)
              /\ UNCHANGED <<back_patch, errors>>
     ELSE Reject

LoadImmediate ==
  /\ Is("OPCODE", {"li"})
  /\ LET upper == Make("lui", NoLabel, High(Item.imm), TRUE)
         lower == Make("addi", NoLabel, Low(Item.imm), TRUE)
     IN  \/ /\ Fits(Item.imm, Page \div 2)
            /\ Emit(<<Make("addi", NoLabel, Item.imm, TRUE)>>)
            /\ UNCHANGED <<back_patch, errors>>
         \/ /\ ~Fits(Item.imm, Page \div 2)
            /\ Fits(Item.imm, WordReach)
            /\ Emit(IF Low(Item.imm) # 0 THEN <<upper, lower>> ELSE <<upper>>)
            /\ UNCHANGED <<back_patch, errors>>
         \/ /\ ~Fits(Item.imm, Page \div 2)
            /\ ~Fits(Item.imm, WordReach)
            /\ Reject

(* Every other format: one instruction, or none if the operands are wrong  *)
(* or the extension is off.                                                *)
Plain ==
  LET right == {"plain"} \cup IF MExtension THEN {"mul"} ELSE {}
  IN  \/ /\ Is("OPCODE", right)
         /\ Emit(<<Make("plain", NoLabel, 0, TRUE)>>)
         /\ UNCHANGED <<back_patch, errors>>
      \/ /\ Is("OPCODE", {"plain", "mul", "bad"} \ right)
         /\ Reject

Instruction ==
  /\ section = "text"
  /\ Branch \/ DataReference \/ LoadImmediate \/ Plain
  /\ Advance
  /\ UNCHANGED symbol_table

EndSecond ==
  /\ section = "none"
  /\ AtEnd
  /\ phase' = "patch"
  /\ pos' = 1
  /\ UNCHANGED <<source, section, symbols, code, errors, results>>

Second ==
  /\ phase = "second"
  /\ \/ /\ SecondOuter \/ SkipToText \/ LeaveText \/ TextLabel \/ Instruction
        /\ UNCHANGED <<source, phase, data_buffer, data_index, results>>
     \/ EndSecond

----------------------------------------------------------------------------
(* The labels that were not known when they were met.                      *)

Patch ==
  /\ phase = "patch"
  /\ pos =< Len(back_patch)
  /\ LET index  == back_patch[pos]
         unit   == intermediate_code[index + 1]
         offset == Distance(unit.label, index)
         allowed == IsText(unit.label) \/ (unit.op = "jal" /\ IsData(unit.label))
     IN  /\ errors' = (errors \/ ~allowed \/ ~Fits(offset, Reach(unit.op)))
         /\ intermediate_code' =
              [intermediate_code EXCEPT ![index + 1] =
                CASE allowed /\ Fits(offset, Reach(unit.op)) -> [unit EXCEPT !.imm = offset, !.done = TRUE]
                  [] unit.op = "beq" /\ IsData(unit.label) -> [unit EXCEPT !.done = TRUE]
                  [] OTHER -> unit]
  /\ pos' = pos + 1
  /\ UNCHANGED <<source, phase, section, symbols, instruction_index, back_patch, results>>

(* assemble throws if there was any error.                                 *)
Conclude ==
  /\ phase = "patch"
  /\ pos > Len(back_patch)
  /\ phase' = IF errors THEN "failed" ELSE "lines"
  /\ pos' = 1
  /\ UNCHANGED <<source, section, symbols, code, errors, results>>

(* Mutant: a line of two instructions counts as one.                       *)
LinesToPrevious(first, line, number) ==
  [l \in DOMAIN line_map |-> IF first =< l /\ l < line THEN number ELSE line_map[l]]

(* The lines from first to line lead to an instruction.                    *)
LinesTo(first, line, number) ==
  [l \in DOMAIN line_map |-> IF first =< l /\ l =< line THEN number ELSE line_map[l]]

MapLines ==
  /\ phase = "lines"
  /\ pos =< Len(intermediate_code)
  /\ LET line == intermediate_code[pos].line
     IN  /\ line_map' = LinesTo(prev_line, line, pos - 1)
         /\ prev_line' = line + 1
  /\ pos' = pos + 1
  /\ UNCHANGED <<source, phase, section, symbols, code, errors, data_counter, memory>>

EndLines ==
  /\ phase = "lines"
  /\ pos > Len(intermediate_code)
  /\ phase' = "load"
  /\ pos' = 1
  /\ UNCHANGED <<source, section, symbols, code, errors, results>>

----------------------------------------------------------------------------
(* LoadProgram places the data by its own count.  Instruction number i     *)
(* goes to the address 4 * i.                                              *)

(* Mutant: the values are packed.                                          *)
PlacePacked(size) == data_counter

Place(size) == Align(data_counter, size)

LoadData ==
  /\ phase = "load"
  /\ pos =< Len(data_buffer)
  /\ LET value == data_buffer[pos]
         place == Place(value.size)
     IN  /\ memory' = memory \cup {[value |-> value, address |-> DataStart + place]}
         /\ data_counter' = place + value.size
  /\ pos' = pos + 1
  /\ UNCHANGED <<source, phase, section, symbols, code, errors, line_map, prev_line>>

EndLoad ==
  /\ phase = "load"
  /\ pos > Len(data_buffer)
  /\ phase' = "ready"
  /\ UNCHANGED <<source, section, pos, symbols, code, errors, results>>

Next ==
  \/ First
  \/ Second
  \/ Patch
  \/ Conclude
  \/ MapLines
  \/ EndLines
  \/ LoadData
  \/ EndLoad

Spec == Init /\ [][Next]_vars

FairSpec == Spec /\ WF_vars(Next)

----------------------------------------------------------------------------
(* What the assembler promises of a source it accepts.                     *)

Accepted == phase \in {"lines", "load", "ready"}
Numbers  == 1 .. Len(intermediate_code)

(* The first t instructions are those on lines before the label n.         *)
StandsAfter(n, t) ==
  \A j \in Numbers : j =< t <=> intermediate_code[j].line < symbol_table[n].line

(* A branch or jump to a label in the text leads to the first instruction  *)
(* after the label, whichever came first in the source and however many    *)
(* instructions the pseudo-instructions between them became.               *)
LabelsLead ==
  Accepted =>
    \A i \in Numbers :
      LET unit == intermediate_code[i]
      IN  unit.op \in {"beq", "jal"} /\ ~IsData(unit.label) =>
            /\ unit.done
            /\ IsText(unit.label)
            /\ \E t \in 0 .. Len(intermediate_code) :
                 4 * (i - 1) + unit.imm = 4 * t /\ StandsAfter(unit.label, t)

(* The two immediates that la, a load from a label and li become add up to *)
(* the address or the number meant, and the lower one is in range.         *)
WideOperands ==
  Accepted =>
    \A i \in Numbers :
      LET unit == intermediate_code[i]
          item == source[unit.line]
          pair == i < Len(intermediate_code) /\ intermediate_code[i + 1].line = unit.line
          low  == IF pair THEN intermediate_code[i + 1].imm ELSE 0
          sum  == unit.imm * Page + low
      IN  unit.op \in {"auipc", "lui"} =>
            /\ Fits(low, Page \div 2)
            /\ item.value = "li" => sum = item.imm
            /\ item.value # "li" =>
                 4 * (i - 1) + sum = DataStart + symbol_table[item.label].address

(* A label before a directive without operands aligns data_index_, and no  *)
(* value does so for LoadProgram.                                          *)
OperandsGiven ==
  \A p \in 1 .. Len(source) : source[p].type = "VALUES" => source[p].count > 0

(* A label of the data section is where LoadProgram, which counts for      *)
(* itself, puts the first value of the directive that the label names, if  *)
(* all directives have operands.                                           *)
DataLabelsAgree ==
  phase = "ready" /\ OperandsGiven =>
    \A n \in Names, m \in memory :
      IsData(n) /\ m.value.line = symbol_table[n].line + 1 /\ m.value.nth = 1 =>
        m.address = DataStart + symbol_table[n].address

(* A breakpoint on a line stops at the first instruction that comes from   *)
(* that line or a later one; no line after the last instruction has one.   *)
BreakpointLines ==
  phase \in {"load", "ready"} =>
    \A l \in DOMAIN line_map :
      LET number == IF line_map[l] = -1 THEN Len(intermediate_code) ELSE line_map[l]
      IN  /\ line_map[l] # -1 => number < Len(intermediate_code)
          /\ \A j \in Numbers : j =< number <=> intermediate_code[j].line < l

(* The section a line is in.  A bare .section opens none: what follows it  *)
(* is text if no data came before, and else skipped.                       *)
InSection(p, s) ==
  \E q \in 0 .. p - 1 :
    /\ IF q = 0 THEN s = "text" ELSE source[q] = [type |-> "DIRECTIVE", value |-> s]
    /\ \A r \in q + 1 .. p - 1 : source[r].type # "DIRECTIVE"

(* The two passes, which find the sections each in its own way, agree:     *)
(* nothing in a text or data section is lost between them.                 *)
NothingLost ==
  Accepted =>
    \A p \in 1 .. Len(source) :
      /\ source[p].type = "OPCODE" /\ InSection(p, "text") =>
           \E i \in Numbers : intermediate_code[i].line = p
      /\ source[p].type = "LABEL" /\ (InSection(p, "text") \/ InSection(p, "data")) =>
           Known(source[p].value)
      /\ source[p].type = "VALUES" /\ InSection(p, "data") =>
           \A k \in 1 .. source[p].count :
             \E i \in 1 .. Len(data_buffer) :
               data_buffer[i].line = p /\ data_buffer[i].nth = k

(* An assembly ends.                                                       *)
Halts == <>(phase \in {"ready", "failed"})

=============================================================================
