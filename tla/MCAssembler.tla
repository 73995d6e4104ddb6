---------------------------- MODULE MCAssembler ----------------------------
(* Sources for model checking: sequences of at most MaxLines lines from a  *)
(* few kinds of line, and shorter ones from every kind.                    *)
EXTENDS Assembler

CONSTANTS
  MaxLines,
  MaxMixed,
  Imms          (* operands of li                                          *)

Directive(s)      == [type |-> "DIRECTIVE", value |-> s]
LabelLine(n)      == [type |-> "LABEL", value |-> n]
DataLine(v, s, c) == [type |-> "VALUES", value |-> v, size |-> s, count |-> c]
TextLine(op, n, k) == [type |-> "OPCODE", value |-> op, label |-> n, imm |-> k]

SomeName == CHOOSE n \in Names : TRUE
SomeImm  == CHOOSE k \in Imms : TRUE

Sources(max, lines) == UNION {[1 .. n -> lines] : n \in 1 .. max}

Openings   == {Directive(s) : s \in {"section", "data", "bss", "text"}}
LabelLines == {LabelLine(n) : n \in Names}
Constants  == {TextLine("li", SomeName, k) : k \in Imms}

References(ops) == {TextLine(op, n, 0) : op \in ops, n \in Names}
Others(ops)     == {TextLine(op, SomeName, 0) : op \in ops}

(* Text only: labels, references in both directions, expansions.           *)
TextSources ==
  Sources(MaxLines,
    LabelLines \cup References({"beq", "jal"}) \cup Constants \cup Others({"mul", "bad"}))

(* Values of two sizes between labels, and references to them.             *)
DataSources ==
  Sources(MaxLines,
    Openings \cup LabelLines \cup References({"la"}) \cup {TextLine("li", SomeName, SomeImm)}
    \cup {DataLine("values", 1, 1), DataLine("values", 4, 2), DataLine("zero", 1, 0)})

(* Every kind of line.                                                     *)
MixedSources ==
  Sources(MaxMixed,
    Openings \cup LabelLines \cup References({"beq", "jal", "la", "lw"}) \cup Constants
    \cup Others({"plain", "mul", "bad"})
    \cup {DataLine("values", 4, 1), DataLine("values", 8, 0), DataLine("zero", 1, 0)})

AnySources == TextSources \cup DataSources \cup MixedSources

=============================================================================
