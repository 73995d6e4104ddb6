--------------------------- MODULE DatapathProofs ---------------------------
(***************************************************************************)
(* For every ALU, floating-point unit, code, program and number of steps:  *)
(* immediates survive their encoding, x0 stays 0, and the delta that an    *)
(* instruction leaves describes all that it did to registers and memory,   *)
(* CSR instructions excepted.  Of the constants that stand for the ALU,    *)
(* the units and the code these assume nothing; that the machine's state   *)
(* is well typed assumes the little that UnitsFor says of them.            *)
(***************************************************************************)
EXTENDS Simulator, AluProofs

----------------------------------------------------------------------------
(* Numbers in pieces: the pieces are what they are meant to be, and put    *)
(* together and extended by the sign they are the number again.            *)

LEMMA TwelveBits ==
  ASSUME NEW imm \in ShortOffsets
  PROVE  /\ Bits(imm, 1, 32) \in 0 .. 31 /\ Bits(imm, 32, 128) \in 0 .. 127
         /\ sign_extend(Bits(imm, 1, 32) + 32 * Bits(imm, 32, 128), 2048) = imm
<1> DEFINE q == imm \div 32
           r == imm % 32
<1>1. imm \in Int /\ imm >= -2048 /\ imm =< 2047
  BY DEF ShortOffsets
<1>2. q \in Int /\ r \in 0 .. 31 /\ imm = 32 * q + r
  BY <1>1
<1>3. q >= -64 /\ q =< 63
  BY <1>1, <1>2
<1>4. Bits(imm, 1, 32) = r
  BY <1>1 DEF Bits
<1>5. Bits(imm, 32, 128) = IF q < 0 THEN q + 128 ELSE q
  <2>1. Bits(imm, 32, 128) = q % 128
    BY DEF Bits
  <2> HIDE DEF q
  <2> QED  BY <2>1, <1>2, <1>3
<1> HIDE DEF q, r
<1> QED  BY <1>1, <1>2, <1>3, <1>4, <1>5 DEF sign_extend

(* A number is its quotients and remainders.                               *)
LEMMA Pieces ==
  ASSUME NEW n \in Int, NEW d \in {2, 8, 16, 32, 64, 128}
  PROVE  n \div d \in Int /\ n % d \in 0 .. d - 1 /\ n = d * (n \div d) + (n % d)
<1>1. CASE d = 2
  BY <1>1
<1>2. CASE d = 8
  BY <1>2
<1>3. CASE d = 16
  BY <1>3
<1>4. CASE d = 32
  BY <1>4
<1>5. CASE d = 64
  BY <1>5
<1>6. CASE d = 128
  BY <1>6
<1> QED  BY <1>1, <1>2, <1>3, <1>4, <1>5, <1>6

(* The fields of a branch, from an even number of 13 bits.                 *)
BranchLow(imm)  == 2 * Bits(imm, 2, 16) + Bits(imm, 2048, 2)
BranchHigh(imm) == 64 * Bits(imm, 4096, 2) + Bits(imm, 32, 64)

BranchGathered(low, high) ==
  sign_extend(2 * (low \div 2 + 16 * (high % 64) + 1024 * (low % 2) + 2048 * (high \div 64)), 4096)

LEMMA ThirteenBits ==
  ASSUME NEW imm \in BranchOffsets
  PROVE  /\ BranchLow(imm) \in 0 .. 31 /\ BranchHigh(imm) \in 0 .. 127
         /\ BranchGathered(BranchLow(imm), BranchHigh(imm)) = imm
<1>1. imm \in Int /\ imm >= -4096 /\ imm =< 4095 /\ imm % 2 = 0
  <2>1. imm \in Int /\ imm >= -4096 /\ imm =< 4095 /\ imm % 4 = 0
    BY DEF BranchOffsets
  <2>2. imm = 4 * (imm \div 4)
    BY <2>1
  <2> QED  BY <2>1, <2>2
<1>2. PICK a \in 0 .. 15, b \in 0 .. 63, c \in 0 .. 1, s \in 0 .. 1 :
        imm = 2 * a + 32 * b + 2048 * c - 4096 * s
  <2> DEFINE h == imm \div 2
             q == h \div 16
             t == q \div 64
  <2>1. h \in Int /\ imm = 2 * h
    BY <1>1
  <2>2. q \in Int /\ h % 16 \in 0 .. 15 /\ h = 16 * q + (h % 16)
    <3>1. h \div 16 \in Int /\ h % 16 \in 0 .. 16 - 1 /\ h = 16 * (h \div 16) + (h % 16)
      <4> HIDE DEF h
      <4> QED  BY <2>1, Pieces
    <3> QED  BY <3>1
  <2>3. t \in Int /\ q % 64 \in 0 .. 63 /\ q = 64 * t + (q % 64)
    <3>1. q \div 64 \in Int /\ q % 64 \in 0 .. 64 - 1 /\ q = 64 * (q \div 64) + (q % 64)
      <4> HIDE DEF q
      <4> QED  BY <2>2, Pieces
    <3> QED  BY <3>1
  <2> DEFINE a == h % 16
             b == q % 64
  <2> HIDE DEF a, b, h, q, t
  <2>4. t \in -2 .. 1
    BY <1>1, <2>1, <2>2, <2>3 DEF a, b
  <2>5. PICK c \in 0 .. 1, s \in 0 .. 1 : t = c - 2 * s
    BY <2>4
  <2>6. imm = 2 * a + 32 * b + 2048 * c - 4096 * s
    BY <2>1, <2>2, <2>3, <2>5 DEF a, b
  <2> QED  BY <2>2, <2>3, <2>6 DEF a, b
<1>3. /\ Bits(imm, 2, 16) = a /\ Bits(imm, 2048, 2) = c
      /\ Bits(imm, 4096, 2) = s /\ Bits(imm, 32, 64) = b
  <2>1. imm \div 2 = a + 16 * (b + 64 * c - 128 * s)
    BY <1>2
  <2>2. imm \div 32 = b + 64 * (c - 2 * s)
    BY <1>2
  <2>3. imm \div 2048 = c - 2 * s
    BY <1>2
  <2>4. imm \div 4096 = 0 - s
    BY <1>2
  <2> QED  BY <2>1, <2>2, <2>3, <2>4 DEF Bits
<1> DEFINE low  == 2 * a + c
           high == 64 * s + b
<1>4. low \in 0 .. 31 /\ high \in 0 .. 127
  OBVIOUS
<1>5. low \div 2 = a /\ low % 2 = c /\ high % 64 = b /\ high \div 64 = s
  OBVIOUS
<1>6. BranchLow(imm) = low /\ BranchHigh(imm) = high
  BY <1>3 DEF BranchLow, BranchHigh
<1>7. BranchGathered(low, high) = sign_extend(2 * (a + 16 * b + 1024 * c + 2048 * s), 4096)
  <2> HIDE DEF low, high
  <2> QED  BY <1>5 DEF BranchGathered
<1>8. sign_extend(2 * (a + 16 * b + 1024 * c + 2048 * s), 4096) = imm
  BY <1>2 DEF sign_extend
<1> QED  BY <1>4, <1>6, <1>7, <1>8

(* The fields of a jump, from an even number of 21 bits.                   *)
JumpLow(imm)  == 2 * Bits(imm, 2, 16) + Bits(imm, 2048, 2)
JumpHigh(imm) == 64 * Bits(imm, 1048576, 2) + Bits(imm, 32, 64)

JumpGathered(low, high, funct3, rs1) ==
  sign_extend(2 * (low \div 2 + 16 * (high % 64) + 1024 * (low % 2)
                   + 2048 * (funct3 + 8 * rs1) + 524288 * (high \div 64)), 1048576)

LEMMA TwentyOneBits ==
  ASSUME NEW imm \in JumpOffsets
  PROVE  /\ JumpLow(imm) \in 0 .. 31 /\ JumpHigh(imm) \in 0 .. 127
         /\ Bits(imm, 4096, 8) \in 0 .. 7 /\ Bits(imm, 32768, 32) \in 0 .. 31
         /\ JumpGathered(JumpLow(imm), JumpHigh(imm), Bits(imm, 4096, 8), Bits(imm, 32768, 32)) = imm
<1>1. imm \in Int /\ imm >= -1048576 /\ imm =< 1048575 /\ imm % 2 = 0
  BY SMT DEF JumpOffsets
<1> DEFINE h == imm \div 2
           q == h \div 16
           t == q \div 64
           u == t \div 2
           v == u \div 8
           a == h % 16
           b == q % 64
           c == t % 2
           e == u % 8
           f == IF v < 0 THEN v + 32 ELSE v
           s == IF v < 0 THEN 1 ELSE 0
<1>2. /\ a \in 0 .. 15 /\ b \in 0 .. 63 /\ c \in 0 .. 1 /\ e \in 0 .. 7
      /\ f \in 0 .. 31 /\ s \in 0 .. 1
      /\ imm = 2 * a + 32 * b + 2048 * c + 4096 * e + 32768 * f - 1048576 * s
  <2>1. h \in Int /\ imm = 2 * h
    BY <1>1, SMT
  <2>2. q \in Int /\ a \in 0 .. 15 /\ h = 16 * q + a
    <3>1. h \div 16 \in Int /\ h % 16 \in 0 .. 16 - 1 /\ h = 16 * (h \div 16) + (h % 16)
      <4> HIDE DEF h
      <4> QED  BY <2>1, Pieces, SMT
    <3> QED  BY <3>1, SMT
  <2>3. t \in Int /\ b \in 0 .. 63 /\ q = 64 * t + b
    <3>1. q \div 64 \in Int /\ q % 64 \in 0 .. 64 - 1 /\ q = 64 * (q \div 64) + (q % 64)
      <4> HIDE DEF q
      <4> QED  BY <2>2, Pieces, SMT
    <3> QED  BY <3>1, SMT
  <2>4. u \in Int /\ c \in 0 .. 1 /\ t = 2 * u + c
    <3>1. t \div 2 \in Int /\ t % 2 \in 0 .. 2 - 1 /\ t = 2 * (t \div 2) + (t % 2)
      <4> HIDE DEF t
      <4> QED  BY <2>3, Pieces, SMT
    <3> QED  BY <3>1, SMT
  <2>5. v \in Int /\ e \in 0 .. 7 /\ u = 8 * v + e
    <3>1. u \div 8 \in Int /\ u % 8 \in 0 .. 8 - 1 /\ u = 8 * (u \div 8) + (u % 8)
      <4> HIDE DEF u
      <4> QED  BY <2>4, Pieces, SMT
    <3> QED  BY <3>1, SMT
  <2> HIDE DEF a, b, c, e, h, q, t, u, v
  <2>6. v \in -32 .. 31
    BY <1>1, <2>1, <2>2, <2>3, <2>4, <2>5, SMT
  <2>7. f \in 0 .. 31 /\ s \in 0 .. 1 /\ v = f - 32 * s
    BY <2>6, SMT
  <2> HIDE DEF f, s
  <2>8. imm = 2 * a + 32 * b + 2048 * c + 4096 * e + 32768 * f - 1048576 * s
    BY <2>1, <2>2, <2>3, <2>4, <2>5, <2>7, SMT
  <2> QED  BY <2>2, <2>3, <2>4, <2>5, <2>7, <2>8, SMT
<1> HIDE DEF a, b, c, e, f, h, q, s, t, u, v
<1>3. /\ Bits(imm, 2, 16) = a /\ Bits(imm, 2048, 2) = c
      /\ Bits(imm, 1048576, 2) = s /\ Bits(imm, 32, 64) = b
      /\ Bits(imm, 4096, 8) = e /\ Bits(imm, 32768, 32) = f
  <2>1. imm \div 2 = a + 16 * (b + 64 * c + 128 * e + 1024 * f - 32768 * s)
    BY <1>2, SMT
  <2>2. imm \div 32 = b + 64 * (c + 2 * e + 16 * f - 512 * s)
    BY <1>2, SMT
  <2>3. imm \div 2048 = c + 2 * (e + 8 * f - 256 * s)
    BY <1>2, SMT
  <2>4. imm \div 4096 = e + 8 * (f - 32 * s)
    BY <1>2, SMT
  <2>5. imm \div 32768 = f + 32 * (0 - s)
    BY <1>2, SMT
  <2>6. imm \div 1048576 = 0 - s
    BY <1>2, SMT
  <2> QED  BY <1>2, <2>1, <2>2, <2>3, <2>4, <2>5, <2>6, SMT DEF Bits
<1> DEFINE low  == 2 * a + c
           high == 64 * s + b
<1>4. low \in 0 .. 31 /\ high \in 0 .. 127
  BY <1>2, SMT
<1>5. low \div 2 = a /\ low % 2 = c /\ high % 64 = b /\ high \div 64 = s
  BY <1>2, SMT
<1>6. JumpLow(imm) = low /\ JumpHigh(imm) = high
  BY <1>3, SMT DEF JumpLow, JumpHigh
<1>7. JumpGathered(low, high, e, f)
        = sign_extend(2 * (a + 16 * b + 1024 * c + 2048 * (e + 8 * f) + 524288 * s), 1048576)
  <2> HIDE DEF low, high
  <2> QED  BY <1>5, SMT DEF JumpGathered
<1>8. sign_extend(2 * (a + 16 * b + 1024 * c + 2048 * (e + 8 * f) + 524288 * s), 1048576) = imm
  BY <1>2, SMT DEF sign_extend
<1> QED  BY <1>2, <1>3, <1>4, <1>6, <1>7, <1>8, SMT

(* The fields of an upper immediate, of which 20 bits are kept.            *)
LEMMA TwentyBits ==
  ASSUME NEW imm \in UpperOperands
  PROVE  /\ Bits(imm, 1, 8) \in 0 .. 7 /\ Bits(imm, 8, 32) \in 0 .. 31
         /\ Bits(imm, 256, 32) \in 0 .. 31 /\ Bits(imm, 8192, 128) \in 0 .. 127
         /\ Bits(imm, 1, 8) + 8 * Bits(imm, 8, 32) + 256 * Bits(imm, 256, 32)
              + 8192 * Bits(imm, 8192, 128) = imm % 1048576
<1>1. imm \in Int /\ imm >= -524288 /\ imm =< 1048575
  BY SMT DEF UpperOperands
<1> DEFINE h == imm \div 8
           q == h \div 32
           t == q \div 32
           u == t \div 128
<1>2. h \in Int /\ imm % 8 \in 0 .. 7 /\ imm = 8 * h + (imm % 8)
  BY <1>1, Pieces, SMT
<1>3. q \in Int /\ h % 32 \in 0 .. 31 /\ h = 32 * q + (h % 32)
  <2>1. h \div 32 \in Int /\ h % 32 \in 0 .. 32 - 1 /\ h = 32 * (h \div 32) + (h % 32)
    <3> HIDE DEF h
    <3> QED  BY <1>2, Pieces, SMT
  <2> QED  BY <2>1, SMT
<1>4. t \in Int /\ q % 32 \in 0 .. 31 /\ q = 32 * t + (q % 32)
  <2>1. q \div 32 \in Int /\ q % 32 \in 0 .. 32 - 1 /\ q = 32 * (q \div 32) + (q % 32)
    <3> HIDE DEF q
    <3> QED  BY <1>3, Pieces, SMT
  <2> QED  BY <2>1, SMT
<1>5. u \in Int /\ t % 128 \in 0 .. 127 /\ t = 128 * u + (t % 128)
  <2>1. t \div 128 \in Int /\ t % 128 \in 0 .. 128 - 1 /\ t = 128 * (t \div 128) + (t % 128)
    <3> HIDE DEF t
    <3> QED  BY <1>4, Pieces, SMT
  <2> QED  BY <2>1, SMT
<1> DEFINE a == imm % 8
           b == h % 32
           c == q % 32
           e == t % 128
<1> HIDE DEF a, b, c, e, h, q, t, u
<1>6. imm = a + 8 * b + 256 * c + 8192 * e + 1048576 * u
  BY <1>2, <1>3, <1>4, <1>5, SMT DEF a, b, c, e
<1>7. a \in 0 .. 7 /\ b \in 0 .. 31 /\ c \in 0 .. 31 /\ e \in 0 .. 127 /\ u \in Int
  BY <1>2, <1>3, <1>4, <1>5, SMT DEF a, b, c, e
<1>8. /\ Bits(imm, 1, 8) = a /\ Bits(imm, 8, 32) = b
      /\ Bits(imm, 256, 32) = c /\ Bits(imm, 8192, 128) = e
  <2>1. imm \div 1 = a + 8 * (b + 32 * c + 1024 * e + 131072 * u)
    BY <1>6, <1>7, SMT
  <2>2. imm \div 8 = b + 32 * (c + 32 * e + 4096 * u)
    BY <1>6, <1>7, SMT
  <2>3. imm \div 256 = c + 32 * (e + 128 * u)
    BY <1>6, <1>7, SMT
  <2>4. imm \div 8192 = e + 128 * u
    BY <1>6, <1>7, SMT
  <2> QED  BY <1>7, <2>1, <2>2, <2>3, <2>4, SMT DEF Bits
<1>9. a + 8 * b + 256 * c + 8192 * e = imm % 1048576
  BY <1>6, <1>7, SMT
<1> QED  BY <1>7, <1>8, <1>9, SMT

----------------------------------------------------------------------------
(* Format by format.                                                       *)

(* lui and auipc have room for 20 bits.                                    *)
Kept(imm) == imm % 1048576

Survives(l, word) ==
  (word.opcode \in Gathered /\ l.op \notin DOMAIN I2_type_instruction_encoding_map)
  => ImmGenerator(word) = IF word.opcode \in {klui, kauipc} THEN Kept(l.imm) ELSE l.imm

LEMMA ShortWords ==
  ASSUME NEW opcode \in {kItype, kLoadType, kjalr, kflw}, NEW rd, NEW funct3, NEW rs1,
         NEW imm \in ShortOffsets
  PROVE  /\ IWord(opcode, rd, funct3, rs1, imm).opcode = opcode
         /\ ImmGenerator(IWord(opcode, rd, funct3, rs1, imm)) = imm
<1> DEFINE word == IWord(opcode, rd, funct3, rs1, imm)
<1>1. word.opcode = opcode /\ word.rs2 = Bits(imm, 1, 32) /\ word.funct7 = Bits(imm, 32, 128)
  BY DEF IWord, Word
<1> HIDE DEF word
<1>2. ImmGenerator(word) = ImmediateI(word)
  BY <1>1 DEF ImmGenerator, kItype, kLoadType, kjalr, kflw, kStoreType, kfsw, kBtype, klui, kauipc, kjal
<1>3. ImmediateI(word) = imm
  BY <1>1, TwelveBits DEF ImmediateI
<1> QED  BY <1>1, <1>2, <1>3 DEF word

LEMMA StoreWords ==
  ASSUME NEW opcode \in {kStoreType, kfsw}, NEW funct3, NEW rs1, NEW rs2,
         NEW imm \in ShortOffsets
  PROVE  /\ SWord(opcode, funct3, rs1, rs2, imm).opcode = opcode
         /\ ImmGenerator(SWord(opcode, funct3, rs1, rs2, imm)) = imm
<1> DEFINE word == SWord(opcode, funct3, rs1, rs2, imm)
<1>1. word.opcode = opcode /\ word.rd = Bits(imm, 1, 32) /\ word.funct7 = Bits(imm, 32, 128)
  BY DEF SWord, Word
<1> HIDE DEF word
<1>2. ImmGenerator(word) = ImmediateS(word)
  BY <1>1 DEF ImmGenerator, kItype, kLoadType, kjalr, kflw, kStoreType, kfsw, kBtype, klui, kauipc, kjal
<1>3. ImmediateS(word) = imm
  BY <1>1, TwelveBits DEF ImmediateS
<1> QED  BY <1>1, <1>2, <1>3 DEF word

LEMMA BranchWords ==
  ASSUME NEW l, l.op \in DOMAIN B_type_instruction_encoding_map, l.imm \in BranchOffsets
  PROVE  /\ generateBTypeMachineCode(l).opcode = kBtype
         /\ ImmGenerator(generateBTypeMachineCode(l)) = l.imm
<1> DEFINE word == generateBTypeMachineCode(l)
<1>1. B_type_instruction_encoding_map[l.op][1] = kBtype
  BY DEF B_type_instruction_encoding_map, kBtype
<1>2. /\ word.opcode = kBtype
      /\ word.rd = BranchLow(l.imm) /\ word.funct7 = BranchHigh(l.imm)
  BY <1>1 DEF generateBTypeMachineCode, Word, BranchLow, BranchHigh
<1> HIDE DEF word
<1>3. ImmGenerator(word) = ImmediateB(word)
  BY <1>2 DEF ImmGenerator, kItype, kLoadType, kjalr, kflw, kStoreType, kfsw, kBtype, klui, kauipc, kjal
<1>4. ImmediateB(word) = BranchGathered(word.rd, word.funct7)
  BY DEF ImmediateB, BranchGathered
<1>5. BranchGathered(BranchLow(l.imm), BranchHigh(l.imm)) = l.imm
  BY ThirteenBits
<1> QED  BY <1>2, <1>3, <1>4, <1>5 DEF word

LEMMA JumpWords ==
  ASSUME NEW l, l.op \in DOMAIN J_type_instruction_encoding_map, l.imm \in JumpOffsets
  PROVE  /\ generateJTypeMachineCode(l).opcode = kjal
         /\ ImmGenerator(generateJTypeMachineCode(l)) = l.imm
<1> DEFINE word == generateJTypeMachineCode(l)
<1>1. J_type_instruction_encoding_map[l.op][1] = kjal
  BY DEF J_type_instruction_encoding_map, kjal
<1>2. /\ word.opcode = kjal
      /\ word.rs2 = JumpLow(l.imm) /\ word.funct7 = JumpHigh(l.imm)
      /\ word.funct3 = Bits(l.imm, 4096, 8) /\ word.rs1 = Bits(l.imm, 32768, 32)
  BY <1>1, SMT DEF generateJTypeMachineCode, Word, JumpLow, JumpHigh
<1> HIDE DEF word
<1>3. ImmGenerator(word) = ImmediateJ(word)
  BY <1>2 DEF ImmGenerator, kItype, kLoadType, kjalr, kflw, kStoreType, kfsw, kBtype, klui, kauipc, kjal
<1>4. ImmediateJ(word) = JumpGathered(word.rs2, word.funct7, word.funct3, word.rs1)
  BY SMT DEF ImmediateJ, JumpGathered
<1>5. JumpGathered(JumpLow(l.imm), JumpHigh(l.imm), Bits(l.imm, 4096, 8), Bits(l.imm, 32768, 32)) = l.imm
  BY TwentyOneBits
<1> QED  BY <1>2, <1>3, <1>4, <1>5, SMT DEF word

LEMMA UpperWords ==
  ASSUME NEW l, l.op \in DOMAIN U_type_instruction_encoding_map, l.imm \in UpperOperands
  PROVE  /\ generateUTypeMachineCode(l).opcode \in {klui, kauipc}
         /\ ImmGenerator(generateUTypeMachineCode(l)) = Kept(l.imm)
<1> DEFINE word == generateUTypeMachineCode(l)
<1>1. U_type_instruction_encoding_map[l.op][1] \in {klui, kauipc}
  BY DEF U_type_instruction_encoding_map, klui, kauipc
<1>2. /\ word.opcode \in {klui, kauipc}
      /\ word.funct3 = Bits(l.imm, 1, 8) /\ word.rs1 = Bits(l.imm, 8, 32)
      /\ word.rs2 = Bits(l.imm, 256, 32) /\ word.funct7 = Bits(l.imm, 8192, 128)
  BY <1>1 DEF generateUTypeMachineCode, Word
<1> HIDE DEF word
<1>3. ImmGenerator(word) = ImmediateU(word)
  BY <1>2 DEF ImmGenerator, kItype, kLoadType, kjalr, kflw, kStoreType, kfsw, kBtype, klui, kauipc, kjal
<1>4. ImmediateU(word) = Kept(l.imm)
  BY <1>2, TwentyBits, SMT DEF ImmediateU, Kept
<1> QED  BY <1>2, <1>3, <1>4 DEF word

(* The formats without an immediate of their own.                          *)
LEMMA RPlain ==
  ASSUME NEW l, l.op \in DOMAIN R_type_instruction_encoding_map
  PROVE  Survives(l, generateRTypeMachineCode(l))
<1>1. R_type_instruction_encoding_map[l.op][1] \notin Gathered
  BY DEF R_type_instruction_encoding_map, Gathered, kItype, kLoadType, kjalr, kflw, kStoreType, kfsw, kBtype, klui, kauipc, kjal
<1>2. generateRTypeMachineCode(l).opcode = R_type_instruction_encoding_map[l.op][1]
  BY DEF generateRTypeMachineCode, IWord, Word
<1> QED  BY <1>1, <1>2 DEF Survives

LEMMA I3Plain ==
  ASSUME NEW l, l.op \in DOMAIN I3_type_instruction_encoding_map
  PROVE  Survives(l, generateI3TypeMachineCode(l))
<1>1. I3_type_instruction_encoding_map[l.op][1] \notin Gathered
  BY DEF I3_type_instruction_encoding_map, Gathered, kItype, kLoadType, kjalr, kflw, kStoreType, kfsw, kBtype, klui, kauipc, kjal
<1>2. generateI3TypeMachineCode(l).opcode = I3_type_instruction_encoding_map[l.op][1]
  BY DEF generateI3TypeMachineCode, IWord, Word
<1> QED  BY <1>1, <1>2 DEF Survives

LEMMA CSRRPlain ==
  ASSUME NEW l, l.op \in DOMAIN CSR_R_type_instruction_encoding_map
  PROVE  Survives(l, generateCSRRTypeMachineCode(l))
<1>1. CSR_R_type_instruction_encoding_map[l.op][1] \notin Gathered
  BY DEF CSR_R_type_instruction_encoding_map, Gathered, kItype, kLoadType, kjalr, kflw, kStoreType, kfsw, kBtype, klui, kauipc, kjal
<1>2. generateCSRRTypeMachineCode(l).opcode = CSR_R_type_instruction_encoding_map[l.op][1]
  BY DEF generateCSRRTypeMachineCode, IWord, Word
<1> QED  BY <1>1, <1>2 DEF Survives

LEMMA CSRIPlain ==
  ASSUME NEW l, l.op \in DOMAIN CSR_I_type_instruction_encoding_map
  PROVE  Survives(l, generateCSRITypeMachineCode(l))
<1>1. CSR_I_type_instruction_encoding_map[l.op][1] \notin Gathered
  BY DEF CSR_I_type_instruction_encoding_map, Gathered, kItype, kLoadType, kjalr, kflw, kStoreType, kfsw, kBtype, klui, kauipc, kjal
<1>2. generateCSRITypeMachineCode(l).opcode = CSR_I_type_instruction_encoding_map[l.op][1]
  BY DEF generateCSRITypeMachineCode, IWord, Word
<1> QED  BY <1>1, <1>2 DEF Survives

LEMMA FDRPlain ==
  ASSUME NEW l, l.op \in DOMAIN F_D_R_type_instruction_encoding_map
  PROVE  Survives(l, generateFDRTypeMachineCode(l))
<1>1. F_D_R_type_instruction_encoding_map[l.op][1] \notin Gathered
  BY DEF F_D_R_type_instruction_encoding_map, Gathered, kItype, kLoadType, kjalr, kflw, kStoreType, kfsw, kBtype, klui, kauipc, kjal
<1>2. generateFDRTypeMachineCode(l).opcode = F_D_R_type_instruction_encoding_map[l.op][1]
  BY DEF generateFDRTypeMachineCode, IWord, Word
<1> QED  BY <1>1, <1>2 DEF Survives

LEMMA FDR1Plain ==
  ASSUME NEW l, l.op \in DOMAIN F_D_R1_type_instruction_encoding_map
  PROVE  Survives(l, generateFDR1TypeMachineCode(l))
<1>1. F_D_R1_type_instruction_encoding_map[l.op][1] \notin Gathered
  BY DEF F_D_R1_type_instruction_encoding_map, Gathered, kItype, kLoadType, kjalr, kflw, kStoreType, kfsw, kBtype, klui, kauipc, kjal
<1>2. generateFDR1TypeMachineCode(l).opcode = F_D_R1_type_instruction_encoding_map[l.op][1]
  BY DEF generateFDR1TypeMachineCode, IWord, Word
<1> QED  BY <1>1, <1>2 DEF Survives

LEMMA FDR2Plain ==
  ASSUME NEW l, l.op \in DOMAIN F_D_R2_type_instruction_encoding_map
  PROVE  Survives(l, generateFDR2TypeMachineCode(l))
<1>1. F_D_R2_type_instruction_encoding_map[l.op][1] \notin Gathered
  BY DEF F_D_R2_type_instruction_encoding_map, Gathered, kItype, kLoadType, kjalr, kflw, kStoreType, kfsw, kBtype, klui, kauipc, kjal
<1>2. generateFDR2TypeMachineCode(l).opcode = F_D_R2_type_instruction_encoding_map[l.op][1]
  BY DEF generateFDR2TypeMachineCode, IWord, Word
<1> QED  BY <1>1, <1>2 DEF Survives

LEMMA FDR3Plain ==
  ASSUME NEW l, l.op \in DOMAIN F_D_R3_type_instruction_encoding_map
  PROVE  Survives(l, generateFDR3TypeMachineCode(l))
<1>1. F_D_R3_type_instruction_encoding_map[l.op][1] \notin Gathered
  BY DEF F_D_R3_type_instruction_encoding_map, Gathered, kItype, kLoadType, kjalr, kflw, kStoreType, kfsw, kBtype, klui, kauipc, kjal
<1>2. generateFDR3TypeMachineCode(l).opcode = F_D_R3_type_instruction_encoding_map[l.op][1]
  BY DEF generateFDR3TypeMachineCode, IWord, Word
<1> QED  BY <1>1, <1>2 DEF Survives

LEMMA FDR4Plain ==
  ASSUME NEW l, l.op \in DOMAIN F_D_R4_type_instruction_encoding_map
  PROVE  Survives(l, generateFDR4TypeMachineCode(l))
<1>1. F_D_R4_type_instruction_encoding_map[l.op][1] \notin Gathered
  BY DEF F_D_R4_type_instruction_encoding_map, Gathered, kItype, kLoadType, kjalr, kflw, kStoreType, kfsw, kBtype, klui, kauipc, kjal
<1>2. generateFDR4TypeMachineCode(l).opcode = F_D_R4_type_instruction_encoding_map[l.op][1]
  BY DEF generateFDR4TypeMachineCode, IWord, Word
<1> QED  BY <1>1, <1>2 DEF Survives

(* The rows of the tables of short immediates.                             *)
LEMMA ShortSurvive ==
  ASSUME NEW l, l.imm \in ShortOffsets
  PROVE  /\ l.op \in DOMAIN I1_type_instruction_encoding_map
               => Survives(l, generateI1TypeMachineCode(l))
         /\ l.op \in DOMAIN F_D_I_type_instruction_encoding_map
               => Survives(l, generateFDITypeMachineCode(l))
         /\ l.op \in DOMAIN S_type_instruction_encoding_map
               => Survives(l, generateSTypeMachineCode(l))
         /\ l.op \in DOMAIN F_D_S_type_instruction_encoding_map
               => Survives(l, generateFDSTypeMachineCode(l))
<1>1. ASSUME l.op \in DOMAIN I1_type_instruction_encoding_map
      PROVE  Survives(l, generateI1TypeMachineCode(l))
  <2> DEFINE e == I1_type_instruction_encoding_map[l.op]
  <2>1. e[1] \in {kItype, kLoadType, kjalr, kOpImm32}
    BY <1>1 DEF I1_type_instruction_encoding_map, kItype, kLoadType, kjalr, kOpImm32
  <2>2. generateI1TypeMachineCode(l) = IWord(e[1], l.rd, e[2], l.rs1, l.imm)
    BY DEF generateI1TypeMachineCode
  <2>3. IWord(e[1], l.rd, e[2], l.rs1, l.imm).opcode = e[1]
    BY DEF IWord, Word
  <2> HIDE DEF e
  <2>4. CASE e[1] = kOpImm32
    BY <2>2, <2>3, <2>4 DEF Survives, Gathered, kOpImm32, kItype, kLoadType, kjalr, kflw, kStoreType, kfsw, kBtype, klui, kauipc, kjal
  <2>5. CASE e[1] \in {kItype, kLoadType, kjalr, kflw}
    BY <2>2, <2>5, ShortWords DEF Survives, kItype, kLoadType, kjalr, kflw, kStoreType, kfsw, kBtype, klui, kauipc, kjal
  <2> QED  BY <2>1, <2>4, <2>5
<1>2. ASSUME l.op \in DOMAIN F_D_I_type_instruction_encoding_map
      PROVE  Survives(l, generateFDITypeMachineCode(l))
  <2> DEFINE e == F_D_I_type_instruction_encoding_map[l.op]
  <2>1. e[1] = kflw
    BY <1>2 DEF F_D_I_type_instruction_encoding_map, kflw
  <2>2. generateFDITypeMachineCode(l) = IWord(e[1], l.rd, e[2], l.rs1, l.imm)
    BY DEF generateFDITypeMachineCode
  <2> HIDE DEF e
  <2> QED  BY <2>1, <2>2, ShortWords DEF Survives, kItype, kLoadType, kjalr, kflw, kStoreType, kfsw, kBtype, klui, kauipc, kjal
<1>3. ASSUME l.op \in DOMAIN S_type_instruction_encoding_map
      PROVE  Survives(l, generateSTypeMachineCode(l))
  <2> DEFINE e == S_type_instruction_encoding_map[l.op]
  <2>1. e[1] = kStoreType
    BY <1>3 DEF S_type_instruction_encoding_map, kStoreType
  <2>2. generateSTypeMachineCode(l) = SWord(e[1], e[2], l.rs1, l.rs2, l.imm)
    BY DEF generateSTypeMachineCode
  <2> HIDE DEF e
  <2> QED  BY <2>1, <2>2, StoreWords DEF Survives, kItype, kLoadType, kjalr, kflw, kStoreType, kfsw, kBtype, klui, kauipc, kjal
<1>4. ASSUME l.op \in DOMAIN F_D_S_type_instruction_encoding_map
      PROVE  Survives(l, generateFDSTypeMachineCode(l))
  <2> DEFINE e == F_D_S_type_instruction_encoding_map[l.op]
  <2>1. e[1] = kfsw
    BY <1>4 DEF F_D_S_type_instruction_encoding_map, kfsw
  <2>2. generateFDSTypeMachineCode(l) = SWord(e[1], e[2], l.rs1, l.rs2, l.imm)
    BY DEF generateFDSTypeMachineCode
  <2> HIDE DEF e
  <2> QED  BY <2>1, <2>2, StoreWords DEF Survives, kItype, kLoadType, kjalr, kflw, kStoreType, kfsw, kBtype, klui, kauipc, kjal
<1> QED  BY <1>1, <1>2, <1>3, <1>4

(* A shift is encoded too, but its immediate holds funct6 besides.          *)
LEMMA OthersSurvive ==
  ASSUME NEW l, Encodable(l)
  PROVE  /\ l.op \in DOMAIN I2_type_instruction_encoding_map
               => Survives(l, generateI2TypeMachineCode(l))
         /\ l.op \in DOMAIN B_type_instruction_encoding_map
               => Survives(l, generateBTypeMachineCode(l))
         /\ l.op \in DOMAIN U_type_instruction_encoding_map
               => Survives(l, generateUTypeMachineCode(l))
         /\ l.op \in DOMAIN J_type_instruction_encoding_map
               => Survives(l, generateJTypeMachineCode(l))
<1>1. l.op \in DOMAIN I2_type_instruction_encoding_map => Survives(l, generateI2TypeMachineCode(l))
  BY DEF Survives
<1>2. l.op \in DOMAIN B_type_instruction_encoding_map => Survives(l, generateBTypeMachineCode(l))
  BY BranchWords DEF Encodable, Survives, kItype, kLoadType, kjalr, kflw, kStoreType, kfsw, kBtype, klui, kauipc, kjal
<1>3. l.op \in DOMAIN U_type_instruction_encoding_map => Survives(l, generateUTypeMachineCode(l))
  BY UpperWords DEF Encodable, Survives
<1>4. l.op \in DOMAIN J_type_instruction_encoding_map => Survives(l, generateJTypeMachineCode(l))
  BY JumpWords, SMT DEF Encodable, Survives, kItype, kLoadType, kjalr, kflw, kStoreType, kfsw, kBtype, klui, kauipc, kjal
<1> QED  BY <1>1, <1>2, <1>3, <1>4

(* Every line that the parser accepts is encoded by the function of its    *)
(* format, and ImmGenerator finds the immediate in the word.               *)
THEOREM ImmediateRoundTrip ==
  ASSUME NEW l, l.op \in Mnemonics, Encodable(l)
  PROVE  Survives(l, generateMachineCode(l))
<1>1. l.op \in ShortOps => l.imm \in ShortOffsets
  BY DEF Encodable
<1>2. PICK code \in { generateRTypeMachineCode(l), generateI1TypeMachineCode(l),
          generateI2TypeMachineCode(l), generateI3TypeMachineCode(l), generateSTypeMachineCode(l),
          generateBTypeMachineCode(l), generateUTypeMachineCode(l), generateJTypeMachineCode(l),
          generateCSRRTypeMachineCode(l), generateCSRITypeMachineCode(l),
          generateFDRTypeMachineCode(l), generateFDR1TypeMachineCode(l),
          generateFDR2TypeMachineCode(l), generateFDR3TypeMachineCode(l),
          generateFDR4TypeMachineCode(l), generateFDITypeMachineCode(l),
          generateFDSTypeMachineCode(l) } :
        generateMachineCode(l) = code /\ Survives(l, code)
  BY <1>1, ShortSurvive, OthersSurvive, RPlain, I3Plain, CSRRPlain, CSRIPlain, FDRPlain, FDR1Plain,
     FDR2Plain, FDR3Plain, FDR4Plain DEF generateMachineCode, Mnemonics, ShortOps
<1> QED  BY <1>2

----------------------------------------------------------------------------
(* What the decoder makes of a word: which function generated it, which    *)
(* unit executes it and which operation that is given.                     *)

(* A mnemonic has one format, whose function generates its code.           *)
LEMMA Generated ==
  ASSUME NEW l
  PROVE  /\ l.op \in DOMAIN R_type_instruction_encoding_map
              => generateMachineCode(l) = generateRTypeMachineCode(l)
         /\ l.op \in DOMAIN I1_type_instruction_encoding_map
              => generateMachineCode(l) = generateI1TypeMachineCode(l)
         /\ l.op \in DOMAIN I2_type_instruction_encoding_map
              => generateMachineCode(l) = generateI2TypeMachineCode(l)
         /\ l.op \in DOMAIN I3_type_instruction_encoding_map
              => generateMachineCode(l) = generateI3TypeMachineCode(l)
         /\ l.op \in DOMAIN S_type_instruction_encoding_map
              => generateMachineCode(l) = generateSTypeMachineCode(l)
         /\ l.op \in DOMAIN B_type_instruction_encoding_map
              => generateMachineCode(l) = generateBTypeMachineCode(l)
         /\ l.op \in DOMAIN U_type_instruction_encoding_map
              => generateMachineCode(l) = generateUTypeMachineCode(l)
         /\ l.op \in DOMAIN J_type_instruction_encoding_map
              => generateMachineCode(l) = generateJTypeMachineCode(l)
         /\ l.op \in DOMAIN CSR_R_type_instruction_encoding_map
              => generateMachineCode(l) = generateCSRRTypeMachineCode(l)
         /\ l.op \in DOMAIN CSR_I_type_instruction_encoding_map
              => generateMachineCode(l) = generateCSRITypeMachineCode(l)
         /\ l.op \in DOMAIN F_D_R_type_instruction_encoding_map
              => generateMachineCode(l) = generateFDRTypeMachineCode(l)
         /\ l.op \in DOMAIN F_D_R1_type_instruction_encoding_map
              => generateMachineCode(l) = generateFDR1TypeMachineCode(l)
         /\ l.op \in DOMAIN F_D_R2_type_instruction_encoding_map
              => generateMachineCode(l) = generateFDR2TypeMachineCode(l)
         /\ l.op \in DOMAIN F_D_R3_type_instruction_encoding_map
              => generateMachineCode(l) = generateFDR3TypeMachineCode(l)
         /\ l.op \in DOMAIN F_D_R4_type_instruction_encoding_map
              => generateMachineCode(l) = generateFDR4TypeMachineCode(l)
         /\ l.op \in DOMAIN F_D_I_type_instruction_encoding_map
              => generateMachineCode(l) = generateFDITypeMachineCode(l)
         /\ l.op \in DOMAIN F_D_S_type_instruction_encoding_map
              => generateMachineCode(l) = generateFDSTypeMachineCode(l)
<1> DEFINE From16 == DOMAIN F_D_S_type_instruction_encoding_map
           From15 == DOMAIN F_D_I_type_instruction_encoding_map \cup From16
           From14 == DOMAIN F_D_R4_type_instruction_encoding_map \cup From15
           From13 == DOMAIN F_D_R3_type_instruction_encoding_map \cup From14
           From12 == DOMAIN F_D_R2_type_instruction_encoding_map \cup From13
           From11 == DOMAIN F_D_R1_type_instruction_encoding_map \cup From12
           From10 == DOMAIN F_D_R_type_instruction_encoding_map \cup From11
           From9 == DOMAIN CSR_I_type_instruction_encoding_map \cup From10
           From8 == DOMAIN CSR_R_type_instruction_encoding_map \cup From9
           From7 == DOMAIN J_type_instruction_encoding_map \cup From8
           From6 == DOMAIN U_type_instruction_encoding_map \cup From7
           From5 == DOMAIN B_type_instruction_encoding_map \cup From6
           From4 == DOMAIN S_type_instruction_encoding_map \cup From5
           From3 == DOMAIN I3_type_instruction_encoding_map \cup From4
           From2 == DOMAIN I2_type_instruction_encoding_map \cup From3
           From1 == DOMAIN I1_type_instruction_encoding_map \cup From2
<1> USE DEF R_type_instruction_encoding_map, I1_type_instruction_encoding_map,
    I2_type_instruction_encoding_map, I3_type_instruction_encoding_map,
    S_type_instruction_encoding_map, B_type_instruction_encoding_map,
    U_type_instruction_encoding_map, J_type_instruction_encoding_map,
    CSR_R_type_instruction_encoding_map, CSR_I_type_instruction_encoding_map,
    F_D_R_type_instruction_encoding_map, F_D_R1_type_instruction_encoding_map,
    F_D_R2_type_instruction_encoding_map, F_D_R3_type_instruction_encoding_map,
    F_D_R4_type_instruction_encoding_map, F_D_I_type_instruction_encoding_map,
    F_D_S_type_instruction_encoding_map
<1>1. DOMAIN R_type_instruction_encoding_map \cap From1 = {}
  BY SMT
<1>2. DOMAIN I1_type_instruction_encoding_map \cap From2 = {}
  BY SMT
<1>3. DOMAIN I2_type_instruction_encoding_map \cap From3 = {}
  BY SMT
<1>4. DOMAIN I3_type_instruction_encoding_map \cap From4 = {}
  BY SMT
<1>5. DOMAIN S_type_instruction_encoding_map \cap From5 = {}
  BY SMT
<1>6. DOMAIN B_type_instruction_encoding_map \cap From6 = {}
  BY SMT
<1>7. DOMAIN U_type_instruction_encoding_map \cap From7 = {}
  BY SMT
<1>8. DOMAIN J_type_instruction_encoding_map \cap From8 = {}
  BY SMT
<1>9. DOMAIN CSR_R_type_instruction_encoding_map \cap From9 = {}
  BY SMT
<1>10. DOMAIN CSR_I_type_instruction_encoding_map \cap From10 = {}
  BY SMT
<1>11. DOMAIN F_D_R_type_instruction_encoding_map \cap From11 = {}
  BY SMT
<1>12. DOMAIN F_D_R1_type_instruction_encoding_map \cap From12 = {}
  BY SMT
<1>13. DOMAIN F_D_R2_type_instruction_encoding_map \cap From13 = {}
  BY SMT
<1>14. DOMAIN F_D_R3_type_instruction_encoding_map \cap From14 = {}
  BY SMT
<1>15. DOMAIN F_D_R4_type_instruction_encoding_map \cap From15 = {}
  BY SMT
<1>16. DOMAIN F_D_I_type_instruction_encoding_map \cap From16 = {}
  BY SMT
<1> HIDE DEF R_type_instruction_encoding_map, I1_type_instruction_encoding_map,
    I2_type_instruction_encoding_map, I3_type_instruction_encoding_map,
    S_type_instruction_encoding_map, B_type_instruction_encoding_map,
    U_type_instruction_encoding_map, J_type_instruction_encoding_map,
    CSR_R_type_instruction_encoding_map, CSR_I_type_instruction_encoding_map,
    F_D_R_type_instruction_encoding_map, F_D_R1_type_instruction_encoding_map,
    F_D_R2_type_instruction_encoding_map, F_D_R3_type_instruction_encoding_map,
    F_D_R4_type_instruction_encoding_map, F_D_I_type_instruction_encoding_map,
    F_D_S_type_instruction_encoding_map
<1> QED  BY <1>1, <1>2, <1>3, <1>4, <1>5, <1>6, <1>7, <1>8, <1>9, <1>10, <1>11, <1>12, <1>13,
    <1>14, <1>15, <1>16 DEF generateMachineCode

(* The operation by the opcode; the unit of what is not floating point.    *)
LEMMA SignalOf ==
  ASSUME NEW word
  PROVE  /\ word.opcode = kRtype => GetAluSignal(word) = SignalR(word)
         /\ word.opcode = kItype => GetAluSignal(word) = SignalI(word)
         /\ word.opcode = kBtype => GetAluSignal(word) = SignalB(word)
         /\ word.opcode = kOpImm32 => GetAluSignal(word) = SignalOpImm32(word)
         /\ word.opcode = kOp32 => GetAluSignal(word) = SignalOp32(word)
         /\ word.opcode = kFtype => GetAluSignal(word) = SignalF(word)
         /\ word.opcode = kfmadd => GetAluSignal(word) = "kFmadd_s"
         /\ word.opcode \in {kfmsub, kfnmsub, kfnmadd} => GetAluSignal(word) = "kNone"
         /\ word.opcode \in {kLoadType, kStoreType, kjalr, kjal, klui, kauipc}
              => GetAluSignal(word) = "kAdd"
         /\ word.opcode \in {kflw, kfsw} /\ word.funct3 \in {2, 3} => GetAluSignal(word) = "kAdd"
BY SMT DEF GetAluSignal, kRtype, kItype, kBtype, kOpImm32, kOp32, kFtype, kfmadd, kfmsub, kfnmsub,
   kfnmadd, kLoadType, kStoreType, kjalr, kjal, klui, kauipc, kflw, kfsw

LEMMA IntegerUnit ==
  ASSUME NEW word, word.opcode \notin {kFtype, kflw, kfsw}
  PROVE  Unit(word) = "none" /\ ~isFInstruction(word) /\ ~isDInstruction(word)
BY DEF Unit, isFInstruction, isDInstruction, isBFloat16Instruction, isSIMDF32Instruction

LEMMA AccessUnit ==
  ASSUME NEW word, word.opcode \in {kflw, kfsw}
  PROVE  /\ word.funct3 = 2 => Unit(word) = "float" /\ isFInstruction(word)
         /\ word.funct3 = 3 => Unit(word) = "double" /\ ~isFInstruction(word) /\ isDInstruction(word)
BY DEF Unit, isFInstruction, isDInstruction, isBFloat16Instruction, isSIMDF32Instruction,
       kFtype, kflw, kfsw

LEMMA ArithmeticUnit ==
  ASSUME NEW word, word.opcode = kFtype
  PROVE  /\ word.funct7 \in {0, 4, 8, 12, 16, 20, 44, 80, 96, 104, 112, 120}
              => Unit(word) = "float" /\ isFInstruction(word)
         /\ word.funct7 \in {1, 5, 9, 13, 17, 21, 32, 33, 45, 81, 97, 105, 113, 121}
              => Unit(word) = "double" /\ ~isFInstruction(word) /\ isDInstruction(word)
         /\ word.funct7 \in {2, 6, 10, 14, 18} => Unit(word) = "bfloat16" /\ isFInstruction(word)
         /\ word.funct7 \in {3, 7, 11, 15, 19, 23}
              => Unit(word) = "simdf32" /\ ~isFInstruction(word) /\ isDInstruction(word)
<1> USE DEF Unit, isFInstruction, isDInstruction, isBFloat16Instruction, isSIMDF32Instruction,
            kFtype, kflw, kfsw
<1>1. CASE word.funct7 \in {0, 4, 8, 12, 16, 20, 44, 80, 96, 104, 112, 120}
  BY <1>1
<1>2. CASE word.funct7 \in {1, 5, 9, 13, 17, 21, 32, 33, 45, 81, 97, 105, 113, 121}
  BY <1>2
<1>3. CASE word.funct7 \in {2, 6, 10, 14, 18}
  BY <1>3
<1>4. CASE word.funct7 \in {3, 7, 11, 15, 19, 23}
  BY <1>4
<1> QED  BY <1>1, <1>2, <1>3, <1>4

(* The operation of a floating-point word by funct7 and the field beside it. *)
LEMMA SignsSelected ==
  ASSUME NEW word
  PROVE  /\ word.funct7 = 16 =>
              /\ (word.funct3 = 0 => SignalF(word) = "FSGNJ_S") /\ (word.funct3 = 1 => SignalF(word) = "FSGNJN_S")
              /\ (word.funct3 = 2 => SignalF(word) = "FSGNJX_S")
         /\ word.funct7 = 17 =>
              /\ (word.funct3 = 0 => SignalF(word) = "FSGNJ_D") /\ (word.funct3 = 1 => SignalF(word) = "FSGNJN_D")
              /\ (word.funct3 = 2 => SignalF(word) = "FSGNJX_D")
         /\ word.funct7 = 20 =>
              (word.funct3 = 0 => SignalF(word) = "FMIN_S") /\ (word.funct3 = 1 => SignalF(word) = "FMAX_S")
         /\ word.funct7 = 21 =>
              (word.funct3 = 0 => SignalF(word) = "FMIN_D") /\ (word.funct3 = 1 => SignalF(word) = "FMAX_D")
         /\ word.funct7 = 80 =>
              /\ (word.funct3 = 0 => SignalF(word) = "FLE_S") /\ (word.funct3 = 1 => SignalF(word) = "FLT_S")
              /\ (word.funct3 = 2 => SignalF(word) = "FEQ_S")
         /\ word.funct7 = 81 =>
              /\ (word.funct3 = 0 => SignalF(word) = "FLE_D") /\ (word.funct3 = 1 => SignalF(word) = "FLT_D")
              /\ (word.funct3 = 2 => SignalF(word) = "FEQ_D")
<1> USE DEF SignalF, SignalFloat, Entry
<1>1. CASE word.funct7 = 16
  BY <1>1
<1>2. CASE word.funct7 = 17
  BY <1>2
<1>3. CASE word.funct7 = 20
  BY <1>3
<1>4. CASE word.funct7 = 21
  BY <1>4
<1>5. CASE word.funct7 = 80
  BY <1>5
<1>6. CASE word.funct7 = 81
  BY <1>6
<1> QED  BY <1>1, <1>2, <1>3, <1>4, <1>5, <1>6

LEMMA ConversionsSelected ==
  ASSUME NEW word
  PROVE  /\ word.funct7 = 96 =>
              /\ (word.rs2 = 0 => SignalF(word) = "FCVT_W_S") /\ (word.rs2 = 1 => SignalF(word) = "FCVT_WU_S")
              /\ (word.rs2 = 2 => SignalF(word) = "FCVT_L_S") /\ (word.rs2 = 3 => SignalF(word) = "FCVT_LU_S")
         /\ word.funct7 = 97 =>
              /\ (word.rs2 = 0 => SignalF(word) = "FCVT_W_D") /\ (word.rs2 = 1 => SignalF(word) = "FCVT_WU_D")
              /\ (word.rs2 = 2 => SignalF(word) = "FCVT_L_D") /\ (word.rs2 = 3 => SignalF(word) = "FCVT_LU_D")
         /\ word.funct7 = 104 =>
              /\ (word.rs2 = 0 => SignalF(word) = "FCVT_S_W") /\ (word.rs2 = 1 => SignalF(word) = "FCVT_S_WU")
              /\ (word.rs2 = 2 => SignalF(word) = "FCVT_S_L") /\ (word.rs2 = 3 => SignalF(word) = "FCVT_S_LU")
         /\ word.funct7 = 105 =>
              /\ (word.rs2 = 0 => SignalF(word) = "FCVT_D_W") /\ (word.rs2 = 1 => SignalF(word) = "FCVT_D_WU")
              /\ (word.rs2 = 2 => SignalF(word) = "FCVT_D_L") /\ (word.rs2 = 3 => SignalF(word) = "FCVT_D_LU")
<1> USE DEF SignalF, SignalFloat, Entry
<1>1. CASE word.funct7 = 96
  BY <1>1
<1>2. CASE word.funct7 = 97
  BY <1>2
<1>3. CASE word.funct7 = 104
  BY <1>3
<1>4. CASE word.funct7 = 105
  BY <1>4
<1> QED  BY <1>1, <1>2, <1>3, <1>4

LEMMA MovesSelected ==
  ASSUME NEW word
  PROVE  /\ word.funct7 = 112 =>
              (word.funct3 = 0 => SignalF(word) = "FMV_X_W") /\ (word.funct3 = 1 => SignalF(word) = "FCLASS_S")
         /\ word.funct7 = 113 =>
              (word.funct3 = 0 => SignalF(word) = "FMV_X_D") /\ (word.funct3 = 1 => SignalF(word) = "FCLASS_D")
         /\ word.funct7 = 120 => SignalF(word) = "FMV_W_X"
         /\ word.funct7 = 121 => SignalF(word) = "FMV_D_X"
         /\ word.funct7 = 44 => SignalF(word) = "FSQRT_S"
         /\ word.funct7 = 45 => SignalF(word) = "FSQRT_D"
         /\ word.funct7 = 32 => SignalF(word) = "kNone"
         /\ word.funct7 = 33 => SignalF(word) = "kNone"
BY DEF SignalF, SignalFloat, SignalArithmetic, Entry

LEMMA ArithmeticSelected ==
  ASSUME NEW word
  PROVE  /\ word.funct7 = 0 => SignalF(word) = "FADD_S"
         /\ word.funct7 = 1 => SignalF(word) = "FADD_D"
         /\ word.funct7 = 2 => SignalF(word) = "FADD_BF16"
         /\ word.funct7 = 3 => SignalF(word) = "SIMDF_ADD32"
         /\ word.funct7 = 4 => SignalF(word) = "FSUB_S"
         /\ word.funct7 = 5 => SignalF(word) = "FSUB_D"
         /\ word.funct7 = 6 => SignalF(word) = "FSUB_BF16"
         /\ word.funct7 = 7 => SignalF(word) = "SIMDF_SUB32"
BY DEF SignalF, SignalFloat, SignalArithmetic, Entry

LEMMA ProductsSelected ==
  ASSUME NEW word
  PROVE  /\ word.funct7 = 8 => SignalF(word) = "FMUL_S"
         /\ word.funct7 = 9 => SignalF(word) = "FMUL_D"
         /\ word.funct7 = 10 => SignalF(word) = "FMUL_BF16"
         /\ word.funct7 = 11 => SignalF(word) = "SIMDF_MUL32"
         /\ word.funct7 = 12 => SignalF(word) = "FDIV_S"
         /\ word.funct7 = 13 => SignalF(word) = "FDIV_D"
         /\ word.funct7 = 14 => SignalF(word) = "FDIV_BF16"
         /\ word.funct7 = 15 => SignalF(word) = "SIMDF_DIV32"
         /\ word.funct7 = 18 => SignalF(word) = "VDOTP_BF16"
         /\ word.funct7 = 19 => SignalF(word) = "SIMDF_REM32"
         /\ word.funct7 = 23 => SignalF(word) = "SIMDF_LD32"
BY DEF SignalF, SignalFloat, SignalArithmetic, Entry

----------------------------------------------------------------------------
(* Words are records of fields.                                            *)

(* The fields of a word have their widths, and its opcode is one of those  *)
(* that are decoded.                                                       *)
Opcodes == { kRtype, kItype, kLoadType, kStoreType, kBtype, kjal, kjalr, klui, kauipc, kSystem, kOp32,
             kOpImm32, kflw, kfsw, kFtype, kfmadd, kfmsub, kfnmsub, kfnmadd }

Decodable(word) ==
  /\ word \in Instructions
  /\ word.opcode \in Opcodes
  /\ word.opcode \in {kflw, kfsw} => word.funct3 \in {2, 3}

LEMMA Numbers ==
  ASSUME NEW l, Numbered(l)
  PROVE  /\ l.rd \in 0 .. 31 /\ l.rs1 \in 0 .. 31 /\ l.rs2 \in 0 .. 31 /\ l.rs3 \in 0 .. 31
         /\ l.rm \in 0 .. 7
BY DEF Numbered

LEMMA LowBits ==
  ASSUME NEW n \in Int
  PROVE  Bits(n, 1, 32) \in 0 .. 31 /\ Bits(n, 32, 128) \in 0 .. 127
BY DEF Bits

LEMMA PlainFormats ==
  ASSUME NEW l, Numbered(l)
  PROVE  /\ l.op \in DOMAIN R_type_instruction_encoding_map => Decodable(generateRTypeMachineCode(l))
         /\ l.op \in DOMAIN I3_type_instruction_encoding_map => Decodable(generateI3TypeMachineCode(l))
         /\ l.op \in DOMAIN F_D_R_type_instruction_encoding_map => Decodable(generateFDRTypeMachineCode(l))
         /\ l.op \in DOMAIN F_D_R1_type_instruction_encoding_map => Decodable(generateFDR1TypeMachineCode(l))
         /\ l.op \in DOMAIN F_D_R2_type_instruction_encoding_map => Decodable(generateFDR2TypeMachineCode(l))
         /\ l.op \in DOMAIN F_D_R3_type_instruction_encoding_map => Decodable(generateFDR3TypeMachineCode(l))
         /\ l.op \in DOMAIN F_D_R4_type_instruction_encoding_map => Decodable(generateFDR4TypeMachineCode(l))
<1>1. ASSUME l.op \in DOMAIN R_type_instruction_encoding_map
      PROVE  Decodable(generateRTypeMachineCode(l))
  <2> DEFINE e == R_type_instruction_encoding_map[l.op]
             word == generateRTypeMachineCode(l)
  <2>1. e[1] \in {kRtype, kOp32} /\ e[2] \in 0 .. 7 /\ e[3] \in 0 .. 127
    BY <1>1 DEF R_type_instruction_encoding_map, kRtype, kOp32
  <2>2. word = Word(e[1], l.rd, e[2], l.rs1, l.rs2, e[3])
    BY DEF generateRTypeMachineCode
  <2> HIDE DEF e, word
  <2>3. word \in Instructions /\ word.opcode = e[1]
    BY <2>1, <2>2, Numbers DEF Word, Instructions, kRtype, kOp32
  <2>4. e[1] \in Opcodes /\ e[1] \notin {kflw, kfsw}
    BY <2>1 DEF Opcodes, kRtype, kOp32, kflw, kfsw
  <2> QED  BY <2>3, <2>4 DEF Decodable, word
<1>2. ASSUME l.op \in DOMAIN I3_type_instruction_encoding_map
      PROVE  Decodable(generateI3TypeMachineCode(l))
  <2> DEFINE e == I3_type_instruction_encoding_map[l.op]
             word == generateI3TypeMachineCode(l)
  <2>1. e[1] = kSystem /\ e[2] \in 0 .. 7
    BY <1>2 DEF I3_type_instruction_encoding_map, kSystem
  <2>2. word = IWord(e[1], 0, e[2], 0, 0)
    BY DEF generateI3TypeMachineCode
  <2> HIDE DEF e, word
  <2>3. word \in Instructions /\ word.opcode = e[1]
    BY <2>1, <2>2, Numbers, LowBits DEF IWord, Word, Instructions, kSystem
  <2>4. e[1] \in Opcodes /\ e[1] \notin {kflw, kfsw}
    BY <2>1 DEF Opcodes, kSystem, kflw, kfsw
  <2> QED  BY <2>3, <2>4 DEF Decodable, word
<1>3. ASSUME l.op \in DOMAIN F_D_R_type_instruction_encoding_map
      PROVE  Decodable(generateFDRTypeMachineCode(l))
  <2> DEFINE e == F_D_R_type_instruction_encoding_map[l.op]
             word == generateFDRTypeMachineCode(l)
  <2>1. e[1] = kFtype /\ e[2] \in 0 .. 7 /\ e[3] \in 0 .. 127
    BY <1>3 DEF F_D_R_type_instruction_encoding_map, kFtype
  <2>2. word = Word(e[1], l.rd, e[2], l.rs1, l.rs2, e[3])
    BY DEF generateFDRTypeMachineCode
  <2> HIDE DEF e, word
  <2>3. word \in Instructions /\ word.opcode = e[1]
    BY <2>1, <2>2, Numbers DEF Word, Instructions, kFtype
  <2>4. e[1] \in Opcodes /\ e[1] \notin {kflw, kfsw}
    BY <2>1 DEF Opcodes, kFtype, kflw, kfsw
  <2> QED  BY <2>3, <2>4 DEF Decodable, word
<1>4. ASSUME l.op \in DOMAIN F_D_R1_type_instruction_encoding_map
      PROVE  Decodable(generateFDR1TypeMachineCode(l))
  <2> DEFINE e == F_D_R1_type_instruction_encoding_map[l.op]
             word == generateFDR1TypeMachineCode(l)
  <2>1. e[1] = kFtype /\ e[2] \in 0 .. 127
    BY <1>4 DEF F_D_R1_type_instruction_encoding_map, kFtype
  <2>2. word = Word(e[1], l.rd, l.rm, l.rs1, l.rs2, e[2])
    BY DEF generateFDR1TypeMachineCode
  <2> HIDE DEF e, word
  <2>3. word \in Instructions /\ word.opcode = e[1]
    BY <2>1, <2>2, Numbers DEF Word, Instructions, kFtype
  <2>4. e[1] \in Opcodes /\ e[1] \notin {kflw, kfsw}
    BY <2>1 DEF Opcodes, kFtype, kflw, kfsw
  <2> QED  BY <2>3, <2>4 DEF Decodable, word
<1>5. ASSUME l.op \in DOMAIN F_D_R2_type_instruction_encoding_map
      PROVE  Decodable(generateFDR2TypeMachineCode(l))
  <2> DEFINE e == F_D_R2_type_instruction_encoding_map[l.op]
             word == generateFDR2TypeMachineCode(l)
  <2>1. e[1] = kFtype /\ e[2] \in 0 .. 31 /\ e[3] \in 0 .. 127
    BY <1>5 DEF F_D_R2_type_instruction_encoding_map, kFtype
  <2>2. word = Word(e[1], l.rd, l.rm, l.rs1, e[2], e[3])
    BY DEF generateFDR2TypeMachineCode
  <2> HIDE DEF e, word
  <2>3. word \in Instructions /\ word.opcode = e[1]
    BY <2>1, <2>2, Numbers DEF Word, Instructions, kFtype
  <2>4. e[1] \in Opcodes /\ e[1] \notin {kflw, kfsw}
    BY <2>1 DEF Opcodes, kFtype, kflw, kfsw
  <2> QED  BY <2>3, <2>4 DEF Decodable, word
<1>6. ASSUME l.op \in DOMAIN F_D_R3_type_instruction_encoding_map
      PROVE  Decodable(generateFDR3TypeMachineCode(l))
  <2> DEFINE e == F_D_R3_type_instruction_encoding_map[l.op]
             word == generateFDR3TypeMachineCode(l)
  <2>1. e[1] = kFtype /\ e[2] \in 0 .. 7 /\ e[3] \in 0 .. 31 /\ e[4] \in 0 .. 127
    BY <1>6 DEF F_D_R3_type_instruction_encoding_map, kFtype
  <2>2. word = Word(e[1], l.rd, e[2], l.rs1, e[3], e[4])
    BY DEF generateFDR3TypeMachineCode
  <2> HIDE DEF e, word
  <2>3. word \in Instructions /\ word.opcode = e[1]
    BY <2>1, <2>2, Numbers DEF Word, Instructions, kFtype
  <2>4. e[1] \in Opcodes /\ e[1] \notin {kflw, kfsw}
    BY <2>1 DEF Opcodes, kFtype, kflw, kfsw
  <2> QED  BY <2>3, <2>4 DEF Decodable, word
<1>7. ASSUME l.op \in DOMAIN F_D_R4_type_instruction_encoding_map
      PROVE  Decodable(generateFDR4TypeMachineCode(l))
  <2> DEFINE e == F_D_R4_type_instruction_encoding_map[l.op]
             word == generateFDR4TypeMachineCode(l)
  <2>1. e[1] \in {kfmadd, kfmsub, kfnmsub, kfnmadd} /\ e[2] \in 0 .. 1
    BY <1>7 DEF F_D_R4_type_instruction_encoding_map, kfmadd, kfmsub, kfnmsub, kfnmadd
  <2>2. word = Word(e[1], l.rd, l.rm, l.rs1, l.rs2, 4 * l.rs3 + e[2])
    BY DEF generateFDR4TypeMachineCode
  <2> HIDE DEF e, word
  <2>3. word \in Instructions /\ word.opcode = e[1]
    BY <2>1, <2>2, Numbers DEF Word, Instructions, kfmadd, kfmsub, kfnmsub, kfnmadd
  <2>4. e[1] \in Opcodes /\ e[1] \notin {kflw, kfsw}
    BY <2>1 DEF Opcodes, kfmadd, kfmsub, kfnmsub, kfnmadd, kflw, kfsw
  <2> QED  BY <2>3, <2>4 DEF Decodable, word
<1> QED  BY <1>1, <1>2, <1>3, <1>4, <1>5, <1>6, <1>7

LEMMA ImmediateFormats ==
  ASSUME NEW l, Numbered(l), l.imm \in Int
  PROVE  /\ l.op \in DOMAIN I1_type_instruction_encoding_map => Decodable(generateI1TypeMachineCode(l))
         /\ l.op \in DOMAIN I2_type_instruction_encoding_map => Decodable(generateI2TypeMachineCode(l))
         /\ l.op \in DOMAIN S_type_instruction_encoding_map => Decodable(generateSTypeMachineCode(l))
         /\ l.op \in DOMAIN F_D_I_type_instruction_encoding_map => Decodable(generateFDITypeMachineCode(l))
         /\ l.op \in DOMAIN F_D_S_type_instruction_encoding_map => Decodable(generateFDSTypeMachineCode(l))
         /\ l.op \in DOMAIN CSR_R_type_instruction_encoding_map => Decodable(generateCSRRTypeMachineCode(l))
         /\ l.op \in DOMAIN CSR_I_type_instruction_encoding_map => Decodable(generateCSRITypeMachineCode(l))
<1>1. ASSUME l.op \in DOMAIN I1_type_instruction_encoding_map
      PROVE  Decodable(generateI1TypeMachineCode(l))
  <2> DEFINE e == I1_type_instruction_encoding_map[l.op]
             word == generateI1TypeMachineCode(l)
  <2>1. e[1] \in {kItype, kOpImm32, kLoadType, kjalr} /\ e[2] \in 0 .. 7
    BY <1>1 DEF I1_type_instruction_encoding_map, kItype, kOpImm32, kLoadType, kjalr
  <2>2. word = IWord(e[1], l.rd, e[2], l.rs1, l.imm)
    BY DEF generateI1TypeMachineCode
  <2> HIDE DEF e, word
  <2>3. word \in Instructions /\ word.opcode = e[1]
    BY <2>1, <2>2, Numbers, LowBits DEF IWord, Word, Instructions, kItype, kOpImm32, kLoadType, kjalr
  <2>4. e[1] \in Opcodes /\ e[1] \notin {kflw, kfsw}
    BY <2>1 DEF Opcodes, kItype, kOpImm32, kLoadType, kjalr, kflw, kfsw
  <2> QED  BY <2>3, <2>4 DEF Decodable, word
<1>2. ASSUME l.op \in DOMAIN I2_type_instruction_encoding_map
      PROVE  Decodable(generateI2TypeMachineCode(l))
  <2> DEFINE e == I2_type_instruction_encoding_map[l.op]
             word == generateI2TypeMachineCode(l)
  <2>1. e[1] \in {kItype, kOpImm32} /\ e[2] \in 0 .. 7 /\ e[3] \in 0 .. 63
    BY <1>2 DEF I2_type_instruction_encoding_map, kItype, kOpImm32
  <2>2. word = IWord(e[1], l.rd, e[2], l.rs1, 64 * e[3] + l.imm)
    BY DEF generateI2TypeMachineCode
  <2>3. 64 * e[3] + l.imm \in Int
    BY <2>1
  <2> HIDE DEF e, word
  <2>4. word \in Instructions /\ word.opcode = e[1]
    BY <2>1, <2>2, Numbers, <2>3, LowBits DEF IWord, Word, Instructions, kItype, kOpImm32
  <2>5. e[1] \in Opcodes /\ e[1] \notin {kflw, kfsw}
    BY <2>1 DEF Opcodes, kItype, kOpImm32, kflw, kfsw
  <2> QED  BY <2>4, <2>5 DEF Decodable, word
<1>3. ASSUME l.op \in DOMAIN S_type_instruction_encoding_map
      PROVE  Decodable(generateSTypeMachineCode(l))
  <2> DEFINE e == S_type_instruction_encoding_map[l.op]
             word == generateSTypeMachineCode(l)
  <2>1. e[1] = kStoreType /\ e[2] \in 0 .. 7
    BY <1>3 DEF S_type_instruction_encoding_map, kStoreType
  <2>2. word = SWord(e[1], e[2], l.rs1, l.rs2, l.imm)
    BY DEF generateSTypeMachineCode
  <2> HIDE DEF e, word
  <2>3. word \in Instructions /\ word.opcode = e[1]
    BY <2>1, <2>2, Numbers, LowBits DEF SWord, Word, Instructions, kStoreType
  <2>4. e[1] \in Opcodes /\ e[1] \notin {kflw, kfsw}
    BY <2>1 DEF Opcodes, kStoreType, kflw, kfsw
  <2> QED  BY <2>3, <2>4 DEF Decodable, word
<1>4. ASSUME l.op \in DOMAIN F_D_I_type_instruction_encoding_map
      PROVE  Decodable(generateFDITypeMachineCode(l))
  <2> DEFINE e == F_D_I_type_instruction_encoding_map[l.op]
             word == generateFDITypeMachineCode(l)
  <2>1. e[1] = kflw /\ e[2] \in {2, 3}
    BY <1>4 DEF F_D_I_type_instruction_encoding_map, kflw
  <2>2. word = IWord(e[1], l.rd, e[2], l.rs1, l.imm)
    BY DEF generateFDITypeMachineCode
  <2> HIDE DEF e, word
  <2>3. word \in Instructions /\ word.opcode = e[1] /\ word.funct3 = e[2]
    BY <2>1, <2>2, Numbers, LowBits DEF IWord, Word, Instructions, kflw
  <2>4. e[1] \in Opcodes /\ (e[1] \in {kflw, kfsw} => e[2] \in {2, 3})
    BY <2>1 DEF Opcodes, kflw, kfsw
  <2> QED  BY <2>3, <2>4 DEF Decodable, word
<1>5. ASSUME l.op \in DOMAIN F_D_S_type_instruction_encoding_map
      PROVE  Decodable(generateFDSTypeMachineCode(l))
  <2> DEFINE e == F_D_S_type_instruction_encoding_map[l.op]
             word == generateFDSTypeMachineCode(l)
  <2>1. e[1] = kfsw /\ e[2] \in {2, 3}
    BY <1>5 DEF F_D_S_type_instruction_encoding_map, kfsw
  <2>2. word = SWord(e[1], e[2], l.rs1, l.rs2, l.imm)
    BY DEF generateFDSTypeMachineCode
  <2> HIDE DEF e, word
  <2>3. word \in Instructions /\ word.opcode = e[1] /\ word.funct3 = e[2]
    BY <2>1, <2>2, Numbers, LowBits DEF SWord, Word, Instructions, kfsw
  <2>4. e[1] \in Opcodes /\ (e[1] \in {kflw, kfsw} => e[2] \in {2, 3})
    BY <2>1 DEF Opcodes, kfsw, kflw
  <2> QED  BY <2>3, <2>4 DEF Decodable, word
<1>6. ASSUME l.op \in DOMAIN CSR_R_type_instruction_encoding_map
      PROVE  Decodable(generateCSRRTypeMachineCode(l))
  <2> DEFINE e == CSR_R_type_instruction_encoding_map[l.op]
             word == generateCSRRTypeMachineCode(l)
  <2>1. e[1] = kSystem /\ e[2] \in 0 .. 7
    BY <1>6 DEF CSR_R_type_instruction_encoding_map, kSystem
  <2>2. word = IWord(e[1], l.rd, e[2], l.rs1, l.imm)
    BY DEF generateCSRRTypeMachineCode
  <2> HIDE DEF e, word
  <2>3. word \in Instructions /\ word.opcode = e[1]
    BY <2>1, <2>2, Numbers, LowBits DEF IWord, Word, Instructions, kSystem
  <2>4. e[1] \in Opcodes /\ e[1] \notin {kflw, kfsw}
    BY <2>1 DEF Opcodes, kSystem, kflw, kfsw
  <2> QED  BY <2>3, <2>4 DEF Decodable, word
<1>7. ASSUME l.op \in DOMAIN CSR_I_type_instruction_encoding_map
      PROVE  Decodable(generateCSRITypeMachineCode(l))
  <2> DEFINE e == CSR_I_type_instruction_encoding_map[l.op]
             word == generateCSRITypeMachineCode(l)
  <2>1. e[1] = kSystem /\ e[2] \in 0 .. 7
    BY <1>7 DEF CSR_I_type_instruction_encoding_map, kSystem
  <2>2. word = IWord(e[1], l.rd, e[2], l.rs1, l.imm)
    BY DEF generateCSRITypeMachineCode
  <2> HIDE DEF e, word
  <2>3. word \in Instructions /\ word.opcode = e[1]
    BY <2>1, <2>2, Numbers, LowBits DEF IWord, Word, Instructions, kSystem
  <2>4. e[1] \in Opcodes /\ e[1] \notin {kflw, kfsw}
    BY <2>1 DEF Opcodes, kSystem, kflw, kfsw
  <2> QED  BY <2>3, <2>4 DEF Decodable, word
<1> QED  BY <1>1, <1>2, <1>3, <1>4, <1>5, <1>6, <1>7

LEMMA SpreadFormats ==
  ASSUME NEW l, Numbered(l)
  PROVE  /\ l.op \in DOMAIN B_type_instruction_encoding_map /\ l.imm \in BranchOffsets
              => Decodable(generateBTypeMachineCode(l))
         /\ l.op \in DOMAIN U_type_instruction_encoding_map /\ l.imm \in UpperOperands
              => Decodable(generateUTypeMachineCode(l))
         /\ l.op \in DOMAIN J_type_instruction_encoding_map /\ l.imm \in JumpOffsets
              => Decodable(generateJTypeMachineCode(l))
<1>1. ASSUME l.op \in DOMAIN B_type_instruction_encoding_map, l.imm \in BranchOffsets
      PROVE  Decodable(generateBTypeMachineCode(l))
  <2> DEFINE e == B_type_instruction_encoding_map[l.op]
             word == generateBTypeMachineCode(l)
  <2>1. e[1] = kBtype /\ e[2] \in 0 .. 7
    BY <1>1 DEF B_type_instruction_encoding_map, kBtype
  <2>2. word = Word(e[1], BranchLow(l.imm), e[2], l.rs1, l.rs2, BranchHigh(l.imm))
    BY DEF generateBTypeMachineCode, BranchLow, BranchHigh
  <2>3. BranchLow(l.imm) \in 0 .. 31 /\ BranchHigh(l.imm) \in 0 .. 127
    BY <1>1, ThirteenBits
  <2> HIDE DEF e, word
  <2>4. word \in Instructions /\ word.opcode = e[1]
    BY <2>1, <2>2, Numbers, <2>3 DEF Word, Instructions, kBtype
  <2>5. e[1] \in Opcodes /\ e[1] \notin {kflw, kfsw}
    BY <2>1 DEF Opcodes, kBtype, kflw, kfsw
  <2> QED  BY <2>4, <2>5 DEF Decodable, word
<1>2. ASSUME l.op \in DOMAIN U_type_instruction_encoding_map, l.imm \in UpperOperands
      PROVE  Decodable(generateUTypeMachineCode(l))
  <2> DEFINE e == U_type_instruction_encoding_map[l.op]
             word == generateUTypeMachineCode(l)
  <2>1. e[1] \in {klui, kauipc}
    BY <1>2 DEF U_type_instruction_encoding_map, klui, kauipc
  <2>2. word = Word(e[1], l.rd, Bits(l.imm, 1, 8), Bits(l.imm, 8, 32),
              Bits(l.imm, 256, 32), Bits(l.imm, 8192, 128))
    BY DEF generateUTypeMachineCode
  <2>3. /\ Bits(l.imm, 1, 8) \in 0 .. 7 /\ Bits(l.imm, 8, 32) \in 0 .. 31
        /\ Bits(l.imm, 256, 32) \in 0 .. 31 /\ Bits(l.imm, 8192, 128) \in 0 .. 127
    BY <1>2, TwentyBits
  <2> HIDE DEF e, word
  <2>4. word \in Instructions /\ word.opcode = e[1]
    BY <2>1, <2>2, Numbers, <2>3 DEF Word, Instructions, klui, kauipc
  <2>5. e[1] \in Opcodes /\ e[1] \notin {kflw, kfsw}
    BY <2>1 DEF Opcodes, klui, kauipc, kflw, kfsw
  <2> QED  BY <2>4, <2>5 DEF Decodable, word
<1>3. ASSUME l.op \in DOMAIN J_type_instruction_encoding_map, l.imm \in JumpOffsets
      PROVE  Decodable(generateJTypeMachineCode(l))
  <2> DEFINE e == J_type_instruction_encoding_map[l.op]
             word == generateJTypeMachineCode(l)
  <2>1. e[1] = kjal
    BY <1>3 DEF J_type_instruction_encoding_map, kjal
  <2>2. word = Word(e[1], l.rd, Bits(l.imm, 4096, 8), Bits(l.imm, 32768, 32),
              JumpLow(l.imm), JumpHigh(l.imm))
    BY SMT DEF generateJTypeMachineCode, JumpLow, JumpHigh
  <2>3. /\ JumpLow(l.imm) \in 0 .. 31 /\ JumpHigh(l.imm) \in 0 .. 127
        /\ Bits(l.imm, 4096, 8) \in 0 .. 7 /\ Bits(l.imm, 32768, 32) \in 0 .. 31
    BY <1>3, TwentyOneBits
  <2> HIDE DEF e, word
  <2>4. word \in Instructions /\ word.opcode = e[1]
    BY <2>1, <2>2, Numbers, <2>3 DEF Word, Instructions, kjal
  <2>5. e[1] \in Opcodes /\ e[1] \notin {kflw, kfsw}
    BY <2>1 DEF Opcodes, kjal, kflw, kfsw
  <2> QED  BY <2>4, <2>5 DEF Decodable, word
<1> QED  BY <1>1, <1>2, <1>3

CsrLine(l) ==
  l.op \in DOMAIN CSR_R_type_instruction_encoding_map \cup DOMAIN CSR_I_type_instruction_encoding_map

(* Every line that the parser accepts has a word that is decoded.          *)
THEOREM WordsDecodable ==
  ASSUME NEW l, l.op \in Mnemonics, Encodable(l), Numbered(l), CsrLine(l) => l.imm \in Int
  PROVE  Decodable(generateMachineCode(l))
<1>1. l.op \in ShortOps => l.imm \in Int
  <2>1. ShortOffsets \subseteq Int
    BY DEF ShortOffsets
  <2> QED  BY <2>1 DEF Encodable
<1>2. l.op \in DOMAIN I2_type_instruction_encoding_map => l.imm \in Int
  <2>1. Shifts \subseteq Int
    BY DEF Shifts
  <2> QED  BY <2>1 DEF Encodable
<1>3. l.op \in UNION { DOMAIN R_type_instruction_encoding_map, DOMAIN I3_type_instruction_encoding_map,
                      DOMAIN F_D_R_type_instruction_encoding_map, DOMAIN F_D_R1_type_instruction_encoding_map,
                      DOMAIN F_D_R2_type_instruction_encoding_map, DOMAIN F_D_R3_type_instruction_encoding_map,
                      DOMAIN F_D_R4_type_instruction_encoding_map }
      => Decodable(generateMachineCode(l))
  BY PlainFormats, Generated
<1>4. l.op \in ShortOps \cup DOMAIN I2_type_instruction_encoding_map \/ CsrLine(l)
      => Decodable(generateMachineCode(l))
  BY <1>1, <1>2, ImmediateFormats, Generated DEF ShortOps, CsrLine
<1>5. l.op \in UNION { DOMAIN B_type_instruction_encoding_map, DOMAIN U_type_instruction_encoding_map,
                      DOMAIN J_type_instruction_encoding_map }
      => Decodable(generateMachineCode(l))
  BY SpreadFormats, Generated DEF Encodable
<1> QED  BY <1>3, <1>4, <1>5 DEF Mnemonics, CsrLine

(* System instructions: their words are those of ecall and of the CSRs.    *)
LEMMA SystemWord ==
  ASSUME NEW l, l.op \in Mnemonics, ~CsrLine(l), l.op \notin DOMAIN I3_type_instruction_encoding_map
  PROVE  generateMachineCode(l).opcode # kSystem
<1>1. l.op \in DOMAIN R_type_instruction_encoding_map
        => generateRTypeMachineCode(l).opcode # kSystem
  <2>1. l.op \in DOMAIN R_type_instruction_encoding_map
          => R_type_instruction_encoding_map[l.op][1] # 115
    BY DEF R_type_instruction_encoding_map
  <2>2. generateRTypeMachineCode(l).opcode = R_type_instruction_encoding_map[l.op][1]
    BY DEF generateRTypeMachineCode, IWord, SWord, Word
  <2> QED  BY <2>1, <2>2 DEF kSystem
<1>2. l.op \in DOMAIN I1_type_instruction_encoding_map
        => generateI1TypeMachineCode(l).opcode # kSystem
  <2>1. l.op \in DOMAIN I1_type_instruction_encoding_map
          => I1_type_instruction_encoding_map[l.op][1] # 115
    BY DEF I1_type_instruction_encoding_map
  <2>2. generateI1TypeMachineCode(l).opcode = I1_type_instruction_encoding_map[l.op][1]
    BY DEF generateI1TypeMachineCode, IWord, SWord, Word
  <2> QED  BY <2>1, <2>2 DEF kSystem
<1>3. l.op \in DOMAIN I2_type_instruction_encoding_map
        => generateI2TypeMachineCode(l).opcode # kSystem
  <2>1. l.op \in DOMAIN I2_type_instruction_encoding_map
          => I2_type_instruction_encoding_map[l.op][1] # 115
    BY DEF I2_type_instruction_encoding_map
  <2>2. generateI2TypeMachineCode(l).opcode = I2_type_instruction_encoding_map[l.op][1]
    BY DEF generateI2TypeMachineCode, IWord, SWord, Word
  <2> QED  BY <2>1, <2>2 DEF kSystem
<1>4. l.op \in DOMAIN S_type_instruction_encoding_map
        => generateSTypeMachineCode(l).opcode # kSystem
  <2>1. l.op \in DOMAIN S_type_instruction_encoding_map
          => S_type_instruction_encoding_map[l.op][1] # 115
    BY DEF S_type_instruction_encoding_map
  <2>2. generateSTypeMachineCode(l).opcode = S_type_instruction_encoding_map[l.op][1]
    BY DEF generateSTypeMachineCode, IWord, SWord, Word
  <2> QED  BY <2>1, <2>2 DEF kSystem
<1>5. l.op \in DOMAIN B_type_instruction_encoding_map
        => generateBTypeMachineCode(l).opcode # kSystem
  <2>1. l.op \in DOMAIN B_type_instruction_encoding_map
          => B_type_instruction_encoding_map[l.op][1] # 115
    BY DEF B_type_instruction_encoding_map
  <2>2. generateBTypeMachineCode(l).opcode = B_type_instruction_encoding_map[l.op][1]
    BY DEF generateBTypeMachineCode, IWord, SWord, Word
  <2> QED  BY <2>1, <2>2 DEF kSystem
<1>6. l.op \in DOMAIN U_type_instruction_encoding_map
        => generateUTypeMachineCode(l).opcode # kSystem
  <2>1. l.op \in DOMAIN U_type_instruction_encoding_map
          => U_type_instruction_encoding_map[l.op][1] # 115
    BY DEF U_type_instruction_encoding_map
  <2>2. generateUTypeMachineCode(l).opcode = U_type_instruction_encoding_map[l.op][1]
    BY DEF generateUTypeMachineCode, IWord, SWord, Word
  <2> QED  BY <2>1, <2>2 DEF kSystem
<1>7. l.op \in DOMAIN J_type_instruction_encoding_map
        => generateJTypeMachineCode(l).opcode # kSystem
  <2>1. l.op \in DOMAIN J_type_instruction_encoding_map
          => J_type_instruction_encoding_map[l.op][1] # 115
    BY DEF J_type_instruction_encoding_map
  <2>2. generateJTypeMachineCode(l).opcode = J_type_instruction_encoding_map[l.op][1]
    BY DEF generateJTypeMachineCode, IWord, SWord, Word
  <2> QED  BY <2>1, <2>2 DEF kSystem
<1>8. l.op \in DOMAIN F_D_R_type_instruction_encoding_map
        => generateFDRTypeMachineCode(l).opcode # kSystem
  <2>1. l.op \in DOMAIN F_D_R_type_instruction_encoding_map
          => F_D_R_type_instruction_encoding_map[l.op][1] # 115
    BY DEF F_D_R_type_instruction_encoding_map
  <2>2. generateFDRTypeMachineCode(l).opcode = F_D_R_type_instruction_encoding_map[l.op][1]
    BY DEF generateFDRTypeMachineCode, IWord, SWord, Word
  <2> QED  BY <2>1, <2>2 DEF kSystem
<1>9. l.op \in DOMAIN F_D_R1_type_instruction_encoding_map
        => generateFDR1TypeMachineCode(l).opcode # kSystem
  <2>1. l.op \in DOMAIN F_D_R1_type_instruction_encoding_map
          => F_D_R1_type_instruction_encoding_map[l.op][1] # 115
    BY DEF F_D_R1_type_instruction_encoding_map
  <2>2. generateFDR1TypeMachineCode(l).opcode = F_D_R1_type_instruction_encoding_map[l.op][1]
    BY DEF generateFDR1TypeMachineCode, IWord, SWord, Word
  <2> QED  BY <2>1, <2>2 DEF kSystem
<1>10. l.op \in DOMAIN F_D_R2_type_instruction_encoding_map
        => generateFDR2TypeMachineCode(l).opcode # kSystem
  <2>1. l.op \in DOMAIN F_D_R2_type_instruction_encoding_map
          => F_D_R2_type_instruction_encoding_map[l.op][1] # 115
    BY DEF F_D_R2_type_instruction_encoding_map
  <2>2. generateFDR2TypeMachineCode(l).opcode = F_D_R2_type_instruction_encoding_map[l.op][1]
    BY DEF generateFDR2TypeMachineCode, IWord, SWord, Word
  <2> QED  BY <2>1, <2>2 DEF kSystem
<1>11. l.op \in DOMAIN F_D_R3_type_instruction_encoding_map
        => generateFDR3TypeMachineCode(l).opcode # kSystem
  <2>1. l.op \in DOMAIN F_D_R3_type_instruction_encoding_map
          => F_D_R3_type_instruction_encoding_map[l.op][1] # 115
    BY DEF F_D_R3_type_instruction_encoding_map
  <2>2. generateFDR3TypeMachineCode(l).opcode = F_D_R3_type_instruction_encoding_map[l.op][1]
    BY DEF generateFDR3TypeMachineCode, IWord, SWord, Word
  <2> QED  BY <2>1, <2>2 DEF kSystem
<1>12. l.op \in DOMAIN F_D_R4_type_instruction_encoding_map
        => generateFDR4TypeMachineCode(l).opcode # kSystem
  <2>1. l.op \in DOMAIN F_D_R4_type_instruction_encoding_map
          => F_D_R4_type_instruction_encoding_map[l.op][1] # 115
    BY DEF F_D_R4_type_instruction_encoding_map
  <2>2. generateFDR4TypeMachineCode(l).opcode = F_D_R4_type_instruction_encoding_map[l.op][1]
    BY DEF generateFDR4TypeMachineCode, IWord, SWord, Word
  <2> QED  BY <2>1, <2>2 DEF kSystem
<1>13. l.op \in DOMAIN F_D_I_type_instruction_encoding_map
        => generateFDITypeMachineCode(l).opcode # kSystem
  <2>1. l.op \in DOMAIN F_D_I_type_instruction_encoding_map
          => F_D_I_type_instruction_encoding_map[l.op][1] # 115
    BY DEF F_D_I_type_instruction_encoding_map
  <2>2. generateFDITypeMachineCode(l).opcode = F_D_I_type_instruction_encoding_map[l.op][1]
    BY DEF generateFDITypeMachineCode, IWord, SWord, Word
  <2> QED  BY <2>1, <2>2 DEF kSystem
<1>14. l.op \in DOMAIN F_D_S_type_instruction_encoding_map
        => generateFDSTypeMachineCode(l).opcode # kSystem
  <2>1. l.op \in DOMAIN F_D_S_type_instruction_encoding_map
          => F_D_S_type_instruction_encoding_map[l.op][1] # 115
    BY DEF F_D_S_type_instruction_encoding_map
  <2>2. generateFDSTypeMachineCode(l).opcode = F_D_S_type_instruction_encoding_map[l.op][1]
    BY DEF generateFDSTypeMachineCode, IWord, SWord, Word
  <2> QED  BY <2>1, <2>2 DEF kSystem
<1> QED  BY <1>1, <1>2, <1>3, <1>4, <1>5, <1>6, <1>7,
            <1>8, <1>9, <1>10, <1>11, <1>12, <1>13, <1>14, Generated
         DEF Mnemonics, ShortOps, CsrLine

LEMMA CsrNumber ==
  ASSUME NEW n, n \in 0 .. 4095
  PROVE  Bits(n, 1, 32) + 32 * Bits(n, 32, 128) = n
<1> DEFINE q == n \div 32
           r == n % 32
<1>1. q \in Int /\ r \in 0 .. 31 /\ n = 32 * q + r
  OBVIOUS
<1>2. Bits(n, 1, 32) = r
  BY DEF Bits
<1>3. Bits(n, 32, 128) = q % 128
  BY DEF Bits
<1> HIDE DEF q, r
<1>4. q >= 0 /\ q =< 127
  BY <1>1
<1>5. q % 128 = q
  BY <1>1, <1>4
<1> QED  BY <1>1, <1>2, <1>3, <1>5

Numbers12 == 0 .. 4095

LEMMA CsrWord ==
  ASSUME NEW l, CsrLine(l), l.imm \in Numbers12
  PROVE  /\ generateMachineCode(l).opcode = kSystem
         /\ generateMachineCode(l).rd = l.rd /\ generateMachineCode(l).rs1 = l.rs1
         /\ generateMachineCode(l).rs2 + 32 * generateMachineCode(l).funct7 = l.imm
         /\ generateMachineCode(l).funct3 =
              IF l.op \in DOMAIN CSR_R_type_instruction_encoding_map
              THEN CSR_R_type_instruction_encoding_map[l.op][2]
              ELSE CSR_I_type_instruction_encoding_map[l.op][2]
<1>1. Bits(l.imm, 1, 32) + 32 * Bits(l.imm, 32, 128) = l.imm
  BY CsrNumber DEF Numbers12
<1>2. /\ l.op \in DOMAIN CSR_R_type_instruction_encoding_map
            => CSR_R_type_instruction_encoding_map[l.op][1] = kSystem
      /\ l.op \in DOMAIN CSR_I_type_instruction_encoding_map
            => CSR_I_type_instruction_encoding_map[l.op][1] = kSystem
  BY DEF CSR_R_type_instruction_encoding_map, CSR_I_type_instruction_encoding_map, kSystem
<1>3. CASE l.op \in DOMAIN CSR_R_type_instruction_encoding_map
  <2>1. generateMachineCode(l) = IWord(kSystem, l.rd, CSR_R_type_instruction_encoding_map[l.op][2], l.rs1, l.imm)
    BY <1>2, <1>3, Generated DEF generateCSRRTypeMachineCode
  <2> QED  BY <1>1, <1>3, <2>1 DEF IWord, Word
<1>4. CASE l.op \notin DOMAIN CSR_R_type_instruction_encoding_map
  <2>1. generateMachineCode(l) = IWord(kSystem, l.rd, CSR_I_type_instruction_encoding_map[l.op][2], l.rs1, l.imm)
    BY <1>2, <1>4, Generated DEF CsrLine, generateCSRITypeMachineCode
  <2> QED  BY <1>1, <1>4, <2>1 DEF IWord, Word
<1> QED  BY <1>3, <1>4

LEMMA EcallWord ==
  ASSUME NEW l, l.op \in DOMAIN I3_type_instruction_encoding_map
  PROVE  Ecall(generateMachineCode(l)) /\ l.op = "ecall"
<1>1. generateMachineCode(l) = IWord(115, 0, 0, 0, 0)
  BY Generated DEF I3_type_instruction_encoding_map, generateI3TypeMachineCode
<1> QED  BY <1>1 DEF I3_type_instruction_encoding_map, IWord, Word, Ecall, kSystem

----------------------------------------------------------------------------
(* Immediates: the lines found so far are lines the parser accepts, and    *)
(* the word to be decoded is the code of the line.                         *)

InFlight == phase \in {"decode", "execute", "memory", "writeback"}

Found ==
  /\ \A a \in DOMAIN text : a \in 0 .. ProgramSize - 1 /\ text[a] \in Lines(a)
  /\ InFlight =>
       /\ before.pc \in 0 .. ProgramSize - 1 /\ line \in Lines(before.pc)
       /\ current_instruction = generateMachineCode(line)
       /\ phase # "decode" => control = SetControlSignals(current_instruction)

LEMMA FoundInit == Init => Found
<1> SUFFICES ASSUME Init PROVE Found
  OBVIOUS
<1>1. text = <<>> /\ phase = "fetch"
  BY DEF Init
<1> QED  BY <1>1 DEF Found, InFlight

LEMMA LaterSteps ==
  ASSUME Next, ~Fetch, ~Decode
  PROVE  /\ UNCHANGED <<text, line, before, current_instruction, control>>
         /\ phase \in {"execute", "memory", "writeback"} /\ phase' # "decode"
<1>1. CASE ExecuteInteger \/ DivisionFaults \/ ExecuteFloatingPoint \/ ExecuteCsr
  BY <1>1 DEF ExecuteInteger, DivisionFaults, ExecuteFloatingPoint, ExecuteCsr, Executing, Abort, fetched
<1>2. CASE SyscallQuiet \/ SyscallExit \/ SyscallRead \/ SyscallWrite \/ SyscallFaults
  BY <1>2 DEF SyscallQuiet, SyscallExit, SyscallRead, SyscallWrite, SyscallFaults, Syscall, Executing, fetched
<1>3. CASE NoAccess \/ Load \/ LoadSample \/ Store \/ StoreToLog \/ AccessFaults
  BY <1>3 DEF NoAccess, Load, LoadSample, Store, StoreToLog, AccessFaults, AtMemory, ToWriteBack, Abort, fetched
<1>4. CASE WriteBackInteger \/ WriteBackFloat \/ WriteBackCsr \/ WriteBackNothing
  BY <1>4 DEF WriteBackInteger, WriteBackFloat, WriteBackCsr, WriteBackNothing, AtWriteBack, fetched
<1> QED  BY <1>1, <1>2, <1>3, <1>4 DEF Next

LEMMA FoundNext == Found /\ [Next]_vars => Found'
<1> SUFFICES ASSUME Found, [Next]_vars PROVE Found'
  OBVIOUS
<1>1. CASE Fetch
  <2>1. PICK l \in (IF pc \in DOMAIN text THEN {text[pc]} ELSE Lines(pc)) :
          /\ line' = l
          /\ text' = [a \in DOMAIN text \cup {pc} |-> IF a = pc THEN l ELSE text[a]]
          /\ current_instruction' = generateMachineCode(l)
    BY <1>1 DEF Fetch
  <2>2. pc \in 0 .. ProgramSize - 1 /\ before'.pc = pc /\ phase' = "decode"
    BY <1>1 DEF Fetch, Snapshot
  <2>3. l \in Lines(pc)
    BY <2>1 DEF Found
  <2>4. \A a \in DOMAIN text' : a \in 0 .. ProgramSize - 1 /\ text'[a] \in Lines(a)
    BY <2>1, <2>2, <2>3 DEF Found
  <2> QED  BY <2>1, <2>2, <2>3, <2>4 DEF Found
<1>2. CASE Decode
  BY <1>2 DEF Decode, Found, InFlight, fetched
<1>3. CASE UNCHANGED vars
  BY <1>3 DEF vars, fetched, Found, InFlight
<1>4. ASSUME Next, ~Fetch, ~Decode PROVE Found'
  BY <1>4, LaterSteps DEF Found, InFlight
<1> QED  BY <1>1, <1>2, <1>3, <1>4

LEMMA LineFound ==
  ASSUME Found, InFlight
  PROVE  Accepted(line) /\ w = generateMachineCode(line)
BY DatapathAssumption DEF Found, w

LEMMA FoundSurvives == Found => ImmediatesSurvive
<1> SUFFICES ASSUME Found, phase = "decode" PROVE ImmediatesSurvive
  BY DEF ImmediatesSurvive
<1>1. Survives(line, current_instruction)
  BY LineFound, ImmediateRoundTrip DEF InFlight, Accepted, w
<1> QED  BY <1>1 DEF Survives, Kept, ImmediatesSurvive

(* The immediate of the line is the one the machine executes with, for     *)
(* every program the parser accepts.                                       *)
THEOREM ImmediatesCorrect == Spec => []ImmediatesSurvive
<1> QED  BY FoundInit, FoundNext, FoundSurvives, PTL DEF Spec

----------------------------------------------------------------------------
(* Changes recorded and taken back.                                        *)

LEMMA NoChange ==
  ASSUME NEW S, NEW f, f = [r \in S |-> f[r]]
  PROVE  Undone(f, <<>>) = f /\ Redone(f, <<>>) = f
<1>1. DOMAIN <<>> = {}
  OBVIOUS
<1>2. DOMAIN f = S
  OBVIOUS
<1>3. Undone(f, <<>>) = [r \in S |-> f[r]]
  BY <1>1, <1>2 DEF Undone
<1>4. Redone(f, <<>>) = [r \in S |-> f[r]]
  BY <1>1, <1>2 DEF Redone
<1> QED  BY <1>3, <1>4

LEMMA ChangeRecorded ==
  ASSUME NEW S, NEW f, NEW g, f = [r \in S |-> f[r]], g = [r \in S |-> g[r]],
         NEW touched, \A r \in S \ touched : f[r] = g[r]
  PROVE  Undone(g, Recorded(f, g, touched)) = f /\ Redone(f, Recorded(f, g, touched)) = g
<1> DEFINE c == Recorded(f, g, touched)
<1>1. DOMAIN c = touched /\ \A r \in touched : c[r].old = f[r] /\ c[r].new = g[r]
  BY DEF Recorded
<1> HIDE DEF c
<1>2. Undone(g, c) = [r \in S |-> f[r]]
  BY <1>1 DEF Undone
<1>3. Redone(f, c) = [r \in S |-> g[r]]
  BY <1>1 DEF Redone
<1> QED  BY <1>2, <1>3 DEF c

LEMMA ChangesRecorded ==
  ASSUME NEW S, NEW f, NEW g, f = [r \in S |-> f[r]], g = [r \in S |-> g[r]],
         NEW touched, \A r \in S \ touched : f[r] = g[r]
  PROVE  Undone(g, Changes(f, g, touched)) = f /\ Redone(f, Changes(f, g, touched)) = g
<1> DEFINE t == {r \in touched : f[r] # g[r]}
<1>1. \A r \in S \ t : f[r] = g[r]
  OBVIOUS
<1>2. Changes(f, g, touched) = Recorded(f, g, t)
  BY DEF Changes
<1> HIDE DEF t
<1> QED  BY <1>1, <1>2, ChangeRecorded

(* One register, of a bank that may not have it.                           *)
LEMMA OneChanged ==
  ASSUME NEW S, NEW f, f = [r \in S |-> f[r]], NEW rd, NEW value
  PROVE  LET c == Change(rd, Register(f, rd), value)
             g == [f EXCEPT ![rd] = value]
         IN  Undone(g, c) = f /\ Redone(f, c) = g
<1> DEFINE c == Change(rd, Register(f, rd), value)
           g == [f EXCEPT ![rd] = value]
<1>1. DOMAIN f = S /\ DOMAIN g = S /\ g = [r \in S |-> g[r]]
      /\ \A r \in S : g[r] = IF r = rd THEN value ELSE f[r]
  OBVIOUS
<1>2. /\ DOMAIN c = {j \in {rd} : Register(f, rd) # value}
      /\ \A r \in DOMAIN c : c[r].old = Register(f, rd) /\ c[r].new = value
  BY DEF Change
<1>3. rd \in S => Register(f, rd) = f[rd]
  BY <1>1 DEF Register
<1> HIDE DEF c, g
<1>4. Undone(g, c) = [r \in S |-> f[r]]
  BY <1>1, <1>2, <1>3 DEF Undone
<1>5. Redone(f, c) = [r \in S |-> g[r]]
  BY <1>1, <1>2, <1>3 DEF Redone
<1> QED  BY <1>1, <1>4, <1>5 DEF c, g

----------------------------------------------------------------------------
(* The invariant.  Before WriteBack only a system call has changed         *)
(* anything, and the delta already tells what; afterwards the delta tells  *)
(* all, which is DeltaComplete.                                            *)

Cells == 0 .. MemSize - 1

Banks(g, f, m) ==
  /\ g = [r \in Gprs |-> g[r]] /\ f = [r \in Fprs |-> f[r]] /\ m = [i \in Cells |-> m[i]]
  /\ g[0] = 0

Fields == delta = [gpr |-> delta.gpr, fpr |-> delta.fpr, mem |-> delta.mem]

Described(old, changes, new) == Undone(new, changes) = old /\ Redone(old, changes) = new

GprDescribed(old, changes, new) ==
  Undone(new, changes) = old /\ [Redone(old, changes) EXCEPT ![0] = 0] = new

Shape ==
  /\ Banks(gpr, fpr, mem)
  /\ phase \in {"decode", "execute", "memory", "writeback"} =>
       /\ Banks(before.gpr, before.fpr, before.mem)
       /\ Fields

Untouched ==
  phase \in {"decode", "execute"} =>
    gpr = before.gpr /\ fpr = before.fpr /\ mem = before.mem /\ delta = NoDelta

AfterExecute ==
  phase = "memory" =>
    /\ fpr = before.fpr /\ delta.fpr = <<>>
    /\ Ecall(current_instruction) =>
         GprDescribed(before.gpr, delta.gpr, gpr) /\ Described(before.mem, delta.mem, mem)
    /\ ~Ecall(current_instruction) =>
         gpr = before.gpr /\ mem = before.mem /\ delta = NoDelta

AfterMemory ==
  phase = "writeback" =>
    /\ fpr = before.fpr /\ delta.fpr = <<>>
    /\ Described(before.mem, delta.mem, mem)
    /\ Ecall(current_instruction) => GprDescribed(before.gpr, delta.gpr, gpr)
    /\ ~Ecall(current_instruction) => gpr = before.gpr /\ delta.gpr = <<>>

Inv == Shape /\ Untouched /\ AfterExecute /\ AfterMemory /\ DeltaComplete

LEMMA ZeroKept ==
  ASSUME NEW g, g = [r \in Gprs |-> g[r]], g[0] = 0
  PROVE  [g EXCEPT ![0] = 0] = g
OBVIOUS

LEMMA WrittenShape ==
  ASSUME NEW g, g = [r \in Gprs |-> g[r]], g[0] = 0, NEW rd, NEW value
  PROVE  /\ Written(g, rd, value) = [r \in Gprs |-> Written(g, rd, value)[r]]
         /\ Written(g, rd, value)[0] = 0
<1>1. CASE rd = 0
  BY <1>1 DEF Written
<1>2. CASE rd # 0
  BY <1>2 DEF Written
<1> QED  BY <1>1, <1>2

LEMMA InvInit == Init => Inv
<1> SUFFICES ASSUME Init PROVE Inv
  OBVIOUS
<1>1. PICK s \in Starts : gpr = s.gpr /\ fpr = s.fpr /\ mem = s.mem
  BY DEF Init
<1>2. s \in Machines
  BY DatapathAssumption
<1>3. gpr \in [Gprs -> Registers] /\ gpr[0] = 0 /\ fpr \in [Fprs -> Registers] /\ mem \in Memories
  BY <1>1, <1>2 DEF Machines
<1>4. Banks(gpr, fpr, mem)
  BY <1>3 DEF Banks, Memories, Cells
<1>5. phase = "fetch" /\ steps = 0
  BY DEF Init
<1> QED  BY <1>4, <1>5 DEF Inv, Shape, Untouched, AfterExecute, AfterMemory, DeltaComplete

----------------------------------------------------------------------------
(* One lemma for each stage.                                               *)

LEMMA InvFetch == Inv /\ Fetch => Inv'
<1> SUFFICES ASSUME Inv, Fetch PROVE Inv'
  OBVIOUS
<1>1. /\ phase' = "decode" /\ delta' = NoDelta
      /\ gpr' = gpr /\ fpr' = fpr /\ mem' = mem
      /\ before'.gpr = gpr /\ before'.fpr = fpr /\ before'.mem = mem
  BY DEF Fetch, Snapshot
<1>2. Shape'
  BY <1>1 DEF Inv, Shape, Banks, Fields, NoDelta
<1> QED  BY <1>1, <1>2 DEF Inv, Untouched, AfterExecute, AfterMemory, DeltaComplete

LEMMA InvDecode == Inv /\ Decode => Inv'
<1> SUFFICES ASSUME Inv, Decode PROVE Inv'
  OBVIOUS
<1>1. /\ phase = "decode" /\ phase' = "execute" /\ delta' = delta
      /\ gpr' = gpr /\ fpr' = fpr /\ mem' = mem /\ before' = before
  BY DEF Decode, machine, fetched
<1>2. Shape'
  BY <1>1 DEF Inv, Shape, Banks, Fields
<1> QED  BY <1>1, <1>2 DEF Inv, Untouched, AfterExecute, AfterMemory, DeltaComplete

(* What has ended is not looked at any more.                               *)
LEMMA InvEnded ==
  ASSUME Inv, phase' \in Ended, gpr' = gpr, fpr' = fpr, mem' = mem
  PROVE  Inv'
BY DEF Inv, Shape, Banks, Ended, Untouched, AfterExecute, AfterMemory, DeltaComplete

LEMMA InvExecute ==
  Inv /\ (ExecuteInteger \/ DivisionFaults \/ ExecuteFloatingPoint \/ ExecuteCsr) => Inv'
<1> SUFFICES ASSUME Inv, ExecuteInteger \/ DivisionFaults \/ ExecuteFloatingPoint \/ ExecuteCsr
             PROVE  Inv'
  OBVIOUS
<1>1. CASE DivisionFaults
  BY <1>1, InvEnded DEF DivisionFaults, Abort, machine, Ended
<1>2. CASE ExecuteInteger \/ ExecuteFloatingPoint \/ ExecuteCsr
  <2>1. /\ phase = "execute" /\ phase' = "memory" /\ delta' = delta
        /\ gpr' = gpr /\ fpr' = fpr /\ mem' = mem /\ before' = before
        /\ current_instruction' = current_instruction
    BY <1>2 DEF ExecuteInteger, ExecuteFloatingPoint, ExecuteCsr, Executing, fetched, machine
  <2>2. ~Ecall(current_instruction)
    <3>1. CASE ExecuteInteger
      BY <3>1 DEF ExecuteInteger, Ecall, w
    <3>2. CASE ExecuteFloatingPoint
      BY <3>2 DEF ExecuteFloatingPoint, Ecall, w, Unit, isBFloat16Instruction, isSIMDF32Instruction,
                  isFInstruction, isDInstruction, kSystem, kFtype, kflw, kfsw
    <3>3. CASE ExecuteCsr
      BY <3>3 DEF ExecuteCsr, w
    <3> QED  BY <1>2, <3>1, <3>2, <3>3
  <2>3. Shape'
    BY <2>1 DEF Inv, Shape, Banks, Fields
  <2>4. ~Ecall(current_instruction)'
    BY <2>1, <2>2 DEF Ecall
  <2> QED  BY <2>1, <2>3, <2>4 DEF Inv, Untouched, AfterExecute, AfterMemory, DeltaComplete, NoDelta
<1> QED  BY <1>1, <1>2

(* A call that changes no memory leaves the change of a0 at most.          *)
LEMMA InvSyscall ==
  Inv /\ (SyscallQuiet \/ SyscallExit \/ SyscallFaults \/ SyscallRead \/ SyscallWrite) => Inv'
<1> SUFFICES ASSUME Inv, SyscallQuiet \/ SyscallExit \/ SyscallFaults \/ SyscallRead \/ SyscallWrite
             PROVE  Inv'
  OBVIOUS
<1>1. CASE SyscallExit \/ SyscallFaults
  <2>1. phase' \in Ended /\ gpr' = gpr /\ fpr' = fpr /\ mem' = mem
    BY <1>1 DEF SyscallExit, SyscallFaults, Syscall, Ended
  <2> QED  BY <2>1, InvEnded
<1>2. CASE SyscallQuiet \/ SyscallRead \/ SyscallWrite
  <2>1. /\ phase = "execute" /\ phase' = "memory" /\ fpr' = fpr /\ before' = before
        /\ current_instruction' = current_instruction /\ Ecall(current_instruction)
    BY <1>2 DEF SyscallQuiet, SyscallRead, SyscallWrite, Syscall, Executing, fetched, w
  <2>2. /\ Banks(gpr, fpr, mem)
        /\ gpr = before.gpr /\ fpr = before.fpr /\ mem = before.mem /\ delta = NoDelta
    BY <2>1 DEF Inv, Shape, Untouched
  <2>3. /\ gpr' = [r \in Gprs |-> gpr'[r]] /\ gpr'[0] = 0
        /\ mem' = [i \in Cells |-> mem'[i]]
        /\ GprDescribed(gpr, delta'.gpr, gpr')
        /\ Described(mem, delta'.mem, mem')
        /\ delta'.fpr = <<>> /\ Fields'
    <3>1. gpr = [r \in Gprs |-> gpr[r]] /\ gpr[0] = 0 /\ mem = [i \in Cells |-> mem[i]]
      BY <2>2 DEF Banks
    <3>2. CASE SyscallQuiet
      <4>1. gpr' = gpr /\ mem' = mem /\ delta' = NoDelta
        BY <2>2, <3>2 DEF SyscallQuiet
      <4>2. Undone(gpr, <<>>) = gpr /\ Redone(gpr, <<>>) = gpr
        BY <3>1, NoChange
      <4>3. Undone(mem, <<>>) = mem /\ Redone(mem, <<>>) = mem
        BY <3>1, NoChange
      <4> QED  BY <3>1, <4>1, <4>2, <4>3, ZeroKept DEF GprDescribed, Described, NoDelta, Fields
    <3>3. CASE SyscallRead \/ SyscallWrite
      <4>1. PICK n : gpr' = [gpr EXCEPT ![10] = n]
        BY <3>3 DEF SyscallRead, SyscallWrite
      <4>2. gpr' = [r \in Gprs |-> gpr'[r]] /\ gpr'[0] = 0 /\ \A r \in Gprs \ {10} : gpr[r] = gpr'[r]
        BY <3>1, <4>1
      <4>3. delta'.gpr = Changes(gpr, gpr', {10}) /\ delta'.fpr = <<>> /\ Fields'
        BY <2>2, <3>3 DEF SyscallRead, SyscallWrite, NoDelta, Fields
      <4>4. Undone(gpr', delta'.gpr) = gpr /\ Redone(gpr, delta'.gpr) = gpr'
        BY <3>1, <4>2, <4>3, ChangesRecorded
      <4>5. GprDescribed(gpr, delta'.gpr, gpr')
        BY <4>2, <4>4, ZeroKept DEF GprDescribed
      <4>6. mem' = [i \in Cells |-> mem'[i]] /\ Described(mem, delta'.mem, mem')
        <5>1. CASE SyscallWrite
          <6>1. mem' = mem /\ delta'.mem = <<>>
            BY <2>2, <5>1 DEF SyscallWrite, NoDelta
          <6> QED  BY <3>1, <6>1, NoChange DEF Described
        <5>2. CASE SyscallRead
          <6> DEFINE touched == gpr[11] .. gpr[11] + gpr[12] - 1
          <6>1. PICK input \in Inputs : mem' = Received(mem, gpr[11], gpr[12], input)
            BY <5>2 DEF SyscallRead
          <6>2. /\ mem' = [i \in Cells |-> mem'[i]]
                /\ \A i \in Cells \ touched : mem[i] = mem'[i]
            <7> DEFINE byte(i) == IF i - gpr[11] < Len(input)      THEN input[i - gpr[11] + 1]
                                  ELSE IF i - gpr[11] = Len(input) THEN 0 ELSE mem[i]
            <7>1. mem' = [i \in DOMAIN mem |-> IF i \notin touched THEN mem[i] ELSE byte(i)]
              BY <6>1, Zenon DEF Received
            <7> HIDE DEF touched, byte
            <7> QED  BY <3>1, <7>1
          <6>3. delta'.mem = Recorded(mem, mem', touched)
            BY <2>2, <5>2 DEF SyscallRead, NoDelta
          <6> HIDE DEF touched
          <6> QED  BY <3>1, <6>2, <6>3, ChangeRecorded DEF Described
        <5> QED  BY <3>3, <5>1, <5>2
      <4> QED  BY <4>2, <4>3, <4>5, <4>6
    <3> QED  BY <1>2, <3>2, <3>3
  <2>4. Shape'
    BY <2>1, <2>2, <2>3 DEF Inv, Shape, Banks
  <2>5. Ecall(current_instruction)'
    BY <2>1 DEF Ecall
  <2>6. AfterExecute'
    BY <2>1, <2>2, <2>3, <2>5 DEF AfterExecute
  <2> QED  BY <2>1, <2>4, <2>6 DEF Inv, Untouched, AfterMemory, DeltaComplete
<1> QED  BY <1>1, <1>2

LEMMA InvMemory ==
  Inv /\ (NoAccess \/ Load \/ LoadSample \/ Store \/ StoreToLog \/ AccessFaults) => Inv'
<1> SUFFICES ASSUME Inv, NoAccess \/ Load \/ LoadSample \/ Store \/ StoreToLog \/ AccessFaults
             PROVE  Inv'
  OBVIOUS
<1>1. CASE AccessFaults
  BY <1>1, InvEnded DEF AccessFaults, Abort, machine, Ended
<1>2. CASE NoAccess \/ Load \/ LoadSample \/ Store \/ StoreToLog
  <2>1. /\ phase = "memory" /\ phase' = "writeback" /\ gpr' = gpr /\ fpr' = fpr /\ before' = before
        /\ current_instruction' = current_instruction
    BY <1>2 DEF NoAccess, Load, LoadSample, Store, StoreToLog, AtMemory, ToWriteBack, fetched
  <2>2. /\ Banks(gpr, fpr, mem) /\ Fields
        /\ fpr = before.fpr /\ delta.fpr = <<>>
        /\ Ecall(w) => GprDescribed(before.gpr, delta.gpr, gpr) /\ Described(before.mem, delta.mem, mem)
        /\ ~Ecall(w) => gpr = before.gpr /\ mem = before.mem /\ delta = NoDelta
    BY <2>1 DEF Inv, Shape, AfterExecute, w
  <2>3. mem = [i \in Cells |-> mem[i]]
    BY <2>2 DEF Banks
  <2>4. CASE NoAccess \/ Load \/ LoadSample \/ StoreToLog
    <3>1. mem' = mem /\ delta' = delta
      BY <2>4 DEF NoAccess, Load, LoadSample, StoreToLog
    <3>2. ~Ecall(w) => Described(before.mem, delta.mem, mem) /\ delta.gpr = <<>>
      BY <2>2, <2>3, NoChange DEF Described, NoDelta
    <3>3. Shape'
      BY <2>1, <3>1 DEF Inv, Shape, Banks, Fields
    <3>4. AfterMemory'
      BY <2>1, <2>2, <3>1, <3>2 DEF AfterMemory, Ecall, w
    <3> QED  BY <2>1, <3>3, <3>4 DEF Inv, Untouched, AfterExecute, DeltaComplete
  <2>5. CASE Store
    <3> DEFINE touched == address .. address + Width - 1
               value   == IF Form = "integer" THEN Gpr(w.rs2) ELSE Fpr(w.rs2)
    <3>1. ~Ecall(w)
      BY <2>5 DEF Store, Accesses
    <3>2. gpr = before.gpr /\ mem = before.mem /\ delta = NoDelta
      BY <2>2, <3>1
    <3>3. mem' = Stored(mem, address, Width, value)
      BY <2>5 DEF Store
    <3>4. delta' = [delta EXCEPT !.mem = IF mem' = mem THEN @ ELSE Recorded(mem, mem', touched)]
      BY <2>5 DEF Store
    <3> HIDE DEF value
    <3>5. /\ mem' = [i \in Cells |-> mem'[i]]
          /\ \A i \in Cells \ touched : mem[i] = mem'[i]
      <4> DEFINE byte(i) == (value \div Place[i - address + 1]) % Radix
      <4>1. mem' = [i \in DOMAIN mem |-> IF i \in touched THEN byte(i) ELSE mem[i]]
        BY <3>3, Zenon DEF Stored
      <4> HIDE DEF touched, byte
      <4> QED  BY <2>3, <4>1
    <3> HIDE DEF touched
    <3>6. delta'.gpr = <<>> /\ delta'.fpr = <<>> /\ Fields'
      BY <3>2, <3>4 DEF NoDelta, Fields
    <3>7. Described(mem, delta'.mem, mem')
      <4>1. CASE mem' = mem
        <5>1. delta'.mem = <<>>
          BY <3>2, <3>4, <4>1 DEF NoDelta
        <5> QED  BY <2>3, <4>1, <5>1, NoChange DEF Described
      <4>2. CASE mem' # mem
        <5>1. delta'.mem = Recorded(mem, mem', touched)
          BY <3>2, <3>4, <4>2 DEF NoDelta
        <5> QED  BY <2>3, <3>5, <5>1, ChangeRecorded DEF Described
      <4> QED  BY <4>1, <4>2
    <3>8. Shape'
      BY <2>1, <2>2, <3>5, <3>6 DEF Inv, Shape, Banks
    <3>9. AfterMemory'
      BY <2>1, <2>2, <3>1, <3>2, <3>6, <3>7 DEF AfterMemory, Ecall, w
    <3> QED  BY <2>1, <3>8, <3>9 DEF Inv, Untouched, AfterExecute, DeltaComplete
  <2> QED  BY <1>2, <2>4, <2>5
<1> QED  BY <1>1, <1>2

(* The general registers after WriteBackInteger and, where it selects one, *)
(* WriteBackFloat.                                                         *)
LEMMA InvWriteBackInteger == Inv /\ WriteBackInteger => Inv'
<1> SUFFICES ASSUME Inv, WriteBackInteger PROVE Inv'
  OBVIOUS
<1>1. /\ phase = "writeback" /\ phase' = "fetch" /\ fpr' = fpr /\ mem' = mem /\ before' = before
      /\ ~Ecall(w)
  BY DEF WriteBackInteger, AtWriteBack, fetched, Ecall
<1>2. /\ Banks(gpr, fpr, mem) /\ Fields
      /\ gpr = before.gpr /\ fpr = before.fpr /\ delta.fpr = <<>>
      /\ Described(before.mem, delta.mem, mem)
  BY <1>1 DEF Inv, Shape, AfterMemory, w
<1>3. gpr' = [r \in Gprs |-> gpr'[r]] /\ gpr'[0] = 0
  <2>1. gpr' = Written(gpr, w.rd, WrittenBack) \/ gpr' = gpr
    BY DEF WriteBackInteger
  <2>2. gpr = [r \in Gprs |-> gpr[r]] /\ gpr[0] = 0
    BY <1>2 DEF Banks
  <2> QED  BY <2>1, <2>2, WrittenShape
<1>4. delta' = [delta EXCEPT !.gpr = Changes(gpr, gpr', Gprs)]
  BY DEF WriteBackInteger
<1>5. delta'.gpr = Changes(gpr, gpr', Gprs) /\ delta'.fpr = <<>> /\ delta'.mem = delta.mem
  BY <1>2, <1>4 DEF Fields
<1>6. Undone(gpr', delta'.gpr) = gpr /\ Redone(gpr, delta'.gpr) = gpr'
  BY <1>2, <1>3, <1>5, ChangesRecorded DEF Banks
<1>7. Undone(fpr, <<>>) = fpr /\ Redone(fpr, <<>>) = fpr
  BY <1>2, NoChange DEF Banks
<1>8. [gpr' EXCEPT ![0] = 0] = gpr'
  BY <1>3, ZeroKept
<1>9. Banks(gpr', fpr', mem')
  BY <1>1, <1>2, <1>3 DEF Banks
<1>10. DeltaComplete'
  BY <1>1, <1>2, <1>5, <1>6, <1>7, <1>8 DEF DeltaComplete, Described
<1> QED  BY <1>1, <1>9, <1>10 DEF Inv, Shape, Untouched, AfterExecute, AfterMemory

LEMMA InvWriteBackFloat == Inv /\ WriteBackFloat => Inv'
<1> SUFFICES ASSUME Inv, WriteBackFloat PROVE Inv'
  OBVIOUS
<1> DEFINE toGpr == Change(w.rd, Register(gpr, w.rd), FloatWrittenBack)
           toFpr == Change(w.rd, Register(fpr, w.rd), FloatWrittenBack)
<1>1. /\ phase = "writeback" /\ phase' = "fetch" /\ mem' = mem /\ before' = before /\ ~Ecall(w)
  BY DEF WriteBackFloat, AtWriteBack, fetched, Ecall, Form, isFInstruction, isDInstruction,
         kSystem, kFtype, kflw, kfsw
<1>2. /\ Banks(gpr, fpr, mem) /\ Fields
      /\ gpr = before.gpr /\ fpr = before.fpr /\ delta.fpr = <<>> /\ delta.gpr = <<>>
      /\ Described(before.mem, delta.mem, mem)
  BY <1>1 DEF Inv, Shape, AfterMemory, w
<1>3. gpr = [r \in Gprs |-> gpr[r]] /\ gpr[0] = 0 /\ fpr = [r \in Fprs |-> fpr[r]]
  BY <1>2 DEF Banks
<1>4. /\ delta'.mem = delta.mem
      /\ delta'.gpr = IF ResultToGpr THEN toGpr ELSE <<>>
      /\ delta'.fpr = IF ResultToFpr THEN toFpr ELSE <<>>
  <2>1. delta' = [delta EXCEPT !.gpr = IF ResultToGpr THEN toGpr ELSE @,
                               !.fpr = IF ResultToFpr THEN toFpr ELSE @]
    BY DEF WriteBackFloat, FloatDelta, Gpr, Fpr
  <2> HIDE DEF toGpr, toFpr
  <2> QED  BY <1>2, <2>1 DEF Fields
<1>5. /\ gpr' = [r \in Gprs |-> gpr'[r]] /\ gpr'[0] = 0
      /\ GprDescribed(gpr, delta'.gpr, gpr')
  <2>1. CASE ~ResultToGpr
    <3>1. gpr' = gpr /\ delta'.gpr = <<>>
      BY <1>4, <2>1 DEF WriteBackFloat
    <3> QED  BY <1>3, <3>1, NoChange, ZeroKept DEF GprDescribed
  <2>2. CASE ResultToGpr
    <3> DEFINE all == [gpr EXCEPT ![w.rd] = FloatWrittenBack]
    <3>1. gpr' = Written(gpr, w.rd, FloatWrittenBack) /\ delta'.gpr = toGpr
      BY <1>4, <2>2 DEF WriteBackFloat
    <3>2. Undone(all, toGpr) = gpr /\ Redone(gpr, toGpr) = all
      BY <1>3, OneChanged
    <3>3. [all EXCEPT ![0] = 0] = gpr'
      BY <1>3, <3>1 DEF Written
    <3>4. Undone(gpr', toGpr) = gpr
      <4>1. CASE w.rd # 0
        BY <3>1, <3>2, <4>1 DEF Written
      <4>2. CASE w.rd = 0
        <5>1. gpr' = gpr
          BY <3>1, <4>2 DEF Written
        <5>2. DOMAIN gpr = Gprs
          BY <1>3
        <5>3. DOMAIN toGpr \subseteq {0} /\ \A r \in DOMAIN toGpr : toGpr[r].old = Register(gpr, 0)
          BY <4>2 DEF Change
        <5>4. 0 \in Gprs => Register(gpr, 0) = gpr[0]
          BY <5>2 DEF Register
        <5> HIDE DEF toGpr
        <5>5. Undone(gpr, toGpr) = [r \in Gprs |-> gpr[r]]
          BY <5>2, <5>3, <5>4 DEF Undone
        <5> QED  BY <1>3, <5>1, <5>5
      <4> QED  BY <4>1, <4>2
    <3>5. gpr' = [r \in Gprs |-> gpr'[r]] /\ gpr'[0] = 0
      BY <1>3, <3>1, WrittenShape
    <3> HIDE DEF all, toGpr
    <3> QED  BY <3>1, <3>2, <3>3, <3>4, <3>5 DEF GprDescribed
  <2> QED  BY <2>1, <2>2
<1>6. fpr' = [r \in Fprs |-> fpr'[r]] /\ Described(fpr, delta'.fpr, fpr')
  <2>1. CASE ~ResultToFpr
    <3>1. fpr' = fpr /\ delta'.fpr = <<>>
      BY <1>4, <2>1 DEF WriteBackFloat
    <3> QED  BY <1>3, <3>1, NoChange DEF Described
  <2>2. CASE ResultToFpr
    <3>1. fpr' = [fpr EXCEPT ![w.rd] = FloatWrittenBack] /\ delta'.fpr = toFpr
      BY <1>4, <2>2 DEF WriteBackFloat
    <3>2. fpr' = [r \in Fprs |-> fpr'[r]]
      BY <1>3, <3>1
    <3>3. /\ Undone([fpr EXCEPT ![w.rd] = FloatWrittenBack], toFpr) = fpr
          /\ Redone(fpr, toFpr) = [fpr EXCEPT ![w.rd] = FloatWrittenBack]
      BY <1>3, OneChanged
    <3> HIDE DEF toFpr
    <3> QED  BY <3>1, <3>2, <3>3 DEF Described
  <2> QED  BY <2>1, <2>2
<1>7. Banks(gpr', fpr', mem')
  BY <1>1, <1>2, <1>5, <1>6 DEF Banks
<1>8. DeltaComplete'
  BY <1>1, <1>2, <1>4, <1>5, <1>6 DEF DeltaComplete, Described, GprDescribed
<1> QED  BY <1>1, <1>7, <1>8 DEF Inv, Shape, Untouched, AfterExecute, AfterMemory

LEMMA InvWriteBackCsr == Inv /\ WriteBackCsr => Inv'
<1> SUFFICES ASSUME Inv, WriteBackCsr PROVE Inv'
  OBVIOUS
<1>1. /\ phase = "writeback" /\ phase' = "fetch" /\ fpr' = fpr /\ mem' = mem
      /\ current_instruction' = current_instruction
      /\ w.opcode = kSystem /\ ~Ecall(w)
  BY DEF WriteBackCsr, AtWriteBack, fetched
<1>2. gpr' = Written(gpr, w.rd, csr_latch.old) \/ gpr' = gpr
  BY DEF WriteBackCsr
<1>3. Banks(gpr', fpr', mem')
  BY <1>1, <1>2, WrittenShape DEF Inv, Shape, Banks
<1>4. DeltaComplete'
  BY <1>1 DEF DeltaComplete, Ecall, w
<1> QED  BY <1>1, <1>3, <1>4 DEF Inv, Shape, Untouched, AfterExecute, AfterMemory

LEMMA InvWriteBackNothing == Inv /\ WriteBackNothing => Inv'
<1> SUFFICES ASSUME Inv, WriteBackNothing PROVE Inv'
  OBVIOUS
<1>1. /\ phase = "writeback" /\ phase' = "fetch" /\ mem' = mem /\ before' = before
      /\ gpr' = gpr /\ fpr' = fpr /\ delta' = delta /\ Ecall(w)
  BY DEF WriteBackNothing, AtWriteBack, fetched
<1>2. /\ Banks(gpr, fpr, mem) /\ fpr = before.fpr /\ delta.fpr = <<>>
      /\ GprDescribed(before.gpr, delta.gpr, gpr)
      /\ Described(before.mem, delta.mem, mem)
  BY <1>1 DEF Inv, Shape, AfterMemory, w
<1>3. Undone(fpr, <<>>) = fpr /\ Redone(fpr, <<>>) = fpr
  BY <1>2, NoChange DEF Banks
<1>4. Banks(gpr', fpr', mem')
  BY <1>1, <1>2
<1>5. DeltaComplete'
  BY <1>1, <1>2, <1>3 DEF DeltaComplete, Described, GprDescribed
<1> QED  BY <1>1, <1>4, <1>5 DEF Inv, Shape, Untouched, AfterExecute, AfterMemory

LEMMA InvNext == Inv /\ [Next]_vars => Inv'
<1> SUFFICES ASSUME Inv, [Next]_vars PROVE Inv'
  OBVIOUS
<1>1. CASE UNCHANGED vars
  <2>1. /\ phase' = phase /\ gpr' = gpr /\ fpr' = fpr /\ mem' = mem /\ before' = before
        /\ delta' = delta /\ steps' = steps /\ current_instruction' = current_instruction
    BY <1>1 DEF vars, machine, fetched
  <2> QED  BY <2>1 DEF Inv, Shape, Banks, Fields, Untouched, AfterExecute, AfterMemory, DeltaComplete
<1>2. CASE Next
  BY <1>2, InvFetch, InvDecode, InvExecute, InvSyscall, InvMemory, InvWriteBackInteger,
     InvWriteBackFloat, InvWriteBackCsr, InvWriteBackNothing DEF Next
<1> QED  BY <1>1, <1>2

----------------------------------------------------------------------------
(* Undo and redo of the delta of an instruction have what they need, for   *)
(* every instruction but those of the CSRs.                                *)
THEOREM DeltasComplete == Spec => []DeltaComplete
<1>1. Inv => DeltaComplete
  BY DEF Inv
<1> QED  BY InvInit, InvNext, <1>1, PTL DEF Spec

(* Whatever register an instruction names, x0 stays 0 and the banks keep   *)
(* their registers.                                                        *)
THEOREM BanksKept == Spec => []Banks(gpr, fpr, mem)
<1>1. Inv => Banks(gpr, fpr, mem)
  BY DEF Inv, Shape
<1> QED  BY InvInit, InvNext, <1>1, PTL DEF Spec

LEMMA BytesRead ==
  ASSUME NEW m \in Memories, NEW a \in Nat
  PROVE  /\ InRange(a, 1) => m[a] \in 0 .. Radix - 1
         /\ InRange(a, 2) => ReadHalfWord(m, a) \in 0 .. Half - 1
         /\ InRange(a, 4) => ReadWord(m, a) \in 0 .. Data - 1
         /\ InRange(a, 8) => ReadDoubleWord(m, a) \in Registers
<1>1. MemSize \in Nat
  BY MachineAssumption
<1>2. \A i \in Nat : i < MemSize => m[i] \in 0 .. Radix - 1
  BY <1>1 DEF Memories
<1>3. \A i \in Nat : i + 2 =< MemSize => ReadHalfWord(m, i) \in 0 .. Half - 1
  <2> SUFFICES ASSUME NEW i \in Nat, i + 2 =< MemSize PROVE ReadHalfWord(m, i) \in 0 .. Half - 1
    OBVIOUS
  <2>1. m[i] \in 0 .. Radix - 1 /\ m[i + 1] \in 0 .. Radix - 1
    BY <1>1, <1>2
  <2> QED  BY <2>1, Sizes, Digits DEF ReadHalfWord, Half
<1>4. \A i \in Nat : i + 4 =< MemSize => ReadWord(m, i) \in 0 .. Data - 1
  <2> SUFFICES ASSUME NEW i \in Nat, i + 4 =< MemSize PROVE ReadWord(m, i) \in 0 .. Data - 1
    OBVIOUS
  <2>1. ReadHalfWord(m, i) \in 0 .. Half - 1 /\ ReadHalfWord(m, i + 2) \in 0 .. Half - 1
    BY <1>1, <1>3
  <2> QED  BY <2>1, Sizes, Digits DEF ReadWord, Data
<1>5. \A i \in Nat : i + 8 =< MemSize => ReadDoubleWord(m, i) \in Registers
  <2> SUFFICES ASSUME NEW i \in Nat, i + 8 =< MemSize PROVE ReadDoubleWord(m, i) \in Registers
    OBVIOUS
  <2>1. ReadWord(m, i) \in 0 .. Data - 1 /\ ReadWord(m, i + 4) \in 0 .. Data - 1
    BY <1>1, <1>4
  <2> QED  BY <2>1, Sizes, Digits DEF ReadDoubleWord, Full, Registers
<1> QED  BY <1>1, <1>2, <1>3, <1>4, <1>5 DEF InRange

LEMMA StoredType ==
  ASSUME NEW m \in Memories, NEW a \in Nat, NEW n \in {1, 2, 4, 8}, NEW x \in Nat
  PROVE  Stored(m, a, n, x) \in Memories
<1>1. \A k \in 1 .. 8 : Place[k] \in Nat \ {0}
  BY Sizes DEF Place
<1>2. ASSUME NEW i \in 0 .. MemSize - 1, i \in a .. a + n - 1
      PROVE  (x \div Place[i - a + 1]) % Radix \in 0 .. Radix - 1
  <2>1. MemSize \in Nat
    BY MachineAssumption
  <2>2. i - a + 1 \in 1 .. 8
    BY <1>2, <2>1
  <2>3. Place[i - a + 1] \in Nat \ {0}
    BY <1>1, <2>2
  <2>4. x \div Place[i - a + 1] \in Int
    BY <2>3
  <2> QED  BY <2>4, Sizes, Remainders
<1> DEFINE byte(i) == (x \div Place[i - a + 1]) % Radix
<1>3. Stored(m, a, n, x) = [i \in DOMAIN m |-> IF i \in a .. a + n - 1 THEN byte(i) ELSE m[i]]
  BY DEF Stored
<1>4. DOMAIN m = 0 .. MemSize - 1 /\ \A i \in 0 .. MemSize - 1 : m[i] \in 0 .. Radix - 1
  BY DEF Memories
<1>5. \A i \in 0 .. MemSize - 1 : i \in a .. a + n - 1 => byte(i) \in 0 .. Radix - 1
  BY <1>2
<1> HIDE DEF byte
<1> QED  BY <1>3, <1>4, <1>5 DEF Memories

LEMMA Elements ==
  ASSUME NEW S, NEW s \in Seq(S)
  PROVE  Len(s) \in Nat /\ \A k \in 1 .. Len(s) : s[k] \in S
OBVIOUS

LEMMA ReceivedType ==
  ASSUME NEW m \in Memories, NEW a \in Nat, NEW n \in Nat, NEW input \in Inputs
  PROVE  Received(m, a, n, input) \in Memories
<1> DEFINE byte(i) == IF i - a < Len(input)      THEN input[i - a + 1]
                      ELSE IF i - a = Len(input) THEN 0 ELSE m[i]
<1>1. input \in Seq(0 .. Radix - 1) /\ MemSize \in Nat
  BY MachineAssumption
<1>2. DOMAIN m = 0 .. MemSize - 1 /\ \A i \in 0 .. MemSize - 1 : m[i] \in 0 .. Radix - 1
  BY DEF Memories
<1>3. ASSUME NEW i \in 0 .. MemSize - 1, i \in a .. a + n - 1 PROVE byte(i) \in 0 .. Radix - 1
  <2>1. Len(input) \in Nat /\ \A k \in 1 .. Len(input) : input[k] \in 0 .. Radix - 1
    BY <1>1, Elements
  <2>2. i - a < Len(input) => i - a + 1 \in 1 .. Len(input)
    BY <1>1, <1>3, <2>1
  <2> QED  BY <1>2, <2>1, <2>2, Sizes
<1>4. Received(m, a, n, input) = [i \in DOMAIN m |-> IF i \notin a .. a + n - 1 THEN m[i] ELSE byte(i)]
  BY Zenon DEF Received
<1> HIDE DEF byte
<1> QED  BY <1>2, <1>3, <1>4 DEF Memories

LEMMA SampleType ==
  ASSUME NEW samples \in Seq(Registers), NEW i \in 0 .. Len(samples)
  PROVE  Sample(samples, i) \in Registers /\ NextIndex(samples, i) \in 0 .. Len(samples)
BY Sizes DEF Sample, NextIndex, Registers
----------------------------------------------------------------------------
(* The operations that words have are those that are assumed of the units. *)

LEMMA SignalFields ==
  ASSUME NEW x, NEW y, x.funct3 = y.funct3, x.funct7 = y.funct7
  PROVE  /\ SignalR(x) = SignalR(y) /\ SignalI(x) = SignalI(y) /\ SignalB(x) = SignalB(y)
         /\ SignalOpImm32(x) = SignalOpImm32(y) /\ SignalOp32(x) = SignalOp32(y)
         /\ x.rs2 = y.rs2 => SignalF(x) = SignalF(y)
<1>1. SignalR(x) = SignalR(y)
  BY DEF SignalR
<1>2. SignalI(x) = SignalI(y) /\ SignalB(x) = SignalB(y)
  BY DEF SignalI, SignalB
<1>3. SignalOpImm32(x) = SignalOpImm32(y) /\ SignalOp32(x) = SignalOp32(y)
  BY DEF SignalOpImm32, SignalOp32
<1>4. x.rs2 = y.rs2 => SignalF(x) = SignalF(y)
  BY DEF SignalF, SignalFloat, SignalArithmetic
<1> QED  BY <1>1, <1>2, <1>3, <1>4

LEMMA IntegerOp ==
  ASSUME NEW word \in Instructions, word.opcode # kFtype
  PROVE  GetAluSignal(word) \in IntegerOps
<1> DEFINE x == Word(word.opcode, 0, word.funct3, 0, 0, word.funct7)
<1>1. x.opcode = word.opcode /\ x.funct3 = word.funct3 /\ x.funct7 = word.funct7
  BY DEF Word
<1>2. word.opcode \in 0 .. 127 /\ word.funct3 \in 0 .. 7 /\ word.funct7 \in 0 .. 127
  BY DEF Instructions
<1>3. x \in IntegerWords
  BY <1>2 DEF IntegerWords, Word
<1> HIDE DEF x
<1>4. GetAluSignal(x) = GetAluSignal(word)
  BY <1>1, SignalFields, SMTT(60) DEF GetAluSignal
<1> QED  BY <1>3, <1>4 DEF IntegerOps

LEMMA FloatingOp ==
  ASSUME NEW word \in Instructions, Unit(word) # "none"
  PROVE  <<Unit(word), GetAluSignal(word)>> \in FloatingOps
<1>1. word.funct3 \in 0 .. 7 /\ word.rs2 \in 0 .. 31 /\ word.funct7 \in 0 .. 127
  BY DEF Instructions
<1>2. CASE word.opcode = kFtype
  <2> DEFINE x == Word(kFtype, 0, word.funct3, 0, word.rs2, word.funct7)
  <2>1. x \in FormatWords
    BY <1>1 DEF FormatWords, Word
  <2>2. x.opcode = kFtype /\ x.funct3 = word.funct3 /\ x.rs2 = word.rs2 /\ x.funct7 = word.funct7
    BY DEF Word
  <2> HIDE DEF x
  <2>3. GetAluSignal(x) = GetAluSignal(word)
    BY <1>2, <2>2, SignalFields, SignalOf
  <2>4. Unit(x) = Unit(word)
    BY <1>2, <2>2 DEF Unit, isFInstruction, isDInstruction, isBFloat16Instruction, isSIMDF32Instruction
  <2> QED  BY <2>1, <2>3, <2>4 DEF FloatingOps
<1>3. CASE word.opcode \in {kflw, kfsw}
  <2> DEFINE x == Word(word.opcode, 0, word.funct3, 0, 0, 0)
  <2>0. kflw # kFtype /\ kfsw # kFtype
    BY DEF kflw, kfsw, kFtype
  <2>1. word.funct3 \in {2, 3}
    BY <1>3, <2>0 DEF Unit, isFInstruction, isDInstruction, isBFloat16Instruction, isSIMDF32Instruction
  <2>2. x \in AccessWords
    BY <1>3, <2>1 DEF AccessWords, Word
  <2>3. x.opcode = word.opcode /\ x.funct3 = word.funct3
    BY DEF Word
  <2> HIDE DEF x
  <2>4. GetAluSignal(x) = GetAluSignal(word)
    BY <1>3, <2>1, <2>3 DEF GetAluSignal, kRtype, kItype, kBtype, kOpImm32, kOp32, kfmadd, kFtype,
             kLoadType, kStoreType, kjalr, kjal, klui, kauipc, kflw, kfsw
  <2>5. Unit(x) = Unit(word)
    BY <1>3, <2>0, <2>3 DEF Unit, isFInstruction, isDInstruction, isBFloat16Instruction, isSIMDF32Instruction
  <2> QED  BY <2>2, <2>4, <2>5 DEF FloatingOps
<1> QED  BY <1>2, <1>3, IntegerUnit

LEMMA ImmediateInt ==
  ASSUME NEW word \in Instructions
  PROVE  ImmGenerator(word) \in Int
<1>1. /\ word.rd \in Int /\ word.funct3 \in Int /\ word.rs1 \in Int /\ word.rs2 \in Int
      /\ word.funct7 \in Int
  BY DEF Instructions
<1>2. \A n \in Int, half \in Nat : sign_extend(n, half) \in Int
  BY DEF sign_extend
<1>3. ImmediateI(word) \in Int /\ ImmediateS(word) \in Int
  BY <1>1, <1>2 DEF ImmediateI, ImmediateS
<1>4. ImmediateB(word) \in Int
  <2>1. word.rd \div 2 \in Int /\ word.funct7 % 64 \in Int /\ word.rd % 2 \in Int /\ word.funct7 \div 64 \in Int
    BY <1>1
  <2> DEFINE n == 2 * (word.rd \div 2 + 16 * (word.funct7 % 64)
                       + 1024 * (word.rd % 2) + 2048 * (word.funct7 \div 64))
  <2>2. n \in Int
    BY <2>1
  <2>3. ImmediateB(word) = sign_extend(n, 4096)
    BY DEF ImmediateB
  <2> HIDE DEF n
  <2> QED  BY <1>2, <2>2, <2>3
<1>5. ImmediateU(word) \in Int
  BY <1>1 DEF ImmediateU
<1>6. ImmediateJ(word) \in Int
  <2>1. /\ word.rs2 \div 2 \in Int /\ word.funct7 % 64 \in Int /\ word.rs2 % 2 \in Int
        /\ word.funct7 \div 64 \in Int
    BY <1>1
  <2> DEFINE n == 2 * (word.rs2 \div 2 + 16 * (word.funct7 % 64) + 1024 * (word.rs2 % 2)
                       + 2048 * (word.funct3 + 8 * word.rs1) + 524288 * (word.funct7 \div 64))
  <2>2. n \in Int
    BY <1>1, <2>1, SMT
  <2>3. ImmediateJ(word) = sign_extend(n, 1048576)
    BY SMT DEF ImmediateJ
  <2> HIDE DEF n
  <2> QED  BY <1>2, <2>2, <2>3, SMT
<1> QED  BY <1>3, <1>4, <1>5, <1>6 DEF ImmGenerator


----------------------------------------------------------------------------
(* The machine keeps its shape.  The code of a word that is known by its   *)
(* line, the registers and what the units make of them are of their types. *)

Units == UnitsFor(Registers, 0 .. 255)

(* The CSR that ExecuteCsr looked up is still the one WriteBackCsr writes. *)
Latched ==
  phase \in {"memory", "writeback"} /\ w.opcode = kSystem /\ ~Ecall(w)
    => /\ csr_latch.target \in Csrs /\ csr_latch.old \in Registers
       /\ csr_latch.value \in Registers /\ csr_latch.uimm \in Registers

Typed == TypeOK /\ Latched

LEMMA AcceptedWords ==
  ASSUME NEW l, Accepted(l), NEW word, word = generateMachineCode(l)
  PROVE  /\ Decodable(word)
         /\ word.opcode = kSystem /\ ~Ecall(word) => word.rs2 + 32 * word.funct7 \in Csrs
<1>1. Csrs \subseteq Numbers12 /\ Numbers12 \subseteq Int
  BY MachineAssumption, SMT DEF Numbers12
<1>2. CsrLine(l) => l.imm \in Csrs
  BY DEF Accepted, CsrLine
<1>3. CsrLine(l) => l.imm \in Numbers12 /\ l.imm \in Int
  BY <1>1, <1>2, Zenon
<1>4. Decodable(word)
  BY <1>3, WordsDecodable DEF Accepted
<1>5. word.opcode = kSystem /\ ~Ecall(word) => CsrLine(l)
  BY SystemWord, EcallWord DEF Accepted
<1>6. CsrLine(l) => word.rs2 + 32 * word.funct7 = l.imm
  BY <1>3, CsrWord, Zenon
<1> QED  BY <1>2, <1>4, <1>5, <1>6, Zenon

LEMMA WordFound ==
  ASSUME Found, InFlight
  PROVE  /\ Decodable(w) /\ w \in Instructions
         /\ w.opcode = kSystem /\ ~Ecall(w) => w.rs2 + 32 * w.funct7 \in Csrs
BY LineFound, AcceptedWords DEF Decodable

LEMMA ControlType ==
  ASSUME NEW word
  PROVE  SetControlSignals(word) \in Signals
BY DEF SetControlSignals, Signals

LEMMA RegisterType ==
  ASSUME NEW S, NEW g \in [S -> Registers], NEW r
  PROVE  Register(g, r) \in Registers
<1>1. 0 \in Registers
  BY Sizes DEF Registers
<1> QED  BY <1>1 DEF Register

LEMMA WrittenType ==
  ASSUME NEW g \in [Gprs -> Registers], g[0] = 0, NEW rd, NEW value \in Registers
  PROVE  Written(g, rd, value) \in [Gprs -> Registers] /\ Written(g, rd, value)[0] = 0
<1>1. CASE rd = 0
  BY <1>1 DEF Written
<1>2. CASE rd # 0
  <2>1. Written(g, rd, value) = [g EXCEPT ![rd] = value]
    BY <1>2 DEF Written
  <2>2. [g EXCEPT ![rd] = value] = [r \in Gprs |-> IF r = rd THEN value ELSE g[r]]
    OBVIOUS
  <2>3. \A r \in Gprs : (IF r = rd THEN value ELSE g[r]) \in Registers
    OBVIOUS
  <2>4. 0 \in Gprs
    BY MachineAssumption
  <2> QED  BY <1>2, <2>1, <2>2, <2>3, <2>4
<1> QED  BY <1>1, <1>2

LEMMA TypedInit == Init => Typed
<1> SUFFICES ASSUME Init PROVE Typed
  OBVIOUS
<1>1. PICK s \in Starts : /\ pc = s.pc /\ gpr = s.gpr /\ fpr = s.fpr /\ csr = s.csr
                          /\ mem = s.mem /\ index = s.index /\ host = s.host
  BY DEF Init
<1>2. s \in Machines
  BY DatapathAssumption
<1>3. /\ pc \in Registers /\ gpr \in [Gprs -> Registers] /\ gpr[0] = 0
      /\ fpr \in [Fprs -> Registers] /\ csr \in [Csrs -> Registers]
      /\ mem \in Memories /\ index \in Indices /\ host \in 0 .. 3
  BY <1>1, <1>2 DEF Machines
<1>4. 0 \in Registers
  BY Sizes DEF Registers
<1>5. current_instruction \in Instructions
  BY DEF Init, Word, Instructions
<1>6. control \in Signals
  BY ControlType DEF Init
<1>7. /\ phase = "fetch" /\ execution_result = 0 /\ memory_result = 0 /\ next_pc = 0
      /\ branch_flag = FALSE
  BY DEF Init
<1> QED  BY <1>3, <1>4, <1>5, <1>6, <1>7 DEF Typed, TypeOK, Latched, Phases

LEMMA TypedFetch == Typed /\ Found /\ Fetch => Typed'
<1> SUFFICES ASSUME Typed, Found, Fetch PROVE Typed'
  OBVIOUS
<1>1. PICK l \in (IF pc \in DOMAIN text THEN {text[pc]} ELSE Lines(pc)) :
        current_instruction' = generateMachineCode(l)
  BY DEF Fetch
<1>2. pc \in 0 .. ProgramSize - 1
  BY DEF Fetch
<1>3. Accepted(l)
  BY <1>1, <1>2, DatapathAssumption DEF Found
<1>4. current_instruction' \in Instructions
  BY <1>1, <1>3, AcceptedWords DEF Decodable
<1>5. pc + 4 \in Registers
  BY <1>2, MachineAssumption, Sizes DEF Registers
<1>6. /\ pc' = pc + 4 /\ host' \in {host, 0} /\ phase' = "decode" /\ control' = control
      /\ UNCHANGED <<gpr, fpr, csr, mem, index>> /\ UNCHANGED latches
  BY DEF Fetch
<1> QED  BY <1>4, <1>5, <1>6 DEF Typed, TypeOK, Latched, Phases, latches

LEMMA TypedDecode == Typed /\ Decode => Typed'
<1> SUFFICES ASSUME Typed, Decode PROVE Typed'
  OBVIOUS
<1>1. control' \in Signals
  BY ControlType DEF Decode
<1> QED  BY <1>1 DEF Decode, Typed, TypeOK, Latched, Phases, machine, latches, fetched

----------------------------------------------------------------------------
(* Execute.                                                                *)

LEMMA OperandTypes ==
  ASSUME Typed, Found, phase = "execute", Units
  PROVE  /\ \A r : Gpr(r) \in Registers /\ Fpr(r) \in Registers
         /\ Operand2 \in Registers
         /\ FloatOperand1 \in Registers /\ FloatOperand2 \in Registers
         /\ RoundingMode \in 0 .. 255
<1>1. gpr \in [Gprs -> Registers] /\ fpr \in [Fprs -> Registers] /\ csr \in [Csrs -> Registers]
  BY DEF Typed, TypeOK
<1>2. \A r : Gpr(r) \in Registers /\ Fpr(r) \in Registers
  BY <1>1, RegisterType DEF Gpr, Fpr
<1>3. w \in Instructions
  BY WordFound DEF InFlight
<1>4. ImmGenerator(w) % Full \in Registers
  BY <1>3, ImmediateInt, RegisterOf
<1>5. Operand2 \in Registers /\ FloatOperand1 \in Registers /\ FloatOperand2 \in Registers
  BY <1>2, <1>4 DEF Operand2, FloatOperand1, FloatOperand2
<1>6. RoundingMode \in 0 .. 255
  <2>1. w.funct3 \in 0 .. 255
    BY <1>3 DEF Instructions
  <2>2. csr[kFrm] % 256 \in 0 .. 255
    <3>1. csr[kFrm] \in Int
      BY <1>1, MachineAssumption, Sizes DEF kFrm, Registers
    <3> QED  BY <3>1
  <2> QED  BY <2>1, <2>2 DEF RoundingMode
<1> QED  BY <1>2, <1>5, <1>6

LEMMA FloatFormat ==
  ASSUME NEW word \in Instructions, word.opcode = kFtype
  PROVE  Unit(word) # "none" /\ (isFInstruction(word) \/ isDInstruction(word))
<1>1. word.funct7 % 2 = 0 \/ word.funct7 % 2 = 1
  BY DEF Instructions
<1> QED  BY <1>1 DEF Unit, isFInstruction, isDInstruction, isBFloat16Instruction, isSIMDF32Instruction

LEMMA IntegerResults ==
  ASSUME Typed, Found, phase = "execute", Units, Unit(w) = "none"
  PROVE  IntegerOutcomes \subseteq Registers \cup {Trap}
<1>1. w \in Instructions
  BY WordFound DEF InFlight
<1>2. GetAluSignal(w) \in IntegerOps
  BY <1>1, FloatFormat, IntegerOp
<1>3. \A a, b \in Registers : Execute("kAddrAdd", a, b) \subseteq Registers
  <2>1. \A a, b \in Registers : Execute("kAddrAdd", a, b) = {(a + b) % Full}
    BY DEF Units, UnitsFor, IntegerUnitFor
  <2>2. \A a, b \in Registers : (a + b) % Full \in Registers
    BY RegisterOf DEF Registers
  <2> QED  BY <2>1, <2>2
<1>4. \A a, b \in Registers : Execute(GetAluSignal(w), a, b) \subseteq Registers \cup {Trap}
  BY <1>2 DEF Units, UnitsFor, IntegerUnitFor
<1>5. \A a \in Registers : S32(Checked(a)) % Full \in Registers
  <2> SUFFICES ASSUME NEW a \in Registers PROVE S32(Checked(a)) % Full \in Registers
    OBVIOUS
  <2>1. Checked(a) \in Int
    BY Sizes DEF Units, UnitsFor, CodesFor, Registers
  <2>2. S32(Checked(a)) \in Int
    BY <2>1, SignedInt, Sizes DEF S32
  <2> QED  BY <2>2, RegisterOf
<1>6. Gpr(w.rs1) \in Registers /\ Gpr(w.rs2) \in Registers /\ Operand2 \in Registers
  BY OperandTypes
<1> QED  BY <1>3, <1>4, <1>5, <1>6 DEF IntegerOutcomes

LEMMA TypedInteger == Typed /\ Found /\ Units /\ ExecuteInteger => Typed'
<1> SUFFICES ASSUME Typed, Found, Units, ExecuteInteger PROVE Typed'
  OBVIOUS
<1>1. phase = "execute" /\ Unit(w) = "none" /\ w.opcode # kSystem
  BY DEF ExecuteInteger, Executing
<1>2. PICK result \in IntegerOutcomes \ {Trap} :
       /\ branch_flag' = IF w.opcode = kBtype THEN Taken(result) ELSE branch_flag
       /\ pc' = Target(result)
       /\ execution_result' = IF w.opcode = kauipc
                              THEN (pc - 4 + Signed(Page * ImmGenerator(w), Data)) % Full ELSE result
  BY DEF ExecuteInteger
<1>3. result \in Registers
  BY <1>1, IntegerResults
<1>4. pc \in Registers /\ pc \in Int /\ result \in Int /\ branch_flag \in BOOLEAN
  BY <1>3, Sizes DEF Typed, TypeOK, Registers
<1>5. w \in Instructions /\ ImmGenerator(w) \in Int
  BY <1>1, WordFound, ImmediateInt DEF InFlight
<1>6. branch_flag' \in BOOLEAN
  BY <1>2, <1>4 DEF Taken
<1>7. pc' \in Registers
  <2>1. result % Data \in Registers
    BY <1>4, Remainders, Sizes, Smaller
  <2>2. (pc - 4 + ImmGenerator(w)) % Full \in Registers
    BY <1>4, <1>5, RegisterOf
  <2> QED  BY <1>2, <1>4, <2>1, <2>2 DEF Target
<1>8. execution_result' \in Registers
  <2>1. Page * ImmGenerator(w) \in Int
    BY <1>5, MachineAssumption
  <2>2. Signed(Page * ImmGenerator(w), Data) \in Int
    BY <2>1, SignedInt, Sizes
  <2>3. (pc - 4 + Signed(Page * ImmGenerator(w), Data)) % Full \in Registers
    BY <1>4, <2>2, RegisterOf
  <2> QED  BY <1>2, <1>3, <2>3
<1>9. next_pc' \in Registers
  BY <1>4 DEF ExecuteInteger, Typed, TypeOK
<1>10. /\ phase' = "memory" /\ UNCHANGED <<gpr, fpr, csr, mem, host, memory_result, csr_latch>>
       /\ UNCHANGED <<index, current_instruction, control>>
  BY DEF ExecuteInteger, Executing, fetched
<1> QED  BY <1>1, <1>6, <1>7, <1>8, <1>9, <1>10 DEF Typed, TypeOK, Latched, Phases, w

LEMMA FloatResults ==
  ASSUME NEW words, NEW modes, FloatUnitsFor(words, modes)
  PROVE  \A u \in FloatingOps, a, b, c \in words, rm \in modes, h \in 0 .. 3 :
           /\ FpExecute(u[1], u[2], a, b, c, rm, h).value \in Registers
           /\ FpExecute(u[1], u[2], a, b, c, rm, h).flags \in Registers
           /\ FpExecute(u[1], u[2], a, b, c, rm, h).host \in 0 .. 3
<1> SUFFICES ASSUME NEW u \in FloatingOps, NEW a \in words, NEW b \in words, NEW c \in words,
                    NEW rm \in modes, NEW h \in 0 .. 3
             PROVE  /\ FpExecute(u[1], u[2], a, b, c, rm, h).value \in Registers
                    /\ FpExecute(u[1], u[2], a, b, c, rm, h).flags \in Registers
                    /\ FpExecute(u[1], u[2], a, b, c, rm, h).host \in 0 .. 3
  BY Zenon
<1> QED  BY DEF FloatUnitsFor

LEMMA TypedFloatingPoint == Typed /\ Found /\ Units /\ ExecuteFloatingPoint => Typed'
<1> SUFFICES ASSUME Typed, Found, Units, ExecuteFloatingPoint PROVE Typed'
  OBVIOUS
<1>1. phase = "execute" /\ Unit(w) # "none"
  BY DEF ExecuteFloatingPoint, Executing
<1>2. w \in Instructions
  BY <1>1, WordFound DEF InFlight
<1> DEFINE f == FpExecute(Unit(w), GetAluSignal(w), FloatOperand1, FloatOperand2,
                          Fpr(w.funct7 \div 4), RoundingMode, host)
<1>3. f.value \in Registers /\ f.flags \in Registers /\ f.host \in 0 .. 3
  <2>1. /\ FloatOperand1 \in Registers /\ FloatOperand2 \in Registers
        /\ Fpr(w.funct7 \div 4) \in Registers /\ RoundingMode \in 0 .. 255 /\ host \in 0 .. 3
    BY <1>1, OperandTypes DEF Typed, TypeOK
  <2>2. <<Unit(w), GetAluSignal(w)>> \in FloatingOps
    BY <1>1, <1>2, FloatingOp
  <2>3. \A u \in FloatingOps, a, b, c \in Registers, rm \in 0 .. 255, h \in 0 .. 3 :
          /\ FpExecute(u[1], u[2], a, b, c, rm, h).value \in Registers
          /\ FpExecute(u[1], u[2], a, b, c, rm, h).flags \in Registers
          /\ FpExecute(u[1], u[2], a, b, c, rm, h).host \in 0 .. 3
    BY FloatResults DEF Units, UnitsFor
  <2> DEFINE u == <<Unit(w), GetAluSignal(w)>>
  <2>4. u[1] = Unit(w) /\ u[2] = GetAluSignal(w)
    OBVIOUS
  <2>5. f = FpExecute(u[1], u[2], FloatOperand1, FloatOperand2, Fpr(w.funct7 \div 4), RoundingMode, host)
    BY <2>4
  <2> HIDE DEF f, u
  <2> QED  BY <2>1, <2>2, <2>3, <2>5 DEF u
<1>4. /\ execution_result' = f.value /\ host' = f.host
      /\ csr' = IF Unit(w) = "double" THEN csr ELSE [csr EXCEPT ![kFcsr] = f.flags]
  BY DEF ExecuteFloatingPoint
<1> HIDE DEF f
<1>5. csr' \in [Csrs -> Registers]
  BY <1>3, <1>4 DEF Typed, TypeOK
<1>6. /\ phase' = "memory" /\ UNCHANGED <<pc, gpr, fpr, mem, memory_result, next_pc, branch_flag, csr_latch>>
      /\ UNCHANGED <<index, current_instruction, control>>
  BY DEF ExecuteFloatingPoint, Executing, fetched
<1>7. w.opcode # kSystem
  BY <1>1, IntegerUnit DEF kSystem, kFtype, kflw, kfsw
<1> QED  BY <1>3, <1>4, <1>5, <1>6, <1>7 DEF Typed, TypeOK, Latched, Phases, w

LEMMA TypedCsr == Typed /\ Found /\ Units /\ ExecuteCsr => Typed'
<1> SUFFICES ASSUME Typed, Found, Units, ExecuteCsr PROVE Typed'
  OBVIOUS
<1>1. phase = "execute" /\ w.opcode = kSystem /\ ~Ecall(w)
  BY DEF ExecuteCsr, Executing
<1>2. w.rs2 + 32 * w.funct7 \in Csrs
  BY <1>1, WordFound DEF InFlight
<1>3. csr_latch' = [target |-> w.rs2 + 32 * w.funct7, old |-> csr[w.rs2 + 32 * w.funct7],
                    value |-> Gpr(w.rs1), uimm |-> w.rs1]
  BY DEF ExecuteCsr
<1>4. csr[w.rs2 + 32 * w.funct7] \in Registers
  BY <1>2 DEF Typed, TypeOK
<1>5. Gpr(w.rs1) \in Registers
  BY <1>1, OperandTypes
<1>6. w.rs1 \in Registers
  <2>1. w.rs1 \in 0 .. 31
    BY <1>1, WordFound DEF InFlight, Instructions
  <2> QED  BY <2>1, Sizes DEF Registers
<1>7. /\ phase' = "memory" /\ UNCHANGED <<pc, gpr, fpr, csr, mem, index, host>>
      /\ UNCHANGED <<execution_result, memory_result, next_pc, branch_flag, current_instruction, control>>
  BY DEF ExecuteCsr, Executing, fetched, machine
<1> QED  BY <1>2, <1>3, <1>4, <1>5, <1>6, <1>7 DEF Typed, TypeOK, Latched, Phases

(* What stays of the machine keeps its type.                               *)
LEMMA TypedAbort == Typed /\ (DivisionFaults \/ SyscallExit \/ SyscallFaults \/ AccessFaults) => Typed'
<1> SUFFICES ASSUME Typed, DivisionFaults \/ SyscallExit \/ SyscallFaults \/ AccessFaults PROVE Typed'
  OBVIOUS
<1>1. /\ phase' \in Ended
      /\ UNCHANGED <<pc, gpr, fpr, csr, mem, index, host, execution_result, memory_result, next_pc,
                     branch_flag, current_instruction, control>>
  BY DEF DivisionFaults, SyscallExit, SyscallFaults, AccessFaults, Executing, Syscall, AtMemory, Abort,
         machine, latches, fetched, Ended
<1> QED  BY <1>1 DEF Typed, TypeOK, Latched, Ended

LEMMA TypedSyscall == Typed /\ (SyscallQuiet \/ SyscallRead \/ SyscallWrite) => Typed'
<1> SUFFICES ASSUME Typed, SyscallQuiet \/ SyscallRead \/ SyscallWrite PROVE Typed'
  OBVIOUS
<1>1. /\ phase' = "memory" /\ Ecall(w)
      /\ UNCHANGED <<pc, fpr, csr, index, host, execution_result, memory_result, next_pc, branch_flag>>
      /\ UNCHANGED <<current_instruction, control>>
  BY DEF SyscallQuiet, SyscallRead, SyscallWrite, Syscall, Executing, latches, fetched
<1>2. gpr \in [Gprs -> Registers] /\ gpr[0] = 0 /\ mem \in Memories
  BY DEF Typed, TypeOK
<1>3. gpr[11] \in Nat /\ gpr[12] \in Nat /\ gpr[12] \in Registers
  BY <1>2, MachineAssumption, Sizes DEF Registers
<1>4. \A n \in Registers : [gpr EXCEPT ![10] = n] \in [Gprs -> Registers] /\ [gpr EXCEPT ![10] = n][0] = 0
  <2> SUFFICES ASSUME NEW n \in Registers
               PROVE  [gpr EXCEPT ![10] = n] \in [Gprs -> Registers] /\ [gpr EXCEPT ![10] = n][0] = 0
    OBVIOUS
  <2>1. [gpr EXCEPT ![10] = n] = Written(gpr, 10, n)
    BY DEF Written
  <2> QED  BY <1>2, <2>1, WrittenType
<1>5. gpr' \in [Gprs -> Registers] /\ gpr'[0] = 0 /\ mem' \in Memories
  <2>1. CASE SyscallQuiet
    BY <1>2, <2>1 DEF SyscallQuiet
  <2>2. CASE SyscallWrite
    BY <1>2, <1>3, <1>4, <2>2 DEF SyscallWrite
  <2>3. CASE SyscallRead
    <3>1. PICK input \in Inputs :
            /\ mem' = Received(mem, gpr[11], gpr[12], input)
            /\ gpr' = [gpr EXCEPT ![10] = IF Len(input) < gpr[12] THEN Len(input) ELSE gpr[12]]
      BY <2>3 DEF SyscallRead
    <3>2. Len(input) \in Nat
      <4>1. input \in Seq(0 .. Radix - 1)
        BY MachineAssumption
      <4> QED  BY <4>1, Elements
    <3>3. (IF Len(input) < gpr[12] THEN Len(input) ELSE gpr[12]) \in Registers
      BY <1>3, <3>2, Sizes DEF Registers
    <3>4. mem' \in Memories
      BY <1>2, <1>3, <3>1, ReceivedType
    <3> QED  BY <1>4, <3>1, <3>3, <3>4
  <2> QED  BY <2>1, <2>2, <2>3
<1> QED  BY <1>1, <1>5 DEF Typed, TypeOK, Latched, Phases, w, Ecall

----------------------------------------------------------------------------
(* WriteMemory.                                                            *)

LEMMA WidthType ==
  ASSUME Found, phase = "memory"
  PROVE  /\ Width \in {1, 2, 4, 8}
         /\ Form = "integer" =>
              /\ w.funct3 \in 0 .. 7
              /\ w.funct3 \in {0, 4} => Width = 1
              /\ w.funct3 \in {1, 5} => Width = 2
              /\ w.funct3 \in {2, 6} => Width = 4
              /\ w.funct3 \in {3, 7} => Width = 8
<1>1. w.funct3 \in 0 .. 7
  BY WordFound DEF InFlight, Instructions
<1>2. CASE Form = "integer"
  BY <1>1, <1>2 DEF Width
<1>3. CASE Form # "integer"
  BY <1>3 DEF Form, Width
<1> QED  BY <1>2, <1>3

LEMMA LoadedType ==
  ASSUME Typed, Found, phase = "memory", InRange(address, Width)
  PROVE  Loaded \in Registers
<1>1. mem \in Memories /\ address \in Nat
  BY Sizes DEF Typed, TypeOK, address, Registers
<1>2. \A n \in Int, v \in {Radix, Half, Data} : Signed(n, v) % Full \in Registers
  BY SignedInt, RegisterOf, Sizes
<1>3. CASE Form = "float"
  BY <1>1, <1>3, BytesRead, Smaller DEF Loaded, Width
<1>4. CASE Form = "double"
  BY <1>1, <1>4, BytesRead DEF Loaded, Width
<1>5. CASE Form = "integer"
  <2>1. CASE w.funct3 \in {0, 4}
    <3>1. mem[address] \in 0 .. Radix - 1
      BY <1>1, <1>5, <2>1, WidthType, BytesRead
    <3>2. mem[address] \in Int /\ mem[address] \in Registers
      BY <3>1, Smaller
    <3> QED  BY <1>2, <1>5, <2>1, <3>2 DEF Loaded
  <2>2. CASE w.funct3 \in {1, 5}
    <3>1. ReadHalfWord(mem, address) \in 0 .. Half - 1
      BY <1>1, <1>5, <2>2, WidthType, BytesRead
    <3>2. ReadHalfWord(mem, address) \in Int /\ ReadHalfWord(mem, address) \in Registers
      BY <3>1, Smaller
    <3> QED  BY <1>2, <1>5, <2>2, <3>2 DEF Loaded
  <2>3. CASE w.funct3 \in {2, 6}
    <3>1. ReadWord(mem, address) \in 0 .. Data - 1
      BY <1>1, <1>5, <2>3, WidthType, BytesRead
    <3>2. ReadWord(mem, address) \in Int /\ ReadWord(mem, address) \in Registers
      BY <3>1, Smaller
    <3> QED  BY <1>2, <1>5, <2>3, <3>2 DEF Loaded
  <2>4. CASE w.funct3 \in {3, 7}
    <3>1. ReadDoubleWord(mem, address) \in Registers
      BY <1>1, <1>5, <2>4, WidthType, BytesRead
    <3> QED  BY <1>5, <2>4, <3>1 DEF Loaded
  <2> QED  BY <1>5, <2>1, <2>2, <2>3, <2>4, WidthType
<1> QED  BY <1>3, <1>4, <1>5 DEF Form

LEMMA TypedMemory == Typed /\ Found /\ (NoAccess \/ Load \/ LoadSample \/ Store \/ StoreToLog) => Typed'
<1> SUFFICES ASSUME Typed, Found, NoAccess \/ Load \/ LoadSample \/ Store \/ StoreToLog PROVE Typed'
  OBVIOUS
<1>1. /\ phase = "memory" /\ phase' = "writeback"
      /\ UNCHANGED <<pc, gpr, fpr, csr, host, execution_result, next_pc, branch_flag, csr_latch>>
      /\ UNCHANGED <<current_instruction, control>>
  BY DEF NoAccess, Load, LoadSample, Store, StoreToLog, AtMemory, ToWriteBack, fetched
<1>2. mem' \in Memories /\ index' \in Indices /\ memory_result' \in Registers
  <2>1. mem \in Memories /\ index \in Indices /\ memory_result \in Registers
    BY DEF Typed, TypeOK
  <2>2. CASE NoAccess \/ StoreToLog
    BY <2>1, <2>2 DEF NoAccess, StoreToLog
  <2>3. CASE Load
    BY <1>1, <2>1, <2>3, LoadedType DEF Load
  <2>4. CASE LoadSample
    <3>1. /\ audio_samples \in Seq(Registers) /\ image_samples \in Seq(Registers)
          /\ index.audio \in 0 .. Len(audio_samples) /\ index.image \in 0 .. Len(image_samples)
      BY <2>1, MachineAssumption DEF Indices
    <3>2. /\ Sample(audio_samples, index.audio) \in Registers
          /\ NextIndex(audio_samples, index.audio) \in 0 .. Len(audio_samples)
          /\ Sample(image_samples, index.image) \in Registers
          /\ NextIndex(image_samples, index.image) \in 0 .. Len(image_samples)
      BY <3>1, SampleType
    <3> QED  BY <2>1, <2>4, <3>2 DEF LoadSample, Indices
  <2>5. CASE Store
    <3>1. Gpr(w.rs2) \in Nat /\ Fpr(w.rs2) \in Nat
      <4>1. gpr \in [Gprs -> Registers] /\ fpr \in [Fprs -> Registers]
        BY DEF Typed, TypeOK
      <4>2. Gpr(w.rs2) \in Registers /\ Fpr(w.rs2) \in Registers
        BY <4>1, RegisterType DEF Gpr, Fpr
      <4> QED  BY <4>2, Sizes DEF Registers
    <3>2. address \in Nat
      BY Sizes DEF Typed, TypeOK, address, Registers
    <3>3. Width \in {1, 2, 4, 8}
      BY <1>1, WidthType
    <3>4. mem' = Stored(mem, address, Width, IF Form = "integer" THEN Gpr(w.rs2) ELSE Fpr(w.rs2))
      BY <2>5 DEF Store
    <3>5. mem' \in Memories
      BY <2>1, <3>1, <3>2, <3>3, <3>4, StoredType
    <3> QED  BY <2>1, <2>5, <3>5 DEF Store
  <2> QED  BY <2>2, <2>3, <2>4, <2>5
<1> QED  BY <1>1, <1>2 DEF Typed, TypeOK, Latched, Phases, w

----------------------------------------------------------------------------
(* WriteBack.                                                              *)

LEMMA WrittenBackType ==
  ASSUME Typed, Found, Units, phase = "writeback", Form = "integer", control.reg_write
  PROVE  WrittenBack \in Registers
<1>1. control = SetControlSignals(w) /\ Decodable(w)
  BY WordFound DEF Found, InFlight, w
<1>2. w \in Instructions
  BY <1>1 DEF Decodable
<1>3. w.opcode \notin {kflw, kfsw, kFtype}
  <2>1. ~isFInstruction(w) /\ ~isDInstruction(w)
    BY DEF Form
  <2>2. w.opcode # kFtype
    BY <1>2, <2>1, FloatFormat
  <2> QED  BY <1>1, <2>1, <2>2, AccessUnit DEF Decodable
<1>4. w.opcode \in {kRtype, kItype, kauipc, kLoadType, kjal, kjalr, klui}
  <2>1. w.opcode \in {kRtype, kLoadType, kItype, klui, kauipc, kjal, kjalr, 1, kflw, kFtype}
    BY <1>1 DEF SetControlSignals
  <2>2. w.opcode # 1
    <3>1. 1 \notin Opcodes
      BY DEF Opcodes, kRtype, kItype, kLoadType, kStoreType, kBtype, kjal, kjalr, klui, kauipc, kSystem,
             kOp32, kOpImm32, kflw, kfsw, kFtype, kfmadd, kfmsub, kfnmsub, kfnmadd
    <3> QED  BY <1>1, <3>1 DEF Decodable
  <2> QED  BY <1>3, <2>1, <2>2
<1>5. execution_result \in Registers /\ memory_result \in Registers /\ next_pc \in Registers
      /\ control.is_load_protected \in BOOLEAN
  BY DEF Typed, TypeOK, Signals
<1>6. \A a \in Registers : /\ Protected(a % Data, 0, SIG_LOW) \in Registers
                           /\ Protected(a % Data, 1, SIG_POINTER) \in Registers
  BY DEF Units, UnitsFor, CodesFor
<1>7. Signed(Page * ImmGenerator(w), Data) % Full \in Registers
  <2>1. Page * ImmGenerator(w) \in Int
    BY <1>2, ImmediateInt, MachineAssumption
  <2>2. Signed(Page * ImmGenerator(w), Data) \in Int
    BY <2>1, SignedInt, Sizes
  <2> QED  BY <2>2, RegisterOf
<1>8. CASE w.opcode \in {kRtype, kItype, kauipc}
  <2>1. WrittenBack = execution_result
    BY <1>8 DEF WrittenBack, kRtype, kItype, kauipc, kLoadType, kjal, kjalr, klui
  <2> QED  BY <1>5, <2>1
<1>9. CASE w.opcode = kLoadType
  <2>1. w.opcode \notin {kRtype, kItype, kauipc}
    BY <1>9 DEF kRtype, kItype, kauipc, kLoadType
  <2>2. CASE control.is_load_protected
    <3>1. WrittenBack = Protected(memory_result % Data, 0, SIG_LOW)
      BY <1>9, <2>1, <2>2 DEF WrittenBack, kRtype, kItype, kauipc, kLoadType, kjal, kjalr, klui
    <3> QED  BY <1>5, <1>6, <3>1
  <2>3. CASE ~control.is_load_protected
    <3>1. WrittenBack = memory_result
      BY <1>9, <2>1, <2>3 DEF WrittenBack, kRtype, kItype, kauipc, kLoadType, kjal, kjalr, klui
    <3> QED  BY <1>5, <3>1
  <2> QED  BY <2>2, <2>3
<1>10. CASE w.opcode \in {kjal, kjalr}
  <2>1. WrittenBack = Protected(next_pc % Data, 1, SIG_POINTER)
    BY <1>10 DEF WrittenBack, kRtype, kItype, kauipc, kLoadType, kjal, kjalr, klui
  <2> QED  BY <1>5, <1>6, <2>1
<1>11. CASE w.opcode = klui
  <2>1. WrittenBack = Signed(Page * ImmGenerator(w), Data) % Full
    BY <1>11 DEF WrittenBack, kRtype, kItype, kauipc, kLoadType, kjal, kjalr, klui
  <2> QED  BY <1>7, <2>1
<1> QED  BY <1>4, <1>8, <1>9, <1>10, <1>11

LEMMA TypedWriteBack ==
  Typed /\ Found /\ Units
    /\ (WriteBackInteger \/ WriteBackFloat \/ WriteBackCsr \/ WriteBackNothing) => Typed'
<1> SUFFICES ASSUME Typed, Found, Units,
                    WriteBackInteger \/ WriteBackFloat \/ WriteBackCsr \/ WriteBackNothing
             PROVE  Typed'
  OBVIOUS
<1>1. /\ phase = "writeback" /\ phase' = "fetch"
      /\ UNCHANGED <<pc, mem, index, host, execution_result, memory_result, next_pc, branch_flag>>
      /\ UNCHANGED <<current_instruction, control>>
  BY DEF WriteBackInteger, WriteBackFloat, WriteBackCsr, WriteBackNothing, AtWriteBack, latches, fetched
<1>2. /\ gpr \in [Gprs -> Registers] /\ gpr[0] = 0 /\ fpr \in [Fprs -> Registers]
      /\ csr \in [Csrs -> Registers]
  BY DEF Typed, TypeOK
<1>3. /\ gpr' \in [Gprs -> Registers] /\ gpr'[0] = 0 /\ fpr' \in [Fprs -> Registers]
      /\ csr' \in [Csrs -> Registers]
  <2>1. CASE WriteBackInteger
    BY <1>1, <1>2, <2>1, WrittenBackType, WrittenType DEF WriteBackInteger
  <2>2. CASE WriteBackFloat
    <3>1. FloatWrittenBack \in Registers
      BY DEF FloatWrittenBack, Typed, TypeOK
    <3> QED  BY <1>2, <2>2, <3>1, WrittenType DEF WriteBackFloat
  <2>3. CASE WriteBackCsr
    <3>1. /\ csr_latch.target \in Csrs /\ csr_latch.old \in Registers
          /\ csr_latch.value \in Registers /\ csr_latch.uimm \in Registers
      BY <1>1, <2>3 DEF WriteBackCsr, Typed, Latched
    <3>2. \A a, b \in Registers : SetBits(a, b) \in Registers /\ ClearBits(a, b) \in Registers
      BY DEF Units, UnitsFor, CodesFor
    <3>3. PICK written \in Registers : csr' = [csr EXCEPT ![csr_latch.target] = written]
      BY <3>1, <3>2, <2>3 DEF WriteBackCsr
    <3> QED  BY <1>2, <2>3, <3>1, <3>3, WrittenType DEF WriteBackCsr
  <2>4. CASE WriteBackNothing
    BY <1>2, <2>4 DEF WriteBackNothing
  <2> QED  BY <2>1, <2>2, <2>3, <2>4
<1> QED  BY <1>1, <1>3 DEF Typed, TypeOK, Latched, Phases

LEMMA TypedNext == Typed /\ Found /\ Units /\ [Next]_vars => Typed'
<1> SUFFICES ASSUME Typed, Found, Units, [Next]_vars PROVE Typed'
  OBVIOUS
<1>1. CASE UNCHANGED vars
  BY <1>1 DEF Typed, TypeOK, Latched, vars, machine, latches, fetched, w
<1>2. CASE Next
  BY <1>2, TypedFetch, TypedDecode, TypedInteger, TypedFloatingPoint, TypedCsr, TypedAbort, TypedSyscall,
     TypedMemory, TypedWriteBack DEF Next
<1> QED  BY <1>1, <1>2

(* Whatever the lines and the machine it starts on, every instruction      *)
(* leaves words in the registers, bytes in the memory and 0 in x0, and     *)
(* what a stage hands to the next has the width that it reads; the units   *)
(* and the code need only have the properties of UnitsFor.                 *)
THEOREM TypesCorrect ==
  ASSUME UnitsFor(Registers, 0 .. 255)
  PROVE  Spec => []TypeOK
<1>1. Init => Typed /\ Found
  BY TypedInit, FoundInit
<1>2. (Typed /\ Found) /\ [Next]_vars => (Typed /\ Found)'
  BY TypedNext, FoundNext DEF Units
<1>3. Typed /\ Found => TypeOK
  BY DEF Typed
<1> QED  BY <1>1, <1>2, <1>3, PTL DEF Spec

----------------------------------------------------------------------------
(* The units of the sources are such units: what is assumed of them above  *)
(* follows from their operations, a code that is systematic and a host     *)
(* that yields words.                                                      *)

(* What goes to a unit is an operation of it; the words of flw and fsw add *)
(* an address.                                                             *)
LEMMA ArithmeticRouted ==
  ASSUME NEW word \in Instructions, word.opcode = kFtype, word.funct7 < 16 \/ word.funct7 \in {18, 19, 23}
  PROVE  Unit(word) \in FloatUnits /\ Suits(Unit(word), SignalF(word))
<1>1. CASE word.funct7 \in {0, 4, 8, 12}
  <2>1. Unit(word) = "float"
    BY <1>1, ArithmeticUnit
  <2>2. SignalF(word) \in {"FADD_S", "FSUB_S", "FMUL_S", "FDIV_S"}
    BY <1>1, ArithmeticSelected, ProductsSelected
  <2> QED  BY <2>1, <2>2 DEF FloatUnits, Suits
<1>2. CASE word.funct7 \in {1, 5, 9, 13}
  <2>1. Unit(word) = "double"
    BY <1>2, ArithmeticUnit
  <2>2. SignalF(word) \in {"FADD_D", "FSUB_D", "FMUL_D", "FDIV_D"}
    BY <1>2, ArithmeticSelected, ProductsSelected
  <2> QED  BY <2>1, <2>2 DEF FloatUnits, Suits
<1>3. CASE word.funct7 \in {2, 6, 10, 14, 18}
  <2>1. Unit(word) = "bfloat16"
    BY <1>3, ArithmeticUnit
  <2>2. SignalF(word) \in {"FADD_BF16", "FSUB_BF16", "FMUL_BF16", "FDIV_BF16", "VDOTP_BF16"}
    BY <1>3, ArithmeticSelected, ProductsSelected
  <2>3. SignalF(word) \notin Uncomputed
    BY <2>2 DEF Uncomputed, Unknown, Compares, Moves, SignOps
  <2> QED  BY <2>1, <2>3 DEF FloatUnits, Suits
<1>4. CASE word.funct7 \in {3, 7, 11, 15, 19, 23}
  <2>1. Unit(word) = "simdf32"
    BY <1>4, ArithmeticUnit
  <2>2. SignalF(word) \in {"SIMDF_ADD32", "SIMDF_SUB32", "SIMDF_MUL32", "SIMDF_DIV32", "SIMDF_REM32", "SIMDF_LD32"}
    BY <1>4, ArithmeticSelected, ProductsSelected
  <2>3. SignalF(word) = "SIMDF_LD32" \/ SignalF(word) \notin Uncomputed
    BY <2>2 DEF Uncomputed, Unknown, Compares, Moves, SignOps
  <2> QED  BY <2>1, <2>3 DEF FloatUnits, Suits
<1>5. word.funct7 \in 0 .. 15 \cup {18, 19, 23}
  BY DEF Instructions
<1> QED  BY <1>1, <1>2, <1>3, <1>4, <1>5

SingleOps == { "FSQRT_S", "FCVT_W_S", "FCVT_WU_S", "FCVT_L_S", "FCVT_LU_S", "FCVT_S_W", "FCVT_S_WU", "FCVT_S_L",
               "FCVT_S_LU", "FSGNJ_S", "FSGNJN_S", "FSGNJX_S", "FMIN_S", "FMAX_S", "FLE_S", "FLT_S", "FEQ_S",
               "FMV_W_X", "FMV_X_W", "FCLASS_S", "kNone" }

DoubleOps == { "FSQRT_D", "FCVT_W_D", "FCVT_WU_D", "FCVT_L_D", "FCVT_LU_D", "FCVT_D_W", "FCVT_D_WU", "FCVT_D_L",
               "FCVT_D_LU", "FSGNJ_D", "FSGNJN_D", "FSGNJX_D", "FMIN_D", "FMAX_D", "FLE_D", "FLT_D", "FEQ_D",
               "FMV_D_X", "FMV_X_D", "FCLASS_D", "kNone" }

LEMMA EntryOf ==
  ASSUME NEW S, NEW table \in Seq(S), NEW n \in Nat
  PROVE  Entry(table, n) \in S \cup {"kNone"}
BY DEF Entry

LEMMA SignalFloatOps ==
  ASSUME NEW word \in Instructions
  PROVE  /\ word.funct7 % 2 = 0 => SignalFloat(word) \in SingleOps
         /\ word.funct7 % 2 = 1 => SignalFloat(word) \in DoubleOps
<1>1. word.funct3 \in Nat /\ word.rs2 \in Nat
  BY DEF Instructions
<1>2. ASSUME word.funct7 % 2 = 0 PROVE SignalFloat(word) \in SingleOps
  <2>0. \A table \in Seq(SingleOps), n \in Nat : Entry(table, n) \in SingleOps
    BY EntryOf DEF SingleOps
  <2>1. /\ <<"FCVT_W_S", "FCVT_WU_S", "FCVT_L_S", "FCVT_LU_S">> \in Seq(SingleOps)
        /\ <<"FCVT_S_W", "FCVT_S_WU", "FCVT_S_L", "FCVT_S_LU">> \in Seq(SingleOps)
    BY DEF SingleOps
  <2>2. /\ <<"FSGNJ_S", "FSGNJN_S", "FSGNJX_S">> \in Seq(SingleOps)
        /\ <<"FLE_S", "FLT_S", "FEQ_S">> \in Seq(SingleOps)
    BY DEF SingleOps
  <2>4. <<"FMIN_S", "FMAX_S">> \in Seq(SingleOps) /\ <<"FMV_X_W", "FCLASS_S">> \in Seq(SingleOps)
    BY DEF SingleOps
  <2>3. "FSQRT_S" \in SingleOps /\ "FMV_W_X" \in SingleOps /\ "kNone" \in SingleOps
    BY DEF SingleOps
  <2>5. /\ Entry(<<"FCVT_W_S", "FCVT_WU_S", "FCVT_L_S", "FCVT_LU_S">>, word.rs2) \in SingleOps
        /\ Entry(<<"FCVT_S_W", "FCVT_S_WU", "FCVT_S_L", "FCVT_S_LU">>, word.rs2) \in SingleOps
    BY <1>1, <2>0, <2>1
  <2>6. /\ Entry(<<"FSGNJ_S", "FSGNJN_S", "FSGNJX_S">>, word.funct3) \in SingleOps
        /\ Entry(<<"FMIN_S", "FMAX_S">>, word.funct3) \in SingleOps
        /\ Entry(<<"FLE_S", "FLT_S", "FEQ_S">>, word.funct3) \in SingleOps
        /\ Entry(<<"FMV_X_W", "FCLASS_S">>, word.funct3) \in SingleOps
    BY <1>1, <2>0, <2>2, <2>4
  <2> QED  BY <1>2, <2>3, <2>5, <2>6 DEF SignalFloat
<1>3. ASSUME word.funct7 % 2 = 1 PROVE SignalFloat(word) \in DoubleOps
  <2>0. \A table \in Seq(DoubleOps), n \in Nat : Entry(table, n) \in DoubleOps
    BY EntryOf DEF DoubleOps
  <2>1. /\ <<"FCVT_W_D", "FCVT_WU_D", "FCVT_L_D", "FCVT_LU_D">> \in Seq(DoubleOps)
        /\ <<"FCVT_D_W", "FCVT_D_WU", "FCVT_D_L", "FCVT_D_LU">> \in Seq(DoubleOps)
    BY DEF DoubleOps
  <2>2. /\ <<"FSGNJ_D", "FSGNJN_D", "FSGNJX_D">> \in Seq(DoubleOps)
        /\ <<"FLE_D", "FLT_D", "FEQ_D">> \in Seq(DoubleOps)
    BY DEF DoubleOps
  <2>4. <<"FMIN_D", "FMAX_D">> \in Seq(DoubleOps) /\ <<"FMV_X_D", "FCLASS_D">> \in Seq(DoubleOps)
    BY DEF DoubleOps
  <2>3. "FSQRT_D" \in DoubleOps /\ "FMV_D_X" \in DoubleOps /\ "kNone" \in DoubleOps
    BY DEF DoubleOps
  <2>5. /\ Entry(<<"FCVT_W_D", "FCVT_WU_D", "FCVT_L_D", "FCVT_LU_D">>, word.rs2) \in DoubleOps
        /\ Entry(<<"FCVT_D_W", "FCVT_D_WU", "FCVT_D_L", "FCVT_D_LU">>, word.rs2) \in DoubleOps
    BY <1>1, <2>0, <2>1
  <2>6. /\ Entry(<<"FSGNJ_D", "FSGNJN_D", "FSGNJX_D">>, word.funct3) \in DoubleOps
        /\ Entry(<<"FMIN_D", "FMAX_D">>, word.funct3) \in DoubleOps
        /\ Entry(<<"FLE_D", "FLT_D", "FEQ_D">>, word.funct3) \in DoubleOps
        /\ Entry(<<"FMV_X_D", "FCLASS_D">>, word.funct3) \in DoubleOps
    BY <1>1, <2>0, <2>2, <2>4
  <2> QED  BY <1>3, <2>3, <2>5, <2>6 DEF SignalFloat
<1> QED  BY <1>2, <1>3

LEMMA FormatRouted ==
  ASSUME NEW word \in Instructions, word.opcode = kFtype
  PROVE  Unit(word) \in FloatUnits /\ Suits(Unit(word), GetAluSignal(word))
<1>1. GetAluSignal(word) = SignalF(word)
  BY SignalOf
<1>2. CASE word.funct7 < 16 \/ word.funct7 \in {18, 19, 23}
  BY <1>1, <1>2, ArithmeticRouted
<1>3. CASE ~(word.funct7 < 16 \/ word.funct7 \in {18, 19, 23})
  <2>1. SignalF(word) = SignalFloat(word)
    BY <1>3 DEF SignalF
  <2>2. word.funct7 \notin {2, 6, 10, 14, 18} /\ word.funct7 \notin {3, 7, 11, 15, 19, 23}
    BY <1>3
  <2>3. CASE word.funct7 = 32
    <3>1. Unit(word) = "double" /\ SignalF(word) = "kNone"
      BY <2>3, ArithmeticUnit, MovesSelected
    <3> QED  BY <1>1, <3>1 DEF FloatUnits, Suits
  <2>4. CASE word.funct7 # 32 /\ word.funct7 % 2 = 0
    <3>1. Unit(word) = "float"
      BY <2>2, <2>4 DEF Unit, isFInstruction, isBFloat16Instruction, isSIMDF32Instruction
    <3>2. SignalF(word) \in SingleOps
      BY <2>1, <2>4, SignalFloatOps
    <3> QED  BY <1>1, <3>1, <3>2 DEF FloatUnits, Suits, SingleOps
  <2>5. CASE word.funct7 % 2 = 1
    <3>1. Unit(word) = "double"
      <4>1. word.funct7 % 2 # 0
        BY <2>5
      <4> QED  BY <2>2, <2>5, <4>1 DEF Unit, isFInstruction, isDInstruction, isBFloat16Instruction,
                 isSIMDF32Instruction, kFtype, kflw, kfsw
    <3>2. SignalF(word) \in DoubleOps
      BY <2>1, <2>5, SignalFloatOps
    <3> QED  BY <1>1, <3>1, <3>2 DEF FloatUnits, Suits, DoubleOps
  <2>6. word.funct7 % 2 = 0 \/ word.funct7 % 2 = 1
    BY DEF Instructions
  <2> QED  BY <2>3, <2>4, <2>5, <2>6
<1> QED  BY <1>2, <1>3

LEMMA OperationsRouted ==
  ASSUME NEW u \in FloatingOps
  PROVE  u[1] \in FloatUnits /\ Suits(u[1], u[2])
<1>1. PICK word \in FormatWords \cup AccessWords : u = <<Unit(word), GetAluSignal(word)>>
  BY DEF FloatingOps
<1>2. CASE word \in FormatWords
  <2>1. word \in Instructions /\ word.opcode = kFtype
    BY <1>2 DEF FormatWords, Instructions, kFtype
  <2> QED  BY <1>1, <2>1, FormatRouted
<1>3. CASE word \in AccessWords
  <2>1. word.opcode \in {kflw, kfsw} /\ word.funct3 \in {2, 3}
    BY <1>3 DEF AccessWords
  <2>2. Unit(word) \in {"float", "double"}
    BY <2>1, AccessUnit
  <2>3. GetAluSignal(word) = "kAdd"
    BY <2>1, SignalOf
  <2> QED  BY <1>1, <2>2, <2>3 DEF FloatUnits, Suits
<1> QED  BY <1>1, <1>2, <1>3

LEMMA OneOperandOps == OneOperand \subseteq Unary \cup Unknown
BY DEF OneOperand, Unary, Unknown, FromWord, ToWord, Moves

LEMMA SourceIntegerUnit ==
  ASSUME Built, Systematic(Registers)
  PROVE  IntegerUnitFor(Registers)
<1> SUFFICES ASSUME NEW a \in Registers, NEW b \in Registers
    PROVE  /\ \A op \in IntegerOps : Execute(op, a, b) \subseteq Registers \cup {Trap}
           /\ \A op \in IntegerOps \ Faulting : Trap \notin Execute(op, a, b)
           /\ Execute("kAddrAdd", a, b) = {(a + b) % Full}
           /\ \A n \in Shifts : Execute("kSra", a, (1024 + n) % Full) = Execute("kSra", a, n % Full)
  BY DEF IntegerUnitFor
<1>1. \A op, x, y : Execute(op, x, y) = execute(op, x, y)
  BY DEF Built
<1>2. ASSUME NEW op
      PROVE  /\ execute(op, a, b) \subseteq Registers \cup {Trap}
             /\ op \notin Faulting => Trap \notin execute(op, a, b)
             /\ op = "kAddrAdd" => execute(op, a, b) = {(a + b) % Full}
  BY UnitReturnsWords DEF Faulting, CanFault
<1>3. ASSUME NEW n \in Shifts
      PROVE  execute("kSra", a, (1024 + n) % Full) = execute("kSra", a, n % Full)
  <2>1. Shift((1024 + n) % Full) = Shift(n % Full)
    BY ShiftOfImmediate DEF Shifts
  <2>2. ASSUME NEW c
        PROVE  execute("kSra", a, c) = {(S64(a) \div Power(Shift(c))) % Full}
    BY DEF execute, Wide
  <2> DEFINE c1 == (1024 + n) % Full
             c2 == n % Full
  <2>3. Shift(c1) = Shift(c2)
    BY <2>1
  <2> HIDE DEF c1, c2
  <2>4. execute("kSra", a, c1) = execute("kSra", a, c2)
    BY <2>2, <2>3
  <2> QED  BY <2>4 DEF c1, c2
<1> QED  BY <1>1, <1>2, <1>3

LEMMA SourceFloatUnits ==
  ASSUME Built, HostFor(FloatingPointOps, Registers), NEW modes
  PROVE  FloatUnitsFor(Registers, modes)
<1> SUFFICES ASSUME NEW u \in FloatingOps, NEW a \in Registers, NEW b \in Registers, NEW c \in Registers,
                    NEW rm \in modes, NEW h \in 0 .. 3
             PROVE  LET f == FpExecute(u[1], u[2], a, b, c, rm, h)
                    IN  /\ f.value \in Registers /\ f.flags \in Registers /\ f.host \in 0 .. 3
                        /\ u[2] = "kAdd" => f.value = (a + b) % Full
                        /\ u[2] # "VDOTP_BF16" => f = FpExecute(u[1], u[2], a, b, 0, rm, h)
                        /\ u[2] \in OneOperand => f = FpExecute(u[1], u[2], a, 0, c, rm, h)
  BY DEF FloatUnitsFor
<1> DEFINE unit == u[1]
           op   == u[2]
<1>1. \A x, y, z : FpExecute(unit, op, x, y, z, rm, h) = FloatOutcome(unit, op, x, y, z, rm, h)
  BY DEF Built
<1>2. unit \in FloatUnits /\ Suits(unit, op)
  BY OperationsRouted
<1>3. HostFor({op}, Registers)
  <2>1. op \in FloatingPointOps
    BY DEF FloatingPointOps
  <2> QED  BY <2>1 DEF HostFor
<1>4. op \in OneOperand => op \in Unary \cup Unknown
  BY OneOperandOps
<1> HIDE DEF unit, op
<1>5. LET f == FloatOutcome(unit, op, a, b, c, rm, h)
      IN  /\ f.value \in Registers /\ f.flags \in Registers /\ f.host \in 0 .. 3
          /\ op = "kAdd" => f.value = (a + b) % Full
          /\ op # "VDOTP_BF16" => f = FloatOutcome(unit, op, a, b, 0, rm, h)
          /\ op \in Unary \cup Unknown => f = FloatOutcome(unit, op, a, 0, c, rm, h)
  BY <1>2, <1>3, FloatUnitReturnsWords
<1> QED  BY <1>1, <1>4, <1>5 DEF unit, op

LEMMA SourceCodes ==
  ASSUME Built, CodeFor(Registers)
  PROVE  CodesFor(Registers)
<1> SUFFICES ASSUME NEW a \in Registers, NEW b \in Registers
             PROVE  {Checked(a), SetBits(a, b), ClearBits(a, b), Protected(a % Data, 0, SIG_LOW),
                     Protected(a % Data, 1, SIG_POINTER)} \subseteq Registers
  BY DEF CodesFor
<1>1. Checked(a) \in Registers
  BY DEF Built, CodeFor, Systematic
<1>2. SetBits(a, b) \in Registers
  BY WordsOfBits DEF Built
<1>3. ClearBits(a, b) \in Registers
  <2>1. Full - 1 - b \in Registers
    BY Sizes DEF Registers
  <2> QED  BY <2>1, WordsOfBits DEF Built
<1>4. {Protected(a % Data, 0, SIG_LOW), Protected(a % Data, 1, SIG_POINTER)} \subseteq Registers
  BY DEF CodeFor
<1> QED  BY <1>1, <1>2, <1>3, <1>4

(* The units of src/vm/alu.cpp do what the theorems about the stages ask   *)
(* of units, with any code that is systematic and on any host that yields  *)
(* words.                                                                  *)
THEOREM SourceUnits ==
  ASSUME Built, HostFor(FloatingPointOps, Registers), CodeFor(Registers), NEW modes
  PROVE  UnitsFor(Registers, modes)
BY SourceIntegerUnit, SourceFloatUnits, SourceCodes DEF UnitsFor, CodeFor

(* The machine that is built from the sources keeps its shape.             *)
THEOREM SourceTypes ==
  ASSUME Built, HostFor(FloatingPointOps, Registers), CodeFor(Registers)
  PROVE  Spec => []TypeOK
BY SourceUnits, TypesCorrect

=============================================================================
