--------------------------- MODULE JitFlagsProofs ---------------------------
(***************************************************************************)
(* Lazy flags are never noticed, for every program and page size, if the   *)
(* program has no IMUL with one operand.  The lemmas take from the tables  *)
(* only TableSound, that the row of every instruction tells the truth      *)
(* about its bytecode.  The first half shows it: one lemma per             *)
(* instruction, all alike, on its words, its row and the conditions of     *)
(* Sound and RestartsCleanly.                                              *)
(*                                                                         *)
(* The invariant says of every decoded instruction that the flags it need  *)
(* not compute are dead after it, and of the execution that every flag     *)
(* that is not up to date is dead from the instruction under way on.  Dead *)
(* speaks of the program, not of blocks: it survives pages being forgotten *)
(* and blocks being decoded again from another start.                      *)
(***************************************************************************)
EXTENDS JitFlags, TLAPS

\* The constructors of words make words.
LEMMA WordsTyped ==
  /\ Access \in Word /\ IfEcxIs0 \in Word
  /\ \A G \in SUBSET SUBSET Flags : Set(G) \in Word /\ Counted(G) \in Word
  /\ \A F \in SUBSET Flags : Use(F) \in Word /\ Always(F) \in Word /\ Again(F) \in Word
<1>1. Access \in Word /\ IfEcxIs0 \in Word BY DEF Word, Access, IfEcxIs0
<1>2. ASSUME NEW G \in SUBSET SUBSET Flags PROVE Set(G) \in Word /\ Counted(G) \in Word
  BY DEF Word, Set, Counted
<1>3. ASSUME NEW F \in SUBSET Flags
      PROVE  Use(F) \in Word /\ Always(F) \in Word /\ Again(F) \in Word
  <2>1. {F} \in SUBSET SUBSET Flags OBVIOUS
  <2> QED BY <2>1 DEF Word, Use, Always, Again
<1> QED BY <1>1, <1>2, <1>3

\* The groups of one flag each hold those flags.
LEMMA EachFlag ==
  ASSUME NEW F \in SUBSET Flags
  PROVE  Each(F) \in SUBSET SUBSET Flags /\ UNION Each(F) = F
BY DEF Each

LEMMA AndTable == Sound("AND") /\ RestartsCleanly("AND")
<1> DEFINE t == <<Access, Access,
                  Set({{"OF", "CF"}} \cup Each({"SF", "ZF", "PF"}))>>
<1>1. Template["AND"] = t BY DEF Template, compile_lop
<1>2. /\ DOMAIN t = {1, 2, 3} /\ Len(t) = 3 /\ t[1].op = "access"
      /\ t[2].op = "access" /\ t[3].op = "set"
      /\ t[3].groups = {{"OF", "CF"}} \cup Each({"SF", "ZF", "PF"})
  BY DEF Access, Set
<1>3. UNION t[3].groups = {"OF", "CF", "SF", "ZF", "PF"}
  <2>1. UNION Each({"SF", "ZF", "PF"}) = {"SF", "ZF", "PF"}
    BY EachFlag DEF Flags
  <2>2. \A G : UNION ({{"OF", "CF"}} \cup G) = {"OF", "CF"} \cup (UNION G)
    OBVIOUS
  <2>3. UNION t[3].groups = {"OF", "CF"} \cup {"SF", "ZF", "PF"}
    BY <1>2, <2>1, <2>2
  <2> QED BY <2>3
<1>4. t \in Seq(Word) BY WordsTyped, EachFlag DEF Flags
<1> HIDE DEF t
<1>5. RestartsCleanly("AND")
  BY <1>1, <1>2, <1>3 DEF RestartsCleanly, Writes
<1> QED BY <1>1, <1>2, <1>3, <1>4, <1>5
  DEF Sound, ReadsAreNeeded, KilledIsWritten, LoopsAreRepeated, Needs, Kills,
      req_flags, chg_flags, branch, repe, INSTS_METADATA, Row, Flags

LEMMA AddTable == Sound("ADD") /\ RestartsCleanly("ADD")
<1> DEFINE t == <<Access, Access, Set(Each(Flags))>>
<1>1. Template["ADD"] = t BY DEF Template, compile_add_like
<1>2. /\ DOMAIN t = {1, 2, 3} /\ Len(t) = 3 /\ t[1].op = "access"
      /\ t[2].op = "access" /\ t[3].op = "set" /\ t[3].groups = Each(Flags)
  BY DEF Access, Set
<1>3. UNION Each(Flags) = Flags BY EachFlag DEF Flags
<1>4. t \in Seq(Word) BY WordsTyped, EachFlag DEF Flags
<1> HIDE DEF t
<1>5. RestartsCleanly("ADD")
  BY <1>1, <1>2, <1>3 DEF RestartsCleanly, Writes
<1> QED BY <1>1, <1>2, <1>3, <1>4, <1>5
  DEF Sound, ReadsAreNeeded, KilledIsWritten, LoopsAreRepeated, Needs, Kills,
      req_flags, chg_flags, branch, repe, INSTS_METADATA, Row, Flags

LEMMA AdcTable == Sound("ADC") /\ RestartsCleanly("ADC")
<1> DEFINE t == <<Access, Use({"CF"}), Access, Set(Each(Flags))>>
<1>1. Template["ADC"] = t BY DEF Template, compile_add_like
<1>2. /\ DOMAIN t = {1, 2, 3, 4} /\ Len(t) = 4 /\ t[1].op = "access"
      /\ t[2].op = "use" /\ t[3].op = "access" /\ t[4].op = "set"
      /\ t[2].groups = {{"CF"}} /\ t[4].groups = Each(Flags)
  BY DEF Access, Use, Set
<1>3. UNION {{"CF"}} = {"CF"} /\ UNION Each(Flags) = Flags BY EachFlag DEF Flags
<1>4. t \in Seq(Word) BY WordsTyped, EachFlag DEF Flags
<1> HIDE DEF t
<1>5. RestartsCleanly("ADC")
  BY <1>1, <1>2, <1>3 DEF RestartsCleanly, Writes
<1> QED BY <1>1, <1>2, <1>3, <1>4, <1>5
  DEF Sound, ReadsAreNeeded, KilledIsWritten, LoopsAreRepeated, Needs, Kills,
      req_flags, chg_flags, branch, repe, INSTS_METADATA, Row, Flags

LEMMA IncTable == Sound("INC") /\ RestartsCleanly("INC")
<1> DEFINE t == <<Access, Access, Set(Each(Flags \ {"CF"}))>>
<1>1. Template["INC"] = t BY DEF Template, compile_add_like
<1>2. /\ DOMAIN t = {1, 2, 3} /\ Len(t) = 3 /\ t[1].op = "access"
      /\ t[2].op = "access" /\ t[3].op = "set"
      /\ t[3].groups = Each(Flags \ {"CF"})
  BY DEF Access, Set
<1>3. UNION Each(Flags \ {"CF"}) = Flags \ {"CF"} BY EachFlag DEF Flags
<1>4. t \in Seq(Word) BY WordsTyped, EachFlag DEF Flags
<1> HIDE DEF t
<1>5. RestartsCleanly("INC")
  BY <1>1, <1>2, <1>3 DEF RestartsCleanly, Writes
<1> QED BY <1>1, <1>2, <1>3, <1>4, <1>5
  DEF Sound, ReadsAreNeeded, KilledIsWritten, LoopsAreRepeated, Needs, Kills,
      req_flags, chg_flags, branch, repe, INSTS_METADATA, Row, Flags

LEMMA SubTable == Sound("SUB") /\ RestartsCleanly("SUB")
<1> DEFINE t == <<Access, Access, Set(Each(Flags))>>
<1>1. Template["SUB"] = t BY DEF Template, compile_sub_like
<1>2. /\ DOMAIN t = {1, 2, 3} /\ Len(t) = 3 /\ t[1].op = "access"
      /\ t[2].op = "access" /\ t[3].op = "set" /\ t[3].groups = Each(Flags)
  BY DEF Access, Set
<1>3. UNION Each(Flags) = Flags BY EachFlag DEF Flags
<1>4. t \in Seq(Word) BY WordsTyped, EachFlag DEF Flags
<1> HIDE DEF t
<1>5. RestartsCleanly("SUB")
  BY <1>1, <1>2, <1>3 DEF RestartsCleanly, Writes
<1> QED BY <1>1, <1>2, <1>3, <1>4, <1>5
  DEF Sound, ReadsAreNeeded, KilledIsWritten, LoopsAreRepeated, Needs, Kills,
      req_flags, chg_flags, branch, repe, INSTS_METADATA, Row, Flags

LEMMA SbbTable == Sound("SBB") /\ RestartsCleanly("SBB")
<1> DEFINE t == <<Access, Use({"CF"}), Access, Set(Each(Flags))>>
<1>1. Template["SBB"] = t BY DEF Template, compile_sub_like
<1>2. /\ DOMAIN t = {1, 2, 3, 4} /\ Len(t) = 4 /\ t[1].op = "access"
      /\ t[2].op = "use" /\ t[3].op = "access" /\ t[4].op = "set"
      /\ t[2].groups = {{"CF"}} /\ t[4].groups = Each(Flags)
  BY DEF Access, Use, Set
<1>3. UNION {{"CF"}} = {"CF"} /\ UNION Each(Flags) = Flags BY EachFlag DEF Flags
<1>4. t \in Seq(Word) BY WordsTyped, EachFlag DEF Flags
<1> HIDE DEF t
<1>5. RestartsCleanly("SBB")
  BY <1>1, <1>2, <1>3 DEF RestartsCleanly, Writes
<1> QED BY <1>1, <1>2, <1>3, <1>4, <1>5
  DEF Sound, ReadsAreNeeded, KilledIsWritten, LoopsAreRepeated, Needs, Kills,
      req_flags, chg_flags, branch, repe, INSTS_METADATA, Row, Flags

LEMMA DecTable == Sound("DEC") /\ RestartsCleanly("DEC")
<1> DEFINE t == <<Access, Access, Set(Each(Flags \ {"CF"}))>>
<1>1. Template["DEC"] = t BY DEF Template, compile_sub_like
<1>2. /\ DOMAIN t = {1, 2, 3} /\ Len(t) = 3 /\ t[1].op = "access"
      /\ t[2].op = "access" /\ t[3].op = "set"
      /\ t[3].groups = Each(Flags \ {"CF"})
  BY DEF Access, Set
<1>3. UNION Each(Flags \ {"CF"}) = Flags \ {"CF"} BY EachFlag DEF Flags
<1>4. t \in Seq(Word) BY WordsTyped, EachFlag DEF Flags
<1> HIDE DEF t
<1>5. RestartsCleanly("DEC")
  BY <1>1, <1>2, <1>3 DEF RestartsCleanly, Writes
<1> QED BY <1>1, <1>2, <1>3, <1>4, <1>5
  DEF Sound, ReadsAreNeeded, KilledIsWritten, LoopsAreRepeated, Needs, Kills,
      req_flags, chg_flags, branch, repe, INSTS_METADATA, Row, Flags

LEMMA NegTable == Sound("NEG") /\ RestartsCleanly("NEG")
<1> DEFINE t == <<Access, Access, Set(Each(Flags))>>
<1>1. Template["NEG"] = t BY DEF Template, compile_sub_like
<1>2. /\ DOMAIN t = {1, 2, 3} /\ Len(t) = 3 /\ t[1].op = "access"
      /\ t[2].op = "access" /\ t[3].op = "set" /\ t[3].groups = Each(Flags)
  BY DEF Access, Set
<1>3. UNION Each(Flags) = Flags BY EachFlag DEF Flags
<1>4. t \in Seq(Word) BY WordsTyped, EachFlag DEF Flags
<1> HIDE DEF t
<1>5. RestartsCleanly("NEG")
  BY <1>1, <1>2, <1>3 DEF RestartsCleanly, Writes
<1> QED BY <1>1, <1>2, <1>3, <1>4, <1>5
  DEF Sound, ReadsAreNeeded, KilledIsWritten, LoopsAreRepeated, Needs, Kills,
      req_flags, chg_flags, branch, repe, INSTS_METADATA, Row, Flags

LEMMA MulTable == Sound("MUL") /\ RestartsCleanly("MUL")
<1> DEFINE t == <<Access, Access, Set({{"CF", "OF"}} \cup {})>>
<1>1. Template["MUL"] = t BY DEF Template, compile_mul_like
<1>2. /\ DOMAIN t = {1, 2, 3} /\ Len(t) = 3 /\ t[1].op = "access"
      /\ t[2].op = "access" /\ t[3].op = "set"
      /\ t[3].groups = {{"CF", "OF"}} \cup {}
  BY DEF Access, Set
<1>3. UNION ({{"CF", "OF"}} \cup {}) = {"CF", "OF"} OBVIOUS
<1>4. t \in Seq(Word) BY WordsTyped, EachFlag DEF Flags
<1> HIDE DEF t
<1>5. RestartsCleanly("MUL")
  BY <1>1, <1>2, <1>3 DEF RestartsCleanly, Writes
<1> QED BY <1>1, <1>2, <1>3, <1>4, <1>5
  DEF Sound, ReadsAreNeeded, KilledIsWritten, LoopsAreRepeated, Needs, Kills,
      req_flags, chg_flags, branch, repe, INSTS_METADATA, Row, Flags

LEMMA ImulTable == Sound("IMUL") /\ RestartsCleanly("IMUL")
<1> DEFINE t == <<Access, Access, Set({{"CF", "OF"}} \cup {{"SF"}})>>
<1>1. Template["IMUL"] = t
  <2>1. Template["IMUL"] = compile_mul_like(TRUE, 2) BY DEF Template
  <2>2. (IF TRUE /\ 2 > 1 THEN {{"SF"}} ELSE {}) = {{"SF"}} OBVIOUS
  <2> QED BY <2>1, <2>2 DEF compile_mul_like
<1>2. /\ DOMAIN t = {1, 2, 3} /\ Len(t) = 3 /\ t[1].op = "access"
      /\ t[2].op = "access" /\ t[3].op = "set"
      /\ t[3].groups = {{"CF", "OF"}} \cup {{"SF"}}
  BY DEF Access, Set
<1>3. UNION ({{"CF", "OF"}} \cup {{"SF"}}) = {"CF", "OF", "SF"} OBVIOUS
<1>4. t \in Seq(Word) BY WordsTyped, EachFlag DEF Flags
<1> HIDE DEF t
<1>5. RestartsCleanly("IMUL")
  BY <1>1, <1>2, <1>3 DEF RestartsCleanly, Writes
<1> QED BY <1>1, <1>2, <1>3, <1>4, <1>5
  DEF Sound, ReadsAreNeeded, KilledIsWritten, LoopsAreRepeated, Needs, Kills,
      req_flags, chg_flags, branch, repe, INSTS_METADATA, Row, Flags

LEMMA BtTable == Sound("BT") /\ RestartsCleanly("BT")
<1> DEFINE t == <<Access, Always({"CF"}), Access>>
<1>1. Template["BT"] = t BY DEF Template, compile_bt_like
<1>2. /\ DOMAIN t = {1, 2, 3} /\ Len(t) = 3 /\ t[1].op = "access"
      /\ t[2].op = "always" /\ t[3].op = "access" /\ t[2].groups = {{"CF"}}
  BY DEF Access, Always
<1>3. UNION {{"CF"}} = {"CF"} OBVIOUS
<1>4. t \in Seq(Word) BY WordsTyped, EachFlag DEF Flags
<1> HIDE DEF t
<1>5. RestartsCleanly("BT")
  BY <1>1, <1>2, <1>3 DEF RestartsCleanly, Writes
<1> QED BY <1>1, <1>2, <1>3, <1>4, <1>5
  DEF Sound, ReadsAreNeeded, KilledIsWritten, LoopsAreRepeated, Needs, Kills,
      req_flags, chg_flags, branch, repe, INSTS_METADATA, Row, Flags

LEMMA ShlTable == Sound("SHL") /\ RestartsCleanly("SHL")
<1> DEFINE t == <<Access, Counted({{"OF"}, {"CF"}}), Access,
                  Counted(Each({"SF", "ZF", "PF"}))>>
<1>1. Template["SHL"] = t BY DEF Template, compile_shl
<1>2. /\ DOMAIN t = {1, 2, 3, 4} /\ Len(t) = 4 /\ t[1].op = "access"
      /\ t[2].op = "counted" /\ t[3].op = "access" /\ t[4].op = "counted"
      /\ t[2].groups = {{"OF"}, {"CF"}}
      /\ t[4].groups = Each({"SF", "ZF", "PF"})
  BY DEF Access, Counted
<1>3. /\ UNION {{"OF"}, {"CF"}} = {"OF", "CF"}
      /\ UNION Each({"SF", "ZF", "PF"}) = {"SF", "ZF", "PF"} BY EachFlag DEF Flags
<1>4. t \in Seq(Word) BY WordsTyped, EachFlag DEF Flags
<1> HIDE DEF t
<1>5. RestartsCleanly("SHL")
  BY <1>1, <1>2, <1>3 DEF RestartsCleanly, Writes
<1> QED BY <1>1, <1>2, <1>3, <1>4, <1>5
  DEF Sound, ReadsAreNeeded, KilledIsWritten, LoopsAreRepeated, Needs, Kills,
      req_flags, chg_flags, branch, repe, INSTS_METADATA, Row, Flags

LEMMA ShldTable == Sound("SHLD") /\ RestartsCleanly("SHLD")
<1> DEFINE t == <<Access, Counted({{"CF"}}), Access,
                  Counted(Each({"OF", "SF", "ZF", "PF"}))>>
<1>1. Template["SHLD"] = t BY DEF Template, compile_shld
<1>2. /\ DOMAIN t = {1, 2, 3, 4} /\ Len(t) = 4 /\ t[1].op = "access"
      /\ t[2].op = "counted" /\ t[3].op = "access" /\ t[4].op = "counted"
      /\ t[2].groups = {{"CF"}}
      /\ t[4].groups = Each({"OF", "SF", "ZF", "PF"})
  BY DEF Access, Counted
<1>3. /\ UNION {{"CF"}} = {"CF"}
      /\ UNION Each({"OF", "SF", "ZF", "PF"}) = {"OF", "SF", "ZF", "PF"} BY EachFlag DEF Flags
<1>4. t \in Seq(Word) BY WordsTyped, EachFlag DEF Flags
<1> HIDE DEF t
<1>5. RestartsCleanly("SHLD")
  BY <1>1, <1>2, <1>3 DEF RestartsCleanly, Writes
<1> QED BY <1>1, <1>2, <1>3, <1>4, <1>5
  DEF Sound, ReadsAreNeeded, KilledIsWritten, LoopsAreRepeated, Needs, Kills,
      req_flags, chg_flags, branch, repe, INSTS_METADATA, Row, Flags

LEMMA RclTable == Sound("RCL")
<1> DEFINE t == <<Access, Counted({{"OF"}}), Use({"CF"}), Counted({{"CF"}}),
                  Access>>
<1>1. Template["RCL"] = t BY DEF Template, compile_rcl
<1>2. /\ DOMAIN t = {1, 2, 3, 4, 5} /\ Len(t) = 5 /\ t[1].op = "access"
      /\ t[2].op = "counted" /\ t[3].op = "use" /\ t[4].op = "counted"
      /\ t[5].op = "access" /\ t[2].groups = {{"OF"}}
      /\ t[3].groups = {{"CF"}} /\ t[4].groups = {{"CF"}}
  BY DEF Access, Counted, Use
<1>3. UNION {{"OF"}} = {"OF"} /\ UNION {{"CF"}} = {"CF"} OBVIOUS
<1>4. t \in Seq(Word) BY WordsTyped, EachFlag DEF Flags
<1> HIDE DEF t
<1> QED BY <1>1, <1>2, <1>3, <1>4
  DEF Sound, ReadsAreNeeded, KilledIsWritten, LoopsAreRepeated, Needs, Kills,
      req_flags, chg_flags, branch, repe, INSTS_METADATA, Row, Flags

LEMMA RcrTable == Sound("RCR")
<1> DEFINE t == <<Access, Use({"CF"}), Counted({{"OF"}}), Counted({{"CF"}}),
                  Access>>
<1>1. Template["RCR"] = t BY DEF Template, compile_rcr
<1>2. /\ DOMAIN t = {1, 2, 3, 4, 5} /\ Len(t) = 5 /\ t[1].op = "access"
      /\ t[2].op = "use" /\ t[3].op = "counted" /\ t[4].op = "counted"
      /\ t[5].op = "access" /\ t[2].groups = {{"CF"}}
      /\ t[3].groups = {{"OF"}} /\ t[4].groups = {{"CF"}}
  BY DEF Access, Use, Counted
<1>3. UNION {{"CF"}} = {"CF"} /\ UNION {{"OF"}} = {"OF"} OBVIOUS
<1>4. t \in Seq(Word) BY WordsTyped, EachFlag DEF Flags
<1> HIDE DEF t
<1> QED BY <1>1, <1>2, <1>3, <1>4
  DEF Sound, ReadsAreNeeded, KilledIsWritten, LoopsAreRepeated, Needs, Kills,
      req_flags, chg_flags, branch, repe, INSTS_METADATA, Row, Flags

LEMMA RolTable == Sound("ROL") /\ RestartsCleanly("ROL")
<1> DEFINE t == <<Access, Counted({{"OF"}}), Set({{"CF"}}), Access>>
<1>1. Template["ROL"] = t BY DEF Template, compile_rol
<1>2. /\ DOMAIN t = {1, 2, 3, 4} /\ Len(t) = 4 /\ t[1].op = "access"
      /\ t[2].op = "counted" /\ t[3].op = "set" /\ t[4].op = "access"
      /\ t[2].groups = {{"OF"}} /\ t[3].groups = {{"CF"}}
  BY DEF Access, Counted, Set
<1>3. UNION {{"OF"}} = {"OF"} /\ UNION {{"CF"}} = {"CF"} OBVIOUS
<1>4. t \in Seq(Word) BY WordsTyped, EachFlag DEF Flags
<1> HIDE DEF t
<1>5. RestartsCleanly("ROL")
  BY <1>1, <1>2, <1>3 DEF RestartsCleanly, Writes
<1> QED BY <1>1, <1>2, <1>3, <1>4, <1>5
  DEF Sound, ReadsAreNeeded, KilledIsWritten, LoopsAreRepeated, Needs, Kills,
      req_flags, chg_flags, branch, repe, INSTS_METADATA, Row, Flags

LEMMA AamTable == Sound("AAM") /\ RestartsCleanly("AAM")
<1> DEFINE t == <<Access, Set(Each({"SF", "ZF", "PF"}))>>
<1>1. Template["AAM"] = t BY DEF Template, compile_aam_like
<1>2. /\ DOMAIN t = {1, 2} /\ Len(t) = 2 /\ t[1].op = "access"
      /\ t[2].op = "set" /\ t[2].groups = Each({"SF", "ZF", "PF"})
  BY DEF Access, Set
<1>3. UNION Each({"SF", "ZF", "PF"}) = {"SF", "ZF", "PF"} BY EachFlag DEF Flags
<1>4. t \in Seq(Word) BY WordsTyped, EachFlag DEF Flags
<1> HIDE DEF t
<1>5. RestartsCleanly("AAM")
  BY <1>1, <1>2, <1>3 DEF RestartsCleanly, Writes
<1> QED BY <1>1, <1>2, <1>3, <1>4, <1>5
  DEF Sound, ReadsAreNeeded, KilledIsWritten, LoopsAreRepeated, Needs, Kills,
      req_flags, chg_flags, branch, repe, INSTS_METADATA, Row, Flags

LEMMA DaaTable == Sound("DAA") /\ RestartsCleanly("DAA")
<1> DEFINE t == <<Use({"CF", "AF"}), Always({"CF", "AF"}),
                  Set(Each({"SF", "ZF", "PF"}))>>
<1>1. Template["DAA"] = t BY DEF Template, compile_daa
<1>2. /\ DOMAIN t = {1, 2, 3} /\ Len(t) = 3 /\ t[1].op = "use"
      /\ t[2].op = "always" /\ t[3].op = "set"
      /\ t[1].groups = {{"CF", "AF"}} /\ t[2].groups = {{"CF", "AF"}}
      /\ t[3].groups = Each({"SF", "ZF", "PF"})
  BY DEF Use, Always, Set
<1>3. /\ UNION {{"CF", "AF"}} = {"CF", "AF"}
      /\ UNION Each({"SF", "ZF", "PF"}) = {"SF", "ZF", "PF"} BY EachFlag DEF Flags
<1>4. t \in Seq(Word) BY WordsTyped, EachFlag DEF Flags
<1> HIDE DEF t
<1>5. RestartsCleanly("DAA")
  BY <1>1, <1>2, <1>3 DEF RestartsCleanly, Writes
<1> QED BY <1>1, <1>2, <1>3, <1>4, <1>5
  DEF Sound, ReadsAreNeeded, KilledIsWritten, LoopsAreRepeated, Needs, Kills,
      req_flags, chg_flags, branch, repe, INSTS_METADATA, Row, Flags

LEMMA SetaTable == Sound("SETA") /\ RestartsCleanly("SETA")
<1> DEFINE t == <<Use({"CF", "ZF"}), Access>>
<1>1. Template["SETA"] = t BY DEF Template, compile_setcc
<1>2. /\ DOMAIN t = {1, 2} /\ Len(t) = 2 /\ t[1].op = "use"
      /\ t[2].op = "access" /\ t[1].groups = {{"CF", "ZF"}}
  BY DEF Use, Access
<1>3. UNION {{"CF", "ZF"}} = {"CF", "ZF"} OBVIOUS
<1>4. t \in Seq(Word) BY WordsTyped, EachFlag DEF Flags
<1> HIDE DEF t
<1>5. RestartsCleanly("SETA")
  BY <1>1, <1>2, <1>3 DEF RestartsCleanly, Writes
<1> QED BY <1>1, <1>2, <1>3, <1>4, <1>5
  DEF Sound, ReadsAreNeeded, KilledIsWritten, LoopsAreRepeated, Needs, Kills,
      req_flags, chg_flags, branch, repe, INSTS_METADATA, Row, Flags

LEMMA SetgTable == Sound("SETG") /\ RestartsCleanly("SETG")
<1> DEFINE t == <<Use({"SF", "OF", "ZF"}), Access>>
<1>1. Template["SETG"] = t BY DEF Template, compile_setcc
<1>2. /\ DOMAIN t = {1, 2} /\ Len(t) = 2 /\ t[1].op = "use"
      /\ t[2].op = "access" /\ t[1].groups = {{"SF", "OF", "ZF"}}
  BY DEF Use, Access
<1>3. UNION {{"SF", "OF", "ZF"}} = {"SF", "OF", "ZF"} OBVIOUS
<1>4. t \in Seq(Word) BY WordsTyped, EachFlag DEF Flags
<1> HIDE DEF t
<1>5. RestartsCleanly("SETG")
  BY <1>1, <1>2, <1>3 DEF RestartsCleanly, Writes
<1> QED BY <1>1, <1>2, <1>3, <1>4, <1>5
  DEF Sound, ReadsAreNeeded, KilledIsWritten, LoopsAreRepeated, Needs, Kills,
      req_flags, chg_flags, branch, repe, INSTS_METADATA, Row, Flags

LEMMA JsTable == Sound("JS") /\ RestartsCleanly("JS")
<1> DEFINE t == <<Use({"SF"}), Access>>
<1>1. Template["JS"] = t BY DEF Template, compile_jcc
<1>2. /\ DOMAIN t = {1, 2} /\ Len(t) = 2 /\ t[1].op = "use"
      /\ t[2].op = "access" /\ t[1].groups = {{"SF"}}
  BY DEF Use, Access
<1>3. UNION {{"SF"}} = {"SF"} OBVIOUS
<1>4. t \in Seq(Word) BY WordsTyped, EachFlag DEF Flags
<1> HIDE DEF t
<1>5. RestartsCleanly("JS")
  BY <1>1, <1>2, <1>3 DEF RestartsCleanly, Writes
<1> QED BY <1>1, <1>2, <1>3, <1>4, <1>5
  DEF Sound, ReadsAreNeeded, KilledIsWritten, LoopsAreRepeated, Needs, Kills,
      req_flags, chg_flags, branch, repe, INSTS_METADATA, Branch, Flags

LEMMA JpTable == Sound("JP") /\ RestartsCleanly("JP")
<1> DEFINE t == <<Use({"PF"}), Access>>
<1>1. Template["JP"] = t BY DEF Template, compile_jcc
<1>2. /\ DOMAIN t = {1, 2} /\ Len(t) = 2 /\ t[1].op = "use"
      /\ t[2].op = "access" /\ t[1].groups = {{"PF"}}
  BY DEF Use, Access
<1>3. UNION {{"PF"}} = {"PF"} OBVIOUS
<1>4. t \in Seq(Word) BY WordsTyped, EachFlag DEF Flags
<1> HIDE DEF t
<1>5. RestartsCleanly("JP")
  BY <1>1, <1>2, <1>3 DEF RestartsCleanly, Writes
<1> QED BY <1>1, <1>2, <1>3, <1>4, <1>5
  DEF Sound, ReadsAreNeeded, KilledIsWritten, LoopsAreRepeated, Needs, Kills,
      req_flags, chg_flags, branch, repe, INSTS_METADATA, Branch, Flags

LEMMA JeTable == Sound("JE") /\ RestartsCleanly("JE")
<1> DEFINE t == <<Use({"ZF"}), Access>>
<1>1. Template["JE"] = t BY DEF Template, compile_jcc
<1>2. /\ DOMAIN t = {1, 2} /\ Len(t) = 2 /\ t[1].op = "use"
      /\ t[2].op = "access" /\ t[1].groups = {{"ZF"}}
  BY DEF Use, Access
<1>3. UNION {{"ZF"}} = {"ZF"} OBVIOUS
<1>4. t \in Seq(Word) BY WordsTyped, EachFlag DEF Flags
<1> HIDE DEF t
<1>5. RestartsCleanly("JE")
  BY <1>1, <1>2, <1>3 DEF RestartsCleanly, Writes
<1> QED BY <1>1, <1>2, <1>3, <1>4, <1>5
  DEF Sound, ReadsAreNeeded, KilledIsWritten, LoopsAreRepeated, Needs, Kills,
      req_flags, chg_flags, branch, repe, INSTS_METADATA, Branch, Flags

LEMMA IntoTable == Sound("INTO") /\ RestartsCleanly("INTO")
<1> DEFINE t == <<Use({"OF"}), Access>>
<1>1. Template["INTO"] = t BY DEF Template, compile_jcc
<1>2. /\ DOMAIN t = {1, 2} /\ Len(t) = 2 /\ t[1].op = "use"
      /\ t[2].op = "access" /\ t[1].groups = {{"OF"}}
  BY DEF Use, Access
<1>3. UNION {{"OF"}} = {"OF"} OBVIOUS
<1>4. t \in Seq(Word) BY WordsTyped, EachFlag DEF Flags
<1> HIDE DEF t
<1>5. RestartsCleanly("INTO")
  BY <1>1, <1>2, <1>3 DEF RestartsCleanly, Writes
<1> QED BY <1>1, <1>2, <1>3, <1>4, <1>5
  DEF Sound, ReadsAreNeeded, KilledIsWritten, LoopsAreRepeated, Needs, Kills,
      req_flags, chg_flags, branch, repe, INSTS_METADATA, Branch, Flags

LEMMA RetTable == Sound("RET") /\ RestartsCleanly("RET")
<1> DEFINE t == <<Use({}), Access>>
<1>1. Template["RET"] = t BY DEF Template, compile_jcc
<1>2. /\ DOMAIN t = {1, 2} /\ Len(t) = 2 /\ t[1].op = "use"
      /\ t[2].op = "access" /\ t[1].groups = {{}}
  BY DEF Use, Access
<1>3. UNION {{}} = {} OBVIOUS
<1>4. t \in Seq(Word) BY WordsTyped, EachFlag DEF Flags
<1> HIDE DEF t
<1>5. RestartsCleanly("RET")
  BY <1>1, <1>2, <1>3 DEF RestartsCleanly, Writes
<1> QED BY <1>1, <1>2, <1>3, <1>4, <1>5
  DEF Sound, ReadsAreNeeded, KilledIsWritten, LoopsAreRepeated, Needs, Kills,
      req_flags, chg_flags, branch, repe, INSTS_METADATA, Branch, Flags

LEMMA BsfTable == Sound("BSF") /\ RestartsCleanly("BSF")
<1> DEFINE t == <<Access, Always({"ZF"}), Access>>
<1>1. Template["BSF"] = t BY DEF Template, compile_bsf
<1>2. /\ DOMAIN t = {1, 2, 3} /\ Len(t) = 3 /\ t[1].op = "access"
      /\ t[2].op = "always" /\ t[3].op = "access" /\ t[2].groups = {{"ZF"}}
  BY DEF Access, Always
<1>3. UNION {{"ZF"}} = {"ZF"} OBVIOUS
<1>4. t \in Seq(Word) BY WordsTyped, EachFlag DEF Flags
<1> HIDE DEF t
<1>5. RestartsCleanly("BSF")
  BY <1>1, <1>2, <1>3 DEF RestartsCleanly, Writes
<1> QED BY <1>1, <1>2, <1>3, <1>4, <1>5
  DEF Sound, ReadsAreNeeded, KilledIsWritten, LoopsAreRepeated, Needs, Kills,
      req_flags, chg_flags, branch, repe, INSTS_METADATA, Row, Flags

LEMMA PushfTable == Sound("PUSHF") /\ RestartsCleanly("PUSHF")
<1> DEFINE t == <<Use(Flags), Access>>
<1>1. Template["PUSHF"] = t BY DEF Template, compile_pushf
<1>2. /\ DOMAIN t = {1, 2} /\ Len(t) = 2 /\ t[1].op = "use"
      /\ t[2].op = "access" /\ t[1].groups = {Flags}
  BY DEF Use, Access
<1>3. UNION {Flags} = Flags OBVIOUS
<1>4. t \in Seq(Word) BY WordsTyped, EachFlag DEF Flags
<1> HIDE DEF t
<1>5. RestartsCleanly("PUSHF")
  BY <1>1, <1>2, <1>3 DEF RestartsCleanly, Writes
<1> QED BY <1>1, <1>2, <1>3, <1>4, <1>5
  DEF Sound, ReadsAreNeeded, KilledIsWritten, LoopsAreRepeated, Needs, Kills,
      req_flags, chg_flags, branch, repe, INSTS_METADATA, Row, Flags

LEMMA PopfTable == Sound("POPF") /\ RestartsCleanly("POPF")
<1> DEFINE t == <<Access, Always(Flags)>>
<1>1. Template["POPF"] = t BY DEF Template, compile_popf
<1>2. /\ DOMAIN t = {1, 2} /\ Len(t) = 2 /\ t[1].op = "access"
      /\ t[2].op = "always" /\ t[2].groups = {Flags}
  BY DEF Access, Always
<1>3. UNION {Flags} = Flags OBVIOUS
<1>4. t \in Seq(Word) BY WordsTyped, EachFlag DEF Flags
<1> HIDE DEF t
<1>5. RestartsCleanly("POPF")
  BY <1>1, <1>2, <1>3 DEF RestartsCleanly, Writes
<1> QED BY <1>1, <1>2, <1>3, <1>4, <1>5
  DEF Sound, ReadsAreNeeded, KilledIsWritten, LoopsAreRepeated, Needs, Kills,
      req_flags, chg_flags, branch, repe, INSTS_METADATA, Row, Flags

LEMMA CmcTable == Sound("CMC") /\ RestartsCleanly("CMC")
<1> DEFINE t == <<Use({"CF"}), Always({"CF"})>>
<1>1. Template["CMC"] = t BY DEF Template, compile_cmc
<1>2. /\ DOMAIN t = {1, 2} /\ Len(t) = 2 /\ t[1].op = "use"
      /\ t[2].op = "always" /\ t[1].groups = {{"CF"}}
      /\ t[2].groups = {{"CF"}}
  BY DEF Use, Always
<1>3. UNION {{"CF"}} = {"CF"} OBVIOUS
<1>4. t \in Seq(Word) BY WordsTyped, EachFlag DEF Flags
<1> HIDE DEF t
<1>5. RestartsCleanly("CMC")
  BY <1>1, <1>2, <1>3 DEF RestartsCleanly, Writes
<1> QED BY <1>1, <1>2, <1>3, <1>4, <1>5
  DEF Sound, ReadsAreNeeded, KilledIsWritten, LoopsAreRepeated, Needs, Kills,
      req_flags, chg_flags, branch, repe, INSTS_METADATA, Row, Flags

LEMMA SahfTable == Sound("SAHF") /\ RestartsCleanly("SAHF")
<1> DEFINE t == <<Always(Flags \ {"OF"})>>
<1>1. Template["SAHF"] = t BY DEF Template, compile_sahf
<1>2. /\ DOMAIN t = {1} /\ Len(t) = 1 /\ t[1].op = "always"
      /\ t[1].groups = {Flags \ {"OF"}}
  BY DEF Always
<1>3. UNION {Flags \ {"OF"}} = Flags \ {"OF"} OBVIOUS
<1>4. t \in Seq(Word) BY WordsTyped, EachFlag DEF Flags
<1> HIDE DEF t
<1>5. RestartsCleanly("SAHF")
  BY <1>1, <1>2, <1>3 DEF RestartsCleanly, Writes
<1> QED BY <1>1, <1>2, <1>3, <1>4, <1>5
  DEF Sound, ReadsAreNeeded, KilledIsWritten, LoopsAreRepeated, Needs, Kills,
      req_flags, chg_flags, branch, repe, INSTS_METADATA, Row, Flags

LEMMA LahfTable == Sound("LAHF") /\ RestartsCleanly("LAHF")
<1> DEFINE t == <<Use(Flags \ {"OF"})>>
<1>1. Template["LAHF"] = t BY DEF Template, compile_lahf
<1>2. /\ DOMAIN t = {1} /\ Len(t) = 1 /\ t[1].op = "use"
      /\ t[1].groups = {Flags \ {"OF"}}
  BY DEF Use
<1>3. UNION {Flags \ {"OF"}} = Flags \ {"OF"} OBVIOUS
<1>4. t \in Seq(Word) BY WordsTyped, EachFlag DEF Flags
<1> HIDE DEF t
<1>5. RestartsCleanly("LAHF")
  BY <1>1, <1>2, <1>3 DEF RestartsCleanly, Writes
<1> QED BY <1>1, <1>2, <1>3, <1>4, <1>5
  DEF Sound, ReadsAreNeeded, KilledIsWritten, LoopsAreRepeated, Needs, Kills,
      req_flags, chg_flags, branch, repe, INSTS_METADATA, Row, Flags

LEMMA MovTable == Sound("MOV") /\ RestartsCleanly("MOV")
<1> DEFINE t == <<Access, Access>>
<1>1. Template["MOV"] = t BY DEF Template, compile_mov
<1>2. /\ DOMAIN t = {1, 2} /\ Len(t) = 2 /\ t[1].op = "access"
      /\ t[2].op = "access"
  BY DEF Access
<1>4. t \in Seq(Word) BY WordsTyped
<1> HIDE DEF t
<1>5. RestartsCleanly("MOV")
  BY <1>1, <1>2 DEF RestartsCleanly, Writes
<1> QED BY <1>1, <1>2, <1>4, <1>5
  DEF Sound, ReadsAreNeeded, KilledIsWritten, LoopsAreRepeated, Needs, Kills,
      req_flags, chg_flags, branch, repe, INSTS_METADATA, Row, Flags

LEMMA CmpsTable == Sound("CMPS") /\ RestartsCleanly("CMPS")
<1> DEFINE t == <<Access, Set(Each(Flags \ {"ZF"})), Always({"ZF"})>>
<1>1. Template["CMPS"] = t BY DEF Template, compile_cmps
<1>2. /\ DOMAIN t = {1, 2, 3} /\ Len(t) = 3 /\ t[1].op = "access"
      /\ t[2].op = "set" /\ t[3].op = "always"
  BY DEF Access, Set, Always
<1>3. UNION t[2].groups = Flags \ {"ZF"} /\ UNION t[3].groups = {"ZF"}
  <2>1. UNION Each(Flags \ {"ZF"}) = Flags \ {"ZF"} BY EachFlag DEF Flags
  <2>2. UNION {{"ZF"}} = {"ZF"} OBVIOUS
  <2> QED BY <2>1, <2>2 DEF Set, Always
<1>4. t \in Seq(Word) BY WordsTyped, EachFlag DEF Flags
<1> HIDE DEF t
<1>5. RestartsCleanly("CMPS")
  BY <1>1, <1>2, <1>3 DEF RestartsCleanly, Writes
<1> QED BY <1>1, <1>2, <1>3, <1>4, <1>5
  DEF Sound, ReadsAreNeeded, KilledIsWritten, LoopsAreRepeated, Needs, Kills,
      req_flags, chg_flags, branch, repe, INSTS_METADATA, Row, Flags

LEMMA RepeCmpsTable == Sound("REPE_CMPS") /\ RestartsCleanly("REPE_CMPS")
<1> DEFINE t == <<IfEcxIs0, Access, Set(Each(Flags \ {"ZF"})), Always({"ZF"}),
                  Again({"ZF"})>>
<1>1. Template["REPE_CMPS"] = t BY DEF Template, compile_cmps
<1>2. /\ DOMAIN t = {1, 2, 3, 4, 5} /\ Len(t) = 5 /\ t[1].op = "ifecx"
      /\ t[2].op = "access" /\ t[3].op = "set" /\ t[4].op = "always"
      /\ t[5].op = "again"
  BY DEF IfEcxIs0, Access, Set, Always, Again
<1>3. /\ UNION t[3].groups = Flags \ {"ZF"} /\ UNION t[4].groups = {"ZF"}
      /\ UNION t[5].groups = {"ZF"}
  <2>1. UNION Each(Flags \ {"ZF"}) = Flags \ {"ZF"} BY EachFlag DEF Flags
  <2>2. UNION {{"ZF"}} = {"ZF"} OBVIOUS
  <2> QED BY <2>1, <2>2 DEF Set, Always, Again
<1>4. t \in Seq(Word) BY WordsTyped, EachFlag DEF Flags
<1> HIDE DEF t
<1>5. RestartsCleanly("REPE_CMPS")
  BY <1>1, <1>2, <1>3 DEF RestartsCleanly, Writes
<1> QED BY <1>1, <1>2, <1>3, <1>4, <1>5
  DEF Sound, ReadsAreNeeded, KilledIsWritten, LoopsAreRepeated, Needs, Kills,
      req_flags, chg_flags, branch, repe, INSTS_METADATA, Row, Flags

-----------------------------------------------------------------------------
\* The table and the templates agree, the IMUL with one operand excepted.
THEOREM TablesAreSound == \A i \in Inst \ {"IMUL1"} : Sound(i)
BY AndTable, AddTable, AdcTable, IncTable, SubTable, SbbTable, DecTable,
   NegTable, MulTable, ImulTable, BtTable, ShlTable, ShldTable, RclTable,
   RcrTable, RolTable, AamTable, DaaTable, SetaTable, SetgTable, JsTable,
   JpTable, JeTable, IntoTable, RetTable, BsfTable, PushfTable, PopfTable,
   CmcTable, SahfTable, LahfTable, MovTable, CmpsTable, RepeCmpsTable
   DEF Inst, Template

\* No instruction but the rotations through the carry reads, when it starts
\* again after an exception, a flag its first attempt has written.
THEOREM TemplatesRestart ==
  \A i \in Inst \ {"IMUL1", "RCL", "RCR"} : RestartsCleanly(i)
BY AndTable, AddTable, AdcTable, IncTable, SubTable, SbbTable, DecTable,
   NegTable, MulTable, ImulTable, BtTable, ShlTable, ShldTable, RolTable,
   AamTable, DaaTable, SetaTable, SetgTable, JsTable, JpTable, JeTable,
   IntoTable, RetTable, BsfTable, PushfTable, PopfTable, CmcTable, SahfTable,
   LahfTable, MovTable, CmpsTable, RepeCmpsTable
   DEF Inst, Template

-----------------------------------------------------------------------------
(* The pass and the execution.                                             *)

Running_ == pc \in decoded /\ n = Idle

\* f is killed further on in the straight line of k, before anybody needs it.
DeadAfter(f, k) == Dead(f, k + 1) /\ PageOf(k + 1) = PageOf(k)

\* The passes done and the pass under way.
PassInv ==
  /\ \A k \in decoded : \A f \in Flags \ want[k] : DeadAfter(f, k)
  /\ \A k \in decoded : branch(prog[k]) => want[k] = Flags
  /\ n # Idle =>
       /\ u = 1 /\ first <= n
       /\ \A f \in Flags \ flags : DeadAfter(f, n)
       /\ branch(prog[n]) => flags = Flags
       /\ \A k \in first .. (n - 1) : ~ branch(prog[k])
       /\ PageOf(first) = PageOf(n)

\* The flags of word i are up to date, when somebody wants them.
Written(i) ==
  /\ Code[i].op = "set" => \A g \in Code[i].groups :
       g \cap stale = {} \/ g \cap want[pc] = {}
  /\ Code[i].op = "always" => \A g \in Code[i].groups : g \cap stale = {}

\* The instruction under way.
ExecInv ==
  /\ \A f \in stale : Dead(f, pc)
  /\ u > 1 => Running_
  /\ u = 1 => skipped = {}
  /\ u > 1 => skipped \cap want[pc] = {}
  /\ \A f \in skipped : \E i \in 1 .. Len(Code) :
       Code[i].op \in {"set", "counted"} /\ f \in UNION Code[i].groups
  /\ (repe(prog[pc]) => u <= Len(Code)) => \A i \in 1 .. (u - 1) : Written(i)

IInv == TypeOK /\ PassInv /\ ExecInv

-----------------------------------------------------------------------------
(* Dead *)

LEMMA DeadStep ==
  ASSUME NEW f, NEW k \in Pos, DeadAfter(f, k), ~ Needs(prog[k], f),
         ~ branch(prog[k]), Len_ \in Nat
  PROVE  Dead(f, k)
<1>1. PICK j \in (k + 1) .. Len_ :
        /\ Kills(prog[j], f)
        /\ \A m \in (k + 1) .. (j - 1) :
             ~ Needs(prog[m], f) /\ ~ branch(prog[m]) /\ PageOf(m) = PageOf(j)
  BY DEF Dead, DeadAfter
<1>2. k \in Nat BY DEF Pos
<1>3. PageOf(k) = PageOf(j)
  <2>1. CASE j = k + 1 BY <2>1 DEF DeadAfter
  <2>2. CASE j # k + 1
    <3>1. k + 1 \in (k + 1) .. (j - 1) BY <1>2, <2>2
    <3> QED BY <1>1, <3>1 DEF DeadAfter
  <2> QED BY <2>1, <2>2
<1>4. \A m \in k .. (j - 1) : m = k \/ m \in (k + 1) .. (j - 1) BY <1>2
<1>5. j \in k .. Len_ BY <1>2
<1> QED BY <1>1, <1>3, <1>4, <1>5 DEF Dead

LEMMA DeadHere ==
  ASSUME NEW f, NEW k \in Pos, Kills(prog[k], f), Len_ \in Nat
  PROVE  Dead(f, k)
BY DEF Dead, Pos

\* A dead flag is killed here, or dead further on.
LEMMA DeadSplit ==
  ASSUME NEW f, NEW k \in Pos, Dead(f, k), Len_ \in Nat
  PROVE  \/ Kills(prog[k], f)
         \/ DeadAfter(f, k) /\ ~ Needs(prog[k], f) /\ ~ branch(prog[k])
<1>1. PICK j \in k .. Len_ :
        /\ Kills(prog[j], f)
        /\ \A m \in k .. (j - 1) :
             ~ Needs(prog[m], f) /\ ~ branch(prog[m]) /\ PageOf(m) = PageOf(j)
  BY DEF Dead
<1>2. k \in Nat BY DEF Pos
<1>3. CASE j = k BY <1>1, <1>3
<1>4. CASE j # k
  <2>1. j \in (k + 1) .. Len_ /\ k \in k .. (j - 1) BY <1>2, <1>4
  <2>2. (k + 1) .. (j - 1) \subseteq k .. (j - 1) BY <1>2
  <2>3. Dead(f, k + 1) BY <1>1, <2>1, <2>2 DEF Dead
  <2>4. PageOf(k + 1) = PageOf(k)
    <3>1. k + 1 = j \/ k + 1 \in k .. (j - 1) BY <1>2, <2>1
    <3> QED BY <1>1, <2>1, <3>1
  <2> QED BY <1>1, <2>1, <2>3, <2>4 DEF DeadAfter
<1> QED BY <1>3, <1>4

LEMMA DeadEnds ==
  ASSUME NEW f, DeadAfter(f, Len_), Len_ \in Nat
  PROVE  FALSE
BY DEF Dead, DeadAfter

\* Only a flag that is alive can be needed by a killer.
LEMMA KillsNoNeed ==
  ASSUME NEW i, NEW f, Kills(i, f)
  PROVE  ~ Needs(i, f)
BY DEF Kills, Needs

-----------------------------------------------------------------------------
(* Typing *)

LEMMA CodeTyped ==
  ASSUME TableSound, TypeOK
  PROVE  /\ pc \in Pos /\ prog[pc] \in Insts /\ Sound(prog[pc])
         /\ Code \in Seq(Word) /\ Len(Code) \in Nat
         /\ \A i \in 1 .. Len(Code) : Code[i].groups \subseteq SUBSET Flags
<1>1. pc \in Pos /\ prog[pc] \in Insts BY DEF TypeOK
<1>2. Sound(prog[pc]) BY <1>1 DEF TableSound
<1>3. Code \in Seq(Word) /\ Len(Code) \in Nat BY <1>2 DEF Sound, Code
<1>4. \A i \in 1 .. Len(Code) : Code[i] \in Word BY <1>3
<1> QED BY <1>1, <1>2, <1>3, <1>4 DEF Word

LEMMA Typed ==
  ASSUME TableSound, ProgramAssumption, TypeOK, Next
  PROVE  TypeOK'
<1>a. Len_ \in Nat \ {0} BY DEF ProgramAssumption
<1>b. /\ pc \in Pos /\ Len(Code) \in Nat /\ u \in 1 .. (Len(Code) + 1)
      /\ \A i \in 1 .. Len(Code) : Code[i].groups \subseteq SUBSET Flags
  BY CodeTyped DEF TypeOK
<1>c. ASSUME UNCHANGED <<prog, pc>> PROVE Code' = Code BY <1>c DEF Code
<1>1. CASE Decode
  BY <1>1, <1>a, <1>c DEF Decode, runVars, TypeOK, Pos, Idle
<1>2. CASE Pass
  <2>1. n \in Pos /\ prog[n] \in Insts BY <1>2 DEF Pass, TypeOK
  <2>2. flags' \subseteq Flags
    <3>1. req_flags(prog[n]) \subseteq Flags BY <2>1 DEF TableSound, Sound
    <3>2. "ZF" \in Flags BY DEF Flags
    <3> QED BY <1>2, <3>1, <3>2 DEF Pass, Before, TypeOK
  <2>3. n' \in Pos \cup {Idle} BY <1>2, <1>a, <2>1 DEF Pass, Pos, Idle
  <2> QED BY <1>2, <1>c, <2>1, <2>2, <2>3 DEF Pass, runVars, TypeOK
<1>3. ASSUME NEW k \in Pos, Forget(k) PROVE TypeOK'
  BY <1>3, <1>c DEF Forget, passVars, runVars, TypeOK
<1>4. CASE Step \/ Fault \/ CountIdle
  BY <1>4, <1>b, <1>c DEF Step, Fault, CountIdle, At, Running, runOnly, passVars, TypeOK
<1>5. CASE ComputeFlags \/ WriteAlways
  <2>1. u \in 1 .. Len(Code) /\ Code[u].groups \subseteq SUBSET Flags
    BY <1>5, <1>b DEF ComputeFlags, WriteAlways, At, Running
  <2>2. /\ stale' \subseteq Flags /\ ahead' \subseteq Flags
        /\ skipped' \subseteq Flags
    BY <1>5, <2>1 DEF ComputeFlags, WriteAlways, WriteFlags, Wanted, TypeOK
  <2> QED BY <1>5, <1>b, <1>c, <2>1, <2>2
          DEF ComputeFlags, WriteAlways, runOnly, passVars, TypeOK
<1>6. ASSUME NEW zero \in BOOLEAN, EcxIs0(zero) PROVE TypeOK'
  BY <1>6, <1>b, <1>c DEF EcxIs0, At, Running, runOnly, passVars, TypeOK
<1>7. ASSUME NEW interrupt \in BOOLEAN, Repeat(interrupt) PROVE TypeOK'
  BY <1>7, <1>b, <1>c DEF Repeat, Commit, At, Running, runOnly, passVars, TypeOK
<1>8. CASE LeaveLoop
  BY <1>8, <1>b, <1>c DEF LeaveLoop, At, Running, runOnly, passVars, TypeOK
<1>9. CASE Retire
  <2>1. pc' \in Pos BY <1>9, <1>a, <1>b DEF Retire, Pos
  <2>2. prog' = prog /\ prog'[pc'] \in Insts
    BY <1>9, <2>1 DEF Retire, runOnly, TypeOK
  <2>3. u' \in 1 .. (Len(Code') + 1)
    <3>1. Sound(prog'[pc']) BY <2>2 DEF TableSound
    <3>2. Code' \in Seq(Word) BY <3>1 DEF Sound, Code
    <3> QED BY <3>2, <1>9 DEF Retire
  <2> QED BY <1>9, <2>1, <2>2, <2>3 DEF Retire, Commit, runOnly, passVars, TypeOK
<1> QED BY <1>1, <1>2, <1>3, <1>4, <1>5, <1>6, <1>7, <1>8, <1>9 DEF Next

-----------------------------------------------------------------------------
(* The pass *)

\* What lies between two positions of a page is in that page.
LEMMA SamePage ==
  ASSUME ProgramAssumption, NEW i \in Pos, NEW j \in Pos, NEW k \in Pos,
         i <= j, j <= k, PageOf(i) = PageOf(k)
  PROVE  PageOf(j) = PageOf(k)
<1>1. PageLen \in Nat /\ PageLen > 0 BY DEF ProgramAssumption
<1>2. i - 1 \in Nat /\ j - 1 \in Nat /\ k - 1 \in Nat
      /\ i - 1 <= j - 1 /\ j - 1 <= k - 1
  BY DEF Pos
<1>3. ASSUME NEW a \in Nat, NEW b \in Nat, a <= b
      PROVE  a \div PageLen <= b \div PageLen
           /\ a \div PageLen \in Nat /\ b \div PageLen \in Nat
  BY <1>1, <1>3
<1>4. PageOf(i) <= PageOf(j) /\ PageOf(j) <= PageOf(k)
      /\ PageOf(i) \in Nat /\ PageOf(j) \in Nat /\ PageOf(k) \in Nat
  BY <1>2, <1>3 DEF PageOf
<1> QED BY <1>4

\* Dead speaks of the program alone.
LEMMA DeadStays ==
  ASSUME UNCHANGED prog, NEW f, NEW k
  PROVE  /\ Dead(f, k)' <=> Dead(f, k)
         /\ DeadAfter(f, k)' <=> DeadAfter(f, k)
BY DEF Dead, DeadAfter, PageOf

\* One iteration: what is not alive before an instruction is dead there.
LEMMA BeforeIsDead ==
  ASSUME NEW k \in Pos, NEW live, NEW f, f \notin Before(prog[k], live),
         Len_ \in Nat, f \notin live => DeadAfter(f, k),
         branch(prog[k]) => f \in live
  PROVE  Dead(f, k)
<1>1. CASE Kills(prog[k], f) BY <1>1, DeadHere
<1>2. CASE ~ Kills(prog[k], f)
  <2>1. ~ Needs(prog[k], f) BY DEF Before, Needs
  <2>2. f \notin live BY <1>2 DEF Before, Kills
  <2> QED BY <2>1, <2>2, DeadStep
<1> QED BY <1>1, <1>2

LEMMA PassStep ==
  ASSUME ProgramAssumption, TypeOK, PassInv, Pass
  PROVE  PassInv'
<1>a. Len_ \in Nat \ {0} BY DEF ProgramAssumption
<1>b. n \in Pos /\ n # Idle BY DEF Pass, TypeOK
<1>c. UNCHANGED <<prog, first, u>> BY DEF Pass, runVars
<1>d. want \in [Pos -> SUBSET Flags] /\ decoded \subseteq Pos BY DEF TypeOK
<1>1. \A k \in decoded' : \A f \in Flags \ want'[k] : DeadAfter(f, k)'
  <2> SUFFICES ASSUME NEW k \in decoded', NEW f \in Flags \ want'[k]
               PROVE  DeadAfter(f, k)
    BY <1>c, DeadStays, Zenon
  <2>1. CASE k = n
    <3>1. want'[n] = flags BY <1>b, <1>d DEF Pass
    <3>2. \A g \in Flags \ flags : DeadAfter(g, n) BY <1>b DEF PassInv
    <3> QED BY <2>1, <3>1, <3>2
  <2>2. CASE k # n
    <3>1. want'[k] = want[k] /\ k \in decoded BY <2>2, <1>b, <1>d DEF Pass
    <3>2. \A g \in Flags \ want[k] : DeadAfter(g, k) BY <3>1 DEF PassInv
    <3> QED BY <3>1, <3>2
  <2> QED BY <2>1, <2>2
<1>2. \A k \in decoded' : branch(prog'[k]) => want'[k] = Flags
  BY <1>b, <1>c, <1>d DEF Pass, PassInv
<1>3. ASSUME n' # Idle
      PROVE  /\ u' = 1 /\ first' <= n'
             /\ \A f \in Flags \ flags' : DeadAfter(f, n)'
             /\ branch(prog'[n']) => flags' = Flags
             /\ \A k \in first' .. (n' - 1) : ~ branch(prog'[k])
             /\ PageOf(first)' = PageOf(n)'
  <2>1. n # first /\ n' = n - 1 BY <1>3 DEF Pass
  <2>2. first \in Pos /\ first < n BY <2>1, <1>a, <1>b DEF PassInv, TypeOK, Pos
  <2>3. \A f \in Flags \ flags' : Dead(f, n)
    <3> SUFFICES ASSUME NEW f \in Flags, f \notin flags' PROVE Dead(f, n)
      OBVIOUS
    <3>1. f \notin Before(prog[n], flags) BY DEF Pass
    <3>2. f \notin flags => DeadAfter(f, n) BY <1>b DEF PassInv
    <3>3. branch(prog[n]) => f \in flags BY <1>b DEF PassInv
    <3> QED BY <3>1, <3>2, <3>3, <1>a, <1>b, BeforeIsDead
  <2>4. n' + 1 = n BY <2>1, <1>b DEF Pos
  <2>a. n' \in Pos BY <2>1, <2>2, <1>a, <1>b DEF Pos
  <2>b. PageOf(first) = PageOf(n) /\ PageOf(n') = PageOf(n)
    <3>1. PageOf(first) = PageOf(n) BY <1>b DEF PassInv
    <3>2. first <= n' /\ n' <= n BY <2>1, <2>2, <2>a, <1>b DEF Pos
    <3> QED BY <3>1, <3>2, <2>2, <2>a, <1>b, SamePage
  <2>c. PageOf(first)' = PageOf(n)' BY <2>b, <1>c DEF PageOf
  <2>5. \A f \in Flags \ flags' : DeadAfter(f, n)'
    <3> SUFFICES ASSUME NEW f \in Flags \ flags'
                 PROVE  Dead(f, n + 1)' /\ PageOf(n + 1)' = PageOf(n)'
      BY DEF DeadAfter
    <3>1. Dead(f, n + 1)' BY <2>3, <2>4, <1>c DEF Dead, PageOf
    <3>2. PageOf(n + 1)' = PageOf(n)' BY <2>b, <2>4 DEF PageOf
    <3> QED BY <3>1, <3>2
  <2>6. \A k \in first .. (n - 1) : ~ branch(prog[k]) BY <1>b DEF PassInv
  <2>7. n' \in first .. (n - 1) /\ first .. (n' - 1) \subseteq first .. (n - 1)
    BY <2>1, <2>2, <1>a, <1>b DEF Pos
  <2>8. u = 1 BY <1>b DEF PassInv
  <2>9. u' = 1 /\ first' <= n'
    <3>1. first' = first /\ u' = u BY <1>c
    <3>2. first <= n' BY <2>7, <2>2, <1>b DEF Pos
    <3> QED BY <3>1, <3>2, <2>8
  <2>10. prog' = prog /\ first' = first BY <1>c
  <2>11. ~ branch(prog[n']) BY <2>6, <2>7
  <2>12. \A k \in first .. (n' - 1) : ~ branch(prog[k]) BY <2>6, <2>7
  <2> QED BY <2>5, <2>9, <2>10, <2>11, <2>12, <2>c
<1> QED BY <1>1, <1>2, <1>3 DEF PassInv

LEMMA DecodeStep ==
  ASSUME ProgramAssumption, TypeOK, PassInv, Decode
  PROVE  PassInv'
<1>a. Len_ \in Nat BY DEF ProgramAssumption
<1>1. PICK hi \in Pos : IsBlock(pc, hi) /\ n' = hi BY DEF Decode
<1>2. /\ UNCHANGED <<prog, decoded, want, u>> /\ u = 1 /\ first' = pc
      /\ flags' = Flags
  BY DEF Decode, runVars
<1>3. /\ first' <= n' /\ \A k \in first' .. (n' - 1) : ~ branch(prog'[k])
  BY <1>1, <1>2 DEF IsBlock
<1>5. PageOf(first)' = PageOf(n)' BY <1>1, <1>2 DEF IsBlock, PageOf
<1>4. /\ \A k \in decoded' : \A f \in Flags \ want'[k] : DeadAfter(f, k)'
      /\ \A k \in decoded' : branch(prog'[k]) => want'[k] = Flags
  BY <1>2, DeadStays DEF PassInv
<1> QED BY <1>2, <1>3, <1>4, <1>5 DEF PassInv

LEMMA PassStays ==
  ASSUME PassInv, UNCHANGED <<prog, want, n, first, flags>>,
         decoded' \subseteq decoded, n # Idle => u' = 1
  PROVE  PassInv'
BY DeadStays DEF PassInv

-----------------------------------------------------------------------------
(* Execution *)

\* Between two instructions only stale matters.
LEMMA AtStart ==
  ASSUME TypeOK', u' = 1, skipped' = {}, \A f \in stale' : Dead(f, pc)'
  PROVE  ExecInv'
BY DEF ExecInv

\* From one word to the next.
LEMMA Advance ==
  ASSUME TableSound, TypeOK, ExecInv, Running,
         UNCHANGED <<prog, decoded, want, n, pc>>, u' = u + 1,
         stale' \subseteq stale, skipped' \cap want[pc] = {},
         \A f \in skipped' \ skipped :
           /\ Code[u].op \in {"set", "counted"}
           /\ f \in UNION Code[u].groups,
         \A w \in {u} : Written(w)'
  PROVE  ExecInv'
<1>a. u \in 1 .. Len(Code) /\ Len(Code) \in Nat BY CodeTyped DEF Running, TypeOK
<1>b. Code' = Code BY DEF Code
<1>1. \A f \in stale' : Dead(f, pc)' BY DeadStays DEF ExecInv, Dead
<1>2. Running_' BY DEF Running, Running_
<1>3. \A f \in skipped' : \E i \in 1 .. Len(Code) :
        Code[i].op \in {"set", "counted"} /\ f \in UNION Code[i].groups
  <2> SUFFICES ASSUME NEW f \in skipped'
               PROVE  \E i \in 1 .. Len(Code) :
                        Code[i].op \in {"set", "counted"} /\ f \in UNION Code[i].groups
    OBVIOUS
  <2>1. CASE f \in skipped BY <2>1 DEF ExecInv
  <2>2. CASE f \notin skipped BY <2>2, <1>a
  <2> QED BY <2>1, <2>2
<1>4. \A i \in 1 .. (u' - 1) : Written(i)'
  <2> SUFFICES ASSUME NEW i \in 1 .. u PROVE Written(i)' BY <1>a
  <2>1. CASE i = u BY <2>1
  <2>2. CASE i # u
    <3>1. i \in 1 .. (u - 1) BY <2>2, <1>a
    <3>2. Written(i) BY <3>1, <1>a DEF ExecInv
    <3>3. Code'[i] = Code[i] /\ want'[pc'] = want[pc] BY <1>b
    <3>4. Code[i].op = "set" => \A g \in Code[i].groups :
            g \cap stale' = {} \/ g \cap want[pc] = {}
      BY <3>2 DEF Written
    <3>5. Code[i].op = "always" => \A g \in Code[i].groups : g \cap stale' = {}
      BY <3>2 DEF Written
    <3> QED BY <3>3, <3>4, <3>5 DEF Written
  <2> QED BY <2>1, <2>2
<1>5. u' > 1 BY <1>a
<1> QED BY <1>1, <1>2, <1>3, <1>4, <1>5, <1>b DEF ExecInv

\* What was not computed is dead after the instruction.
LEMMA SkippedIsDead ==
  ASSUME TypeOK, PassInv, pc \in decoded, NEW f \in Flags, f \notin want[pc]
  PROVE  DeadAfter(f, pc)
BY DEF PassInv

\* So is what the instruction has not brought up to date.
LEMMA StaleIsDeadAfter ==
  ASSUME TableSound, ProgramAssumption, TypeOK, PassInv, ExecInv,
         pc \in decoded, u = Len(Code) + 1, NEW f \in stale \cup skipped
  PROVE  DeadAfter(f, pc) /\ ~ branch(prog[pc])
<1>a. /\ pc \in Pos /\ Len_ \in Nat /\ f \in Flags
      /\ Sound(prog[pc]) /\ Len(Code) \in Nat /\ Code \in Seq(Word)
  BY CodeTyped DEF ProgramAssumption, TypeOK
<1>b. branch(prog[pc]) => want[pc] = Flags BY DEF PassInv
<1>1. CASE f \notin want[pc] BY <1>1, <1>a, <1>b, SkippedIsDead
<1>2. CASE f \in want[pc]
  <2>1. f \in stale /\ Dead(f, pc) BY <1>2 DEF ExecInv
  <2>2. CASE Kills(prog[pc], f)
    <3>1. PICK k \in DOMAIN Code : /\ Code[k].op \in {"set", "always"}
                                  /\ f \in UNION Code[k].groups
      BY <1>a, <2>2 DEF Sound, KilledIsWritten, Code
    <3>2. k \in 1 .. (u - 1) BY <1>a, <3>1
    <3>3. ~ repe(prog[pc]) BY <2>2 DEF Kills
    <3>4. Written(k) BY <3>2, <3>3 DEF ExecInv
    <3> QED BY <3>1, <3>4, <2>1, <1>2 DEF Written
  <2>3. CASE ~ Kills(prog[pc], f) BY <2>1, <2>3, <1>a, DeadSplit
  <2> QED BY <2>2, <2>3
<1> QED BY <1>1, <1>2

\* What LoopsAreRepeated says of the words of a template.
LEMMA Loops ==
  ASSUME NEW i, Sound(i), NEW k \in 1 .. Len(Template[i])
  PROVE  /\ Template[i][k].op \in {"ifecx", "again"} => repe(i)
         /\ Template[i][k].op = "again" =>
              \A f \in UNION Template[i][k].groups : \E m \in 1 .. (k - 1) :
                /\ Template[i][m].op = "always"
                /\ f \in UNION Template[i][m].groups
         /\ repe(i) /\ Template[i][k].op \in {"set", "counted"} =>
              \A f \in UNION Template[i][k].groups : ~ Needs(i, f)
<1>1. k \in DOMAIN Template[i] BY DEF Sound
<1> QED BY <1>1, Zenon DEF Sound, LoopsAreRepeated

LEMMA ExecStep ==
  ASSUME TableSound, ProgramAssumption, IInv, Next, TypeOK', PassInv'
  PROVE  ExecInv'
<1> USE DEF IInv
<1>a. /\ pc \in Pos /\ Sound(prog[pc]) /\ Len(Code) \in Nat
      /\ Len_ \in Nat \ {0} /\ stale \subseteq Flags /\ skipped \subseteq Flags
  BY CodeTyped DEF ProgramAssumption, TypeOK
<1>b. ASSUME UNCHANGED <<prog, pc, stale>>
      PROVE  \A f \in stale' : Dead(f, pc)'
  BY <1>b DEF ExecInv, Dead
<1>1. CASE Decode \/ Pass \/ (\E k \in Pos : Forget(k))
  <2>1. u = 1 /\ UNCHANGED runVars /\ UNCHANGED prog
    BY <1>1 DEF Decode, Pass, Forget, PassInv, runVars
  <2> QED BY <2>1, <1>b, AtStart DEF runVars, ExecInv
<1>2. CASE Step \/ CountIdle
  <2>1. Code[u].op \notin {"set", "always"} /\ Running /\ u' = u + 1
        /\ UNCHANGED <<prog, decoded, want, n, pc, stale, skipped>>
    BY <1>2 DEF Step, CountIdle, At, runOnly, passVars
  <2>2. \A w \in {u} : Written(w)' BY <2>1 DEF Written, Code
  <2>3. skipped \cap want[pc] = {} BY <1>a DEF ExecInv, TypeOK
  <2> QED BY <2>1, <2>2, <2>3, Advance
<1>3. CASE Fault
  BY <1>3, <1>b, AtStart DEF Fault, runOnly
<1>4. CASE ComputeFlags
  <2> DEFINE G == Code[u].groups
  <2>1. /\ Code[u].op \in {"set", "counted"} /\ Running /\ u' = u + 1
        /\ UNCHANGED <<prog, decoded, want, n, pc>>
        /\ stale' = stale \ UNION Wanted(G)
        /\ skipped' = skipped \cup UNION (G \ Wanted(G))
    BY <1>4 DEF ComputeFlags, WriteFlags, At, runOnly, passVars
  <2>2. \A g \in G : g \cap stale' = {} \/ g \cap want[pc] = {}
    BY <2>1 DEF Wanted
  <2>3. Code' = Code /\ want'[pc'] = want[pc] BY <2>1 DEF Code
  <2>4. \A w \in {u} : Written(w)' BY <2>1, <2>2, <2>3 DEF Written
  <2>5. skipped' \cap want[pc] = {}
    <3>1. skipped \cap want[pc] = {} BY <1>a DEF ExecInv, TypeOK
    <3>2. \A g \in G \ Wanted(G) : g \cap want[pc] = {} BY DEF Wanted
    <3>3. \A f \in UNION (G \ Wanted(G)) : f \notin want[pc] BY <3>2
    <3> HIDE DEF G
    <3> QED BY <2>1, <3>1, <3>3
  <2>6. stale' \subseteq stale /\ \A f \in skipped' \ skipped : f \in UNION G
    BY <2>1
  <2> HIDE DEF G
  <2> QED BY <2>1, <2>4, <2>5, <2>6, Advance DEF G
<1>5. CASE WriteAlways
  <2>1. /\ Code[u].op = "always" /\ Running /\ u' = u + 1
        /\ UNCHANGED <<prog, decoded, want, n, pc, skipped>>
        /\ stale' = stale \ UNION Code[u].groups
    BY <1>5 DEF WriteAlways, At, runOnly, passVars
  <2>2. Code' = Code BY <2>1 DEF Code
  <2>3. \A w \in {u} : Written(w)' BY <2>1, <2>2 DEF Written
  <2>4. skipped \cap want[pc] = {} BY <1>a DEF ExecInv, TypeOK
  <2> QED BY <2>1, <2>3, <2>4, Advance
<1>6. ASSUME NEW zero \in BOOLEAN, EcxIs0(zero) PROVE ExecInv'
  <2>1. /\ Code[u].op = "ifecx" /\ Running /\ u' = IF zero THEN Len(Code) + 1 ELSE u + 1
        /\ UNCHANGED <<prog, decoded, want, n, pc, stale, skipped>>
    BY <1>6 DEF EcxIs0, At, runOnly, passVars
  <2>2. skipped \cap want[pc] = {} BY <1>a DEF ExecInv, TypeOK
  <2>3. CASE zero
    <3>1. u \in 1 .. Len(Code) BY <1>a, <2>1 DEF Running, TypeOK
    <3>2. repe(prog[pc]) BY <3>1, <2>1, <1>a DEF Sound, LoopsAreRepeated, Code
    <3>3. Code' = Code /\ prog'[pc'] = prog[pc] /\ u' = Len(Code) + 1
      BY <2>1, <2>3 DEF Code
    <3>4. Running_' BY <2>1 DEF Running, Running_
    <3>5. u' > 1 BY <3>1, <3>3, <1>a
    <3> QED BY <2>1, <2>2, <3>2, <3>3, <3>4, <3>5, <1>a, <1>b DEF ExecInv
  <2>4. CASE ~ zero
    <3>1. \A w \in {u} : Written(w)' BY <2>1 DEF Written, Code
    <3> QED BY <2>1, <2>2, <2>4, <3>1, Advance
  <2> QED BY <2>3, <2>4
<1>7. ASSUME NEW interrupt \in BOOLEAN, Repeat(interrupt) PROVE ExecInv'
  <2>1. /\ Code[u].op = "again" /\ Running /\ u' \in {1, 2}
        /\ UNCHANGED <<prog, decoded, want, n, pc>>
        /\ stale' = stale \cup skipped /\ skipped' = {}
    BY <1>7 DEF Repeat, Commit, At, runOnly, passVars
  <2>2. u \in 1 .. Len(Code) BY <1>a, <2>1 DEF Running, TypeOK
  <2>3. /\ repe(prog[pc]) /\ ~ branch(prog[pc]) /\ Code[1].op = "ifecx"
        /\ \A k \in 1 .. Len(Code) : Code[k].op \in {"set", "counted"} =>
             \A f \in UNION Code[k].groups : ~ Needs(prog[pc], f)
    <3>1. repe(prog[pc]) BY <1>a, <2>1, <2>2, Loops DEF Code
    <3>2. ~ branch(prog[pc]) /\ Code[1].op = "ifecx"
      BY <1>a, <3>1 DEF Sound, LoopsAreRepeated, Code
    <3>3. \A k \in 1 .. Len(Code) : Code[k].op \in {"set", "counted"} =>
             \A f \in UNION Code[k].groups : ~ Needs(prog[pc], f)
      BY <1>a, <3>1, Loops DEF Code
    <3> QED BY <3>1, <3>2, <3>3
  <2>4. \A f \in stale' : Dead(f, pc)'
    <3> SUFFICES ASSUME NEW f \in stale \cup skipped PROVE Dead(f, pc)
      BY <2>1 DEF Dead
    <3>1. CASE f \in stale BY <3>1 DEF ExecInv
    <3>2. CASE f \in skipped
      <4>1. f \notin want[pc] /\ f \in Flags BY <3>2, <1>a DEF ExecInv, TypeOK
      <4>2. DeadAfter(f, pc) BY <4>1, <2>1, SkippedIsDead DEF Running
      <4>3. ~ Needs(prog[pc], f) BY <3>2, <2>3 DEF ExecInv
      <4> QED BY <4>2, <4>3, <2>3, <1>a, DeadStep
    <3> QED BY <3>1, <3>2
  <2>5. CASE u' = 1 BY <2>1, <2>4, <2>5, AtStart
  <2>6. CASE u' = 2
    <3>1. \A i \in 1 .. (u' - 1) : Written(i)' BY <2>1, <2>3, <2>6 DEF Written, Code
    <3>2. Running_' BY <2>1 DEF Running, Running_
    <3> QED BY <2>1, <2>4, <2>6, <3>1, <3>2 DEF ExecInv
  <2> QED BY <2>1, <2>5, <2>6
<1>8. CASE LeaveLoop
  <2>1. /\ Code[u].op = "again" /\ Running /\ u' = u + 1
        /\ UNCHANGED <<prog, decoded, want, n, pc, stale, skipped>>
    BY <1>8 DEF LeaveLoop, At, runOnly, passVars
  <2>2. \A w \in {u} : Written(w)' BY <2>1 DEF Written, Code
  <2>3. skipped \cap want[pc] = {} BY <1>a DEF ExecInv, TypeOK
  <2> QED BY <2>1, <2>2, <2>3, Advance
<1>9. CASE Retire
  <2>1. /\ u = Len(Code) + 1 /\ pc \in decoded /\ u' = 1 /\ prog' = prog
        /\ stale' = stale \cup skipped /\ skipped' = {}
        /\ \/ branch(prog[pc]) /\ pc' \in Pos
           \/ pc' = IF pc = Len_ THEN 1 ELSE pc + 1
    BY <1>9 DEF Retire, Commit, runOnly
  <2>2. \A f \in stale' : DeadAfter(f, pc) /\ ~ branch(prog[pc])
    BY <2>1, StaleIsDeadAfter
  <2>3. \A f \in stale' : Dead(f, pc)'
    <3> SUFFICES ASSUME NEW f \in stale' PROVE Dead(f, pc)' OBVIOUS
    <3>1. DeadAfter(f, pc) /\ ~ branch(prog[pc]) BY <2>2
    <3>2. pc # Len_ BY <3>1, <1>a, DeadEnds
    <3>3. pc' = pc + 1 BY <2>1, <3>1, <3>2
    <3> QED BY <3>1, <3>3, <2>1 DEF Dead, DeadAfter, PageOf
  <2> QED BY <2>1, <2>3, AtStart
<1> QED BY <1>1, <1>2, <1>3, <1>4, <1>5, <1>6, <1>7, <1>8, <1>9 DEF Next

-----------------------------------------------------------------------------
(* The theorems *)

LEMMA TableIsSound ==
  ASSUME "IMUL1" \notin Insts
  PROVE  TableSound
BY TablesAreSound, ProgramAssumption DEF TableSound

LEMMA Initially ==
  ASSUME TableSound, ProgramAssumption, Init
  PROVE  IInv
<1>1. 1 \in Pos /\ prog[1] \in Insts BY DEF ProgramAssumption, Init, Pos
<1>2. Template[prog[1]] \in Seq(Word) BY <1>1 DEF TableSound, Sound
<1>3. TypeOK BY <1>1, <1>2 DEF Init, TypeOK, Code, Idle
<1>4. PassInv BY DEF Init, PassInv
<1>5. ExecInv BY DEF Init, ExecInv
<1> QED BY <1>3, <1>4, <1>5 DEF IInv

LEMMA Inductive ==
  ASSUME TableSound, ProgramAssumption, IInv, [Next]_vars
  PROVE  IInv'
<1>1. CASE UNCHANGED vars
  <2>1. UNCHANGED <<prog, decoded, want, n, first, flags, pc, u, stale, ahead, skipped>>
    BY <1>1 DEF vars, passVars, runVars
  <2>2. TypeOK' BY <2>1 DEF IInv, TypeOK, Code
  <2>3. \A f, k : Dead(f, k)' <=> Dead(f, k) BY <2>1 DEF Dead
  <2>4. PassInv'
    <3>1. \A f, k : DeadAfter(f, k)' <=> DeadAfter(f, k) BY <2>3 DEF DeadAfter
    <3> QED BY <2>1, <3>1 DEF IInv, PassInv
  <2>5. ExecInv'
    <3>1. \A i : Written(i)' <=> Written(i) BY <2>1 DEF Written, Code
    <3> QED BY <2>1, <2>3, <3>1 DEF IInv, ExecInv, Running_, Code
  <2> QED BY <2>2, <2>4, <2>5 DEF IInv
<1>2. CASE Next
  <2>1. TypeOK' BY <1>2, Typed DEF IInv
  <2>2. PassInv'
    <3>1. CASE Decode BY <3>1, DecodeStep DEF IInv
    <3>2. CASE Pass BY <3>2, PassStep DEF IInv
    <3>3. CASE ~ Decode /\ ~ Pass
      <4>1. /\ UNCHANGED <<prog, want, n, first, flags>>
            /\ decoded' \subseteq decoded /\ n = Idle
        BY <1>2, <3>3 DEF Next, Forget, Step, Fault, ComputeFlags, CountIdle,
           WriteAlways, EcxIs0, Repeat, LeaveLoop, Retire, At, Running, runOnly,
           passVars
      <4> QED BY <4>1, PassStays DEF IInv
    <3> QED BY <3>1, <3>2, <3>3
  <2> QED BY <1>2, <2>1, <2>2, ExecStep DEF IInv
<1> QED BY <1>1, <1>2 DEF IInv

\* Every position, of the pass and of the bytecode, stays in range.
THEOREM FlagsTyped ==
  ASSUME "IMUL1" \notin Insts
  PROVE  Spec => []TypeOK
<1>0. TableSound BY TableIsSound
<1>1. IInv => TypeOK BY DEF IInv
<1> QED BY <1>0, <1>1, Initially, Inductive, ProgramAssumption, PTL DEF Spec

\* No instruction of any program reads a flag whose computation the JIT left
\* out (the pass of dis_insts and the e->flags tests of jit_compile.h).
THEOREM FlagsAlwaysComputed ==
  ASSUME "IMUL1" \notin Insts
  PROVE  Spec => []ReadsAreComputed
<1>0. TableSound BY TableIsSound
<1>1. IInv => ReadsAreComputed
  <2> SUFFICES ASSUME IInv, NEW f \in Reads, f \in stale PROVE FALSE
    BY DEF ReadsAreComputed
  <2> USE DEF IInv
  <2>1. /\ Running /\ Code[u].op \in {"use", "again"}
        /\ f \in UNION Code[u].groups
    BY DEF Reads
  <2>2. /\ pc \in Pos /\ Sound(prog[pc]) /\ Len(Code) \in Nat /\ Len_ \in Nat
        /\ u \in 1 .. Len(Code)
    BY <1>0, <2>1, CodeTyped, ProgramAssumption DEF ProgramAssumption, TypeOK, Running
  <2>3. Dead(f, pc) BY DEF ExecInv
  <2>4. CASE Code[u].op = "use"
    <3>1. Needs(prog[pc], f) \/ (branch(prog[pc]) /\ ~ Kills(prog[pc], f))
      BY <2>1, <2>2, <2>4 DEF Sound, ReadsAreNeeded, Code
    <3> QED BY <3>1, <2>2, <2>3, DeadSplit, KillsNoNeed
  <2>5. CASE Code[u].op = "again"
    <3>1. PICK m \in 1 .. (u - 1) : /\ Code[m].op = "always"
                                   /\ f \in UNION Code[m].groups
      BY <2>1, <2>2, <2>5, Loops DEF Code
    <3>2. Written(m) BY <3>1, <2>2 DEF ExecInv
    <3> QED BY <3>1, <3>2 DEF Written
  <2> QED BY <2>1, <2>4, <2>5
<1> QED BY <1>0, <1>1, Initially, Inductive, ProgramAssumption, PTL DEF Spec

\* A flag that is not up to date between two instructions is written, before
\* it is read, by the straight line of code that follows.
THEOREM StaleAlwaysDead ==
  ASSUME "IMUL1" \notin Insts
  PROVE  Spec => []StaleIsDead
<1>0. TableSound BY TableIsSound
<1>1. IInv => StaleIsDead BY DEF IInv, ExecInv, StaleIsDead
<1> QED BY <1>0, <1>1, Initially, Inductive, ProgramAssumption, PTL DEF Spec

\* A jump, and the end of a page, leave every flag with its value.
THEOREM JumpsAlwaysComplete ==
  ASSUME "IMUL1" \notin Insts
  PROVE  Spec => JumpsLeaveNothingStale
<1>0. TableSound BY TableIsSound
<1>1. ASSUME IInv, [Next]_vars
      PROVE  [pc' # pc /\ (branch(prog[pc]) \/ PageOf(pc') # PageOf(pc))
                => stale' = {}]_vars
  <2> SUFFICES ASSUME Next, pc' # pc, branch(prog[pc]) \/ PageOf(pc') # PageOf(pc),
                      NEW f \in stale'
               PROVE  FALSE
    BY <1>1
  <2>1. Retire
    BY DEF Next, Decode, Pass, Forget, Step, Fault, ComputeFlags, CountIdle,
       WriteAlways, EcxIs0, Repeat, LeaveLoop, runVars
  <2>2. /\ pc \in decoded /\ u = Len(Code) + 1 /\ stale' = stale \cup skipped
        /\ \/ branch(prog[pc])
           \/ pc' = IF pc = Len_ THEN 1 ELSE pc + 1
    BY <2>1 DEF Retire, Commit
  <2>3. DeadAfter(f, pc) /\ ~ branch(prog[pc])
    BY <1>0, <1>1, <2>2, StaleIsDeadAfter, ProgramAssumption DEF IInv
  <2>4. pc # Len_ BY <2>3, DeadEnds, ProgramAssumption DEF ProgramAssumption
  <2>5. pc' = pc + 1 BY <2>2, <2>3, <2>4
  <2> QED BY <2>3, <2>5 DEF DeadAfter
<1> QED BY <1>0, <1>1, Initially, Inductive, ProgramAssumption, PTL
        DEF Spec, JumpsLeaveNothingStale

-----------------------------------------------------------------------------
(* Restarts *)

\* What an instruction has written before it completes, it has passed or will
\* not pass without another access.
AheadInv ==
  \A f \in ahead : \E m \in 1 .. Len(Code) :
    /\ Code[m].op \in Writes /\ f \in UNION Code[m].groups
    /\ u > m \/ \E a \in 1 .. Len(Code) : a > m /\ Code[a].op = "access"

LEMMA AheadGrows ==
  ASSUME AheadInv, TypeOK, UNCHANGED <<prog, pc>>, u' >= u, Len(Code) \in Nat,
         u' \in Nat, u \in Nat,
         \A f \in ahead' \ ahead : /\ u \in 1 .. Len(Code) /\ u' > u
                                   /\ Code[u].op \in Writes
                                   /\ f \in UNION Code[u].groups
  PROVE  AheadInv'
<1>1. Code' = Code BY DEF Code
<1>2. SUFFICES ASSUME NEW f \in ahead'
               PROVE \E m \in 1 .. Len(Code) :
                 /\ Code[m].op \in Writes /\ f \in UNION Code[m].groups
                 /\ u' > m \/ \E a \in 1 .. Len(Code) : a > m /\ Code[a].op = "access"
  BY <1>1 DEF AheadInv
<1>3. CASE f \in ahead BY <1>3 DEF AheadInv
<1>4. CASE f \notin ahead BY <1>4
<1> QED BY <1>3, <1>4

LEMMA AheadStep ==
  ASSUME TableSound, ProgramAssumption, TypeOK, TypeOK', AheadInv, [Next]_vars
  PROVE  AheadInv'
<1>a. /\ Len(Code) \in Nat /\ u \in 1 .. (Len(Code) + 1) /\ u \in Nat
  BY CodeTyped DEF TypeOK
<1>1. CASE \/ UNCHANGED vars \/ Decode \/ Pass \/ \E k \in Pos : Forget(k)
           \/ Step \/ CountIdle \/ LeaveLoop \/ \E zero \in BOOLEAN : EcxIs0(zero)
  <2>1. UNCHANGED <<prog, pc, ahead>>
    BY <1>1 DEF vars, Decode, Pass, Forget, Step, CountIdle, LeaveLoop, EcxIs0,
       runVars, runOnly
  <2>2. u' \in Nat /\ u' >= u
    <3>1. CASE UNCHANGED vars \/ Decode \/ Pass \/ \E k \in Pos : Forget(k)
      BY <3>1, <1>a DEF vars, Decode, Pass, Forget, runVars
    <3>2. CASE Step \/ CountIdle \/ LeaveLoop \/ \E zero \in BOOLEAN : EcxIs0(zero)
      BY <3>2, <1>a DEF Step, CountIdle, LeaveLoop, EcxIs0, At, Running
    <3> QED BY <1>1, <3>1, <3>2
  <2> QED BY <2>1, <2>2, <1>a, AheadGrows
<1>2. CASE ComputeFlags \/ WriteAlways
  <2>1. /\ UNCHANGED <<prog, pc>> /\ u' = u + 1 /\ u \in 1 .. Len(Code)
        /\ Code[u].op \in Writes
    BY <1>2, <1>a DEF ComputeFlags, WriteAlways, At, Running, runOnly, Writes
  <2>2. \A f \in ahead' \ ahead : f \in UNION Code[u].groups
    BY <1>2 DEF ComputeFlags, WriteFlags, WriteAlways, Wanted
  <2> QED BY <2>1, <2>2, <1>a, AheadGrows
<1>3. CASE Fault
  <2>1. /\ UNCHANGED <<prog, pc, ahead>> /\ u \in 1 .. Len(Code)
        /\ Code[u].op = "access"
    BY <1>3, <1>a DEF Fault, At, Running, runOnly
  <2>2. Code' = Code BY <2>1 DEF Code
  <2>3. \A f \in ahead : \E m \in 1 .. Len(Code) :
          /\ Code[m].op \in Writes /\ f \in UNION Code[m].groups
          /\ \E a \in 1 .. Len(Code) : a > m /\ Code[a].op = "access"
    <3> SUFFICES ASSUME NEW f \in ahead
                 PROVE  \E m \in 1 .. Len(Code) :
                   /\ Code[m].op \in Writes /\ f \in UNION Code[m].groups
                   /\ \E a \in 1 .. Len(Code) : a > m /\ Code[a].op = "access"
      OBVIOUS
    <3>1. PICK m \in 1 .. Len(Code) :
            /\ Code[m].op \in Writes /\ f \in UNION Code[m].groups
            /\ u > m \/ \E a \in 1 .. Len(Code) : a > m /\ Code[a].op = "access"
      BY DEF AheadInv
    <3>2. \E a \in 1 .. Len(Code) : a > m /\ Code[a].op = "access"
      BY <3>1, <2>1
    <3> QED BY <3>1, <3>2
  <2> QED BY <2>1, <2>2, <2>3 DEF AheadInv
<1>4. CASE Retire \/ \E interrupt \in BOOLEAN : Repeat(interrupt)
  BY <1>4 DEF Retire, Repeat, Commit, AheadInv
<1> QED BY <1>1, <1>2, <1>3, <1>4 DEF Next

\* An instruction that starts again after an exception reads none of the flags
\* its first attempt has written, the rotations through the carry excepted.
THEOREM RestartsAlwaysClean ==
  ASSUME "IMUL1" \notin Insts
  PROVE  Spec => []OnlyRotationsReadTheirOwnCarry
<1>0. TableSound BY TableIsSound
<1>1. IInv /\ AheadInv => OnlyRotationsReadTheirOwnCarry
  <2> SUFFICES ASSUME IInv, AheadInv, prog[pc] \notin {"RCL", "RCR"},
                      Running, Code[u].op = "use"
               PROVE  (UNION Code[u].groups) \cap ahead = {}
    BY DEF OnlyRotationsReadTheirOwnCarry, RestartReadsOriginal
  <2> DEFINE read == UNION Code[u].groups
  <2> HIDE DEF read
  <2> SUFFICES ASSUME NEW f, f \in read, f \in ahead PROVE FALSE
    <3>1. read \cap ahead = {} OBVIOUS
    <3> QED BY <3>1 DEF read
  <2>1. /\ prog[pc] \in Insts /\ Sound(prog[pc]) /\ Len(Code) \in Nat
        /\ u \in 1 .. Len(Code)
    BY <1>0, CodeTyped DEF IInv, TypeOK, Running
  <2>2. DOMAIN Code = 1 .. Len(Code) BY <2>1 DEF Sound, Code
  <2>3. RestartsCleanly(prog[pc]) BY <2>1, TemplatesRestart, ProgramAssumption
  <2>4. PICK m \in 1 .. Len(Code) :
          /\ Code[m].op \in Writes /\ f \in UNION Code[m].groups
          /\ u > m \/ \E a \in 1 .. Len(Code) : a > m /\ Code[a].op = "access"
    BY DEF AheadInv
  <2>5. m > u /\ \A a \in 1 .. Len(Code) : a > m => Code[a].op # "access"
    <3>1. \E g \in UNION Code[u].groups : g \in UNION Code[m].groups
      BY <2>4 DEF read
    <3>2. u \in DOMAIN Template[prog[pc]] /\ m \in DOMAIN Template[prog[pc]]
      BY <2>1, <2>2 DEF Code
    <3>3. \A a \in DOMAIN Template[prog[pc]] :
            m > u /\ (a > m => Template[prog[pc]][a].op # "access")
      BY <3>1, <3>2, <2>3, <2>4 DEF RestartsCleanly, Code
    <3> QED BY <3>2, <3>3, <2>2 DEF Code
  <2> QED BY <2>1, <2>4, <2>5
<1>2. Init => AheadInv BY DEF Init, AheadInv
<1>3. IInv /\ AheadInv /\ [Next]_vars => AheadInv'
  BY <1>0, Inductive, AheadStep, ProgramAssumption DEF IInv
<1> QED BY <1>0, <1>1, <1>2, <1>3, Initially, Inductive, ProgramAssumption, PTL DEF Spec
=============================================================================
