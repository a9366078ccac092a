----------------------------- MODULE InstrStream -----------------------------
(***************************************************************************)
(* The two readers and writers of instruction buffers in experiments/:     *)
(* parse_insts and InstrBuffer.build of instr_compiler.py, parse_commands  *)
(* and build of npu_compiler.py.  A buffer is a sequence of half words; a  *)
(* field that a command carries is a name of its own, so that a buffer     *)
(* tells which command each of its bytes comes from.                       *)
(***************************************************************************)
EXTENDS Integers, Sequences, SequencesExt

CONSTANTS
  MaxCommands   \* bound: the commands of a template

Kind == {"WRITE", "BLOCKWRITE", "MASKWRITE", "SYNC", "DDR_PATCH"}
Tool == {"instr_compiler", "npu_compiler"}

VARIABLES
  tool,
  template,  \* the kinds of the commands of the buffer that is read
  data,      \* its half words
  offset,    \* the half word the parser is at
  rounds,    \* rounds of the loop of parse_insts so far
  cmds,      \* the commands it has kept, by their places in the template
  stage,     \* parse, pack, built
  rebuilt

vars == <<tool, template, data, offset, rounds, cmds, stage, rebuilt>>

-----------------------------------------------------------------------------
(* The format, as the comment of instr_compiler.py gives it.               *)
Half(f)  == <<f>>
Word(f)  == <<f, f>>
Zeros(n) == [h \in 1 .. 2 * n |-> "0"]
Op(kind) == <<kind, "0">>
Words(fields) == FlattenSeq([j \in DOMAIN fields |-> Word(fields[j])])

Field(i, name) == <<i, name>>
Fields(i, names) == [j \in DOMAIN names |-> Field(i, names[j])]
Bd(i) == [j \in 1..8 |-> <<i, "bd", j>>]

Encoded(kind, i) ==
  CASE kind = "WRITE" ->
         Op(kind) \o Zeros(1) \o Words(Fields(i, <<"addr_lo", "addr_hi", "value">>)) \o Word(24)
    [] kind = "BLOCKWRITE" ->
         Op(kind) \o Zeros(1) \o Words(Fields(i, <<"addr">>)) \o Word(48) \o Words(Bd(i))
    [] kind = "MASKWRITE" ->
         Op(kind) \o Zeros(1)
           \o Words(Fields(i, <<"addr_lo", "addr_hi", "value", "mask">>)) \o Word(28)
    [] kind = "SYNC" ->
         Op(kind) \o Word(16) \o Words(Fields(i, <<"descriptor", "config">>))
    [] kind = "DDR_PATCH" ->
         Op(kind) \o Word(48) \o Zeros(4) \o Words(Fields(i, <<"patch_addr">>)) \o Zeros(1)
           \o Words(Fields(i, <<"arg_idx">>)) \o Zeros(1)
           \o Words(Fields(i, <<"arg_plus">>)) \o Zeros(1)

Header(ops, halves) == Word("hdr0") \o Word("0x108") \o Word(ops) \o Word(2 * halves)
WithHeader(ops, body) == Header(ops, 8 + Len(body)) \o body

-----------------------------------------------------------------------------
(* What the parsers step over, in half words, and what they keep.  Words   *)
(* of no known command, which they skip, are in no buffer of the format.   *)
StepSize(kind) ==
  CASE kind = "WRITE" -> 12 [] kind = "BLOCKWRITE" -> 24 [] kind = "MASKWRITE" -> 14
    [] kind = "SYNC" -> 8 [] kind = "DDR_PATCH" -> 24

Keeps(t, kind) ==
  t = "npu_compiler" \/ kind \in {"WRITE", "BLOCKWRITE", "DDR_PATCH"}

(* WriteCmd.pack, BlockWriteCmd.pack, DdrPatchCmd.pack: the opcode and its *)
(* padding take three half words, the last word of DDR_PATCH is left out.  *)
CmdPack(kind, i) ==
  CASE kind = "WRITE" ->
         Op(kind) \o Half("0") \o Words(Fields(i, <<"addr_lo", "addr_hi", "value">>)) \o Word(24)
    [] kind = "BLOCKWRITE" ->
         Op(kind) \o Half("0") \o Words(Fields(i, <<"addr">>)) \o Word(48) \o Words(Bd(i))
    [] OTHER -> SubSeq(Encoded(kind, i), 1, 22)

(* pack_commands: other commands are passed through as they were read.     *)
PackCommand(kind, i) ==
  IF kind = "DDR_PATCH" THEN SubSeq(Encoded(kind, i), 1, 22) ELSE Encoded(kind, i)

Packed(i) ==
  IF tool = "instr_compiler" THEN CmdPack(template[i], i) ELSE PackCommand(template[i], i)

-----------------------------------------------------------------------------
Buffer(kinds) ==
  WithHeader(Len(kinds), FlattenSeq([i \in DOMAIN kinds |-> Encoded(kinds[i], i)]))

Init ==
  /\ tool \in Tool
  /\ \E n \in 0..MaxCommands : template \in [1..n -> Kind]
  /\ data = Buffer(template)
  /\ offset = 8 /\ rounds = 0
  /\ cmds = <<>>
  /\ stage = "parse"
  /\ rebuilt = <<>>

(* parse_insts makes as many rounds as the header says there are commands, *)
(* parse_commands goes on to the end of the data.                          *)
More ==
  /\ offset < Len(data)
  /\ tool = "instr_compiler" => rounds < Len(template)

CommandAt(at) ==
  CHOOSE i \in DOMAIN template :
    at = 8 + Len(FlattenSeq([j \in 1 .. i - 1 |-> Encoded(template[j], j)]))

ParseCommand ==
  /\ stage = "parse" /\ More
  /\ LET kind == data[offset + 1]
     IN  /\ offset' = offset + StepSize(kind)
         /\ cmds' = IF Keeps(tool, kind) THEN Append(cmds, CommandAt(offset)) ELSE cmds
  /\ rounds' = rounds + 1
  /\ UNCHANGED <<tool, template, data, stage, rebuilt>>

StartBuild ==
  /\ stage = "parse" /\ ~More
  /\ stage' = "pack"
  /\ UNCHANGED <<tool, template, data, offset, rounds, cmds, rebuilt>>

(* build: InstrBuffer writes a header of its own, NpuCompiler is given the *)
(* one of the template.                                                    *)
Build ==
  /\ stage = "pack"
  /\ LET body == FlattenSeq([j \in DOMAIN cmds |-> Packed(cmds[j])])
     IN  rebuilt' = IF tool = "instr_compiler" THEN WithHeader(Len(cmds), body)
                    ELSE SubSeq(data, 1, 8) \o body
  /\ stage' = "built"
  /\ UNCHANGED <<tool, template, data, offset, rounds, cmds>>

Next == ParseCommand \/ StartBuild \/ Build

Spec == Init /\ [][Next]_vars

-----------------------------------------------------------------------------
(* A buffer that is parsed and built again without a change is the buffer  *)
(* that was read, in every byte.                                           *)
RoundTrip == stage = "built" => rebuilt = data
=============================================================================
