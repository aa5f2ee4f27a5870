---------------------------- MODULE BlockWriter -----------------------------
(* A writer of the bitstream format: the bits of a document.               *)
EXTENDS BlockDocument, BlockReader

WriteBits(n, w) == [i \in 1 .. w |-> IF i > 30 THEN 0 ELSE (n \div 2 ^ (i - 1)) % 2]

WriteVBR(n, w) ==
  LET from[m \in 0 .. n] ==
        IF m < 2 ^ (w - 1) THEN WriteBits(m, w)
        ELSE WriteBits(m % 2 ^ (w - 1), w - 1) \o <<1>> \o from[m \div 2 ^ (w - 1)]
  IN  from[n]

Pad(bits) == bits \o WriteBits(0, (32 - (Len(bits) % 32)) % 32)

Concat(seqs) ==
  LET from[i \in 0 .. Len(seqs)] == IF i = 0 THEN << >> ELSE from[i - 1] \o seqs[i]
  IN  from[Len(seqs)]

WriteOp(op) ==
  CASE op.enc = "Literal" -> <<1>> \o WriteVBR(op.data, 8)
    [] op.enc = "Fixed"   -> <<0>> \o WriteBits(1, 3) \o WriteVBR(op.data, 5)
    [] op.enc = "VBR"     -> <<0>> \o WriteBits(2, 3) \o WriteVBR(op.data, 5)
    [] op.enc = "Array"   -> <<0>> \o WriteBits(3, 3)
    [] op.enc = "Char6"   -> <<0>> \o WriteBits(4, 3)
    [] op.enc = "Blob"    -> <<0>> \o WriteBits(5, 3)

WriteField(op, v) ==
  CASE op.enc = "Literal" -> << >>
    [] op.enc = "Fixed"   -> WriteBits(v, op.data)
    [] op.enc = "VBR"     -> WriteVBR(v, op.data)
    [] op.enc = "Char6"   -> WriteBits(CHOOSE c \in 0 .. 63 : DecodeChar6(c) = v, 6)

(* The record vals by the operands of an abbreviation, behind out: after   *)
(* the i-th operand.  An array's last operand is that of its elements.     *)
WriteAbbreviated(out, ops, vals) ==
  LET from[i \in 0 .. Len(ops)] ==
        IF i = 0 THEN out
        ELSE LET rest == SubSeq(vals, i, Len(vals))
             IN  IF i > 1 /\ ops[i - 1].enc = "Array" THEN from[i - 1]
                 ELSE CASE ops[i].enc = "Array" ->
                             from[i - 1] \o WriteVBR(Len(rest), 6)
                               \o Concat([k \in DOMAIN rest |-> WriteField(ops[i + 1], rest[k])])
                        [] ops[i].enc = "Blob" ->
                             Pad(Pad(from[i - 1] \o WriteVBR(Len(rest), 6))
                                 \o Concat([k \in DOMAIN rest |-> WriteBits(rest[k], 8)]))
                        [] OTHER -> from[i - 1] \o WriteField(ops[i], vals[i])
  IN  from[Len(ops)]

WriteRecord(out, item, width, abbrevs) ==
  IF item.by # 3
  THEN WriteAbbreviated(out \o WriteBits(item.by, width), abbrevs[item.by - 3], item.vals)
  ELSE out \o WriteBits(3, width) \o WriteVBR(item.vals[1], 6) \o WriteVBR(Len(item.vals) - 1, 6)
           \o Concat([i \in 1 .. Len(item.vals) - 1 |-> WriteVBR(item.vals[i + 1], 6)])

(* The items of a block behind out, when Inner writes those of the blocks  *)
(* in it.                                                                  *)
WriteItems(Inner(_, _), out, block, infos) ==
  LET items    == block.items
      abbrevs(i) == InheritedBy(block.id, infos) \o AbbrevsOf(SubSeq(items, 1, i))
      from[i \in 0 .. Len(items)] ==
        IF i = 0 THEN out
        ELSE CASE items[i].kind = "abbrev" ->
                    from[i - 1] \o WriteBits(2, block.width) \o WriteVBR(Len(items[i].ops), 5)
                      \o Concat([k \in DOMAIN items[i].ops |-> WriteOp(items[i].ops[k])])
               [] items[i].kind = "record" ->
                    WriteRecord(from[i - 1], items[i], block.width, abbrevs(i))
               [] items[i].kind = "block" ->
                    LET body == Pad(Inner(items[i], infos) \o WriteBits(0, items[i].width))
                    IN  Pad(from[i - 1] \o WriteBits(1, block.width) \o WriteVBR(items[i].id, 8)
                              \o WriteVBR(items[i].width, 4))
                          \o WriteBits(Len(body) \div 32, 32) \o body
  IN  from[Len(items)]

NoBlocks(block, infos) == << >>
Inner1(block, infos) == WriteItems(NoBlocks, << >>, block, infos)
Inner2(block, infos) == WriteItems(Inner1, << >>, block, infos)
Inner3(block, infos) == WriteItems(Inner2, << >>, block, infos)

Signature == WriteBits(66, 8) \o WriteBits(67, 8) \o WriteBits(192, 8) \o WriteBits(222, 8)

(* Blocks are three deep.                                                  *)
WriteDocument(items, infos) ==
  WriteItems(Inner3, Signature, [id |-> NoBlock, width |-> 2, items |-> items], infos)
=============================================================================
