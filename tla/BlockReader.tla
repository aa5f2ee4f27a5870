---------------------------- MODULE BlockReader -----------------------------
(***************************************************************************)
(* The block layer of BitStreamCursor (BitstreamReader.cpp): abbreviation  *)
(* ids, blocks with their scopes, abbreviations, the BLOCKINFO block,      *)
(* records, and skipping a block to come back to it.  An operator takes    *)
(* the reader r and returns the reader after the call with its result v.   *)
(***************************************************************************)
EXTENDS BitWord

CONSTANT
  Uint  \* the numbers of a uint32_t, 2^32 in the build

ASSUME UintAssumption == Uint \in Nat \ {0} /\ Uint % 32 = 0

(* cursor as in BitWord; curr_code_size_, curr_abbrevs_, block_scope_ with *)
(* the innermost block first, and block_info_records_.                     *)
NewReader ==
  [cursor |-> NewCursor, width |-> 2, abbrevs |-> << >>, scope |-> << >>, infos |-> << >>]

Result(r, v) == [r |-> r, v |-> v]

(* The rest of a function, after a call with this result.                  *)
Then(result, Rest(_, _)) == Rest(result.r, result.v)

Failed(r) == r.cursor.fatal

(* ReportFatalError and DILITHIUM_UNREACHABLE.                             *)
Throw(r) == [r EXCEPT !.cursor.fatal = TRUE]

Num(bits) ==
  LET from[i \in 1 .. Len(bits) + 1] ==
        IF i > Len(bits) THEN 0 ELSE bits[i] + 2 * from[i + 1]
  IN  from[1]

On(r, answer) == Result([r EXCEPT !.cursor = answer.cursor], Num(answer.bits))

Fetch(r, n) == On(r, Read(r.cursor, n))

Align(r) == [r EXCEPT !.cursor = SkipToFourByteBoundary(r.cursor)]

(* ReadVBR and ReadVBR64 differ only above 2^32.                           *)
RECURSIVE ReadVBR(_, _)
ReadVBR(r, n) ==
  Then(Fetch(r, n), LAMBDA r1, piece :
    IF piece < 2 ^ (n - 1) THEN Result(r1, piece)
    ELSE Then(ReadVBR(r1, n), LAMBDA r2, rest : Result(r2, (piece - 2 ^ (n - 1)) + 2 ^ (n - 1) * rest)))

-----------------------------------------------------------------------------
(* Abbreviations: a sequence of operands [enc, data].                      *)
Encodings == [k \in 1 .. 5 |-> <<"Fixed", "VBR", "Array", "Char6", "Blob">>[k]]

Op(enc, data) == [enc |-> enc, data |-> data]

(* One operand; a fixed or VBR field of no bits is the literal 0.          *)
ReadOperandData(r, enc) ==
  Then(ReadVBR(r, 5), LAMBDA r1, bits :
    IF bits = 0 THEN Result(r1, Op("Literal", 0))
    ELSE IF bits > Word THEN Result(Throw(r1), Op("Literal", 0))
    ELSE Result(r1, Op(enc, bits)))

ReadOperand(r) ==
  Then(Fetch(r, 1), LAMBDA r1, isLiteral :
    IF isLiteral = 1
    THEN Then(ReadVBR(r1, 8), LAMBDA r2, v : Result(r2, Op("Literal", v)))
    ELSE Then(Fetch(r1, 3), LAMBDA r2, enc :
           IF enc \notin DOMAIN Encodings THEN Result(Throw(r2), Op("Literal", 0))
           ELSE IF Encodings[enc] \in {"Fixed", "VBR"} THEN ReadOperandData(r2, Encodings[enc])
           ELSE Result(r2, Op(Encodings[enc], 0))))

RECURSIVE ReadOperands(_, _)
ReadOperands(r, n) ==
  IF n = 0 \/ Failed(r) THEN Result(r, << >>)
  ELSE Then(ReadOperand(r), LAMBDA r1, first :
         Then(ReadOperands(r1, n - 1), LAMBDA r2, rest : Result(r2, <<first>> \o rest)))

ReadAbbrevRecord(r) ==
  Then(ReadVBR(r, 5), LAMBDA r1, n :
    Then(ReadOperands(r1, n), LAMBDA r2, ops :
      IF ops = << >> THEN Throw(r2) ELSE [r2 EXCEPT !.abbrevs = Append(@, ops)]))

-----------------------------------------------------------------------------
(* DecodeChar6: [a-zA-Z0-9._] as their codes.                              *)
DecodeChar6(v) ==
  CASE v < 26 -> 97 + v [] v \in 26 .. 51 -> 65 + v - 26 [] v \in 52 .. 61 -> 48 + v - 52
    [] v = 62 -> 46 [] OTHER -> 95

ReadAbbreviatedField(r, op) ==
  CASE op.enc = "Fixed" -> Fetch(r, op.data)
    [] op.enc = "VBR"   -> ReadVBR(r, op.data)
    [] op.enc = "Char6" -> Then(Fetch(r, 6), LAMBDA r1, c : Result(r1, DecodeChar6(c)))
    [] OTHER            -> Result(Throw(r), 0)

RECURSIVE ReadElems(_, _, _)
ReadElems(r, op, n) ==
  IF n = 0 \/ Failed(r) THEN Result(r, << >>)
  ELSE Then(ReadAbbreviatedField(r, op), LAMBDA r1, first :
         Then(ReadElems(r1, op, n - 1), LAMBDA r2, rest : Result(r2, <<first>> \o rest)))

(* MemStreamBuf::seekoff does go to the end of the buffer.                 *)
GoToEnd(c) ==
  IF c.bad THEN [c EXCEPT !.next = Npos] ELSE [c EXCEPT !.at = Size, !.next = Size]

(* A blob of n bytes is read past the cursor, straight from the buffer; one*)
(* that does not fit ends the record, with zeros.                          *)
Blob(bytes, fits) == [bytes |-> bytes, fits |-> fits]

ReadAligned(r, n, start) ==
  LET end == start + ((4 * ((n + 3) \div 4) * 8) % Uint)
  IN  IF CanSkipTo(end)
      THEN Result([r EXCEPT !.cursor = JumpToBit(@, end)],
                  Blob([i \in 1 .. n |-> Num(SubSeq(Stream, start + 8 * (i - 1) + 1, start + 8 * i))], TRUE))
      ELSE Result([r EXCEPT !.cursor = GoToEnd(@)], Blob(Zeros(n), FALSE))

ReadBlob(r) ==
  Then(ReadVBR(r, 6), LAMBDA r1, n :
    Then(Result(Align(r1), n), LAMBDA r2, bytes : ReadAligned(r2, bytes, CurrBitNo(r2.cursor))))

(* An array takes the last operand as the encoding of its elements.        *)
ReadArray(r, ops, i) ==
  Then(ReadVBR(r, 6), LAMBDA r1, n :
    IF i + 1 # Len(ops) \/ ops[Len(ops)].enc \in {"Literal", "Array", "Blob"} THEN Result(Throw(r1), << >>)
    ELSE ReadElems(r1, ops[i + 1], n))

ReadScalar(r, op) == IF op.enc = "Literal" THEN Result(r, op.data) ELSE ReadAbbreviatedField(r, op)

(* The operands of an abbreviation from the i-th on.                       *)
RECURSIVE ReadAbbreviated(_, _, _)
ReadAbbreviated(r, ops, i) ==
  IF i > Len(ops) \/ Failed(r) THEN Result(r, << >>)
  ELSE IF ops[i].enc = "Array" THEN ReadArray(r, ops, i)
  ELSE IF ops[i].enc = "Blob"
    THEN Then(ReadBlob(r), LAMBDA r1, blob :
           IF ~blob.fits THEN Result(r1, blob.bytes)
           ELSE Then(ReadAbbreviated(r1, ops, i + 1), LAMBDA r2, rest : Result(r2, blob.bytes \o rest)))
  ELSE Then(ReadScalar(r, ops[i]), LAMBDA r1, v :
         Then(ReadAbbreviated(r1, ops, i + 1), LAMBDA r2, rest : Result(r2, <<v>> \o rest)))

(* ReadRecord: the code, then the values.                                  *)
ReadUnabbreviated(r) ==
  Then(ReadVBR(r, 6), LAMBDA r1, code :
    Then(ReadVBR(r1, 6), LAMBDA r2, n :
      Then(ReadElems(r2, Op("VBR", 6), n), LAMBDA r3, vals : Result(r3, <<code>> \o vals))))

ReadRecord(r, id) ==
  IF id = 3 THEN ReadUnabbreviated(r)
  ELSE IF id - 3 \notin DOMAIN r.abbrevs THEN Result(Throw(r), << >>)
  ELSE IF r.abbrevs[id - 3][1].enc \in {"Array", "Blob"} THEN Result(Throw(r), << >>)
  ELSE ReadAbbreviated(r, r.abbrevs[id - 3], 1)

-----------------------------------------------------------------------------
(* Blocks.  GetBlockInfo finds the records of a block id.                  *)
InfoIndices(r, id) == {i \in DOMAIN r.infos : r.infos[i].id = id}

(* Mutant: only the block information added last is looked at.             *)
GetLastBlockInfo(r, id) ==
  IF Len(r.infos) \notin InfoIndices(r, id) THEN << >> ELSE r.infos[Len(r.infos)].abbrevs

GetBlockInfo(r, id) ==
  IF InfoIndices(r, id) = {} THEN << >> ELSE r.infos[CHOOSE i \in InfoIndices(r, id) : TRUE].abbrevs

(* Mutant: the abbreviations of the block around stay in force.            *)
PushBlockScopeKeepsAbbrevs(r, id) ==
  [r EXCEPT !.scope = <<[width |-> r.width, abbrevs |-> r.abbrevs]>> \o @,
            !.abbrevs = @ \o GetBlockInfo(r, id)]

PushBlockScope(r, id) ==
  [r EXCEPT !.scope = <<[width |-> r.width, abbrevs |-> r.abbrevs]>> \o @,
            !.abbrevs = GetBlockInfo(r, id)]

PopBlockScope(r) ==
  [r EXCEPT !.width = Head(r.scope).width, !.abbrevs = Head(r.scope).abbrevs, !.scope = Tail(@)]

(* v is what the call returns: TRUE for an error.                          *)
AtEnd(r) ==
  LET end == AtEndOfStream(r.cursor) IN Result([r EXCEPT !.cursor = end.cursor], end.bits = <<1>>)

EnterSubBlock(r, id) ==
  Then(ReadVBR(PushBlockScope(r, id), 4), LAMBDA r1, width :
    IF width > Word THEN Result([r1 EXCEPT !.width = width], TRUE)
    ELSE Then(Fetch(Align([r1 EXCEPT !.width = width]), 32), LAMBDA r2, words :
           IF width = 0 THEN Result(r2, TRUE) ELSE AtEnd(r2)))

(* words * 32 as a uint32_t.                                               *)
BitsIn(words) == (words % (Uint \div 32)) * 32

SkipTo(r, place) ==
  Then(AtEnd(r), LAMBDA r1, atEnd :
    IF atEnd \/ ~CanSkipTo(place) THEN Result(r1, TRUE)
    ELSE Result([r1 EXCEPT !.cursor = JumpToBit(@, place)], FALSE))

(* Mutant: the size is counted from the size word itself.                  *)
SkipBlockFromSize(r) ==
  Then(ReadVBR(r, 4), LAMBDA r1, width :
    Then(Fetch(Align(r1), 32), LAMBDA r2, words :
      SkipTo(r2, CurrBitNo(r2.cursor) - 32 + BitsIn(words))))

SkipBlock(r) ==
  Then(ReadVBR(r, 4), LAMBDA r1, width :
    Then(Fetch(Align(r1), 32), LAMBDA r2, words :
      SkipTo(r2, CurrBitNo(r2.cursor) + BitsIn(words))))

ReadBlockEnd(r) ==
  IF r.scope = << >> THEN Result(r, TRUE) ELSE Result(PopBlockScope(Align(r)), FALSE)

Entry(kind, id) == [kind |-> kind, id |-> id]

(* auto is FALSE under AF_DontAutoprocessAbbrevs.                          *)
RECURSIVE Advance(_, _)
Advance(r, auto) ==
  Then(Fetch(r, r.width), LAMBDA r1, code :
    IF Failed(r1) THEN Result(r1, Entry("Thrown", 0))
    ELSE IF code = 0
      THEN Then(ReadBlockEnd(r1), LAMBDA r2, bad : Result(r2, Entry(IF bad THEN "Error" ELSE "EndBlock", 0)))
    ELSE IF code = 1
      THEN Then(ReadVBR(r1, 8), LAMBDA r2, id : Result(r2, Entry("SubBlock", id)))
    ELSE IF code = 2 /\ auto THEN Advance(ReadAbbrevRecord(r1), auto)
    ELSE Result(r1, Entry("Record", code)))

RECURSIVE AdvanceSkippingSubblocks(_, _)
AdvanceSkippingSubblocks(r, auto) ==
  Then(Advance(r, auto), LAMBDA r1, entry :
    IF entry.kind # "SubBlock" THEN Result(r1, entry)
    ELSE Then(SkipBlock(r1), LAMBDA r2, bad :
           IF bad THEN Result(r2, Entry("Error", 0)) ELSE AdvanceSkippingSubblocks(r2, auto)))

-----------------------------------------------------------------------------
(* The BLOCKINFO block: curr is the block id that SETBID chose, if any.    *)
NoBlock == 0 - 1

GetOrCreateBlockInfo(r, id) ==
  IF InfoIndices(r, id) # {} THEN r ELSE [r EXCEPT !.infos = Append(@, [id |-> id, abbrevs |-> << >>])]

(* The abbreviation just read moves from the cursor to the block's records.*)
MoveAbbrev(r, id) ==
  [r EXCEPT !.abbrevs = SubSeq(@, 1, Len(@) - 1),
            !.infos = [i \in DOMAIN @ |->
                        IF i \in InfoIndices(r, id)
                        THEN [@[i] EXCEPT !.abbrevs = Append(@, r.abbrevs[Len(r.abbrevs)])]
                        ELSE @[i]]]

(* A record of BLOCKINFO; v is the block id chosen from then on, or        *)
(* Malformed where the call returns with an error.                         *)
Malformed == 0 - 2

HandleInfoRecord(r, vals, curr) ==
  IF vals[1] = 1 /\ Len(vals) > 1 THEN Result(GetOrCreateBlockInfo(r, vals[2]), vals[2])
  ELSE Result(r, IF vals[1] = 1 \/ (vals[1] \in {2, 3} /\ curr = NoBlock) THEN Malformed ELSE curr)

HandleInfoEntry(r, id, curr) ==
  IF id # 2 THEN Then(ReadRecord(r, id), LAMBDA r1, vals :
                   IF Failed(r1) THEN Result(r1, Malformed) ELSE HandleInfoRecord(r1, vals, curr))
  ELSE IF curr = NoBlock THEN Result(r, Malformed)
  ELSE Then(Result(ReadAbbrevRecord(r), curr), LAMBDA r1, same :
         IF Failed(r1) THEN Result(r1, Malformed) ELSE Result(MoveAbbrev(r1, same), same))

RECURSIVE ReadBlockInfoRecords(_, _)
ReadBlockInfoRecords(r, curr) ==
  Then(AdvanceSkippingSubblocks(r, FALSE), LAMBDA r1, entry :
    IF entry.kind # "Record" THEN Result(r1, entry.kind # "EndBlock")
    ELSE Then(HandleInfoEntry(r1, entry.id, curr), LAMBDA r2, next :
           IF next = Malformed THEN Result(r2, TRUE) ELSE ReadBlockInfoRecords(r2, next)))

(* Only the first BLOCKINFO block of a stream is read.                     *)
ReadBlockInfoBlock(r) ==
  IF r.infos # << >> THEN SkipBlock(r)
  ELSE Then(EnterSubBlock(r, 0), LAMBDA r1, bad :
         IF bad THEN Result(r1, TRUE) ELSE ReadBlockInfoRecords(r1, NoBlock))
=============================================================================
