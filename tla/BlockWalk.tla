----------------------------- MODULE BlockWalk ------------------------------
(***************************************************************************)
(* A client of the block layer: it walks a document block by block as the  *)
(* Parse functions of BitcodeReader do, entering, skipping or putting off  *)
(* the blocks it meets, suspends, comes back to a block it put off, and    *)
(* resumes.  The stream is what a writer made of Document.                 *)
(***************************************************************************)
EXTENDS BlockReader, BlockDocument

CONSTANT
  Document,  \* the items of the stream: records, abbreviations and blocks of items
  Function   \* the id of the blocks that may be put off

VARIABLES
  r,       \* the reader
  met,     \* the sub-block whose id was just read, if any
  event,   \* what the last Advance and ReadRecord delivered
  kept,    \* deferred_func_info_: the places of the blocks put off
  unread,  \* next_unread_bit_ while suspended
  frames,  \* history: where in Document the client is, innermost block first
  known,   \* history: the records of the first BLOCKINFO block read
  due      \* history: what the writer wrote there

vars == <<r, met, event, kept, unread, frames, known, due>>

-----------------------------------------------------------------------------
Happened(kind, what) == [kind |-> kind, what |-> what]

Delivered(a, record) ==
  CASE a.v.kind = "Record"   -> Happened("Record", record.v)
    [] a.v.kind = "SubBlock" -> Happened("SubBlock", <<a.v.id>>)
    [] OTHER                 -> Happened(a.v.kind, << >>)

Written(f, i) ==
  IF i = 0 THEN Happened("EndBlock", << >>)
  ELSE IF f.items[i].kind = "block" THEN Happened("SubBlock", <<f.items[i].id>>)
  ELSE Happened("Record", f.items[i].vals)

Awake == met = None /\ ~Failed(r)

Depth == Len(frames)

(* There is something to read: inside a block, or the top level's block.   *)
CanRead ==
  /\ Awake
  /\ unread # None => Depth > unread.depth
  /\ Depth = 1 => NextOf(Head(frames), {"block"}) # 0

Happens(a, i) ==
  LET record == ReadRecord(a.r, a.v.id)
      f      == Head(frames)
  IN  /\ r' = IF a.v.kind = "Record" THEN record.r ELSE a.r
      /\ event' = Delivered(a, record)
      /\ due' = Written(f, i)
      /\ frames' = IF i = 0 THEN Tail(frames) ELSE <<[f EXCEPT !.next = i + 1]>> \o Tail(frames)
      /\ met' = IF i # 0 /\ f.items[i].kind = "block" THEN f.items[i] ELSE None
      /\ UNCHANGED <<kept, unread, known>>

ReadItem ==
  /\ CanRead
  /\ Happens(Advance(r, TRUE), NextOf(Head(frames), {"record", "block"}))

ReadItemSkippingSubblocks ==
  /\ CanRead /\ Depth > 2
  /\ Happens(AdvanceSkippingSubblocks(r, TRUE), NextOf(Head(frames), {"record"}))

(* The result of a call on the block met: an error stops the client.       *)
After(call) == r' = IF call.v THEN Throw(call.r) ELSE call.r

EnterBlock ==
  /\ met # None /\ met.id # 0 /\ ~Failed(r)
  /\ After(EnterSubBlock(r, met.id))
  /\ frames' = <<Frame(met, InheritedBy(met.id, known))>> \o frames
  /\ met' = None
  /\ UNCHANGED <<event, kept, unread, known, due>>

SkipOver ==
  /\ met # None /\ ~Failed(r) /\ (met.id # 0 \/ Depth # 2)
  /\ After(SkipBlock(r))
  /\ met' = None
  /\ UNCHANGED <<event, kept, unread, frames, known, due>>

ReadInfo ==
  /\ met # None /\ met.id = 0 /\ Depth = 2 /\ ~Failed(r)
  /\ After(ReadBlockInfoBlock(r))
  /\ known' = IF known = << >> THEN InfosOf(met.items) ELSE known
  /\ met' = None
  /\ UNCHANGED <<event, kept, unread, frames, due>>

(* RememberAndSkipFunctionBody.                                            *)
PutOff ==
  /\ met # None /\ met.id = Function /\ ~Failed(r)
  /\ kept' = kept \cup {[bit |-> CurrBitNo(r.cursor), block |-> met]}
  /\ After(SkipBlock(r))
  /\ met' = None
  /\ UNCHANGED <<event, unread, frames, known, due>>

(* ParseModule returns behind a body it has put off or at the module's end.*)
Suspend ==
  /\ Awake /\ unread = None /\ kept # {}
  /\ Depth = 1 \/ (Depth = 2 /\ event = Happened("SubBlock", <<Function>>))
  /\ unread' = [kind |-> "bit", bit |-> CurrBitNo(r.cursor), depth |-> Depth]
  /\ UNCHANGED <<r, met, event, kept, frames, known, due>>

(* Materialize: jump to the body and enter it.                             *)
ComeBack(k) ==
  LET at == [r EXCEPT !.cursor = JumpToBit(@, k.bit)]
  IN  /\ Awake /\ unread # None /\ Depth = unread.depth
      /\ kept' = kept \ {k}
      /\ After(EnterSubBlock(at, k.block.id))
      /\ frames' = <<Frame(k.block, InheritedBy(k.block.id, known))>> \o frames
      /\ UNCHANGED <<met, event, unread, known, due>>

Resume ==
  /\ Awake /\ unread # None /\ Depth = unread.depth /\ Depth = 2
  /\ r' = [r EXCEPT !.cursor = JumpToBit(@, unread.bit)]
  /\ unread' = None
  /\ UNCHANGED <<met, event, kept, frames, known, due>>

(* ParseBitcodeInto reads the signature first.                             *)
Sniff ==
  LET b == Fetch(NewReader, 8)  c == Fetch(b.r, 8)  x == Fetch(c.r, 8)  y == Fetch(x.r, 8)
  IN  IF <<b.v, c.v, x.v, y.v>> = <<66, 67, 192, 222>> THEN y.r ELSE Throw(y.r)

Init ==
  /\ r = Sniff
  /\ met = None /\ kept = {} /\ unread = None /\ known = << >>
  /\ event = None /\ due = None
  /\ frames = <<Frame([items |-> Document, width |-> 2], << >>)>>

Next ==
  \/ ReadItem \/ ReadItemSkippingSubblocks
  \/ EnterBlock \/ SkipOver \/ ReadInfo \/ PutOff
  \/ Suspend \/ (\E k \in kept : ComeBack(k)) \/ Resume

Spec == Init /\ [][Next]_vars

-----------------------------------------------------------------------------
(* Every record, sub-block and end of block comes out as the writer put it *)
(* in, whatever blocks were entered, skipped or put off before, and when   *)
(* the client comes back to one.                                           *)
EventsMatch == event = due

(* No error is reported for a stream that a writer wrote.                  *)
NeverFails == ~Failed(r)

(* The width of the abbreviation ids and the abbreviations in force are    *)
(* those of the block the client is in, and those of every block around it *)
(* are kept for its end: EnterSubBlock and PopBlockScope keep the books of *)
(* the writer.                                                             *)
InForce(f) ==
  [width |-> f.width, abbrevs |-> f.inherited \o AbbrevsOf(SubSeq(f.items, 1, f.next - 1))]

ScopeMatches ==
  /\ Len(r.scope) = Depth - 1
  /\ InForce(Head(frames)) = [width |-> r.width, abbrevs |-> r.abbrevs]
  /\ \A i \in DOMAIN r.scope : r.scope[i] = InForce(frames[i + 1])
  /\ r.infos = known
=============================================================================
