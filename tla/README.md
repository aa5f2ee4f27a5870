# A verification development for Dilithium

Dilithium reads DXIL, the LLVM 3.7 bitcode that the DirectX shader compiler
puts into its containers, builds an LLVM-like module in memory and prints it as
assembly text. It is a single-threaded C++ library (`Src/`, `Include/`) with a
small command line tool. What is hard in it is not parallelism but order: a
reader that suspends in the middle of a block and comes back, callbacks that run
client code in the middle of a list walk, tables that several objects must keep
in step, and replacement of objects that others still refer to.

This directory holds TLA+ modules translated from that code, TLC configurations
that check them on small instances, and theorems that TLAPS proves for all
values of the constants. All line numbers are of the files under `src/`.

## 1. Inventory

| component (main files) | state | operations | interacts with | what is hard |
|---|---|---|---|---|
| Value handles (`ValueHandle.cpp`) | per value an intrusive list of handles whose head is in `LLVMContextImpl::value_handles`; the value's `has_value_handle_` bit | construct, copy, assign, destroy; `ValueIsDeleted`, `ValueIsRAUWd` | `Value`'s destructor and `ReplaceAllUsesWith`; the reader's value list holds weak handles | callbacks change the list that is being walked, and start walks of their own; map, bit and heads must agree |
| Bit cursor (`BitstreamReader.cpp`, `MemStreamBuf.cpp`) | position, buffered word, size once known; eof/fail bits of the shared `istream` | `Read`, `ReadVBR`, `JumpToBit`, `SkipToFourByteBoundary`, `AtEndOfStream` | block layer | reads that straddle words; jumps with a filled window; an error state that nobody clears |
| Block layer (`BitstreamReader.cpp`, `BitCodes.hpp`) | stack of scopes (width, abbreviations), abbreviations by block id | `Advance`, `EnterSubBlock`, `SkipBlock`, `ReadRecord`, `ReadAbbrevRecord`, `ReadBlockInfoBlock` | bit cursor below, module reader above | scope must match the place in the stream, also after a jump into a block put off long before |
| Module reader, lazy loading (`BitcodeReader.cpp`, `LLVMModule.cpp`) | value and metadata tables, functions with bodies, places of bodies and metadata put off, `next_unread_bit_`, initialisers | `ParseModule` with suspension, `Materialize`, `MaterializeModule`, `MaterializeMetadata`, `ParseFunctionBody` | block layer; builds values, uses, metadata | bodies matched with functions by order alone; tables extended for a body and cut back; resumption |
| Records of the reader (`BitcodeReader.cpp`) | value and metadata tables, the next value number, functions waiting for a body | one decoder per record; `AssignValue`, lookups by number and type, `shrink` | lazy loading (order of the items), types, attributes, metadata, symbol table | everything is referred to by number, absolute or relative, in tables that grow and are cut back |
| Use lists (`Use.cpp`, `User.cpp`, `Value.cpp`) | per value a doubly linked list of uses; tag bits that encode the distance to the owner | `Set`, `Swap`, `ReplaceAllUsesWith`, `SortUseList`, `GetUser` | handles, metadata (replacement notifies both) | a list changed while it is walked; waymarks |
| Value symbol table (`ValueSymbolTable.cpp`, `SymbolTableList.hpp`, `Value.cpp`) | names by hash; a name per value | `ReinsertValue`, `CreateValueName`, `RemoveValueName` | lists of functions, blocks and instructions | renaming on collision in step with the table |
| Metadata (`Metadata.cpp`, `MetadataTracking.cpp`) | uniquing store, wrappers of values and of metadata, tracked uses | `Get`, `ReplaceAllUsesWith`, `HandleChangedOperand`, `HandleDeletion`, `HandleRAUW` | values, context | re-uniquing while the references are being replaced |
| Printer (`AsmWriter.cpp`) | numbers of types, metadata, attribute groups and the locals of one function | `ProcessModule`, `ProcessFunction`, `IncorporateFunction`, `PurgeFunction`, `Print...` | modules, metadata, attributes | numbering at the first question; per-function purge |
| Attributes (`Attributes.cpp`, `AttributeImpl.cpp`) | attributes, sets and lists, each made once per context | `Get`, merging by slot, `GetFnAttributes`, text | reader, printer | the same attributes must be the same object, in whatever order they come |
| Types (`Type.cpp`, `DerivedType.cpp`), context | uniquing tables | `Get`, `TypeByID` | everything | equality is equality of addresses |
| Data layout (`DataLayout.cpp`) | alignments, sorted pointer layouts, flags | `ParseSpecifier`, `SetAlignment`, sizes and alignments | module | overriding and best matches |
| Arithmetic (`MPInt.cpp`, `Half.cpp`) | a word and a width | arithmetic, shifts, resizing, conversions | constants, printer | boundaries of widths |
| DXIL module (`DxilModule.cpp`, `DxilMdHelper.cpp`, ...) | the shader's signatures and properties | `LoadDxilMetadata` | metadata, tool | a load that throws in the middle; elements interpreted by tables |
| DXIL tables (`DxilOperations.cpp`, `DxilSigPoint.cpp`, `DxilCompType.cpp`, ...) | none | lookups by number, name or combination | DXIL module, tool | tables in different orders that must agree |
| DXIL container and disassembler (`DxilContainer.cpp`, `DilithiumDisasm.cpp`) | the file | validation, lookup, `Disassemble` | all of the above | sizes that wrap at 2^32; several parts to choose from |

`PROJECT.json` lists every component with its status, and the hazards with the
line where each bites. What makes each component correct is stated as its
properties, in section 3.

How the parts interact when a file is loaded: the tool finds the DXIL part of a
container and calls `LoadLLVMModule`; `ParseBitcodeInto` checks the signature and
runs `ParseModule`, which reads the module's block through the block layer and
stops behind the first function body; `MaterializeAllPermanently` then makes
`MaterializeModule` visit each function, jump to its body (resuming `ParseModule`
when its place is not known yet), read the rest and drop the reader. The tool then
lists the other parts of the container, asks the module for its `DxilModule`, which is
loaded from the named metadata at the first call, lists the signatures, and prints the
module, with a note behind each call of an operation of DXIL.

## 2. Modules

    IntrusiveList ── ValueHandles ── MC_ValueHandles        HandleContract (abstract)
          ├ UseLists ── MC_UseLists
          └ IntrusiveListProofs ┬ ValueHandlesProofs
                                └ UseListsProofs         SequenceProofs
    BitWord ── BitstreamCursor                               BitSource (abstract)
       │             └ BitstreamCursorProofs
       └ BlockReader ── BlockWalk ── MC_BlockWalk
                BlockDocument, BlockWriter (the other side: a writer)
    LazyDocument ── LazyReader ── MC_LazyReader              LazyModule (abstract)
                        └ LazyReaderProofs (with SequenceProofs)
    SymbolTable ── MC_SymbolTable
         └ SymbolTableProofs (with SequenceProofs)
    Records ── MC_Records           Printer ── MC_Printer    Attributes
    Disassembler ── MC_Disassembler
    DxilTables, DxilKinds ── DxilModule ── MC_DxilModule
    Types, UseOrder, Arithmetic, DataLayout, DxilOperations
          └ with all of the last three lines: MC_Parts, which also holds their inputs
    Metadata ── MC_Parts
          └ MetadataProofs (with SequenceProofs)

**IntrusiveList, ValueHandles** (`ValueHandle.cpp`). The lists are modelled
pointer by pointer: `val`, `prev`, `next` of each handle, where `prev` is the
address of a slot (the `next` of a handle or the head of a value's entry), and
`head` of each value; with the keys of the map and the bit of each value they are
the record `table`. Each member function is one operator on `table` and one
action of the client. A deletion or replacement walk is modelled visit by visit
on a stack `walks`, because visiting a Callback handle runs client code: an
overridden callback leaves the walk in `pc = "callback"`, during which every
client action, nested deletions and replacements included, is enabled, until
`ReturnFromCallback`. The three kinds of built-in reactions are `Notify`.
`DILITHIUM_UNREACHABLE` is `outcome = "failed"`. `HandleContract` says what
handles are for: a client's handles refer to values or to nothing, and a value is
freed only when no handle refers to it.

**UseLists** (`Use.cpp`, `User.cpp`, `Value.cpp` 225-376, the destructors of
module, function, block and instruction). The same lists, with uses as nodes and
values as owners: `list` is their pointers, `alive` the values constructed and not
destroyed. `Set`, `Swap`, `RemoveFromList` are operators; instructions are appended
to their blocks and their operands set and swapped in any order. The two
replacements are modelled use by use in `walk`. `GetUser`, which both call, is its
outcome: it returns an address at which no `User` lies, so its answer is any of
`Answers`. The destructor of the module is a list of `errands`, computed once in the
order in which the destructors of the code reset operands and destroy values, and
then carried out one by one.

**BitWord, BitstreamCursor** (`BitstreamReader.cpp` 211-350, 709-720;
`MemStreamBuf.cpp` 73-164). `BitWord` has the operations of the cursor as
operators on a record: place of the buffer, error state of the stream,
`next_char_`, `size_`, the bits left in `curr_word_`, and whether the cursor threw.
`BitstreamCursor` is a client that calls them in any order and records what it
asked for and what it got. `BitSource` is the abstract source: a place in a
sequence of bits. Constants are the stream and the width of half a word, so the
proofs hold for 32- and 64-bit words alike.

**BlockReader, BlockWalk** (`BitstreamReader.cpp`, `BitCodes.hpp`). `BlockReader`
is the block layer over the bits of `BitWord`, in continuation style: `Then(result,
LAMBDA r1, v : ...)` is the sequencing of C++, with errors passed on. `BlockWalk`
is a client with the shape of `BitcodeReader`'s parse functions: it enters, skips
or puts off each block, reads records, suspends, jumps back to a block put off
and resumes. The streams are literal bytes in `MC_BlockWalk`; they are tied to
documents by an assumption that TLC evaluates (`StreamsAreWritten`), using the
writer of `BlockWriter` and the format of `BlockDocument`. The writer is not part
of the repository, which only reads; it is the reference the reader is compared to.

**LazyReader** (`BitcodeReader.cpp` 618-739, 922-1033, 1926-2378, 2707-2722;
`LLVMModule.cpp` 107-121). One action per item of the module's block and per item
of a function body, on the reader's own tables. The bits of an item are
`BlockReader`'s subject, so the cursor here is the number of the next item.
`LazyDocument` describes a module as its writer sees it and computes from it,
without any table, which values each id stands for and what each function
contains. `LazyModule` is the abstract specification: functions appear one by
one, whole and as written, and the materializer goes when all are there. The
client makes the calls of `GVMaterializer` in any order; `LoadLLVMModule` is the
behaviour that calls `MaterializeModule` at once.

**SymbolTable** (`ValueSymbolTable.cpp`, `SymbolTableList.hpp`, `Value.cpp` 90-149 and
262-315, `BasicBlock.cpp` 104-136). Each value has its name and its parent, the module
and each function a table from names to values and `last_unique_`, the number used
last to make a name unique; together they are the record `sym`, on which each function of the code
is an operator. Values are created in a function or detached, named, linked, unlinked,
destroyed, blocks together with the names of their instructions, in any order. A
name is a sequence, because making it unique appends to it, and the numbered name
may be the name of another value.

**Records** (`BitcodeReader.cpp`, `LLVMBitCodes.hpp`, `GlobalObject.cpp`). A document is the
sequence of records with the marks of their blocks, and each record is one step of the
decoder the code has for it, with every test that rejects it, on `values`, `mds` and the
next value number. A value is named by the place of the record that wrote it, so that
what the tables *should* hold at any place can be computed from the document alone
(`ValuesAt`, `MetadataAt`), without a table. The packed words of functions and calls
are integers of 16 or 32 bits. The order of blocks that
the reader skips and comes back to is `LazyReader`'s subject and is fixed here.

**Types, Attributes** (`DerivedType.cpp`, `Type.cpp`; `Attributes.cpp`,
`AttributeImpl.cpp`; their blocks in `BitcodeReader.cpp`). Each reads the records of its
blocks into the uniquing tables of a context. A type or set is its place in the
context's table, which stands for its address.

**Metadata** (`Metadata.cpp`, `MetadataTracking.cpp`, `Value.cpp` 225-331). The heap of
`ValueAsMetadata` (`vams`), nodes and `MetadataAsValue` (`mavs`), the store of uniqued
nodes, the uses each wrapper tracks in the order of their indices, and the bit
`used_by_md_` of each value. The actions are what reader and client do: make a node, make the
operand of a call, destroy a value, replace one by another. `meant` is what a reader of
the source would say each slot refers to.

**UseOrder** (`Value.cpp` 387-480, `Use.cpp` 79-210, `BitcodeReader.cpp` 2610-2690). A
use-list record, the merge sort it asks for step by step, and the tags of the operands.

**Printer** (`AsmWriter.cpp`). `SlotTracker` and `TypePrinting` are records, and every
function that may initialise the tracker passes it on. The text is the sequence of numbers
in it, each with what it stands for; what is named is not a number.

**Arithmetic** (`MPInt.cpp`, `Half.cpp`). An accumulator goes through the operations of
`MPInt`, with `exact` carrying the whole number beside it. **DataLayout**: one action,
`ParseSpecifier`, and the functions that ask for sizes and alignments.

**DxilTables, DxilKinds, DxilOperations, DxilModule** (`HLSL/`). The first three are the
constant tables and their lookups; `DxilModule` is `LoadDxilMetadata` as a list of things
to do, each of which may throw, and the listing of the signatures.

**Disassembler** (`DxilContainer.cpp`, `DilithiumDisasm.cpp`). Files are records of sizes,
offsets and parts; `Disassemble` is a list of steps that choose a program, check its
header and list the parts.

**MC_Parts** puts these models into one run: a behaviour is a behaviour of one of them,
chosen at the start, on the shared variables `v1` to `v15`, or on the variables of `Metadata`. They meet through what is
handed on (types and attributes are constants of `Records`, the metadata of
`DxilModule` and the modules of `Printer` are inputs of the shape the reader makes).

## 3. Runs

| run | instance | what it checks |
|---|---|---|
| `handles_default` | a weak, a tracking and a callback handle, one walk iterator, two values; callbacks not overridden | no handle survives a walk that should not (`WalkClears`), the "not removed" failure is unreachable (`NeverFails`), every walk ends (`WalkEnds`) |
| `handles_nested` | a weak and an overriding callback handle, two iterators (walks nested two deep), two values | the lists, map and bits agree (`ListIntegrity`), walks keep their position (`WalkKeepsPlace`), no handle refers to a destroyed value (`NoDanglingHandle`), refinement of `HandleContract` |
| `use_lists` | two functions with a block each, three instructions with three operands, an argument, a personality function; values of three types | use lists hold exactly the uses of their value (`ListIntegrity`), the iterator of `ReplaceUsesOutsideBlock` stays on its list (`WalkStaysOnList`), no use of a destroyed value at any point of the teardown (`NoUseOfDestroyed`), every replacement ends (`WalkEnds`) |
| `use_lists_in_block` | the same | expected violation, see section 7 |
| `cursor_tail` | 15 bits in words of 6: the last word is only half there | the window is what follows the place in the stream, the error is thrown only past the end, refinement of `BitSource`; streams of whole words are covered by the theorems, which hold for both |
| `block_walk` | a document of real widths with BLOCKINFO, abbreviations, arrays, blobs and nested blocks | events and records come out as written, scopes are those of the writer, no error |
| `block_return` | a document with its symbol table at the end and an odd number of 4-byte words | expected violation, see section 7 |
| `lazy_reader` | 8 documents: the symbol table before, between, after the bodies or absent; absolute or relative ids; metadata put off or not; two functions with bodies and a declaration, an initialiser defined after its use | tables match between bodies, initialisers are given, no call fails, every call returns, refinement of `LazyModule` |
| `symbol_table` | two functions, two blocks, two instructions, two names of which one is the other with a 1; names made unique twice | tables hold exactly the names of the linked values (`TablesInStep`), a value gets the name asked for or that name with a number (`NamedAsAsked`) |
| `symbol_remains` | the same, without care for what is inserted | expected violation, see section 7 |
| `parts` | see below | thirteen invariants, one to three per component, see below |
| `call_types` | four modules with a call of a function on integers whose argument is a float | expected violation, see section 7 |

The run `parts`, component by component:

| component | instance | what it checks |
|---|---|---|
| records | 70 documents: good ones with absolute and relative ids, two bodies and both forms of a call, and bad ones, each wrong in one record; 32 and 64 bits scaled to 2^20 and 2^24 | `ReadAsWritten`: at every place the tables hold what the document wrote for each number and nothing of an earlier body; calls, functions, integers and kinds are as written |
| types | every table of three types, out of 29 records, four records long if one is too many | `TypesCanonical`: entries are one object exactly if written as the same type |
| attributes | three groups and two entries that combine them in different orders; every pair of kinds | `AttributesCanonical`: lists are one object exactly if they give each index the same |
| metadata | two constants, a local value of each of two functions; two nodes of up to two operands, two wrappers, one call, one change of a `MetadataAsValue` | `UsesTracked`, `NodesUnique`, `SlotsMean`: the uses kept are the slots that refer to a wrapper, no two uniqued nodes are equal, and every slot refers to what replacements and deletions leave it |
| use lists | every order of five uses, and of three and four with ties, records that do not fit, up to 120 operands | `UsesFound`: the order asked for, ties kept, linked both ways; every tag leads to the user |
| printer | a declaration and two functions of all combinations of named, unnamed, void and attributed calls; metadata shared between roots and calls | `NumbersResolve`, `NumbersInOrder`: each number in the text is defined once, as a reader of the text would count |
| arithmetic | words of 5 bits, every width and number, every two operations; 142 halves | `NumbersExact`: results are those of whole numbers modulo the width |
| data layout | every string of up to three out of 18 specifications | `LayoutSound`: the last word on a width or address space counts, in whichever order |
| DXIL module | metadata with elements for every semantic at every point of every stage, interpolations, types, and operands that are missing or odd; loaded twice | `LoadedAsWritten`: elements have the kind, type, mode and name written, or the load fails and leaves nothing |
| DXIL operations | every opcode and five numbers that are none | `ListingTrue` (`NotesFit`): the note names the operation, with as many arguments as other calls of the same function |
| container | files that are empty, cut off or with sizes near the end of the word (2^10 for 2^32); every feature flag, primitive, mask | `ListingTrue` (`ListsWhatIsThere`): bitcode lies within its part and the file, and is not empty if a header says where it is; what is listed is what the parts say |

Why the bounds are enough. Handles: list operations touch a handle and its two
neighbours, and two values with three or four nodes reach every combination of
empty list, single element, head, middle and last; two iterators are a walk
inside a walk, of the same list or another; one more level repeats the relation
between a frame and the one above it. What the bound might hide is covered by the
proofs, which have none. Cursor: three words have a first, a middle and a last
one, with every offset in each. Block layer: the documents contain every encoding
and every place where a block may be entered, skipped or put off; the client's
choices are unbounded. Lazy loading: two bodies are the smallest number whose
order matters, two blocks of constants, metadata and basic blocks the smallest
where a position can be mistaken. Names: a second function is one to move to, two
instructions are enough for a block to bring more than one name, and two numbers for
the first to be taken. Metadata: two nodes are one to become equal to the other, two
wrappers one to be replaced by the other. `MaxChanges` is one because the second change
of a wrapper in a context may make it replace itself (section 5). Arithmetic: with words
of five bits every width below, at and above half a word occurs; the code never looks at
the word but as a whole, and half floats have their full width. Records: each document
has one thing that can go wrong, and the good ones two bodies.

Fairness. `WalkRunsOn`, `WF_vars(Visit)` and `WF_vars(Run)` say that a C++ call that has begun runs
until it returns; nothing is assumed of clients, which may never call again. A
walk with an overridden callback may stay in client code for ever, so `WalkEnds`
is only stated where no callback is overridden.

`CHECK_DEADLOCK FALSE` is given where the system may stop: after a failure, at
the end of a document, or when a module has let go of its materializer.

## 4. Proofs

| theorem | module | statement |
|---|---|---|
| `TypeCorrect` | ValueHandlesProofs | `Spec => []TypeOK` |
| `ListIntegrityHolds` | ValueHandlesProofs | `Spec => []ListIntegrity` |
| `WalkKeepsPlaceHolds` | ValueHandlesProofs | `Spec => []WalkKeepsPlace` |
| `NoDanglingHandleHolds` | ValueHandlesProofs | `Spec => []NoDanglingHandle` |
| `ImplementsContractHolds` | ValueHandlesProofs | `Spec => ImplementsContract` |
| `WalkClearsHolds` | ValueHandlesProofs | `Spec => []WalkClears` |
| `NeverFailsHolds` | ValueHandlesProofs | `Spec => []NeverFails` with the code's own callbacks and no Assert handles of clients |
| `UseTypes`, `UseListsWhole`, `WalkKeepsPlace` | UseListsProofs | `Spec => []TypeOK`, `[]ListIntegrity`, `[]WalkStaysOnList` |
| `NothingDestroyedInUse` | UseListsProofs | `Spec => []NoUseOfDestroyed` |
| `TablesMatchHolds`, `InitsGivenHolds` | LazyReaderProofs | `Spec => []TablesMatch` (with type correctness), `[]InitsGiven` |
| `LoadingNeverFails` | LazyReaderProofs | `Spec => []NeverFails`, for every module `WellFormed` admits |
| `ImplementsLazyModuleHolds` | LazyReaderProofs | `Spec => ImplementsLazyModule` |
| `TablesInStepHolds`, `NoValuesRemainHolds` | SymbolTableProofs | `Spec => []TablesInStep` (with type correctness), `[]NoValuesRemain`, where clients insert values under free names (`Careful`) |
| `NamedAsAskedHolds` | SymbolTableProofs | `Spec => NamedAsAsked`, likewise |
| `UsesTrackedHolds`, `NodesUniqueHolds` | MetadataProofs | `Spec => []UsesTracked`, `[]NodesUnique`, for any number of changes |
| `SlotsMeanUntilTwo` | MetadataProofs | `Spec => [](heap.changes <= 1 => SlotsMean)`: until a second change of a `MetadataAsValue` |
| `SlotsMeanHolds` | MetadataProofs | `Spec => []SlotsMean`, where `MaxChanges` is 0 or 1, as in `parts` |
| `TypeCorrect`, `WindowCorrect`, `EndCorrect` | BitstreamCursorProofs | `Spec => []TypeOK`, `[]WindowInStream`, `[]EndIsReal` |
| `CursorImplementsSource` | BitstreamCursorProofs | `Spec => ImplementsSource` |

*Handles.* `IntrusiveListProofs` proves, for any set of nodes and owners, what
inserting at a slot, inserting after a node and unlinking do to a well-linked
list (`Linked`: forward and backward pointers agree; `Anchored`: no detached
cycle or chain). `Anchored` says
that no set of members is a ring of its own (some member of each non-empty set hangs
on a head or on a node outside it), so no recursion or induction over data is needed.
`ValueHandlesProofs` lifts this to `table` (lists, keys and bits together) and to
each member function. The inductive invariant is the type invariant, list
integrity, `WalkKeepsPlace` and `NoDanglingHandle` together: the position of a
walk is meaningless without the list, and a deletion is only safe because the
walk's iterator is on the list of the value being deleted, so that no other
client can free it. The assumption is `HandleAssumption`: the iterators are
distinct Assert handles and the tombstone is not a value.

The refinement of `HandleContract` maps the value a client's handle refers to and the
set of values that are not freed, and needs no state of a walk: a visit of a walk that
moves or clears a handle is one step of the contract, the end of a deletion frees a
value to which, by `NoDanglingHandle` and the walk's end, nobody refers.

The second part of `ValueHandlesProofs` adds to that invariant what a walk still owes (`WInv`): each handle
the walk has to deal with is ahead of its iterator. `Ahead` says so without
following the list: there is a set of handles, without the iterator, that contains the ones
owed and in which every handle's `prev_` is the slot of another of them or of the iterator. As no
set of members is a ring of its own, a set of that kind is empty when the iterator is
the last, which gives `WalkClears`. The rest of `WInv` is that a
destroyed handle refers to nothing and that no value is replaced by itself. `NeverFails` has
the hypothesis `OnlyDefaultHandles`: a callback that is overridden may add
a handle to the value that is being deleted, and a client's Assert handle may refer to it; the code
then does fail, as it says it will. The run `handles_nested` has such callbacks and does not
check it.

*Use lists.* `UseListsProofs` cites the same list lemmas, with `Set` as unlinking
and inserting at a head, and `Swap` as two of each. The inductive invariant adds to
list integrity that a replacement in progress has a value to replace and belongs to
a module that is not being destroyed. `WalkStaysOnList` needs list integrity: the
use after the visited one refers to the same value because `next_` and `prev_` are
paired, and is another use because no use is a ring of its own. The assumption is
`UseAssumption`: functions, their parts and constants are all the values, and no two
users share an operand.

`NothingDestroyedInUse` is about the order of the teardown. The module's destructor first
makes every function drop its references, block by block and instruction by
instruction, and then destroys the functions, each of which drops those of its blocks again
before it destroys them. The invariant `TInv` says of the module while it is open that every
operand refers to a value in scope, replacement in progress included (`InScope`,
`WalkInScope`), and while it is torn down that what is left of the errands is in a good
order (`DropsFirst`): wherever a value is destroyed, every use that still refers
to it is reset by an errand before that. What makes it true at the start is that local
values are used in their own function only (`InScope`, `ParentAssumption`) and that a function
resets all operands of its instructions before it destroys any of them. The errands are
concatenations of sequences of any length, about which `SequenceProofs` has what is
needed. `ListAssumption` says that the constants that list functions, blocks and
instructions are sequences.

*Sequences.* The library's induction theorems take a predicate as a parameter, which
cannot be instantiated. Its theorem that the order of the naturals is well-founded takes none:
a set of naturals with a member has a least one (`LeastNat`). `SequenceProofs` proves with it,
as a least counterexample, that the recursive function inside `FlattenSeq` is the one
that is defined, and from that what a concatenation of sequences consists of: each of its
positions lies in one of the sequences, which is there as a whole (`FlattenMadeOf`).
`FoldDefined` does the same for the function inside `FoldLeft`. `RemoveFirstFacts` says what
remains of a sequence without repetition when one of its elements is taken out.

*Symbol table.* A step may change the names of a whole block of instructions, or of a whole
function of blocks, and `TablesInStep` alone does not say which these are. The inductive
invariant `IInv` (`Good`) has three parts:

- `Typed`: the types of the fields, and no number above its bound.
- `Shaped`: `inst_list_` and `parent_` agree, no instruction is twice in a list, what is linked
  exists and so does its parent, and what does not exist has neither parent nor name.
- `Tight`: each table maps exactly the names of the values `Below` its owner, each to its value
  (`Exact`).

An operation moves a group between tables: a value alone, or a block with its instructions. One
lemma per operation says what it does to the group and that it leaves the rest alone: `Unlinked`,
`Attached`, `NameSetTight`, and `Without` for what is destroyed, where the groups are
nested. The operations on the instructions of a block, and on the blocks of a function, are
folds over lists of any length. Each is unfolded once into the chain of states it passes through
(`RemoveChain`, `ReinsertChain`, `DestroyChain`, `BlockChain`, by `FoldDefined`), and
that the chain keeps `Exact` for the part of the list it has passed is shown with a
least counterexample. `NamesFree`, the care that clients take, is what makes
`ReinsertValue` enter a name as it is. Where a name is taken, `Tight` is lost as
`symbol_remains` shows: so `Careful` is a hypothesis of the three theorems. Only `InsertInst` and
`InsertBlock` need it. Creating and naming values may collide, and the numbers that
`CreateValueName` appends are part of the theorems. The other assumption is
`SymbolAssumption`: functions, blocks and instructions are different things, none of them
the module or null, the blocks are finitely many (a function's blocks are destroyed as a
list), and the numbers are below ten. `IInv` was checked by TLC on the instance of `symbol_table`
first.

*Lazy loading.* The documents are any sequences of items, of functions, constants, metadata
and bodies in any number, that `WellFormed` admits, and the client calls in any order. None
of the four properties is inductive: after a body the tables are the module's only because they
were so before it and were cut back to where it began, and a call does not fail only because
what it looks for is where the order of earlier items has put it. The
invariant `IInv` (`InOrderOf`) relates each field of the reader to `Pos`, the first item of the module's
block that `ParseModule` has not read, wherever the cursor happens to be:

- `PlaceKnown`: where the cursor may be, and that a parse which can be resumed was suspended
  behind a body and behind the symbol table. Once the first call has returned, everything that
  makes a value or metadata lies before `Pos`, which `WellFormed` asks of the order of items.
- `QueueInOrder`, `PlacesNoted`: the code matches bodies with functions by reversing
  `func_with_bodies_` at the first body and taking one from its end at each. The invariant says so by
  counting: with n bodies before `Pos`, what is left of the list are the functions whose record comes
  after n others with a body, the next one last, and `deferred_func_info_` has the place of
  the body of just those that were passed. The lemmas `Before...` are about counts of
  positions; a body's count determines its function and the other way round.
- `TablesKnown`: outside of bodies `values` is what the items before `Pos` make, and `mds` is so with
  the metadata that was put off behind it.
- `InitsKept`: an initialiser has been given or waits in the list, with its own value, and none
  waits once the first body was seen, because `ResolveGlobalAndAliasInits` runs there with
  all values in the table.
- `FunctionsWhole`, `CallInOrder`: a function is empty until its body has been read and then whole; a
  search goes on only while the body it looks for is ahead of `Pos`; every function not yet
  materialised is ahead of `MaterializeModule`'s loop.
- `BodyInOrder`: inside a body, the value table is the module's, the arguments and the local values
  of the items before this one, the next id is its length, and the instructions are those of the
  items before this one. A relative id then gives the writer's operand (`OperandFound`), the value is
  there, and the block of each instruction is one more than the terminators before it (`BlockFound`).

The assumptions are `DocumentAssumption` (documents are well-formed, with items of the
fields the code reads) and `NoneAssumption` (the model value for "nothing" is none of the things it
stands in for). `IInv` was checked by TLC on the instance of `lazy_reader` first. One
lemma per action says that it keeps `InOrderOf`. The refinement shows a client an absent body
while a function's bit `IsMaterializable` is set: the step that clears the bit, at the end of
a body, is `Appear`, since by `BodyInOrder` the body then is the written one; when
the materializer goes, `CallInOrder` leaves no such bit.

*Metadata.* `Metadata` has actions of the reader and the client that are whole calls: one
`ReplaceAllUsesWith` goes through all slots that refer to a value, of which each may make a node
equal to another and so go through the slots that refer to that one. The
inductive invariant `IInv` has two parts:

- `Tracked` is about slots. Each refers to what is there (`Known`), a value's
  wrapper keeps exactly the slots that refer to it, each once (`UsesKept`), a use without an owner is
  an operand of a distinct node (`Owned`), a uniqued node is found under its operands (`Unique`), the
  store holds nodes only (`Stored`), and calls hold a `MetadataAsValue` that is found under what it
  wraps (`Wrapped`).
- `Mapped` is about values: `used_by_md_` is set for the values that are wrapped, and a value and
  its wrapper are found from one another.

`Mapped` is broken in the middle of a replacement or deletion, where the value has left the map and
its wrapper has not yet lost its slots, and `Unique` for the node whose operand has just been
written. So one lemma per function says what it needs of `Tracked` or `Mapped` and what
it gives back, and two relations between heaps are carried through: what became of
one slot (`Rewritten`, `FewerUses`) and what did not change (`SameVams`, `SameMap`, `SameMavs`).
`ReplaceAllUsesWith` copies the uses and goes through the copy, one by one, a fold
over a sequence of any length: `FoldDefined` unfolds it into the heaps it passes through, and a
least counterexample shows that of each wrapper's uses nothing is left but those not yet visited,
and no new ones come (`FewerUses`). `WrapAll` is a fold of the same kind.

`UsesTracked` and `NodesUnique` hold however often something changes: no theorem about them has
a bound. `SlotsMean` adds `meant` to the invariant (`MInv`: `MeantBy`). Here each operation also has to
keep what all other slots stand for, and this is where the second change matters.
`HandleChangedMetadata` (`Metadata.cpp` 190) files a changed wrapper under null; the next one that
changes finds it there and is replaced by it, whatever it wraps. `SlotsMeanUntilTwo` says that this is the only thing
that goes wrong: nothing is confused before it. `MetadataAssumption` says that the bound on operands
is a number; nothing is assumed of values, functions or calls. `Enter` and `Without` are
functions of the model whose values the provers can compute: `emplace` and the erasure of one entry.
`IInv` was checked by TLC first, on the values of `parts` with two calls and up to three changes.

*Cursor.* `WindowInStream` is not inductive: it does not say where the buffer
stands. The strengthening `Exact(c, p)` says that the window is what the stream
holds from `p` up to where the buffer stands (or the end), that the buffer stands
at a four-byte boundary, and what `size_` and `next_char_` are in each error
state; it holds as long as the client has not asked for bits after the end. One
lemma per operation says that it takes `Exact` at one place to `Exact` at the
right other one; the refinement is read off those lemmas. Assumptions: the stream
is not empty and a multiple of four bytes (`BitStreamReader` asserts it), and the
position a failed stream reports is beyond any real one.

Only model-checked: liveness (`WalkEnds`, `CallsReturn`), which needs fairness and
ENABLED; the block layer, whose operators are recursive (the provers lose their SMT
backend where a RECURSIVE operator is in reach); and what the run `parts` checks apart from metadata. Of
these, `Types`, `UseOrder` and `Printer` have RECURSIVE operators, `Arithmetic` needs the recursive
bit operators of `Bitwise`, `Records`, `Attributes` and `DataLayout` fold
over sequences of any length (tables, parameters, groups, specifications), and have not been tried,
and the DXIL modules are finite tables, for which the run is exhaustive.
The type correctness of `LazyReader` is part of `TablesMatch` and is proved with it; that of
`SymbolTable` is part of `TablesInStep`.

## 5. Abstractions and assumptions

- Handles: a client does not delete a value twice, nor the replacement of a
  running `ReplaceAllUsesWith`; values are reused after deletion, as memory is.
  A walk only stops in the middle for a callback: the code is single-threaded.
- Use lists: an operand of an instruction refers to a global, a constant or a value
  of the same function, and a value is replaced by one of its type that is in scope
  wherever it is, as the callers must see to. Nothing is destroyed but with the
  module. Handles and metadata, which `ReplaceAllUsesWith` notifies first, are other
  lists. Fields of an unlinked use, which nothing reads, are null.
- Cursor: `JumpTo` in `BitstreamCursor` is not taken once the end has been met;
  `BlockWalk` does take it, and `block_return` shows what happens.
- Block layer: variable-width numbers below 2^30, so that TLC's integers suffice;
  the 32-bit wrap of block lengths at 512 MB is out of reach. `Npos` stands for
  the position a failed stream reports.
- Symbol table: in `symbol_table` a value that is inserted has a name that is free in
  the function (`Careful`); what happens otherwise is `symbol_remains`. Functions are
  created without a name and named in the module: `GetSymTab` (`Value.cpp` 123) would
  dereference a null module. Hashes are as distinct as the names. Arguments never
  get a parent in this code, so their names are in no table. `MaxUnique` bounds how
  often names are made unique.
- Lazy loading: documents are those a writer makes and this reader supports
  (`WellFormed`): values of the module precede the first body, ids refer backwards
  (forward references are not implemented in the code), no body ends with an
  argument as its last value (`BitcodeReader.cpp` 2276 is not implemented). Of the
  instructions, `call` and `ret void` are the ones the code implements. Prefix data
  stands for the three lists of initialisers, which are treated alike. An error
  ends the run, as the exception ends the load.
- Records: the types of values are compared as the code compares their addresses, types
  being unique (`TypesCanonical`). Numbers are scaled: `WORD` (2^20) stands for 2^32 and `LONG`
  (2^24) for 2^64, so that a relative id that wraps does so here. `FnValueByID` with metadata
  in place of a value, both forms of a call and the old numbering are there; of
  instructions, `call` and `ret void`, as in the code.
- Types: entries that wait for a forward reference would be structs, which the code does
  not implement; the load ends there.
- Attributes: kinds without a value only; an attribute entry of the old form
  (`ParseAttributeBlock`'s first code) is not implemented, and ends the load.
- Metadata: identities are never used again, as if memory were not. The second time a wrapper is told of
  a change is left out (`MaxChanges`): `HandleChangedMetadata` (`Metadata.cpp` 190) files every
  changed wrapper under null, and the second would be replaced by what it finds there, itself
  included. `MDNode::EraseFromStore` (905) does nothing, so that nodes stay in the store
  under operands they no longer have; the store is modelled with these entries.
- Printer: the reader can make no struct type, so that the numbering of types is checked
  on tables without one; a function with a body has no arguments (`PrintArgument` is not
  implemented) and has a name. Blocks have numbers but nothing refers to them, there being
  no branches. Metadata nodes that only calls refer to are never numbered
  (`ProcessInstructionMetadata`, `AsmWriter.cpp` 838, looks at what is attached, not at operands)
  and would be printed as bad references: the modules printed have none.
- Types: the tables of the context are looked up by what a type is made of. `FunctionType::Get`
  (`DerivedType.cpp` 103-114) looks up by a hash alone, so that two function types whose hashes collide would be
  one object; the model does not see this.
- Arithmetic: `NumbersExact` leaves out what the code computes otherwise. An arithmetic shift by the
  full width gives 0 for negative numbers too (`MPInt.cpp` 322); `SExt` to a greater width
  shifts without a sign (380) and so fills with zeros; `<<=` (247) leaves the bits it shifts out above
  the width. `<<=` is called only to read a number, which adds to it afterwards and so clears
  them; that is in the model (`TakeDigit`). Half:
  both zeros become 2^-15 as floats, and the infinities 65536, which `FromFloat` takes back to infinity.
- Data layout: letters and numbers of a specification are given, not their digits. A width of a native
  integer is cut to eight bits (`DataLayout.cpp` 648).
- DXIL module: metadata is a record of the shape the reader makes, operands of another kind are
  `Odd`. What the code does not implement (resources of any number, optional properties
  beyond flags and threads, struct annotations) ends the load with an exception. The name of type
  `U16` is the same as that of `I16` (`DxilCompType.cpp` 422): `TypeFits` asks for the type, not for the
  sign in the name.
- Disassembler: `WORD` (2^10) stands for 2^32 and `MAX_SIZE` (2^9) for 2^31. `sys_value_names` is
  indexed by an enumeration that jumps from 16 to 64 (`DilithiumDisasm.cpp` 426,
  `DxilContainer.hpp` 175): beyond 16 what is printed is not looked at. Feature flags beyond the
  sixteenth have no name in the code. A file that is no container and has no valid header goes
  to `LoadLLVMModule` as it is (`DilithiumDisasm.cpp` 1190-1199), an empty one too, with length 0: `ListsWhatIsThere`
  says of such a file only that the bitcode is the whole of it, and that it is no
  module is left to the load, which fails in the model.
- Errors that throw are absorbing states; assertions of debug builds are taken
  as what the code promises.

Not modelled, and why:

- Root signature, sampler, constant buffer and resource classes: plain data with
  accessors, which nothing but their printing reads.
- `MPFloat`: what is implemented copies a number or compares its kind; arithmetic, conversion
  and text are NOT_IMPLEMENTED.
- Resource bindings and buffer definitions of the listing (`DilithiumDisasm.cpp` 607-1068): layout
  of plain data; the headings are there.
- Reader: global variables, aliases, comdats, aggregate and floating constants, GC and section names,
  whose factories or printing are NOT_IMPLEMENTED, as are all instructions
  but `call` and `ret`; the function record's prefix data and personality (`BitcodeReader.cpp` 1198-1205)
  are `LazyReader`'s initialisers.
- Temporary metadata nodes and counts of unresolved operands: no factory makes one
  (`TempMDNodeDeleter` is NOT_IMPLEMENTED), and cycles cannot be read.
- Struct, array and vector types, their layouts and their constants, for the same reason.
- The text's wording, layout and escapes; `PrintEscapedString` (`AsmWriter.cpp` 76) leaves
  its stream in hexadecimal, which changes how later numbers look.
- The destruction of the context, the command line, files, build scripts and tests.

## 6. Plan

The parts of the code that hold state and that the code implements are modelled. What is left:

1. Proofs: the canonical sets of `Attributes` and the bounds of `DataLayout`, which the same
   lemmas about folds would serve.
2. `Metadata` beyond `MaxChanges`, as a violation of what `Value.cpp` 319 asserts.
3. The composition of `LazyReader` and `Records`: bodies materialised in any order over
   the decoders of single records.
4. Whatever the code implements next: forward references, branches, structs.

## 7. Findings

`call_types`: `BitcodeReaderValueList::ValueFwdRef` is given the type that is wanted, and where
the value's is another it sets its result to null, but overwrites it with the value two lines
later (`BitcodeReader.cpp` 452-456). `ParseFunctionBody` relies on the null to reject a call as "Invalid record";
instead the call is made, and `CallInst::Init` (`Instructions.cpp` 162) says "Calling a
function with a bad signature!" in a debug build, and nothing in another. The run reads a call of a
function on integers with a float.

`block_return`: `FillCurrWord` reads eight bytes at a time, and `BitStreamReader`
only asks for a multiple of four. When the last word of the stream is four bytes,
the read that reaches the end of the module sets eofbit and failbit of the shared
`istream`. Nothing clears them, so that from then on `seekg` is ignored and `tellg`
fails. A module with its symbol table at the end is read to its end before any body is
materialised; `JumpToBit` then goes nowhere, and `FillCurrWord`, called from
`EnterSubBlock`, throws "Unexpected end of file" for a module that is well-formed.

`use_lists_in_block`: `ReplaceUsesOutsideBlock` "leaves uses within BB"
(`Value.cpp` 356). To know the block of a use it calls `GetUser`, which follows the
waymarks to the end of the operands and takes that address for the user. In LLVM
the user lies there; in this code the operands are a vector of their own
(`User.hpp` 148), and what is read at that address, under "TODO: Could be wrong, very
careful of this", is not a `User`. Unless that memory happens to look like an
instruction of the block, the use is replaced although it is inside the block. The trace
has one instruction in the block, whose operand is set to a function; replacing that function
by the other one outside the block replaces the operand.

`symbol_remains`: when `ReinsertValue` meets a name that is taken it enters a unique
name and then calls `val->Name(unique_name)`. The value already has its parent and
still carries the old name, so `Name` takes the old name out of the table, which is
the other value's entry, and then finds the unique name taken by the value itself and
makes it unique once more. The other value is no longer found by its name, and the first unique name
stays behind: when the function is destroyed, "Values remain in symbol table!"
(`ValueSymbolTable.cpp` 54), as a reference to freed memory.

Seen while modelling, without a run of its own, because the code says nothing to the contrary or
what goes wrong is outside of the models: the tool reads an empty file into `&program[0]` of an empty vector
(`DilithiumDisasm.cpp` 1085); it catches `std::error_code` by reference
(1215), which nobody throws; `DxilShaderModel::GetByName` reads one digit of
the minor version (198); an interpolation mode that loads may have no name, so that listing it
throws (`DilithiumDisasm.cpp` 600); the generator in the comment at
`DxilInterpolationMode.cpp` 96 does not give the table below it for `noperspective sample`.
