------------------------------- MODULE DataLayout -------------------------------
(***************************************************************************)
(* The data layout of a module (DataLayout.cpp): sizes and alignments of   *)
(* types, from the specifications in the module's layout string laid over  *)
(* defaults.  The string is read specification by specification; one that  *)
(* is wrong ends the load.                                                 *)
(*                                                                         *)
(* A specification is its letter, the number behind it and the numbers     *)
(* after the colons, in bits as they are written.                          *)
(***************************************************************************)
EXTENDS Integers, Sequences, FiniteSets
LOCAL INSTANCE SequencesExt
LOCAL INSTANCE FiniteSetsExt

CONSTANTS
  Specs,      \* the specifications a layout string is made of
  MaxSpecs    \* bound: the specifications of one string

VARIABLES layout, given, failed

vars == <<layout, given, failed>>

Elem(t, width, abi, pref) == [type |-> t, width |-> width, abi |-> abi, pref |-> pref]

default_alignments ==
  << Elem("i", 1, 1, 1), Elem("i", 8, 1, 1), Elem("i", 16, 2, 2), Elem("i", 32, 4, 4),
     Elem("i", 64, 4, 8), Elem("f", 16, 2, 2), Elem("f", 32, 4, 4), Elem("f", 64, 8, 8),
     Elem("f", 128, 16, 16), Elem("v", 64, 8, 8), Elem("v", 128, 16, 16), Elem("a", 0, 0, 8) >>

PowersOf2 == {2 ^ n : n \in 0..23}
UInt16    == 0..65535
UInt24    == 0..16777215

(* A number of bits that is no whole number of bytes is an error.          *)
WholeBytes(bits) == bits % 8 = 0
InBytes(bits)    == bits \div 8

-----------------------------------------------------------------------------
Replaced(seq, Same(_), e) ==
  [n \in DOMAIN seq |-> IF Same(seq[n]) THEN e ELSE seq[n]]

(* DataLayout::Alignment, the one that sets.                               *)
CanSetAlignment(e) ==
  /\ e.width \in UInt24 /\ e.abi \in UInt16 /\ e.pref \in UInt16
  /\ e.abi # 0 => e.abi \in PowersOf2
  /\ e.pref # 0 => e.pref \in PowersOf2
  /\ e.pref >= e.abi

SetAlignment(elems, e) ==
  LET Same(x) == x.type = e.type /\ x.width = e.width
  IN  IF \E n \in DOMAIN elems : Same(elems[n]) THEN Replaced(elems, Same, e) ELSE Append(elems, e)

(* pointers_ is kept in the order of the address spaces, to be searched by *)
(* halves: what is new goes in before the first higher one.                *)
FindPointerLowerBound(pointers, space) ==
  Min({n \in DOMAIN pointers : pointers[n].space >= space} \cup {Len(pointers) + 1})

(* Mutated: a space that was not there yet goes to the end.                *)
PointerAtEnd(pointers, p) ==
  LET Same(x) == x.space = p.space
  IN  IF \E n \in DOMAIN pointers : Same(pointers[n])
        THEN Replaced(pointers, Same, p) ELSE Append(pointers, p)

PointerAlignment(pointers, p) ==
  LET n == FindPointerLowerBound(pointers, p.space)
  IN  IF n > Len(pointers) \/ pointers[n].space # p.space
        THEN SubSeq(pointers, 1, n - 1) \o <<p>> \o SubSeq(pointers, n, Len(pointers))
        ELSE [pointers EXCEPT ![n] = p]

Pointer(space, size, abi, pref) == [space |-> space, size |-> size, abi |-> abi, pref |-> pref]

-----------------------------------------------------------------------------
(* Reset.                                                                  *)
Init ==
  /\ layout = [bigEndian |-> FALSE, stackAlign |-> 0, mangling |-> "none", ints |-> <<>>,
               elems |-> FoldLeft(SetAlignment, <<>>, default_alignments),
               pointers |-> <<Pointer(0, 8, 8, 8)>>]
  /\ given = <<>>
  /\ failed = FALSE

(* The specification read next, accepted if ok holds of it.                *)
Reading(s, ok, after) ==
  /\ given' = Append(given, s)
  /\ failed' = ~ok
  /\ layout' = IF ok THEN after ELSE layout

ReadEndian(s) ==
  /\ s.letter \in {"e", "E"}
  /\ Reading(s, TRUE, [layout EXCEPT !.bigEndian = (s.letter = "E")])

(* The preferred alignment is the ABI's if it is not there.                *)
Pref(s, n) == IF n \in DOMAIN s.rest THEN s.rest[n] ELSE s.rest[n - 1]

ReadPointer(s) ==
  /\ s.letter = "p"
  /\ LET there == Len(s.rest) >= 2
         p == Pointer(s.n, InBytes(s.rest[1]), InBytes(s.rest[2]), InBytes(Pref(s, 3)))
     IN  Reading(s, /\ s.n \in UInt24
                    /\ there
                    /\ \A n \in DOMAIN s.rest : WholeBytes(s.rest[n])
                    /\ p.size # 0 /\ {p.abi, p.pref} \subseteq PowersOf2
                    /\ p.pref >= p.abi,
                 [layout EXCEPT !.pointers = PointerAlignment(@, p)])

ReadAlignment(s) ==
  /\ s.letter \in {"i", "v", "f", "a"}
  /\ LET e == Elem(s.letter, s.n, InBytes(s.rest[1]), InBytes(Pref(s, 2)))
     IN  Reading(s, /\ s.letter = "a" => s.n = 0
                    /\ s.rest # <<>>
                    /\ \A n \in DOMAIN s.rest : WholeBytes(s.rest[n])
                    /\ s.letter = "a" \/ e.abi # 0
                    /\ CanSetAlignment(e),
                 [layout EXCEPT !.elems = SetAlignment(@, e)])

(* legal_int_widths_ has one byte for a width.                             *)
ReadNative(s) ==
  /\ s.letter = "n"
  /\ LET widths == <<s.n>> \o s.rest
     IN  Reading(s, \A n \in DOMAIN widths : widths[n] # 0,
                 [layout EXCEPT !.ints = @ \o [n \in DOMAIN widths |-> widths[n] % 256]])

ReadStack(s) ==
  /\ s.letter = "S"
  /\ Reading(s, WholeBytes(s.n), [layout EXCEPT !.stackAlign = InBytes(s.n)])

ReadMangling(s) ==
  /\ s.letter = "m"
  /\ Reading(s, Len(s.rest) = 1 /\ s.rest[1] \in {"e", "o", "m", "w", "x"},
             [layout EXCEPT !.mangling = s.rest[1]])

(* One iteration of the loop of ParseSpecifier.                            *)
ParseSpecifier ==
  /\ ~failed
  /\ Len(given) < MaxSpecs
  /\ \E s \in Specs : \/ ReadEndian(s) \/ ReadPointer(s) \/ ReadAlignment(s)
                      \/ ReadNative(s) \/ ReadStack(s) \/ ReadMangling(s)

Spec == Init /\ [][ParseSpecifier]_vars

-----------------------------------------------------------------------------
(* The questions asked of a layout.  A type is its kind and, for integers, *)
(* floats and pointers, its width or address space.                        *)
PointerFor(space) ==
  LET Found(s) == FindPointerLowerBound(layout.pointers, s)
      n == Found(space)
  IN  IF n > Len(layout.pointers) \/ layout.pointers[n].space # space
        THEN layout.pointers[Found(0)] ELSE layout.pointers[n]

TypeSizeInBits(ty) == IF ty.kind = "p" THEN PointerFor(ty.n).size * 8 ELSE ty.n
TypeStoreSize(ty)  == (TypeSizeInBits(ty) + 7) \div 8

NextPowerOf2(n) == Min({p \in PowersOf2 : p >= n})

(* AlignmentInfo: the exact width, else the next wider integer, else the   *)
(* widest; what is no integer gets the power of two above its size.  best  *)
(* and largest are places in alignments_, 0 for none.                      *)
Match(kind, width) ==
  LET E == layout.elems
      Look(m, n) ==
        IF E[n].type # "i" THEN m
        ELSE [best    |-> IF E[n].width > width /\ (m.best = 0 \/ E[n].width < E[m.best].width)
                            THEN n ELSE m.best,
              largest |-> IF m.largest = 0 \/ E[n].width > E[m.largest].width
                            THEN n ELSE m.largest]
      exact == SelectInSeq(E, LAMBDA e : e.type = kind /\ e.width = width)
      m == FoldLeft(Look, [best |-> 0, largest |-> 0], [n \in DOMAIN E |-> n])
  IN  IF exact # 0 THEN exact
      ELSE IF kind # "i" THEN 0
      ELSE IF m.best # 0 THEN m.best ELSE m.largest

AlignmentInfo(ty, field) ==
  LET n == Match(ty.kind, TypeSizeInBits(ty))
  IN  IF n = 0 THEN NextPowerOf2(TypeStoreSize(ty)) ELSE layout.elems[n][field]

Alignment(ty, field) ==
  IF ty.kind = "p" THEN PointerFor(ty.n)[field] ELSE AlignmentInfo(ty, field)

TypeAllocSize(ty) ==
  LET abi == Alignment(ty, "abi") IN ((TypeStoreSize(ty) + abi - 1) \div abi) * abi

-----------------------------------------------------------------------------
Types == [kind : {"i"}, n : {1, 7, 16, 17, 24, 33, 64, 128}]
         \cup [kind : {"f"}, n : {16, 64, 80}] \cup [kind : {"p"}, n : 0..3]

(* What the string says of x, the last time it speaks of it.               *)
LastSaid(letter, n) ==
  {i \in DOMAIN given : /\ given[i].letter = letter /\ given[i].n = n
                        /\ \A j \in DOMAIN given :
                             given[j].letter = letter /\ given[j].n = n => j <= i}

Said(letter, n, place) ==
  {InBytes(Pref(given[i], place)) : i \in LastSaid(letter, n)}

Widths ==
  {default_alignments[n].width : n \in {k \in DOMAIN default_alignments :
                                          default_alignments[k].type = "i"}}
  \cup {given[i].n : i \in {k \in DOMAIN given : given[k].letter = "i"}}

AbiOfInteger(w) ==
  IF LastSaid("i", w) # {} THEN Said("i", w, 1)
  ELSE {default_alignments[n].abi : n \in {k \in DOMAIN default_alignments :
          default_alignments[k].type = "i" /\ default_alignments[k].width = w}}

(***************************************************************************)
(* Whatever the order and number of the specifications, a pointer has the  *)
(* size and alignment last given for its own address space, or those of    *)
(* space 0; an integer has the alignment last given for its own width, or  *)
(* for the next wider one that has any, or for the widest; and what is     *)
(* allocated for a type is the least multiple of its alignment that holds  *)
(* it.                                                                     *)
(***************************************************************************)
LayoutSound ==
  ~failed =>
    /\ \A space \in 0..3 :
         LET own == IF LastSaid("p", space) # {} THEN space ELSE 0
             ptr == PointerFor(space)
         IN  LastSaid("p", own) # {} => /\ ptr.size \in Said("p", own, 1)
                                    /\ ptr.abi \in Said("p", own, 2)
                                    /\ ptr.pref \in Said("p", own, 3)
    /\ \A ty \in Types :
         LET wider == {w \in Widths : w >= ty.n}
             abi   == Alignment(ty, "abi")
         IN  /\ ty.kind = "i" => abi \in AbiOfInteger(IF wider # {} THEN Min(wider) ELSE Max(Widths))
             /\ TypeAllocSize(ty) % abi = 0
             /\ TypeAllocSize(ty) - TypeStoreSize(ty) \in 0..(abi - 1)
             /\ TypeStoreSize(ty) * 8 >= TypeSizeInBits(ty)
=============================================================================
