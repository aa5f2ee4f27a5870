------------------------------ MODULE SymbolTable ------------------------------
(***************************************************************************)
(* Names.  A value carries its name; the table of its function (of the     *)
(* module, for a function) maps the hash of each name to its value.  Both  *)
(* are changed by naming a value, and by linking or unlinking it or the    *)
(* block it is in (ValueSymbolTable.cpp, SymbolTableList.hpp, Value.cpp).  *)
(*                                                                         *)
(* A name is a sequence of characters: a digit stands for itself, the dot  *)
(* and the letters for numbers above nine.  Hashes are taken to be as      *)
(* distinct as the names.                                                  *)
(***************************************************************************)
EXTENDS Integers, SequencesExt

CONSTANTS
  Funcs, Blocks, Insts,
  Module,
  Null,
  Wanted,     \* the names clients ask for, for each value
  MaxUnique,  \* bound of last_unique_ of each table
  Careful     \* whether clients see to it that an inserted name is free

Values == Funcs \cup Blocks \cup Insts
Tables == {Module} \cup Funcs

NoName == <<>>
Dot    == 10

ASSUME SymbolAssumption ==
  /\ Module \notin Funcs \cup Blocks \cup Insts
  /\ Null \notin {Module} \cup Funcs \cup Blocks \cup Insts
  /\ Funcs \cap Blocks = {} /\ Funcs \cap Insts = {} /\ Blocks \cap Insts = {}
  /\ IsFiniteSet(Blocks)
  /\ MaxUnique \in [Tables -> 0 .. 9]
  /\ Wanted \in [Values -> SUBSET Seq(Nat)]
  /\ Careful \in BOOLEAN

VARIABLES
  alive,   \* the values that exist
  insts,   \* inst_list_ of each block
  sym      \* parent_ and name_ of each value, vmap_ and last_unique_ of each table

vars == <<alive, insts, sym>>

Elems(s) == {s[n] : n \in DOMAIN s}

-----------------------------------------------------------------------------
(* GetSymTab, and parent->GetValueSymbolTable() of the list helpers.       *)
TableOf(S, v) ==
  IF v \in Insts /\ S.parent[v] # Null THEN S.parent[S.parent[v]] ELSE S.parent[v]

HasName(S, v) == S.name[v] # NoName
Taken(S, t)   == DOMAIN S.vmap[t]

RemoveValueName(S, t, n) == [S EXCEPT !.vmap[t] = Restrict(@, DOMAIN @ \ {n})]

(* unordered_map::emplace keeps an entry that is there.                    *)
Emplace(S, t, n, v) ==
  IF n \in Taken(S, t) THEN S
  ELSE [S EXCEPT !.vmap[t] = [m \in DOMAIN @ \cup {n} |-> IF m = n THEN v ELSE @[m]]]

(* The first number not tried yet that makes the name unique.              *)
NextUnique(S, t, stem) ==
  LET free == {k \in S.last[t] + 1 .. MaxUnique[t] : Append(stem, k) \notin Taken(S, t)}
  IN  IF free = {} THEN MaxUnique[t] + 1 ELSE CHOOSE k \in free : \A m \in free : k <= m

(* Mutated: a number is appended whether the name is taken or not.         *)
CreateNumberedName(S, t, n, v) ==
  LET k == NextUnique(S, t, n)
      u == Append(n, k)
  IN  [Emplace(S, t, u, v) EXCEPT !.last[t] = k, !.name[v] = u]

CreateValueName(S, t, n, v) ==
  IF n \notin Taken(S, t) THEN [Emplace(S, t, n, v) EXCEPT !.name[v] = n]
  ELSE LET k == NextUnique(S, t, n)
           u == Append(n, k)
       IN  [Emplace(S, t, u, v) EXCEPT !.last[t] = k, !.name[v] = u]

SetName(S, v, n) ==
  LET t == TableOf(S, v)
      R == IF HasName(S, v) /\ t # Null THEN RemoveValueName(S, t, S.name[v]) ELSE S
  IN  IF n = S.name[v] THEN S
      ELSE IF t = Null \/ n = NoName THEN [R EXCEPT !.name[v] = n]
      ELSE CreateValueName(R, t, n, v)

(* A name that is taken is changed by way of SetName, which finds the old  *)
(* name still on the value and the new one already in the table.           *)
ReinsertValue(S, t, v) ==
  LET n == S.name[v]
      k == NextUnique(S, t, Append(n, Dot))
      u == n \o <<Dot, k>>
  IN  IF n \notin Taken(S, t) THEN Emplace(S, t, n, v)
      ELSE SetName([Emplace(S, t, u, v) EXCEPT !.last[t] = k], v, u)

ReinsertNamed(S, t, v) == IF HasName(S, v) THEN ReinsertValue(S, t, v) ELSE S
RemoveNamed(S, t, v)   == IF HasName(S, v) THEN RemoveValueName(S, t, S.name[v]) ELSE S

(* The names of the instructions of a block.                               *)
ReinsertAll(S, t, s) == FoldLeft(LAMBDA T, i : ReinsertNamed(T, t, i), S, s)
RemoveAll(S, t, s)   == FoldLeft(LAMBDA T, i : RemoveNamed(T, t, i), S, s)

(* Mutated: the old table is looked up after the parent has changed.       *)
BlockParentLate(S, b, f) ==
  LET R == [S EXCEPT !.parent[b] = f]
  IN  IF f = Null THEN R
      ELSE ReinsertAll(R, f, insts[b])

(* BasicBlock::Parent takes the names of the instructions along.           *)
BlockParent(S, b, f) ==
  LET old == S.parent[b]
      R   == [S EXCEPT !.parent[b] = f]
      Out == IF old = Null THEN R ELSE RemoveAll(R, old, insts[b])
  IN  IF old = f THEN R
      ELSE IF f = Null THEN Out
      ELSE ReinsertAll(Out, f, insts[b])

SetParent(S, v, p) ==
  IF v \in Blocks THEN BlockParent(S, v, p) ELSE [S EXCEPT !.parent[v] = p]

AddToSymbolTableList(S, v, p) ==
  LET R == SetParent(S, v, p)
  IN  IF TableOf(R, v) # Null THEN ReinsertNamed(R, TableOf(R, v), v) ELSE R

RemoveFromSymbolTableList(S, v) ==
  IF S.parent[v] = Null THEN S
  ELSE SetParent(IF TableOf(S, v) # Null THEN RemoveNamed(S, TableOf(S, v), v) ELSE S, v, Null)

(* The destructors: unlinked, then without a name.                         *)
Destroy(S, v) == [RemoveFromSymbolTableList(S, v) EXCEPT !.name[v] = NoName]

DestroyAll(S, s)     == FoldLeft(Destroy, S, s)
DestroyBlockIn(S, b) == DestroyAll(Destroy(S, b), insts[b])
DestroyBlocks(S, s)  == FoldLeft(DestroyBlockIn, S, s)

-----------------------------------------------------------------------------
Init ==
  /\ alive = {}
  /\ insts = [b \in Blocks |-> <<>>]
  /\ sym = [parent |-> [v \in Values |-> Null], name |-> [v \in Values |-> NoName],
            vmap |-> [t \in Tables |-> <<>>], last |-> [t \in Tables |-> 0]]

New(v) == v \notin alive /\ alive' = alive \cup {v}

(* A function is given its name when it is in the module: GetSymTab looks  *)
(* at the module of a global without asking whether there is one.          *)
CreateFunction(f) ==
  /\ New(f)
  /\ sym' = AddToSymbolTableList(sym, f, Module)
  /\ UNCHANGED insts

CreateBlock(b, f, n) ==
  /\ New(b) /\ f \in alive
  /\ sym' = SetName(AddToSymbolTableList(sym, b, f), b, n)
  /\ UNCHANGED insts

CreateInst(i, b, n) ==
  /\ New(i) /\ b \in alive
  /\ insts' = [insts EXCEPT ![b] = Append(@, i)]
  /\ sym' = SetName(AddToSymbolTableList(sym, i, b), i, n)

CreateDetached(i, n) ==
  /\ New(i)
  /\ sym' = SetName(sym, i, n)
  /\ UNCHANGED insts

Name(v, n) ==
  /\ v \in alive /\ n # sym.name[v]
  /\ sym' = SetName(sym, v, n)
  /\ UNCHANGED <<alive, insts>>

(* The values that enter the table of f: each with a name nobody else has. *)
NamesFree(V, f) ==
  LET named == {v \in V : f # Null /\ HasName(sym, v)}
  IN  \A v \in named :
        sym.name[v] \notin Taken(sym, f) /\ \A w \in named \ {v} : sym.name[w] # sym.name[v]

InsertInst(i, b) ==
  /\ {i, b} \subseteq alive /\ sym.parent[i] = Null
  /\ Careful => NamesFree({i}, sym.parent[b])
  /\ insts' = [insts EXCEPT ![b] = Append(@, i)]
  /\ sym' = AddToSymbolTableList(sym, i, b)
  /\ UNCHANGED alive

RemoveInst(i) ==
  /\ i \in alive /\ sym.parent[i] # Null
  /\ insts' = [insts EXCEPT ![sym.parent[i]] = RemoveFirst(@, i)]
  /\ sym' = RemoveFromSymbolTableList(sym, i)
  /\ UNCHANGED alive

InsertBlock(b, f) ==
  /\ {b, f} \subseteq alive /\ sym.parent[b] = Null
  /\ Careful => NamesFree({b} \cup Elems(insts[b]), f)
  /\ sym' = AddToSymbolTableList(sym, b, f)
  /\ UNCHANGED <<alive, insts>>

RemoveBlock(b) ==
  /\ b \in alive /\ sym.parent[b] # Null
  /\ sym' = RemoveFromSymbolTableList(sym, b)
  /\ UNCHANGED <<alive, insts>>

DestroyInst(i) ==
  /\ i \in alive
  /\ alive' = alive \ {i}
  /\ insts' = [b \in Blocks |-> RemoveFirst(insts[b], i)]
  /\ sym' = Destroy(sym, i)

DestroyBlock(b) ==
  /\ b \in alive
  /\ alive' = alive \ ({b} \cup Elems(insts[b]))
  /\ insts' = [insts EXCEPT ![b] = <<>>]
  /\ sym' = DestroyBlockIn(sym, b)

(* The function leaves the module's table before its blocks leave its own; *)
(* its table goes with it.                                                 *)
DestroyFunction(f) ==
  LET B == {b \in Blocks : sym.parent[b] = f}
  IN  /\ f \in alive
      /\ alive' = alive \ ({f} \cup B \cup UNION {Elems(insts[b]) : b \in B})
      /\ insts' = [b \in Blocks |-> IF b \in B THEN <<>> ELSE insts[b]]
      /\ sym' = [DestroyBlocks(Destroy(sym, f), SetToSeq(B)) EXCEPT !.last[f] = 0]

Next ==
  /\ \/ \E f \in Funcs : CreateFunction(f) \/ DestroyFunction(f)
     \/ \E b \in Blocks, f \in Funcs :
          InsertBlock(b, f) \/ \E n \in Wanted[b] : CreateBlock(b, f, n)
     \/ \E i \in Insts, b \in Blocks :
          InsertInst(i, b) \/ \E n \in Wanted[i] : CreateInst(i, b, n)
     \/ \E i \in Insts : RemoveInst(i) \/ DestroyInst(i)
     \/ \E b \in Blocks : RemoveBlock(b) \/ DestroyBlock(b)
     \/ \E i \in Insts : \E n \in Wanted[i] : CreateDetached(i, n)
     \/ \E v \in Values : \E n \in Wanted[v] : Name(v, n)
  /\ \A t \in Tables : sym'.last[t] <= MaxUnique[t]

Spec == Init /\ [][Next]_vars

-----------------------------------------------------------------------------
InTable(t) == {v \in alive : TableOf(sym, v) = t}

(***************************************************************************)
(* Parents, names and tables are what the code can store in them: a table  *)
(* has no entry for the empty name.                                        *)
(***************************************************************************)
TypeOK ==
  /\ alive \subseteq Values
  /\ \A f \in Funcs : sym.parent[f] \in {Module, Null}
  /\ \A b \in Blocks : sym.parent[b] \in Funcs \cup {Null} /\ Elems(insts[b]) \subseteq Insts
  /\ \A i \in Insts : sym.parent[i] \in Blocks \cup {Null}
  /\ \A t \in Tables :
       /\ sym.last[t] \in 0 .. MaxUnique[t]
       /\ NoName \notin Taken(sym, t)
       /\ \A n \in Taken(sym, t) : sym.vmap[t][n] \in Values

(***************************************************************************)
(* A table maps exactly the names of the values linked below its owner,    *)
(* each to its value, however values and blocks are renamed, moved and     *)
(* destroyed: two of them never share a name, and nothing remains in the   *)
(* table of a function that is gone.                                       *)
(***************************************************************************)
TablesInStep ==
  /\ TypeOK
  /\ \A t \in Tables :
       LET named == {v \in InTable(t) : HasName(sym, v)}
       IN  /\ Taken(sym, t) = {sym.name[v] : v \in named}
           /\ \A v \in named : sym.vmap[t][sym.name[v]] = v

(***************************************************************************)
(* Naming a value gives it the name asked for unless another value of the  *)
(* table has it, else that name with a number that makes it unique, and    *)
(* changes no other value's name.                                          *)
(***************************************************************************)
NamedAsAsked ==
  [][\A v \in Values : \A n \in Wanted[v] :
       Name(v, n) =>
         /\ \A w \in Values \ {v} : sym'.name[w] = sym.name[w]
         /\ IF TableOf(sym, v) # Null /\ \E w \in InTable(TableOf(sym, v)) \ {v} :
                                           n # NoName /\ sym.name[w] = n
            THEN \E k \in 1 .. 9 : sym'.name[v] = Append(n, k)
            ELSE sym'.name[v] = n]_vars

(***************************************************************************)
(* "Values remain in symbol table!": the table of a function that has been *)
(* destroyed is empty (ValueSymbolTable::~ValueSymbolTable).               *)
(***************************************************************************)
NoValuesRemain == \A f \in Funcs \ alive : Taken(sym, f) = {}
=============================================================================
