------------------------------- MODULE DxilKinds -------------------------------
(***************************************************************************)
(* What an element of a DXIL signature is made of (DxilCompType.cpp) and   *)
(* how it is interpolated (DxilInterpolationMode.cpp).  Metadata holds     *)
(* both as numbers, a compiler makes the second from the words before a    *)
(* declaration, and a listing shows their names.                           *)
(***************************************************************************)
EXTENDS Integers, Sequences

(* The components' types, by their numbers from zero.                      *)
ComponentType ==
  <<"Invalid", "I1", "I16", "U16", "I32", "U32", "I64", "U64", "F16", "F32", "F64",
    "SNormF16", "UNormF16", "SNormF32", "UNormF32", "SNormF64", "UNormF64">>

IsFloatTy(k) == k \in {"F16", "F32", "F64"}
IsSIntTy(k)  == k \in {"I16", "I32", "I64"}
IsUIntTy(k)  == k \in {"U16", "U32", "U64"}
IsIntTy(k)   == IsSIntTy(k) \/ IsUIntTy(k)
IsBoolTy(k)  == k = "I1"
IsSNorm(k)   == k \in {"SNormF16", "SNormF32", "SNormF64"}
IsUNorm(k)   == k \in {"UNormF16", "UNormF32", "UNormF64"}
Is64Bit(k)   == k \in {"F64", "SNormF64", "UNormF64", "I64", "U64"}
HasMinPrec(k) == k \in {"I16", "U16", "F16", "SNormF16", "UNormF16"}

(* The type computed in: without the minimum precision and the range.      *)
GetBaseCompType(k) ==
  CASE k = "I1" -> "I1"
    [] k \in {"I16", "I32"} -> "I32" [] k = "I64" -> "I64"
    [] k \in {"U16", "U32"} -> "U32" [] k = "U64" -> "U64"
    [] k \in {"SNormF16", "UNormF16", "F16", "SNormF32", "UNormF32", "F32"} -> "F32"
    [] k \in {"SNormF64", "UNormF64", "F64"} -> "F64"

(* The types of LLVM have no sign and no range.                            *)
IntType(bits)   == [kind |-> "int", bits |-> bits]
FloatType(bits) == [kind |-> "float", bits |-> bits]

GetLLVMType(k) ==
  CASE k = "I1" -> IntType(1)
    [] k \in {"I16", "U16"} -> IntType(16)
    [] k \in {"I32", "U32"} -> IntType(32)
    [] k \in {"I64", "U64"} -> IntType(64)
    [] k \in {"SNormF16", "UNormF16", "F16"} -> FloatType(16)
    [] k \in {"SNormF32", "UNormF32", "F32"} -> FloatType(32)
    [] k \in {"SNormF64", "UNormF64", "F64"} -> FloatType(64)

GetLLVMBaseType(k) == GetLLVMType(GetBaseCompType(k))

GetCompType(type) ==
  CASE type = IntType(1) -> "I1"    [] type = IntType(16) -> "I16"
    [] type = IntType(32) -> "I32"  [] type = IntType(64) -> "I64"
    [] type = FloatType(16) -> "F16" [] type = FloatType(32) -> "F32"
    [] type = FloatType(64) -> "F64"

type_kind_names ==
  <<"invalid", "i1", "i16", "u16", "i32", "u32", "i64", "u64", "f16", "f32", "f64",
    "snorm_f16", "unorm_f16", "snorm_f32", "unorm_f32", "snorm_f64", "unorm_f64">>

type_kind_hlsl_names ==
  <<"unknown", "bool", "min16i", "min16i", "int", "uint", "int64_t", "uint64_t",
    "min16f", "float", "double", "snorm_min16f", "unorm_min16f", "snorm_float",
    "unorm_float", "snorm_double", "unorm_double">>

NumberOf(k) == CHOOSE n \in DOMAIN ComponentType : ComponentType[n] = k
TypeName(k) == type_kind_names[NumberOf(k)]
HLSLName(k) == type_kind_hlsl_names[NumberOf(k)]

-----------------------------------------------------------------------------
InterpolationMode ==
  <<"Undefined", "Constant", "Linear", "LinearCentroid", "LinearNoperspective",
    "LinearNoperspectiveCentroid", "LinearSample", "LinearNoperspectiveSample">>

(* A number that is none of these is the mode Invalid.                     *)
ModeOfNumber(n) ==
  IF n < Len(InterpolationMode) THEN InterpolationMode[n + 1] ELSE "Invalid"

(* The words before a declaration, as a set, are five bits of an index.    *)
Bits == [sample |-> 1, centroid |-> 2, noperspective |-> 4, linear |-> 8, nointerpolation |-> 16]

interp_mode_tab ==
  <<"Undefined", "LinearSample", "LinearCentroid", "LinearSample",
    "LinearNoperspective", "LinearNoperspectiveSample",
    "LinearNoperspectiveCentroid", "LinearNoperspectiveSample",
    "Linear", "LinearSample", "LinearCentroid", "LinearSample",
    "LinearNoperspective", "LinearNoperspectiveSample",
    "LinearNoperspectiveCentroid", "LinearNoperspectiveSample", "Constant">>
  \o [n \in 1..15 |-> "Invalid"]

ModeOfWords(words) ==
  LET Bit(w) == IF w \in words THEN Bits[w] ELSE 0
  IN  interp_mode_tab[1 + Bit("nointerpolation") + Bit("linear") + Bit("noperspective")
                        + Bit("centroid") + Bit("sample")]

IsAnyLinear(m) == m \notin {"Invalid", "Undefined", "Constant"}
IsAnyNoPerspective(m) ==
  m \in {"LinearNoperspective", "LinearNoperspectiveCentroid", "LinearNoperspectiveSample"}
IsAnyCentroid(m) == m \in {"LinearCentroid", "LinearNoperspectiveCentroid"}
IsAnySample(m) == m \in {"LinearSample", "LinearNoperspectiveSample"}

(* The names, as the words they are of; the mode Invalid has none, and     *)
(* asking for it fails.                                                    *)
ModeNames ==
  <<{}, {"nointerpolation"}, {"linear"}, {"centroid"}, {"noperspective"},
    {"noperspective", "centroid"}, {"sample"}, {"noperspective", "sample"}>>

ModeName(m) == ModeNames[CHOOSE n \in DOMAIN InterpolationMode : InterpolationMode[n] = m]

-----------------------------------------------------------------------------
(* What a type of a component promises: it is of one class, its width is   *)
(* that of its LLVM type, which leads back to a type of the same; it is    *)
(* computed in 32 bits at least; and a name tells it from all others, one  *)
(* in HLSL from those of another width or class.                           *)
TypeFits(k) ==
  LET bits == GetLLVMType(k).bits
      classes == {n \in 1..5 : <<IsFloatTy(k), IsIntTy(k), IsBoolTy(k), IsSNorm(k), IsUNorm(k)>>[n]}
  IN  /\ \A m, n \in classes : m = n
      /\ classes # {}
      /\ Is64Bit(k) <=> bits = 64
      /\ HasMinPrec(k) <=> bits = 16
      /\ GetLLVMType(GetCompType(GetLLVMType(k))) = GetLLVMType(k)
      /\ GetLLVMBaseType(k) = [GetLLVMType(k) EXCEPT !.bits = IF @ = 16 THEN 32 ELSE @]
      /\ \A n \in 2..Len(ComponentType) :
           LET j == ComponentType[n] IN
           /\ TypeName(j) = TypeName(k) => j = k
           /\ HLSLName(j) = HLSLName(k) => GetLLVMType(j) = GetLLVMType(k)

(* What a mode promises of the words it was made from.  Sampling takes     *)
(* precedence over the centroid, and no interpolation excludes the others. *)
ModeFits(words, m) ==
  LET rest == words \ {"linear"} IN
  /\ m = "Invalid" <=> "nointerpolation" \in words /\ words # {"nointerpolation"}
  /\ m # "Invalid" =>
       /\ IsAnyLinear(m) <=> words \notin {{}, {"nointerpolation"}}
       /\ IsAnySample(m) <=> "sample" \in words
       /\ IsAnyCentroid(m) <=> "centroid" \in words /\ "sample" \notin words
       /\ IsAnyNoPerspective(m) <=> "noperspective" \in words
       /\ ModeName(m) = IF "sample" \in words THEN rest \ {"centroid"}
                        ELSE IF rest = {} THEN words ELSE rest
=============================================================================
