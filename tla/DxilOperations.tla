------------------------------ MODULE DxilOperations ------------------------------
(***************************************************************************)
(* The operations of DXIL are calls of functions dx.op.*, whose first      *)
(* argument is the opcode.  The disassembler notes behind each such call   *)
(* the name of its opcode and what its arguments are.  Three tables are    *)
(* indexed by the opcode: the enumeration, in alphabetical groups with     *)
(* explicit values; the properties, with the class whose function is       *)
(* called; and the lists of arguments, here only how many there are.       *)
(***************************************************************************)
EXTENDS Integers, Sequences, TLC

CONSTANTS
  Values,   \* the values passed as opcodes
  Null

VARIABLES
  call,     \* the call printed: its function, its arguments and the opcode
  note      \* the comment behind it

vars == <<call, note>>

(* The first groups, by what is computed and by stage, and those of        *)
(* resources, of registers, of the number of operands and of waves.        *)
StageOpCodes ==
  [ GlobalOrderedCountIncReserved |-> 129, ToDelete1 |-> 101, ToDelete2 |-> 102,
    ToDelete3 |-> 104, ToDelete4 |-> 105, ToDelete5 |-> 76, ToDelete6 |-> 77, FMax |-> 34,
    FMin |-> 35, IAddc |-> 43, ISubc |-> 45, UAddc |-> 44, USubc |-> 46, IMul |-> 40,
    UDiv |-> 42, UMul |-> 41, IMax |-> 36, IMin |-> 37, UMax |-> 38, UMin |-> 39,
    BitcastF16toI16 |-> 133, BitcastF32toI32 |-> 135, BitcastF64toI64 |-> 137,
    BitcastI16toF16 |-> 132, BitcastI32toF32 |-> 134, BitcastI64toF64 |-> 136,
    FlattenedThreadIdInGroup |-> 96, GroupId |-> 94, ThreadId |-> 93,
    ThreadIdInGroup |-> 95, LoadOutputControlPoint |-> 106, LoadPatchConstant |-> 107,
    DomainLocation |-> 108, Dot2 |-> 55, Dot3 |-> 56, Dot4 |-> 57,
    LegacyDoubleToFloat |-> 141, LegacyDoubleToSInt32 |-> 142, LegacyDoubleToUInt32 |-> 143,
    MakeDouble |-> 100, SplitDouble |-> 103, GSInstanceID |-> 138, CutStream |-> 98,
    EmitStream |-> 97, EmitThenCutStream |-> 99, OutputControlPointID |-> 110,
    PrimitiveID |-> 111, StorePatchConstant |-> 109, LegacyF16ToF32 |-> 140,
    LegacyF32ToF16 |-> 139, CycleCounterLegacy |-> 112, CalculateLOD |-> 84,
    Coverage |-> 147, DerivCoarseX |-> 86, DerivCoarseY |-> 87, DerivFineX |-> 88,
    DerivFineY |-> 89, Discard |-> 85, EvalCentroid |-> 92, EvalSampleIndex |-> 91,
    EvalSnapped |-> 90, InnerCoverage |-> 148, SampleIndex |-> 146, Bfi |-> 54 ]

ResourceOpCodes ==
  [ TextureGather |-> 74, TextureGatherCmp |-> 75, RenderTargetGetSampleCount |-> 80,
    RenderTargetGetSamplePosition |-> 79, Sample |-> 61, SampleBias |-> 62,
    SampleCmp |-> 65, SampleCmpLevelZero |-> 66, SampleGrad |-> 64, SampleLevel |-> 63,
    Texture2DMSGetSamplePosition |-> 78, BufferLoad |-> 69, BufferStore |-> 70,
    BufferUpdateCounter |-> 71, CBufferLoad |-> 59, CBufferLoadLegacy |-> 60,
    CheckAccessFullyMapped |-> 72, CreateHandle |-> 58, GetDimensions |-> 73,
    TextureLoad |-> 67, TextureStore |-> 68, AtomicBinOp |-> 81,
    AtomicCompareExchange |-> 82, Barrier |-> 83, LoadInput |-> 4, MinPrecXRegLoad |-> 2,
    MinPrecXRegStore |-> 3, StoreOutput |-> 5, TempRegLoad |-> 0, TempRegStore |-> 1,
    FMad |-> 47, Fma |-> 48, IMad |-> 49, Ibfe |-> 52, Msad |-> 51, UMad |-> 50,
    Ubfe |-> 53, Round_ne |-> 25, Round_ni |-> 26, Round_pi |-> 27, Round_z |-> 28,
    Acos |-> 15, Asin |-> 16, Atan |-> 17, Cos |-> 12, Exp |-> 20, FAbs |-> 6, Frc |-> 21,
    Hcos |-> 18, Hsin |-> 19, Htan |-> 113, IsFinite |-> 10, IsInf |-> 9, IsNaN |-> 8,
    IsNormal |-> 11, Log |-> 22, Rsqrt |-> 24, Saturate |-> 7, Sin |-> 13, Sqrt |-> 23,
    Tan |-> 14, Bfrev |-> 29, Countbits |-> 30, FirstbitHi |-> 32, FirstbitLo |-> 31,
    FirstbitSHi |-> 33, QuadOp |-> 131, QuadReadLaneAt |-> 130, WaveActiveAllEqual |-> 121,
    WaveActiveBallot |-> 122, WaveActiveBit |-> 126, WaveActiveOp |-> 125,
    WaveAllBitCount |-> 144, WaveAllTrue |-> 120, WaveAnyTrue |-> 119,
    WaveCaptureReserved |-> 114, WaveGetLaneCount |-> 117, WaveGetLaneIndex |-> 116,
    WaveGetOrderedIndex |-> 128, WaveIsFirstLane |-> 115, WaveIsHelperLaneReserved |-> 118,
    WavePrefixBitCount |-> 145, WavePrefixOp |-> 127, WaveReadLaneAt |-> 123,
    WaveReadLaneFirst |-> 124 ]

OpCode == StageOpCodes @@ ResourceOpCodes

NumOpCodes == 149

Ops(class, overloads, names) ==
  [n \in DOMAIN names |-> [name |-> names[n], class |-> class, overloads |-> overloads]]

(* Operations with a class of their own.                                   *)
Own(names) == [n \in DOMAIN names |-> [name |-> names[n], class |-> names[n], overloads |-> {}]]

ArithmeticProps ==
     Own(<<"TempRegLoad", "TempRegStore", "MinPrecXRegLoad", "MinPrecXRegStore", "LoadInput",
         "StoreOutput">>)
  \o Ops("unary", {"h", "f", "d"}, <<"FAbs", "Saturate">>)
  \o Ops("isSpecialFloat", {"h", "f"}, <<"IsNaN", "IsInf", "IsFinite", "IsNormal">>)
  \o Ops("unary", {"h", "f"}, <<"Cos", "Sin", "Tan", "Acos", "Asin", "Atan", "Hcos", "Hsin",
         "Exp", "Frc", "Log", "Sqrt", "Rsqrt", "Round_ne", "Round_ni", "Round_pi", "Round_z">>)
  \o Ops("unary", {"i16", "i32", "i64"}, <<"Bfrev">>)
  \o Ops("unaryBits", {"i16", "i32", "i64"}, <<"Countbits", "FirstbitLo", "FirstbitHi",
         "FirstbitSHi">>)
  \o Ops("binary", {"h", "f", "d"}, <<"FMax", "FMin">>)
  \o Ops("binary", {"i16", "i32", "i64"}, <<"IMax", "IMin", "UMax", "UMin">>)
  \o Ops("binaryWithTwoOuts", {"i32"}, <<"IMul", "UMul", "UDiv">>)
  \o Ops("binaryWithCarry", {"i32"}, <<"IAddc", "UAddc", "ISubc", "USubc">>)
  \o Ops("tertiary", {"h", "f", "d"}, <<"FMad">>)
  \o Ops("tertiary", {"d"}, <<"Fma">>)
  \o Ops("tertiary", {"i16", "i32", "i64"}, <<"IMad", "UMad">>)
  \o Ops("tertiary", {"i32", "i64"}, <<"Msad", "Ibfe", "Ubfe">>)
  \o Own(<<"Bfi", "Dot2", "Dot3", "Dot4">>)

ResourceProps ==
     Own(<<"CreateHandle", "CBufferLoad", "CBufferLoadLegacy",
         "Sample", "SampleBias", "SampleLevel", "SampleGrad", "SampleCmp", "SampleCmpLevelZero",
         "TextureLoad", "TextureStore", "BufferLoad", "BufferStore", "BufferUpdateCounter",
         "CheckAccessFullyMapped", "GetDimensions", "TextureGather", "TextureGatherCmp">>)
  \o Ops("reserved", {"void"}, <<"ToDelete5", "ToDelete6">>)
  \o Own(<<"Texture2DMSGetSamplePosition", "RenderTargetGetSamplePosition",
         "RenderTargetGetSampleCount", "AtomicBinOp", "AtomicCompareExchange", "Barrier",
         "CalculateLOD", "Discard">>)
  \o Ops("unary", {"h", "f"}, <<"DerivCoarseX", "DerivCoarseY", "DerivFineX", "DerivFineY">>)
  \o Own(<<"EvalSnapped", "EvalSampleIndex", "EvalCentroid", "ThreadId", "GroupId",
         "ThreadIdInGroup", "FlattenedThreadIdInGroup", "EmitStream", "CutStream",
         "EmitThenCutStream", "MakeDouble">>)
  \o Ops("reserved", {"void"}, <<"ToDelete1", "ToDelete2">>)
  \o Own(<<"SplitDouble">>)
  \o Ops("reserved", {"void"}, <<"ToDelete3", "ToDelete4">>)
  \o Own(<<"LoadOutputControlPoint", "LoadPatchConstant", "DomainLocation", "StorePatchConstant",
         "OutputControlPointID", "PrimitiveID", "CycleCounterLegacy">>)
  \o Ops("unary", {"h", "f"}, <<"Htan">>)
  \o Ops("reserved", {"void"}, <<"WaveCaptureReserved">>)
  \o Own(<<"WaveIsFirstLane", "WaveGetLaneIndex", "WaveGetLaneCount">>)
  \o Ops("reserved", {"void"}, <<"WaveIsHelperLaneReserved">>)
  \o Own(<<"WaveAnyTrue", "WaveAllTrue", "WaveActiveAllEqual", "WaveActiveBallot",
         "WaveReadLaneAt", "WaveReadLaneFirst", "WaveActiveOp", "WaveActiveBit">>)
  \o Ops("wavePrefixOp", {"h", "f", "d", "i8", "i16", "i32", "i64"}, <<"WavePrefixOp">>)
  \o Ops("reserved", {"void"}, <<"WaveGetOrderedIndex", "GlobalOrderedCountIncReserved">>)
  \o Own(<<"QuadReadLaneAt", "QuadOp", "BitcastI16toF16", "BitcastF16toI16", "BitcastI32toF32",
         "BitcastF32toI32", "BitcastI64toF64", "BitcastF64toI64", "GSInstanceID",
         "LegacyF32ToF16", "LegacyF16ToF32", "LegacyDoubleToFloat", "LegacyDoubleToSInt32",
         "LegacyDoubleToUInt32", "WaveAllBitCount">>)
  \o Ops("wavePrefixOp", {"void"}, <<"WavePrefixBitCount">>)
  \o Own(<<"SampleIndex", "Coverage", "InnerCoverage">>)

op_code_props_ == ArithmeticProps \o ResourceProps

OpCodeSignatures ==
  << 1, 2, 3, 4, 4, 4, 1, 1, 1, 1, 1, 1, 1, 1, 1, 1, 1, 1, 1, 1, 1, 1, 1, 1, 1, 1, 1, 1, 1, 1, 1,
     1, 1, 1, 2, 2, 2, 2, 2, 2, 2, 2, 2, 2, 2, 2, 2, 3, 3, 3, 3, 3, 3, 3, 4, 4, 6, 8, 4, 3,
     2, 10, 11, 10, 16, 11, 10, 8, 9, 3, 8, 2, 1, 2, 9, 10, 0, 0, 2, 1, 0, 6, 6, 1, 6, 1, 1,
     1, 1, 1, 5, 4, 3, 1, 1, 1, 0, 1, 1, 1, 2, 0, 0, 1, 0, 0, 4, 3, 1, 4, 0, 0, 0, 1, 0, 0,
     0, 0, 0, 1, 1, 1, 1, 2, 1, 3, 2, 3, 0, 0, 2, 2, 1, 1, 1, 1, 1, 1, 0, 1, 1, 1, 1, 1, 1,
     1, 0, 0, 0 >>

-----------------------------------------------------------------------------
(* What is called: an operation of DXIL, by an opcode that is or is not a  *)
(* constant, or another function.                                          *)
CallsPrinted == [dxop : {TRUE}, opcode : Values \cup {Null}] \cup [dxop : {FALSE}, opcode : {Null}]

Init == call \in CallsPrinted /\ note = Null

(* Mutated: the first opcode is taken for number one.                      *)
PrintFromOne(op) ==
  IF op \in 1..NumOpCodes THEN [name |-> op_code_props_[op].name, args |-> OpCodeSignatures[op]]
  ELSE [name |-> "invalid", args |-> op]

(* GetOpCodeName and OpCodeSignatures, both from zero.                     *)
PrintOpCode(op) ==
  IF op < NumOpCodes
    THEN [name |-> op_code_props_[op + 1].name, args |-> OpCodeSignatures[op + 1]]
    ELSE [name |-> "invalid", args |-> op]

PrintInfoComment ==
  /\ note = Null
  /\ call.dxop /\ call.opcode # Null
  /\ note' = PrintOpCode(call.opcode)
  /\ UNCHANGED call

Spec == Init /\ [][PrintInfoComment]_vars

-----------------------------------------------------------------------------
Shared(a, b) == a.class = b.class /\ a.overloads \cap b.overloads # {}

(***************************************************************************)
(* The note behind a call names the operation whose number in the          *)
(* enumeration was passed, for every number there is and no other; and     *)
(* calls of one function, being of one type, are given arguments of one    *)
(* number.                                                                 *)
(***************************************************************************)
NotesFit ==
  /\ note # Null =>
       IF \E name \in DOMAIN OpCode : OpCode[name] = call.opcode
         THEN note.name \in DOMAIN OpCode /\ OpCode[note.name] = call.opcode
         ELSE note.name = "invalid"
  /\ note # Null /\ note.name # "invalid" =>
       \A n \in 1..NumOpCodes :
         Shared(op_code_props_[n], op_code_props_[call.opcode + 1]) =>
           OpCodeSignatures[n] = note.args
=============================================================================
