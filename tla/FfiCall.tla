------------------------------ MODULE FfiCall ------------------------------
(***************************************************************************)
(* The part of libffi that com4j's native calls go through: ffi_prep_cif   *)
(* counts the bytes of the argument area, ffi_call has that area allocated *)
(* and ffi_prep_args fills it.  The counting and the placing are separate  *)
(* loops with separate rules for alignment, so whether the area is large   *)
(* enough is a fact about both.                                            *)
(*                                                                         *)
(* One specification covers the two builds: STDCALL (x86, 32 bits) and     *)
(* WIN64 (x64).  `abi' is chosen once, like the build.  The caller is open *)
(* here (any sequence of types); NativeCall is the caller com4j has.       *)
(***************************************************************************)
EXTENDS Naturals, Sequences

VARIABLES
  abi,      \* the build
  fpc,      \* where ffi_prep_cif / ffi_call is
  types,    \* cif->arg_types
  bytes,    \* cif->bytes
  counted,  \* history: the count after each argument of the first loop
  again,    \* arguments counted a second time by ffi_prep_cif_machdep
  argp,     \* ffi_prep_args' pointer, relative to the area it was given
  slots     \* what ffi_prep_args wrote: where, how long, and how

ffiVars == <<abi, fpc, types, bytes, counted, again, argp, slots>>

Abi == {"STDCALL", "WIN64"}

Word == IF abi = "WIN64" THEN 8 ELSE 4

(* A type com4j passes comes with its size and alignment filled in, the    *)
(* structures included (invoke.cpp), so initialize_aggregate never runs.   *)
FfiType == [size: Nat \ {0}, alignment: {1, 2, 4, 8}, type: {"SCALAR", "FLOAT", "STRUCT"}]

Align(v, a) == IF v % a = 0 THEN v ELSE v + (a - (v % a))

\* Mutant: the size is not rounded up to a word.
CountUnrounded(b, t) == Align(b, t.alignment) + t.size

(* What one argument adds to the count.                                    *)
CountOne(b, t) == Align(b, t.alignment) + Align(t.size, Word)

(* A structure of no register size is handed over as a pointer to a copy.  *)
OddStruct(t) == t.type = "STRUCT" /\ t.size \notin {1, 2, 4, 8}

Manner(t) ==
  IF abi = "WIN64" /\ (t.size > Word \/ OddStruct(t)) THEN "reference"
  ELSE IF abi = "WIN64" /\ t.type = "FLOAT" THEN "value"
  ELSE IF t.size < Word THEN "extended" ELSE "value"

(* The bytes one argument takes in the area.                               *)
Length(t) == IF Manner(t) = "value" THEN t.size ELSE Word

(* How far ffi_prep_args then moves its pointer.                           *)
Advance(t) == IF abi = "WIN64" THEN Align(Length(t), Word) ELSE Length(t)

(* ffi_call_win64 starts the area this far above the bytes it allocated.   *)
Shadow == IF abi = "WIN64" THEN 32 ELSE 0

FfiInit ==
  /\ abi \in Abi
  /\ fpc = "idle"
  /\ types = <<>> /\ counted = <<>> /\ slots = <<>>
  /\ bytes = 0 /\ again = 0 /\ argp = 0

-----------------------------------------------------------------------------

(* ffi_prep_cif is called with the types `ts'; HRESULT needs no room.      *)
FfiPrepare(ts) ==
  /\ fpc = "idle"
  /\ fpc' = "count"
  /\ types' = ts
  /\ counted' = <<>> /\ slots' = <<>>
  /\ bytes' = 0 /\ again' = 0 /\ argp' = 0
  /\ UNCHANGED abi

CountArgument ==
  /\ fpc = "count" /\ Len(counted) < Len(types)
  /\ bytes' = CountOne(bytes, types[Len(counted) + 1])
  /\ counted' = Append(counted, bytes')
  /\ UNCHANGED <<abi, fpc, types, again, argp, slots>>

EndCount ==
  /\ fpc = "count" /\ Len(counted) = Len(types)
  /\ fpc' = IF abi = "WIN64" THEN "machdep" ELSE "place"
  /\ UNCHANGED <<abi, types, bytes, counted, again, argp, slots>>

(* On WIN64 the machine dependent part counts every argument once more, on *)
(* top of what was counted already.                                        *)
CountAgain ==
  /\ fpc = "machdep" /\ again < Len(types)
  /\ bytes' = CountOne(bytes, types[again + 1])
  /\ again' = again + 1
  /\ UNCHANGED <<abi, fpc, types, counted, argp, slots>>

(* "ensure space for storing four registers"                               *)
EndMachdep ==
  /\ fpc = "machdep" /\ again = Len(types)
  /\ bytes' = bytes + 4 * Word
  /\ fpc' = "place"
  /\ UNCHANGED <<abi, types, counted, again, argp, slots>>

PlaceArgument ==
  /\ fpc = "place" /\ Len(slots) < Len(types)
  /\ LET t  == types[Len(slots) + 1]
         at == Align(argp, Word)
     IN  /\ slots' = Append(slots, [at |-> at, len |-> Length(t), by |-> Manner(t)])
         /\ argp' = at + Advance(t)
  /\ UNCHANGED <<abi, fpc, types, bytes, counted, again>>

EnterCallee ==
  /\ fpc = "place" /\ Len(slots) = Len(types)
  /\ fpc' = "callee"
  /\ UNCHANGED <<abi, types, bytes, counted, again, argp, slots>>

FfiReturn ==
  /\ fpc = "callee"
  /\ fpc' = "idle"
  /\ types' = <<>> /\ counted' = <<>> /\ slots' = <<>>
  /\ bytes' = 0 /\ again' = 0 /\ argp' = 0
  /\ UNCHANGED abi

FfiStep ==
  \/ CountArgument \/ EndCount \/ CountAgain \/ EndMachdep
  \/ PlaceArgument \/ EnterCallee

FfiNext ==
  \/ types' \in Seq(FfiType) /\ FfiPrepare(types')
  \/ FfiStep
  \/ FfiReturn

FfiSpec == FfiInit /\ [][FfiNext]_ffiVars

-----------------------------------------------------------------------------

(* One argument in the area: its offset, its length, and whether the      *)
(* callee finds the value, the value widened to a word, or its address.    *)
Slot == [at: Nat, len: Nat \ {0}, by: {"value", "reference", "extended"}]

FfiTypeOK ==
  /\ abi \in Abi
  /\ fpc \in {"idle", "count", "machdep", "place", "callee"}
  /\ types \in Seq(FfiType)
  /\ bytes \in Nat /\ argp \in Nat
  /\ counted \in Seq(Nat)
  /\ again \in 0..Len(types)
  /\ slots \in Seq(Slot)

(* How far apart a callee looks for its arguments: a word each on x64,     *)
(* packed words on x86.                                                    *)
Width(t) == IF abi = "WIN64" THEN 8 ELSE Align(t.size, 4)

SlotEnd(i) == slots[i].at + slots[i].len

(* No argument is written past the bytes that ffi_prep_cif counted, the    *)
(* offset the assembly code adds included, and no two arguments overlap:   *)
(* what the counting loops promise to the placing loop.                    *)
ArgumentsWithinFrame ==
  /\ \A i \in 1..Len(slots) : Shadow + SlotEnd(i) <= bytes
  /\ \A i, j \in 1..Len(slots) : i < j => SlotEnd(i) <= slots[j].at

=============================================================================
