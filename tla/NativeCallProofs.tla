-------------------------- MODULE NativeCallProofs --------------------------
(* Theorems about NativeCall, for every set of calls.                      *)
EXTENDS NativeCall, FfiCallProofs

-----------------------------------------------------------------------------
(* The calls go through libffi as FfiCall says: the caller that FfiCall    *)
(* leaves open is this one.                                                *)

\* What the conversion loop has passed so far are kinds that libffi knows.
PassedInv ==
  /\ pc \in {"idle", "message"} => passed = <<>>
  /\ pc \in {"convert", "native"} => passed \in Seq(Kinds)

\* libffi has a type for each kind.
LEMMA KindTypes ==
  ASSUME NEW k \in Kinds, abi \in Abi
  PROVE  FfiTypeOf(k) \in FfiType
<1>1. Word \in {4, 8}
  BY DEF Word
<1> QED
  BY <1>1 DEF FfiTypeOf, FfiType, Kinds

\* What the callee expects is of such a kind too.
LEMMA DeclaredKinds == \A c : Declared(c) \in Kinds
BY DEF Declared, Kinds, Numbers

\* A conversion puts one more argument in place, as a `k', or it ends the loop.
Passes(k) ==
  \/ pc' \in {"post", "done"} /\ outcome' # "none"
  \/ /\ UNCHANGED <<pc, outcome>> /\ passed' = Append(passed, k)
     /\ comParamIndex' = comParamIndex + 1 /\ javaParamIndex' = javaParamIndex + 1

LEMMA PassPasses ==
  ASSUME NEW k, NEW u, Pass(k, u)
  PROVE  Passes(k)
BY DEF Pass, Passes, Fail

LEMMA PassPlainPasses ==
  ASSUME NEW k, PassPlain(k)
  PROVE  Passes(k)
BY PassPasses DEF PassPlain

LEMMA PassWithPasses ==
  ASSUME NEW k, NEW kinds, NEW acts, PassWith(k, kinds, acts)
  PROVE  Passes(k)
BY PassPasses DEF PassWith

LEMMA PassByRefPasses ==
  ASSUME NEW kind, NEW val, NEW held, NEW acts, PassByRef(kind, val, held, acts)
  PROVE  Passes("pointer")
<1>1. Pass("pointer", Len(unms) + 1)
  BY DEF PassByRef
<1> QED
  BY <1>1, PassPasses

LEMMA FailOrFault ==
  ASSUME Fail \/ Fault
  PROVE  \A k : Passes(k)
BY DEF Fail, Fault, Passes

\* Each conversion passes what the callee's declaration has for its parameter.
LEMMA ConvertPasses ==
  ASSUME Convert, ~ReturnBuffer, ~NoMoreParameters
  PROVE  \E c : Converting(c) /\ Passes(Declared(c))
<1>1. /\ Declared("CURRENCY") = "sint64" /\ Declared("VARIANT") = "variant"
      /\ \A c \in DOMAIN Numbers : Declared(c) = Numbers[c]
  BY DEF Declared, Numbers
<1>2. \A c \in {"BSTR", "LPCWSTR", "LPCSTR", "PVOID", "GUID", "SAFEARRAY", "INT64_byRef", "PVOID_byRef",
               "BSTR_byRef", "CURRENCY_byRef", "VARIANT_byRef", "SAFEARRAY_byRef"} \cup NumbersByRef :
        Declared(c) = "pointer"
  BY DEF Declared, Numbers, NumbersByRef
<1>5. CASE ConvertBSTR
  BY <1>5, <1>2, PassPlainPasses, PassWithPasses DEF ConvertBSTR
<1>6. CASE ConvertBSTR_byRef
  BY <1>6, <1>2, PassPlainPasses, PassByRefPasses DEF ConvertBSTR_byRef
<1>7. CASE ConvertString
  BY <1>7, <1>2, PassPlainPasses, PassWithPasses DEF ConvertString
<1>8. CASE ConvertNumber
  BY <1>8, <1>1, PassPlainPasses DEF ConvertNumber
<1>9. CASE ConvertNumber_byRef
  <2>1. PICK c \in NumbersByRef :
          /\ Converting(c)
          /\ IF Arg = Null THEN PassPlain("pointer")
             ELSE PassByRef(c, IF Held(Arg) = Null THEN ZeroOf[c] ELSE Held(Arg), <<>>, <<>>)
    BY <1>9 DEF ConvertNumber_byRef
  <2>2. Passes("pointer")
    BY <2>1, PassPlainPasses, PassByRefPasses
  <2> QED
    BY <2>1, <2>2, <1>2
<1>10. CASE ConvertPVOID
  BY <1>10, <1>2, PassPlainPasses, FailOrFault DEF ConvertPVOID
<1>11. CASE ConvertGUID
  BY <1>11, <1>2, PassWithPasses DEF ConvertGUID
<1>12. CASE ConvertCURRENCY
  BY <1>12, <1>1, PassPlainPasses DEF ConvertCURRENCY
<1>13. CASE ConvertCURRENCY_byRef
  BY <1>13, <1>2, PassPlainPasses, PassByRefPasses, FailOrFault DEF ConvertCURRENCY_byRef
<1>14. CASE ConvertVARIANT
  BY <1>14, <1>1, PassPlainPasses, PassWithPasses, FailOrFault DEF ConvertVARIANT
<1>15. CASE ConvertVARIANT_byRef
  BY <1>15, <1>2, PassPlainPasses, PassWithPasses, PassByRefPasses, FailOrFault DEF ConvertVARIANT_byRef
<1>16. CASE ConvertSAFEARRAY
  BY <1>16, <1>2, PassWithPasses, FailOrFault DEF ConvertSAFEARRAY
<1>17. CASE ConvertSAFEARRAY_byRef
  BY <1>17, <1>2, PassPlainPasses, PassByRefPasses, FailOrFault DEF ConvertSAFEARRAY_byRef
<1>18. CASE UnexpectedConversion
  BY <1>18, <1>2, FailOrFault DEF UnexpectedConversion
<1> QED
  BY <1>5, <1>6, <1>7, <1>8, <1>9, <1>10, <1>11, <1>12, <1>13, <1>14, <1>15, <1>16,
     <1>17, <1>18 DEF Convert

LEMMA ConvertBegins == Convert => pc = "convert"
BY DEF Convert, ReturnBuffer, NoMoreParameters, ConvertBSTR, ConvertBSTR_byRef, ConvertString,
   ConvertNumber, ConvertNumber_byRef, ConvertPVOID, ConvertGUID, ConvertCURRENCY,
   ConvertCURRENCY_byRef, ConvertVARIANT, ConvertVARIANT_byRef, ConvertSAFEARRAY,
   ConvertSAFEARRAY_byRef, UnexpectedConversion, Converting

\* The conversion loop passes kinds that libffi knows, or ends.
LEMMA ConvertKinds ==
  ASSUME passed \in Seq(Kinds), Convert
  PROVE  /\ pc = "convert" /\ pc' \in {"convert", "post", "done"} /\ UNCHANGED <<ffiVars, call>>
         /\ pc' = "convert" => passed' \in Seq(Kinds)
<1>1. "pointer" \in Kinds
  BY DEF Kinds
<1>2. CASE ReturnBuffer
  <2>1. pc = "convert" /\ UNCHANGED <<ffiVars, call>>
    BY <1>2 DEF ReturnBuffer, javaVars
  <2>2. Append(passed, "pointer") \in Seq(Kinds)
    BY <1>1
  <2>3. CASE passed' = Append(passed, "pointer") /\ UNCHANGED pc
    BY <2>1, <2>2, <2>3
  <2>4. CASE UNCHANGED <<pc, passed>>
    BY <2>1, <2>4
  <2>5. CASE Fail
    BY <2>1, <2>5 DEF Fail
  <2> QED
    BY <1>2, <2>1, <2>3, <2>4, <2>5 DEF ReturnBuffer
<1>3. CASE NoMoreParameters
  BY <1>3 DEF NoMoreParameters, javaVars
<1>4. CASE ~ReturnBuffer /\ ~NoMoreParameters
  <2>1. PICK c : Converting(c) /\ Passes(Declared(c))
    BY <1>4, ConvertPasses
  <2>2. pc = "convert" /\ UNCHANGED <<ffiVars, call>>
    BY <2>1 DEF Converting, javaVars
  <2>3. Declared(c) \in Kinds
    BY DeclaredKinds
  <2> HIDE DEF Declared
  <2>4. Append(passed, Declared(c)) \in Seq(Kinds)
    BY <2>3
  <2> QED
    BY <2>1, <2>2, <2>4 DEF Passes
<1> QED
  BY <1>2, <1>3, <1>4

-----------------------------------------------------------------------------

LEMMA CallNativePrepares ==
  ASSUME PassedInv, FfiInv, CallNative
  PROVE  types' \in Seq(FfiType) /\ FfiPrepare(types') /\ PassedInv'
<1> DEFINE rest == [ i \in DOMAIN passed |-> FfiTypeOf(passed[i]) ]
<1>1. passed \in Seq(Kinds) /\ pc' = "native" /\ passed' = passed
  BY DEF CallNative, PassedInv, convVars
<1>2. abi \in Abi
  BY DEF FfiInv, FfiTypeOK
<1>3. "pointer" \in Kinds
  BY DEF Kinds
<1>4. FfiTypeOf("pointer") \in FfiType
  BY <1>2, <1>3, KindTypes
<1>5. \A i \in DOMAIN passed : FfiTypeOf(passed[i]) \in FfiType
  BY <1>1, <1>2, KindTypes
<1>6. rest \in Seq(FfiType)
  <2> HIDE DEF FfiType
  <2>1. DOMAIN passed = 1..Len(passed) /\ Len(passed) \in Nat
    BY <1>1
  <2> QED
    BY <2>1, <1>5
<1>7. <<FfiTypeOf("pointer")>> \o rest \in Seq(FfiType)
  <2> HIDE DEF rest
  <2> QED
    BY <1>4, <1>6
<1>8. FfiPrepare(<<FfiTypeOf("pointer")>> \o rest)
  BY DEF CallNative
<1>9. types' = <<FfiTypeOf("pointer")>> \o rest
  BY <1>8 DEF FfiPrepare
<1>10. PassedInv'
  BY <1>1 DEF PassedInv
<1> QED
  BY <1>7, <1>8, <1>9, <1>10

\* Every step of a call is a step of libffi, or none of its business.
LEMMA CallSteps ==
  ASSUME PassedInv, FfiInv, [Next]_vars
  PROVE  [FfiNext]_ffiVars /\ PassedInv'
<1>1. ASSUME NEW c \in Calls, pc = "idle", BeginCall(c)
      PROVE  UNCHANGED ffiVars /\ PassedInv'
  <2>1. passed = <<>> /\ passed' = <<>> /\ <<>> \in Seq(Kinds)
    BY <1>1 DEF PassedInv, BeginCall
  <2>2. pc' \in {"message", "dispatch", "convert"} /\ UNCHANGED ffiVars
    BY <1>1 DEF BeginCall
  <2> QED
    BY <2>1, <2>2 DEF PassedInv
<1>2. CASE MessageParameter
  <2>1. passed = <<>> /\ passed' = <<>> /\ <<>> \in Seq(Kinds)
    BY <1>2 DEF PassedInv, MessageParameter, convVars
  <2>2. pc' \in {"message", "dispatch", "convert", "done"} /\ UNCHANGED ffiVars
    BY <1>2 DEF MessageParameter, AfterMessages
  <2> QED
    BY <2>1, <2>2 DEF PassedInv
<1>3. CASE Convert
  <2>1. passed \in Seq(Kinds)
    BY <1>3, ConvertBegins DEF PassedInv
  <2>2. /\ UNCHANGED ffiVars /\ pc' \in {"convert", "post", "done"}
        /\ pc' = "convert" => passed' \in Seq(Kinds)
    BY <1>3, <2>1, ConvertKinds
  <2> QED
    BY <2>2 DEF PassedInv
<1>4. CASE CallNative
  BY <1>4, CallNativePrepares DEF FfiNext
<1>5. CASE Libffi
  <2>1. FfiStep /\ pc' = "native" /\ pc = "native" /\ passed' = passed
    BY <1>5 DEF Libffi, convVars
  <2> QED
    BY <2>1 DEF FfiNext, PassedInv
<1>6. CASE CalleeReplaces
  <2>1. UNCHANGED ffiVars /\ UNCHANGED <<pc, passed>>
    BY <1>6 DEF CalleeReplaces
  <2> QED
    BY <2>1 DEF PassedInv
<1>7. CASE CalleeReturns
  <2>1. FfiReturn /\ pc' = "returned"
    BY <1>7 DEF CalleeReturns
  <2> QED
    BY <2>1 DEF FfiNext, PassedInv
<1>8. CASE ReturnFromNative
  BY <1>8 DEF ReturnFromNative, PassedInv
<1>9. CASE RunPostAction
  BY <1>9 DEF RunPostAction, PassedInv
<1>10. CASE LeaveNative
  BY <1>10 DEF LeaveNative, PassedInv
<1>11. CASE ConvertResult
  BY <1>11 DEF ConvertResult, PassedInv
<1>12. CASE CleanupParameter
  <2>1. UNCHANGED ffiVars /\ pc' \in {"done", "cleanup"}
    BY <1>12 DEF CleanupParameter
  <2> QED
    BY <2>1 DEF PassedInv
<1>13. CASE EndCall
  BY <1>13 DEF EndCall, PassedInv
<1>14. CASE ConvertDispatchArgument
  <2>1. UNCHANGED ffiVars /\ pc' \in {"done", "dispatch"}
    BY <1>14 DEF ConvertDispatchArgument, Fault
  <2> QED
    BY <2>1 DEF PassedInv
<1>15. CASE InvokeDispatch
  BY <1>15 DEF InvokeDispatch, PassedInv
<1>16. CASE UNCHANGED vars
  <2>1. UNCHANGED ffiVars /\ UNCHANGED <<pc, passed>>
    BY <1>16 DEF vars, convVars
  <2> QED
    BY <2>1 DEF PassedInv
<1> QED
  BY <1>1, <1>2, <1>3, <1>4, <1>5, <1>6, <1>7, <1>8, <1>9, <1>10, <1>11, <1>12, <1>13, <1>14, <1>15,
     <1>16 DEF Next

\* libffi's counts stay in order while com4j calls through it.
LEMMA CallsKeepFfi == Spec => [](PassedInv /\ FfiInv)
<1>1. Init => PassedInv /\ FfiInv
  BY FfiInitInv DEF Init, PassedInv
<1>2. PassedInv /\ FfiInv /\ [Next]_vars => PassedInv' /\ FfiInv'
  BY CallSteps, FfiStepInv
<1> QED
  BY <1>1, <1>2, PTL DEF Spec

(* The calls of com4j use libffi as FfiCall has it: the conversion loop    *)
(* gives ffi_prep_cif types that libffi knows, calls it once per call, and *)
(* nothing else touches what libffi counts and places.                     *)
THEOREM ImplementsFfi == Spec => FfiSpec
<1>1. Init => FfiInit
  BY DEF Init
<1>2. PassedInv /\ FfiInv /\ [Next]_vars => [FfiNext]_ffiVars
  BY CallSteps
<1> QED
  BY <1>1, <1>2, CallsKeepFfi, PTL DEF Spec, FfiSpec

(* No argument of a call is written outside of the area that libffi has    *)
(* counted for it, whatever the parameters of the method are.              *)
THEOREM CallsStayInFrame == Spec => []ArgumentsWithinFrame
BY ImplementsFfi, FfiFrame, PTL

-----------------------------------------------------------------------------
(* Where the callee finds its arguments.                                   *)

\* What the callee expects at position i, the return buffer among its parameters.
Expected(i) ==
  IF ~Separate \/ i <= call.retIndex THEN Declared(call.params[i].conv)
  ELSE IF i = call.retIndex + 1 THEN "pointer"
  ELSE Declared(call.params[i - 1].conv)

(* The two indexes of the conversion loop: each round passes an argument   *)
(* and takes a parameter, except the one that passes the return buffer     *)
(* and, where there is none, the last, which does neither.                 *)
LoopInv ==
  /\ comParamIndex \in 0..(n + 1) /\ javaParamIndex \in 0..n
  /\ retIndex \in {call.retIndex, -1}
  /\ Separate =>
       /\ retIndex = call.retIndex /\ Len(passed) = comParamIndex
       /\ javaParamIndex = IF comParamIndex <= retIndex THEN comParamIndex ELSE comParamIndex - 1
  /\ ~Separate =>
       /\ Len(passed) = javaParamIndex
       /\ javaParamIndex = IF comParamIndex <= n THEN comParamIndex ELSE n
  /\ \A i \in 1..Len(passed) : passed[i] = Expected(i)

PositionsInv ==
  /\ call \in Calls \cup {NoCall}
  /\ pc \in {"idle", "message"} => comParamIndex = 0 /\ javaParamIndex = 0
  /\ pc = "message" => retIndex = call.retIndex
  /\ pc = "convert" => LoopInv
  /\ pc = "native" =>
       /\ passed = Signature
       /\ types = <<FfiTypeOf("pointer")>> \o [ i \in DOMAIN passed |-> FfiTypeOf(passed[i]) ]

LEMMA CallFacts ==
  ASSUME NEW c \in Calls \cup {NoCall}
  PROVE  Len(c.params) \in Nat /\ c.retIndex \in -1..Len(c.params) /\ c.inout \in BOOLEAN
<1>1. CASE c \in Calls
  <2>1. c.params \in Seq(Range(c.params))
    BY <1>1, CallsAssumption
  <2>2. Len(c.params) \in Nat
    BY <2>1
  <2> QED
    BY <1>1, <2>2, CallsAssumption
<1>2. CASE c = NoCall
  BY <1>2 DEF NoCall
<1> QED
  BY <1>1, <1>2

\* Three sequences in a row.
LEMMA InARow ==
  ASSUME NEW S, NEW a \in Seq(S), NEW b \in Seq(S), NEW c \in Seq(S)
  PROVE  /\ a \o b \o c \in Seq(S) /\ Len(a \o b \o c) = Len(a) + Len(b) + Len(c)
         /\ \A i \in 1..Len(a) : (a \o b \o c)[i] = a[i]
         /\ \A i \in 1..Len(b) : (a \o b \o c)[Len(a) + i] = b[i]
         /\ \A i \in 1..Len(c) : (a \o b \o c)[Len(a) + Len(b) + i] = c[i]
<1>1. a \o b \in Seq(S) /\ Len(a \o b) = Len(a) + Len(b)
  OBVIOUS
<1>2. (\A i \in 1..Len(a) : (a \o b)[i] = a[i]) /\ \A i \in 1..Len(b) : (a \o b)[Len(a) + i] = b[i]
  OBVIOUS
<1> DEFINE d == a \o b
<1>3. /\ \A i \in 1..Len(d) : (d \o c)[i] = d[i]
      /\ \A i \in 1..Len(c) : (d \o c)[Len(d) + i] = c[i]
      /\ d \o c \in Seq(S) /\ Len(d \o c) = Len(d) + Len(c)
  <2> HIDE DEF d
  <2>1. d \in Seq(S)
    BY <1>1 DEF d
  <2> QED
    BY <2>1
<1> QED
  BY <1>1, <1>2, <1>3

LEMMA SignatureIs ==
  ASSUME call \in Calls \cup {NoCall}
  PROVE  /\ Signature \in Seq(Kinds)
         /\ Len(Signature) = IF Separate THEN n + 1 ELSE n
         /\ \A i \in 1..Len(Signature) : Signature[i] = Expected(i)
<1> DEFINE before == IF Separate THEN call.retIndex ELSE n
           own(i) == Declared(call.params[i].conv)
           front == [ i \in 1..before |-> own(i) ]
           buffer == IF Separate THEN <<"pointer">> ELSE <<>>
           back == [ i \in 1..(n - before) |-> own(before + i) ]
<1>1. n \in Nat /\ call.retIndex \in -1..n
  BY CallFacts DEF n
<1>2. before \in 0..n /\ (Separate => call.retIndex \in 0..n /\ before = call.retIndex) /\ (~Separate => before = n)
  BY <1>1 DEF Separate
<1>3. \A i : own(i) \in Kinds
  BY DeclaredKinds
<1>4. Signature = front \o buffer \o back
  BY DEF Signature
<1>5. \A i : Expected(i) = IF ~Separate \/ i <= call.retIndex THEN own(i)
                          ELSE IF i = call.retIndex + 1 THEN "pointer" ELSE own(i - 1)
  BY DEF Expected
<1>6. front \in Seq(Kinds) /\ Len(front) = before /\ (\A i \in 1..before : front[i] = own(i))
  <2> HIDE DEF own, before
  <2> QED
    BY <1>2, <1>1, <1>3
<1>7. back \in Seq(Kinds) /\ Len(back) = n - before /\ (\A i \in 1..(n - before) : back[i] = own(before + i))
  <2> HIDE DEF own, before
  <2> QED
    BY <1>2, <1>1, <1>3
<1>8. buffer \in Seq(Kinds) /\ Len(buffer) = (IF Separate THEN 1 ELSE 0) /\ (Separate => buffer[1] = "pointer")
  <2>1. "pointer" \in Kinds
    BY DEF Kinds
  <2> HIDE DEF Kinds
  <2>2. CASE Separate
    BY <2>1, <2>2
  <2>3. CASE ~Separate
    BY <2>3
  <2> QED
    BY <2>2, <2>3
<1> HIDE DEF own, before, front, back, buffer
<1>11. /\ Signature \in Seq(Kinds) /\ Len(Signature) = Len(front) + Len(buffer) + Len(back)
       /\ \A i \in 1..Len(front) : Signature[i] = front[i]
       /\ \A i \in 1..Len(buffer) : Signature[Len(front) + i] = buffer[i]
       /\ \A i \in 1..Len(back) : Signature[Len(front) + Len(buffer) + i] = back[i]
  <2>1. front \in Seq(Kinds) /\ buffer \in Seq(Kinds) /\ back \in Seq(Kinds)
    BY <1>6, <1>7, <1>8
  <2> DEFINE whole == front \o buffer \o back
  <2>2. /\ whole \in Seq(Kinds) /\ Len(whole) = Len(front) + Len(buffer) + Len(back)
        /\ \A i \in 1..Len(front) : whole[i] = front[i]
        /\ \A i \in 1..Len(buffer) : whole[Len(front) + i] = buffer[i]
        /\ \A i \in 1..Len(back) : whole[Len(front) + Len(buffer) + i] = back[i]
    BY <2>1, InARow
  <2> QED
    BY <2>2, <1>4
<1>9. CASE Separate
  <2>1. Signature \in Seq(Kinds) /\ Len(Signature) = n + 1
    BY <1>1, <1>2, <1>6, <1>7, <1>8, <1>9, <1>11
  <2>2. ASSUME NEW i \in 1..(n + 1)
        PROVE  Signature[i] = Expected(i)
    <3>1. CASE i <= before
      BY <1>1, <1>2, <1>5, <1>6, <1>11, <3>1
    <3>2. CASE i = before + 1
      <4>1. Signature[i] = buffer[1]
        BY <1>1, <1>2, <1>6, <1>8, <1>9, <1>11, <3>2
      <4> QED
        BY <4>1, <1>1, <1>2, <1>5, <1>8, <1>9, <3>2
    <3>3. CASE i > before + 1
      <4>1. i - before - 1 \in 1..(n - before) /\ before + (i - before - 1) = i - 1
        BY <1>2, <1>1, <3>3
      <4>2. Signature[i] = back[i - before - 1]
        <5>1. i = Len(front) + Len(buffer) + (i - before - 1)
          BY <1>1, <1>2, <1>6, <1>8, <1>9
        <5> QED
          BY <4>1, <5>1, <1>7, <1>11
      <4>3. back[i - before - 1] = own(i - 1)
        BY <4>1, <1>7
      <4> QED
        BY <1>1, <1>2, <1>5, <1>9, <3>3, <4>2, <4>3
    <3> QED
      BY <1>2, <1>1, <3>1, <3>2, <3>3
  <2> QED
    BY <2>1, <2>2, <1>9
<1>10. CASE ~Separate
  <2>1. Signature \in Seq(Kinds) /\ Len(Signature) = n
    BY <1>1, <1>2, <1>6, <1>7, <1>8, <1>10, <1>11
  <2>2. ASSUME NEW i \in 1..n
        PROVE  Signature[i] = Expected(i)
    BY <1>1, <1>2, <1>5, <1>6, <1>10, <1>11
  <2> QED
    BY <2>1, <2>2, <1>10
<1> QED
  BY <1>9, <1>10

LEMMA SameCall ==
  ASSUME UNCHANGED call
  PROVE  /\ n' = n /\ (Separate' <=> Separate) /\ Signature' = Signature
         /\ \A i : Expected(i)' = Expected(i)
BY DEF n, Separate, Expected, Signature

\* One more argument of the kind that is expected next.
LEMMA OneMore ==
  ASSUME passed \in Seq(Kinds), NEW k \in Kinds, passed' = Append(passed, k), UNCHANGED call,
         \A i \in 1..Len(passed) : passed[i] = Expected(i), k = Expected(Len(passed) + 1)
  PROVE  /\ Len(passed') = Len(passed) + 1
         /\ \A i \in 1..Len(passed') : passed'[i] = Expected(i)'
<1>1. \A i : Expected(i)' = Expected(i)
  BY SameCall
<1> QED
  BY <1>1

LEMMA ReturnBufferPositions ==
  ASSUME passed \in Seq(Kinds), n \in Nat, call.retIndex \in -1..n, call.inout \in BOOLEAN, LoopInv, ReturnBuffer
  PROVE  pc' = "convert" => LoopInv'
<1>1. /\ retIndex = call.retIndex /\ comParamIndex = retIndex /\ retIndex # -1 /\ ~call.inout /\ UNCHANGED call
      /\ pc = "convert" /\ comParamIndex <= n
  BY DEF ReturnBuffer, ReturnSlot, LoopInv, javaVars
<1>2. n' = n /\ (Separate' <=> Separate)
  BY <1>1, SameCall
<1>3. CASE Separate
  <2>1. call.retConv # "HRESULT"
    BY <1>3 DEF Separate
  <2>2. CASE passed' = Append(passed, "pointer") /\ comParamIndex' = comParamIndex + 1
             /\ UNCHANGED <<javaParamIndex, retIndex>>
    <3>1. "pointer" \in Kinds
      BY DEF Kinds
    <3>2. "pointer" = Expected(Len(passed) + 1)
      BY <1>1, <1>3 DEF Expected, LoopInv
    <3>3. /\ Len(passed') = Len(passed) + 1
          /\ \A i \in 1..Len(passed') : passed'[i] = Expected(i)'
      BY <1>1, <2>2, <3>1, <3>2, OneMore DEF LoopInv
    <3> QED
      BY <1>1, <1>2, <1>3, <2>2, <3>3 DEF LoopInv
  <2>3. CASE Fail
    BY <2>3 DEF Fail
  <2> QED
    BY <2>1, <2>2, <2>3 DEF ReturnBuffer
<1>4. CASE ~Separate
  <2>1. call.retConv = "HRESULT"
    BY <1>1, <1>4 DEF Separate
  <2>2. UNCHANGED <<passed, comParamIndex, javaParamIndex>> /\ retIndex' = -1
    BY <2>1 DEF ReturnBuffer, RetConvs
  <2>3. \A i : Expected(i)' = Expected(i)
    BY <1>1, SameCall
  <2> QED
    BY <1>1, <1>2, <1>4, <2>2, <2>3 DEF LoopInv
<1> QED
  BY <1>3, <1>4

LEMMA NoMorePositions ==
  ASSUME n \in Nat, call.retIndex \in -1..n, LoopInv, NoMoreParameters
  PROVE  LoopInv'
<1>1. /\ UNCHANGED <<call, passed, javaParamIndex, retIndex>> /\ comParamIndex' = comParamIndex + 1
      /\ comParamIndex <= n /\ javaParamIndex >= n /\ ~ReturnSlot
  BY DEF NoMoreParameters, javaVars
<1>2. n' = n /\ (Separate' <=> Separate) /\ \A i : Expected(i)' = Expected(i)
  BY <1>1, SameCall
<1>3. ~Separate
  BY <1>1 DEF LoopInv, ReturnSlot, Separate
<1> QED
  BY <1>1, <1>2, <1>3 DEF LoopInv

LEMMA ConvertingPositions ==
  ASSUME passed \in Seq(Kinds), n \in Nat, call.retIndex \in -1..n, LoopInv,
         NEW c, Converting(c), Passes(Declared(c))
  PROVE  pc' = "convert" => LoopInv'
<1> SUFFICES ASSUME pc' = "convert" PROVE LoopInv'
  OBVIOUS
<1>1. /\ UNCHANGED <<call, retIndex>> /\ comParamIndex <= n /\ javaParamIndex < n /\ ~ReturnSlot
      /\ call.params[javaParamIndex + 1].conv = c
  BY DEF Converting, javaVars
<1>2. /\ passed' = Append(passed, Declared(c))
      /\ comParamIndex' = comParamIndex + 1 /\ javaParamIndex' = javaParamIndex + 1
  BY DEF Passes
<1>3. n' = n /\ (Separate' <=> Separate)
  BY <1>1, SameCall
<1>4. Declared(c) = Expected(Len(passed) + 1)
  <2>1. CASE Separate
    <3>1. comParamIndex # retIndex /\ retIndex = call.retIndex /\ Len(passed) = comParamIndex
          /\ javaParamIndex = IF comParamIndex <= retIndex THEN comParamIndex ELSE comParamIndex - 1
      BY <1>1, <2>1 DEF LoopInv, ReturnSlot, Separate
    <3>2. comParamIndex \in Nat /\ retIndex \in Int
      BY DEF LoopInv
    <3>3. CASE comParamIndex < retIndex
      BY <1>1, <2>1, <3>1, <3>2, <3>3 DEF Expected
    <3>4. CASE comParamIndex > retIndex
      <4>1. (Len(passed) + 1) - 1 = javaParamIndex + 1
        BY <3>1, <3>2, <3>4
      <4> QED
        BY <1>1, <2>1, <3>1, <3>2, <3>4, <4>1 DEF Expected
    <3> QED
      BY <3>1, <3>2, <3>3, <3>4
  <2>2. CASE ~Separate
    BY <1>1, <2>2 DEF LoopInv, Expected
  <2> QED
    BY <2>1, <2>2
<1>5. /\ Len(passed') = Len(passed) + 1
      /\ \A i \in 1..Len(passed') : passed'[i] = Expected(i)'
  BY <1>1, <1>2, <1>4, DeclaredKinds, OneMore DEF LoopInv
<1>6. CASE Separate
  <2>1. comParamIndex # retIndex
    BY <1>1, <1>6 DEF ReturnSlot, Separate
  <2> QED
    BY <1>1, <1>2, <1>3, <1>5, <1>6, <2>1 DEF LoopInv
<1>7. CASE ~Separate
  BY <1>1, <1>2, <1>3, <1>5, <1>7 DEF LoopInv
<1> QED
  BY <1>6, <1>7

\* When the loop is over, everything the callee declares has been passed.
LEMMA CallNativePositions ==
  ASSUME passed \in Seq(Kinds), call \in Calls \cup {NoCall}, LoopInv, CallNative
  PROVE  passed = Signature
<1>1. n \in Nat /\ call.retIndex \in -1..n
  BY CallFacts DEF n
<1>2. comParamIndex = n + 1
  BY <1>1 DEF CallNative, LoopInv
<1>3. Len(passed) = IF Separate THEN n + 1 ELSE n
  BY <1>1, <1>2 DEF LoopInv
<1>4. /\ Signature \in Seq(Kinds) /\ Len(Signature) = Len(passed)
      /\ \A i \in 1..Len(passed) : Signature[i] = passed[i]
  BY <1>3, SignatureIs DEF LoopInv
<1> QED
  BY <1>4

LEMMA PositionsStep ==
  ASSUME PassedInv, PositionsInv, [Next]_vars
  PROVE  PositionsInv'
<1>0. call \in Calls \cup {NoCall} /\ n \in Nat /\ call.retIndex \in -1..n /\ call.inout \in BOOLEAN
  BY CallFacts DEF PositionsInv, n
<1>1. ASSUME NEW c \in Calls, pc = "idle", BeginCall(c)
      PROVE  PositionsInv'
  <2>1. call' = c /\ passed' = <<>> /\ comParamIndex' = 0 /\ javaParamIndex' = 0 /\ retIndex' = c.retIndex
        /\ pc' \in {"message", "dispatch", "convert"}
    BY <1>1 DEF BeginCall, PassedInv, PositionsInv
  <2>2. n' \in Nat
    BY <2>1, CallFacts DEF n
  <2>3. Separate' => c.retIndex # -1
    BY <2>1 DEF Separate
  <2>4. c.retIndex \in -1..n'
    BY <2>1, CallFacts DEF n
  <2>5. LoopInv'
    <3>1. n' \in Nat /\ retIndex' \in -1..n' /\ call'.retIndex = retIndex' /\ Len(passed') = 0
          /\ (Separate' => retIndex' \in 0..n')
      BY <2>1, <2>2, <2>3, <2>4
    <3>2. \A i \in 1..Len(passed') : passed'[i] = Expected(i)'
      BY <3>1
    <3>3. comParamIndex' \in 0..(n' + 1) /\ javaParamIndex' \in 0..n' /\ retIndex' \in {call'.retIndex, -1}
      <4>1. \A m \in Nat : 0 \in 0..m /\ 0 \in 0..(m + 1)
        OBVIOUS
      <4> QED
        BY <2>1, <3>1, <4>1
    <3>4. Separate' => javaParamIndex' = IF comParamIndex' <= retIndex' THEN comParamIndex' ELSE comParamIndex' - 1
      BY <2>1, <3>1
    <3>5. javaParamIndex' = IF comParamIndex' <= n' THEN comParamIndex' ELSE n'
      BY <2>1, <3>1
    <3> QED
      BY <2>1, <3>1, <3>2, <3>3, <3>4, <3>5 DEF LoopInv
  <2> QED
    BY <2>1, <2>5 DEF PositionsInv
<1>2. CASE MessageParameter
  <2>1. passed = <<>> /\ UNCHANGED <<call, passed, comParamIndex, javaParamIndex, retIndex>> /\ pc = "message"
        /\ pc' \in {"message", "dispatch", "convert", "done"}
    BY <1>2 DEF MessageParameter, AfterMessages, convVars, PassedInv
  <2>2. n' = n /\ (Separate' <=> Separate)
    BY <2>1, SameCall
  <2>3. Separate => call.retIndex # -1
    BY DEF Separate
  <2>4. LoopInv'
    BY <1>0, <2>1, <2>2, <2>3 DEF LoopInv, PositionsInv
  <2> QED
    BY <2>1, <2>4 DEF PositionsInv
<1>3. CASE Convert
  <2>1. pc = "convert" /\ passed \in Seq(Kinds) /\ LoopInv
    BY <1>3, ConvertBegins DEF PassedInv, PositionsInv
  <2>2. pc' \in {"convert", "post", "done"} /\ UNCHANGED call
    BY <1>3, <2>1, ConvertKinds
  <2>3. pc' = "convert" => LoopInv'
    <3>1. CASE ReturnBuffer
      BY <3>1, <1>0, <2>1, ReturnBufferPositions
    <3>2. CASE NoMoreParameters
      BY <3>2, <1>0, <2>1, NoMorePositions
    <3>3. CASE ~ReturnBuffer /\ ~NoMoreParameters
      <4>1. PICK c : Converting(c) /\ Passes(Declared(c))
        BY <1>3, <3>3, ConvertPasses
      <4> QED
        BY <4>1, <1>0, <2>1, ConvertingPositions
    <3> QED
      BY <3>1, <3>2, <3>3
  <2> QED
    BY <2>2, <2>3, <1>0 DEF PositionsInv
<1>4. CASE CallNative
  <2>1. pc = "convert" /\ pc' = "native" /\ UNCHANGED <<call, passed, abi>>
        /\ types' = <<FfiTypeOf("pointer")>> \o [ i \in DOMAIN passed |-> FfiTypeOf(passed[i]) ]
    BY <1>4 DEF CallNative, javaVars, convVars, FfiPrepare
  <2>2. passed = Signature
    BY <1>0, <1>4, <2>1, CallNativePositions DEF PassedInv, PositionsInv
  <2>3. Signature' = Signature
    BY <2>1, SameCall
  <2>4. \A k : FfiTypeOf(k)' = FfiTypeOf(k)
    BY <2>1 DEF FfiTypeOf, Word
  <2> QED
    BY <1>0, <2>1, <2>2, <2>3, <2>4 DEF PositionsInv
<1>5. CASE Libffi \/ CalleeReplaces \/ UNCHANGED vars
  <2>1. UNCHANGED <<pc, call, passed, comParamIndex, javaParamIndex, retIndex, types, abi>>
    BY <1>5 DEF Libffi, CalleeReplaces, vars, javaVars, convVars, ffiVars, FfiStep, CountArgument, EndCount,
         CountAgain, EndMachdep, PlaceArgument, EnterCallee
  <2>2. n' = n /\ (Separate' <=> Separate) /\ Signature' = Signature /\ \A i : Expected(i)' = Expected(i)
    BY <2>1, SameCall
  <2>3. LoopInv => LoopInv'
    BY <2>1, <2>2 DEF LoopInv
  <2>4. \A k : FfiTypeOf(k)' = FfiTypeOf(k)
    BY <2>1 DEF FfiTypeOf, Word
  <2> QED
    BY <2>1, <2>2, <2>3, <2>4 DEF PositionsInv
<1>6. CASE CalleeReturns \/ ReturnFromNative \/ RunPostAction \/ LeaveNative \/ ConvertResult
  <2>1. UNCHANGED call /\ pc' \in {"returned", "post", "java", "cleanup", "done"}
    BY <1>6 DEF CalleeReturns, ReturnFromNative, RunPostAction, LeaveNative, ConvertResult, javaVars
  <2> QED
    BY <1>0, <2>1 DEF PositionsInv
<1>7. CASE CleanupParameter
  BY <1>0, <1>7 DEF CleanupParameter, PositionsInv
<1>8. CASE EndCall
  BY <1>8 DEF EndCall, PositionsInv
<1>9. CASE ConvertDispatchArgument \/ InvokeDispatch
  <2>1. UNCHANGED call /\ pc' \in {"dispatch", "done"}
    BY <1>9 DEF ConvertDispatchArgument, InvokeDispatch, Fault, javaVars
  <2> QED
    BY <1>0, <2>1 DEF PositionsInv
<1> QED
  BY <1>1, <1>2, <1>3, <1>4, <1>5, <1>6, <1>7, <1>8, <1>9 DEF Next

\* A structure of no register size is a large one: there is only the VARIANT.
LEMMA LargeByReference ==
  ASSUME NEW k \in Kinds, abi \in Abi
  PROVE  (Manner(FfiTypeOf(k)) = "reference") <=> (abi = "WIN64" /\ FfiTypeOf(k).size > 8)
BY DEF Kinds, FfiTypeOf, Manner, OddStruct, Word, Abi

LEMMA FindsArguments ==
  ASSUME PassedInv, PositionsInv, FfiInv, PlacedInv
  PROVE  CalleeFindsArguments
<1> SUFFICES ASSUME InCallee PROVE CalleeFindsArguments
  BY DEF CalleeFindsArguments
<1> DEFINE kinds == <<"pointer">> \o Signature
           ts == <<FfiTypeOf("pointer")>> \o [ i \in DOMAIN Signature |-> FfiTypeOf(Signature[i]) ]
<1>1. pc = "native" /\ fpc = "callee"
  BY DEF InCallee
<1>2. Signature \in Seq(Kinds) /\ types = ts /\ abi \in Abi /\ slots \in Seq(Slot)
  BY <1>1 DEF PassedInv, PositionsInv, FfiInv, FfiTypeOK
<1>3. Len(slots) = Len(types)
  BY <1>1 DEF PlacedInv
<1>4. DOMAIN ts = 1..Len(types) /\ Len(types) \in Nat
  <2>1. types \in Seq(FfiType)
    BY DEF FfiInv, FfiTypeOK
  <2> HIDE DEF ts, FfiType
  <2> QED
    BY <1>2, <2>1
<1>5. ASSUME NEW i \in 1..Len(types)
      PROVE  \E k \in Kinds : types[i] = FfiTypeOf(k)
  <2> DEFINE rest == [ j \in DOMAIN Signature |-> FfiTypeOf(Signature[j]) ]
  <2>1. DOMAIN Signature = 1..Len(Signature) /\ Len(Signature) \in Nat
        /\ \A j \in 1..Len(Signature) : Signature[j] \in Kinds
    <3> HIDE DEF Kinds
    <3> QED
      BY <1>2
  <2>2. "pointer" \in Kinds
    BY DEF Kinds
  <2>3. DOMAIN rest = 1..Len(Signature) /\ \A j \in 1..Len(Signature) : rest[j] = FfiTypeOf(Signature[j])
    BY <2>1
  <2>4. Len(rest) = Len(Signature) /\ ts = <<FfiTypeOf("pointer")>> \o rest
    BY <2>1
  <2> HIDE DEF rest, Kinds
  <2>5. CASE i = 1
    <3>1. (<<FfiTypeOf("pointer")>> \o rest)[1] = FfiTypeOf("pointer")
      BY <2>1, <2>4
    <3> QED
      BY <2>2, <2>4, <2>5, <1>2, <3>1
  <2>6. CASE i # 1
    <3>1. Len(ts) = 1 + Len(Signature)
      BY <2>1, <2>4
    <3>2. i - 1 \in 1..Len(Signature) /\ i \in 1..(1 + Len(Signature))
      BY <1>2, <1>4, <2>1, <2>6, <3>1
    <3>3. (<<FfiTypeOf("pointer")>> \o rest)[i] = rest[i - 1]
      BY <2>1, <2>4, <2>6, <3>2
    <3> QED
      BY <1>2, <2>1, <2>3, <2>4, <3>2, <3>3
  <2> QED
    BY <2>5, <2>6
<1>6. ASSUME NEW i \in 1..Len(types)
      PROVE  /\ slots[i].at = IF i = 1 THEN 0 ELSE slots[i - 1].at + Width(types[i - 1])
             /\ (slots[i].by = "reference") <=> (abi = "WIN64" /\ types[i].size > 8)
  <2>1. slots[i].at = NextPlace(i - 1) /\ slots[i].by = Manner(types[i])
    BY <1>3 DEF PlacedInv
  <2>2. PICK k \in Kinds : types[i] = FfiTypeOf(k)
    BY <1>5
  <2>3. (Manner(FfiTypeOf(k)) = "reference") <=> (abi = "WIN64" /\ FfiTypeOf(k).size > 8)
    BY <1>2, LargeByReference
  <2>4. (i - 1 = 0) <=> (i = 1)
    BY <1>4
  <2> QED
    BY <2>1, <2>2, <2>3, <2>4 DEF NextPlace
<1> HIDE DEF ts
<1>7. \A i \in DOMAIN ts :
        /\ slots[i].at = IF i = 1 THEN 0 ELSE slots[i - 1].at + Width(ts[i - 1])
        /\ (slots[i].by = "reference") <=> (abi = "WIN64" /\ ts[i].size > 8)
  BY <1>2, <1>4, <1>6
<1> QED
  BY <1>2, <1>3, <1>7 DEF CalleeFindsArguments, ts

(* Whatever the method, the callee finds every argument and the return     *)
(* buffer in the place and of the kind that its declaration has: the index *)
(* arithmetic of Environment::invoke, the separate return value, and the   *)
(* loops of libffi agree with the calling convention of either build.      *)
THEOREM ArgumentsAreFound == Spec => []CalleeFindsArguments
<1>1. Init => PositionsInv
  BY DEF Init, PositionsInv
<1>2. PassedInv /\ PositionsInv /\ [Next]_vars => PositionsInv'
  BY PositionsStep
<1>3. PassedInv /\ PositionsInv /\ FfiInv /\ PlacedInv => CalleeFindsArguments
  BY FindsArguments
<1> QED
  BY <1>1, <1>2, <1>3, CallsKeepFfi, ImplementsFfi, FfiOrder, PTL DEF Spec


-----------------------------------------------------------------------------
(* What a value becomes on its way through a VARIANT or a SAFEARRAY.       *)

\* The table, entry by entry.
LEMMA Table ==
  /\ DOMAIN setters = 1..19
  /\ setters[1].cls = "Boolean" /\ setters[1].vt = "BOOL" /\ setters[1].as = "BOOL"
  /\ setters[2].cls = "String" /\ setters[2].vt = "BSTR" /\ setters[2].as = "BSTR"
  /\ setters[3].cls = "Float" /\ setters[3].vt = "R4" /\ setters[3].as = "R4"
  /\ setters[4].cls = "Double" /\ setters[4].vt = "R8" /\ setters[4].as = "R8"
  /\ setters[5].cls = "Byte" /\ setters[5].vt = "I1" /\ setters[5].as = "I1"
  /\ setters[6].cls = "Short" /\ setters[6].vt = "I2" /\ setters[6].as = "I2"
  /\ setters[7].cls = "Integer" /\ setters[7].vt = "I4" /\ setters[7].as = "I4"
  /\ setters[8].cls = "Long" /\ setters[8].vt = "I8" /\ setters[8].as = "I8"
  /\ setters[9].cls = "Long" /\ setters[9].vt = "INT" /\ setters[9].as = "INT"
  /\ setters[10].cls = "Date" /\ setters[10].vt = "DATE" /\ setters[10].as = "DATE"
  /\ setters[11].cls = "BigDecimal" /\ setters[11].vt = "DECIMAL" /\ setters[11].as = "DECIMAL"
  /\ setters[12].cls = "Com4jObject" /\ setters[12].vt = "DISPATCH" /\ setters[12].as = "DISPATCH"
  /\ setters[13].cls = "Com4jObject" /\ setters[13].vt = "UNKNOWN" /\ setters[13].as = "DISPATCH"
  /\ setters[14].cls = "Variant" /\ setters[14].vt = "-1" /\ setters[14].as = "NOOP"
  /\ setters[15].cls = "ComEnum" /\ setters[15].vt = "-1" /\ setters[15].as = "ENUM"
  /\ setters[16].cls = "Short" /\ setters[16].vt = "UI1" /\ setters[16].as = "I2"
  /\ setters[17].cls = "Integer" /\ setters[17].vt = "UI2" /\ setters[17].as = "I4"
  /\ setters[18].cls = "Long" /\ setters[18].vt = "UI4" /\ setters[18].as = "I8"
  /\ setters[19].cls = "BigInteger" /\ setters[19].vt = "UI8" /\ setters[19].as = "UI8"
BY DEF setters, Entry

LEMMA FirstOfIs ==
  ASSUME NEW S \in SUBSET Int, NEW m \in S, \A j \in S : m <= j
  PROVE  FirstOf(S) = setters[m]
<1>1. \A k \in S : (\A j \in S : k <= j) => k = m
  OBVIOUS
<1>2. (CHOOSE k \in S : \A j \in S : k <= j) = m
  BY <1>1
<1> QED
  BY <1>2 DEF FirstOf

\* The entries of scalars that are found from either side.
Main == {1, 2, 3, 4, 5, 6, 7, 8, 10, 11, 12, 19}

LEMMA MainIsFirst ==
  ASSUME NEW k \in Main
  PROVE  /\ k \in 1..19 /\ setters[k].vt = setters[k].as /\ setters[k].as \notin {"NOOP", "ENUM", "ERROR", "EMPTY", "NULL"}
         /\ \A j \in 1..19 : setters[j].cls = setters[k].cls => k <= j
         /\ \A j \in 1..19 : setters[j].vt = setters[k].as => k <= j
<1>1. \A j \in 1..19 : j \in {1, 2, 3, 4, 5, 6, 7, 8, 9, 10, 11, 12, 13, 14, 15, 16, 17, 18, 19}
  OBVIOUS
<1> QED
  BY <1>1, Table DEF Main

LEMMA MainEntry ==
  ASSUME NEW k \in Main
  PROVE  LET e == setters[k] IN
         /\ OfClass(e.cls) # {} /\ FirstOf(OfClass(e.cls)) = e
         /\ OfType(e.as) # {} /\ FirstOf(OfType(e.as)) = e /\ ClassOf(e.as) = e.cls
<1> DEFINE e == setters[k]
<1>1. OfClass(e.cls) \in SUBSET Int /\ k \in OfClass(e.cls) /\ \A j \in OfClass(e.cls) : k <= j
  BY MainIsFirst, Table DEF OfClass
<1>2. OfType(e.as) \in SUBSET Int /\ k \in OfType(e.as) /\ \A j \in OfType(e.as) : k <= j
  BY MainIsFirst, Table DEF OfType
<1>3. FirstOf(OfClass(e.cls)) = e
  BY <1>1, FirstOfIs
<1>4. FirstOf(OfType(e.as)) = e
  BY <1>2, FirstOfIs
<1> QED
  BY <1>1, <1>2, <1>3, <1>4 DEF ClassOf

LEMMA ScalarsAreMain == \A c \in Scalars : \E k \in Main : setters[k].cls = c
<1>1. \A j \in 1..19 : j \in {1, 2, 3, 4, 5, 6, 7, 8, 9, 10, 11, 12, 13, 14, 15, 16, 17, 18, 19}
  OBVIOUS
<1>2. SUFFICES ASSUME NEW j \in 1..19, setters[j].cls \notin {"Variant", "ComEnum"}
               PROVE  \E k \in Main : setters[k].cls = setters[j].cls
  BY Table DEF Scalars
<1>3. j \in Main \/ j \in {9, 13, 16, 17, 18}
  BY <1>1, <1>2, Table DEF Main
<1>4. \A k \in {6, 7, 8, 12} : k \in Main
  BY DEF Main
<1> QED
  BY <1>3, <1>4, Table

\* The two classes whose entries fit no type, and those without an entry.
LEMMA OtherClasses ==
  /\ OfClass("Variant") = {14} /\ FirstOf(OfClass("Variant")).as = "NOOP"
  /\ OfClass("ComEnum") = {15} /\ FirstOf(OfClass("ComEnum")).as = "ENUM"
  /\ \A c \in {"Object", "Object[]", "Object[][]", "Variant[]"} \cup DOMAIN ElementType : OfClass(c) = {}
  /\ OfType("ARRAY") = {}
<1>1. \A j \in 1..19 : j \in {1, 2, 3, 4, 5, 6, 7, 8, 9, 10, 11, 12, 13, 14, 15, 16, 17, 18, 19}
  OBVIOUS
<1>2. OfClass("Variant") = {14} /\ OfClass("ComEnum") = {15}
  BY <1>1, Table DEF OfClass
<1>3. \A m \in Int : FirstOf({m}) = setters[m]
  BY FirstOfIs
<1>4. \A c \in {"Object", "Object[]", "Object[][]", "Variant[]"} \cup DOMAIN ElementType : OfClass(c) = {}
  BY <1>1, Table DEF OfClass, ElementType
<1>5. OfType("ARRAY") = {}
  BY <1>1, Table DEF OfType
<1> QED
  BY <1>2, <1>3, <1>4, <1>5, Table

(* Variant.fromDate says that it is the opposite of toDate.  It is, for    *)
(* every date from 30 December 1899 on, and for no date before.            *)
THEOREM DatesThatComeBack == \A t \in Int : ToDate(FromDate(t)) = t <=> t >= 0
BY DEF ToDate, FromDate

\* A scalar becomes a VARIANT of its own type, and an object of its own class again.
LEMMA PlainTrip ==
  ASSUME NEW o, Item(o), NEW there, NEW back
  PROVE  LET v == ConvertWith(o, there) IN
         /\ v \notin {NoVariant, Faulty, NoVal} /\ v.vt # "ARRAY" /\ v.data = <<>>
         /\ VariantWith("Object", v, back) = o
<1>1. o = Java(o.cls, o.val) /\ o.cls \in Scalars
      /\ (o.cls = "Date" => o.val = <<o.val[1]>> /\ o.val[1] \in Int /\ o.val[1] >= 0)
  BY DEF Item, Plain, Kept
<1>2. PICK k \in Main : setters[k].cls = o.cls
  BY <1>1, ScalarsAreMain
<1> DEFINE e == setters[k]
           v == ConvertWith(o, there)
<1>3. /\ OfClass(o.cls) # {} /\ FirstOf(OfClass(o.cls)) = e
      /\ OfType(e.as) # {} /\ FirstOf(OfType(e.as)) = e /\ ClassOf(e.as) = o.cls
  BY <1>2, MainEntry
<1>4. e.as \notin {"NOOP", "ENUM", "ERROR", "EMPTY", "NULL", "ARRAY", "NULL_POINTER", "FAULT"}
  BY Table DEF Main
<1>5. o # Null
  <2>1. o.cls # "null"
    BY <1>2, Table DEF Main
  <2> QED
    BY <2>1 DEF Null, Java
<1>6. (e.as = "DATE") <=> (o.cls = "Date")
  BY <1>2, Table DEF Main
<1>7. v = Scalar(e.as, o.val)
  <2>1. CASE e.as = "DATE"
    <3>1. o.val = <<o.val[1]>> /\ FromDate(o.val[1]) = o.val[1]
      BY <1>1, <1>6, <2>1 DEF FromDate
    <3>2. v = Scalar("DATE", <<FromDate(o.val[1])>>)
      BY <1>3, <1>5, <2>1 DEF ConvertWith
    <3> QED
      BY <2>1, <3>1, <3>2
  <2>2. CASE e.as # "DATE"
    BY <1>3, <1>4, <1>5, <2>2 DEF ConvertWith
  <2> QED
    BY <2>1, <2>2
<1> HIDE DEF v, e
<1>8. v.vt = e.as /\ v.val = o.val /\ v.data = <<>>
  BY <1>7 DEF Scalar
<1>9. v \notin {NoVariant, Faulty, NoVal} /\ v.vt # "ARRAY"
  BY <1>4, <1>8 DEF NoVariant, Faulty, NoVal, Scalar
<1>10. VariantWith("Object", v, back) = Get(e, v, back)
  BY <1>3, <1>4, <1>8, OtherClasses DEF VariantWith
<1>11. Get(e, v, back) = Java(o.cls, o.val)
  <2>1. Changes(v.vt, e.as)
    BY <1>8 DEF Changes
  <2>2. CASE e.as = "DATE"
    <3>1. o.val = <<ToDate(v.val[1])>> /\ o.cls = "Date"
      BY <1>1, <1>6, <1>8, <2>2 DEF ToDate
    <3> QED
      BY <2>1, <2>2, <3>1, <1>4 DEF Get
  <2>3. CASE e.as # "DATE"
    BY <1>3, <1>4, <1>8, <2>1, <2>3 DEF Get
  <2> QED
    BY <2>2, <2>3
<1> QED
  BY <1>1, <1>8, <1>9, <1>10, <1>11 DEF v

\* A com4j.Variant in an array stands for what is in it.
Inner(x) == IF x.cls = "Variant" THEN x.elems[1] ELSE x

LEMMA ElementTrip ==
  ASSUME NEW x, Item(x) \/ (x = Boxed("Variant", x.elems) /\ Items(x.elems) /\ Len(x.elems) = 1)
  PROVE  Convert1(x) \notin {NoVariant, Faulty} /\ Object1(Convert1(x)) = Inner(x)
<1>1. CASE Item(x)
  <2>1. Convert1(x) \notin {NoVariant, Faulty} /\ Object1(Convert1(x)) = x
    BY <1>1, PlainTrip DEF Convert1, Object1
  <2>2. x.cls # "Variant"
    BY <1>1 DEF Item, Plain, Scalars
  <2> QED
    BY <2>1, <2>2 DEF Inner
<1>2. CASE x = Boxed("Variant", x.elems) /\ Items(x.elems) /\ Len(x.elems) = 1
  <2> DEFINE y == x.elems[1]
  <2>1. x.cls = "Variant" /\ x # Null
    BY <1>2 DEF Boxed, Null, Java
  <2>2. x.elems # <<>> /\ DOMAIN x.elems = {1} /\ Item(y)
    BY <1>2 DEF Items
  <2>3. y \in Parts(x)
    BY <2>2 DEF Parts, Range
  <2>4. Convert1(x) = Convert0(y)
    BY <2>1, <2>2, <2>3, OtherClasses DEF Convert1, ConvertWith
  <2>5. Convert0(y) \notin {NoVariant, Faulty} /\ Object1(Convert0(y)) = y
    BY <2>2, PlainTrip DEF Convert0, Object1
  <2> QED
    BY <2>1, <2>4, <2>5 DEF Inner
<1> QED
  BY <1>1, <1>2

\* An array of primitives: one entry of the table per class and element type.
LEMMA PrimitivesTrip ==
  ASSUME NEW o, o.cls \in DOMAIN ElementType, o = Java(o.cls, o.val), NEW there, NEW back
  PROVE  LET v == ToSafeArray(o, there) IN
         /\ v.vt = "ARRAY" /\ v \notin {NoVariant, Faulty, NoVal}
         /\ ToJavaArray(v, back) = o
<1> DEFINE v == ToSafeArray(o, there)
<1>1. v = SafeArray(ElementType[o.cls], <<Len(o.val)>>, o.val, <<>>)
  BY DEF ToSafeArray
<1>2. v.vt = "ARRAY" /\ v.elem = ElementType[o.cls] /\ v.val = o.val
  BY <1>1 DEF SafeArray
<1>3. v \notin {NoVariant, Faulty, NoVal}
  BY <1>2 DEF NoVariant, Faulty, NoVal, Scalar
<1>4. v.elem # "VARIANT" /\ \A c \in DOMAIN ElementType : ElementType[c] = v.elem => c = o.cls
  BY <1>2 DEF ElementType
<1>5. (CHOOSE c \in DOMAIN ElementType : ElementType[c] = v.elem) = o.cls
  BY <1>2, <1>4
<1> HIDE DEF v
<1>6. ToJavaArray(v, back) = Java(o.cls, o.val)
  BY <1>2, <1>4, <1>5 DEF ToJavaArray
<1> QED
  BY <1>2, <1>3, <1>6 DEF v

\* An array of one dimension: element by element.
LEMMA RowTrip ==
  ASSUME NEW o, o.cls \in ObjectArrays, o.elems \in Seq(Range(o.elems)),
         NEW there, \A k \in DOMAIN o.elems :
           there[o.elems[k]] \notin {NoVariant, Faulty}
  PROVE  LET v == ToSafeArray(o, there) IN
         /\ v.vt = "ARRAY" /\ v \notin {NoVariant, Faulty, NoVal}
         /\ v.elem = "VARIANT" /\ v.bounds = <<Len(o.elems)>>
         /\ v.data = [ k \in DOMAIN o.elems |-> there[o.elems[k]] ]
<1> DEFINE v == ToSafeArray(o, there)
           cells == [ k \in DOMAIN o.elems |-> there[o.elems[k]] ]
<1>1. ~Nested(o) /\ o.cls \notin DOMAIN ElementType
  BY DEF ObjectArrays, Nested, ElementType
<1>2. ~\E k \in DOMAIN cells : cells[k] \in {NoVariant, Faulty}
  OBVIOUS
<1>3. v = SafeArray("VARIANT", <<Len(o.elems)>>, <<>>, cells)
  BY <1>1, <1>2 DEF ToSafeArray, ObjectArrays
<1>4. v.vt = "ARRAY" /\ v.elem = "VARIANT" /\ v.bounds = <<Len(o.elems)>> /\ v.data = cells
  BY <1>3 DEF SafeArray
<1>5. v \notin {NoVariant, Faulty, NoVal}
  BY <1>4 DEF NoVariant, Faulty, NoVal, Scalar
<1> QED
  BY <1>4, <1>5

LEMMA RowBack ==
  ASSUME NEW v, NEW m \in Nat, v.elem = "VARIANT", v.bounds = <<m>>, DOMAIN v.data = 1..m,
         NEW back, NEW s, DOMAIN s = 1..m, s = [ k \in 1..m |-> s[k] ], \A k \in 1..m : back[v.data[k]] = s[k]
  PROVE  ToJavaArray(v, back) = Boxed("Object[]", s)
<1> DEFINE row(i, w) == [ j \in 1..w |-> back[v.data[(i - 1) * w + j]] ]
<1>1. Len(v.bounds) = 1 /\ v.bounds[1] = m
  OBVIOUS
<1>2. \A j \in 1..m : (1 - 1) * m + j = j
  OBVIOUS
<1>3. row(1, m) = [ j \in 1..m |-> s[j] ]
  BY <1>2
<1>4. ToJavaArray(v, back) = Boxed("Object[]", row(1, m))
  BY <1>1 DEF ToJavaArray
<1> QED
  BY <1>3, <1>4

\* The cells of m rows of w, counted through: cell k is in row q + 1, column r + 1.
LEMMA CellOf ==
  ASSUME NEW w \in Nat, NEW m \in Nat, NEW k \in 1..(w * m)
  PROVE  /\ w > 0 /\ (k - 1) \div w \in 0..(m - 1) /\ (k - 1) % w \in 0..(w - 1)
<1>1. w > 0
  <2>1. w = 0 => w * m = 0
    OBVIOUS
  <2> QED
    BY <2>1
<1>2. (k - 1) % w \in 0..(w - 1)
  BY <1>1
<1> DEFINE q == (k - 1) \div w
           r == (k - 1) % w
<1>3. q \in Int /\ k - 1 = w * q + r
  BY <1>1
<1> HIDE DEF q, r
<1>4. q >= 0
  <2> SUFFICES ASSUME q <= -1 PROVE FALSE
    BY <1>3
  <2>1. w * q <= w * (-1)
    BY <1>1, <1>3
  <2> QED
    BY <1>1, <1>2, <1>3, <2>1 DEF r
<1>5. q <= m - 1
  <2> SUFFICES ASSUME q >= m PROVE FALSE
    BY <1>3
  <2>1. w * q >= w * m
    BY <1>1, <1>3
  <2> QED
    BY <1>1, <1>2, <1>3, <2>1 DEF r
<1> QED
  BY <1>1, <1>2, <1>3, <1>4, <1>5 DEF q

LEMMA CellAt ==
  ASSUME NEW w \in Nat, NEW m \in Nat, NEW i \in 1..m, NEW j \in 1..w
  PROVE  /\ (i - 1) * w + j \in 1..(w * m)
         /\ ((i - 1) * w + j - 1) \div w = i - 1 /\ ((i - 1) * w + j - 1) % w = j - 1
<1> DEFINE q == i - 1
           r == j - 1
<1>1. q \in Nat /\ r \in Nat /\ r < w /\ w > 0 /\ q <= m - 1
  OBVIOUS
<1>2. (i - 1) * w + j = (w * q + r) + 1 /\ (i - 1) * w + j - 1 = w * q + r
  OBVIOUS
<1> HIDE DEF q, r
<1>3. w * q \in Nat /\ w * q <= w * (m - 1) /\ w * (m - 1) = w * m - w
  BY <1>1
<1>4. (w * q + r) \div w = q /\ (w * q + r) % w = r
  BY <1>1
<1>5. (w * q + r) + 1 \in 1..(w * m)
  BY <1>1, <1>3
<1> QED
  BY <1>2, <1>4, <1>5 DEF q, r

\* Rows of one length, and an element for each cell.
Rectangle(rows, w, m) ==
  /\ w \in Nat /\ m \in Nat /\ DOMAIN rows = 1..m /\ Len(rows) = m
  /\ \A i \in 1..m : DOMAIN rows[i].elems = 1..w /\ Len(rows[i].elems) = w

\* v is the array of the VARIANTs of the cells.
GridOf(v, there, rows, w, m) ==
  /\ v.vt = "ARRAY" /\ v \notin {NoVariant, Faulty, NoVal}
  /\ v.elem = "VARIANT" /\ v.bounds = <<w, m>> /\ DOMAIN v.data = 1..(w * m)
  /\ \A i \in 1..m : \A j \in 1..w : v.data[(i - 1) * w + j] = there[rows[i].elems[j]]

\* An array of two dimensions: cell by cell, the last dimension outside.
LEMMA GridTrip ==
  ASSUME NEW o, o.cls = "Object[][]", NEW w, NEW m, Rectangle(o.elems, w, m), m > 0,
         NEW there, \A i \in 1..m : \A j \in 1..w : there[o.elems[i].elems[j]] \notin {NoVariant, Faulty}
  PROVE  GridOf(ToSafeArray(o, there), there, o.elems, w, m)
<1> DEFINE v == ToSafeArray(o, there)
           cells == [ k \in 1..(w * m) |->
                        LET row == o.elems[((k - 1) \div w) + 1].elems
                            col == ((k - 1) % w) + 1
                        IN  IF col \in DOMAIN row THEN there[row[col]] ELSE Faulty ]
<1>1. Nested(o) /\ o.cls \notin DOMAIN ElementType /\ o.cls \notin ObjectArrays
  BY DEF ObjectArrays, Nested, ElementType
<1>2. w \in Nat /\ m \in Nat /\ Len(o.elems) = m /\ Len(o.elems[1].elems) = w
  BY DEF Rectangle
<1>3. ASSUME NEW k \in 1..(w * m)
      PROVE  cells[k] \notin {NoVariant, Faulty}
  <2> DEFINE i == ((k - 1) \div w) + 1
             j == ((k - 1) % w) + 1
  <2>1. i \in 1..m /\ j \in 1..w
    <3>1. w \in Nat /\ m \in Nat
      BY <1>2
    <3>2. w > 0 /\ (k - 1) \div w \in 0..(m - 1) /\ (k - 1) % w \in 0..(w - 1)
      BY ONLY <3>1, k \in 1..(w * m), CellOf
    <3> QED
      BY ONLY <3>1, <3>2
  <2>2. DOMAIN o.elems[i].elems = 1..w
    BY <2>1 DEF Rectangle
  <2>3. cells[k] = IF j \in DOMAIN o.elems[i].elems THEN there[o.elems[i].elems[j]] ELSE Faulty
    OBVIOUS
  <2> HIDE DEF i, j
  <2> QED
    BY <2>1, <2>2, <2>3
<1>4. ASSUME NEW i \in 1..m, NEW j \in 1..w
      PROVE  cells[(i - 1) * w + j] = there[o.elems[i].elems[j]]
  <2> DEFINE k == (i - 1) * w + j
  <2>1. k \in 1..(w * m) /\ (k - 1) \div w = i - 1 /\ (k - 1) % w = j - 1
    <3>1. w \in Nat /\ m \in Nat
      BY <1>2
    <3> QED
      BY ONLY <3>1, i \in 1..m, j \in 1..w, CellAt
  <2>2. DOMAIN o.elems[i].elems = 1..w
    BY DEF Rectangle
  <2> HIDE DEF k
  <2>3. (i - 1) + 1 = i /\ (j - 1) + 1 = j
    BY <1>2
  <2>4. cells[k] = LET row == o.elems[(i - 1) + 1].elems
                       col == (j - 1) + 1
                   IN  IF col \in DOMAIN row THEN there[row[col]] ELSE Faulty
    BY <2>1
  <2> QED
    BY <2>2, <2>3, <2>4 DEF k
<1>5. DOMAIN cells = 1..(w * m)
  OBVIOUS
<1>6. v = IF \E k \in DOMAIN cells : cells[k] \in {NoVariant, Faulty} THEN Faulty
          ELSE SafeArray("VARIANT", <<w, m>>, <<>>, cells)
  BY <1>1, <1>2 DEF ToSafeArray, Rows
<1> HIDE DEF cells, v
<1>7. v = SafeArray("VARIANT", <<w, m>>, <<>>, cells)
  BY <1>3, <1>5, <1>6
<1>8. v.vt = "ARRAY" /\ v.elem = "VARIANT" /\ v.bounds = <<w, m>> /\ v.data = cells
  BY <1>7 DEF SafeArray
<1>9. v \notin {NoVariant, Faulty, NoVal}
  BY <1>8 DEF NoVariant, Faulty, NoVal, Scalar
<1> QED
  BY <1>4, <1>5, <1>8, <1>9 DEF v, GridOf

LEMMA EmptyGridTrip ==
  ASSUME NEW o, o.cls = "Object[][]", o.elems = <<>>, NEW there
  PROVE  LET v == ToSafeArray(o, there) IN
         /\ v.vt = "ARRAY" /\ v \notin {NoVariant, Faulty, NoVal}
         /\ v.elem = "VARIANT" /\ v.bounds = <<0>> /\ DOMAIN v.data = 1..0
<1> DEFINE v == ToSafeArray(o, there)
           cells == [ k \in 1..(0 * Len(o.elems)) |->
                        LET row == o.elems[((k - 1) \div 0) + 1].elems
                            col == ((k - 1) % 0) + 1
                        IN  IF col \in DOMAIN row THEN there[row[col]] ELSE Faulty ]
<1>1. Nested(o) /\ o.cls \notin DOMAIN ElementType /\ o.cls \notin ObjectArrays /\ Len(o.elems) = 0
  BY DEF ObjectArrays, Nested, ElementType
<1>2. DOMAIN cells = 1..0
  BY <1>1
<1>3. v = IF \E k \in DOMAIN cells : cells[k] \in {NoVariant, Faulty} THEN Faulty
          ELSE SafeArray("VARIANT", <<Len(o.elems)>>, <<>>, cells)
  BY <1>1 DEF ToSafeArray, Rows
<1> HIDE DEF cells, v
<1>4. v = SafeArray("VARIANT", <<0>>, <<>>, cells)
  BY <1>1, <1>2, <1>3
<1>5. v.vt = "ARRAY" /\ v.elem = "VARIANT" /\ v.bounds = <<0>> /\ v.data = cells
  BY <1>4 DEF SafeArray
<1>6. v \notin {NoVariant, Faulty, NoVal}
  BY <1>5 DEF NoVariant, Faulty, NoVal, Scalar
<1> QED
  BY <1>2, <1>5, <1>6 DEF v

LEMMA GridBack ==
  ASSUME NEW rows, NEW w, NEW m, Rectangle(rows, w, m), \A i \in 1..m : rows[i].elems = [ j \in 1..w |-> rows[i].elems[j] ],
         NEW v, v.elem = "VARIANT", v.bounds = <<w, m>>, NEW back,
         \A i \in 1..m : \A j \in 1..w : back[v.data[(i - 1) * w + j]] = rows[i].elems[j]
  PROVE  ToJavaArray(v, back) = Boxed("Object[]", [ i \in 1..m |-> Boxed("Object[]", rows[i].elems) ])
<1> DEFINE row(i, w1) == [ j \in 1..w1 |-> back[v.data[(i - 1) * w1 + j]] ]
<1>1. Len(v.bounds) = 2 /\ v.bounds[1] = w /\ v.bounds[2] = m
  OBVIOUS
<1>2. ASSUME NEW i \in 1..m
      PROVE  row(i, w) = rows[i].elems
  <2>1. row(i, w) = [ j \in 1..w |-> rows[i].elems[j] ]
    OBVIOUS
  <2> QED
    BY <2>1
<1>3. ToJavaArray(v, back) = Boxed("Object[]", [ i \in 1..m |-> Boxed("Object[]", row(i, w)) ])
  BY <1>1 DEF ToJavaArray
<1> HIDE DEF row
<1> QED
  BY <1>2, <1>3

LEMMA Elements ==
  ASSUME NEW s, s \in Seq(Range(s))
  PROVE  /\ Len(s) \in Nat /\ DOMAIN s = 1..Len(s) /\ s = [ k \in 1..Len(s) |-> s[k] ]
         /\ \A k \in 1..Len(s) : s[k] \in Range(s)
<1>1. Len(s) \in Nat /\ DOMAIN s = 1..Len(s) /\ s = [ k \in 1..Len(s) |-> s[k] ]
  OBVIOUS
<1> QED
  BY <1>1 DEF Range

\* An array in a holder, through a SAFEARRAY and back.
LEMMA ArrayTrip ==
  ASSUME NEW o, Array(o), Kept(o),
         NEW back, \A x \in Range(SafeArrayOf(o).data) : back[x] = Object1(x)
  PROVE  LET v == SafeArrayOf(o) IN
         /\ v.vt = "ARRAY" /\ v \notin {NoVariant, Faulty, NoVal}
         /\ ToJavaArray(v, back) = RowArrays(o)
<1> DEFINE there == [ e \in Parts(o) |-> Convert1(e) ]
           v == SafeArrayOf(o)
<1> v = ToSafeArray(o, there)
  BY DEF SafeArrayOf
<1> HIDE DEF v
<1>1. CASE o.cls \in DOMAIN ElementType /\ o = Java(o.cls, o.val)
  <2>1. RowArrays(o) = o
    BY <1>1 DEF RowArrays, Nested, ElementType
  <2> QED
    BY <1>1, <2>1, PrimitivesTrip DEF v
<1>2. CASE o = Boxed("Object[]", o.elems) /\ Items(o.elems)
  <2> DEFINE s == o.elems
             m == Len(o.elems)
  <2>1. o.cls = "Object[]" /\ o.elems \in Seq(Range(o.elems)) /\ RowArrays(o) = o
    BY <1>2 DEF Items, Boxed, RowArrays, Nested
  <2>2. m \in Nat /\ DOMAIN s = 1..m /\ s = [ k \in 1..m |-> s[k] ] /\ \A k \in 1..m : s[k] \in Range(s)
    BY <2>1, Elements
  <2>3. \A k \in 1..m : s[k] \in Parts(o) /\ Item(s[k])
    BY <1>2, <2>2 DEF Parts, Items
  <2>4. \A k \in 1..m : there[s[k]] \notin {NoVariant, Faulty} /\ Object1(there[s[k]]) = s[k]
    <3> TAKE k \in 1..m
    <3>1. s[k].cls # "Variant"
      BY <2>3 DEF Item, Plain, Scalars
    <3>2. there[s[k]] = Convert1(s[k])
      BY <2>3
    <3> QED
      BY <2>3, <3>1, <3>2, ElementTrip DEF Inner
  <2>5. /\ v.vt = "ARRAY" /\ v \notin {NoVariant, Faulty, NoVal} /\ v.elem = "VARIANT" /\ v.bounds = <<m>>
        /\ v.data = [ k \in 1..m |-> there[s[k]] ]
    <3> HIDE DEF there
    <3> QED
      BY <2>1, <2>2, <2>4, RowTrip DEF ObjectArrays
  <2>6. \A k \in 1..m : back[v.data[k]] = s[k]
    <3> TAKE k \in 1..m
    <3>1. v.data[k] = there[s[k]] /\ v.data[k] \in Range(v.data)
      BY <2>5 DEF Range
    <3> QED
      BY <2>4, <3>1 DEF v
  <2>7. ToJavaArray(v, back) = Boxed("Object[]", s)
    <3> HIDE DEF s, m, there
    <3> QED
      BY <2>2, <2>5, <2>6, RowBack
  <2> QED
    BY <1>2, <2>1, <2>5, <2>7 DEF v
<1>3. CASE /\ o = Boxed("Variant[]", o.elems) /\ o.elems \in Seq(Range(o.elems))
           /\ \A i \in DOMAIN o.elems :
                LET e == o.elems[i] IN e = Boxed("Variant", e.elems) /\ Items(e.elems) /\ Len(e.elems) = 1
  <2> DEFINE es == o.elems
             m == Len(o.elems)
             s == [ k \in 1..m |-> es[k].elems[1] ]
  <2>1. o.cls = "Variant[]" /\ ~Nested(o)
    BY <1>3 DEF Boxed, Nested
  <2>2. m \in Nat /\ DOMAIN es = 1..m /\ \A k \in 1..m : es[k] \in Range(es)
    BY <1>3, Elements
  <2>3. \A k \in 1..m : there[es[k]] \notin {NoVariant, Faulty} /\ Object1(there[es[k]]) = s[k]
    <3> TAKE k \in 1..m
    <3>1. es[k] = Boxed("Variant", es[k].elems) /\ Items(es[k].elems) /\ Len(es[k].elems) = 1
      BY <1>3, <2>2
    <3>2. Inner(es[k]) = s[k]
      BY <3>1 DEF Inner, Boxed
    <3>3. there[es[k]] = Convert1(es[k])
      BY <2>2 DEF Parts
    <3> HIDE DEF there, s
    <3> QED
      BY <3>1, <3>2, <3>3, ElementTrip
  <2>4. /\ v.vt = "ARRAY" /\ v \notin {NoVariant, Faulty, NoVal} /\ v.elem = "VARIANT" /\ v.bounds = <<m>>
        /\ v.data = [ k \in 1..m |-> there[es[k]] ]
    <3>1. o.cls \in ObjectArrays /\ DOMAIN o.elems = 1..m
      BY <2>1, <2>2 DEF ObjectArrays
    <3>2. \A k \in 1..m : there[es[k]] \notin {NoVariant, Faulty}
      BY <2>3
    <3> HIDE DEF there
    <3> QED
      BY ONLY <1>3, <3>1, <3>2, RowTrip, v = ToSafeArray(o, there)
  <2>5. \A k \in 1..m : back[v.data[k]] = s[k]
    <3> TAKE k \in 1..m
    <3>1. v.data[k] = there[es[k]] /\ v.data[k] \in Range(v.data)
      BY <2>4 DEF Range
    <3> HIDE DEF there, s
    <3> QED
      BY <2>3, <3>1 DEF v
  <2>6. ToJavaArray(v, back) = Boxed("Object[]", s)
    <3>1. DOMAIN s = 1..m /\ s = [ k \in 1..m |-> s[k] ]
      OBVIOUS
    <3> HIDE DEF s, m, there
    <3> QED
      BY <2>2, <2>4, <2>5, <3>1, RowBack
  <2>7. RowArrays(o) = Boxed("Object[]", s)
    BY <2>1, <2>2 DEF RowArrays
  <2> QED
    BY <2>4, <2>6, <2>7 DEF v
<1>4. CASE /\ o = Boxed("Object[][]", o.elems) /\ o.elems \in Seq(Range(o.elems))
           /\ \A i \in DOMAIN o.elems : Items(o.elems[i].elems)
  <2> DEFINE rows == o.elems
             m == Len(o.elems)
             w == Len(rows[1].elems)
  <2>1. o.cls = "Object[][]" /\ Nested(o)
    BY <1>4 DEF Boxed, Nested
  <2>2. m \in Nat /\ DOMAIN rows = 1..m /\ \A i \in 1..m : rows[i] \in Range(rows)
    BY <1>4, Elements
  <2>3. CASE m = 0
    <3> DEFINE s == [ i \in 1..0 |-> Boxed("Object[]", rows[i].elems) ]
    <3>1. rows = <<>>
      BY <1>4, <2>2, <2>3
    <3>2. /\ v.vt = "ARRAY" /\ v \notin {NoVariant, Faulty, NoVal}
          /\ v.elem = "VARIANT" /\ v.bounds = <<0>> /\ DOMAIN v.data = 1..0
      <4> HIDE DEF there
      <4> QED
        BY <2>1, <3>1, EmptyGridTrip
    <3>3. DOMAIN s = 1..0 /\ s = [ k \in 1..0 |-> s[k] ] /\ 0 \in Nat /\ \A k \in 1..0 : back[v.data[k]] = s[k]
      OBVIOUS
    <3>4. RowArrays(o) = Boxed("Object[]", s)
      BY <2>1, <2>2, <2>3 DEF RowArrays
    <3> HIDE DEF s
    <3>5. ToJavaArray(v, back) = Boxed("Object[]", s)
      <4> DEFINE z == 0
      <4>1. z \in Nat /\ v.elem = "VARIANT" /\ v.bounds = <<z>> /\ DOMAIN v.data = 1..z
        BY <3>2
      <4>2. DOMAIN s = 1..z /\ s = [ k \in 1..z |-> s[k] ] /\ \A k \in 1..z : back[v.data[k]] = s[k]
        BY <3>3
      <4> HIDE DEF z
      <4> QED
        BY ONLY <4>1, <4>2, RowBack
    <3> QED
      BY <3>2, <3>4, <3>5 DEF v
  <2>4. CASE m > 0
    <3>1. ASSUME NEW i \in 1..m
          PROVE  /\ w \in Nat /\ DOMAIN rows[i].elems = 1..w /\ Len(rows[i].elems) = w
                 /\ rows[i].elems = [ j \in 1..w |-> rows[i].elems[j] ]
                 /\ \A j \in 1..w : rows[i].elems[j] \in Range(rows[i].elems) /\ Item(rows[i].elems[j])
      <4>1. Items(rows[i].elems) /\ Len(rows[i].elems) = w
        BY <1>4, <2>1, <2>2 DEF Kept
      <4>2. rows[i].elems \in Seq(Range(rows[i].elems))
        BY <4>1 DEF Items
      <4>3. /\ Len(rows[i].elems) \in Nat /\ DOMAIN rows[i].elems = 1..Len(rows[i].elems)
            /\ rows[i].elems = [ j \in 1..Len(rows[i].elems) |-> rows[i].elems[j] ]
            /\ \A j \in 1..Len(rows[i].elems) : rows[i].elems[j] \in Range(rows[i].elems)
        BY <4>2, Elements
      <4> HIDE DEF w, rows
      <4> QED
        BY <4>1, <4>3 DEF Items
    <3>2. Rectangle(rows, w, m)
      <4>1. w \in Nat
        BY <2>2, <2>4, <3>1
      <4> QED
        BY <2>2, <3>1, <4>1 DEF Rectangle
    <3>3. ASSUME NEW i \in 1..m, NEW j \in 1..w
          PROVE  /\ there[rows[i].elems[j]] \notin {NoVariant, Faulty}
                 /\ Object1(there[rows[i].elems[j]]) = rows[i].elems[j]
      <4> DEFINE e == rows[i].elems[j]
      <4>1. Item(e) /\ e \in Range(rows[i].elems) /\ rows[i] \in Range(rows)
        BY <2>2, <3>1
      <4>2. e \in Parts(o)
        BY <4>1 DEF Parts
      <4>3. e.cls # "Variant"
        BY <4>1 DEF Item, Plain, Scalars
      <4>4. there[e] = Convert1(e)
        BY <4>2
      <4> HIDE DEF e, there
      <4> QED
        BY <4>1, <4>3, <4>4, ElementTrip DEF Inner, e
    <3> HIDE DEF w, m, there
    <3>4. /\ v.vt = "ARRAY" /\ v \notin {NoVariant, Faulty, NoVal}
          /\ v.elem = "VARIANT" /\ v.bounds = <<w, m>> /\ DOMAIN v.data = 1..(w * m)
          /\ \A i \in 1..m : \A j \in 1..w : v.data[(i - 1) * w + j] = there[rows[i].elems[j]]
      <4>1. Rectangle(o.elems, w, m) /\ m > 0 /\ o.cls = "Object[][]"
        BY <2>1, <2>4, <3>2
      <4>2. \A i \in 1..m : \A j \in 1..w : there[o.elems[i].elems[j]] \notin {NoVariant, Faulty}
        BY <3>3
      <4>3. GridOf(v, there, o.elems, w, m)
        BY ONLY <4>1, <4>2, GridTrip, v = ToSafeArray(o, there)
      <4> QED
        BY <4>3 DEF GridOf
    <3>5. ASSUME NEW i \in 1..m, NEW j \in 1..w
          PROVE  back[v.data[(i - 1) * w + j]] = rows[i].elems[j]
      <4>1. w \in Nat /\ m \in Nat
        BY <3>2 DEF Rectangle
      <4>2. (i - 1) * w + j \in 1..(w * m)
        BY ONLY <4>1, i \in 1..m, j \in 1..w, CellAt
      <4>3. v.data[(i - 1) * w + j] \in Range(v.data)
        BY <3>4, <4>2 DEF Range
      <4> QED
        BY <3>3, <3>4, <4>3 DEF v
    <3> HIDE DEF rows
    <3>6. ToJavaArray(v, back) = Boxed("Object[]", [ i \in 1..m |-> Boxed("Object[]", rows[i].elems) ])
      BY <3>1, <3>2, <3>4, <3>5, GridBack
    <3>7. RowArrays(o) = Boxed("Object[]", [ i \in 1..m |-> Boxed("Object[]", rows[i].elems) ])
      BY <2>1, <2>2 DEF RowArrays, rows
    <3> QED
      BY <3>4, <3>6, <3>7 DEF v
  <2> QED
    BY <2>2, <2>3, <2>4
<1> QED
  <2>1. CASE o.cls = "Variant[]"
    BY <1>1, <1>2, <1>3, <2>1 DEF Array, Nested, Boxed
  <2>2. CASE o.cls # "Variant[]"
    BY <1>1, <1>2, <1>4, <2>2 DEF Array, Nested, Boxed
  <2> QED
    BY <2>1, <2>2


-----------------------------------------------------------------------------
(* What comes back in the holders.                                         *)

\* What messageParameters leaves of a holder's value.
SentValue(conv, o) == IF conv = "VARIANT_byRef" /\ o.cls = "ComEnum" THEN Java("Integer", o.val) ELSE o

\* What the unmarshaller of a holder with value o has, and what it gives the holder.
Encoded(conv, o) ==
  CASE conv \in NumbersByRef    -> IF o = Null THEN ZeroOf[conv] ELSE o
    [] conv = "VARIANT_byRef"   -> ConvertToVariant(o)
    [] conv = "SAFEARRAY_byRef" -> IF o = Null \/ SafeArrayOf(o) = NoVariant THEN NoVal ELSE SafeArrayOf(o)
    [] OTHER                    -> o
Decoded(conv, o) ==
  LET v == Encoded(conv, o)
  IN  CASE conv = "VARIANT_byRef"   -> Boxed("RawVariant", <<v>>)
        [] conv = "SAFEARRAY_byRef" -> IF v = NoVal THEN Null ELSE ArrayToJava(v)
        [] OTHER                    -> v

LEMMA NullIsNoVariant == ConvertToVariant(Null) = Faulty
BY DEF ConvertToVariant, ConvertWith

LEMMA EnumIsNumber ==
  ASSUME NEW o, o.cls = "ComEnum"
  PROVE  Item(Java("Integer", o.val)) /\ ConvertToVariant(o) # NoVariant
<1> DEFINE i == Java("Integer", o.val)
<1>1. "Integer" \in Scalars
  BY Table DEF Scalars
<1>2. i.cls = "Integer" /\ i.val = o.val
  BY DEF Java
<1>3. Item(i)
  BY <1>1, <1>2 DEF Item, Plain, Kept, Nested
<1>4. o.cls = "ComEnum" /\ o # Null
  BY DEF Java, Null
<1>5. ConvertToVariant(o) = Scalar("I4", o.val)
  BY <1>4, OtherClasses DEF ConvertToVariant, ConvertWith
<1> QED
  BY <1>3, <1>5 DEF Scalar, NoVariant

LEMMA ArrayClasses ==
  ASSUME NEW o, Array(o)
  PROVE  /\ o.cls \in DOMAIN ElementType \cup {"Object[]", "Object[][]", "Variant[]"}
         /\ OfClass(o.cls) = {} /\ o # Null /\ o.cls \notin {"ComEnum", "Variant"}
<1>1. o.cls \in DOMAIN ElementType \cup {"Object[]", "Object[][]", "Variant[]"}
  BY DEF Array, Boxed, Java
<1>2. OfClass(o.cls) = {}
  BY <1>1, OtherClasses
<1>3. o.cls # "null" /\ o.cls \notin {"ComEnum", "Variant"}
  BY <1>1 DEF ElementType
<1> QED
  BY <1>1, <1>2, <1>3 DEF Null, Java

LEMMA ScalarClasses == \A c \in {"ComEnum", "Variant", "Variant[]", "Object[][]", "null", "RawVariant"} : c \notin Scalars
BY Table DEF Scalars

LEMMA PlainIsSame ==
  ASSUME NEW o, Plain(o), NEW conv
  PROVE  SameValue(conv, o) = o /\ o.cls \notin {"ComEnum", "Variant", "RawVariant"} /\ o # Null
<1>1. o.cls \notin {"ComEnum", "Variant", "Variant[]", "Object[][]", "null", "RawVariant"}
  BY ScalarClasses DEF Plain
<1>2. o # Null
  BY <1>1 DEF Null, Java
<1> QED
  BY <1>1, <1>2 DEF SameValue, RowArrays, Nested

LEMMA NullIsSame ==
  ASSUME NEW conv
  PROVE  SameValue(conv, Null) = IF conv \in NumbersByRef THEN ZeroOf[conv] ELSE Null
<1>1. Null.cls = "null"
  BY DEF Null, Java
<1> QED
  BY <1>1 DEF SameValue, RowArrays, Nested

\* The value of a holder, through what its conversion makes of it and back.
LEMMA VariantTrip ==
  ASSUME NEW o0, HeldValue("VARIANT_byRef", o0), Kept(o0), NEW o, o = SentValue("VARIANT_byRef", o0),
         ConvertToVariant(o) \notin {Faulty, NoVariant}
  PROVE  VariantToObject("Object", ConvertToVariant(o)) = SameValue("VARIANT_byRef", o0)
<1> DEFINE v == ConvertToVariant(o)
           back == [ e \in Inside(v) |-> Object1(e) ]
           there == [ e \in Parts(o) |-> Convert1(e) ]
<1>1. v = ConvertWith(o, there) /\ VariantToObject("Object", v) = VariantWith("Object", v, back)
  BY DEF ConvertToVariant, VariantToObject
<1>2. "VARIANT_byRef" \notin NumbersByRef
  BY DEF NumbersByRef
<1>3. o0 # Null
  BY NullIsNoVariant DEF SentValue, Null, Java
<1>4. CASE Plain(o0)
  <2>1. o = o0 /\ Item(o) /\ SameValue("VARIANT_byRef", o0) = o
    BY <1>4, PlainIsSame DEF SentValue, Item
  <2> HIDE DEF back, there
  <2> QED
    BY <1>1, <2>1, PlainTrip
<1>5. CASE Array(o0)
  <2>1. o = o0 /\ OfClass(o.cls) = {} /\ o # Null /\ o.cls \notin {"ComEnum", "Variant"}
    BY <1>5, ArrayClasses DEF SentValue
  <2>2. v = SafeArrayOf(o)
    BY <2>1 DEF ConvertToVariant, ConvertWith, SafeArrayOf
  <2>3. \A x \in Range(SafeArrayOf(o).data) : back[x] = Object1(x)
    BY <2>2 DEF Inside
  <2> HIDE DEF back, there
  <2>4. v.vt = "ARRAY" /\ ToJavaArray(v, back) = RowArrays(o)
    BY <1>5, <2>1, <2>2, <2>3, ArrayTrip
  <2>5. VariantWith("Object", v, back) = ToJavaArray(v, back)
    <3>1. OfClass("Object") = {} /\ OfType(v.vt) = {}
      BY <2>4, OtherClasses
    <3> HIDE DEF v
    <3> QED
      BY <2>4, <3>1 DEF VariantWith
  <2>6. SameValue("VARIANT_byRef", o0) = RowArrays(o)
    BY <2>1 DEF SameValue
  <2> QED
    BY <1>1, <2>4, <2>5, <2>6
<1>6. CASE o0 = Java("ComEnum", o0.val)
  <2>1. o0.cls = "ComEnum"
    BY <1>6 DEF Java
  <2>2. o = Java("Integer", o0.val) /\ Item(o) /\ SameValue("VARIANT_byRef", o0) = o
    BY <1>3, <1>6, <2>1, EnumIsNumber DEF SentValue, SameValue
  <2> HIDE DEF back, there
  <2> QED
    BY <1>1, <2>2, PlainTrip
<1>7. CASE o0 = Boxed("Variant", o0.elems) /\ Items(o0.elems) /\ Len(o0.elems) = 1
  <2> DEFINE e == o.elems[1]
  <2>1. o0.cls = "Variant"
    BY <1>7 DEF Boxed
  <2>2. o = o0 /\ o # Null /\ SameValue("VARIANT_byRef", o0) = e
    BY <1>3, <2>1 DEF SentValue, SameValue
  <2>3. o.elems # <<>> /\ DOMAIN o.elems = {1} /\ Item(e)
    BY <1>7, <2>2 DEF Items
  <2>4. e \in Parts(o)
    BY <2>3 DEF Parts, Range
  <2>5. v = Convert1(e)
    BY <1>1, <2>1, <2>2, <2>3, <2>4, OtherClasses DEF ConvertWith
  <2> HIDE DEF back, there, v, e
  <2>6. VariantWith("Object", v, back) = e
    BY <2>3, <2>5, PlainTrip DEF Convert1
  <2> QED
    BY <1>1, <2>2, <2>6 DEF v
<1>8. CASE ConvertToVariant(o0) = NoVariant
  BY <1>8, EnumIsNumber DEF SentValue
<1> QED
  BY <1>3, <1>4, <1>5, <1>6, <1>7, <1>8 DEF HeldValue

\* What could not be converted there is not converted back either.
LEMMA NothingComesBack == \A v \in {Faulty, NoVariant} : VariantToObject("Object", v) = Unconvertible
<1>1. \A j \in 1..19 : j \in {1, 2, 3, 4, 5, 6, 7, 8, 9, 10, 11, 12, 13, 14, 15, 16, 17, 18, 19}
  OBVIOUS
<1>2. OfType("FAULT") = {} /\ OfType("NULL_POINTER") = {}
  BY <1>1, Table DEF OfType
<1>3. Faulty.vt = "FAULT" /\ NoVariant.vt = "NULL_POINTER"
  BY DEF Faulty, NoVariant, Scalar
<1> QED
  BY <1>2, <1>3, OtherClasses DEF VariantToObject, VariantWith

LEMMA HeldComesBack ==
  ASSUME NEW conv, ByRef(conv), NEW o0, HeldValue(conv, o0), Kept(o0), NEW o, o = SentValue(conv, o0), NEW r,
         ToJava(NoByRef[conv], "Object", Decoded(conv, o), r).thrown = "none"
  PROVE  ToJava(NoByRef[conv], "Object", Decoded(conv, o), r).val = SameValue(conv, o0)
<1> DEFINE w == Decoded(conv, o)
           t == ToJava(NoByRef[conv], "Object", w, r)
<1>1. CASE conv = "VARIANT_byRef"
  <2> DEFINE v == ConvertToVariant(o)
             x == VariantToObject("Object", v)
  <2>1. v \notin {Faulty, NoVariant} => x = SameValue(conv, o0)
    BY <1>1, VariantTrip
  <2>2. w = Boxed("RawVariant", <<v>>)
    BY <1>1 DEF Decoded, Encoded, NumbersByRef
  <2>3. w.cls = "RawVariant" /\ w.elems[1] = v /\ NoByRef[conv] = "VARIANT"
    BY <1>1, <2>2 DEF Boxed, NoByRef
  <2> HIDE DEF v, w
  <2>4. t.thrown = "none" => x # Unconvertible /\ t.val = x
    BY <2>3 DEF ToJava
  <2>5. v \notin {Faulty, NoVariant}
    BY <2>4, NothingComesBack DEF w
  <2> QED
    BY <2>1, <2>4, <2>5 DEF w
<1>2. CASE conv = "SAFEARRAY_byRef"
  <2>1. NoByRef[conv] = "SAFEARRAY" /\ o = o0
    BY <1>2 DEF NoByRef, SentValue
  <2>2. t.val = w
    <3> HIDE DEF w
    <3> QED
      BY <2>1 DEF ToJava
  <2>3. conv \notin NumbersByRef /\ conv # "VARIANT_byRef"
    BY <1>2 DEF NumbersByRef
  <2>4. CASE o0 = Null
    <3>1. w = Null
      BY <1>2, <2>1, <2>3, <2>4 DEF Decoded, Encoded
    <3> QED
      BY <2>2, <2>3, <2>4, <3>1, NullIsSame
  <2>5. CASE Array(o0)
    <3> DEFINE v == SafeArrayOf(o)
               back == [ e \in Range(v.data) |-> Object1(e) ]
    <3>1. \A y \in Range(SafeArrayOf(o).data) : back[y] = Object1(y)
      OBVIOUS
    <3>2. o # Null /\ o.cls \notin {"ComEnum", "Variant"}
      BY <2>1, <2>5, ArrayClasses
    <3>3. ArrayToJava(v) = ToJavaArray(v, back)
      BY DEF ArrayToJava
    <3> HIDE DEF back
    <3>4. v \notin {NoVariant, Faulty, NoVal} /\ ToJavaArray(v, back) = RowArrays(o)
      BY <2>1, <2>5, <3>1, ArrayTrip
    <3>5. w = ArrayToJava(v)
      BY <1>2, <2>3, <3>2, <3>4 DEF Decoded, Encoded
    <3>6. SameValue(conv, o0) = RowArrays(o)
      BY <2>1, <3>2 DEF SameValue
    <3> QED
      BY <2>2, <3>3, <3>4, <3>5, <3>6
  <2> QED
    BY <1>2, <2>4, <2>5 DEF HeldValue
<1>3. CASE conv \notin {"VARIANT_byRef", "SAFEARRAY_byRef"}
  <2>1. (o0 = Null \/ Plain(o0)) /\ o = o0
    BY <1>3 DEF HeldValue, SentValue
  <2>2. w = IF conv \in NumbersByRef /\ o = Null THEN ZeroOf[conv] ELSE o
    BY <1>3 DEF Decoded, Encoded
  <2>3. w = SameValue(conv, o0)
    BY <2>1, <2>2, NullIsSame, PlainIsSame
  <2>4. NoByRef[conv] \notin {"VARIANT", "DISPATCH"}
    BY <1>3 DEF NoByRef, ByRef
  <2>5. t.val = w
    <3> HIDE DEF w
    <3> QED
      BY <2>4 DEF ToJava
  <2> QED
    BY <2>3, <2>5
<1> QED
  BY <1>1, <1>2, <1>3

-----------------------------------------------------------------------------
(* The conversion loop and the handlers it leaves.                         *)

\* The OutParamHandlers among the post actions p.
Handlers(p) == {a \in Range(p) : a.what = "OutParam"}

LEMMA AddedRange ==
  ASSUME NEW acts, acts \in Seq(Range(acts)), NEW p, p \in Seq(Range(p))
  PROVE  LET q == Added(acts, p) IN q \in Seq(Range(q)) /\ Range(q) = Range(acts) \cup Range(p)
<1> DEFINE m == Len(acts)
           r == [ i \in DOMAIN acts |-> acts[Len(acts) + 1 - i] ]
           S == Range(acts) \cup Range(p)
           q == r \o p
<1>1. m \in Nat /\ DOMAIN acts = 1..m /\ \A i \in 1..m : acts[i] \in Range(acts)
  BY Elements
<1>2. Len(p) \in Nat /\ DOMAIN p = 1..Len(p) /\ \A i \in 1..Len(p) : p[i] \in Range(p)
  BY Elements
<1>3. \A i \in 1..m : m + 1 - i \in 1..m /\ m + 1 - (m + 1 - i) = i
  BY <1>1
<1>4. r \in Seq(S) /\ Len(r) = m /\ \A i \in 1..m : r[i] = acts[m + 1 - i]
  BY <1>1, <1>3
<1>5. p \in Seq(S)
  BY <1>2
<1> HIDE DEF m, r, S
<1>6. q \in Seq(S) /\ Len(q) = m + Len(p)
      /\ (\A i \in 1..m : q[i] = r[i]) /\ \A i \in 1..Len(p) : q[m + i] = p[i]
  BY <1>1, <1>2, <1>4, <1>5
<1>7. DOMAIN q = 1..(m + Len(p)) /\ \A i \in 1..(m + Len(p)) : q[i] \in S
  BY <1>6
<1> HIDE DEF q
<1>8. S \subseteq Range(q)
  <2>1. ASSUME NEW x \in Range(acts)
        PROVE  x \in Range(q)
    <3>1. PICK i \in 1..m : x = acts[i]
      BY <1>1 DEF Range
    <3>2. m + 1 - i \in 1..m /\ q[m + 1 - i] = x
      BY <1>3, <1>4, <1>6, <3>1
    <3>3. m + 1 - i \in DOMAIN q
      BY <1>1, <1>2, <1>7, <3>2
    <3> QED
      BY <3>2, <3>3 DEF Range
  <2>2. ASSUME NEW x \in Range(p)
        PROVE  x \in Range(q)
    <3>1. PICK i \in 1..Len(p) : x = p[i]
      BY <1>2 DEF Range
    <3>2. m + i \in DOMAIN q /\ q[m + i] = x
      BY <1>1, <1>2, <1>6, <1>7, <3>1
    <3> QED
      BY <3>2 DEF Range
  <2> QED
    BY <2>1, <2>2 DEF S
<1>9. Range(q) \subseteq S
  BY <1>7 DEF Range
<1>10. q \in Seq(Range(q))
  BY <1>6, <1>8, <1>9
<1> QED
  BY <1>8, <1>9, <1>10 DEF Added, q, r, S

\* Clean-ups that no holder waits for.
Cleaning(acts) == acts \in Seq(Range(acts)) /\ \A i \in DOMAIN acts : acts[i][1] # "OutParam"

LEMMA CleaningActs ==
  /\ Cleaning(<<>>) /\ Cleaning(FreeString)
  /\ Cleaning(<< <<"ReleaseStringChars", {1}>>, <<"DeleteCleanUp", {2}>> >>)
  /\ Cleaning(<< <<"LongArrayCleanUp", {1}>> >>) /\ Cleaning(<< <<"SAFEARRAYCleanUp", {1}>> >>)
  /\ \A v : Cleaning(ClearVariant(v))
<1>1. \A a, R : a # "OutParam" => Cleaning(<< <<a, R>> >>)
  BY DEF Cleaning, Range
<1>2. \A a, b, R, T : a # "OutParam" /\ b # "OutParam" => Cleaning(<< <<a, R>>, <<b, T>> >>)
  BY DEF Cleaning, Range
<1>3. Cleaning(<<>>)
  BY DEF Cleaning
<1> QED
  BY <1>1, <1>2, <1>3 DEF FreeString, ClearVariant

LEMMA CleanUpsHandle ==
  ASSUME NEW acts, Cleaning(acts)
  PROVE  CleanUps(acts) \in Seq(Range(CleanUps(acts))) /\ Handlers(CleanUps(acts)) = {}
<1> DEFINE q == CleanUps(acts)
<1>1. Len(acts) \in Nat /\ DOMAIN acts = 1..Len(acts)
  BY Elements DEF Cleaning
<1>2. DOMAIN q = 1..Len(acts) /\ \A i \in 1..Len(acts) : q[i].what # "OutParam"
  BY <1>1 DEF CleanUps, Act, Cleaning
<1>3. q = [ i \in 1..Len(acts) |-> q[i] ]
  BY <1>1 DEF CleanUps
<1> HIDE DEF q
<1>4. q \in Seq(Range(q))
  BY <1>1, <1>2, <1>3 DEF Range
<1> QED
  BY <1>2, <1>4 DEF Handlers, Range, q

LEMMA AppendedRange ==
  ASSUME NEW s, s \in Seq(Range(s)), NEW x
  PROVE  /\ Append(s, x) \in Seq(Range(Append(s, x))) /\ Range(Append(s, x)) = Range(s) \cup {x}
         /\ Len(s) \in Nat /\ DOMAIN Append(s, x) = 1..(Len(s) + 1) /\ DOMAIN s = 1..Len(s)
         /\ Append(s, x)[Len(s) + 1] = x /\ \A k \in DOMAIN s : Append(s, x)[k] = s[k]
<1> DEFINE q == Append(s, x)
           m == Len(s)
<1>1. m \in Nat /\ DOMAIN s = 1..m /\ \A i \in 1..m : s[i] \in Range(s)
  BY Elements
<1>2. q \in Seq(Range(s) \cup {x}) /\ DOMAIN q = 1..(m + 1) /\ q[m + 1] = x /\ \A k \in 1..m : q[k] = s[k]
  BY <1>1
<1>3. Range(q) = Range(s) \cup {x}
  <2> HIDE DEF q, m
  <2>1. m + 1 \in 1..(m + 1) /\ \A k \in 1..(m + 1) : k \in 1..m \/ k = m + 1
    BY <1>1
  <2>2. \A k \in 1..m : k \in 1..(m + 1)
    BY <1>1
  <2> QED
    BY <1>1, <1>2, <2>1, <2>2 DEF Range
<1> QED
  BY <1>1, <1>2, <1>3

\* The loop goes on; nothing is to be written back, or val is, to the parameter at hand.
GoesOn ==
  /\ UNCHANGED <<pc, outcome>> /\ javaParamIndex' = javaParamIndex + 1
  /\ retUnm' = retUnm \/ call.inout
Untouched == unms' = unms /\ post' \in Seq(Range(post')) /\ Handlers(post') = Handlers(post)
WritesBack(val) ==
  /\ \E u : unms' = Append(unms, u) /\ Unmarshal(u) = val
  /\ post' \in Seq(Range(post'))
  /\ Handlers(post') = Handlers(post) \cup {Act("OutParam", {}, Len(unms) + 1, javaParamIndex + 1)}
Written(kind, val) == Unmarshal(Unm(kind, 0, 0, val))

LEMMA PassGoesOn ==
  ASSUME NEW k, NEW u, Pass(k, u), outcome' = "none"
  PROVE  GoesOn
BY DEF Pass, Fail, GoesOn

LEMMA PlainGoesOn ==
  ASSUME NEW k, PassPlain(k), outcome' = "none", post \in Seq(Range(post))
  PROVE  GoesOn /\ Untouched
BY PassGoesOn DEF PassPlain, Untouched

LEMMA CleanedGoesOn ==
  ASSUME NEW k, NEW kinds, NEW acts, PassWith(k, kinds, acts), Cleaning(acts),
         outcome' = "none", post \in Seq(Range(post))
  PROVE  GoesOn /\ Untouched
<1>1. GoesOn /\ unms' = unms /\ post' = Added(CleanUps(acts), post)
  BY PassGoesOn DEF PassWith
<1>2. post' \in Seq(Range(post')) /\ Range(post') = Range(CleanUps(acts)) \cup Range(post)
  BY <1>1, CleanUpsHandle, AddedRange
<1>3. Handlers(post') = Handlers(post)
  BY <1>2, CleanUpsHandle DEF Handlers
<1> QED
  BY <1>1, <1>2, <1>3 DEF Untouched

LEMMA ByRefGoesOn ==
  ASSUME NEW kind, NEW val, NEW held, NEW acts, PassByRef(kind, val, held, acts), Cleaning(acts),
         outcome' = "none", post \in Seq(Range(post))
  PROVE  GoesOn /\ WritesBack(Written(kind, val))
<1> DEFINE a == Act("OutParam", {}, Len(unms) + 1, javaParamIndex + 1)
           q == Append(CleanUps(acts), a)
<1>1. GoesOn
  BY PassGoesOn DEF PassByRef
<1>2. \E self, holds : unms' = Append(unms, Unm(kind, self, holds, val))
  BY DEF PassByRef
<1>3. \A self, holds : Unmarshal(Unm(kind, self, holds, val)) = Written(kind, val)
  BY DEF Written, Unmarshal, Unm
<1>4. post' = Added(q, post)
  BY DEF PassByRef
<1>5. q \in Seq(Range(q)) /\ Range(q) = Range(CleanUps(acts)) \cup {a} /\ a.what = "OutParam"
  <2>1. a.what = "OutParam"
    BY DEF Act
  <2> HIDE DEF a
  <2> QED
    BY <2>1, CleanUpsHandle, AppendedRange
<1> HIDE DEF q, a
<1>6. post' \in Seq(Range(post')) /\ Range(post') = Range(q) \cup Range(post)
  BY <1>4, <1>5, AddedRange
<1>7. Handlers(post') = Handlers(post) \cup {a}
  BY <1>5, <1>6, CleanUpsHandle DEF Handlers
<1> QED
  BY <1>1, <1>2, <1>3, <1>6, <1>7 DEF WritesBack, a


\* What the parameter at hand, of conversion c, leaves for the way back.
Prepared(c) ==
  /\ GoesOn
  /\ IF IsHolder(Arg) /\ ByRef(c) THEN WritesBack(Decoded(c, Held(Arg)))
     ELSE Untouched \/ \E val : WritesBack(val)

LEMMA NothingPrepared ==
  ASSUME NEW c, GoesOn, Untouched, ~IsHolder(Arg) \/ ~ByRef(c)
  PROVE  Prepared(c)
BY DEF Prepared

LEMMA ValuePrepared ==
  ASSUME NEW c, NEW val, GoesOn, WritesBack(val), IsHolder(Arg) => val = Decoded(c, Held(Arg))
  PROVE  Prepared(c)
BY DEF Prepared

LEMMA WrittenIs ==
  /\ \A kind, val : kind \notin {"VARIANT", "SAFEARRAY"} => Written(kind, val) = val
  /\ \A val : Written("VARIANT", val) = Boxed("RawVariant", <<val>>)
  /\ \A val : Written("SAFEARRAY", val) = IF val = NoVal THEN Null ELSE ArrayToJava(val)
BY DEF Written, Unmarshal, Unm

LEMMA ArgumentPrepared ==
  ASSUME Convert, ~ReturnBuffer, ~NoMoreParameters, outcome' = "none", post \in Seq(Range(post))
  PROVE  \E c : Converting(c) /\ Prepared(c)
<1>1. ~(outcome' = "none" /\ Fail) /\ ~(outcome' = "none" /\ Fault)
  BY DEF Fail, Fault
<1>2. \A c \in {"BSTR", "LPCWSTR", "LPCSTR", "PVOID", "GUID", "CURRENCY", "VARIANT", "SAFEARRAY"} \cup DOMAIN Numbers :
        ~ByRef(c)
  BY DEF ByRef, NoByRef, Numbers
<1>3. Arg = Null => ~IsHolder(Arg)
  BY DEF Null, Java, IsHolder
<1>4. \A c : PassPlain("pointer") /\ Arg = Null => Prepared(c)
  BY <1>3, PlainGoesOn, NothingPrepared
<1>5. CASE ConvertBSTR
  <2>1. GoesOn /\ Untouched
    BY <1>5, PlainGoesOn, CleanedGoesOn, CleaningActs DEF ConvertBSTR
  <2> QED
    BY <1>2, <1>5, <2>1, NothingPrepared DEF ConvertBSTR
<1>6. CASE ConvertBSTR_byRef
  <2>1. CASE Arg = Null
    BY <1>4, <1>6, <2>1 DEF ConvertBSTR_byRef
  <2>2. CASE Arg # Null
    <3>1. GoesOn /\ WritesBack(Written("BSTR", Held(Arg)))
      <4>1. CASE Held(Arg) = Null
        <5>1. PassByRef("BSTR", Held(Arg), <<>>, <<>>)
          BY <1>6, <2>2, <4>1 DEF ConvertBSTR_byRef
        <5> QED
          BY <5>1, ByRefGoesOn, CleaningActs
      <4>2. CASE Held(Arg) # Null
        <5>1. PassByRef("BSTR", Held(Arg), <<"chars", "heldBstr">>, FreeString)
          BY <1>6, <2>2, <4>2 DEF ConvertBSTR_byRef
        <5> QED
          BY <5>1, ByRefGoesOn, CleaningActs
      <4> QED
        BY <4>1, <4>2
    <3>2. Written("BSTR", Held(Arg)) = Decoded("BSTR_byRef", Held(Arg))
      BY WrittenIs DEF Decoded, Encoded, NumbersByRef
    <3> QED
      BY <1>6, <3>1, <3>2, ValuePrepared DEF ConvertBSTR_byRef
  <2> QED
    BY <2>1, <2>2
<1>7. CASE ConvertString
  <2>1. GoesOn /\ Untouched
    BY <1>7, PlainGoesOn, CleanedGoesOn, CleaningActs DEF ConvertString
  <2> QED
    BY <1>2, <1>7, <2>1, NothingPrepared DEF ConvertString
<1>8. CASE ConvertNumber
  <2>1. PICK c \in DOMAIN Numbers : Converting(c) /\ PassPlain(Numbers[c])
    BY <1>8 DEF ConvertNumber
  <2>2. GoesOn /\ Untouched
    BY <2>1, PlainGoesOn
  <2> QED
    BY <1>2, <2>1, <2>2, NothingPrepared
<1>9. CASE ConvertNumber_byRef
  <2>1. PICK c \in NumbersByRef :
          /\ Converting(c)
          /\ IF Arg = Null THEN PassPlain("pointer")
             ELSE PassByRef(c, IF Held(Arg) = Null THEN ZeroOf[c] ELSE Held(Arg), <<>>, <<>>)
    BY <1>9 DEF ConvertNumber_byRef
  <2>2. CASE Arg = Null
    BY <1>4, <2>1, <2>2
  <2>3. CASE Arg # Null
    <3> DEFINE val == IF Held(Arg) = Null THEN ZeroOf[c] ELSE Held(Arg)
    <3>1. PassByRef(c, val, <<>>, <<>>)
      BY <2>1, <2>3
    <3>2. val = Decoded(c, Held(Arg)) /\ c \notin {"VARIANT", "SAFEARRAY"}
      BY DEF Decoded, Encoded, NumbersByRef
    <3> HIDE DEF val
    <3>3. GoesOn /\ WritesBack(Written(c, val)) /\ Written(c, val) = val
      BY <3>1, <3>2, ByRefGoesOn, CleaningActs, WrittenIs
    <3> QED
      BY <2>1, <3>2, <3>3, ValuePrepared
  <2> QED
    BY <2>2, <2>3
<1>10. CASE ConvertPVOID
  <2>1. GoesOn /\ Untouched
    BY <1>1, <1>10, PlainGoesOn DEF ConvertPVOID
  <2> QED
    BY <1>2, <1>10, <2>1, NothingPrepared DEF ConvertPVOID
<1>11. CASE ConvertGUID
  <2>1. GoesOn /\ Untouched
    BY <1>11, CleanedGoesOn, CleaningActs DEF ConvertGUID
  <2> QED
    BY <1>2, <1>11, <2>1, NothingPrepared DEF ConvertGUID
<1>12. CASE ConvertCURRENCY
  <2>1. GoesOn /\ Untouched
    BY <1>12, PlainGoesOn DEF ConvertCURRENCY
  <2> QED
    BY <1>2, <1>12, <2>1, NothingPrepared DEF ConvertCURRENCY
<1>13. CASE ConvertCURRENCY_byRef
  <2>1. CASE Arg = Null
    BY <1>4, <1>13, <2>1 DEF ConvertCURRENCY_byRef
  <2>2. CASE Arg # Null
    <3>1. PassByRef("CURRENCY", Held(Arg), <<>>, <<>>)
      BY <1>1, <1>13, <2>2 DEF ConvertCURRENCY_byRef
    <3>2. GoesOn /\ WritesBack(Written("CURRENCY", Held(Arg)))
      BY <3>1, ByRefGoesOn, CleaningActs
    <3>3. Written("CURRENCY", Held(Arg)) = Decoded("CURRENCY_byRef", Held(Arg))
      BY WrittenIs DEF Decoded, Encoded, NumbersByRef
    <3> QED
      BY <1>13, <3>2, <3>3, ValuePrepared DEF ConvertCURRENCY_byRef
  <2> QED
    BY <2>1, <2>2
<1>14. CASE ConvertVARIANT
  <2>1. GoesOn /\ Untouched
    BY <1>1, <1>14, PlainGoesOn, CleanedGoesOn, CleaningActs DEF ConvertVARIANT
  <2> QED
    BY <1>2, <1>14, <2>1, NothingPrepared DEF ConvertVARIANT
<1>15. CASE ConvertVARIANT_byRef
  <2> DEFINE v == IF IsHolder(Arg) THEN ConvertToVariant(Held(Arg)) ELSE ConvertToVariant(Arg)
  <2>1. CASE ~IsHolder(Arg)
    <3>1. GoesOn /\ Untouched
      BY <1>1, <1>15, <2>1, PlainGoesOn, CleanedGoesOn, CleaningActs DEF ConvertVARIANT_byRef
    <3> QED
      BY <1>15, <2>1, <3>1, NothingPrepared DEF ConvertVARIANT_byRef
  <2>2. CASE IsHolder(Arg)
    <3>1. Arg # Null /\ Arg.cls # "Variant"
      BY <1>3, <2>2 DEF IsHolder
    <3>2. PassByRef("VARIANT", v, IF HasContent(v) THEN <<"content">> ELSE <<>>, <<>>)
      BY <1>1, <1>15, <2>2, <3>1 DEF ConvertVARIANT_byRef
    <3>3. Decoded("VARIANT_byRef", Held(Arg)) = Boxed("RawVariant", <<v>>)
      BY <2>2 DEF Decoded, Encoded, NumbersByRef
    <3> HIDE DEF v
    <3>4. GoesOn /\ WritesBack(Written("VARIANT", v))
      BY <3>2, ByRefGoesOn, CleaningActs
    <3>5. Written("VARIANT", v) = Decoded("VARIANT_byRef", Held(Arg))
      BY <3>3, WrittenIs
    <3> QED
      BY <1>15, <3>4, <3>5, ValuePrepared DEF ConvertVARIANT_byRef
  <2> QED
    BY <2>1, <2>2
<1>16. CASE ConvertSAFEARRAY
  <2>1. GoesOn /\ Untouched
    BY <1>1, <1>16, CleanedGoesOn, CleaningActs DEF ConvertSAFEARRAY
  <2> QED
    BY <1>2, <1>16, <2>1, NothingPrepared DEF ConvertSAFEARRAY
<1>17. CASE ConvertSAFEARRAY_byRef
  <2> DEFINE a == IF Held(Arg) = Null THEN NoVal ELSE SafeArrayOf(Held(Arg))
             val == IF a \in {NoVal, NoVariant} THEN NoVal ELSE a
  <2>1. CASE Arg = Null
    BY <1>4, <1>17, <2>1 DEF ConvertSAFEARRAY_byRef
  <2>2. CASE Arg # Null
    <3>1. PICK held : PassByRef("SAFEARRAY", val, held, <<>>)
      BY <1>1, <1>17, <2>2 DEF ConvertSAFEARRAY_byRef
    <3>2. Encoded("SAFEARRAY_byRef", Held(Arg)) = val
      BY DEF Encoded, NumbersByRef
    <3> HIDE DEF val
    <3>3. GoesOn /\ WritesBack(Written("SAFEARRAY", val))
      BY <3>1, ByRefGoesOn, CleaningActs
    <3>4. Written("SAFEARRAY", val) = Decoded("SAFEARRAY_byRef", Held(Arg))
      BY <3>2, WrittenIs DEF Decoded
    <3> QED
      BY <1>17, <3>3, <3>4, ValuePrepared DEF ConvertSAFEARRAY_byRef
  <2> QED
    BY <2>1, <2>2
<1>18. CASE UnexpectedConversion
  BY <1>1, <1>18 DEF UnexpectedConversion
<1> QED
  BY <1>5, <1>6, <1>7, <1>8, <1>9, <1>10, <1>11, <1>12, <1>13, <1>14, <1>15, <1>16,
     <1>17, <1>18 DEF Convert


-----------------------------------------------------------------------------
(* What comes back in the holders, for every set of calls.                 *)

\* Parameter i is a holder of objects, as EchoComesBack is about.
Echoes(i) ==
  LET p == call.params[i] IN IsHolder(p.arg) /\ p.sig = "Object" /\ ByRef(p.conv)

\* The argument as messageParameters leaves it; what its holder is to get.
Sent(i) == Messaged(call.params[i].conv, call.params[i].arg)
Carried(i) == Decoded(call.params[i].conv, Held(Sent(i)))

(* While nothing went wrong and the callee left everything alone: each     *)
(* holder converted has a handler whose unmarshaller carries its value,    *)
(* or the handler has run and the holder has it.                           *)
Answered(i) == (\E a \in Handlers(post) : a.param = i) \/ args[i] = Holder(Carried(i))
HandlersInv ==
  /\ \A i \in 1..n : Echoes(i) /\ (pc = "convert" => i <= javaParamIndex) => Answered(i)
  /\ \A a \in Handlers(post) :
       /\ a.param \in 1..n /\ a.unm \in DOMAIN unms /\ (a.unm # retUnm \/ call.inout)
       /\ Echoes(a.param) => Unmarshal(unms[a.unm]) = Carried(a.param)

\* Parameter i is back in Java as it went.
Back(i) ==
  LET p == call.params[i] IN
  Echoes(i) /\ Kept(Held(p.arg)) => Held(args[i]) = SameValue(p.conv, Held(p.arg))

EchoShape ==
  /\ DOMAIN args = 1..n
  /\ outcome = "none" =>
       /\ post \in Seq(Range(post)) /\ unms \in Seq(Range(unms))
       /\ pc = "convert" => retUnm \in 0..Len(unms) \/ call.inout
  /\ pc \in {"idle", "message"} => post = <<>> /\ unms = <<>> /\ retUnm = 0
  /\ pc \in {"message", "cleanup"} => step \in 1..n
  /\ pc = "java" => step = 1 /\ outcome = "none"
  /\ pc = "dispatch" => call.via = "dispatch"
EchoFlow ==
  outcome = "none" /\ replaced = {} /\ call.via = "vtable" =>
    /\ pc = "message" => \A i \in 1..n : args[i] = IF i < step THEN Sent(i) ELSE call.params[i].arg
    /\ pc = "convert" => \A i \in 1..n : i > javaParamIndex => args[i] = Sent(i)
    /\ pc \in {"convert", "native", "returned", "post"} => HandlersInv
    /\ pc = "java" => \A i \in 1..n : Echoes(i) => args[i] = Holder(Carried(i))
    /\ pc = "cleanup" =>
         /\ \A i \in step..n : Echoes(i) => args[i] = Holder(Carried(i))
         /\ \A i \in 1..(step - 1) : Back(i)
    /\ pc = "done" => \A i \in 1..n : Back(i)
EchoInv == EchoShape /\ EchoFlow

\* The parameters of a call are what they were.
LEMMA SameParameters ==
  ASSUME UNCHANGED call
  PROVE  /\ n' = n
         /\ \A i : (Echoes(i)' <=> Echoes(i)) /\ Sent(i)' = Sent(i) /\ Carried(i)' = Carried(i)
BY DEF n, Echoes, Sent, Carried, Messaged

LEMMA SentHolder ==
  ASSUME NEW i, Echoes(i)
  PROVE  /\ IsHolder(Sent(i))
         /\ Held(Sent(i)) = SentValue(call.params[i].conv, Held(call.params[i].arg))
<1> DEFINE conv == call.params[i].conv
           a == call.params[i].arg
<1>1. IsHolder(a) /\ ByRef(conv)
  BY DEF Echoes
<1>2. conv \notin {"ComObject", "DISPATCH", "VARIANT", "DATE"} /\ a.cls \notin {"ComEnum", "Com4jObject"}
  BY <1>1 DEF ByRef, NoByRef, IsHolder
<1>3. Sent(i) = IF conv = "VARIANT_byRef" /\ Held(a).cls = "ComEnum" THEN Holder(Java("Integer", Held(a).val)) ELSE a
  <2> HIDE DEF a, conv
  <2>1. Messaged(conv, a) = IF conv = "VARIANT_byRef" /\ Held(a).cls = "ComEnum"
                            THEN Holder(Java("Integer", Held(a).val)) ELSE a
    BY <1>1, <1>2 DEF Messaged
  <2> QED
    BY <2>1 DEF Sent, a, conv
<1>4. \A v : IsHolder(Holder(v)) /\ Held(Holder(v)) = v
  BY DEF IsHolder, Holder, Held, Boxed
<1> HIDE DEF a, conv
<1>5. IsHolder(Sent(i)) /\ Held(Sent(i)) = SentValue(conv, Held(a))
  BY <1>1, <1>3, <1>4 DEF SentValue
<1> QED
  BY <1>5 DEF a, conv

LEMMA HeldHolder == \A v : IsHolder(Holder(v)) /\ Held(Holder(v)) = v
BY DEF IsHolder, Holder, Held, Boxed

\* The handlers have done their work or still can.
LEMMA HandlersKept ==
  ASSUME HandlersInv, UNCHANGED <<call, args, post>>,
         \A i \in 1..n : (pc' = "convert" => i <= javaParamIndex') => (pc = "convert" => i <= javaParamIndex),
         \A k \in DOMAIN unms : k \in DOMAIN unms' /\ (k # retUnm \/ call.inout => unms'[k] = unms[k]),
         retUnm' = retUnm \/ retUnm' \notin DOMAIN unms
  PROVE  HandlersInv'
<1>1. /\ n' = n /\ Handlers(post') = Handlers(post)
      /\ \A i : (Echoes(i)' <=> Echoes(i)) /\ Sent(i)' = Sent(i) /\ Carried(i)' = Carried(i)
  BY SameParameters
<1>2. \A i : Answered(i)' <=> Answered(i)
  BY <1>1 DEF Answered
<1>3. \A i \in 1..n : Echoes(i) /\ (pc' = "convert" => i <= javaParamIndex') => Answered(i)
  BY DEF HandlersInv
<1>4. ASSUME NEW a \in Handlers(post)
      PROVE  /\ a.param \in 1..n /\ a.unm \in DOMAIN unms' /\ (a.unm # retUnm' \/ call'.inout)
             /\ Echoes(a.param) => Unmarshal(unms'[a.unm]) = Carried(a.param)
  <2>1. /\ a.param \in 1..n /\ a.unm \in DOMAIN unms /\ (a.unm # retUnm \/ call.inout)
        /\ Echoes(a.param) => Unmarshal(unms[a.unm]) = Carried(a.param)
    BY DEF HandlersInv
  <2>2. a.unm \in DOMAIN unms' /\ unms'[a.unm] = unms[a.unm]
    BY <2>1
  <2> QED
    BY <2>1, <2>2
<1> QED
  BY <1>1, <1>2, <1>3, <1>4 DEF HandlersInv

LEMMA NoHandlers ==
  ASSUME post = <<>>
  PROVE  Handlers(post) = {}
BY DEF Handlers, Range

LEMMA EchoBegin ==
  ASSUME EchoInv, PositionsInv, NEW c \in Calls, pc = "idle", BeginCall(c)
  PROVE  EchoInv'
<1>1. /\ call' = c /\ step' = 1 /\ args' = [ i \in DOMAIN c.params |-> c.params[i].arg ]
      /\ pc' = IF c.params # <<>> THEN "message" ELSE IF c.via = "dispatch" THEN "dispatch" ELSE "convert"
      /\ UNCHANGED <<post, unms, retUnm, javaParamIndex, outcome, replaced>>
  BY DEF BeginCall, endVars
<1>2. post' = <<>> /\ unms' = <<>> /\ post' \in Seq(Range(post')) /\ unms' \in Seq(Range(unms'))
  BY <1>1 DEF EchoInv, EchoShape
<1>3. c.params \in Seq(Range(c.params)) /\ n' = Len(c.params)
  BY <1>1, CallsAssumption DEF n
<1>4. n' \in Nat /\ DOMAIN c.params = 1..n' /\ (n' = 0 <=> c.params = <<>>)
  BY <1>3
<1>5. retUnm' = 0 /\ retUnm' \in 0..Len(unms')
  <2>1. retUnm' = 0
    BY <1>1 DEF EchoInv, EchoShape
  <2> QED
    BY <1>2, <2>1
<1>6. EchoShape'
  BY <1>1, <1>2, <1>4, <1>5 DEF EchoShape
<1>7. pc' = "message" => \A i \in 1..n' : args'[i] = IF i < step' THEN Sent(i)' ELSE call'.params[i].arg
  BY <1>1, <1>4
<1>8. pc' = "convert" => n' = 0 /\ HandlersInv'
  <2>1. Handlers(post') = {}
    BY <1>2 DEF Handlers, Range
  <2> QED
    BY <1>1, <1>4, <2>1 DEF HandlersInv
<1> QED
  BY <1>1, <1>6, <1>7, <1>8 DEF EchoInv, EchoFlow

LEMMA EchoMessage ==
  ASSUME EchoInv, PositionsInv, MessageParameter
  PROVE  EchoInv'
<1>1. /\ pc = "message" /\ post = <<>> /\ unms = <<>> /\ retUnm = 0 /\ javaParamIndex = 0
      /\ UNCHANGED <<call, post, unms, retUnm, javaParamIndex, replaced>>
  BY DEF MessageParameter, EchoInv, EchoShape, PositionsInv, convVars
<1>2. n' = n /\ (\A i : Sent(i)' = Sent(i)) /\ n \in Nat /\ step \in 1..n /\ DOMAIN args = 1..n
  BY <1>1, SameParameters, CallFacts DEF EchoInv, EchoShape, PositionsInv, n
<1> DEFINE p == call.params[step]
<1>3. CASE pc' = "done" /\ outcome' = "NullPointerException" /\ UNCHANGED args
  BY <1>1, <1>2, <1>3 DEF EchoInv, EchoShape, EchoFlow
<1>4. CASE /\ args' = [args EXCEPT ![step] = Messaged(p.conv, args[step])] /\ step' = step + 1
           /\ pc' = IF step = n THEN AfterMessages ELSE "message"
           /\ outcome' = outcome
  <2>1. AfterMessages = IF call.via = "dispatch" THEN "dispatch" ELSE "convert"
    BY DEF AfterMessages
  <2>2. DOMAIN args' = 1..n /\ \A i \in 1..n : args'[i] = IF i = step THEN Messaged(p.conv, args[step]) ELSE args[i]
    BY <1>2, <1>4
  <2>3. EchoShape'
    BY <1>1, <1>2, <1>4, <2>1, <2>2 DEF EchoInv, EchoShape
  <2>4. ASSUME outcome = "none", replaced = {}, call.via = "vtable"
        PROVE  \A i \in 1..n : args'[i] = IF i < step' THEN Sent(i) ELSE call.params[i].arg
    <3>1. \A i \in 1..n : args[i] = IF i < step THEN Sent(i) ELSE call.params[i].arg
      BY <1>1, <2>4 DEF EchoInv, EchoFlow
    <3>2. Messaged(p.conv, args[step]) = Sent(step)
      BY <1>2, <3>1 DEF Sent
    <3> QED
      BY <1>2, <1>4, <2>2, <3>1, <3>2
  <2>5. Handlers(post') = {}
    BY <1>1 DEF Handlers, Range
  <2>6. pc' = "convert" => HandlersInv'
    BY <1>1, <1>2, <2>5 DEF HandlersInv
  <2>7. pc' \in {"message", "convert", "dispatch"} /\ (pc' = "convert" => step' = n + 1)
    BY <1>2, <1>4, <2>1
  <2>8. EchoFlow'
    <3> SUFFICES ASSUME outcome' = "none", replaced' = {}, call'.via = "vtable"
                 PROVE  /\ pc' = "message" => \A i \in 1..n' : args'[i] = IF i < step' THEN Sent(i)' ELSE call'.params[i].arg
                        /\ pc' = "convert" => (\A i \in 1..n' : i > javaParamIndex' => args'[i] = Sent(i)') /\ HandlersInv'
                        /\ pc' \in {"message", "convert"}
      BY DEF EchoFlow
    <3>1. \A i \in 1..n : args'[i] = IF i < step' THEN Sent(i) ELSE call.params[i].arg
      BY <1>1, <1>4, <2>4
    <3>2. pc' = "convert" => \A i \in 1..n : args'[i] = Sent(i)
      BY <1>2, <2>7, <3>1
    <3> QED
      BY <1>1, <1>2, <1>4, <2>1, <2>6, <2>7, <3>1, <3>2
  <2> QED
    BY <2>3, <2>8 DEF EchoInv
<1> QED
  BY <1>3, <1>4 DEF MessageParameter

\* Steps in Environment::invoke that keep arguments and post actions.
LEMMA EchoQuiet ==
  ASSUME EchoInv, UNCHANGED <<call, args, post>>,
         pc \in {"convert", "native", "returned", "post"}, pc' \in {"convert", "native", "returned", "post"},
         outcome' = "none" =>
           /\ outcome = "none" /\ unms' \in Seq(Range(unms'))
           /\ pc' = "convert" => pc = "convert" /\ javaParamIndex' = javaParamIndex /\ (retUnm' \in 0..Len(unms') \/ call.inout),
         replaced' = {} => replaced = {},
         outcome' = "none" /\ replaced' = {} =>
           /\ pc = "convert" /\ pc' # "convert" => javaParamIndex >= n
           /\ \A k \in DOMAIN unms : k \in DOMAIN unms' /\ (k # retUnm \/ call.inout => unms'[k] = unms[k])
           /\ retUnm' = retUnm \/ retUnm' \notin DOMAIN unms,
         n \in Nat, pc = "convert" => javaParamIndex \in Int
  PROVE  EchoInv'
<1>1. n' = n /\ \A i : Sent(i)' = Sent(i)
  BY SameParameters
<1>2. EchoShape'
  BY <1>1 DEF EchoInv, EchoShape
<1>3. ASSUME outcome' = "none", replaced' = {}, call'.via = "vtable"
      PROVE  HandlersInv' /\ (pc' = "convert" => \A i \in 1..n : i > javaParamIndex => args[i] = Sent(i))
  <2>1. HandlersInv /\ (pc = "convert" => \A i \in 1..n : i > javaParamIndex => args[i] = Sent(i))
    BY <1>3 DEF EchoInv, EchoFlow
  <2>2. \A i \in 1..n : (pc' = "convert" => i <= javaParamIndex') => (pc = "convert" => i <= javaParamIndex)
    BY <1>3
  <2> QED
    BY <1>3, <2>1, <2>2, HandlersKept
<1> QED
  BY <1>1, <1>2, <1>3 DEF EchoInv, EchoFlow

LEMMA EchoReturnBuffer ==
  ASSUME EchoInv, ReturnBuffer, n \in Nat, javaParamIndex \in Int
  PROVE  EchoInv'
<1>1. /\ pc = "convert" /\ ~call.inout /\ UNCHANGED <<call, args, post, replaced>>
      /\ outcome = "none" => unms \in Seq(Range(unms)) /\ retUnm \in 0..Len(unms)
  BY DEF ReturnBuffer, ReturnSlot, javaVars, EchoInv, EchoShape
<1>2. CASE UNCHANGED unms /\ pc' = "post" /\ outcome' = "ComException"
  BY <1>1, <1>2, EchoQuiet
<1>3. CASE UNCHANGED <<pc, outcome, unms, javaParamIndex, retUnm>>
  BY <1>1, <1>3, EchoQuiet
<1>4. CASE /\ retUnm' = Len(unms) + 1 /\ UNCHANGED <<pc, outcome, javaParamIndex>>
           /\ unms' = Append(unms, Unm(call.retConv, Len(heap) + 1, 0, NoVal))
  <2> SUFFICES ASSUME outcome = "none" PROVE EchoInv'
    BY <1>1, <1>4, EchoQuiet
  <2>1. /\ unms' \in Seq(Range(unms')) /\ Len(unms) \in Nat
        /\ DOMAIN unms' = 1..(Len(unms) + 1) /\ DOMAIN unms = 1..Len(unms)
        /\ \A k \in DOMAIN unms : unms'[k] = unms[k]
    BY <1>1, <1>4, AppendedRange
  <2>2. retUnm' \notin DOMAIN unms /\ \A k \in DOMAIN unms : k \in DOMAIN unms'
    BY <1>4, <2>1
  <2>3. Len(unms') = Len(unms) + 1
    BY <1>1, <1>4
  <2>4. retUnm' \in 0..Len(unms')
    BY <1>4, <2>1, <2>3
  <2> QED
    BY <1>1, <1>4, <2>1, <2>2, <2>4, EchoQuiet
<1> QED
  BY <1>2, <1>3, <1>4 DEF ReturnBuffer, Fail

LEMMA EchoArgument ==
  ASSUME EchoInv, Convert, ~ReturnBuffer, ~NoMoreParameters, n \in Nat, javaParamIndex \in 0..n
  PROVE  EchoInv'
<1>1. PICK c : Converting(c) /\ (outcome' = "none" => outcome = "none")
  BY ConvertPasses DEF Passes
<1>2. /\ pc = "convert" /\ javaParamIndex + 1 \in 1..n /\ call.params[javaParamIndex + 1].conv = c
      /\ UNCHANGED <<call, args, step, replaced>>
      /\ DOMAIN args = 1..n
  BY <1>1 DEF Converting, javaVars, EchoInv, EchoShape
<1>3. n' = n /\ \A i : (Echoes(i)' <=> Echoes(i)) /\ Sent(i)' = Sent(i) /\ Carried(i)' = Carried(i)
  BY <1>2, SameParameters
<1> DEFINE at == javaParamIndex + 1
           new == Act("OutParam", {}, Len(unms) + 1, at)
<1>4. CASE outcome' # "none"
  <2>1. pc' \in {"convert", "post", "done"}
    BY <1>2, ConvertPasses DEF Passes
  <2> QED
    BY <1>2, <1>3, <1>4, <2>1 DEF EchoInv, EchoShape, EchoFlow
<1>5. CASE outcome' = "none"
  <2>0. unms \in Seq(Range(unms)) /\ post \in Seq(Range(post)) /\ (retUnm \in 0..Len(unms) \/ call.inout)
    BY <1>1, <1>2, <1>5 DEF EchoInv, EchoShape
  <2>1. PICK d : Converting(d) /\ Prepared(d)
    BY <1>2, <1>5, <2>0, ArgumentPrepared
  <2>2. d = c /\ GoesOn
    BY <1>2, <2>1 DEF Converting, Prepared
  <2>3. /\ UNCHANGED <<pc, outcome>> /\ javaParamIndex' = at /\ (retUnm' = retUnm \/ call.inout)
    BY <2>2 DEF GoesOn
  <2>4. \/ Untouched /\ ~(IsHolder(Arg) /\ ByRef(c))
        \/ \E val : WritesBack(val) /\ (IsHolder(Arg) /\ ByRef(c) => val = Decoded(c, Held(Arg)))
    BY <2>1, <2>2 DEF Prepared
  <2>5. post' \in Seq(Range(post')) /\ Handlers(post) \subseteq Handlers(post')
    BY <2>4 DEF Untouched, WritesBack
  <2>6. /\ unms' \in Seq(Range(unms')) /\ Len(unms') \in Nat /\ Len(unms) \in Nat /\ Len(unms) <= Len(unms')
        /\ \A k \in DOMAIN unms : k \in DOMAIN unms' /\ unms'[k] = unms[k]
    <3>1. CASE unms' = unms
      BY <2>0, <3>1, Elements
    <3>2. CASE \E u : unms' = Append(unms, u)
      <4>1. PICK u : unms' = Append(unms, u)
        BY <3>2
      <4>2. /\ unms' \in Seq(Range(unms')) /\ Len(unms) \in Nat /\ DOMAIN unms = 1..Len(unms)
            /\ DOMAIN unms' = 1..(Len(unms) + 1) /\ \A k \in DOMAIN unms : unms'[k] = unms[k]
        BY <2>0, <4>1, AppendedRange
      <4>3. Len(unms') = Len(unms) + 1
        BY <2>0, <4>1
      <4> QED
        BY <4>2, <4>3
    <3> QED
      BY <2>4, <3>1, <3>2 DEF Untouched, WritesBack
  <2>7. EchoShape'
    BY <1>2, <1>3, <2>3, <2>5, <2>6 DEF EchoInv, EchoShape
  <2>8. ASSUME outcome = "none", replaced = {}, call.via = "vtable"
        PROVE  HandlersInv' /\ \A i \in 1..n : i > javaParamIndex' => args'[i] = Sent(i)
    <3>1. HandlersInv /\ \A i \in 1..n : i > javaParamIndex => args[i] = Sent(i)
      BY <1>2, <2>8 DEF EchoInv, EchoFlow
    <3>2. Arg = Sent(at)
      BY <1>2, <3>1 DEF Arg
    <3>3. Echoes(at) => IsHolder(Arg) /\ ByRef(c)
      BY <1>2, <3>2, SentHolder DEF Echoes
    <3>4. \A i \in 1..n : Echoes(i) /\ i <= javaParamIndex => Answered(i)'
      <4>1. \A i \in 1..n : Echoes(i) /\ i <= javaParamIndex => Answered(i)
        BY <1>2, <3>1 DEF HandlersInv
      <4> QED
        BY <1>2, <1>3, <2>5, <4>1 DEF Answered
    <3>5. \A a \in Handlers(post) :
            /\ a.param \in 1..n /\ a.unm \in DOMAIN unms' /\ (a.unm # retUnm' \/ call.inout)
            /\ Echoes(a.param) => Unmarshal(unms'[a.unm]) = Carried(a.param)
      <4> TAKE a \in Handlers(post)
      <4>1. /\ a.param \in 1..n /\ a.unm \in DOMAIN unms /\ (a.unm # retUnm \/ call.inout)
            /\ Echoes(a.param) => Unmarshal(unms[a.unm]) = Carried(a.param)
        BY <3>1 DEF HandlersInv
      <4> QED
        BY <2>3, <2>6, <4>1
    <3>6. CASE Untouched /\ ~(IsHolder(Arg) /\ ByRef(c))
      <4>1. Handlers(post') = Handlers(post) /\ ~Echoes(at)
        BY <3>3, <3>6 DEF Untouched
      <4>2. \A i \in 1..n : Echoes(i) /\ i <= at => Answered(i)'
        BY <1>2, <3>4, <4>1
      <4>3. HandlersInv'
        BY <1>2, <1>3, <2>3, <3>5, <4>1, <4>2 DEF HandlersInv
      <4> QED
        BY <1>2, <2>3, <3>1, <4>3
    <3>7. CASE \E val : WritesBack(val) /\ (IsHolder(Arg) /\ ByRef(c) => val = Decoded(c, Held(Arg)))
      <4>1. PICK val : WritesBack(val) /\ (IsHolder(Arg) /\ ByRef(c) => val = Decoded(c, Held(Arg)))
        BY <3>7
      <4>2. PICK u : unms' = Append(unms, u) /\ Unmarshal(u) = val
        BY <4>1 DEF WritesBack
      <4>3. Handlers(post') = Handlers(post) \cup {new}
        BY <4>1 DEF WritesBack
      <4>4. new.param = at /\ new.unm = Len(unms) + 1
        BY DEF Act
      <4> HIDE DEF new
      <4>5. new.unm \in DOMAIN unms' /\ unms'[new.unm] = u
        BY <2>0, <2>6, <4>2, <4>4, AppendedRange
      <4>6. new.unm # retUnm' \/ call.inout
        <5>1. retUnm \in 0..Len(unms) => retUnm # Len(unms) + 1
          BY <2>6
        <5> QED
          BY <2>0, <2>3, <4>4, <5>1
      <4>7. Echoes(at) => Unmarshal(unms'[new.unm]) = Carried(at)
        BY <1>2, <3>2, <3>3, <4>1, <4>2, <4>5 DEF Carried
      <4>8. \A i \in 1..n : Echoes(i) /\ i <= at => Answered(i)'
        <5>1. \A i : i = at => Answered(i)'
          BY <1>2, <4>3, <4>4 DEF Answered
        <5>2. \A i \in 1..n : i <= at => i <= javaParamIndex \/ i = at
          BY <1>2
        <5> HIDE DEF at
        <5> QED
          BY <3>4, <5>1, <5>2
      <4>9. HandlersInv'
        <5>1. at \in 1..n
          BY <1>2
        <5> HIDE DEF at
        <5>2. \A a \in Handlers(post') :
                /\ a.param \in 1..n /\ a.unm \in DOMAIN unms' /\ (a.unm # retUnm' \/ call.inout)
                /\ Echoes(a.param) => Unmarshal(unms'[a.unm]) = Carried(a.param)
          BY <3>5, <4>3, <4>4, <4>5, <4>6, <4>7, <5>1
        <5> QED
          BY <1>2, <1>3, <2>3, <4>8, <5>2 DEF HandlersInv
      <4> QED
        BY <1>2, <2>3, <3>1, <4>9
    <3> QED
      BY <2>4, <3>6, <3>7
  <2>9. EchoFlow'
    BY <1>2, <1>3, <2>3, <2>8 DEF EchoFlow
  <2> QED
    BY <2>7, <2>9 DEF EchoInv
<1> QED
  BY <1>4, <1>5

LEMMA EchoRunPostAction ==
  ASSUME EchoInv, RunPostAction
  PROVE  EchoInv'
<1> DEFINE a == Head(post)
<1>1. /\ pc = "post" /\ pc' = "post" /\ post # <<>> /\ post' = Tail(post) /\ DOMAIN args = 1..n
      /\ UNCHANGED <<call, unms, retUnm, step, outcome, replaced>>
  BY DEF RunPostAction, convVars, EchoInv, EchoShape
<1>2. n' = n /\ \A i : (Echoes(i)' <=> Echoes(i)) /\ Sent(i)' = Sent(i) /\ Carried(i)' = Carried(i)
  BY <1>1, SameParameters
<1>3. \/ a.what = "OutParam" /\ args' = [args EXCEPT ![a.param] = Holder(Unmarshal(unms[a.unm]))]
      \/ a.what # "OutParam" /\ args' = args
  BY DEF RunPostAction
<1>4. DOMAIN args' = 1..n
  BY <1>1, <1>3
<1>5. ASSUME outcome = "none"
      PROVE  /\ post' \in Seq(Range(post')) /\ Range(post) = {a} \cup Range(post')
  <2>1. post \in Seq(Range(post))
    BY <1>5 DEF EchoInv, EchoShape
  <2>2. /\ Len(post) \in Nat /\ Len(post) # 0 /\ DOMAIN post = 1..Len(post)
        /\ post' \in Seq(Range(post)) /\ Len(post') = Len(post) - 1
        /\ \A k \in 1..(Len(post) - 1) : post'[k] = post[k + 1]
    BY <1>1, <2>1
  <2>3. DOMAIN post' = 1..(Len(post) - 1) /\ a = post[1]
    BY <1>1, <2>1, <2>2
  <2> DEFINE m == Len(post)
  <2> HIDE DEF a, m
  <2>4. Range(post') \subseteq Range(post) /\ a \in Range(post)
    BY <2>2, <2>3 DEF Range, m
  <2>5. ASSUME NEW x \in Range(post), x # a
        PROVE  x \in Range(post')
    <3>1. PICK k \in 1..Len(post) : x = post[k]
      BY <2>2 DEF Range
    <3>2. k - 1 \in 1..(Len(post) - 1) /\ (k - 1) + 1 = k
      BY <2>2, <2>3, <2>5, <3>1
    <3>3. post'[k - 1] = x
      BY <2>2, <3>1, <3>2
    <3> QED
      BY <2>3, <3>2, <3>3 DEF Range
  <2>6. \A k \in DOMAIN post' : post'[k] \in Range(post')
    BY DEF Range
  <2>7. post' \in Seq(Range(post'))
    BY <2>2, <2>3, <2>6
  <2> QED
    BY <2>4, <2>5, <2>7
<1>6. EchoShape'
  BY <1>1, <1>2, <1>4, <1>5 DEF EchoInv, EchoShape
<1>7. ASSUME outcome = "none", replaced = {}, call.via = "vtable"
      PROVE  HandlersInv'
  <2>1. HandlersInv
    BY <1>1, <1>7 DEF EchoInv, EchoFlow
  <2>2. Handlers(post') \subseteq Handlers(post)
    BY <1>5, <1>7 DEF Handlers
  <2>3. \A b \in Handlers(post') :
          /\ b.param \in 1..n /\ b.unm \in DOMAIN unms /\ (b.unm # retUnm \/ call.inout)
          /\ Echoes(b.param) => Unmarshal(unms[b.unm]) = Carried(b.param)
    BY <2>1, <2>2 DEF HandlersInv
  <2>4. ASSUME NEW i \in 1..n, Echoes(i)
        PROVE  (\E b \in Handlers(post') : b.param = i) \/ args'[i] = Holder(Carried(i))
    <3>1. (\E b \in Handlers(post) : b.param = i) \/ args[i] = Holder(Carried(i))
      BY <1>1, <2>1, <2>4 DEF HandlersInv, Answered
    <3>2. CASE a.what # "OutParam"
      <4>1. Handlers(post') = Handlers(post)
        BY <1>5, <1>7, <3>2 DEF Handlers
      <4> QED
        BY <1>3, <3>1, <3>2, <4>1
    <3>3. CASE a.what = "OutParam"
      <4>1. a \in Handlers(post) /\ Handlers(post) = {a} \cup Handlers(post')
        BY <1>5, <1>7, <3>3 DEF Handlers
      <4>2. a.param \in 1..n /\ (Echoes(a.param) => Unmarshal(unms[a.unm]) = Carried(a.param))
        BY <2>1, <4>1 DEF HandlersInv
      <4>3. args' = [args EXCEPT ![a.param] = Holder(Unmarshal(unms[a.unm]))]
        BY <1>3, <3>3
      <4> HIDE DEF a
      <4>4. CASE a.param = i
        BY <1>1, <2>4, <4>2, <4>3, <4>4
      <4>5. CASE a.param # i
        BY <1>1, <3>1, <4>1, <4>3, <4>5
      <4> QED
        BY <4>4, <4>5
    <3> QED
      BY <3>2, <3>3
  <2> QED
    BY <1>1, <1>2, <2>3, <2>4 DEF HandlersInv, Answered
<1> QED
  BY <1>1, <1>6, <1>7 DEF EchoInv, EchoFlow

LEMMA EchoLeaveNative ==
  ASSUME EchoInv, LeaveNative, n \in Nat
  PROVE  EchoInv'
<1>1. /\ pc = "post" /\ post = <<>> /\ step' = 1
      /\ pc' = IF outcome = "none" THEN "java" ELSE IF n > 0 THEN "cleanup" ELSE "done"
      /\ UNCHANGED <<call, args, unms, post, retUnm, outcome, replaced>>
  BY DEF LeaveNative, convVars, endVars
<1>2. n' = n /\ \A i : (Echoes(i)' <=> Echoes(i)) /\ Carried(i)' = Carried(i)
  BY <1>1, SameParameters
<1>3. EchoShape'
  BY <1>1, <1>2 DEF EchoInv, EchoShape
<1>4. ASSUME outcome = "none", replaced = {}, call.via = "vtable"
      PROVE  \A i \in 1..n : Echoes(i) => args[i] = Holder(Carried(i))
  <2>1. HandlersInv /\ Handlers(post) = {}
    BY <1>1, <1>4, NoHandlers DEF EchoInv, EchoFlow
  <2> QED
    BY <1>1, <2>1 DEF HandlersInv, Answered
<1> QED
  BY <1>1, <1>2, <1>3, <1>4 DEF EchoInv, EchoFlow

LEMMA EchoConvertResult ==
  ASSUME EchoInv, ConvertResult, n \in Nat
  PROVE  EchoInv'
<1>1. /\ pc = "java" /\ pc' = (IF n > 0 THEN "cleanup" ELSE "done") /\ step = 1 /\ outcome = "none"
      /\ UNCHANGED <<call, args, unms, post, retUnm, step, replaced>>
  BY DEF ConvertResult, javaVars, convVars, EchoInv, EchoShape
<1>2. n' = n /\ \A i : (Echoes(i)' <=> Echoes(i)) /\ Carried(i)' = Carried(i)
  BY <1>1, SameParameters
<1>3. EchoShape'
  BY <1>1, <1>2 DEF EchoInv, EchoShape
<1>4. replaced = {} /\ call.via = "vtable" => \A i \in 1..n : Echoes(i) => args[i] = Holder(Carried(i))
  BY <1>1 DEF EchoInv, EchoFlow
<1>5. EchoFlow'
  BY <1>1, <1>2, <1>4 DEF EchoFlow
<1> QED
  BY <1>3, <1>5 DEF EchoInv

\* The finally block gives the parameter it is at its value back.
LEMMA EchoCleanup ==
  ASSUME HoldersAreTyped, EchoInv, call \in Calls \cup {NoCall}, CleanupParameter
  PROVE  EchoInv'
<1> DEFINE p == call.params[step]
           a == args[step]
           t == IF IsHolder(a) /\ ByRef(p.conv) THEN ToJava(NoByRef[p.conv], p.sig, Held(a), refs[step])
                ELSE [ val |-> a, thrown |-> "none",
                       heap |-> IF p.conv = "DISPATCH" THEN Free(heap, refs[step]) ELSE heap ]
           zero == p.conv = "ComObject_byRef" /\ Held(a) = Null
<1>1. /\ pc = "cleanup" /\ step \in 1..n /\ DOMAIN args = 1..n /\ UNCHANGED <<call, unms, post, retUnm, replaced>>
  BY DEF CleanupParameter, convVars, EchoInv, EchoShape
<1>2. n' = n /\ n \in Nat /\ \A i : (Echoes(i)' <=> Echoes(i)) /\ Carried(i)' = Carried(i)
  BY <1>1, SameParameters, CallFacts DEF n
<1>3. CASE pc' = "done" /\ UNCHANGED <<args, step>> /\ outcome' # "none"
  BY <1>1, <1>2, <1>3 DEF EchoInv, EchoShape, EchoFlow
<1>4. CASE /\ t.thrown = "none"
           /\ args' = IF IsHolder(a) THEN [args EXCEPT ![step] = Holder(t.val)] ELSE args
           /\ step' = step + 1
           /\ pc' = IF step = n THEN "done" ELSE "cleanup"
           /\ UNCHANGED outcome
  <2>1. DOMAIN args' = 1..n /\ \A i \in 1..n : i # step => args'[i] = args[i]
    BY <1>1, <1>4
  <2>2. EchoShape'
    BY <1>1, <1>2, <1>4, <2>1 DEF EchoInv, EchoShape
  <2>3. ASSUME outcome = "none", replaced = {}, call.via = "vtable"
        PROVE  /\ \A i \in step'..n : Echoes(i) => args'[i] = Holder(Carried(i))
               /\ \A i \in 1..(step' - 1) : Back(i)'
    <3>1. /\ \A i \in step..n : Echoes(i) => args[i] = Holder(Carried(i))
          /\ \A i \in 1..(step - 1) : Back(i)
      BY <1>1, <2>3 DEF EchoInv, EchoFlow
    <3>2. \A i \in 1..(step - 1) : Back(i)'
      BY <1>1, <1>2, <2>1, <3>1 DEF Back
    <3>3. ASSUME Echoes(step), Kept(Held(p.arg))
          PROVE  Held(args'[step]) = SameValue(p.conv, Held(p.arg))
      <4> DEFINE o0 == Held(p.arg)
                 o == Held(Sent(step))
      <4>1. a = Holder(Carried(step)) /\ p.sig = "Object" /\ ByRef(p.conv) /\ IsHolder(p.arg)
        BY <1>1, <1>2, <3>1, <3>3 DEF Echoes
      <4>2. IsHolder(a) /\ Held(a) = Decoded(p.conv, o)
        BY <4>1, HeldHolder DEF Carried
      <4>3. o = SentValue(p.conv, o0)
        BY <3>3, SentHolder
      <4>4. HeldValue(p.conv, o0)
        <5>1. call \in Calls
          BY <1>1 DEF NoCall, n
        <5>2. step \in DOMAIN call.params
          BY <1>1, <5>1, CallsAssumption DEF n
        <5> QED
          BY <4>1, <5>1, <5>2 DEF HoldersAreTyped
      <4>5. t = ToJava(NoByRef[p.conv], "Object", Decoded(p.conv, o), refs[step])
        BY <4>1, <4>2
      <4>6. Held(args'[step]) = t.val
        BY <1>1, <1>4, <4>2, HeldHolder
      <4> HIDE DEF t, p, o, o0, a
      <4>7. t.val = SameValue(p.conv, o0)
        BY <1>4, <3>3, <4>1, <4>3, <4>4, <4>5, HeldComesBack DEF o0
      <4> QED
        BY <4>6, <4>7 DEF o0
    <3>4. \A i : i = step => Back(i)'
      BY <1>1, <1>2, <3>3 DEF Back
    <3>5. \A i \in 1..(step' - 1) : i \in 1..(step - 1) \/ i = step
      BY <1>1, <1>2, <1>4
    <3>6. \A i \in 1..(step' - 1) : Back(i)'
      BY <3>2, <3>4, <3>5
    <3>7. \A i \in step'..n : i \in step..n /\ i \in 1..n /\ i # step
      BY <1>1, <1>2, <1>4
    <3> QED
      BY <2>1, <3>1, <3>6, <3>7
  <2>4. pc' = "done" => step' - 1 = n
    BY <1>1, <1>2, <1>4
  <2>5. EchoFlow'
    BY <1>1, <1>2, <1>4, <2>3, <2>4 DEF EchoFlow
  <2> QED
    BY <2>2, <2>5 DEF EchoInv
<1> QED
  <2>1. IF zero \/ t.thrown # "none"
        THEN /\ outcome' = IF zero THEN "IllegalArgumentException" ELSE t.thrown
             /\ pc' = "done"
             /\ UNCHANGED <<args, step>>
        ELSE /\ args' = IF IsHolder(a) THEN [args EXCEPT ![step] = Holder(t.val)] ELSE args
             /\ step' = step + 1
             /\ pc' = IF step = n THEN "done" ELSE "cleanup"
             /\ UNCHANGED outcome
    BY DEF CleanupParameter
  <2> HIDE DEF t, zero, a
  <2> QED
    BY <1>3, <1>4, <2>1

LEMMA ExceptRange ==
  ASSUME NEW s, s \in Seq(Range(s)), NEW k, NEW x, NEW q, q = [s EXCEPT ![k] = x]
  PROVE  q \in Seq(Range(q)) /\ DOMAIN q = DOMAIN s /\ \A j \in DOMAIN s : j # k => q[j] = s[j]
<1>1. Len(s) \in Nat /\ DOMAIN s = 1..Len(s)
  BY Elements
<1>2. DOMAIN q = 1..Len(s) /\ (\A j \in DOMAIN s : j # k => q[j] = s[j]) /\ q = [ j \in 1..Len(s) |-> q[j] ]
  BY <1>1
<1>3. \A j \in 1..Len(s) : q[j] \in Range(q)
  BY <1>2 DEF Range
<1>4. q \in Seq(Range(q))
  <2> DEFINE m == Len(s)
  <2>1. m \in Nat /\ q = [ j \in 1..m |-> q[j] ] /\ \A j \in 1..m : q[j] \in Range(q)
    BY <1>1, <1>2, <1>3
  <2> HIDE DEF m
  <2> QED
    BY ONLY <2>1
<1> QED
  BY <1>1, <1>2, <1>4

\* From ffi_call to the end of Environment::invoke.
LEMMA EchoNative ==
  ASSUME EchoInv, PositionsInv, n \in Nat,
         CallNative \/ Libffi \/ CalleeReplaces \/ CalleeReturns \/ ReturnFromNative
  PROVE  EchoInv'
<1>1. outcome = "none" => unms \in Seq(Range(unms))
  BY DEF EchoInv, EchoShape
<1>2. CASE CallNative
  <2>1. /\ pc = "convert" /\ pc' = "native" /\ comParamIndex > n
        /\ UNCHANGED <<call, args, post, unms, retUnm, outcome, replaced>>
    BY <1>2 DEF CallNative, javaVars, convVars, endVars
  <2>2. javaParamIndex \in 0..n /\ javaParamIndex >= n
    <3>1. LoopInv /\ call.retIndex \in -1..n
      BY <2>1, CallFacts DEF PositionsInv, n
    <3> QED
      BY <2>1, <3>1 DEF LoopInv
  <2> QED
    BY <1>1, <2>1, <2>2, EchoQuiet
<1>3. CASE Libffi
  <2>1. /\ pc = "native" /\ pc' = "native"
        /\ UNCHANGED <<call, args, post, unms, retUnm, outcome, replaced>>
    BY <1>3 DEF Libffi, javaVars, convVars, endVars
  <2> QED
    BY <1>1, <2>1, EchoQuiet
<1>4. CASE CalleeReplaces
  <2>1. /\ pc = "native" /\ pc' = "native" /\ replaced' # {}
        /\ UNCHANGED <<call, args, post, retUnm, outcome>>
    BY <1>4 DEF CalleeReplaces, InCallee, javaVars
  <2>2. \E k, x : unms' = [unms EXCEPT ![k] = x]
    BY <1>4 DEF CalleeReplaces, Receive
  <2>3. outcome = "none" => unms' \in Seq(Range(unms'))
    <3>1. PICK k, x : unms' = [unms EXCEPT ![k] = x]
      BY <2>2
    <3> QED
      BY <1>1, <3>1, ExceptRange
  <2> QED
    BY <2>1, <2>3, EchoQuiet
<1>5. CASE CalleeReturns
  <2>1. /\ pc = "native" /\ pc' = "returned"
        /\ UNCHANGED <<call, args, post, retUnm, outcome, replaced>>
    BY <1>5 DEF CalleeReturns, InCallee, javaVars
  <2>2. \/ unms' = unms
        \/ ~call.inout /\ \E x : unms' = [unms EXCEPT ![retUnm] = x]
    BY <1>5 DEF CalleeReturns, Receive
  <2>3. outcome = "none" =>
          /\ unms' \in Seq(Range(unms'))
          /\ \A k \in DOMAIN unms : k \in DOMAIN unms' /\ (k # retUnm \/ call.inout => unms'[k] = unms[k])
    <3>1. CASE unms' = unms
      BY <1>1, <3>1
    <3>2. CASE ~call.inout /\ \E x : unms' = [unms EXCEPT ![retUnm] = x]
      <4>1. PICK x : unms' = [unms EXCEPT ![retUnm] = x]
        BY <3>2
      <4>2. outcome = "none" => /\ unms' \in Seq(Range(unms')) /\ DOMAIN unms' = DOMAIN unms
                                /\ \A k \in DOMAIN unms : k # retUnm => unms'[k] = unms[k]
        BY <1>1, <4>1, ExceptRange
      <4> QED
        BY <3>2, <4>2
    <3> QED
      BY <2>2, <3>1, <3>2
  <2> QED
    BY <2>1, <2>3, EchoQuiet
<1>6. CASE ReturnFromNative
  <2>1. /\ pc = "returned" /\ pc' = "post" /\ (outcome' = "none" => outcome = "none")
        /\ UNCHANGED <<call, args, post, unms, retUnm, replaced>>
    BY <1>6 DEF ReturnFromNative, javaVars, convVars
  <2> QED
    BY <1>1, <2>1, EchoQuiet
<1> QED
  BY <1>2, <1>3, <1>4, <1>5, <1>6

LEMMA EchoEnds ==
  ASSUME EchoInv, EndCall
  PROVE  EchoInv'
<1>1. /\ pc' = "idle" /\ call' = NoCall /\ args' = <<>> /\ post' = <<>> /\ unms' = <<>> /\ retUnm' = 0
  BY DEF EndCall
<1>2. n' = 0 /\ <<>> \in Seq(Range(<<>>))
  BY <1>1 DEF n, NoCall
<1> QED
  BY <1>1, <1>2 DEF EchoInv, EchoShape, EchoFlow

LEMMA EchoDispatch ==
  ASSUME EchoInv, ConvertDispatchArgument \/ InvokeDispatch
  PROVE  EchoInv'
<1>1. /\ pc = "dispatch" /\ pc' \in {"dispatch", "done"} /\ call.via = "dispatch"
      /\ UNCHANGED <<call, args, post, unms>> /\ (outcome' = "none" => outcome = "none")
  <2>1. CASE ConvertDispatchArgument
    BY <2>1 DEF ConvertDispatchArgument, Fault, javaVars, EchoInv, EchoShape
  <2>2. CASE InvokeDispatch
    BY <2>2 DEF InvokeDispatch, javaVars, convVars, EchoInv, EchoShape
  <2> QED
    BY <2>1, <2>2
<1>2. n' = n
  BY <1>1, SameParameters
<1> QED
  BY <1>1, <1>2 DEF EchoInv, EchoShape, EchoFlow

LEMMA EchoStutter ==
  ASSUME EchoInv, UNCHANGED vars
  PROVE  EchoInv'
<1>1. UNCHANGED <<pc, call, step, args, refs, javaParamIndex, post, unms, retUnm, outcome, replaced>>
  BY DEF vars, javaVars, convVars, endVars
<1>2. n' = n /\ \A i : (Echoes(i)' <=> Echoes(i)) /\ Sent(i)' = Sent(i) /\ Carried(i)' = Carried(i)
  BY <1>1, SameParameters
<1>3. HandlersInv' <=> HandlersInv
  BY <1>1, <1>2 DEF HandlersInv, Answered
<1>4. \A i : Back(i)' <=> Back(i)
  BY <1>1, <1>2 DEF Back
<1>5. EchoShape'
  BY <1>1, <1>2 DEF EchoInv, EchoShape
<1>6. EchoFlow'
  BY <1>1, <1>2, <1>3, <1>4 DEF EchoInv, EchoFlow
<1> QED
  BY <1>5, <1>6 DEF EchoInv

LEMMA EchoStep ==
  ASSUME HoldersAreTyped, EchoInv, PositionsInv, [Next]_vars
  PROVE  EchoInv'
<1>1. call \in Calls \cup {NoCall} /\ n \in Nat
  BY CallFacts DEF PositionsInv, n
<1>2. CASE Convert
  <2>1. javaParamIndex \in 0..n /\ javaParamIndex \in Int
    BY <1>1, <1>2, ConvertBegins DEF PositionsInv, LoopInv
  <2>2. CASE NoMoreParameters
    <3>1. /\ pc = "convert" /\ UNCHANGED <<pc, call, args, post, unms, retUnm, javaParamIndex, outcome, replaced>>
      BY <2>2 DEF NoMoreParameters, javaVars, endVars
    <3>2. outcome = "none" => unms \in Seq(Range(unms)) /\ (retUnm \in 0..Len(unms) \/ call.inout)
      BY <3>1 DEF EchoInv, EchoShape
    <3> QED
      BY <1>1, <2>1, <3>1, <3>2, EchoQuiet
  <2> QED
    BY <1>1, <1>2, <2>1, <2>2, EchoReturnBuffer, EchoArgument
<1> QED
  BY <1>1, <1>2, EchoBegin, EchoMessage, EchoNative, EchoRunPostAction, EchoLeaveNative, EchoConvertResult,
     EchoCleanup, EchoEnds, EchoDispatch, EchoStutter DEF Next

(* A by-reference value that the callee leaves alone comes back to its     *)
(* holder as the value it was, for every set of calls whose holders hold   *)
(* what their Java types allow: strings, numbers, VARIANTs, and arrays of  *)
(* any length with one or two dimensions, in any number of parameters.     *)
THEOREM EchoesComeBack ==
  ASSUME HoldersAreTyped
  PROVE  Spec => []EchoComesBack
<1>1. Init => PositionsInv /\ EchoInv
  <2> SUFFICES ASSUME Init PROVE PositionsInv /\ EchoInv
    OBVIOUS
  <2>1. /\ pc = "idle" /\ call = NoCall /\ args = <<>> /\ post = <<>> /\ unms = <<>> /\ retUnm = 0
    BY DEF Init
  <2>2. n = 0 /\ <<>> \in Seq(Range(<<>>))
    BY <2>1 DEF n, NoCall
  <2>3. PositionsInv
    BY DEF Init, PositionsInv
  <2> QED
    BY <2>1, <2>2, <2>3 DEF EchoInv, EchoShape, EchoFlow
<1>2. PassedInv /\ PositionsInv /\ [Next]_vars => PositionsInv'
  BY PositionsStep
<1>3. EchoInv /\ PositionsInv /\ [Next]_vars => EchoInv'
  BY EchoStep
<1>4. EchoInv => EchoComesBack
  BY DEF EchoInv, EchoFlow, EchoComesBack, Back, Echoes
<1> QED
  BY <1>1, <1>2, <1>3, <1>4, CallsKeepFfi, PTL DEF Spec

=============================================================================
