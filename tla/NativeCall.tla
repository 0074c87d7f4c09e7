----------------------------- MODULE NativeCall -----------------------------
(***************************************************************************)
(* One call of a COM method, from StandardComMethod.invoke through         *)
(* Environment::invoke and libffi to the callee and back: how each         *)
(* argument is converted, what is allocated for it, in which order the     *)
(* post actions and the finally block give it back, and what the Java side *)
(* finds in its holders.  invokeDispatch is the other way to call.         *)
(*                                                                         *)
(* `heap' has an entry for everything the call has to give back: how often *)
(* it was freed, and how many Java objects own it (a Wrapper releases its  *)
(* pointer, a com4j.Variant clears itself).  Exactly one of the two must   *)
(* happen, once.  The callee is external; it keeps COM's rules: what it    *)
(* replaces it frees, and it does not free what it was lent.               *)
(***************************************************************************)
EXTENDS FfiCall, Conversions

CONSTANT Calls      \* the calls the Java interfaces make

(* A return index is that of a parameter, or the number of parameters for  *)
(* a buffer behind them, or -1 for a method without a return value.        *)
ASSUME CallsAssumption ==
  \A c \in Calls :
    /\ c.params \in Seq(Range(c.params)) /\ c.retIndex \in -1..Len(c.params)
    /\ c.via \in {"vtable", "dispatch"} /\ c.inout \in BOOLEAN

VARIABLES
  pc,
  call,             \* the call, as the ComMethod describes it
  step,             \* the argument messageParameters or the finally block is at
  args,             \* the Java arguments; a Holder's value changes in place
  refs,             \* per argument: the interface reference behind a raw pointer
  comParamIndex, javaParamIndex, retIndex,
  heap, post,
  passed,           \* what each argument is for libffi, `this' left out
  unms,             \* the unmarshallers, in the order they were created
  retUnm,           \* the one for the return value, 0 if none
  hr, result,
  outcome,          \* "none" or the exception
  replaced,         \* history: the unmarshallers whose value the callee replaced
  stale             \* history: an unmarshaller was used after it was deleted

javaVars == <<call, step, args, refs>>
convVars == <<comParamIndex, javaParamIndex, retIndex, passed, unms, retUnm>>
endVars  == <<hr, result, outcome, replaced, stale>>
vars == <<ffiVars, pc, javaVars, convVars, heap, post, endVars>>

n == Len(call.params)

(* The conversions with a by-ref form that Environment::invoke accepts.    *)
NoByRef == [ c \in {"BSTR_byRef", "INT8_byRef", "INT16_byRef", "INT32_byRef", "INT64_byRef",
                    "VariantBool_byRef", "Float_byRef", "Double_byRef", "ComObject_byRef",
                    "VARIANT_byRef", "PVOID_byRef", "CURRENCY_byRef", "SAFEARRAY_byRef"} |->
  CASE c = "BSTR_byRef" -> "BSTR" [] c = "INT8_byRef" -> "INT8" [] c = "INT16_byRef" -> "INT16"
    [] c = "INT32_byRef" -> "INT32" [] c = "INT64_byRef" -> "INT64"
    [] c = "VariantBool_byRef" -> "VariantBool" [] c = "Float_byRef" -> "Float"
    [] c = "Double_byRef" -> "Double" [] c = "ComObject_byRef" -> "ComObject"
    [] c = "VARIANT_byRef" -> "VARIANT" [] c = "PVOID_byRef" -> "PVOID"
    [] c = "CURRENCY_byRef" -> "CURRENCY" [] c = "SAFEARRAY_byRef" -> "SAFEARRAY" ]
ByRef(c) == c \in DOMAIN NoByRef

(* What a by-value number, truth value, date or pointer is for libffi.     *)
Numbers == [ c \in {"INT8", "INT16", "INT32", "INT64", "ComObject", "DISPATCH", "DATE", "Double",
                    "Float", "Bool", "VariantBool"} |->
  CASE c = "INT8" -> "sint8" [] c = "INT16" -> "sint16" [] c \in {"INT32", "Bool", "VariantBool"} -> "sint32"
    [] c = "INT64" -> "sint64" [] c \in {"ComObject", "DISPATCH"} -> "pointer"
    [] c \in {"DATE", "Double"} -> "double" [] c = "Float" -> "float" ]
NumbersByRef == {"INT8_byRef", "INT16_byRef", "INT32_byRef", "ComObject_byRef", "Double_byRef",
                 "Float_byRef", "VariantBool_byRef"}

(* The conversions a [retval] buffer can have.                             *)
RetConvs == {"BSTR", "ComObject", "DISPATCH", "INT8", "INT16", "INT32", "INT64", "Bool", "VariantBool",
             "Float", "Double", "DATE", "CURRENCY", "GUID", "VARIANT", "SAFEARRAY"}

(* libffi's description of each kind of argument.                          *)
FfiTypeOf(k) ==
  LET T(size, alignment, type) == [size |-> size, alignment |-> alignment, type |-> type]
  IN  CASE k = "pointer" -> T(Word, Word, "SCALAR") [] k = "sint8" -> T(1, 1, "SCALAR")
        [] k = "sint16" -> T(2, 2, "SCALAR")   [] k = "sint32" -> T(4, 4, "SCALAR")
        [] k = "sint64" -> T(8, 8, "SCALAR")   [] k = "double" -> T(8, 8, "SCALAR")
        [] k = "float"  -> T(4, 4, "FLOAT")
        [] k = "variant" -> T(IF abi = "WIN64" THEN 24 ELSE 16, 4, "STRUCT")

IsHolder(a) == a.cls = "Holder"
Held(a) == a.elems[1]
Holder(v) == Boxed("Holder", <<v>>)

(* Allocation: new entries at the end of the heap.                         *)
New(h, kinds) == h \o [ i \in DOMAIN kinds |-> [kind |-> kinds[i], frees |-> 0, owners |-> 0] ]
FreeAll(h, R) == [ r \in DOMAIN h |-> IF r \in R THEN [h[r] EXCEPT !.frees = @ + 1] ELSE h[r] ]
Free(h, r) == FreeAll(h, {r})
Own(h, r)  == IF r = 0 THEN h ELSE [h EXCEPT ![r].owners = @ + 1]

(* What a VARIANT holds that VariantClear has to give back.                *)
HasContent(v) == v.vt \in {"BSTR", "DISPATCH", "ARRAY"}

Unm(kind, self, holds, val) == [kind |-> kind, self |-> self, holds |-> holds, val |-> val]
NoVal == Scalar("EMPTY", <<>>)

\* Mutant: the unmarshaller of a VARIANT clears what Java has a copy of.
DeleteAll(h, u) ==
  Free(IF u.kind \in {"BSTR", "SAFEARRAY", "VARIANT"} THEN Free(h, u.holds) ELSE h, u.self)

(* `delete' of an unmarshaller: two of them free what they hold.           *)
Delete(h, u) ==
  Free(IF u.kind \in {"BSTR", "SAFEARRAY"} THEN Free(h, u.holds) ELSE h, u.self)

(* `unmarshal': the Java value, and for a VARIANT the image that from now  *)
(* on belongs to a com4j.Variant too ("direct copy").                      *)
Unmarshal(u) ==
  CASE u.kind = "VARIANT"   -> Boxed("RawVariant", <<u.val>>)
    [] u.kind = "SAFEARRAY" -> IF u.val = NoVal THEN Null ELSE ArrayToJava(u.val)
    [] OTHER                -> u.val
UnmarshalHeap(h, u) == IF u.kind = "VARIANT" THEN Own(h, u.holds) ELSE h

(* What `unmarshal' reads.                                                 *)
Read(u) == IF u.kind \in {"BSTR", "SAFEARRAY", "VARIANT"} THEN {u.self, u.holds} \ {0} ELSE {u.self}

NoCall == [via |-> "none", params |-> <<>>, retIndex |-> -1, inout |-> FALSE, retConv |-> "Default",
           retSig |-> "Object"]

Init ==
  /\ FfiInit
  /\ pc = "idle" /\ call = NoCall /\ step = 0
  /\ args = <<>> /\ refs = <<>>
  /\ comParamIndex = 0 /\ javaParamIndex = 0 /\ retIndex = -1
  /\ heap = <<>> /\ post = <<>> /\ passed = <<>> /\ unms = <<>> /\ retUnm = 0
  /\ hr = "S_OK" /\ result = Null /\ outcome = "none" /\ replaced = {} /\ stale = FALSE

-----------------------------------------------------------------------------
(* The Java side, before: messageParameters, outside the try block.        *)

AfterMessages == IF call.via = "dispatch" THEN "dispatch" ELSE "convert"

BeginCall(c) ==
  /\ call' = c
  /\ pc' = IF c.params # <<>> THEN "message" ELSE IF c.via = "dispatch" THEN "dispatch" ELSE "convert"
  /\ step' = 1
  /\ args' = [ i \in DOMAIN c.params |-> c.params[i].arg ]
  /\ refs' = [ i \in DOMAIN c.params |-> 0 ]
  /\ retIndex' = c.retIndex
  /\ UNCHANGED <<ffiVars, comParamIndex, javaParamIndex, passed, unms, retUnm, heap, post, endVars>>

(* Whether toNative dereferences a null.                                   *)
NullPointer(conv, a) ==
  \/ conv \in {"GUID", "DATE", "ComObject_byRef"} /\ a = Null

(* An object whose QueryInterface knows IDispatch (see MCNativeCall).      *)
HasDispatch(o) == o.val = <<1>>

(* A pointer taken from a Wrapper is backed by the Wrapper's reference; an *)
(* argument of type IDispatch gets a reference of its own.                 *)
PointerOf(conv, a) ==
  IF conv = "DISPATCH" /\ a.cls = "Com4jObject" /\ HasDispatch(a)
    THEN [kind |-> "dispatch", frees |-> 0, owners |-> 0]
  ELSE [kind |-> "wrapped", frees |-> 0, owners |-> 1]
TakesPointer(conv, a) ==
  \/ conv = "DISPATCH" /\ a.cls = "Com4jObject" /\ HasDispatch(a)
  \/ conv = "ComObject_byRef" /\ IsHolder(a) /\ Held(a) # Null

(* Enums travel as numbers, a date as its number of days, and a pointer of *)
(* an object without IDispatch as 0.  Where arguments are told apart by    *)
(* their class, a pointer is the Long it has become.                       *)
Messaged(conv, a) ==
  CASE conv \in {"ComObject", "DISPATCH"} /\ call.via = "dispatch" ->
         Java("Long", IF a = Null \/ (conv = "DISPATCH" /\ ~HasDispatch(a)) THEN <<0>> ELSE a.val)
    [] conv \in {"VARIANT", "VARIANT_byRef"} /\ a.cls = "ComEnum" -> Java("Integer", a.val)
    [] conv = "VARIANT_byRef" /\ IsHolder(a) /\ Held(a).cls = "ComEnum" -> Holder(Java("Integer", Held(a).val))
    [] conv = "DATE" -> Java("Double", <<FromDate(a.val[1])>>)
    [] conv = "DISPATCH" /\ a.cls = "Com4jObject" /\ ~HasDispatch(a) -> Null
    [] OTHER -> a

MessageParameter ==
  /\ pc = "message"
  /\ LET p == call.params[step]
         a == args[step]
     IN  IF NullPointer(p.conv, a)
         THEN /\ pc' = "done" /\ outcome' = "NullPointerException"
              /\ UNCHANGED <<args, refs, heap, step>>
         ELSE /\ args' = [args EXCEPT ![step] = Messaged(p.conv, a)]
              /\ IF TakesPointer(p.conv, a)
                 THEN /\ heap' = Append(heap, PointerOf(p.conv, a))
                      /\ refs' = [refs EXCEPT ![step] = Len(heap) + 1]
                 ELSE UNCHANGED <<heap, refs>>
              /\ step' = step + 1
              /\ pc' = IF step = n THEN AfterMessages ELSE "message"
              /\ UNCHANGED outcome
  /\ UNCHANGED <<ffiVars, call, convVars, post, hr, result, replaced, stale>>

-----------------------------------------------------------------------------
(* Environment::invoke: the conversion loop.                               *)

(* error(), then `return NULL': the exception is pending, the destructor   *)
(* of Environment runs the post actions.                                   *)
Fail ==
  /\ pc' = "post" /\ outcome' = "ComException"
  /\ UNCHANGED <<passed, comParamIndex, javaParamIndex, retUnm>>

(* A null object or pointer that is used: the process does not survive.    *)
Fault ==
  /\ pc' = "done" /\ outcome' = "crash"
  /\ UNCHANGED <<heap, post, unms, passed, comParamIndex, javaParamIndex, retUnm>>

\* Mutant: the buffer comes one parameter late.
ReturnSlotLate == comParamIndex = retIndex + 1 /\ ~call.inout
ReturnSlot == comParamIndex = retIndex /\ ~call.inout

ReturnBuffer ==
  /\ pc = "convert" /\ comParamIndex <= n /\ ReturnSlot
  /\ \/ /\ call.retConv \in RetConvs
        /\ heap' = New(heap, <<"retUnm">>)
        /\ unms' = Append(unms, Unm(call.retConv, Len(heap) + 1, 0, NoVal))
        /\ retUnm' = Len(unms) + 1
        /\ passed' = Append(passed, "pointer")
        /\ comParamIndex' = comParamIndex + 1
        /\ UNCHANGED <<pc, outcome, javaParamIndex, retIndex>>
     \/ /\ call.retConv = "HRESULT"
        /\ retIndex' = -1
        /\ UNCHANGED <<pc, outcome, heap, unms, passed, comParamIndex, javaParamIndex, retUnm>>
     \/ /\ call.retConv \notin RetConvs \cup {"HRESULT"}
        /\ Fail
        /\ UNCHANGED <<heap, unms, retIndex>>
  /\ UNCHANGED <<ffiVars, javaVars, post, hr, result, replaced, stale>>

(* The last round, when there is no separate return value.                 *)
NoMoreParameters ==
  /\ pc = "convert" /\ comParamIndex <= n /\ ~ReturnSlot /\ javaParamIndex >= n
  /\ comParamIndex' = comParamIndex + 1
  /\ UNCHANGED <<ffiVars, pc, javaVars, javaParamIndex, retIndex, passed, unms, retUnm, heap, post, endVars>>

(* The parameter at hand has conversion c and Java argument `Arg'.         *)
Converting(c) ==
  /\ pc = "convert" /\ comParamIndex <= n /\ ~ReturnSlot /\ javaParamIndex < n
  /\ call.params[javaParamIndex + 1].conv = c
  /\ UNCHANGED <<ffiVars, javaVars, retIndex, hr, result, replaced, stale>>
Arg == args[javaParamIndex + 1]

\* Mutant: the next Java argument is skipped.
PassSkipping(kind, u) ==
  IF comParamIndex = retIndex /\ call.inout /\ u = 0 THEN Fail
  ELSE /\ passed' = Append(passed, kind)
       /\ javaParamIndex' = javaParamIndex + 2
       /\ comParamIndex' = comParamIndex + 1
       /\ retUnm' = IF comParamIndex = retIndex /\ call.inout THEN u ELSE retUnm
       /\ UNCHANGED <<pc, outcome>>

(* The end of a conversion: the argument is in place as a `kind', and an   *)
(* in/out return value takes the unmarshaller u just made.                 *)
Pass(kind, u) ==
  IF comParamIndex = retIndex /\ call.inout /\ u = 0 THEN Fail
  ELSE /\ passed' = Append(passed, kind)
       /\ javaParamIndex' = javaParamIndex + 1
       /\ comParamIndex' = comParamIndex + 1
       /\ retUnm' = IF comParamIndex = retIndex /\ call.inout THEN u ELSE retUnm
       /\ UNCHANGED <<pc, outcome>>

(* A post action frees the entries `res', or runs the OutParamHandler of a *)
(* parameter.  Environment::add puts each in front of the earlier ones.    *)
Act(what, res, unm, param) == [what |-> what, res |-> res, unm |-> unm, param |-> param]
\* Mutant: a queue instead of a stack.
AddedBehind(acts, p) == p \o acts
Added(acts, p) == [ i \in DOMAIN acts |-> acts[Len(acts) + 1 - i] ] \o p
CleanUps(acts) ==
  [ i \in DOMAIN acts |-> Act(acts[i][1], {Len(heap) + k : k \in acts[i][2]}, 0, 0) ]

(* An argument with an entry each for the kinds given; acts says which of  *)
(* them each clean-up gives back.                                          *)
PassWith(kind, kinds, acts) ==
  /\ heap' = New(heap, kinds)
  /\ post' = Added(CleanUps(acts), post)
  /\ UNCHANGED unms
  /\ Pass(kind, 0)

PassPlain(kind) == UNCHANGED <<heap, post, unms>> /\ Pass(kind, 0)

(* A holder's value, in an unmarshaller the OutParamHandler will read.     *)
PassByRef(kind, val, held, acts) ==
  LET h    == New(heap, held)
      self == Len(h) + 1
      u    == Unm(kind, self, IF kind \in {"BSTR", "VARIANT", "SAFEARRAY"} /\ held # <<>> THEN Len(h)
                              ELSE refs[javaParamIndex + 1], val)
  IN  /\ heap' = New(h, <<"unm">>)
      /\ unms' = Append(unms, u)
      /\ post' = Added(Append(CleanUps(acts), Act("OutParam", {}, Len(unms) + 1, javaParamIndex + 1)), post)
      /\ Pass("pointer", Len(unms) + 1)

(* What toBSTR adds, for the string's characters and for its copy.         *)
FreeString == << <<"ReleaseStringChars", {1}>>, <<"BSTRCleanUp", {2}>> >>

ConvertBSTR ==
  /\ Converting("BSTR")
  /\ IF Arg = Null THEN PassPlain("pointer")
     ELSE PassWith("pointer", <<"chars", "bstr">>, FreeString)

ConvertBSTR_byRef ==
  /\ Converting("BSTR_byRef")
  /\ IF Arg = Null THEN PassPlain("pointer")
     ELSE IF Held(Arg) = Null THEN PassByRef("BSTR", Null, <<>>, <<>>)
     ELSE PassByRef("BSTR", Held(Arg), <<"chars", "heldBstr">>, FreeString)

(* toLPCWSTR and toLPCSTR: a copy of the characters.                       *)
ConvertString ==
  /\ Converting("LPCWSTR") \/ Converting("LPCSTR")
  /\ IF Arg = Null THEN PassPlain("pointer")
     ELSE PassWith("pointer", <<"chars", "buffer">>, << <<"ReleaseStringChars", {1}>>, <<"DeleteCleanUp", {2}>> >>)

ConvertNumber ==
  \E c \in DOMAIN Numbers : Converting(c) /\ PassPlain(Numbers[c])

(* PrimitiveUnmarshaller: a missing value is 0.                            *)
ZeroOf == [ c \in NumbersByRef |->
  CASE c = "INT8_byRef" -> Java("Byte", <<0>>) [] c = "INT16_byRef" -> Java("Short", <<0>>)
    [] c = "INT32_byRef" -> Java("Integer", <<0>>) [] c = "Double_byRef" -> Java("Double", <<0>>)
    [] c = "Float_byRef" -> Java("Float", <<0>>) [] c = "VariantBool_byRef" -> Java("Boolean", <<0>>)
    [] c = "ComObject_byRef" -> Null ]
ConvertNumber_byRef ==
  \E c \in NumbersByRef :
    /\ Converting(c)
    /\ IF Arg = Null THEN PassPlain("pointer")
       ELSE PassByRef(c, IF Held(Arg) = Null THEN ZeroOf[c] ELSE Held(Arg), <<>>, <<>>)

ConvertPVOID ==
  /\ Converting("PVOID")
  /\ IF Arg.cls = "DirectBuffer" THEN PassPlain("pointer")
     ELSE Fail /\ UNCHANGED <<heap, post, unms>>

ConvertGUID ==
  /\ Converting("GUID")
  /\ PassWith("pointer", <<"longs">>, << <<"LongArrayCleanUp", {1}>> >>)

ConvertCURRENCY ==
  /\ Converting("CURRENCY")
  /\ PassPlain("sint64")

ConvertCURRENCY_byRef ==
  /\ Converting("CURRENCY_byRef")
  /\ IF Arg = Null THEN PassPlain("pointer")
     ELSE IF Held(Arg) = Null THEN Fault
     ELSE PassByRef("CURRENCY", Held(Arg), <<>>, <<>>)

(* A VARIANT made for the call, with what it holds, if anything.           *)
VariantParts(v) == IF HasContent(v) THEN <<"variant", "content">> ELSE <<"variant">>
\* Mutant: the VARIANT is deleted, not cleared.
DeleteVariant(v) == << <<"VARIANTCleanUp", {1}>> >>
ClearVariant(v) == << <<"VARIANTCleanUp", IF HasContent(v) THEN {1, 2} ELSE {1}>> >>

(* null is vtMissing, shared and never cleaned up.                         *)
ConvertVARIANT ==
  /\ Converting("VARIANT")
  /\ LET v == ConvertToVariant(Arg)
     IN  IF Arg = Null THEN PassPlain("variant")
         ELSE IF v = Faulty THEN Fault
         ELSE IF v = NoVariant THEN Fail /\ UNCHANGED <<heap, post, unms>>
         ELSE PassWith("variant", VariantParts(v), ClearVariant(v))

(* A com4j.Variant passes its own image; a holder's value moves into the   *)
(* unmarshaller; anything else is [in] only.                               *)
ConvertVARIANT_byRef ==
  /\ Converting("VARIANT_byRef")
  /\ LET v == IF IsHolder(Arg) THEN ConvertToVariant(Held(Arg)) ELSE ConvertToVariant(Arg)
     IN  IF Arg = Null THEN PassWith("pointer", <<"variant">>, ClearVariant(NoVal))
         ELSE IF Arg.cls = "Variant" THEN PassPlain("pointer")
         ELSE IF v \in {Faulty, NoVariant} THEN Fault
         ELSE IF IsHolder(Arg) THEN PassByRef("VARIANT", v, IF HasContent(v) THEN <<"content">> ELSE <<>>, <<>>)
         ELSE PassWith("pointer", VariantParts(v), ClearVariant(v))

ConvertSAFEARRAY ==
  /\ Converting("SAFEARRAY")
  /\ LET a == SafeArrayOf(Arg)
     IN  IF Arg = Null \/ a = Faulty THEN Fault
         ELSE IF a = NoVariant THEN Fail /\ UNCHANGED <<heap, post, unms>>
         ELSE PassWith("pointer", <<"sarray">>, << <<"SAFEARRAYCleanUp", {1}>> >>)

ConvertSAFEARRAY_byRef ==
  /\ Converting("SAFEARRAY_byRef")
  /\ IF Arg = Null THEN PassPlain("pointer")
     ELSE IF ~IsHolder(Arg) THEN Fail /\ UNCHANGED <<heap, post, unms>>
     ELSE LET a == IF Held(Arg) = Null THEN NoVal ELSE SafeArrayOf(Held(Arg))
          IN  IF a = Faulty THEN Fault
              ELSE IF a \in {NoVal, NoVariant} THEN PassByRef("SAFEARRAY", NoVal, <<>>, <<>>)
              ELSE PassByRef("SAFEARRAY", a, <<"sarray">>, <<>>)

UnexpectedConversion ==
  /\ \E c \in {"INT64_byRef", "PVOID_byRef"} : Converting(c)
  /\ Fail
  /\ UNCHANGED <<heap, post, unms>>

\* Mutant: the arguments are placed without a new ffi_prep_cif.
CallNativePrepared ==
  /\ pc = "convert" /\ comParamIndex > n
  /\ pc' = "native" /\ fpc' = "place"
  /\ types' = <<FfiTypeOf("pointer")>> \o [ i \in DOMAIN passed |-> FfiTypeOf(passed[i]) ]
  /\ UNCHANGED <<abi, bytes, counted, again, argp, slots, javaVars, convVars, heap, post, endVars>>

(* The loop is over: ffi_prep_cif and ffi_call, with `this' in front.      *)
CallNative ==
  /\ pc = "convert" /\ comParamIndex > n
  /\ pc' = "native"
  /\ FfiPrepare(<<FfiTypeOf("pointer")>> \o [ i \in DOMAIN passed |-> FfiTypeOf(passed[i]) ])
  /\ UNCHANGED <<javaVars, convVars, heap, post, endVars>>

(* The steps of libffi.                                                    *)
Libffi ==
  /\ pc = "native"
  /\ FfiStep
  /\ UNCHANGED <<pc, javaVars, convVars, heap, post, endVars>>

(* What the callee may put in place of a by-ref value, and what it then    *)
(* has allocated for it: a string, an array, a reference, or nothing.      *)
Replacements(u) ==
  CASE u.kind = "BSTR"            -> {<<Null, <<>> >>, <<Java("String", <<9>>), <<"given">> >>}
    [] u.kind = "ComObject_byRef" -> {<<Null, <<>> >>, <<Java("Com4jObject", <<1>>), <<"given">> >>}
    [] u.kind = "VARIANT"         -> {<<Scalar("I4", <<9>>), <<>> >>, <<Scalar("BSTR", <<9>>), <<"given">> >>}
    [] u.kind = "SAFEARRAY"       -> {<<SafeArray("I4", <<1>>, <<9>>, <<>>), <<"given">> >>}
    [] OTHER                      -> {<<Java(u.val.cls, <<9>>), <<>> >>}

(* What it returns through the buffer, which starts out empty.             *)
Returns(u) ==
  CASE u.kind = "BSTR"      -> Replacements(u)
    [] u.kind = "ComObject" -> {<<Null, <<>> >>, <<Java("Com4jObject", <<1>>), <<"given">> >>}
    [] u.kind = "DISPATCH"  -> { <<Null, <<>> >>, <<Java("Com4jObject", <<1>>), <<"given">> >>,
                                 <<Java("Com4jObject", <<2>>), <<"given">> >> }
    [] u.kind = "VARIANT"   -> Replacements(u)
    [] u.kind = "SAFEARRAY" -> Replacements(u)
    [] OTHER                -> {<<Java("Number", <<9>>), <<>> >>}

(* Unmarshaller k receives a value: what it held is freed by the callee.   *)
Receive(k, r) ==
  LET u == unms[k]
      h == Free(heap, u.holds)
  IN  /\ heap' = New(h, r[2])
      /\ unms' = [unms EXCEPT ![k] = Unm(u.kind, u.self, IF r[2] = <<>> THEN 0 ELSE Len(h) + 1, r[1])]

(* The callee, once it has its arguments: it may replace the by-ref values *)
(* one after the other, and writes the return value when it succeeds.      *)
InCallee == pc = "native" /\ fpc = "callee"

CalleeReplaces ==
  /\ InCallee
  /\ \E k \in DOMAIN unms :
       /\ k # retUnm \/ call.inout
       /\ \A j \in replaced : j < k
       /\ \E r \in Replacements(unms[k]) : Receive(k, r)
       /\ replaced' = replaced \cup {k}
  /\ UNCHANGED <<ffiVars, pc, javaVars, comParamIndex, javaParamIndex, retIndex, passed, retUnm, post,
                 hr, result, outcome, stale>>

CalleeReturns ==
  /\ InCallee
  /\ \/ /\ hr' = "E_FAIL" /\ UNCHANGED <<heap, unms>>
     \/ /\ hr' = "S_OK"
        /\ IF retUnm # 0 /\ ~call.inout
             THEN \E r \in Returns(unms[retUnm]) : Receive(retUnm, r)
             ELSE UNCHANGED <<heap, unms>>
  /\ FfiReturn
  /\ pc' = "returned"
  /\ UNCHANGED <<javaVars, comParamIndex, javaParamIndex, retIndex, passed, retUnm, post,
                 result, outcome, replaced, stale>>

-----------------------------------------------------------------------------
(* Environment::invoke: after the call.                                    *)

(* HRESULT asked for; a failure; no return value; a return value.          *)
ReturnFromNative ==
  /\ pc = "returned"
  /\ pc' = "post"
  /\ \/ /\ call.retConv = "HRESULT"
        /\ result' = Java("Integer", IF hr = "S_OK" THEN <<0>> ELSE <<-1>>)
        /\ UNCHANGED <<heap, outcome>>
     \/ /\ call.retConv # "HRESULT" /\ hr # "S_OK"
        /\ outcome' = "ComException"
        /\ heap' = IF retUnm # 0 THEN Delete(heap, unms[retUnm]) ELSE heap
        /\ UNCHANGED result
     \/ /\ call.retConv # "HRESULT" /\ hr = "S_OK"
        /\ IF retUnm = 0 THEN UNCHANGED <<heap, result>>
           ELSE LET u == unms[retUnm]
                    h == UnmarshalHeap(heap, u)
                IN  /\ result' = Unmarshal(u)
                    /\ heap' = IF call.inout THEN h ELSE Delete(h, u)
        /\ UNCHANGED outcome
  /\ UNCHANGED <<ffiVars, javaVars, convVars, post, hr, replaced, stale>>

(* ~Environment: the post action added last runs first.  An OutParam-      *)
(* Handler unmarshals into the holder, and its destructor deletes the      *)
(* unmarshaller.                                                           *)
RunPostAction ==
  /\ pc = "post" /\ post # <<>>
  /\ LET a == Head(post)
     IN  IF a.what = "OutParam"
         THEN LET u == unms[a.unm]
              IN  /\ args' = [args EXCEPT ![a.param] = Holder(Unmarshal(u))]
                  /\ refs' = [refs EXCEPT ![a.param] = u.holds]
                  /\ heap' = Delete(UnmarshalHeap(heap, u), u)
                  /\ stale' = (stale \/ \E r \in Read(u) : heap[r].frees > 0)
         ELSE /\ heap' = FreeAll(heap, a.res)
              /\ UNCHANGED <<args, refs, stale>>
  /\ post' = Tail(post)
  /\ UNCHANGED <<ffiVars, pc, call, step, convVars, hr, result, outcome, replaced>>

LeaveNative ==
  /\ pc = "post" /\ post = <<>>
  /\ pc' = IF outcome = "none" THEN "java" ELSE IF n > 0 THEN "cleanup" ELSE "done"
  /\ step' = 1
  /\ UNCHANGED <<ffiVars, call, args, refs, convVars, heap, post, endVars>>

-----------------------------------------------------------------------------
(* The Java side, after: toJava of the result, and the finally block.      *)

(* NativeType.toJava for a raw value v, whose reference is r: what Java    *)
(* gets, the heap after, and the exception, if any.                        *)
ToJava(conv, sig, v, r) ==
  LET Yields(w, h) == [val |-> w, heap |-> h, thrown |-> "none"]
      Throws(e)    == [val |-> v, heap |-> heap, thrown |-> e]
  IN  CASE conv = "ComObject" /\ v # Null -> Yields(v, Own(heap, r))
        [] conv = "DISPATCH" /\ v # Null ->
             IF HasDispatch(v) THEN Yields(v, Free(heap, r)) ELSE Throws("IllegalArgumentException")
        [] conv = "VARIANT" /\ v.cls = "RawVariant" ->
             LET w == VariantToObject(sig, v.elems[1])
             IN  IF w = Unconvertible THEN Throws("ComException") ELSE Yields(w, heap)
        [] OTHER -> Yields(v, heap)

(* The reference behind the return value: the unmarshaller's.              *)
RetRef == IF retUnm = 0 THEN 0 ELSE unms[retUnm].holds

(* ComObjectUnmarshaller turns NULL into null; LongUnmarshaller, which an  *)
(* in/out value and a holder have, into a Long 0, which no Wrapper takes.  *)
ConvertResult ==
  /\ pc = "java"
  /\ LET t == ToJava(call.retConv, call.retSig, result, RetRef)
         zero == call.inout /\ call.retConv = "ComObject" /\ result = Null
     IN  /\ result' = t.val /\ heap' = t.heap
         /\ outcome' = IF zero THEN "IllegalArgumentException" ELSE t.thrown
  /\ pc' = IF n > 0 THEN "cleanup" ELSE "done"
  /\ UNCHANGED <<ffiVars, javaVars, convVars, post, hr, replaced, stale>>

(* A holder's value becomes a Java object again; a reference that toNative *)
(* acquired is released.  An exception here ends the finally block.        *)
CleanupParameter ==
  /\ pc = "cleanup"
  /\ LET p == call.params[step]
         a == args[step]
         t == IF IsHolder(a) /\ ByRef(p.conv) THEN ToJava(NoByRef[p.conv], p.sig, Held(a), refs[step])
              ELSE [ val |-> a, thrown |-> "none",
                     heap |-> IF p.conv = "DISPATCH" THEN Free(heap, refs[step]) ELSE heap ]
         zero == p.conv = "ComObject_byRef" /\ Held(a) = Null
     IN  /\ heap' = t.heap
         /\ IF zero \/ t.thrown # "none"
            THEN /\ outcome' = IF zero THEN "IllegalArgumentException" ELSE t.thrown
                 /\ pc' = "done"
                 /\ UNCHANGED <<args, step>>
            ELSE /\ args' = IF IsHolder(a) THEN [args EXCEPT ![step] = Holder(t.val)] ELSE args
                 /\ step' = step + 1
                 /\ pc' = IF step = n THEN "done" ELSE "cleanup"
                 /\ UNCHANGED outcome
  /\ UNCHANGED <<ffiVars, call, refs, convVars, post, hr, result, replaced, stale>>

(* The caller has the result; the next call starts from nothing.           *)
EndCall ==
  /\ pc = "done"
  /\ pc' = "idle" /\ call' = NoCall /\ step' = 0
  /\ args' = <<>> /\ refs' = <<>>
  /\ comParamIndex' = 0 /\ javaParamIndex' = 0 /\ retIndex' = -1
  /\ heap' = <<>> /\ post' = <<>> /\ passed' = <<>> /\ unms' = <<>> /\ retUnm' = 0
  /\ hr' = "S_OK" /\ result' = Null /\ outcome' = "none" /\ replaced' = {} /\ stale' = FALSE
  /\ UNCHANGED ffiVars

-----------------------------------------------------------------------------
(* Native.invokeDispatch: every argument becomes a VARIANT by its class,   *)
(* in reverse order; the array of VARIANTs is deleted, not cleared.        *)

ConvertDispatchArgument ==
  /\ pc = "dispatch" /\ javaParamIndex < n
  /\ LET v == ConvertToVariant(Arg)
     IN  IF v = Faulty THEN Fault
         ELSE /\ passed' = <<IF v = NoVariant THEN "vtMissing" ELSE v.vt>> \o passed
              /\ heap' = IF HasContent(v) THEN New(heap, <<"dispatched">>) ELSE heap
              /\ javaParamIndex' = javaParamIndex + 1
              /\ UNCHANGED <<pc, outcome, comParamIndex, retUnm, unms, post>>
  /\ UNCHANGED <<ffiVars, javaVars, retIndex, hr, result, replaced, stale>>

(* IDispatch::Invoke, and Variant.convertTo for the result.                *)
InvokeDispatch ==
  /\ pc = "dispatch" /\ javaParamIndex = n
  /\ \/ hr' = "E_FAIL" /\ outcome' = "ComException" /\ UNCHANGED result
     \/ \E v \in {Scalar("EMPTY", <<>>), Scalar("I4", <<9>>)} :
          LET w == VariantToObject(call.retSig, v)
          IN  /\ hr' = "S_OK"
              /\ result' = IF w = Unconvertible THEN result ELSE w
              /\ outcome' = IF w = Unconvertible THEN "ComException" ELSE outcome
  /\ pc' = "done"
  /\ UNCHANGED <<ffiVars, javaVars, convVars, heap, post, replaced, stale>>

-----------------------------------------------------------------------------

Convert ==
  \/ ReturnBuffer \/ NoMoreParameters
  \/ ConvertBSTR \/ ConvertBSTR_byRef \/ ConvertString
  \/ ConvertNumber \/ ConvertNumber_byRef
  \/ ConvertPVOID \/ ConvertGUID \/ ConvertCURRENCY \/ ConvertCURRENCY_byRef
  \/ ConvertVARIANT \/ ConvertVARIANT_byRef
  \/ ConvertSAFEARRAY \/ ConvertSAFEARRAY_byRef
  \/ UnexpectedConversion

Next ==
  \/ pc = "idle" /\ \E c \in Calls : BeginCall(c)
  \/ MessageParameter
  \/ Convert
  \/ CallNative \/ Libffi
  \/ CalleeReplaces \/ CalleeReturns
  \/ ReturnFromNative \/ RunPostAction \/ LeaveNative
  \/ ConvertResult \/ CleanupParameter \/ EndCall
  \/ ConvertDispatchArgument \/ InvokeDispatch

Spec == Init /\ [][Next]_vars

-----------------------------------------------------------------------------

Kinds == {"pointer", "sint8", "sint16", "sint32", "sint64", "double", "float", "variant"}

TypeOK ==
  /\ FfiTypeOK
  /\ pc \in {"idle", "message", "convert", "native", "returned", "post", "java", "cleanup", "dispatch", "done"}
  /\ call.via \in {"vtable", "dispatch", "none"} /\ call.retIndex \in -1..n
  /\ step \in 0..(n + 1) /\ Len(args) = n /\ Len(refs) = n
  /\ \A i \in 1..n : refs[i] \in 0..Len(heap)
  /\ comParamIndex \in 0..(n + 1) /\ javaParamIndex \in 0..n /\ retIndex \in -1..n
  /\ \A r \in DOMAIN heap : heap[r].frees \in Nat /\ heap[r].owners \in Nat
  /\ retUnm \in 0..Len(unms) /\ replaced \subseteq DOMAIN unms
  /\ \A k \in DOMAIN unms : unms[k].self \in DOMAIN heap /\ unms[k].holds \in 0..Len(heap)
  /\ pc \in {"convert", "native"} => \A i \in DOMAIN passed : passed[i] \in Kinds
  /\ outcome \in {"none", "crash", "ComException", "NullPointerException", "IllegalArgumentException"}

(* What the callee's own declaration says of each of its parameters.       *)
Declared(c) ==
  CASE c \in DOMAIN Numbers -> Numbers[c] [] c = "CURRENCY" -> "sint64" [] c = "VARIANT" -> "variant"
    [] OTHER -> "pointer"
Separate == call.retIndex # -1 /\ ~call.inout /\ call.retConv # "HRESULT"
Signature ==
  LET before == IF Separate THEN call.retIndex ELSE n
      own(i) == Declared(call.params[i].conv)
  IN  [ i \in 1..before |-> own(i) ] \o (IF Separate THEN <<"pointer">> ELSE <<>>)
      \o [ i \in 1..(n - before) |-> own(before + i) ]

(* The callee, compiled against the COM declaration of the method, finds   *)
(* each argument where the calling convention puts it, of the kind it      *)
(* declares, the return buffer at its position among them; this joins the  *)
(* index arithmetic of Environment::invoke with the loops of libffi.       *)
CalleeFindsArguments ==
  InCallee =>
    LET ts == <<FfiTypeOf("pointer")>> \o [ i \in DOMAIN Signature |-> FfiTypeOf(Signature[i]) ]
        large(t) == abi = "WIN64" /\ t.size > 8
    IN  /\ types = ts /\ Len(slots) = Len(ts)
        /\ \A i \in DOMAIN ts :
             /\ slots[i].at = IF i = 1 THEN 0 ELSE slots[i - 1].at + Width(ts[i - 1])
             /\ (slots[i].by = "reference") <=> large(ts[i])

(* The references and strings that the code is known to give back twice:   *)
(* the BSTR of a holder, which has a clean-up of its own and belongs to    *)
(* its unmarshaller; the reference of a wrapper in a holder, which a       *)
(* second wrapper takes over; whatever an in/out return value is about.    *)
OwnedTwice(r) == heap[r].kind \in {"heldBstr", "wrapped"} \/ call.inout

(* Whatever was allocated, acquired or received for a call is given back   *)
(* or owned by one Java object, never twice (invoke.cpp, cleanup.h,        *)
(* unmarshaller.h and the finally block of StandardComMethod).             *)
FreedOnce ==
  \A r \in DOMAIN heap : heap[r].frees + heap[r].owners > 1 => OwnedTwice(r)

(* A call that returns, or that the callee fails, leaves nothing behind,   *)
(* if the finally block gets to its end (invokeDispatch has none: it       *)
(* leaves what its VARIANTs hold, and references to IDispatch).  One that  *)
(* an exception of com4j's own ends leaves less than it might: the         *)
(* unmarshaller of the return value after error(), references after an     *)
(* exception in messageParameters or in the finally block; what was made   *)
(* for the arguments goes back from wherever the conversion loop stopped.  *)
Left == {heap[r].kind : r \in {k \in DOMAIN heap : heap[k].frees + heap[k].owners = 0}}
NothingLeaks ==
  /\ pc = "done" /\ (outcome = "none" \/ (outcome = "ComException" /\ hr = "E_FAIL" /\ step > n)) =>
       Left \subseteq IF call.via = "dispatch" THEN {"dispatched", "dispatch"} ELSE {}
  /\ pc = "done" /\ outcome # "crash" => Left \subseteq {"dispatched", "retUnm", "dispatch", "given"}

(* No unmarshaller is read after it, or what it holds, was freed, except   *)
(* the one of an in/out return value whose call failed: invoke.cpp:565     *)
(* deletes it and its OutParamHandler still runs.                          *)
NoUseAfterFree == stale => call.inout /\ hr = "E_FAIL"

(* What an untouched value becomes on its way through a VARIANT and back.  *)
(* A row of a two-dimensional array comes back as an array of its own.     *)
RowArrays(o) ==
  IF Nested(o) THEN Boxed("Object[]", [ i \in DOMAIN o.elems |-> Boxed("Object[]", o.elems[i].elems) ])
  ELSE IF o.cls = "Variant[]" THEN Boxed("Object[]", [ i \in DOMAIN o.elems |-> o.elems[i].elems[1] ])
  ELSE o
SameValue(conv, o) ==
  CASE o = Null /\ conv \in NumbersByRef -> ZeroOf[conv]
    [] o.cls = "ComEnum" -> Java("Integer", o.val)
    [] o.cls = "Variant" -> o.elems[1]
    [] OTHER -> RowArrays(o)

(* Values the conversions do not keep: a date before 30 December 1899,     *)
(* which loses its time of day or, at midnight, goes back a day, and the   *)
(* tail of a row longer than the first.                                    *)
Kept(o) ==
  /\ o.cls = "Date" => o.val[1] >= 0
  /\ Nested(o) => \A i \in DOMAIN o.elems : Len(o.elems[i].elems) = Len(o.elems[1].elems)

(* What is in the holders of a call that keeps to its Java interface, as   *)
(* far as the round trip is about it: an object of a class with an entry   *)
(* in the table, an array of them with one or two dimensions, an array of  *)
(* primitives, null, or what has no VARIANT at all.                        *)
Scalars == {setters[k].cls : k \in DOMAIN setters} \ {"Variant", "ComEnum"}
Plain(o) ==
  /\ o = Java(o.cls, o.val) /\ o.cls \in Scalars
  /\ o.cls = "Date" => o.val = <<o.val[1]>> /\ o.val[1] \in Int
Item(o) == Plain(o) /\ Kept(o)
Items(elems) == elems \in Seq(Range(elems)) /\ \A i \in DOMAIN elems : Item(elems[i])
Array(o) ==
  \/ o.cls \in DOMAIN ElementType /\ o = Java(o.cls, o.val)
  \/ o = Boxed("Object[]", o.elems) /\ Items(o.elems)
  \/ /\ o.cls \in {"Variant[]", "Object[][]"} /\ o = Boxed(o.cls, o.elems) /\ o.elems \in Seq(Range(o.elems))
     /\ LET inner == IF Nested(o) THEN "Object[]" ELSE "Variant"
        IN  \A i \in DOMAIN o.elems :
              LET e == o.elems[i] IN e = Boxed(inner, e.elems) /\ Items(e.elems) /\ (Nested(o) \/ Len(e.elems) = 1)
HeldValue(conv, o) ==
  CASE conv = "SAFEARRAY_byRef" -> o = Null \/ Array(o)
    [] conv = "VARIANT_byRef"   ->
         \/ o = Null \/ Plain(o) \/ Array(o) \/ o = Java("ComEnum", o.val)
         \/ o = Boxed("Variant", o.elems) /\ Items(o.elems) /\ Len(o.elems) = 1
         \/ ConvertToVariant(o) = NoVariant
    [] OTHER -> o = Null \/ Plain(o)
HoldersAreTyped ==
  \A c \in Calls : \A i \in DOMAIN c.params :
    LET p == c.params[i] IN
    IsHolder(p.arg) /\ p.sig = "Object" /\ ByRef(p.conv) => HeldValue(p.conv, Held(p.arg))

(* A by-reference value that the callee leaves alone comes back to a       *)
(* holder of objects as the value it was: for strings, numbers, VARIANTs   *)
(* of every class with an entry in the table, and arrays of one and two    *)
(* dimensions.                                                             *)
EchoComesBack ==
  pc = "done" /\ outcome = "none" /\ replaced = {} /\ call.via = "vtable" =>
    \A i \in 1..n :
      LET p == call.params[i] IN
      IsHolder(p.arg) /\ p.sig = "Object" /\ ByRef(p.conv) /\ Kept(Held(p.arg)) =>
        Held(args[i]) = SameValue(p.conv, Held(p.arg))

=============================================================================
