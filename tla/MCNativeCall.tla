---------------------------- MODULE MCNativeCall ----------------------------
(* Calls of up to two parameters: every conversion with every class of     *)
(* argument it takes, and return values of every kind in every position.   *)
EXTENDS NativeCall

CONSTANT Pairs    \* the second parameter of the calls with two

I == Java("Integer", <<5>>)
S == Java("String", <<7>>)
Obj(k) == Java("Com4jObject", <<k>>)      \* 1 knows IDispatch, 2 does not
Ints == Java("int[]", <<3, 4>>)
Row(s) == Boxed("Object[]", s)
Grid == Boxed("Object[][]", << Row(<<I, S>>), Row(<<S, I>>), Row(<<I, I>>) >>)
LongRow == Boxed("Object[][]", << Row(<<I>>), Row(<<S, I>>) >>)
ShortRow == Boxed("Object[][]", << Row(<<I, S>>), Row(<<I>>) >>)
Variants == Boxed("Variant[]", << Boxed("Variant", <<I>>), Boxed("Variant", <<S>>) >>)
Thread == Java("Thread", <<1>>)

Values == { I, S, Java("Boolean", <<1>>), Java("Short", <<5>>), Java("Long", <<5>>), Java("Double", <<5>>),
            Java("Date", <<-4>>), Java("Date", <<-1>>), Java("Date", <<6>>), Java("ComEnum", <<5>>), Obj(1), Obj(2),
            Boxed("Variant", <<S>>), Ints, Row(<<I, S>>), Grid, LongRow, ShortRow, Variants, Thread }
Few == {I, S, Grid, Obj(1)}

P(conv, arg, sig) == [conv |-> conv, arg |-> arg, sig |-> sig]
In(conv, A) == { P(conv, a, "Object") : a \in A }
InOut(conv, A) == { P(conv, Holder(a), "Object") : a \in A } \cup {P(conv, Null, "Object")}

ByValue ==
  UNION { In("BSTR", {Null, S}), In("LPCWSTR", {Null, S}), In("LPCSTR", {S}), In("INT8", {Java("Byte", <<5>>)}),
          In("INT16", {Java("Short", <<5>>)}), In("INT32", {I}), In("INT64", {Java("Long", <<5>>)}),
          In("Bool", {Java("Boolean", <<1>>)}), In("VariantBool", {Java("Boolean", <<1>>)}),
          In("Float", {Java("Float", <<5>>)}), In("Double", {Java("Double", <<5>>)}),
          In("DATE", {Null, Java("Date", <<6>>)}), In("CURRENCY", {Null, Java("BigDecimal", <<5>>)}),
          In("GUID", {Null, Java("GUID", <<5>>)}), In("ComObject", {Null, Obj(1)}),
          In("DISPATCH", {Null, Obj(1), Obj(2)}), In("PVOID", {Null, Java("DirectBuffer", <<1>>)}),
          In("VARIANT", Values \cup {Null}), In("SAFEARRAY", {Null, Ints, Grid, ShortRow, Variants, S}) }

ByReference ==
  UNION { InOut("BSTR_byRef", {Null, S}), InOut("INT8_byRef", {Null, Java("Byte", <<5>>)}),
          InOut("INT16_byRef", {Null, Java("Short", <<5>>)}), InOut("INT32_byRef", {Null, I}),
          InOut("VariantBool_byRef", {Java("Boolean", <<1>>)}), InOut("Float_byRef", {Java("Float", <<5>>)}),
          InOut("Double_byRef", {Java("Double", <<5>>)}), InOut("ComObject_byRef", {Null, Obj(1)}),
          InOut("CURRENCY_byRef", {Null, Java("BigDecimal", <<5>>)}),
          InOut("INT64_byRef", {Java("Long", <<5>>)}), InOut("PVOID_byRef", {Null}),
          InOut("VARIANT_byRef", Values \cup {Null}), In("VARIANT_byRef", Values),
          InOut("SAFEARRAY_byRef", {Null, Ints, Grid, LongRow, Variants}), In("SAFEARRAY_byRef", {Ints}) }

(* ComMethod gives a void method no return index, and every other one an   *)
(* index, the methods that return their HRESULT included.                  *)
C(ps, index, conv) ==
  [via |-> "vtable", params |-> ps, retIndex |-> index, inout |-> FALSE, retConv |-> conv, retSig |-> "Object"]
InPlace(p) == [C(<<p>>, 0, NoByRef[p.conv]) EXCEPT !.inout = TRUE]

One ==
  { C(<<p>>, k[1], k[2]) : p \in ByValue \cup ByReference,
    k \in {<<1, "HRESULT">>, <<-1, "Default">>, <<0, "BSTR">>, <<0, "GUID">>, <<1, "VARIANT">>, <<1, "INT32">>} }
Returning == { C(ps, 0, conv) : ps \in {<<>>}, conv \in RetConvs \cup {"PVOID", "HRESULT"} }
ReturnInPlace == { InPlace(p) : p \in ByReference }
Fragile ==      \* the finally block fails at the first parameter
  { C(<<P("VARIANT_byRef", Holder(a), "Float"), P("DISPATCH", Obj(1), "Object")>>, 2, "HRESULT") : a \in {I, S} }
Two ==
  UNION { { C(<<p, q>>, k[1], k[2]), C(<<q, p>>, k[1], k[2]) } :
    p \in ByReference \cup UNION { In("VARIANT", Few), In("BSTR", {S}), In("DISPATCH", {Obj(1)}) }, q \in Pairs,
    k \in {<<2, "HRESULT">>, <<-1, "Default">>, <<1, "DISPATCH">>, <<2, "PVOID">>, <<0, "SAFEARRAY">>} }
Dispatched ==
  { [C(ps, -1, "VARIANT") EXCEPT !.via = "dispatch", !.retSig = sig] :
      ps \in { <<P("VARIANT", a, "Object")>> : a \in Values } \cup { <<P("VARIANT", a, "Object"), P("VARIANT", S, "Object")>> : a \in Few }
        \cup { <<P(conv, a, "Object")>> : conv \in {"ComObject", "DISPATCH"}, a \in {Null, Obj(1), Obj(2)} },
      sig \in {"Object", "String", "Integer"} }

MCPairs ==
  UNION { In("INT8", {Java("Byte", <<5>>)}), In("DATE", {Null, Java("Date", <<6>>)}), In("VARIANT", {S}),
          InOut("BSTR_byRef", {S}), InOut("ComObject_byRef", {Null, Obj(1)}), InOut("VARIANT_byRef", {I}) }
MCCalls == One \cup Returning \cup ReturnInPlace \cup Two \cup Fragile \cup Dispatched

(* What the theorem about EchoComesBack assumes of the calls.              *)
ASSUME HoldersAssumption == HoldersAreTyped
=============================================================================
