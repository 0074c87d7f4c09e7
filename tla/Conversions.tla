---------------------------- MODULE Conversions ----------------------------
(***************************************************************************)
(* How a Java value becomes a VARIANT or a SAFEARRAY and how it becomes a  *)
(* Java value again: the tables of variant.cpp and safearray.cpp and the   *)
(* loops of safearray.h, as operators.  NativeCall applies them to what a  *)
(* call passes; what the round trip gives is EchoComesBack there.          *)
(*                                                                         *)
(* A Java value is its class with what the class holds: `val', integers    *)
(* that stand for the scalar or the elements of a primitive array, or      *)
(* `elems', the Java values inside an array, a Holder or a com4j.Variant.  *)
(***************************************************************************)
EXTENDS Integers, Sequences, Functions

Java(cls, val)    == [cls |-> cls, val |-> val, elems |-> <<>>]
Boxed(cls, elems) == [cls |-> cls, val |-> <<>>, elems |-> elems]
Null == Java("null", <<>>)

(* A VARIANT; `elem', `bounds' and the elements describe its SAFEARRAY.    *)
Scalar(vt, val) == [vt |-> vt, val |-> val, elem |-> "NONE", bounds |-> <<>>, data |-> <<>>]
SafeArray(elem, bounds, val, data) ==
  [vt |-> "ARRAY", val |-> val, elem |-> elem, bounds |-> bounds, data |-> data]

(* convertToVariant returned NULL; an operand that JNI or the heap cannot  *)
(* stand (a null object, a NULL result that is read, a row that is short). *)
NoVariant == Scalar("NULL_POINTER", <<>>)
Faulty    == Scalar("FAULT", <<>>)
(* variantToObject returned -1, or ChangeType refused.                     *)
Unconvertible == Java("Unconvertible", <<>>)

-----------------------------------------------------------------------------

(* One table for both directions.  `cls' is matched from Java, in order;   *)
(* `vt' to Java, in order; `as' is the type the handler reads and writes.  *)
Entry(cls, vt, as) == [cls |-> cls, vt |-> vt, as |-> as]
setters == <<
  Entry("Boolean",    "BOOL",     "BOOL"),
  Entry("String",     "BSTR",     "BSTR"),
  Entry("Float",      "R4",       "R4"),
  Entry("Double",     "R8",       "R8"),
  Entry("Byte",       "I1",       "I1"),
  Entry("Short",      "I2",       "I2"),
  Entry("Integer",    "I4",       "I4"),
  Entry("Long",       "I8",       "I8"),
  Entry("Long",       "INT",      "INT"),
  Entry("Date",       "DATE",     "DATE"),
  Entry("BigDecimal", "DECIMAL",  "DECIMAL"),
  Entry("Com4jObject","DISPATCH", "DISPATCH"),
  Entry("Com4jObject","UNKNOWN",  "DISPATCH"),
  Entry("Variant",    "-1",       "NOOP"),
  Entry("ComEnum",    "-1",       "ENUM"),
  Entry("Short",      "UI1",      "I2"),
  Entry("Integer",    "UI2",      "I4"),
  Entry("Long",       "UI4",      "I8"),
  Entry("BigInteger", "UI8",      "UI8") >>

OfClass(cls) == {k \in DOMAIN setters : setters[k].cls = cls}
OfType(vt)   == {k \in DOMAIN setters : setters[k].vt = vt}
FirstOf(S) == setters[CHOOSE k \in S : \A j \in S : k <= j]

(* The scalar class that a type is read back as: the class of its xducer.  *)
ClassOf(as) == FirstOf(OfType(as)).cls

Numeric == {"BOOL", "R4", "R8", "I1", "I2", "I4", "I8", "INT", "DECIMAL", "UI1", "UI2", "UI4", "UI8"}

(* VariantChangeType, of Windows: numbers become one another, text that is *)
(* no number does not, and an interface pointer is only itself.            *)
Changes(from, to) ==
  \/ from = to
  \/ from \in Numeric /\ to \in Numeric
  \/ from \in {"DISPATCH", "UNKNOWN"} /\ to \in {"DISPATCH", "UNKNOWN"}

(* com4j.Variant keeps a date as days since 30 December 1899; here time    *)
(* goes in quarters of a day.  Java's % takes the sign of its left side.   *)
FromDate(t) == IF t < 0 THEN LET offset == (-t) % 4 IN t - 4 + offset ELSE t
(* Days, hours, minutes and seconds are truncated and added separately,    *)
(* all with the sign of d.                                                 *)
ToDate(d) == d

(* The element types of the arrays with an entry of their own.             *)
ElementType ==
  [ c \in {"boolean[]", "byte[]", "char[]", "double[]", "float[]", "int[]", "long[]", "short[]",
           "String[]"} |->
    CASE c = "boolean[]" -> "BOOL" [] c = "byte[]"  -> "UI1" [] c = "char[]" -> "UI2"
      [] c = "double[]"  -> "R8"   [] c = "float[]" -> "R4"  [] c = "int[]"  -> "I4"
      [] c = "long[]"    -> "I8"   [] c = "short[]" -> "I2"  [] c = "String[]" -> "BSTR" ]

ObjectArrays == {"Object[]", "Variant[]"}

-----------------------------------------------------------------------------

(* SafeArrayXducer::toNative2: an entry of the table by the exact class,   *)
(* else any array of objects as an array of VARIANTs, whose dimensions are *)
(* counted and measured along the first elements: bounds[0] is the         *)
(* innermost.  An array of primitive arrays has one dimension.             *)
Rows(a) == a.elems
Nested(a) == a.cls = "Object[][]"
ToSafeArray(a, item) ==
  LET inner == IF Nested(a) /\ Len(Rows(a)) > 0 THEN Len(Rows(a)[1].elems) ELSE 0
      cells == IF Nested(a)
               THEN [ k \in 1..(inner * Len(Rows(a))) |->
                        LET row == Rows(a)[((k - 1) \div inner) + 1].elems
                            col == ((k - 1) % inner) + 1
                        IN  IF col \in DOMAIN row THEN item[row[col]] ELSE Faulty ]
               ELSE [ k \in DOMAIN a.elems |-> item[a.elems[k]] ]
  IN  IF a.cls \in DOMAIN ElementType
        THEN SafeArray(ElementType[a.cls], <<Len(a.val)>>, a.val, <<>>)
      ELSE IF a.cls \notin ObjectArrays \cup {"Object[][]", "int[][]"} THEN NoVariant
      ELSE IF \E k \in DOMAIN cells : cells[k] \in {NoVariant, Faulty} THEN Faulty
      ELSE SafeArray("VARIANT",
                     IF Nested(a) /\ Len(Rows(a)) > 0 THEN <<inner, Len(Rows(a))>> ELSE <<Len(a.elems)>>,
                     <<>>, cells)

(* convertToVariant: the first setter whose class fits, else an array.     *)
(* A COM object is asked for IDispatch, and the type is VT_DISPATCH        *)
(* whether it has it or not.                                               *)
ConvertWith(o, item) ==
  LET S == OfClass(o.cls)
  IN  IF o = Null THEN Faulty
      ELSE IF S = {} THEN ToSafeArray(o, item)
      ELSE LET as == FirstOf(S).as
           IN  CASE as = "NOOP" -> IF o.elems = <<>> THEN Scalar("EMPTY", <<>>) ELSE item[o.elems[1]]
                 [] as = "ENUM" -> Scalar("I4", o.val)
                 [] as = "DATE" -> Scalar("DATE", <<FromDate(o.val[1])>>)
                 [] OTHER       -> Scalar(as, o.val)

(* What is inside is converted first: `item' gives the VARIANT of each     *)
(* part.  The nesting the models use is three levels deep.                 *)
Parts(o) == LET inside == Range(o.elems) IN inside \cup UNION {Range(e.elems) : e \in inside}
Convert0(o) == ConvertWith(o, [e \in Parts(o) |-> NoVariant])
Convert1(o) == ConvertWith(o, [e \in Parts(o) |-> Convert0(e)])
ConvertToVariant(o) == ConvertWith(o, [e \in Parts(o) |-> Convert1(e)])

-----------------------------------------------------------------------------

\* Mutant: the bounds of the two dimensions change places.
ToJavaArraySwapped(v, item) ==
  LET row(i, n) == [ j \in 1..n |-> item[v.data[(i - 1) * n + j]] ]
  IN  IF v.elem # "VARIANT"
        THEN Java(CHOOSE c \in DOMAIN ElementType : ElementType[c] = v.elem, v.val)
      ELSE IF Len(v.bounds) = 1 THEN Boxed("Object[]", row(1, v.bounds[1]))
      ELSE Boxed("Object[]", [ i \in 1..v.bounds[1] |-> Boxed("Object[]", row(i, v.bounds[2])) ])

(* SafeArrayXducer::toJava: by the features, else by the element type; the *)
(* outer loop runs over the last dimension.                                *)
ToJavaArray(v, item) ==
  LET row(i, n) == [ j \in 1..n |-> item[v.data[(i - 1) * n + j]] ]
  IN  IF v.elem # "VARIANT"
        THEN Java(CHOOSE c \in DOMAIN ElementType : ElementType[c] = v.elem, v.val)
      ELSE IF Len(v.bounds) = 1 THEN Boxed("Object[]", row(1, v.bounds[1]))
      ELSE Boxed("Object[]", [ i \in 1..v.bounds[2] |-> Boxed("Object[]", row(i, v.bounds[1])) ])

(* A handler changes a copy of the VARIANT to its own type and reads that. *)
Get(e, v, item) ==
  IF e.as = "NOOP" THEN Boxed("Variant", <<item[v]>>)
  ELSE LET as == IF e.as = "ENUM" THEN "I4" ELSE e.as
       IN  IF ~Changes(v.vt, as) THEN Unconvertible
           ELSE IF as = "DATE" THEN Java("Date", <<ToDate(v.val[1])>>)
           ELSE IF e.as = "ENUM" THEN Java("ComEnum", v.val)
           ELSE Java(ClassOf(as), v.val)

(* variantToObject: driven by the class asked for, then by the type found. *)
VariantWith(ret, v, item) ==
  LET byClass == OfClass(ret)
      byType  == OfType(v.vt)
  IN  IF v.vt \in {"ERROR", "EMPTY", "NULL"} THEN Null
      ELSE IF byClass # {} THEN Get(FirstOf(byClass), v, item)
      ELSE IF byType # {} THEN Get(FirstOf(byType), v, item)
      ELSE IF v.vt = "ARRAY" THEN ToJavaArray(v, item)
      ELSE Unconvertible

Inside(v)  == Range(v.data) \cup {v}
Object0(v) == VariantWith("Object", v, [e \in Inside(v) |-> Unconvertible])
Object1(v) == VariantWith("Object", v, [e \in Inside(v) |-> Object0(e)])
VariantToObject(ret, v) == VariantWith(ret, v, [e \in Inside(v) |-> Object1(e)])

(* What an array parameter's SAFEARRAY becomes.                            *)
SafeArrayOf(o) == ToSafeArray(o, [e \in Parts(o) |-> Convert1(e)])
ArrayToJava(v) == ToJavaArray(v, [e \in Range(v.data) |-> Object1(e)])

=============================================================================
