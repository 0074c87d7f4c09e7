--------------------------- MODULE TypeLibProofs ---------------------------
(* Theorems about TypeLib, for any type libraries, type infos and bounds.   *)
(* A call of Java makes several objects and takes several references, so    *)
(* the lemmas are about worlds: what each helper does to an obj and a       *)
(* libraries, whatever references are outstanding.                          *)
EXTENDS TypeLib, FiniteSetTheorems, TLAPS

Kinds == Members \cup {"lib", "decl", "ptr", "deleted"}

Objects ==
  [kind : Kinds, parent : Int, key : ITypeInfo \cup ITypeLib \cup {NoInfo}, refs : Nat,
   children : [ITypeInfo -> Nat] \cup {<<>>}]

Worlds == [obj : Seq(Objects), libraries : [ITypeLib -> Nat]]

Alive(w) == {o \in DOMAIN w.obj : w.obj[o].kind # "deleted"}
ReferrersIn(w, o) == {p \in Alive(w) : w.obj[p].parent = o}
Dying(w) == {o \in Alive(w) : w.obj[o].refs = 0}

\* The references Java has: how many to each place.
Tallies == [Nat -> Nat]
Plus(h, o)  == [x \in Nat |-> IF x = o /\ o > 0 THEN h[x] + 1 ELSE h[x]]

\* Parents outlive their parts, and are of the right kind.
ParentsOK(w) ==
  \A o \in DOMAIN w.obj :
    /\ w.obj[o].parent \in {-1, 0} \cup Alive(w)
    /\ w.obj[o].kind \in {"lib", "deleted"} => w.obj[o].parent = 0
    /\ w.obj[o].kind = "deleted" => w.obj[o].refs = 0
    /\ w.obj[o].kind = "decl" =>
         /\ w.obj[o].key \in ITypeInfo
         /\ w.obj[o].parent \in Alive(w)
         /\ w.obj[w.obj[o].parent].kind = "lib"
         /\ w.obj[w.obj[o].parent].key = LibOf[w.obj[o].key]

\* The caches name what exists, and all of it.
LibrariesOK(w) ==
  /\ \A o \in DOMAIN w.obj : w.obj[o].kind = "lib" =>
       w.obj[o].key \in ITypeLib /\ w.libraries[w.obj[o].key] = o
  /\ \A l \in ITypeLib : w.libraries[l] # 0 =>
       /\ w.libraries[l] \in DOMAIN w.obj
       /\ w.obj[w.libraries[l]].kind = "lib" /\ w.obj[w.libraries[l]].key = l

ChildrenOK(w) ==
  /\ \A o \in DOMAIN w.obj : w.obj[o].kind = "decl" =>
       w.obj[w.obj[o].parent].children[w.obj[o].key] = o
  /\ \A o \in DOMAIN w.obj : w.obj[o].kind = "lib" =>
       /\ w.obj[o].children \in [ITypeInfo -> Nat]
       /\ \A i \in ITypeInfo, c \in Nat \ {0} : w.obj[o].children[i] = c =>
            /\ c \in DOMAIN w.obj /\ w.obj[c].kind = "decl"
            /\ w.obj[c].key = i /\ w.obj[c].parent = o

Shape(w) == w \in Worlds /\ ParentsOK(w) /\ LibrariesOK(w) /\ ChildrenOK(w)

\* Who counts on an object, Java with h among them, is counted.
Counted(w, h) ==
  /\ \A o \in DOMAIN w.obj :
       /\ w.obj[o].refs >= h[o] + Cardinality(ReferrersIn(w, o))
       /\ w.obj[o].kind \in Members =>
            w.obj[o].refs = h[o] + Cardinality(ReferrersIn(w, o))
  /\ \A o \in Nat \ DOMAIN w.obj : h[o] = 0

-----------------------------------------------------------------------------
(* What AddRef, Drop and Make do to each object.                           *)

LEMMA WorldFacts ==
  ASSUME NEW w \in Worlds
  PROVE  /\ Len(w.obj) \in Nat /\ DOMAIN w.obj = 1 .. Len(w.obj)
         /\ \A o \in DOMAIN w.obj : w.obj[o] \in Objects /\ o \in Nat /\ o > 0
         /\ w.libraries \in [ITypeLib -> Nat]
         /\ w = [obj |-> w.obj, libraries |-> w.libraries]
BY DEF Worlds

\* The objects of v are those of w, but that the references to o are n.
OnlyRefs(w, v, o, n) ==
  /\ v \in Worlds
  /\ v.libraries = w.libraries
  /\ Len(v.obj) = Len(w.obj) /\ DOMAIN v.obj = DOMAIN w.obj
  /\ \A p \in DOMAIN w.obj :
       /\ v.obj[p].kind = w.obj[p].kind /\ v.obj[p].parent = w.obj[p].parent
       /\ v.obj[p].key = w.obj[p].key /\ v.obj[p].children = w.obj[p].children
       /\ v.obj[p].refs = IF p = o THEN n ELSE w.obj[p].refs

LEMMA RefsChange ==
  ASSUME NEW w \in Worlds, NEW o \in DOMAIN w.obj, NEW n \in Nat,
         NEW v, v = [w EXCEPT !.obj[o].refs = n]
  PROVE  OnlyRefs(w, v, o, n)
<1>1. v = [w EXCEPT !.obj = [w.obj EXCEPT ![o] = [w.obj[o] EXCEPT !.refs = n]]]
  OBVIOUS
<1>2. [w.obj[o] EXCEPT !.refs = n] \in Objects
  <2>1. w.obj[o] \in Objects
    BY WorldFacts
  <2> QED
    BY <2>1 DEF Objects
<1>3. [w.obj EXCEPT ![o] = [w.obj[o] EXCEPT !.refs = n]] \in Seq(Objects)
  BY <1>2 DEF Worlds
<1>4. /\ v.obj = [w.obj EXCEPT ![o] = [w.obj[o] EXCEPT !.refs = n]]
      /\ v.libraries = w.libraries
      /\ v \in Worlds
  BY <1>1, <1>3 DEF Worlds
<1>5. DOMAIN v.obj = DOMAIN w.obj
  BY <1>4
<1>6. Len(v.obj) = Len(w.obj)
  BY <1>3, <1>4, <1>5, WorldFacts
<1>7. v.obj[o] = [w.obj[o] EXCEPT !.refs = n] /\ \A p \in DOMAIN w.obj \ {o} : v.obj[p] = w.obj[p]
  BY <1>4
<1> QED
  BY <1>2, <1>4, <1>5, <1>6, <1>7, WorldFacts DEF OnlyRefs, Objects

LEMMA AddRefFacts ==
  ASSUME NEW w \in Worlds, NEW o \in DOMAIN w.obj
  PROVE  OnlyRefs(w, AddRef(w, o), o, w.obj[o].refs + 1)
<1>1. AddRef(w, o) = [w EXCEPT !.obj[o].refs = w.obj[o].refs + 1]
  BY WorldFacts DEF AddRef
<1>2. w.obj[o].refs + 1 \in Nat
  BY WorldFacts DEF Objects
<1> QED
  BY <1>1, <1>2, RefsChange

LEMMA DropFacts ==
  ASSUME NEW w \in Worlds, NEW o \in DOMAIN w.obj, w.obj[o].refs > 0
  PROVE  OnlyRefs(w, Drop(w, o), o, w.obj[o].refs - 1)
<1>1. Drop(w, o) = [w EXCEPT !.obj[o].refs = w.obj[o].refs - 1]
  BY WorldFacts DEF Drop
<1>2. w.obj[o].refs - 1 \in Nat
  BY WorldFacts DEF Objects
<1> QED
  BY <1>1, <1>2, RefsChange

\* An object x has been made at n; its parent has a reference more.
Made(w, v, n, x) ==
  /\ v \in Worlds
  /\ n \in Nat \ {0} /\ n \notin Alive(w) /\ DOMAIN v.obj = DOMAIN w.obj \cup {n}
  /\ v.obj[n] = x
  /\ \A p \in DOMAIN w.obj \ {n} :
       /\ v.obj[p].kind = w.obj[p].kind /\ v.obj[p].parent = w.obj[p].parent
       /\ v.obj[p].key = w.obj[p].key
       /\ v.obj[p].refs = w.obj[p].refs + (IF p = x.parent THEN 1 ELSE 0)

LEMMA MakeFacts ==
  ASSUME NEW w \in Worlds, NEW x \in Objects, x.parent \in {-1, 0} \cup Alive(w)
  PROVE  /\ Made(w, Make(w, x), Next1(w), x)
         /\ Make(w, x).libraries = w.libraries
         /\ \A p \in DOMAIN w.obj \ {Next1(w)} :
              Make(w, x).obj[p].children = w.obj[p].children
<1> DEFINE n == Next1(w)
           u == AddRef(w, x.parent)
<1>1. /\ u \in Worlds /\ u.libraries = w.libraries
      /\ Len(u.obj) = Len(w.obj) /\ DOMAIN u.obj = DOMAIN w.obj
      /\ \A p \in DOMAIN w.obj :
           /\ u.obj[p].kind = w.obj[p].kind /\ u.obj[p].parent = w.obj[p].parent
           /\ u.obj[p].key = w.obj[p].key /\ u.obj[p].children = w.obj[p].children
           /\ u.obj[p].refs = w.obj[p].refs + (IF p = x.parent THEN 1 ELSE 0)
  <2>1. CASE x.parent \in Alive(w)
    <3>1. OnlyRefs(w, u, x.parent, w.obj[x.parent].refs + 1)
      BY <2>1, AddRefFacts DEF Alive
    <3>2. \A p \in DOMAIN w.obj : w.obj[p].refs \in Nat
      BY WorldFacts DEF Objects
    <3> QED
      BY <3>1, <3>2 DEF OnlyRefs
  <2>2. CASE x.parent \in {-1, 0}
    <3>1. u = w
      BY <2>2 DEF AddRef
    <3>2. \A p \in DOMAIN w.obj : w.obj[p].refs \in Nat /\ p # x.parent
      BY <2>2, WorldFacts DEF Objects
    <3> QED
      BY <3>1, <3>2
  <2> QED
    BY <2>1, <2>2
<1>2. Make(w, x) = [u EXCEPT !.obj = IF n > Len(u.obj) THEN Append(u.obj, x)
                                                       ELSE [u.obj EXCEPT ![n] = x]]
  BY DEF Make
<1>3. CASE Vacant(w) = {}
  <2>1. n = Len(w.obj) + 1
    BY <1>3 DEF Next1
  <2>2. Make(w, x) = [u EXCEPT !.obj = Append(u.obj, x)]
    <3>1. n > Len(u.obj)
      BY <1>1, <2>1, WorldFacts
    <3> HIDE DEF n, u
    <3> QED
      BY <1>2, <3>1
  <2>3. Append(u.obj, x) \in Seq(Objects)
    BY <1>1 DEF Worlds
  <2>4. /\ Make(w, x) \in Worlds
        /\ Make(w, x).libraries = w.libraries
        /\ Make(w, x).obj = Append(u.obj, x)
    BY <1>1, <2>2, <2>3 DEF Worlds
  <2>5. /\ DOMAIN Append(u.obj, x) = 1 .. Len(w.obj) + 1
        /\ Append(u.obj, x)[n] = x
        /\ \A p \in 1 .. Len(w.obj) : Append(u.obj, x)[p] = u.obj[p]
    BY <1>1, <2>1 DEF Worlds
  <2>6. /\ DOMAIN w.obj = 1 .. Len(w.obj) /\ n \in Nat \ {0} /\ n \notin DOMAIN w.obj
        /\ 1 .. Len(w.obj) + 1 = (1 .. Len(w.obj)) \cup {n}
    BY <2>1, WorldFacts
  <2> QED
    BY <1>1, <2>4, <2>5, <2>6 DEF Made, Alive
<1>4. CASE Vacant(w) # {}
  <2>1. n \in Vacant(w)
    BY <1>4 DEF Next1
  <2>2. n \in DOMAIN w.obj /\ n \notin Alive(w) /\ n \in Nat \ {0} /\ n <= Len(u.obj)
    BY <1>1, <2>1, WorldFacts DEF Vacant, Alive
  <2>3. Make(w, x) = [u EXCEPT !.obj = [u.obj EXCEPT ![n] = x]]
    <3>1. ~(n > Len(u.obj))
      BY <1>1, <2>2, WorldFacts
    <3> HIDE DEF n, u
    <3> QED
      BY <1>2, <3>1
  <2>4. [u.obj EXCEPT ![n] = x] \in Seq(Objects)
    <3>1. u.obj \in Seq(Objects) /\ n \in DOMAIN u.obj
      BY <1>1, <2>2 DEF Worlds
    <3> HIDE DEF n, u
    <3> QED
      BY <3>1
  <2>5. /\ Make(w, x) \in Worlds
        /\ Make(w, x).libraries = w.libraries
        /\ Make(w, x).obj = [u.obj EXCEPT ![n] = x]
    BY <1>1, <2>3, <2>4 DEF Worlds
  <2> QED
    BY <1>1, <2>2, <2>5 DEF Made
<1> QED
  BY <1>3, <1>4

-----------------------------------------------------------------------------
(* Who counts on whom.                                                     *)

LEMMA Finite ==
  ASSUME NEW w \in Worlds, NEW o
  PROVE  /\ IsFiniteSet(ReferrersIn(w, o)) /\ Cardinality(ReferrersIn(w, o)) \in Nat
         /\ Cardinality(ReferrersIn(w, o)) = 0 <=> ReferrersIn(w, o) = {}
<1>1. IsFiniteSet(1 .. Len(w.obj))
  BY WorldFacts, FS_Interval
<1>2. ReferrersIn(w, o) \in SUBSET (1 .. Len(w.obj))
  BY WorldFacts DEF ReferrersIn, Alive
<1>3. IsFiniteSet(ReferrersIn(w, o))
  BY <1>1, <1>2, FS_Subset
<1> QED
  BY <1>3, FS_CardinalityType, FS_EmptySet

LEMMA PlusFacts ==
  ASSUME NEW h \in Tallies, NEW o \in Int
  PROVE  /\ Plus(h, o) \in Tallies
         /\ \A x \in Nat : h[x] \in Nat
                           /\ Plus(h, o)[x] = IF x = o /\ o > 0 THEN h[x] + 1 ELSE h[x]
BY DEF Tallies, Plus

\* Where references to one object come or go, so do Java's.
LEMMA CountChanged ==
  ASSUME NEW w \in Worlds, NEW v, NEW o \in DOMAIN w.obj, NEW n \in Nat, OnlyRefs(w, v, o, n),
         NEW h \in Tallies, NEW g \in Tallies, Counted(w, h),
         n - w.obj[o].refs = g[o] - h[o], \A x \in Nat \ {o} : g[x] = h[x]
  PROVE  Counted(v, g)
<1>1. \A p : ReferrersIn(v, p) = ReferrersIn(w, p)
  BY DEF OnlyRefs, ReferrersIn, Alive
<1>2. \A p \in DOMAIN w.obj :
        /\ p \in Nat /\ w.obj[p].refs \in Nat /\ h[p] \in Nat /\ g[p] \in Nat
        /\ Cardinality(ReferrersIn(w, p)) \in Nat
  BY WorldFacts, Finite DEF Objects, Tallies
<1>3. ASSUME NEW p \in DOMAIN w.obj
      PROVE  /\ v.obj[p].refs >= g[p] + Cardinality(ReferrersIn(v, p))
             /\ v.obj[p].kind \in Members =>
                  v.obj[p].refs = g[p] + Cardinality(ReferrersIn(v, p))
  <2>1. /\ w.obj[p].refs >= h[p] + Cardinality(ReferrersIn(w, p))
        /\ w.obj[p].kind \in Members =>
             w.obj[p].refs = h[p] + Cardinality(ReferrersIn(w, p))
    BY DEF Counted
  <2>2. v.obj[p].kind = w.obj[p].kind /\ v.obj[p].refs - w.obj[p].refs = g[p] - h[p]
    <3>1. CASE p = o
      BY <3>1 DEF OnlyRefs
    <3>2. CASE p # o
      <4>1. v.obj[p].refs = w.obj[p].refs /\ v.obj[p].kind = w.obj[p].kind
        BY <3>2 DEF OnlyRefs
      <4>2. g[p] = h[p] /\ g[p] \in Nat /\ w.obj[p].refs \in Nat
        BY <1>2, <3>2
      <4> QED
        BY <4>1, <4>2
    <3> QED
      BY <3>1, <3>2
  <2>3. v.obj[p].refs \in Nat
    BY <1>2 DEF OnlyRefs
  <2> QED
    BY <1>1, <1>2, <2>1, <2>2, <2>3
<1>4. \A p \in Nat \ DOMAIN v.obj : g[p] = 0
  BY DEF OnlyRefs, Counted
<1> QED
  BY <1>3, <1>4 DEF OnlyRefs, Counted

\* References that nobody will release do not hurt, but on members, which
\* have none.
LEMMA CountLess ==
  ASSUME NEW w \in Worlds, NEW h \in Tallies, NEW g \in Tallies, Counted(w, h),
         \A x \in Nat : g[x] <= h[x],
         \A x \in DOMAIN w.obj : w.obj[x].kind \in Members => g[x] = h[x]
  PROVE  Counted(w, g)
<1>1. \A p \in DOMAIN w.obj :
        /\ p \in Nat /\ w.obj[p].refs \in Nat /\ h[p] \in Nat /\ g[p] \in Nat
        /\ Cardinality(ReferrersIn(w, p)) \in Nat
  BY WorldFacts, Finite DEF Objects, Tallies
<1>2. \A p \in Nat : g[p] \in Nat
  BY DEF Tallies
<1> QED
  BY <1>1, <1>2 DEF Counted

\* A new object has a reference, which Java gets, and counts on its parent.
LEMMA CountMade ==
  ASSUME NEW w \in Worlds, ParentsOK(w), NEW v, NEW n, NEW x \in Objects,
         Made(w, v, n, x), x.kind # "deleted", x.refs = 1,
         x.parent \in {-1, 0} \cup Alive(w),
         NEW h \in Tallies, Counted(w, h)
  PROVE  Counted(v, Plus(h, n))
<1>0. n \in Nat /\ n > 0 /\ n \notin Alive(w) /\ v \in Worlds /\ DOMAIN v.obj = DOMAIN w.obj \cup {n}
  BY DEF Made
<1>1. Alive(v) = Alive(w) \cup {n}
  BY <1>0 DEF Made, Alive
<1>2. ReferrersIn(v, n) = {} /\ ReferrersIn(w, n) = {}
  <2>1. \A p \in Alive(w) : w.obj[p].parent # n
    BY <1>0 DEF ParentsOK, Alive
  <2>2. x.parent # n
    BY <1>0
  <2> QED
    BY <1>0, <1>1, <2>1, <2>2 DEF Made, ReferrersIn, Alive
<1>3. ASSUME NEW p, p # n
      PROVE  ReferrersIn(v, p) = IF p = x.parent THEN ReferrersIn(w, p) \cup {n}
                                                 ELSE ReferrersIn(w, p)
  BY <1>1 DEF Made, ReferrersIn, Alive
<1>4. \A p : n \notin ReferrersIn(w, p)
  BY <1>0 DEF ReferrersIn
<1>5. ASSUME NEW p, p # n
      PROVE  Cardinality(ReferrersIn(v, p)) =
               Cardinality(ReferrersIn(w, p)) + (IF p = x.parent THEN 1 ELSE 0)
  <2>1. Cardinality(ReferrersIn(w, p)) \in Nat
    BY Finite
  <2>2. Cardinality(ReferrersIn(w, p) \cup {n}) = Cardinality(ReferrersIn(w, p)) + 1
    BY <1>4, Finite, FS_AddElement
  <2>3. CASE p = x.parent
    BY <1>3, <1>5, <2>2, <2>3
  <2>4. CASE p # x.parent
    <3>1. ReferrersIn(v, p) = ReferrersIn(w, p)
      BY <1>3, <1>5, <2>4
    <3> QED
      BY <2>1, <2>4, <3>1
  <2> QED
    BY <2>3, <2>4
<1>6. h[n] = 0
  <2>1. CASE n \in DOMAIN w.obj
    <3>1. w.obj[n].refs = 0 /\ w.obj[n].refs >= h[n] + Cardinality(ReferrersIn(w, n))
      BY <1>0, <2>1 DEF ParentsOK, Counted, Alive
    <3>2. Cardinality(ReferrersIn(w, n)) \in Nat /\ h[n] \in Nat
      BY <1>0, Finite DEF Tallies
    <3> QED
      BY <3>1, <3>2
  <2>2. CASE n \notin DOMAIN w.obj
    BY <1>0, <2>2 DEF Counted
  <2> QED
    BY <2>1, <2>2
<1>7. \A p \in Nat : Plus(h, n)[p] = IF p = n THEN h[p] + 1 ELSE h[p]
  <2>1. n \in Int
    BY <1>0
  <2> QED
    BY <1>0, <2>1, PlusFacts
<1>8. Cardinality(ReferrersIn(v, n)) = 0
  BY <1>2, FS_EmptySet
<1>9. ASSUME NEW p \in DOMAIN v.obj
      PROVE  /\ v.obj[p].refs >= Plus(h, n)[p] + Cardinality(ReferrersIn(v, p))
             /\ v.obj[p].kind \in Members =>
                  v.obj[p].refs = Plus(h, n)[p] + Cardinality(ReferrersIn(v, p))
  <2>1. CASE p = n
    <3>1. v.obj[p].refs = 1
      BY <2>1 DEF Made
    <3> QED
      BY <1>0, <1>6, <1>7, <1>8, <2>1, <3>1
  <2>2. CASE p # n
    <3>1. p \in DOMAIN w.obj /\ p \in Nat /\ w.obj[p].refs \in Nat /\ h[p] \in Nat
      BY <1>0, <2>2, WorldFacts DEF Objects, Tallies
    <3>2. Cardinality(ReferrersIn(w, p)) \in Nat
      BY Finite
    <3>3. /\ w.obj[p].refs >= h[p] + Cardinality(ReferrersIn(w, p))
          /\ w.obj[p].kind \in Members =>
               w.obj[p].refs = h[p] + Cardinality(ReferrersIn(w, p))
      BY <3>1 DEF Counted
    <3>4. /\ v.obj[p].kind = w.obj[p].kind
          /\ v.obj[p].refs = w.obj[p].refs + (IF p = x.parent THEN 1 ELSE 0)
      BY <2>2, <3>1 DEF Made
    <3>5. Plus(h, n)[p] = h[p]
      BY <1>7, <2>2, <3>1
    <3> QED
      BY <1>5, <2>2, <3>1, <3>2, <3>3, <3>4, <3>5
  <2> QED
    BY <2>1, <2>2
<1>10. \A p \in Nat \ DOMAIN v.obj : Plus(h, n)[p] = 0
  BY <1>0, <1>7 DEF Counted
<1> QED
  BY <1>9, <1>10 DEF Counted

-----------------------------------------------------------------------------
(* What the helpers give Java, in a world where no destructor is due.      *)

Good(w, h) == Shape(w) /\ Counted(w, h) /\ Dying(w) = {}

\* What there was in w is there in v; what declarations are new are of S.
Grown(w, v, S) ==
  /\ \A o \in Alive(w) :
       o \in Alive(v) /\ v.obj[o].kind = w.obj[o].kind /\ v.obj[o].key = w.obj[o].key
  /\ \A o \in Alive(v) :
       v.obj[o].kind = "decl" => o \in Alive(w) \/ v.obj[o].key \in S

LEMMA ShapeRefs ==
  ASSUME NEW w, Shape(w), NEW v, NEW o \in Alive(w), NEW n, OnlyRefs(w, v, o, n)
  PROVE  Shape(v) /\ Alive(v) = Alive(w) /\ Grown(w, v, {})
<1>1. Alive(v) = Alive(w) /\ v \in Worlds
  BY DEF OnlyRefs, Alive
<1>2. ParentsOK(v)
  BY <1>1 DEF OnlyRefs, ParentsOK, Shape, Alive
<1>3. LibrariesOK(v)
  BY DEF OnlyRefs, LibrariesOK, Shape
<1>4. ChildrenOK(v)
  <2>1. \A c \in DOMAIN w.obj : w.obj[c].kind = "decl" => w.obj[c].parent \in DOMAIN w.obj
    BY DEF Shape, ParentsOK, Alive
  <2>2. \A c \in DOMAIN w.obj :
          /\ v.obj[c].kind = w.obj[c].kind /\ v.obj[c].parent = w.obj[c].parent
          /\ v.obj[c].key = w.obj[c].key /\ v.obj[c].children = w.obj[c].children
    BY DEF OnlyRefs
  <2>3. ChildrenOK(w) /\ DOMAIN v.obj = DOMAIN w.obj
    BY DEF Shape, OnlyRefs
  <2>4. \A c \in DOMAIN v.obj : v.obj[c].kind = "decl" =>
          v.obj[v.obj[c].parent].children[v.obj[c].key] = c
    BY <2>1, <2>2, <2>3 DEF ChildrenOK
  <2>5. ASSUME NEW p \in DOMAIN v.obj, v.obj[p].kind = "lib"
        PROVE  /\ v.obj[p].children \in [ITypeInfo -> Nat]
               /\ \A i \in ITypeInfo, c \in Nat \ {0} : v.obj[p].children[i] = c =>
                    /\ c \in DOMAIN v.obj /\ v.obj[c].kind = "decl"
                    /\ v.obj[c].key = i /\ v.obj[c].parent = p
    <3>1. w.obj[p].kind = "lib" /\ p \in DOMAIN w.obj
      BY <2>2, <2>3, <2>5
    <3>2. /\ w.obj[p].children \in [ITypeInfo -> Nat]
          /\ \A i \in ITypeInfo, c \in Nat \ {0} : w.obj[p].children[i] = c =>
               /\ c \in DOMAIN w.obj /\ w.obj[c].kind = "decl"
               /\ w.obj[c].key = i /\ w.obj[c].parent = p
      BY <2>3, <3>1 DEF ChildrenOK
    <3> QED
      BY <2>2, <2>3, <3>1, <3>2
  <2> QED
    BY <2>4, <2>5 DEF ChildrenOK
<1>5. Grown(w, v, {})
  BY <1>1 DEF OnlyRefs, Grown, Alive
<1> QED
  BY <1>1, <1>2, <1>3, <1>4, <1>5 DEF Shape

\* AddRef() revives what a release has just left without references.
LEMMA GoodAddRef ==
  ASSUME NEW w, Shape(w), NEW h \in Tallies, Counted(w, h), NEW o \in Alive(w),
         Dying(w) \subseteq {o}
  PROVE  /\ Good(AddRef(w, o), Plus(h, o)) /\ Alive(AddRef(w, o)) = Alive(w)
         /\ Grown(w, AddRef(w, o), {})
<1>0. w \in Worlds /\ o \in DOMAIN w.obj
  BY DEF Shape, Alive
<1>1. OnlyRefs(w, AddRef(w, o), o, w.obj[o].refs + 1)
  BY <1>0, AddRefFacts
<1>2. o \in Nat /\ o > 0 /\ w.obj[o].refs \in Nat
  BY <1>0, WorldFacts DEF Objects
<1>3. /\ Plus(h, o) \in Tallies
      /\ Plus(h, o)[o] = h[o] + 1 /\ h[o] \in Nat
      /\ \A x \in Nat \ {o} : Plus(h, o)[x] = h[x]
  BY <1>2, PlusFacts
<1>4. Counted(AddRef(w, o), Plus(h, o))
  <2>1. (w.obj[o].refs + 1) - w.obj[o].refs = Plus(h, o)[o] - h[o]
    BY <1>2, <1>3
  <2>2. w.obj[o].refs + 1 \in Nat
    BY <1>2
  <2>3. ASSUME NEW n \in Nat, n = w.obj[o].refs + 1, NEW g \in Tallies, g = Plus(h, o)
        PROVE  Counted(AddRef(w, o), g)
    <3>1. OnlyRefs(w, AddRef(w, o), o, n) /\ n - w.obj[o].refs = g[o] - h[o]
      BY <1>1, <2>1, <2>3
    <3>2. \A x \in Nat \ {o} : g[x] = h[x]
      BY <1>3, <2>3
    <3> QED
      BY <1>0, <3>1, <3>2, CountChanged
  <2> QED
    BY <1>3, <2>2, <2>3
<1>5. Shape(AddRef(w, o)) /\ Alive(AddRef(w, o)) = Alive(w) /\ Grown(w, AddRef(w, o), {})
  BY <1>1, ShapeRefs
<1>6. Dying(AddRef(w, o)) = {}
  <2>1. w.obj[o].refs + 1 # 0
    BY <1>2
  <2> QED
    BY <1>1, <1>5, <2>1 DEF Dying, OnlyRefs, Alive
<1> QED
  BY <1>4, <1>5, <1>6 DEF Good

\* After the release of a reference at most the object itself is due.
LEMMA GoodDrop ==
  ASSUME NEW w, NEW h \in Tallies, Good(w, h), NEW o \in Alive(w),
         NEW g \in Tallies, h[o] = g[o] + 1, \A x \in Nat \ {o} : g[x] = h[x]
  PROVE  /\ Shape(Drop(w, o)) /\ Counted(Drop(w, o), g)
         /\ Alive(Drop(w, o)) = Alive(w) /\ Grown(w, Drop(w, o), {})
         /\ Dying(Drop(w, o)) = IF Drop(w, o).obj[o].refs = 0 THEN {o} ELSE {}
         /\ OnlyRefs(w, Drop(w, o), o, w.obj[o].refs - 1)
<1>0. w \in Worlds /\ o \in DOMAIN w.obj /\ Shape(w) /\ Counted(w, h) /\ Dying(w) = {}
  BY DEF Good, Shape, Alive
<1>1. o \in Nat /\ o > 0 /\ w.obj[o].refs \in Nat
  BY <1>0, WorldFacts DEF Objects
<1>2. w.obj[o].refs > 0
  BY <1>0, <1>1 DEF Dying
<1>3. OnlyRefs(w, Drop(w, o), o, w.obj[o].refs - 1)
  BY <1>0, <1>2, DropFacts
<1>4. Counted(Drop(w, o), g)
  <2>1. w.obj[o].refs - 1 \in Nat
    BY <1>1, <1>2
  <2>2. h[o] \in Nat /\ g[o] \in Nat
    BY <1>1 DEF Tallies
  <2>3. (w.obj[o].refs - 1) - w.obj[o].refs = g[o] - h[o]
    BY <1>1, <2>2
  <2>4. ASSUME NEW n \in Nat, n = w.obj[o].refs - 1
        PROVE  Counted(Drop(w, o), g)
    <3>1. OnlyRefs(w, Drop(w, o), o, n) /\ n - w.obj[o].refs = g[o] - h[o]
      BY <1>3, <2>3, <2>4
    <3> QED
      BY <1>0, <3>1, CountChanged
  <2> QED
    BY <2>1, <2>4
<1>5. Shape(Drop(w, o)) /\ Alive(Drop(w, o)) = Alive(w) /\ Grown(w, Drop(w, o), {})
  BY <1>0, <1>3, ShapeRefs
<1>6. Dying(Drop(w, o)) = IF Drop(w, o).obj[o].refs = 0 THEN {o} ELSE {}
  BY <1>0, <1>3, <1>5 DEF Dying, OnlyRefs, Alive
<1> QED
  BY <1>3, <1>4, <1>5, <1>6

\* What making an object does, apart from the caches.
LEMMA GoodMade ==
  ASSUME NEW w, NEW h \in Tallies, Good(w, h), NEW v, NEW n, NEW x \in Objects,
         Made(w, v, n, x), x.kind # "deleted", x.refs = 1,
         x.parent \in {-1, 0} \cup Alive(w),
         x.kind = "lib" => x.parent = 0,
         x.kind = "decl" =>
           /\ x.key \in ITypeInfo /\ x.parent \in Alive(w)
           /\ w.obj[x.parent].kind = "lib" /\ w.obj[x.parent].key = LibOf[x.key]
  PROVE  /\ v \in Worlds /\ ParentsOK(v) /\ Counted(v, Plus(h, n)) /\ Dying(v) = {}
         /\ Alive(v) = Alive(w) \cup {n}
         /\ Grown(w, v, IF x.kind = "decl" THEN {x.key} ELSE {})
<1>0. w \in Worlds /\ ParentsOK(w) /\ Counted(w, h) /\ Dying(w) = {}
  BY DEF Good, Shape
<1>1. n \in Nat /\ n > 0 /\ n \notin Alive(w) /\ v \in Worlds /\ DOMAIN v.obj = DOMAIN w.obj \cup {n}
  BY DEF Made
<1>2. Alive(v) = Alive(w) \cup {n}
  BY <1>1 DEF Made, Alive
<1>3. Counted(v, Plus(h, n))
  BY <1>0, CountMade
<1>4. ASSUME NEW o \in DOMAIN v.obj
      PROVE  /\ v.obj[o].parent \in {-1, 0} \cup Alive(v)
             /\ v.obj[o].kind \in {"lib", "deleted"} => v.obj[o].parent = 0
             /\ v.obj[o].kind = "deleted" => v.obj[o].refs = 0
             /\ v.obj[o].kind = "decl" =>
                  /\ v.obj[o].key \in ITypeInfo
                  /\ v.obj[o].parent \in Alive(v)
                  /\ v.obj[v.obj[o].parent].kind = "lib"
                  /\ v.obj[v.obj[o].parent].key = LibOf[v.obj[o].key]
  <2>1. CASE o = n
    <3>1. v.obj[o] = x
      BY <2>1 DEF Made
    <3>2. x.parent \in Alive(w) =>
            v.obj[x.parent].kind = w.obj[x.parent].kind /\ v.obj[x.parent].key = w.obj[x.parent].key
      BY <1>1 DEF Made, Alive
    <3> QED
      BY <1>2, <3>1, <3>2
  <2>2. CASE o # n
    <3>1. /\ o \in DOMAIN w.obj
          /\ v.obj[o].kind = w.obj[o].kind /\ v.obj[o].parent = w.obj[o].parent
          /\ v.obj[o].key = w.obj[o].key
          /\ v.obj[o].refs = w.obj[o].refs + (IF o = x.parent THEN 1 ELSE 0)
      BY <1>1, <2>2 DEF Made
    <3>2. w.obj[o].kind = "deleted" => o # x.parent /\ w.obj[o].refs = 0
      BY <1>0, <3>1, WorldFacts DEF ParentsOK, Alive
    <3>3. w.obj[o].parent \in Alive(w) =>
            /\ v.obj[w.obj[o].parent].kind = w.obj[w.obj[o].parent].kind
            /\ v.obj[w.obj[o].parent].key = w.obj[w.obj[o].parent].key
      BY <1>1 DEF Made, Alive
    <3> QED
      BY <1>0, <1>2, <3>1, <3>2, <3>3 DEF ParentsOK
  <2> QED
    BY <2>1, <2>2
<1>5. ParentsOK(v)
  BY <1>4 DEF ParentsOK
<1>6. Dying(v) = {}
  <2>1. \A o \in Alive(w) : w.obj[o].refs \in Nat /\ w.obj[o].refs # 0
    BY <1>0, WorldFacts DEF Dying, Alive, Objects
  <2>2. \A o \in Alive(w) : v.obj[o].refs = w.obj[o].refs + (IF o = x.parent THEN 1 ELSE 0)
    BY <1>1 DEF Made, Alive
  <2>3. v.obj[n].refs = 1
    BY DEF Made
  <2>4. \A o \in Alive(v) : v.obj[o].refs # 0
    BY <1>2, <2>1, <2>2, <2>3
  <2> QED
    BY <2>4 DEF Dying
<1>7. Grown(w, v, IF x.kind = "decl" THEN {x.key} ELSE {})
  BY <1>1, <1>2 DEF Grown, Made, Alive
<1> QED
  BY <1>1, <1>2, <1>3, <1>5, <1>6, <1>7

\* The caches of what was there still do.
LEMMA MadeKept ==
  ASSUME NEW w \in Worlds, NEW v, NEW n, NEW x, Made(w, v, n, x)
  PROVE  /\ n \in Nat /\ n # 0 /\ n \notin Alive(w) /\ v.obj[n] = x
         /\ DOMAIN v.obj = DOMAIN w.obj \cup {n}
         /\ \A o \in Alive(w) :
              /\ o # n /\ o \in DOMAIN w.obj
              /\ v.obj[o].kind = w.obj[o].kind /\ v.obj[o].key = w.obj[o].key
              /\ v.obj[o].parent = w.obj[o].parent
         /\ \A o \in DOMAIN v.obj \ {n} :
              /\ o \in DOMAIN w.obj
              /\ v.obj[o].kind = w.obj[o].kind /\ v.obj[o].key = w.obj[o].key
              /\ v.obj[o].parent = w.obj[o].parent
BY DEF Made, Alive

LEMMA LibrariesKept ==
  ASSUME NEW w, Shape(w), NEW v, NEW n, NEW x, Made(w, v, n, x), x.kind # "lib",
         v.libraries = w.libraries
  PROVE  LibrariesOK(v)
<1>1. w \in Worlds /\ LibrariesOK(w)
  BY DEF Shape
<1>2. \A l \in ITypeLib : w.libraries[l] # 0 => w.libraries[l] \in Alive(w)
  BY <1>1 DEF LibrariesOK, Alive
<1>3. \A o \in DOMAIN w.obj : w.obj[o].kind = "lib" => o \in Alive(w)
  BY DEF Alive
<1> QED
  BY <1>1, <1>2, <1>3, MadeKept DEF LibrariesOK

LEMMA ChildrenKept ==
  ASSUME NEW w, Shape(w), NEW v, NEW n, NEW x, Made(w, v, n, x), x.kind # "decl",
         x.kind = "lib" => x.children = [i \in ITypeInfo |-> 0],
         \A o \in DOMAIN w.obj \ {n} : v.obj[o].children = w.obj[o].children
  PROVE  ChildrenOK(v)
<1>1. w \in Worlds /\ ChildrenOK(w) /\ ParentsOK(w)
  BY DEF Shape
<1>2. ASSUME NEW o \in DOMAIN v.obj, v.obj[o].kind = "decl"
      PROVE  v.obj[v.obj[o].parent].children[v.obj[o].key] = o
  <2>1. o # n /\ o \in DOMAIN w.obj /\ w.obj[o].kind = "decl"
    BY <1>1, <1>2, MadeKept
  <2>2. w.obj[o].parent \in Alive(w)
    BY <1>1, <2>1 DEF ParentsOK
  <2>3. w.obj[w.obj[o].parent].children[w.obj[o].key] = o
    BY <1>1, <2>1 DEF ChildrenOK
  <2> QED
    BY <1>1, <2>1, <2>2, <2>3, MadeKept
<1>3. ASSUME NEW o \in DOMAIN v.obj, v.obj[o].kind = "lib"
      PROVE  /\ v.obj[o].children \in [ITypeInfo -> Nat]
             /\ \A i \in ITypeInfo, c \in Nat \ {0} : v.obj[o].children[i] = c =>
                  /\ c \in DOMAIN v.obj /\ v.obj[c].kind = "decl"
                  /\ v.obj[c].key = i /\ v.obj[c].parent = o
  <2>1. CASE o = n
    <3>1. v.obj[o].children = [i \in ITypeInfo |-> 0]
      BY <1>1, <1>3, <2>1, MadeKept
    <3> QED
      BY <3>1
  <2>2. CASE o # n
    <3>1. o \in DOMAIN w.obj /\ w.obj[o].kind = "lib" /\ v.obj[o].children = w.obj[o].children
      BY <1>1, <1>3, <2>2, MadeKept
    <3>2. /\ w.obj[o].children \in [ITypeInfo -> Nat]
          /\ \A i \in ITypeInfo, c \in Nat \ {0} : w.obj[o].children[i] = c =>
               /\ c \in DOMAIN w.obj /\ w.obj[c].kind = "decl"
               /\ w.obj[c].key = i /\ w.obj[c].parent = o
      BY <1>1, <3>1 DEF ChildrenOK
    <3>3. \A i \in ITypeInfo, c \in Nat \ {0} : w.obj[o].children[i] = c => c \in Alive(w)
      BY <3>2 DEF Alive
    <3> QED
      BY <1>1, <3>1, <3>2, <3>3, MadeKept
  <2> QED
    BY <2>1, <2>2
<1> QED
  BY <1>2, <1>3 DEF ChildrenOK

\* Members, parameters and pointer types.
LEMMA GoodPart ==
  ASSUME NEW w, NEW h \in Tallies, Good(w, h), NEW kind \in Members \cup {"ptr"},
         NEW p \in {-1, 0} \cup Alive(w)
  PROVE  LET v == Make(w, Object(kind, p, NoInfo, <<>>))
             n == Next1(w)
         IN  /\ Good(v, Plus(h, n)) /\ Grown(w, v, {})
             /\ n \in Alive(v) /\ v.obj[n].kind = kind
<1> DEFINE x == Object(kind, p, NoInfo, <<>>)
           v == Make(w, x)
           n == Next1(w)
<1>0. w \in Worlds /\ Shape(w)
  BY DEF Good, Shape
<1>1. p \in Int /\ kind \in Kinds
  BY <1>0, WorldFacts DEF Alive, Kinds
<1>2. x \in Objects /\ x.kind = kind /\ x.parent = p /\ x.refs = 1
  BY <1>1 DEF Object, Objects
<1>3. kind \notin {"lib", "decl", "deleted"}
  BY DEF Members
<1> HIDE DEF x
<1>4. /\ Made(w, v, n, x) /\ v.libraries = w.libraries
      /\ \A o \in DOMAIN w.obj \ {n} : v.obj[o].children = w.obj[o].children
  BY <1>0, <1>2, MakeFacts
<1> HIDE DEF v, n
<1>5. /\ v \in Worlds /\ ParentsOK(v) /\ Counted(v, Plus(h, n)) /\ Dying(v) = {}
      /\ Alive(v) = Alive(w) \cup {n}
      /\ Grown(w, v, {})
  BY <1>2, <1>3, <1>4, GoodMade
<1>6. LibrariesOK(v)
  BY <1>0, <1>2, <1>3, <1>4, LibrariesKept
<1>7. ChildrenOK(v)
  BY <1>0, <1>2, <1>3, <1>4, ChildrenKept
<1>8. v.obj[n].kind = kind
  BY <1>2, <1>4 DEF Made
<1> QED
  BY <1>5, <1>6, <1>7, <1>8 DEF Good, Shape, v, n, x

\* CTypeLib::get
\* ... as a library.
LEMMA GoodMadeLibrary ==
  ASSUME NEW w, NEW h \in Tallies, Good(w, h), NEW v, NEW n, NEW x, Made(w, v, n, x),
         x \in Objects, x.kind = "lib", x.parent = 0, x.refs = 1
  PROVE  /\ v \in Worlds /\ ParentsOK(v) /\ Counted(v, Plus(h, n)) /\ Dying(v) = {}
         /\ Alive(v) = Alive(w) \cup {n}
         /\ Grown(w, v, {})
<1>1. x.kind # "deleted" /\ x.kind # "decl" /\ x.parent \in {-1, 0} \cup Alive(w)
  OBVIOUS
<1>2. /\ v \in Worlds /\ ParentsOK(v) /\ Counted(v, Plus(h, n)) /\ Dying(v) = {}
      /\ Alive(v) = Alive(w) \cup {n}
      /\ Grown(w, v, IF x.kind = "decl" THEN {x.key} ELSE {})
  BY <1>1, GoodMade
<1> QED
  BY <1>1, <1>2

LEMMA GoodGet ==
  ASSUME NEW w, NEW h \in Tallies, Good(w, h), NEW l \in ITypeLib
  PROVE  LET r == Get(w, l)
         IN  /\ Good(r[1], Plus(h, r[2])) /\ Grown(w, r[1], {})
             /\ r[2] \in Alive(r[1]) /\ r[1].obj[r[2]].kind = "lib" /\ r[1].obj[r[2]].key = l
<1>0. w \in Worlds /\ Shape(w) /\ Counted(w, h) /\ Dying(w) = {} /\ LibrariesOK(w)
  BY DEF Good, Shape
<1>1. CASE w.libraries[l] # 0
  <2> DEFINE o == w.libraries[l]
  <2>1. Get(w, l) = <<AddRef(w, o), o>>
    BY <1>1 DEF Get
  <2>2. o \in Alive(w) /\ w.obj[o].kind = "lib" /\ w.obj[o].key = l
    BY <1>0, <1>1 DEF LibrariesOK, Alive
  <2> HIDE DEF o
  <2>3. /\ Good(AddRef(w, o), Plus(h, o)) /\ Alive(AddRef(w, o)) = Alive(w)
        /\ Grown(w, AddRef(w, o), {})
    BY <1>0, <2>2, GoodAddRef
  <2> QED
    BY <2>1, <2>2, <2>3 DEF Grown
<1>2. CASE w.libraries[l] = 0
  <2> DEFINE x == Object("lib", 0, l, [i \in ITypeInfo |-> 0])
             n == Next1(w)
             u == Make(w, x)
             v == [u EXCEPT !.libraries[l] = n]
  <2>1. Get(w, l) = <<v, n>>
    BY <1>2 DEF Get
  <2>2. /\ x \in Objects /\ x.kind = "lib" /\ x.parent = 0 /\ x.refs = 1 /\ x.key = l
        /\ x.children = [i \in ITypeInfo |-> 0]
    BY DEF Object, Objects, Kinds
  <2> HIDE DEF x
  <2>3. /\ Made(w, u, n, x) /\ u.libraries = w.libraries
        /\ \A o \in DOMAIN w.obj \ {n} : u.obj[o].children = w.obj[o].children
    BY <1>0, <2>2, MakeFacts
  <2> HIDE DEF n, u
  <2>4. v.obj = u.obj /\ v.libraries = [w.libraries EXCEPT ![l] = n] /\ v \in Worlds
    BY <2>3 DEF Made, Worlds
  <2> HIDE DEF v
  <2>5. Made(w, v, n, x)
    BY <2>3, <2>4 DEF Made
  <2>6. /\ v \in Worlds /\ ParentsOK(v) /\ Counted(v, Plus(h, n)) /\ Dying(v) = {}
        /\ Alive(v) = Alive(w) \cup {n}
        /\ Grown(w, v, {})
    BY <2>2, <2>5, GoodMadeLibrary
  <2>7. ChildrenOK(v)
    BY <1>0, <2>2, <2>3, <2>4, <2>5, ChildrenKept
  <2>8. \A k \in ITypeLib : v.libraries[k] = IF k = l THEN n ELSE w.libraries[k]
    BY <1>0, <2>4, WorldFacts
  <2>9. ASSUME NEW o \in DOMAIN v.obj, v.obj[o].kind = "lib"
        PROVE  v.obj[o].key \in ITypeLib /\ v.libraries[v.obj[o].key] = o
    <3>1. CASE o = n
      BY <1>0, <2>2, <2>5, <2>8, <3>1, MadeKept
    <3>2. CASE o # n
      <4>1. o \in DOMAIN w.obj /\ w.obj[o].kind = "lib" /\ v.obj[o].key = w.obj[o].key
        BY <1>0, <2>5, <2>9, <3>2, MadeKept
      <4>2. w.obj[o].key \in ITypeLib /\ w.libraries[w.obj[o].key] = o /\ o # 0
        BY <1>0, <4>1, WorldFacts DEF LibrariesOK
      <4> QED
        BY <1>2, <2>8, <4>1, <4>2
    <3> QED
      BY <3>1, <3>2
  <2>10. ASSUME NEW k \in ITypeLib, v.libraries[k] # 0
         PROVE  /\ v.libraries[k] \in DOMAIN v.obj
                /\ v.obj[v.libraries[k]].kind = "lib" /\ v.obj[v.libraries[k]].key = k
    <3>1. CASE k = l
      BY <1>0, <2>2, <2>5, <2>8, <3>1, MadeKept
    <3>2. CASE k # l
      <4>1. v.libraries[k] = w.libraries[k] /\ w.libraries[k] # 0
        BY <2>8, <2>10, <3>2
      <4>2. /\ w.libraries[k] \in Alive(w)
            /\ w.obj[w.libraries[k]].kind = "lib" /\ w.obj[w.libraries[k]].key = k
        BY <1>0, <4>1 DEF LibrariesOK, Alive
      <4> QED
        BY <1>0, <2>5, <4>1, <4>2, MadeKept
    <3> QED
      BY <3>1, <3>2
  <2>11. LibrariesOK(v)
    BY <2>9, <2>10 DEF LibrariesOK
  <2>12. v.obj[n] = x
    BY <2>5 DEF Made
  <2> QED
    BY <2>1, <2>2, <2>6, <2>7, <2>11, <2>12 DEF Good, Shape
<1> QED
  BY <1>1, <1>2

\* CTypeLib::getChild
\* ... as the child of its library.
LEMMA GoodMadeChild ==
  ASSUME NEW w, NEW h \in Tallies, Good(w, h), NEW v, NEW n, NEW x, Made(w, v, n, x),
         NEW lib \in Alive(w), w.obj[lib].kind = "lib",
         NEW i \in ITypeInfo, LibOf[i] = w.obj[lib].key,
         x \in Objects, x.kind = "decl", x.parent = lib, x.refs = 1, x.key = i
  PROVE  /\ v \in Worlds /\ ParentsOK(v) /\ Counted(v, Plus(h, n)) /\ Dying(v) = {}
         /\ Alive(v) = Alive(w) \cup {n}
         /\ Grown(w, v, {i})
<1>1. /\ x.kind # "deleted" /\ x.kind # "lib" /\ x.parent \in {-1, 0} \cup Alive(w)
      /\ x.key \in ITypeInfo /\ x.parent \in Alive(w)
      /\ w.obj[x.parent].kind = "lib" /\ w.obj[x.parent].key = LibOf[x.key]
  OBVIOUS
<1>2. /\ v \in Worlds /\ ParentsOK(v) /\ Counted(v, Plus(h, n)) /\ Dying(v) = {}
      /\ Alive(v) = Alive(w) \cup {n}
      /\ Grown(w, v, IF x.kind = "decl" THEN {x.key} ELSE {})
  BY <1>1, GoodMade
<1> QED
  BY <1>2

LEMMA GoodGetChild ==
  ASSUME NEW w, NEW h \in Tallies, Good(w, h), NEW lib \in Alive(w), w.obj[lib].kind = "lib",
         NEW i \in ITypeInfo, LibOf[i] = w.obj[lib].key
  PROVE  LET r == GetChild(w, lib, i)
         IN  /\ Good(r[1], Plus(h, r[2])) /\ Grown(w, r[1], {i})
             /\ r[2] \in Alive(r[1]) /\ r[1].obj[r[2]].kind = "decl" /\ r[1].obj[r[2]].key = i
<1> DEFINE c == w.obj[lib].children[i]
<1>0. /\ w \in Worlds /\ Shape(w) /\ Counted(w, h) /\ Dying(w) = {} /\ ChildrenOK(w)
      /\ lib \in DOMAIN w.obj /\ ParentsOK(w)
  BY DEF Good, Shape, Alive
<1>a. c \in Nat /\ w.obj[lib].children \in [ITypeInfo -> Nat]
  BY <1>0 DEF ChildrenOK
<1>1. CASE c # 0
  <2>1. GetChild(w, lib, i) = <<AddRef(w, c), c>>
    BY <1>1 DEF GetChild
  <2>2. c \in Alive(w) /\ w.obj[c].kind = "decl" /\ w.obj[c].key = i
    BY <1>0, <1>1, <1>a DEF ChildrenOK, Alive
  <2> HIDE DEF c
  <2>3. /\ Good(AddRef(w, c), Plus(h, c)) /\ Alive(AddRef(w, c)) = Alive(w)
        /\ Grown(w, AddRef(w, c), {})
    BY <1>0, <2>2, GoodAddRef
  <2> QED
    BY <2>1, <2>2, <2>3 DEF Grown
<1>2. CASE c = 0
  <2> DEFINE x == Object("decl", lib, i, <<>>)
             n == Next1(w)
             u == Make(w, x)
             v == [u EXCEPT !.obj[lib].children[i] = n]
  <2>1. GetChild(w, lib, i) = <<v, n>>
    BY <1>2 DEF GetChild
  <2>2. x \in Objects /\ x.kind = "decl" /\ x.parent = lib /\ x.refs = 1 /\ x.key = i
    BY <1>0, WorldFacts DEF Object, Objects, Kinds
  <2> HIDE DEF x
  <2>3. /\ Made(w, u, n, x) /\ u.libraries = w.libraries
        /\ \A o \in DOMAIN w.obj \ {n} : u.obj[o].children = w.obj[o].children
    BY <1>0, <2>2, MakeFacts
  <2> HIDE DEF n, u
  <2>4. /\ u \in Worlds /\ n \in Nat /\ n # 0 /\ lib # n /\ lib \in DOMAIN u.obj
        /\ u.obj[lib] \in Objects /\ u.obj[lib].children = w.obj[lib].children
    <3>1. u \in Worlds
      BY <2>3 DEF Made
    <3> QED
      BY <1>0, <2>3, <3>1, MadeKept, WorldFacts
  <2> DEFINE kids == [w.obj[lib].children EXCEPT ![i] = n]
  <2>5. kids \in [ITypeInfo -> Nat] /\ \A k \in ITypeInfo : kids[k] = IF k = i THEN n ELSE w.obj[lib].children[k]
    BY <1>a, <2>4
  <2>6. v = [u EXCEPT !.obj = [u.obj EXCEPT ![lib] = [u.obj[lib] EXCEPT !.children = kids]]]
    BY <2>4
  <2> HIDE DEF kids
  <2>7. [u.obj[lib] EXCEPT !.children = kids] \in Objects
    BY <2>4, <2>5 DEF Objects
  <2>8. [u.obj EXCEPT ![lib] = [u.obj[lib] EXCEPT !.children = kids]] \in Seq(Objects)
    BY <2>4, <2>7 DEF Worlds
  <2>9. /\ v.obj = [u.obj EXCEPT ![lib] = [u.obj[lib] EXCEPT !.children = kids]]
        /\ v.libraries = w.libraries /\ v \in Worlds
    BY <2>3, <2>4, <2>6, <2>8 DEF Worlds
  <2> HIDE DEF v
  <2>10. /\ DOMAIN v.obj = DOMAIN u.obj
         /\ v.obj[lib] = [u.obj[lib] EXCEPT !.children = kids]
         /\ \A o \in DOMAIN u.obj \ {lib} : v.obj[o] = u.obj[o]
    BY <2>4, <2>9
  <2>11. /\ v.obj[lib].children = kids
         /\ v.obj[lib].kind = u.obj[lib].kind /\ v.obj[lib].key = u.obj[lib].key
         /\ v.obj[lib].parent = u.obj[lib].parent /\ v.obj[lib].refs = u.obj[lib].refs
    BY <2>4, <2>10 DEF Objects
  <2>12. Made(w, v, n, x)
    BY <2>3, <2>4, <2>9, <2>10, <2>11 DEF Made
  <2>13. /\ v \in Worlds /\ ParentsOK(v) /\ Counted(v, Plus(h, n)) /\ Dying(v) = {}
         /\ Alive(v) = Alive(w) \cup {n}
         /\ Grown(w, v, {i})
    BY <2>2, <2>12, GoodMadeChild
  <2>14. LibrariesOK(v)
    BY <1>0, <2>2, <2>9, <2>12, LibrariesKept
  <2>15. \A o \in DOMAIN w.obj \ {n, lib} : v.obj[o].children = w.obj[o].children
    BY <1>0, <2>3, <2>10, MadeKept
  <2>16. ASSUME NEW o \in DOMAIN v.obj, v.obj[o].kind = "decl"
         PROVE  v.obj[v.obj[o].parent].children[v.obj[o].key] = o
    <3>1. CASE o = n
      <4>1. v.obj[o] = x
        BY <2>12, <3>1 DEF Made
      <4> QED
        BY <2>2, <2>5, <2>11, <3>1, <4>1
    <3>2. CASE o # n
      <4>1. /\ o \in DOMAIN w.obj /\ w.obj[o].kind = "decl"
            /\ v.obj[o].key = w.obj[o].key /\ v.obj[o].parent = w.obj[o].parent
        BY <1>0, <2>12, <2>16, <3>2, MadeKept
      <4>2. w.obj[o].parent \in Alive(w) /\ w.obj[o].key \in ITypeInfo
        BY <1>0, <4>1 DEF ParentsOK
      <4>3. w.obj[w.obj[o].parent].children[w.obj[o].key] = o /\ o # 0
        BY <1>0, <4>1, WorldFacts DEF ChildrenOK
      <4>4. w.obj[o].parent # n /\ w.obj[o].parent \in DOMAIN w.obj
        BY <1>0, <2>12, <4>2, MadeKept
      <4> QED
        BY <1>2, <2>5, <2>11, <2>15, <4>1, <4>2, <4>3, <4>4
    <3> QED
      BY <3>1, <3>2
  <2>17. ASSUME NEW o \in DOMAIN v.obj, v.obj[o].kind = "lib"
         PROVE  /\ v.obj[o].children \in [ITypeInfo -> Nat]
                /\ \A k \in ITypeInfo, d \in Nat \ {0} : v.obj[o].children[k] = d =>
                     /\ d \in DOMAIN v.obj /\ v.obj[d].kind = "decl"
                     /\ v.obj[d].key = k /\ v.obj[d].parent = o
    <3>1. v.obj[n] = x /\ o # n /\ o \in DOMAIN w.obj /\ w.obj[o].kind = "lib"
      BY <1>0, <2>2, <2>12, <2>17, MadeKept
    <3>2. /\ w.obj[o].children \in [ITypeInfo -> Nat]
          /\ \A k \in ITypeInfo, d \in Nat \ {0} : w.obj[o].children[k] = d =>
               /\ d \in DOMAIN w.obj /\ w.obj[d].kind = "decl"
               /\ w.obj[d].key = k /\ w.obj[d].parent = o
      BY <1>0, <3>1 DEF ChildrenOK
    <3>3. \A k \in ITypeInfo, d \in Nat \ {0} : w.obj[o].children[k] = d =>
            /\ d \in DOMAIN v.obj /\ v.obj[d].kind = "decl"
            /\ v.obj[d].key = k /\ v.obj[d].parent = o
      <4>1. \A k \in ITypeInfo, d \in Nat \ {0} : w.obj[o].children[k] = d => d \in Alive(w)
        BY <3>2 DEF Alive
      <4> QED
        BY <1>0, <2>12, <3>2, <4>1, MadeKept
    <3>4. CASE o = lib
      <4>1. n \in DOMAIN v.obj
        BY <1>0, <2>12, MadeKept
      <4> QED
        BY <2>2, <2>5, <2>11, <3>1, <3>3, <3>4, <4>1
    <3>5. CASE o # lib
      BY <2>15, <3>1, <3>2, <3>3, <3>5
    <3> QED
      BY <3>4, <3>5
  <2>18. ChildrenOK(v)
    BY <2>16, <2>17 DEF ChildrenOK
  <2>19. v.obj[n] = x
    BY <2>12 DEF Made
  <2> QED
    BY <2>1, <2>2, <2>13, <2>14, <2>18, <2>19 DEF Good, Shape
<1> QED
  BY <1>1, <1>2

\* What a getter of types gives: nothing, a primitive type, a pointer type or a
\* declaration, which is one of S.
Gives(w, h, r, S) ==
  /\ Good(r[1], Plus(h, r[2])) /\ Grown(w, r[1], S)
  /\ \/ r[2] \in {-1, 0}
     \/ /\ r[2] \in Alive(r[1]) /\ r[1].obj[r[2]].kind \in {"decl", "ptr"}
        /\ r[1].obj[r[2]].kind = "decl" => r[1].obj[r[2]].key \in S

LEMMA PlusNothing ==
  ASSUME NEW h \in Tallies, NEW o \in {-1, 0}
  PROVE  Plus(h, o) = h
BY DEF Plus, Tallies

\* A reference to something that is not a member may be forgotten.
LEMMA Forgotten ==
  ASSUME NEW w, NEW h \in Tallies, NEW o \in {-1, 0} \cup Alive(w), NEW n \in Nat, n > 0,
         Good(w, Plus(Plus(h, o), n)), o \in Alive(w) => w.obj[o].kind \notin Members
  PROVE  Good(w, Plus(h, n))
<1>1. w \in Worlds
  BY DEF Good, Shape
<1>2. o \in Int /\ n \in Int
  BY <1>1, WorldFacts DEF Alive
<1>3. Plus(h, o) \in Tallies /\ Plus(h, n) \in Tallies
  BY <1>2, PlusFacts
<1>4. \A x \in Nat :
        /\ h[x] \in Nat
        /\ Plus(h, o)[x] = IF x = o /\ o > 0 THEN h[x] + 1 ELSE h[x]
        /\ Plus(h, n)[x] = IF x = n THEN h[x] + 1 ELSE h[x]
  BY <1>2, PlusFacts
<1>5. /\ Plus(Plus(h, o), n) \in Tallies
      /\ \A x \in Nat : Plus(Plus(h, o), n)[x] = IF x = n THEN Plus(h, o)[x] + 1 ELSE Plus(h, o)[x]
  BY <1>2, <1>3, PlusFacts
<1>6. \A x \in Nat : Plus(h, n)[x] <= Plus(Plus(h, o), n)[x]
  BY <1>4, <1>5
<1>7. \A x \in Nat \ {o} : Plus(h, n)[x] = Plus(Plus(h, o), n)[x]
  BY <1>4, <1>5
<1>8. \A x \in DOMAIN w.obj : w.obj[x].kind \in Members => x \in Nat \ {o}
  BY <1>1, WorldFacts DEF Alive, Members
<1>9. Counted(w, Plus(h, n))
  BY <1>1, <1>3, <1>5, <1>6, <1>7, <1>8, CountLess DEF Good
<1> QED
  BY <1>9 DEF Good

LEMMA GoodGetRef ==
  ASSUME NEW w, NEW h \in Tallies, Good(w, h), NEW i \in ITypeInfo \cup {NoInfo}
  PROVE  /\ Gives(w, h, GetRef(w, i), {i})
         /\ GetRef(w, i)[2] = 0 \/ GetRef(w, i)[1].obj[GetRef(w, i)[2]].kind = "decl"
         /\ GetRef(w, i)[2] >= 0
<1>1. CASE i = NoInfo
  <2>1. GetRef(w, i) = <<w, 0>>
    BY <1>1 DEF GetRef
  <2>2. Plus(h, 0) = h
    BY PlusNothing
  <2>3. Grown(w, w, {i})
    BY DEF Grown
  <2> QED
    BY <2>1, <2>2, <2>3 DEF Gives
<1>2. CASE i # NoInfo
  <2> DEFINE l == LibOf[i]
             g == Get(w, l)
             r == GetChild(g[1], g[2], i)
  <2>0. i \in ITypeInfo /\ l \in ITypeLib
    BY <1>2, InfosHaveLibs
  <2>1. GetRef(w, i) = r
    BY <1>2 DEF GetRef
  <2>2. /\ Good(g[1], Plus(h, g[2])) /\ Grown(w, g[1], {})
        /\ g[2] \in Alive(g[1]) /\ g[1].obj[g[2]].kind = "lib" /\ g[1].obj[g[2]].key = l
    BY <2>0, GoodGet
  <2>3. LibOf[i] = g[1].obj[g[2]].key
    BY <2>2
  <2> HIDE DEF g, l
  <2>4. g[1] \in Worlds /\ g[2] \in Nat
    <3>1. g[1] \in Worlds
      BY <2>2 DEF Good, Shape
    <3> QED
      BY <2>2, <3>1, WorldFacts DEF Alive
  <2>5. Plus(h, g[2]) \in Tallies
    BY <2>4, PlusFacts
  <2>6. /\ Good(r[1], Plus(Plus(h, g[2]), r[2])) /\ Grown(g[1], r[1], {i})
        /\ r[2] \in Alive(r[1]) /\ r[1].obj[r[2]].kind = "decl" /\ r[1].obj[r[2]].key = i
    BY <2>0, <2>2, <2>3, <2>5, GoodGetChild
  <2> HIDE DEF r
  <2>7. g[2] \in Alive(r[1]) /\ r[1].obj[g[2]].kind = "lib"
    BY <2>2, <2>6 DEF Grown
  <2>8. r[2] \in Nat /\ r[2] > 0
    <3>1. r[1] \in Worlds
      BY <2>6 DEF Good, Shape
    <3> QED
      BY <2>6, <3>1, WorldFacts DEF Alive
  <2>9. "lib" \notin Members
    BY DEF Members
  <2>10. Good(r[1], Plus(h, r[2]))
    <3>1. g[2] \in {-1, 0} \cup Alive(r[1])
      BY <2>7
    <3>2. g[2] \in Alive(r[1]) => r[1].obj[g[2]].kind \notin Members
      BY <2>7, <2>9
    <3> QED
      BY <2>6, <2>8, <3>1, <3>2, Forgotten
  <2>11. Grown(w, r[1], {i})
    BY <2>2, <2>6 DEF Grown
  <2> QED
    BY <2>1, <2>6, <2>8, <2>10, <2>11 DEF Gives
<1> QED
  BY <1>1, <1>2

LEMMA GoodPointerTo ==
  ASSUME NEW w, NEW h \in Tallies, NEW t, NEW S, Gives(w, h, t, S)
  PROVE  Gives(w, h, PointerTo(t), S)
<1>1. CASE t[2] = 0
  BY <1>1 DEF PointerTo
<1>2. CASE t[2] # 0
  <2> DEFINE v == Make(t[1], Object("ptr", t[2], NoInfo, <<>>))
             n == Next1(t[1])
  <2>1. PointerTo(t) = <<v, n>>
    BY <1>2 DEF PointerTo
  <2>2. /\ Good(t[1], Plus(h, t[2])) /\ Grown(w, t[1], S)
        /\ t[2] \in {-1, 0} \cup Alive(t[1])
        /\ t[2] \in Alive(t[1]) => t[1].obj[t[2]].kind \in {"decl", "ptr"}
    <3>1. Good(t[1], Plus(h, t[2])) /\ Grown(w, t[1], S)
      BY DEF Gives
    <3>2. t[1] \in Worlds
      BY <3>1 DEF Good, Shape
    <3>3. \A o \in Alive(t[1]) : o \notin {-1, 0}
      BY <3>2, WorldFacts DEF Alive
    <3> QED
      BY <3>1, <3>3 DEF Gives
  <2>3. t[1] \in Worlds /\ t[2] \in Int
    <3>1. t[1] \in Worlds
      BY <2>2 DEF Good, Shape
    <3> QED
      BY <2>2, <3>1, WorldFacts DEF Alive
  <2>4. Plus(h, t[2]) \in Tallies
    BY <2>3, PlusFacts
  <2>5. /\ Good(v, Plus(Plus(h, t[2]), n)) /\ Grown(t[1], v, {})
        /\ n \in Alive(v) /\ v.obj[n].kind = "ptr"
    BY <2>2, <2>4, GoodPart
  <2> HIDE DEF v, n
  <2>6. n \in Nat /\ n > 0
    <3>1. v \in Worlds
      BY <2>5 DEF Good, Shape
    <3> QED
      BY <2>5, <3>1, WorldFacts DEF Alive
  <2>7. /\ t[2] \in {-1, 0} \cup Alive(v)
        /\ t[2] \in Alive(v) => v.obj[t[2]].kind \notin Members
    <3>1. v \in Worlds
      BY <2>5 DEF Good, Shape
    <3>2. \A o \in Alive(v) : o \notin {-1, 0}
      BY <3>1, WorldFacts DEF Alive
    <3> QED
      BY <2>2, <2>5, <3>2 DEF Grown, Members
  <2>8. Good(v, Plus(h, n))
    BY <2>5, <2>6, <2>7, Forgotten
  <2>9. Grown(w, v, S)
    BY <2>2, <2>5 DEF Grown
  <2> QED
    BY <2>1, <2>5, <2>8, <2>9 DEF Gives
<1> QED
  BY <1>1, <1>2

LEMMA GoodCreateType ==
  ASSUME NEW w, NEW h \in Tallies, Good(w, h), NEW t \in TypeDesc
  PROVE  Gives(w, h, CreateType(w, t), {t.target})
<1> DEFINE target == IF t.target = Primitive THEN <<w, Primitive>> ELSE GetRef(w, t.target)
<1>1. Gives(w, h, target, {t.target})
  <2>1. CASE t.target = Primitive
    <3>1. Plus(h, -1) = h
      BY PlusNothing
    <3>2. Grown(w, w, {t.target})
      BY DEF Grown
    <3> QED
      BY <2>1, <3>1, <3>2 DEF Gives, Primitive
  <2>2. CASE t.target # Primitive
    BY <2>2, GoodGetRef DEF TypeDesc
  <2> QED
    BY <2>1, <2>2
<1>2. /\ Gives(w, h, PointerTo(target), {t.target})
      /\ Gives(w, h, PointerTo(PointerTo(target)), {t.target})
  <2>1. ASSUME NEW r, Gives(w, h, r, {t.target})
        PROVE  Gives(w, h, PointerTo(r), {t.target})
    BY <2>1, GoodPointerTo
  <2> HIDE DEF target
  <2> QED
    BY <1>1, <2>1
<1>3. CreateType(w, t) \in {target, PointerTo(target), PointerTo(PointerTo(target))}
  <2>1. t.depth \in 0 .. 2
    BY DEF TypeDesc
  <2>2. t.depth = 0 \/ t.depth = 1 \/ t.depth = 2
    BY <2>1
  <2> QED
    BY <2>2 DEF CreateType
<1> QED
  BY <1>1, <1>2, <1>3

-----------------------------------------------------------------------------
(* The inductive invariant.                                                *)

Held == [x \in Nat |-> IF x \in 1 .. MaxObjects THEN held[x] ELSE 0]

\* A destructor is due for at most one object, and nothing else is without
\* references.
DyingInv ==
  \/ dying = <<>> /\ Dying(World) = {}
  \/ \E o \in DOMAIN obj : dying = <<o>> /\ Dying(World) = {o}

IInv ==
  /\ Shape(World) /\ Counted(World, Held)
  /\ held \in [1 .. MaxObjects -> 0 .. MaxHeld]
  /\ Len(obj) <= MaxObjects
  /\ DyingInv
  /\ crashed \in BOOLEAN

\* What Java may obtain in a call.
Offers(w, h, r, S) ==
  /\ Good(r[1], Plus(h, r[2])) /\ Grown(w, r[1], S)
  /\ \/ r[2] \in {-1, 0}
     \/ r[2] \in Alive(r[1]) /\ (r[1].obj[r[2]].kind = "decl" => r[1].obj[r[2]].key \in S)

Obtains == dying = <<>> /\ \E r, i : Receive(r) /\ Offers(World, Held, r, {i})

LEMMA InvFacts ==
  ASSUME IInv
  PROVE  /\ World \in Worlds /\ World.obj = obj /\ World.libraries = libraries
         /\ Len(obj) \in Nat /\ DOMAIN obj = 1 .. Len(obj)
         /\ \A o \in DOMAIN obj : obj[o] \in Objects /\ o \in Nat /\ o > 0 /\ o \in 1 .. MaxObjects
         /\ Held \in Tallies
         /\ \A o \in DOMAIN obj : Held[o] = held[o] /\ held[o] \in Nat
<1>1. World \in Worlds /\ World.obj = obj /\ World.libraries = libraries
  BY DEF IInv, Shape, World
<1>2. /\ Len(obj) \in Nat /\ DOMAIN obj = 1 .. Len(obj)
      /\ \A o \in DOMAIN obj : obj[o] \in Objects /\ o \in Nat /\ o > 0
  BY <1>1, WorldFacts
<1>3. \A o \in DOMAIN obj : o \in 1 .. MaxObjects
  BY <1>2, BoundsAreNumbers DEF IInv
<1>4. Held \in Tallies
  <2>1. \A x \in 1 .. MaxObjects : held[x] \in Nat
    BY BoundsAreNumbers DEF IInv
  <2> QED
    BY <2>1 DEF Held, Tallies
<1>5. \A o \in DOMAIN obj : Held[o] = held[o] /\ held[o] \in Nat
  BY <1>2, <1>3, BoundsAreNumbers DEF Held, IInv
<1> QED
  BY <1>1, <1>2, <1>3, <1>4, <1>5

\* A reference more in Java's hands.
LEMMA HeldMore ==
  ASSUME IInv, NEW o \in Int, o > 0 => o \in 1 .. MaxObjects /\ held[o] < MaxHeld,
         held' = IF o > 0 THEN [held EXCEPT ![o] = @ + 1] ELSE held
  PROVE  Held' = Plus(Held, o) /\ held' \in [1 .. MaxObjects -> 0 .. MaxHeld]
<1>0. held \in [1 .. MaxObjects -> 0 .. MaxHeld] /\ MaxHeld \in Nat /\ MaxObjects \in Nat
  BY BoundsAreNumbers DEF IInv
<1>1. CASE o > 0
  <2>1. \A x \in 1 .. MaxObjects : held'[x] = IF x = o THEN held[x] + 1 ELSE held[x]
    BY <1>0, <1>1
  <2>2. held' \in [1 .. MaxObjects -> 0 .. MaxHeld]
    BY <1>0, <1>1
  <2> QED
    BY <1>0, <1>1, <2>1, <2>2 DEF Held, Plus
<1>2. CASE ~(o > 0)
  BY <1>0, <1>2 DEF Held, Plus
<1> QED
  BY <1>1, <1>2

\* Whatever Java obtains, the invariant stays.
LEMMA ObtainsInv == IInv /\ Obtains => IInv'
<1> SUFFICES ASSUME IInv, dying = <<>>, NEW r, NEW i, Receive(r), Offers(World, Held, r, {i})
             PROVE  IInv'
  BY DEF Obtains
<1> DEFINE w == r[1]
           o == r[2]
<1>1. /\ Good(w, Plus(Held, o))
      /\ o \in {-1, 0} \cup Alive(w)
  BY DEF Offers
<1>2. /\ Len(w.obj) <= MaxObjects
      /\ o > 0 => held[o] < MaxHeld
      /\ obj' = w.obj /\ libraries' = w.libraries
      /\ held' = IF o > 0 THEN [held EXCEPT ![o] = @ + 1] ELSE held
      /\ dying' = dying /\ crashed' = crashed
  BY DEF Receive, Fits
<1> HIDE DEF w, o
<1>3. w \in Worlds /\ Shape(w) /\ Counted(w, Plus(Held, o)) /\ Dying(w) = {}
  BY <1>1 DEF Good, Shape
<1>4. World' = w
  BY <1>2, <1>3, WorldFacts DEF World
<1>5. o \in Int /\ (o > 0 => o \in 1 .. MaxObjects)
  <2>1. \A x \in DOMAIN w.obj : x \in Nat /\ x > 0 /\ x <= Len(w.obj) /\ Len(w.obj) \in Nat
    BY <1>3, WorldFacts
  <2>2. \A x \in DOMAIN w.obj : x \in 1 .. MaxObjects
    BY <1>2, <2>1, BoundsAreNumbers
  <2> QED
    BY <1>1, <2>1, <2>2 DEF Alive
<1>6. Held' = Plus(Held, o) /\ held' \in [1 .. MaxObjects -> 0 .. MaxHeld]
  BY <1>2, <1>5, HeldMore
<1>7. Dying(World') = {}
  BY <1>3, <1>4
<1>8. Shape(World') /\ Counted(World', Held')
  BY <1>3, <1>4, <1>6
<1> QED
  BY <1>2, <1>6, <1>7, <1>8 DEF IInv, DyingInv

\* A reference that is given out for an object that exists.
LEMMA OffersAddRef ==
  ASSUME IInv, dying = <<>>, NEW o \in {-1, 0} \cup Alive(World)
  PROVE  \E i : Offers(World, Held, <<AddRef(World, o), o>>, {i})
<1>0. World \in Worlds /\ Held \in Tallies /\ Good(World, Held)
  BY InvFacts DEF IInv, DyingInv, Good
<1>1. CASE o \in Alive(World)
  <2>1. /\ Good(AddRef(World, o), Plus(Held, o)) /\ Alive(AddRef(World, o)) = Alive(World)
        /\ Grown(World, AddRef(World, o), {})
    BY <1>0, <1>1, GoodAddRef DEF Good
  <2>2. Grown(World, AddRef(World, o), {AddRef(World, o).obj[o].key})
    BY <2>1 DEF Grown
  <2> QED
    BY <1>1, <2>1, <2>2 DEF Offers
<1>2. CASE o \in {-1, 0}
  <2>1. AddRef(World, o) = World /\ Plus(Held, o) = Held
    BY <1>0, <1>2, PlusNothing DEF AddRef
  <2>2. Grown(World, World, {o})
    BY DEF Grown
  <2> QED
    BY <1>0, <1>2, <2>1, <2>2 DEF Offers
<1> QED
  BY <1>1, <1>2

\* The calls that give Java something.
LEMMA JavaObtains ==
  ASSUME IInv,
         \/ \E l \in ITypeLib : LoadTypeLibrary(l)
         \/ \E o \in DOMAIN obj :
              \/ \E i \in ITypeInfo : GetTypeDecl(o, i)
              \/ \E k \in {"method", "variable", "impl"} : GetMember(o, k)
              \/ GetParam(o)
              \/ \E t \in TypeDesc : GetType(o, t)
              \/ \E i \in ITypeInfo \cup {NoInfo} : GetReferred(o, i)
              \/ GetOwner(o) \/ QueryInterface(o)
  PROVE  Obtains
<1>0. /\ World \in Worlds /\ Held \in Tallies /\ World.obj = obj
      /\ Shape(World) /\ Counted(World, Held)
      /\ dying = <<>> => Good(World, Held)
  BY InvFacts DEF IInv, DyingInv, Good
<1>1. ASSUME NEW l \in ITypeLib, LoadTypeLibrary(l) PROVE Obtains
  <2>1. dying = <<>> /\ Receive(Get(World, l))
    BY <1>1 DEF LoadTypeLibrary
  <2>2. Offers(World, Held, Get(World, l), {l})
    <3>1. LET r == Get(World, l)
          IN  /\ Good(r[1], Plus(Held, r[2])) /\ Grown(World, r[1], {})
              /\ r[2] \in Alive(r[1]) /\ r[1].obj[r[2]].kind = "lib"
      BY <1>0, <2>1, GoodGet
    <3> QED
      BY <3>1 DEF Offers, Grown
  <2> QED
    BY <2>1, <2>2 DEF Obtains
<1>2. ASSUME NEW o \in DOMAIN obj, NEW i \in ITypeInfo, GetTypeDecl(o, i) PROVE Obtains
  <2>1. dying = <<>> /\ Receive(GetChild(World, o, i)) /\ obj[o].kind = "lib" /\ LibOf[i] = obj[o].key
    BY <1>2 DEF GetTypeDecl, Called
  <2>2. o \in Alive(World)
    BY <1>0, <2>1 DEF Alive
  <2>3. Offers(World, Held, GetChild(World, o, i), {i})
    <3>1. LET r == GetChild(World, o, i)
          IN  /\ Good(r[1], Plus(Held, r[2])) /\ Grown(World, r[1], {i})
              /\ r[2] \in Alive(r[1]) /\ r[1].obj[r[2]].kind = "decl" /\ r[1].obj[r[2]].key = i
      BY <1>0, <2>1, <2>2, GoodGetChild
    <3> QED
      BY <3>1 DEF Offers
  <2> QED
    BY <2>1, <2>3 DEF Obtains
<1>3. ASSUME NEW o \in DOMAIN obj, NEW k \in Members,
             dying = <<>>, obj[o].kind # "deleted",
             Receive(<<Make(World, Object(k, o, NoInfo, <<>>)), Next1(World)>>)
      PROVE  Obtains
  <2>1. o \in Alive(World)
    BY <1>0, <1>3 DEF Alive
  <2>2. LET v == Make(World, Object(k, o, NoInfo, <<>>))
            n == Next1(World)
        IN  /\ Good(v, Plus(Held, n)) /\ Grown(World, v, {})
            /\ n \in Alive(v) /\ v.obj[n].kind = k
    BY <1>0, <1>3, <2>1, GoodPart
  <2>3. Offers(World, Held, <<Make(World, Object(k, o, NoInfo, <<>>)), Next1(World)>>, {k})
    BY <2>2 DEF Offers, Grown, Members
  <2> QED
    BY <1>3, <2>3 DEF Obtains
<1>4. ASSUME NEW o \in DOMAIN obj, GetParam(o) \/ \E k \in {"method", "variable", "impl"} : GetMember(o, k)
      PROVE  Obtains
  BY <1>3, <1>4 DEF GetParam, GetMember, Called, Members
<1>5. ASSUME NEW o \in DOMAIN obj, NEW t \in TypeDesc, GetType(o, t) PROVE Obtains
  <2>1. dying = <<>> /\ Receive(CreateType(World, t))
    BY <1>5 DEF GetType, Called
  <2>2. Offers(World, Held, CreateType(World, t), {t.target})
    BY <1>0, <2>1, GoodCreateType DEF Offers, Gives
  <2> QED
    BY <2>1, <2>2 DEF Obtains
<1>6. ASSUME NEW o \in DOMAIN obj, NEW i \in ITypeInfo \cup {NoInfo}, GetReferred(o, i) PROVE Obtains
  <2>1. dying = <<>> /\ Receive(GetRef(World, i))
    BY <1>6 DEF GetReferred, Called
  <2>2. Offers(World, Held, GetRef(World, i), {i})
    BY <1>0, <2>1, GoodGetRef DEF Offers, Gives
  <2> QED
    BY <2>1, <2>2 DEF Obtains
<1>7. ASSUME NEW o \in DOMAIN obj, GetOwner(o) PROVE Obtains
  <2>1. dying = <<>> /\ Receive(<<AddRef(World, obj[o].parent), obj[o].parent>>)
    BY <1>7 DEF GetOwner, Called
  <2>2. obj[o].parent \in {-1, 0} \cup Alive(World)
    BY <1>0 DEF Shape, ParentsOK
  <2> QED
    BY <2>1, <2>2, OffersAddRef DEF Obtains
<1>8. ASSUME NEW o \in DOMAIN obj, QueryInterface(o) PROVE Obtains
  <2>1. dying = <<>> /\ Receive(<<AddRef(World, o), o>>) /\ obj[o].kind # "deleted"
    BY <1>8 DEF QueryInterface, Called
  <2>2. o \in Alive(World)
    BY <1>0, <2>1 DEF Alive
  <2> QED
    BY <2>1, <2>2, OffersAddRef DEF Obtains
<1> QED
  BY <1>1, <1>2, <1>4, <1>5, <1>6, <1>7, <1>8

\* What is due after a release.
LEMMA DoomedFacts ==
  ASSUME NEW w \in Worlds, NEW o \in {-1, 0} \cup DOMAIN w.obj
  PROVE  Doomed(w, o) = IF o \in DOMAIN w.obj /\ w.obj[o].refs = 0 THEN <<o>> ELSE <<>>
BY WorldFacts DEF Doomed

\* A reference is taken and given back.
LEMMA DropAgain ==
  ASSUME NEW w, NEW h \in Tallies, NEW o \in Alive(w), Good(w, Plus(h, o))
  PROVE  /\ Shape(Drop(w, o)) /\ Counted(Drop(w, o), h)
         /\ Alive(Drop(w, o)) = Alive(w) /\ Grown(w, Drop(w, o), {})
         /\ Dying(Drop(w, o)) = IF Drop(w, o).obj[o].refs = 0 THEN {o} ELSE {}
<1>1. o \in Nat /\ o > 0 /\ o \in Int
  <2>1. w \in Worlds
    BY DEF Good, Shape
  <2> QED
    BY <2>1, WorldFacts DEF Alive
<1>2. /\ Plus(h, o) \in Tallies
      /\ Plus(h, o)[o] = h[o] + 1
      /\ \A x \in Nat \ {o} : h[x] = Plus(h, o)[x]
  BY <1>1, PlusFacts
<1> QED
  BY <1>2, GoodDrop

\* The interface of a declaration is asked for, and the declaration released:
\* what is left is the reference to the library.
LEMMA VtblInterfaceFacts ==
  ASSUME IInv, dying = <<>>, NEW i \in ITypeInfo \cup {NoInfo},
         NEW r, r = GetRef(World, i), NEW w, w = Drop(r[1], r[2]), r[2] # 0
  PROVE  /\ w \in Worlds /\ Shape(w) /\ Counted(w, Held) /\ Grown(World, w, {i})
         /\ r[2] \in Alive(w) /\ w.obj[r[2]].kind = "decl" /\ w.obj[r[2]].key = i
         /\ Dying(w) = IF w.obj[r[2]].refs = 0 THEN {r[2]} ELSE {}
<1>0. World \in Worlds /\ Held \in Tallies /\ Good(World, Held)
  BY InvFacts DEF IInv, DyingInv, Good
<1>1. /\ Good(r[1], Plus(Held, r[2])) /\ Grown(World, r[1], {i})
      /\ r[2] \in Alive(r[1]) /\ r[1].obj[r[2]].kind = "decl" /\ r[1].obj[r[2]].key = i
  <2>1. /\ Gives(World, Held, r, {i}) /\ r[1].obj[r[2]].kind = "decl" /\ r[2] >= 0
    BY <1>0, GoodGetRef
  <2>2. r[2] # -1
    BY <2>1
  <2> QED
    BY <2>1, <2>2 DEF Gives
<1>4. /\ Shape(w) /\ Counted(w, Held)
      /\ Alive(w) = Alive(r[1]) /\ Grown(r[1], w, {})
      /\ Dying(w) = IF w.obj[r[2]].refs = 0 THEN {r[2]} ELSE {}
  BY <1>0, <1>1, DropAgain
<1>5. Grown(World, w, {i})
  BY <1>1, <1>4 DEF Grown
<1> QED
  BY <1>1, <1>4, <1>5 DEF Grown, Shape

LEMMA VtblInterfaceInv ==
  ASSUME IInv, NEW o \in DOMAIN obj, NEW i \in ITypeInfo \cup {NoInfo}, NEW knows \in BOOLEAN,
         GetVtblInterface(o, i, knows)
  PROVE  \/ Obtains
         \/ IInv' /\ UNCHANGED <<obj, held>>
         \/ IInv' /\ UNCHANGED held /\ Grown(World, World', {i})
<1>0. dying = <<>>
  BY DEF GetVtblInterface, Called
<1> DEFINE r == GetRef(World, i)
           w == Drop(r[1], r[2])
<1>1. CASE r[2] = 0
  <2>1. crashed' = TRUE /\ UNCHANGED <<obj, libraries, held, dying>>
    BY <1>1 DEF GetVtblInterface
  <2>2. World' = World /\ Held' = Held
    BY <2>1 DEF World, Held
  <2> QED
    BY <2>1, <2>2 DEF IInv, DyingInv
<1>2. CASE r[2] # 0
  <2>1. /\ w \in Worlds /\ Shape(w) /\ Counted(w, Held) /\ Grown(World, w, {i})
        /\ r[2] \in Alive(w) /\ w.obj[r[2]].kind = "decl" /\ w.obj[r[2]].key = i
        /\ Dying(w) = IF w.obj[r[2]].refs = 0 THEN {r[2]} ELSE {}
    BY <1>0, <1>2, VtblInterfaceFacts
  <2>2. \/ knows /\ Receive(<<AddRef(w, r[2]), r[2]>>)
        \/ /\ Fits(w)
           /\ obj' = w.obj /\ libraries' = w.libraries
           /\ dying' = Doomed(w, r[2])
           /\ UNCHANGED <<held, crashed>>
    BY <1>2 DEF GetVtblInterface
  <2>3. Held \in Tallies
    BY InvFacts
  <2> HIDE DEF w, r
  <2>4. CASE Receive(<<AddRef(w, r[2]), r[2]>>)
    <3>1. Dying(w) \subseteq {r[2]}
      BY <2>1
    <3>2. /\ Good(AddRef(w, r[2]), Plus(Held, r[2])) /\ Alive(AddRef(w, r[2])) = Alive(w)
          /\ Grown(w, AddRef(w, r[2]), {})
      BY <2>1, <2>3, <3>1, GoodAddRef
    <3>3. Offers(World, Held, <<AddRef(w, r[2]), r[2]>>, {i})
      BY <2>1, <3>2 DEF Offers, Grown
    <3> QED
      BY <1>0, <2>4, <3>3 DEF Obtains
  <2>5. CASE /\ Fits(w)
             /\ obj' = w.obj /\ libraries' = w.libraries
             /\ dying' = Doomed(w, r[2])
             /\ UNCHANGED <<held, crashed>>
    <3>1. World' = w
      BY <2>1, <2>5, WorldFacts DEF World
    <3>2. Held' = Held
      BY <2>5 DEF Held
    <3>3. DyingInv'
      <4>1. Doomed(w, r[2]) = IF w.obj[r[2]].refs = 0 THEN <<r[2]>> ELSE <<>>
        BY <2>1, DoomedFacts DEF Alive
      <4>2. r[2] \in DOMAIN obj'
        BY <2>1, <2>5 DEF Alive
      <4> QED
        BY <2>1, <2>5, <3>1, <4>1, <4>2 DEF DyingInv
    <3> QED
      BY <2>1, <2>5, <3>1, <3>2, <3>3 DEF IInv, Fits
  <2> QED
    BY <2>2, <2>4, <2>5
<1> QED
  BY <1>1, <1>2

LEMMA ReleaseInv ==
  ASSUME IInv, NEW o \in DOMAIN obj, Release(o)
  PROVE  /\ IInv' /\ Grown(World, World', {}) /\ Alive(World') = Alive(World)
         /\ o \in Alive(World) /\ held[o] > 0 /\ held' = [held EXCEPT ![o] = @ - 1]
<1> DEFINE w == Drop(World, o)
<1>0. /\ World \in Worlds /\ World.obj = obj /\ Held \in Tallies
      /\ o \in Nat /\ o \in 1 .. MaxObjects /\ Held[o] = held[o] /\ held[o] \in Nat
  BY InvFacts
<1>1. /\ dying = <<>> /\ held[o] > 0 /\ obj[o].kind # "deleted"
      /\ held' = [held EXCEPT ![o] = @ - 1]
      /\ obj' = w.obj /\ dying' = Doomed(w, o)
      /\ libraries' = libraries /\ crashed' = crashed
  BY DEF Release, Called
<1>2. Good(World, Held) /\ o \in Alive(World)
  BY <1>0, <1>1 DEF IInv, DyingInv, Good, Alive
<1>3. /\ held' \in [1 .. MaxObjects -> 0 .. MaxHeld]
      /\ \A x \in 1 .. MaxObjects : held'[x] = IF x = o THEN held[x] - 1 ELSE held[x]
  BY <1>0, <1>1, BoundsAreNumbers DEF IInv
<1>4. Held' \in Tallies
  <2>1. \A x \in 1 .. MaxObjects : held'[x] \in Nat
    BY <1>3, BoundsAreNumbers
  <2> QED
    BY <2>1 DEF Held, Tallies
<1>5. Held[o] = Held'[o] + 1 /\ \A x \in Nat \ {o} : Held'[x] = Held[x]
  <2>1. \A x \in 1 .. MaxObjects : held[x] \in Nat
    BY BoundsAreNumbers DEF IInv
  <2> QED
    BY <1>0, <1>3, <2>1 DEF Held
<1>6. /\ Shape(w) /\ Counted(w, Held')
      /\ Alive(w) = Alive(World) /\ Grown(World, w, {})
      /\ Dying(w) = IF w.obj[o].refs = 0 THEN {o} ELSE {}
      /\ OnlyRefs(World, w, o, obj[o].refs - 1)
  BY <1>0, <1>2, <1>4, <1>5, GoodDrop
<1> HIDE DEF w
<1>7. World' = w
  <2>1. w \in Worlds /\ w.libraries = libraries
    BY <1>0, <1>6 DEF OnlyRefs, World
  <2> QED
    BY <1>1, <2>1, WorldFacts DEF World
<1>8. Len(obj') <= MaxObjects /\ o \in DOMAIN obj' /\ w \in Worlds
  BY <1>0, <1>1, <1>6 DEF OnlyRefs, IInv
<1>9. DyingInv'
  <2>1. Doomed(w, o) = IF w.obj[o].refs = 0 THEN <<o>> ELSE <<>>
    BY <1>1, <1>8, DoomedFacts
  <2> QED
    BY <1>1, <1>6, <1>7, <1>8, <2>1 DEF DyingInv
<1>10. Shape(World') /\ Counted(World', Held')
  BY <1>6, <1>7
<1>11. crashed' \in BOOLEAN
  BY <1>1 DEF IInv
<1> QED
  BY <1>1, <1>2, <1>3, <1>6, <1>7, <1>8, <1>9, <1>10, <1>11 DEF IInv

\* The body of a destructor touches only the caches.
LEMMA UnregisterFacts ==
  ASSUME NEW w, Shape(w), NEW o \in Alive(w)
  PROVE  LET u == Unregister(w, o)
         IN  /\ u \in Worlds /\ DOMAIN u.obj = DOMAIN w.obj
             /\ \A q \in DOMAIN w.obj :
                  /\ u.obj[q].kind = w.obj[q].kind /\ u.obj[q].parent = w.obj[q].parent
                  /\ u.obj[q].key = w.obj[q].key /\ u.obj[q].refs = w.obj[q].refs
                  /\ q # w.obj[o].parent \/ w.obj[o].kind # "decl" =>
                       u.obj[q].children = w.obj[q].children
             /\ u.libraries = IF w.obj[o].kind = "lib"
                              THEN [w.libraries EXCEPT ![w.obj[o].key] = 0] ELSE w.libraries
             /\ w.obj[o].kind = "decl" =>
                  u.obj[w.obj[o].parent].children =
                    [w.obj[w.obj[o].parent].children EXCEPT ![w.obj[o].key] = 0]
<1>0. w \in Worlds /\ o \in DOMAIN w.obj /\ LibrariesOK(w) /\ ParentsOK(w) /\ ChildrenOK(w)
  BY DEF Shape, Alive
<1> DEFINE u == Unregister(w, o)
<1>1. CASE w.obj[o].kind = "lib"
  <2>1. u = [w EXCEPT !.libraries[w.obj[o].key] = 0]
    BY <1>1 DEF Unregister
  <2>2. w.obj[o].key \in ITypeLib
    BY <1>0, <1>1 DEF LibrariesOK
  <2> DEFINE l == w.obj[o].key
  <2> HIDE DEF l
  <2>3. [w.libraries EXCEPT ![l] = 0] \in [ITypeLib -> Nat]
    BY <1>0, WorldFacts
  <2>4. u = [w EXCEPT !.libraries = [w.libraries EXCEPT ![l] = 0]]
    BY <2>1 DEF l
  <2>5. u = [obj |-> w.obj, libraries |-> [w.libraries EXCEPT ![l] = 0]]
    BY <1>0, <2>4, WorldFacts
  <2> HIDE DEF u
  <2>6. w.obj \in Seq(Objects)
    BY <1>0 DEF Worlds
  <2>7. /\ u.obj = w.obj /\ u \in Worlds
        /\ u.libraries = [w.libraries EXCEPT ![l] = 0]
    BY <2>3, <2>5, <2>6 DEF Worlds
  <2> QED
    BY <1>1, <2>7 DEF u, l
<1>2. CASE w.obj[o].kind = "decl"
  <2> DEFINE p == w.obj[o].parent
             i == w.obj[o].key
             kids == [w.obj[p].children EXCEPT ![i] = 0]
             x == [w.obj[p] EXCEPT !.children = kids]
  <2>1. u = [w EXCEPT !.obj[p].children[i] = 0]
    BY <1>2 DEF Unregister
  <2>2. p \in DOMAIN w.obj /\ w.obj[p].kind = "lib" /\ i \in ITypeInfo
    BY <1>0, <1>2 DEF ParentsOK, Alive
  <2>3. w.obj[p] \in Objects /\ w.obj[p].children \in [ITypeInfo -> Nat]
    BY <1>0, <2>2, WorldFacts DEF ChildrenOK
  <2> HIDE DEF p, i
  <2>4. kids \in [ITypeInfo -> Nat]
    BY <2>2, <2>3
  <2>5. u = [w EXCEPT !.obj = [w.obj EXCEPT ![p] = x]]
    BY <2>1
  <2> HIDE DEF kids
  <2>6. x \in Objects
    BY <2>3, <2>4 DEF Objects
  <2>7. /\ x.children = kids /\ x.kind = w.obj[p].kind /\ x.parent = w.obj[p].parent
        /\ x.key = w.obj[p].key /\ x.refs = w.obj[p].refs
    BY <2>3 DEF Objects
  <2> HIDE DEF x
  <2>8. [w.obj EXCEPT ![p] = x] \in Seq(Objects)
    <3>1. w.obj \in Seq(Objects) /\ p \in DOMAIN w.obj
      BY <1>0, <2>2 DEF Worlds
    <3> QED
      BY <2>6, <3>1
  <2>9. u.obj = [w.obj EXCEPT ![p] = x] /\ u.libraries = w.libraries /\ u \in Worlds
    BY <1>0, <2>5, <2>8 DEF Worlds
  <2> HIDE DEF u
  <2>10. /\ DOMAIN u.obj = DOMAIN w.obj /\ u.obj[p] = x
         /\ \A q \in DOMAIN w.obj \ {p} : u.obj[q] = w.obj[q]
    BY <2>2, <2>9
  <2> QED
    BY <1>2, <2>7, <2>9, <2>10 DEF u, p, i, kids
<1>3. CASE w.obj[o].kind \notin {"lib", "decl"}
  BY <1>0, <1>3 DEF Unregister
<1> QED
  BY <1>1, <1>2, <1>3

\* What a destructor leaves behind.
LEMMA DestructFacts ==
  ASSUME IInv, Destruct
  PROVE  \E o \in DOMAIN obj :
           /\ dying = <<o>> /\ o \in Alive(World) /\ obj[o].refs = 0
           /\ ReferrersIn(World, o) = {} /\ Held[o] = 0
           /\ obj[o].parent # o
           /\ World' \in Worlds /\ DOMAIN obj' = DOMAIN obj /\ Len(obj') = Len(obj)
           /\ obj'[o] = Deleted
           /\ \A q \in DOMAIN obj \ {o} :
                /\ obj'[q].kind = obj[q].kind /\ obj'[q].parent = obj[q].parent
                /\ obj'[q].key = obj[q].key
                /\ q # obj[o].parent => obj'[q].refs = obj[q].refs
                /\ q # obj[o].parent \/ obj[o].kind # "decl" =>
                     obj'[q].children = obj[q].children
           /\ obj[o].parent > 0 =>
                /\ obj[obj[o].parent].refs > 0
                /\ obj'[obj[o].parent].refs = obj[obj[o].parent].refs - 1
           /\ libraries' = IF obj[o].kind = "lib"
                           THEN [libraries EXCEPT ![obj[o].key] = 0] ELSE libraries
           /\ obj[o].kind = "decl" =>
                obj'[obj[o].parent].children = [obj[obj[o].parent].children EXCEPT ![obj[o].key] = 0]
           /\ dying' = IF obj[o].parent > 0 /\ obj'[obj[o].parent].refs = 0
                       THEN <<obj[o].parent>> ELSE <<>>
           /\ UNCHANGED <<held, crashed>>
<1>0. /\ World \in Worlds /\ World.obj = obj /\ World.libraries = libraries /\ Held \in Tallies
      /\ Shape(World) /\ Counted(World, Held) /\ ParentsOK(World)
  BY InvFacts DEF IInv, Shape
<1>1. dying # <<>>
  BY DEF Destruct
<1>2. PICK o \in DOMAIN obj : dying = <<o>> /\ Dying(World) = {o}
  BY <1>1 DEF IInv, DyingInv
<1>3. o \in Alive(World) /\ obj[o].refs = 0
  BY <1>0, <1>2 DEF Dying
<1>4. ReferrersIn(World, o) = {} /\ Held[o] = 0
  <2>1. 0 >= Held[o] + Cardinality(ReferrersIn(World, o))
    BY <1>0, <1>3 DEF Counted
  <2>2. Held[o] \in Nat /\ Cardinality(ReferrersIn(World, o)) \in Nat
    BY <1>0, Finite, InvFacts DEF Tallies
  <2>3. Cardinality(ReferrersIn(World, o)) = 0 /\ Held[o] = 0
    BY <2>1, <2>2
  <2> QED
    BY <1>0, <2>3, Finite
<1> DEFINE p == obj[o].parent
           u == Unregister(World, o)
           w == Drop(u, p)
<1>5. p # o /\ p \in {-1, 0} \cup Alive(World)
  BY <1>0, <1>3, <1>4 DEF ReferrersIn, ParentsOK
<1>6. /\ u \in Worlds /\ DOMAIN u.obj = DOMAIN obj
      /\ \A q \in DOMAIN obj :
           /\ u.obj[q].kind = obj[q].kind /\ u.obj[q].parent = obj[q].parent
           /\ u.obj[q].key = obj[q].key /\ u.obj[q].refs = obj[q].refs
           /\ q # p \/ obj[o].kind # "decl" => u.obj[q].children = obj[q].children
      /\ u.libraries = IF obj[o].kind = "lib"
                       THEN [libraries EXCEPT ![obj[o].key] = 0] ELSE libraries
      /\ obj[o].kind = "decl" =>
           u.obj[p].children = [obj[p].children EXCEPT ![obj[o].key] = 0]
  BY <1>0, <1>3, UnregisterFacts
<1>7. p > 0 => p \in Alive(World) /\ obj[p].refs > 0
  <2>1. SUFFICES ASSUME p > 0 PROVE p \in Alive(World) /\ obj[p].refs > 0
    OBVIOUS
  <2>2. p \in Alive(World)
    BY <1>5, <2>1
  <2>3. o \in ReferrersIn(World, p)
    BY <1>0, <1>3 DEF ReferrersIn
  <2>4. Cardinality(ReferrersIn(World, p)) \in Nat /\ Cardinality(ReferrersIn(World, p)) # 0
    BY <1>0, <2>3, Finite
  <2>5. Held[p] \in Nat /\ obj[p].refs \in Nat
    BY <1>0, <2>2, InvFacts DEF Alive, Objects
  <2>6. obj[p].refs >= Held[p] + Cardinality(ReferrersIn(World, p))
    BY <1>0, <2>2 DEF Counted, Alive
  <2> QED
    BY <2>2, <2>4, <2>5, <2>6
<1>8. /\ w \in Worlds /\ w.libraries = u.libraries /\ DOMAIN w.obj = DOMAIN obj
      /\ \A q \in DOMAIN obj :
           /\ w.obj[q].kind = u.obj[q].kind /\ w.obj[q].parent = u.obj[q].parent
           /\ w.obj[q].key = u.obj[q].key /\ w.obj[q].children = u.obj[q].children
           /\ q # p => w.obj[q].refs = u.obj[q].refs
      /\ p > 0 => w.obj[p].refs = obj[p].refs - 1
  <2> HIDE DEF u
  <2>1. CASE p > 0
    <3>1. p \in DOMAIN u.obj /\ u.obj[p].refs = obj[p].refs /\ obj[p].refs > 0
      BY <1>6, <1>7, <2>1, <1>0 DEF Alive
    <3>2. OnlyRefs(u, w, p, u.obj[p].refs - 1)
      BY <1>6, <3>1, DropFacts
    <3> QED
      BY <1>6, <3>1, <3>2 DEF OnlyRefs
  <2>2. CASE ~(p > 0)
    <3>1. w = u
      BY <2>2 DEF Drop
    <3> QED
      BY <1>6, <2>2, <3>1
  <2> QED
    BY <2>1, <2>2
<1>9. /\ obj' = [w.obj EXCEPT ![o] = Deleted]
      /\ libraries' = w.libraries
      /\ dying' = Doomed(w, p) \o Tail(dying)
      /\ UNCHANGED <<held, crashed>>
  <2>1. /\ Head(dying) = o
        /\ LetGo(u, o) = w
    BY <1>0, <1>2, <1>6 DEF LetGo
  <2> QED
    BY <2>1, <1>2 DEF Destruct
<1> HIDE DEF w, u
<1>10. Deleted \in Objects
  BY DEF Deleted, Object, Objects, Kinds
<1>11. /\ DOMAIN obj' = DOMAIN obj /\ obj'[o] = Deleted
       /\ \A q \in DOMAIN obj \ {o} : obj'[q] = w.obj[q]
       /\ obj' \in Seq(Objects) /\ Len(obj') = Len(obj)
  <2>1. w.obj \in Seq(Objects) /\ o \in DOMAIN w.obj
    BY <1>8 DEF Worlds
  <2>2. [w.obj EXCEPT ![o] = Deleted] \in Seq(Objects)
    BY <1>10, <2>1
  <2>3. DOMAIN obj' = DOMAIN obj /\ obj'[o] = Deleted /\ \A q \in DOMAIN obj \ {o} : obj'[q] = w.obj[q]
    BY <1>8, <1>9, <2>1
  <2>4. Len(obj') = Len(obj)
    <3>1. /\ DOMAIN obj' = 1 .. Len(obj') /\ Len(obj') \in Nat
          /\ DOMAIN obj = 1 .. Len(obj) /\ Len(obj) \in Nat
      BY <1>9, <2>2, InvFacts
    <3>2. \A m, n \in Nat : 1 .. m = 1 .. n => m = n
      OBVIOUS
    <3>3. 1 .. Len(obj') = 1 .. Len(obj)
      BY <2>3, <3>1
    <3> QED
      BY <3>1, <3>2, <3>3
  <2> QED
    BY <1>9, <2>2, <2>3, <2>4
<1>12. World' \in Worlds
  BY <1>8, <1>9, <1>11 DEF World, Worlds
<1>13. dying' = IF p > 0 /\ obj'[p].refs = 0 THEN <<p>> ELSE <<>>
  <2>1. Tail(dying) = <<>>
    BY <1>2
  <2>2. Doomed(w, p) = IF p > 0 /\ obj'[p].refs = 0 THEN <<p>> ELSE <<>>
    <3>1. p > 0 => obj'[p] = w.obj[p]
      BY <1>0, <1>5, <1>7, <1>11 DEF Alive
    <3> QED
      BY <3>1 DEF Doomed
  <2>3. <<p>> \o <<>> = <<p>> /\ <<>> \o <<>> = <<>>
    OBVIOUS
  <2> QED
    BY <1>9, <2>1, <2>2, <2>3
<1>14. \A q \in DOMAIN obj \ {o} :
         /\ obj'[q].kind = obj[q].kind /\ obj'[q].parent = obj[q].parent
         /\ obj'[q].key = obj[q].key
         /\ q # p => obj'[q].refs = obj[q].refs
         /\ q # p \/ obj[o].kind # "decl" => obj'[q].children = obj[q].children
  BY <1>6, <1>8, <1>11
<1>15. p > 0 => /\ obj[p].refs > 0
                /\ obj'[p].refs = obj[p].refs - 1
  BY <1>0, <1>5, <1>7, <1>8, <1>11 DEF Alive
<1>16. obj[o].kind = "decl" => obj'[p].children = [obj[p].children EXCEPT ![obj[o].key] = 0]
  <2>1. obj[o].kind = "decl" => p \in DOMAIN obj \ {o}
    BY <1>0, <1>5 DEF ParentsOK, Alive
  <2> QED
    BY <1>6, <1>8, <1>11, <2>1
<1> QED
  BY <1>2, <1>3, <1>4, <1>5, <1>6, <1>8, <1>9, <1>11, <1>12, <1>13, <1>14, <1>15, <1>16

\* A destructor leaves the other objects as they were, and counted.
LEMMA DestructInv ==
  ASSUME IInv, Destruct
  PROVE  /\ IInv' /\ UNCHANGED held
         /\ \E o \in Alive(World) :
              /\ Alive(World') = Alive(World) \ {o} /\ held[o] = 0
              /\ \A q \in Alive(World') : obj'[q].kind = obj[q].kind /\ obj'[q].key = obj[q].key
<1>0. /\ World \in Worlds /\ World.obj = obj /\ World.libraries = libraries /\ Held \in Tallies
      /\ Counted(World, Held) /\ ParentsOK(World) /\ LibrariesOK(World) /\ ChildrenOK(World)
      /\ \A q \in DOMAIN obj : obj[q] \in Objects /\ q \in Nat /\ q > 0
      /\ \A q \in DOMAIN obj : Held[q] = held[q] /\ held[q] \in Nat
  BY InvFacts DEF IInv, Shape
<1>1. PICK o \in DOMAIN obj :
        /\ dying = <<o>> /\ o \in Alive(World) /\ obj[o].refs = 0
        /\ ReferrersIn(World, o) = {} /\ Held[o] = 0
        /\ obj[o].parent # o
        /\ World' \in Worlds /\ DOMAIN obj' = DOMAIN obj /\ Len(obj') = Len(obj)
        /\ obj'[o] = Deleted
        /\ \A q \in DOMAIN obj \ {o} :
             /\ obj'[q].kind = obj[q].kind /\ obj'[q].parent = obj[q].parent
             /\ obj'[q].key = obj[q].key
             /\ q # obj[o].parent => obj'[q].refs = obj[q].refs
             /\ q # obj[o].parent \/ obj[o].kind # "decl" =>
                  obj'[q].children = obj[q].children
        /\ obj[o].parent > 0 =>
             /\ obj[obj[o].parent].refs > 0
             /\ obj'[obj[o].parent].refs = obj[obj[o].parent].refs - 1
        /\ libraries' = IF obj[o].kind = "lib"
                        THEN [libraries EXCEPT ![obj[o].key] = 0] ELSE libraries
        /\ obj[o].kind = "decl" =>
             obj'[obj[o].parent].children = [obj[obj[o].parent].children EXCEPT ![obj[o].key] = 0]
        /\ dying' = IF obj[o].parent > 0 /\ obj'[obj[o].parent].refs = 0
                    THEN <<obj[o].parent>> ELSE <<>>
        /\ UNCHANGED <<held, crashed>>
  BY DestructFacts
<1> DEFINE p == obj[o].parent
<1>2. World'.obj = obj' /\ World'.libraries = libraries' /\ Held' = Held
  BY <1>1 DEF World, Held
<1>3. /\ obj'[o].kind = "deleted" /\ obj'[o].refs = 0 /\ obj'[o].parent = 0
  BY <1>1 DEF Deleted, Object
<1>4. Alive(World') = Alive(World) \ {o}
  BY <1>0, <1>1, <1>2, <1>3 DEF Alive
<1>5. \A q : ReferrersIn(World', q) = ReferrersIn(World, q) \ {o}
  <2>1. \A q \in Alive(World) \ {o} : World'.obj[q].parent = World.obj[q].parent
    BY <1>0, <1>1, <1>2 DEF Alive
  <2> QED
    BY <1>4, <2>1 DEF ReferrersIn
<1>6. \A q \in DOMAIN obj \ {o} : obj[q].parent # o
  <2>1. SUFFICES ASSUME NEW q \in DOMAIN obj \ {o}, obj[q].parent = o PROVE FALSE
    OBVIOUS
  <2>2. q \notin ReferrersIn(World, o)
    BY <1>1
  <2>3. obj[q].kind = "deleted"
    BY <1>0, <2>1, <2>2 DEF ReferrersIn, Alive
  <2> QED
    BY <1>0, <2>1, <2>3 DEF ParentsOK
<1>7. ParentsOK(World')
  <2>1. SUFFICES ASSUME NEW q \in DOMAIN obj \ {o}
                 PROVE  /\ obj'[q].parent \in {-1, 0} \cup Alive(World')
                        /\ obj'[q].kind \in {"lib", "deleted"} => obj'[q].parent = 0
                        /\ obj'[q].kind = "deleted" => obj'[q].refs = 0
                        /\ obj'[q].kind = "decl" =>
                             /\ obj'[q].key \in ITypeInfo
                             /\ obj'[q].parent \in Alive(World')
                             /\ obj'[obj'[q].parent].kind = "lib"
                             /\ obj'[obj'[q].parent].key = LibOf[obj'[q].key]
    BY <1>1, <1>2, <1>3 DEF ParentsOK
  <2>2. obj[q].parent \in {-1, 0} \cup Alive(World')
    BY <1>0, <1>4, <1>6 DEF ParentsOK
  <2>3. obj'[q].kind = "deleted" => obj'[q].refs = 0
    <3>1. p \in {-1, 0} \cup Alive(World)
      BY <1>0 DEF ParentsOK
    <3>2. obj[q].kind = "deleted" => q # p
      BY <1>0, <3>1 DEF Alive
    <3> QED
      BY <1>0, <1>1, <3>2 DEF ParentsOK
  <2>4. ASSUME obj'[q].kind = "decl"
        PROVE  /\ obj'[q].key \in ITypeInfo
               /\ obj'[q].parent \in Alive(World')
               /\ obj'[obj'[q].parent].kind = "lib"
               /\ obj'[obj'[q].parent].key = LibOf[obj'[q].key]
    <3>1. /\ obj[q].key \in ITypeInfo /\ obj[q].parent \in Alive(World)
          /\ obj[obj[q].parent].kind = "lib" /\ obj[obj[q].parent].key = LibOf[obj[q].key]
      BY <1>0, <1>1, <2>4 DEF ParentsOK
    <3>2. obj[q].parent \in DOMAIN obj \ {o}
      BY <1>0, <1>6, <3>1 DEF Alive
    <3> QED
      BY <1>1, <1>4, <3>1, <3>2
  <2> QED
    BY <1>0, <1>1, <2>2, <2>3, <2>4 DEF ParentsOK
<1>8. LibrariesOK(World')
  <2>1. CASE obj[o].kind = "lib"
    <3>1. obj[o].key \in ITypeLib /\ libraries[obj[o].key] = o
      BY <1>0, <2>1 DEF LibrariesOK
    <3>2. \A l \in ITypeLib : libraries'[l] = IF l = obj[o].key THEN 0 ELSE libraries[l]
      <4>1. libraries \in [ITypeLib -> Nat]
        BY <1>0, WorldFacts
      <4> QED
        BY <1>1, <2>1, <4>1
    <3>3. ASSUME NEW q \in DOMAIN obj, obj'[q].kind = "lib"
          PROVE  obj'[q].key \in ITypeLib /\ libraries'[obj'[q].key] = q
      <4>1. q # o /\ obj[q].kind = "lib" /\ obj'[q].key = obj[q].key
        BY <1>1, <1>3, <3>3
      <4>2. obj[q].key \in ITypeLib /\ libraries[obj[q].key] = q
        BY <1>0, <4>1 DEF LibrariesOK
      <4> QED
        BY <3>1, <3>2, <4>1, <4>2
    <3>4. ASSUME NEW l \in ITypeLib, libraries'[l] # 0
          PROVE  /\ libraries'[l] \in DOMAIN obj
                 /\ obj'[libraries'[l]].kind = "lib" /\ obj'[libraries'[l]].key = l
      <4>1. l # obj[o].key /\ libraries'[l] = libraries[l]
        BY <3>2, <3>4
      <4>2. /\ libraries[l] \in DOMAIN obj
            /\ obj[libraries[l]].kind = "lib" /\ obj[libraries[l]].key = l
        BY <1>0, <3>4, <4>1 DEF LibrariesOK
      <4> QED
        BY <1>1, <4>1, <4>2
    <3> QED
      BY <1>1, <1>2, <3>3, <3>4 DEF LibrariesOK
  <2>2. CASE obj[o].kind # "lib"
    <3>1. libraries' = libraries
      BY <1>1, <2>2
    <3>2. \A l \in ITypeLib : libraries[l] # 0 => libraries[l] # o
      BY <1>0, <2>2 DEF LibrariesOK
    <3> QED
      BY <1>0, <1>1, <1>2, <1>3, <3>1, <3>2 DEF LibrariesOK
  <2> QED
    BY <2>1, <2>2
<1>9. ChildrenOK(World')
  <2>1. \A q \in DOMAIN obj, c \in DOMAIN obj :
          obj[q].kind = "decl" /\ obj[c].kind = "decl" /\ obj[q].parent = obj[c].parent
          /\ obj[q].key = obj[c].key => q = c
    <3>1. \A q \in DOMAIN obj : obj[q].kind = "decl" =>
            obj[obj[q].parent].children[obj[q].key] = q
      BY <1>0 DEF ChildrenOK
    <3> QED
      BY <3>1
  <2>2. \A q \in DOMAIN obj : obj[q].kind = "decl" =>
          /\ obj[q].parent \in DOMAIN obj /\ obj[obj[q].parent].kind = "lib"
          /\ obj[obj[q].parent].children \in [ITypeInfo -> Nat] /\ obj[q].key \in ITypeInfo
          /\ obj[obj[q].parent].children[obj[q].key] = q
    BY <1>0 DEF ChildrenOK, ParentsOK, Alive
  <2>3. \A q \in DOMAIN obj \ {o} : obj[q].kind = "lib" =>
          /\ obj'[q].children \in [ITypeInfo -> Nat]
          /\ \A i \in ITypeInfo :
               obj'[q].children[i] = IF obj[o].kind = "decl" /\ q = p /\ i = obj[o].key
                                     THEN 0 ELSE obj[q].children[i]
    <3>1. SUFFICES ASSUME NEW q \in DOMAIN obj \ {o}, obj[q].kind = "lib"
                   PROVE  /\ obj'[q].children \in [ITypeInfo -> Nat]
                          /\ \A i \in ITypeInfo :
                               obj'[q].children[i] = IF obj[o].kind = "decl" /\ q = p /\ i = obj[o].key
                                                     THEN 0 ELSE obj[q].children[i]
      OBVIOUS
    <3>2. obj[q].children \in [ITypeInfo -> Nat]
      BY <1>0, <3>1 DEF ChildrenOK
    <3>3. CASE obj[o].kind = "decl" /\ q = p
      <4>1. obj'[q].children = [obj[q].children EXCEPT ![obj[o].key] = 0]
        BY <1>1, <3>3
      <4>2. \A k, f : f \in [ITypeInfo -> Nat] =>
              /\ [f EXCEPT ![k] = 0] \in [ITypeInfo -> Nat]
              /\ \A i \in ITypeInfo : [f EXCEPT ![k] = 0][i] = IF i = k THEN 0 ELSE f[i]
        OBVIOUS
      <4>3. /\ [obj[q].children EXCEPT ![obj[o].key] = 0] \in [ITypeInfo -> Nat]
            /\ \A i \in ITypeInfo : [obj[q].children EXCEPT ![obj[o].key] = 0][i]
                                    = IF i = obj[o].key THEN 0 ELSE obj[q].children[i]
        BY <3>2, <4>2
      <4> QED
        BY <3>3, <4>1, <4>3
    <3>4. CASE ~(obj[o].kind = "decl" /\ q = p)
      <4>1. obj'[q].children = obj[q].children
        BY <1>1, <3>4
      <4> QED
        BY <3>2, <3>4, <4>1
    <3> QED
      BY <3>3, <3>4
  <2>4. ASSUME NEW q \in DOMAIN obj, obj'[q].kind = "decl"
        PROVE  obj'[obj'[q].parent].children[obj'[q].key] = q
    <3>1. q # o /\ obj[q].kind = "decl" /\ obj'[q].parent = obj[q].parent /\ obj'[q].key = obj[q].key
      BY <1>1, <1>3, <2>4
    <3>2. obj[q].parent \in DOMAIN obj \ {o}
      BY <1>6, <2>2, <3>1
    <3>3. ~(obj[o].kind = "decl" /\ obj[q].parent = p /\ obj[q].key = obj[o].key)
      BY <2>1, <3>1
    <3> QED
      BY <2>2, <2>3, <3>1, <3>2, <3>3
  <2>5. ASSUME NEW q \in DOMAIN obj, obj'[q].kind = "lib"
        PROVE  /\ obj'[q].children \in [ITypeInfo -> Nat]
               /\ \A i \in ITypeInfo, c \in Nat \ {0} : obj'[q].children[i] = c =>
                    /\ c \in DOMAIN obj' /\ obj'[c].kind = "decl"
                    /\ obj'[c].key = i /\ obj'[c].parent = q
    <3>1. q # o /\ obj[q].kind = "lib"
      BY <1>1, <1>3, <2>5
    <3>2. ASSUME NEW i \in ITypeInfo, NEW c \in Nat \ {0}, obj'[q].children[i] = c
          PROVE  /\ c \in DOMAIN obj' /\ obj'[c].kind = "decl"
                 /\ obj'[c].key = i /\ obj'[c].parent = q
      <4>1. /\ obj[q].children[i] = c
            /\ ~(obj[o].kind = "decl" /\ q = p /\ i = obj[o].key)
        BY <2>3, <3>1, <3>2
      <4>2. c \in DOMAIN obj /\ obj[c].kind = "decl" /\ obj[c].key = i /\ obj[c].parent = q
        BY <1>0, <3>1, <4>1 DEF ChildrenOK
      <4>3. c # o
        BY <4>1, <4>2
      <4> QED
        BY <1>1, <4>2, <4>3
    <3> QED
      BY <2>3, <3>1, <3>2
  <2> QED
    BY <1>1, <1>2, <2>4, <2>5 DEF ChildrenOK
<1>10. Counted(World', Held')
  <2>1. ASSUME NEW q \in DOMAIN obj
        PROVE  /\ obj'[q].refs >= Held[q] + Cardinality(ReferrersIn(World', q))
               /\ obj'[q].kind \in Members =>
                    obj'[q].refs = Held[q] + Cardinality(ReferrersIn(World', q))
    <3>0. /\ obj[q].refs >= Held[q] + Cardinality(ReferrersIn(World, q))
          /\ obj[q].kind \in Members => obj[q].refs = Held[q] + Cardinality(ReferrersIn(World, q))
          /\ Held[q] \in Nat /\ obj[q].refs \in Nat
          /\ IsFiniteSet(ReferrersIn(World, q)) /\ Cardinality(ReferrersIn(World, q)) \in Nat
      BY <1>0, Finite DEF Counted, Objects
    <3>1. CASE q = o
      <4>1. ReferrersIn(World', o) = {}
        BY <1>1, <1>5
      <4>2. Cardinality({}) = 0
        BY FS_EmptySet
      <4> QED
        BY <1>1, <1>3, <3>1, <4>1, <4>2 DEF Members
    <3>2. CASE q # o /\ q = p
      <4>1. o \in ReferrersIn(World, q)
        BY <1>0, <1>1, <3>2 DEF ReferrersIn
      <4>2. Cardinality(ReferrersIn(World', q)) = Cardinality(ReferrersIn(World, q)) - 1
        BY <1>5, <3>0, <4>1, FS_RemoveElement
      <4>3. obj'[q].refs = obj[q].refs - 1 /\ obj'[q].kind = obj[q].kind
        BY <1>0, <1>1, <3>2
      <4> QED
        BY <3>0, <4>2, <4>3
    <3>3. CASE q # o /\ q # p
      <4>1. o \notin ReferrersIn(World, q)
        BY <1>0, <3>3 DEF ReferrersIn
      <4>2. ReferrersIn(World', q) = ReferrersIn(World, q)
        BY <1>5, <4>1
      <4>3. obj'[q].refs = obj[q].refs /\ obj'[q].kind = obj[q].kind
        BY <1>1, <3>3
      <4> QED
        BY <3>0, <4>2, <4>3
    <3> QED
      BY <3>1, <3>2, <3>3
  <2> QED
    BY <1>0, <1>1, <1>2, <2>1 DEF Counted
<1>11. DyingInv'
  <2>1. Dying(World) = {o}
    BY <1>1 DEF IInv, DyingInv
  <2>2. \A q \in Alive(World') : q # p => obj'[q].refs # 0
    <3>1. \A q \in Alive(World) \ {o} : obj[q].refs # 0
      BY <1>0, <2>1 DEF Dying
    <3> QED
      BY <1>0, <1>1, <1>4, <3>1 DEF Alive
  <2>3. CASE p > 0 /\ obj'[p].refs = 0
    <3>1. p \in Alive(World') /\ p \in DOMAIN obj'
      <4>1. p \in Alive(World)
        BY <1>0, <2>3 DEF ParentsOK
      <4> QED
        BY <1>0, <1>1, <1>4, <4>1 DEF Alive
    <3>2. Dying(World') = {p}
      BY <1>2, <2>2, <2>3, <3>1 DEF Dying
    <3>3. dying' = <<p>>
      BY <1>1, <2>3
    <3> QED
      BY <3>1, <3>2, <3>3 DEF DyingInv
  <2>4. CASE ~(p > 0 /\ obj'[p].refs = 0)
    <3>1. p \in Alive(World') => p > 0
      BY <1>0, <1>4 DEF Alive
    <3>2. Dying(World') = {}
      BY <1>2, <2>2, <2>4, <3>1 DEF Dying
    <3>3. dying' = <<>>
      BY <1>1, <2>4
    <3> QED
      BY <3>2, <3>3 DEF DyingInv
  <2> QED
    BY <2>3, <2>4
<1>12. Shape(World')
  BY <1>1, <1>7, <1>8, <1>9 DEF Shape
<1>13. Len(obj') <= MaxObjects /\ held' \in [1 .. MaxObjects -> 0 .. MaxHeld] /\ crashed' \in BOOLEAN
  BY <1>1 DEF IInv
<1>14. IInv'
  BY <1>10, <1>11, <1>12, <1>13 DEF IInv
<1>15. held[o] = 0 /\ held' = held
  BY <1>0, <1>1
<1>16. \A q \in Alive(World') : obj'[q].kind = obj[q].kind /\ obj'[q].key = obj[q].key
  BY <1>0, <1>1, <1>4 DEF Alive
<1> QED
  BY <1>1, <1>4, <1>14, <1>15, <1>16

-----------------------------------------------------------------------------
(* The invariant.                                                          *)

LEMMA InvInit == Init => IInv
<1> SUFFICES ASSUME Init PROVE IInv
  OBVIOUS
<1>1. /\ obj = <<>> /\ libraries = [l \in ITypeLib |-> 0]
      /\ held = [o \in 1 .. MaxObjects |-> 0] /\ dying = <<>> /\ crashed = FALSE
  BY DEF Init
<1>2. /\ World.obj = obj /\ World.libraries = libraries
      /\ DOMAIN obj = {} /\ Len(obj) = 0 /\ obj \in Seq(Objects)
  BY <1>1 DEF World
<1>3. World \in Worlds
  BY <1>1, <1>2 DEF World, Worlds
<1>4. Alive(World) = {} /\ Dying(World) = {}
  BY <1>2 DEF Alive, Dying
<1>5. \A l \in ITypeLib : libraries[l] = 0
  BY <1>1
<1>6. Shape(World)
  BY <1>2, <1>3, <1>5 DEF Shape, ParentsOK, LibrariesOK, ChildrenOK
<1>7. \A o \in Nat : Held[o] = 0
  BY <1>1 DEF Held
<1>8. Counted(World, Held)
  BY <1>2, <1>7 DEF Counted
<1>9. held \in [1 .. MaxObjects -> 0 .. MaxHeld] /\ Len(obj) <= MaxObjects
  BY <1>1, <1>2, BoundsAreNumbers
<1>10. DyingInv
  BY <1>1, <1>4 DEF DyingInv
<1> QED
  BY <1>1, <1>6, <1>8, <1>9, <1>10 DEF IInv

\* Every step is a getter, the interface question, a release or a destructor.
LEMMA InvNext ==
  ASSUME IInv, [Next]_vars
  PROVE  IInv'
<1>1. ASSUME UNCHANGED vars PROVE IInv'
  <2>1. /\ World' = World /\ Held' = Held /\ held' = held /\ obj' = obj
        /\ dying' = dying /\ crashed' = crashed
    BY <1>1 DEF vars, World, Held
  <2> QED
    BY <2>1 DEF IInv, DyingInv
<1>2. ASSUME Next PROVE IInv'
  <2>1. ASSUME Obtains PROVE IInv'
    BY <2>1, ObtainsInv
  <2>2. ASSUME NEW o \in DOMAIN obj, NEW i \in ITypeInfo \cup {NoInfo}, NEW knows \in BOOLEAN,
               GetVtblInterface(o, i, knows)
        PROVE  IInv'
    BY <2>1, <2>2, VtblInterfaceInv
  <2>3. ASSUME NEW o \in DOMAIN obj, Release(o) PROVE IInv'
    BY <2>3, ReleaseInv
  <2>4. ASSUME Destruct PROVE IInv'
    BY <2>4, DestructInv
  <2> QED
    BY <1>2, <2>1, <2>2, <2>3, <2>4, JavaObtains DEF Next
<1> QED
  BY <1>1, <1>2

LEMMA Invariant == Spec => []IInv
<1>1. Init => IInv
  BY InvInit
<1>2. IInv /\ [Next]_vars => IInv'
  BY InvNext
<1> QED
  BY <1>1, <1>2, PTL DEF Spec

-----------------------------------------------------------------------------

\* Objects are within the bounds and of a kind, parents and caches name places
\* of objects, and no reference count falls below zero.
THEOREM TypeCorrect == Spec => []TypeOK
<1>1. IInv => TypeOK
  <2> SUFFICES ASSUME IInv PROVE TypeOK
    OBVIOUS
  <2>1. /\ World \in Worlds /\ World.obj = obj /\ World.libraries = libraries
        /\ Len(obj) \in Nat /\ DOMAIN obj = 1 .. Len(obj)
        /\ \A o \in DOMAIN obj : obj[o] \in Objects
        /\ ParentsOK(World) /\ LibrariesOK(World)
    BY InvFacts DEF IInv, Shape
  <2>2. \A o \in DOMAIN obj :
          /\ obj[o].kind \in Members \cup {"lib", "decl", "ptr", "deleted"}
          /\ obj[o].parent \in -1 .. Len(obj) /\ obj[o].refs \in Nat
    <3>1. \A o \in DOMAIN obj : obj[o].parent \in {-1, 0} \cup DOMAIN obj
      BY <2>1 DEF ParentsOK, Alive
    <3>2. \A x \in {-1, 0} \cup (1 .. Len(obj)) : x \in -1 .. Len(obj)
      BY <2>1
    <3> QED
      BY <2>1, <3>1, <3>2 DEF Objects, Kinds
  <2>3. libraries \in [ITypeLib -> 0 .. Len(obj)]
    <3>1. libraries \in [ITypeLib -> Nat]
      BY <2>1, WorldFacts
    <3>2. \A l \in ITypeLib : libraries[l] \in 0 .. Len(obj)
      BY <2>1, <3>1 DEF LibrariesOK
    <3> QED
      BY <3>1, <3>2
  <2>4. \A k \in DOMAIN dying : dying[k] \in DOMAIN obj
    BY DEF IInv, DyingInv
  <2> QED
    BY <2>2, <2>3, <2>4 DEF TypeOK, IInv
<1> QED
  BY <1>1, Invariant, PTL

\* Nothing is deleted under Java or under another object, and the parts of a
\* declaration go when their last user goes.
THEOREM ReferencesAreCounted == Spec => []CountedReferences
<1>1. IInv => CountedReferences
  <2> SUFFICES ASSUME IInv, NEW o \in DOMAIN obj
               PROVE  /\ obj[o].refs >= held[o] + Cardinality(Referrers(o))
                      /\ obj[o].kind \in Members => obj[o].refs = held[o] + Cardinality(Referrers(o))
    BY DEF CountedReferences
  <2>1. World.obj = obj /\ Held[o] = held[o] /\ Counted(World, Held)
    BY InvFacts DEF IInv
  <2>2. Referrers(o) = ReferrersIn(World, o)
    BY <2>1 DEF Referrers, ReferrersIn, Exists, Alive
  <2> QED
    BY <2>1, <2>2 DEF Counted
<1> QED
  BY <1>1, Invariant, PTL

\* A destructor finds its parent.
THEOREM OwnersOutliveParts == Spec => []OwnersAreAlive
<1>1. IInv => OwnersAreAlive
  <2> SUFFICES ASSUME IInv, NEW o \in DOMAIN obj, Exists(o), obj[o].parent > 0
               PROVE  obj[obj[o].parent].refs > 0
    BY DEF OwnersAreAlive
  <2> DEFINE p == obj[o].parent
  <2>1. /\ World \in Worlds /\ World.obj = obj /\ Counted(World, Held) /\ ParentsOK(World)
        /\ Held \in Tallies
    BY InvFacts DEF IInv, Shape
  <2>2. p \in DOMAIN obj /\ o \in ReferrersIn(World, p)
    BY <2>1 DEF ParentsOK, Alive, ReferrersIn, Exists
  <2>3. Cardinality(ReferrersIn(World, p)) \in Nat /\ Cardinality(ReferrersIn(World, p)) # 0
    BY <2>1, <2>2, Finite
  <2>4. Held[p] \in Nat /\ obj[p].refs \in Nat
    BY <2>1, <2>2, InvFacts DEF Objects
  <2>5. obj[p].refs >= Held[p] + Cardinality(ReferrersIn(World, p))
    BY <2>1, <2>2 DEF Counted
  <2> QED
    BY <2>3, <2>4, <2>5
<1> QED
  BY <1>1, Invariant, PTL

\* The caches, which hold no references, name exactly what exists.
LEMMA InvCaches == IInv => CachesAreLive
<1> SUFFICES ASSUME IInv PROVE CachesAreLive
  OBVIOUS
<1>1. /\ World \in Worlds /\ World.obj = obj /\ World.libraries = libraries
      /\ LibrariesOK(World) /\ ChildrenOK(World) /\ ParentsOK(World)
      /\ \A o \in DOMAIN obj : o \in Nat /\ o > 0
  BY InvFacts DEF IInv, Shape
<1>2. ASSUME NEW l \in ITypeLib
      PROVE  {o \in DOMAIN obj : obj[o].kind = "lib" /\ obj[o].key = l} = {libraries[l]} \ {0}
  BY <1>1 DEF LibrariesOK
<1>3. ASSUME NEW p \in DOMAIN obj, obj[p].kind = "lib", NEW i \in ITypeInfo
      PROVE  {o \in DOMAIN obj : obj[o].kind = "decl" /\ obj[o].key = i /\ obj[o].parent = p}
               = {obj[p].children[i]} \ {0}
  <2>1. obj[p].children[i] \in Nat
    BY <1>1, <1>3 DEF ChildrenOK
  <2>2. \A o \in DOMAIN obj : obj[o].kind = "decl" /\ obj[o].key = i /\ obj[o].parent = p =>
          o = obj[p].children[i]
    BY <1>1, <1>3 DEF ChildrenOK
  <2>3. obj[p].children[i] # 0 =>
          LET c == obj[p].children[i]
          IN  c \in DOMAIN obj /\ obj[c].kind = "decl" /\ obj[c].key = i /\ obj[c].parent = p
    BY <1>1, <1>3, <2>1 DEF ChildrenOK
  <2> QED
    BY <1>1, <2>2, <2>3
<1> QED
  BY <1>2, <1>3 DEF CachesAreLive

\* No lookup revives a deleted object or makes a second one.
THEOREM CachesNameWhatExists == Spec => []CachesAreLive
BY InvCaches, Invariant, PTL

-----------------------------------------------------------------------------
(* Every type has one object: the refinement of TypeIdentity.              *)

Rep == [i \in ITypeInfo |-> IF DeclsOf(i) = {} THEN 0 ELSE CHOOSE o \in DeclsOf(i) : TRUE]
Users == [i \in ITypeInfo |-> IF DeclsOf(i) = {} THEN 0 ELSE held[CHOOSE o \in DeclsOf(i) : TRUE]]

DeclIn(w, i, o) == o \in Alive(w) /\ w.obj[o].kind = "decl" /\ w.obj[o].key = i

\* The representative of a type is its only declaration.
DeclInv ==
  /\ \A i \in ITypeInfo :
       /\ \A o : DeclIn(World, i, o) => Rep[i] = o
       /\ Rep[i] # 0 => DeclIn(World, i, Rep[i])
       /\ Rep[i] \in Nat /\ Users[i] = IF Rep[i] = 0 THEN 0 ELSE Held[Rep[i]]
  /\ \A o \in Alive(World) : o \in Nat \ {0} /\ (obj[o].kind = "decl" => obj[o].key \in ITypeInfo)
  /\ \A o \in Nat \ Alive(World) : Held[o] = 0
  /\ Held \in Tallies

LEMMA DeclFacts == IInv => DeclInv
<1> SUFFICES ASSUME IInv PROVE DeclInv
  OBVIOUS
<1>0. /\ World \in Worlds /\ World.obj = obj /\ World.libraries = libraries
      /\ LibrariesOK(World) /\ ChildrenOK(World) /\ ParentsOK(World) /\ Counted(World, Held)
      /\ Held \in Tallies
      /\ \A o \in DOMAIN obj : o \in Nat /\ o > 0 /\ Held[o] = held[o] /\ obj[o] \in Objects
  BY InvFacts DEF IInv, Shape
<1>1. ASSUME NEW i \in ITypeInfo
      PROVE  /\ \A o : DeclIn(World, i, o) <=> o \in DeclsOf(i)
             /\ \A o \in DeclsOf(i), p \in DeclsOf(i) : o = p
             /\ \A o \in DeclsOf(i) : o \in DOMAIN obj
  <2>1. \A o : DeclIn(World, i, o) <=> o \in DeclsOf(i)
    BY <1>0 DEF DeclIn, DeclsOf, Alive
  <2>2. \A o \in DeclsOf(i) :
          /\ o \in DOMAIN obj /\ obj[o].kind = "decl" /\ obj[o].key = i
          /\ obj[o].parent \in DOMAIN obj
          /\ obj[obj[o].parent].kind = "lib" /\ obj[obj[o].parent].key = LibOf[i]
          /\ obj[obj[o].parent].children[i] = o
    BY <1>0 DEF DeclsOf, ParentsOK, ChildrenOK, Alive
  <2>3. \A o \in DeclsOf(i) : obj[o].parent = libraries[LibOf[i]]
    BY <1>0, <2>2 DEF LibrariesOK
  <2> QED
    BY <2>1, <2>2, <2>3
<1>2. ASSUME NEW i \in ITypeInfo
      PROVE  /\ \A o : DeclIn(World, i, o) => Rep[i] = o
             /\ Rep[i] # 0 => DeclIn(World, i, Rep[i])
             /\ Rep[i] \in Nat /\ Users[i] = IF Rep[i] = 0 THEN 0 ELSE Held[Rep[i]]
  <2>1. CASE DeclsOf(i) = {}
    <3>1. Rep[i] = 0 /\ Users[i] = 0
      BY <2>1 DEF Rep, Users
    <3> QED
      BY <1>1, <2>1, <3>1
  <2>2. CASE DeclsOf(i) # {}
    <3>1. PICK o : o \in DeclsOf(i)
      BY <2>2
    <3>2. (CHOOSE p \in DeclsOf(i) : TRUE) = o
      BY <1>1, <3>1
    <3>3. Rep[i] = o /\ Users[i] = held[o]
      BY <2>2, <3>2 DEF Rep, Users
    <3>4. o \in Nat /\ o # 0 /\ Held[o] = held[o]
      BY <1>0, <1>1, <3>1
    <3> QED
      BY <1>1, <3>1, <3>3, <3>4
  <2> QED
    BY <2>1, <2>2
<1>3. \A o \in Alive(World) : o \in Nat \ {0} /\ (obj[o].kind = "decl" => obj[o].key \in ITypeInfo)
  BY <1>0 DEF Alive, ParentsOK
<1>4. ASSUME NEW o \in Nat \ Alive(World)
      PROVE  Held[o] = 0
  <2>1. CASE o \in DOMAIN obj
    <3>1. obj[o].refs = 0
      BY <1>0, <1>4, <2>1 DEF Alive, ParentsOK
    <3>2. 0 >= Held[o] + Cardinality(ReferrersIn(World, o))
      BY <1>0, <2>1, <3>1 DEF Counted
    <3>3. Held[o] \in Nat /\ Cardinality(ReferrersIn(World, o)) \in Nat
      BY <1>0, Finite DEF Tallies
    <3> QED
      BY <3>2, <3>3
  <2>2. CASE o \notin DOMAIN obj
    BY <1>0, <2>2 DEF Counted
  <2> QED
    BY <2>1, <2>2
<1> QED
  BY <1>0, <1>2, <1>3, <1>4 DEF DeclInv

\* The steps of TypeIdentity.
FreshRep(i) == Rep'[i] # 0 /\ \A j \in ITypeInfo \ {i} : Rep'[j] = Rep[j] /\ Rep'[i] # Rep[j]

IdentityStep ==
  \E i \in ITypeInfo :
    \/ Rep[i] = 0 /\ FreshRep(i) /\ Users' = Users
    \/ /\ Users' = [Users EXCEPT ![i] = @ + 1]
       /\ \/ Rep[i] # 0 /\ Rep' = Rep
          \/ Rep[i] = 0 /\ FreshRep(i)
    \/ Users[i] > 0 /\ Users' = [Users EXCEPT ![i] = @ - 1] /\ Rep' = Rep
    \/ Users[i] = 0 /\ Rep' = [Rep EXCEPT ![i] = 0] /\ Users' = Users

LEMMA IdentityNext == IdentityStep => Identity!Next
BY DEF IdentityStep, FreshRep, Rep, Users, Identity!Next, Identity!Appear, Identity!Obtain,
       Identity!Drop, Identity!Vanish, Identity!Fresh

\* Objects that stay represent their types as before; where a declaration is
\* new it is of S, and Java has none but what it got.
LEMMA GrownReps ==
  ASSUME IInv, DeclInv, IInv', DeclInv', NEW S, Grown(World, World', S)
  PROVE  /\ \A i \in ITypeInfo : Rep[i] # 0 => Rep'[i] = Rep[i]
         /\ \A i \in ITypeInfo \ S : Rep'[i] = Rep[i]
         /\ \A i \in ITypeInfo, j \in ITypeInfo : i # j /\ Rep'[i] # 0 => Rep'[i] # Rep'[j]
         /\ \A i \in ITypeInfo : Rep[i] = 0 /\ Rep'[i] # 0 => Held[Rep'[i]] = 0
<1>0. World.obj = obj /\ World'.obj = obj'
  BY DEF World
<1>1. \A i \in ITypeInfo : \A o : DeclIn(World, i, o) => DeclIn(World', i, o)
  BY <1>0 DEF Grown, DeclIn
<1>2. \A i \in ITypeInfo : Rep[i] # 0 => Rep'[i] = Rep[i]
  BY <1>1 DEF DeclInv
<1>3. \A i \in ITypeInfo : \A o \in Alive(World) : DeclIn(World', i, o) => DeclIn(World, i, o)
  BY <1>0 DEF Grown, DeclIn
<1>4. \A i \in ITypeInfo : \A o : DeclIn(World', i, o) => o \in Alive(World) \/ i \in S
  BY <1>0 DEF Grown, DeclIn
<1>5. \A i \in ITypeInfo \ S : Rep'[i] = Rep[i]
  <2>1. SUFFICES ASSUME NEW i \in ITypeInfo \ S, Rep[i] = 0, Rep'[i] # 0 PROVE FALSE
    BY <1>2
  <2>2. DeclIn(World', i, Rep'[i])
    BY <2>1 DEF DeclInv
  <2>3. DeclIn(World, i, Rep'[i])
    BY <1>3, <1>4, <2>2
  <2> QED
    BY <2>1, <2>3 DEF DeclInv
<1>6. ASSUME NEW i \in ITypeInfo, NEW j \in ITypeInfo, i # j, Rep'[i] # 0, Rep'[i] = Rep'[j]
      PROVE  FALSE
  <2>1. DeclIn(World', i, Rep'[i]) /\ DeclIn(World', j, Rep'[j])
    BY <1>6 DEF DeclInv
  <2> QED
    BY <1>6, <2>1 DEF DeclIn
<1>7. ASSUME NEW i \in ITypeInfo, Rep[i] = 0, Rep'[i] # 0
      PROVE  Held[Rep'[i]] = 0
  <2>1. DeclIn(World', i, Rep'[i]) /\ Rep'[i] \in Nat
    BY <1>7 DEF DeclInv
  <2>2. Rep'[i] \notin Alive(World)
    <3>1. SUFFICES ASSUME Rep'[i] \in Alive(World) PROVE FALSE
      OBVIOUS
    <3>2. DeclIn(World, i, Rep'[i])
      BY <1>3, <2>1, <3>1
    <3>3. Rep[i] = Rep'[i]
      BY <3>2 DEF DeclInv
    <3> QED
      BY <1>7, <3>3
  <2> QED
    BY <2>1, <2>2 DEF DeclInv
<1> QED
  BY <1>2, <1>5, <1>6, <1>7

LEMMA UsersDomain ==
  ASSUME DeclInv
  PROVE  Users \in [ITypeInfo -> Nat] /\ Rep \in [ITypeInfo -> Nat]
<1>1. \A i \in ITypeInfo : Users[i] \in Nat /\ Rep[i] \in Nat
  BY DEF DeclInv, Tallies
<1>2. Users = [i \in ITypeInfo |-> Users[i]] /\ Rep = [i \in ITypeInfo |-> Rep[i]]
  BY DEF Users, Rep
<1> QED
  BY <1>1, <1>2

\* Java has obtained the object o, or nothing that stands for a type.
LEMMA ObtainedStep ==
  ASSUME IInv, DeclInv, IInv', DeclInv', NEW i, Grown(World, World', {i}),
         NEW o \in Int, Held' = Plus(Held, o),
         o > 0 => /\ o \in Alive(World')
                  /\ obj'[o].kind = "decl" => obj'[o].key = i
  PROVE  IdentityStep \/ (Rep' = Rep /\ Users' = Users)
<1>0. /\ World'.obj = obj'
      /\ \A x \in Nat : Held'[x] = IF x = o /\ o > 0 THEN Held[x] + 1 ELSE Held[x]
      /\ \A x \in Nat : Held[x] \in Nat
  <2>1. Held \in Tallies /\ World'.obj = obj'
    BY DEF DeclInv, World
  <2>2. \A x \in Nat : Plus(Held, o)[x] = IF x = o /\ o > 0 THEN Held[x] + 1 ELSE Held[x]
    BY <2>1, PlusFacts
  <2>3. \A x \in Nat : Held[x] \in Nat
    BY <2>1 DEF Tallies
  <2> QED
    BY <2>1, <2>2, <2>3
<1>1. /\ \A j \in ITypeInfo : Rep[j] # 0 => Rep'[j] = Rep[j]
      /\ \A j \in ITypeInfo \ {i} : Rep'[j] = Rep[j]
      /\ \A j \in ITypeInfo, k \in ITypeInfo : j # k /\ Rep'[j] # 0 => Rep'[j] # Rep'[k]
      /\ \A j \in ITypeInfo : Rep[j] = 0 /\ Rep'[j] # 0 => Held[Rep'[j]] = 0
  BY GrownReps
<1>2. /\ Users \in [ITypeInfo -> Nat] /\ Rep \in [ITypeInfo -> Nat]
      /\ Users' \in [ITypeInfo -> Nat] /\ Rep' \in [ITypeInfo -> Nat]
  <2>1. /\ \A j \in ITypeInfo : Users'[j] \in Nat /\ Rep'[j] \in Nat
        /\ Users' = [j \in ITypeInfo |-> Users'[j]] /\ Rep' = [j \in ITypeInfo |-> Rep'[j]]
    <3>1. \A j \in ITypeInfo : Users'[j] \in Nat /\ Rep'[j] \in Nat
      BY DEF DeclInv, Tallies
    <3>2. Users' = [j \in ITypeInfo |-> Users'[j]] /\ Rep' = [j \in ITypeInfo |-> Rep'[j]]
      BY DEF Users, Rep
    <3> QED
      BY <3>1, <3>2
  <2> QED
    BY <2>1, UsersDomain
<1>3. ASSUME NEW j \in ITypeInfo
      PROVE  /\ Users[j] = IF Rep[j] = 0 THEN 0 ELSE Held[Rep[j]]
             /\ Users'[j] = IF Rep'[j] = 0 THEN 0 ELSE Held'[Rep'[j]]
             /\ Users'[j] = IF Rep'[j] = o /\ o > 0 THEN Users[j] + 1 ELSE Users[j]
  <2>1. /\ Users[j] = IF Rep[j] = 0 THEN 0 ELSE Held[Rep[j]]
        /\ Users'[j] = IF Rep'[j] = 0 THEN 0 ELSE Held'[Rep'[j]]
    BY DEF DeclInv
  <2> QED
    BY <1>0, <1>1, <1>2, <2>1
<1>4. CASE o > 0 /\ obj'[o].kind = "decl"
  <2>1. i \in ITypeInfo /\ DeclIn(World', i, o)
    BY <1>0, <1>4 DEF DeclInv, DeclIn
  <2>2. Rep'[i] = o
    BY <2>1 DEF DeclInv
  <2>3. \A j \in ITypeInfo : Users'[j] = IF j = i THEN Users[j] + 1 ELSE Users[j]
    BY <1>1, <1>3, <1>4, <2>1, <2>2
  <2>4. Users' = [Users EXCEPT ![i] = @ + 1]
    BY <1>2, <2>1, <2>3
  <2>5. CASE Rep[i] # 0
    <3>1. Rep' = Rep
      BY <1>1, <1>2, <2>5
    <3> QED
      BY <2>1, <2>4, <2>5, <3>1 DEF IdentityStep
  <2>6. CASE Rep[i] = 0
    <3>1. FreshRep(i)
      BY <1>1, <1>4, <2>1, <2>2 DEF FreshRep
    <3> QED
      BY <2>1, <2>4, <2>6, <3>1 DEF IdentityStep
  <2> QED
    BY <2>5, <2>6
<1>5. CASE ~(o > 0 /\ obj'[o].kind = "decl")
  <2>1. ASSUME NEW j \in ITypeInfo PROVE Users'[j] = Users[j]
    <3>1. Rep'[j] = o => ~(o > 0)
      <4>1. SUFFICES ASSUME Rep'[j] = o, o > 0 PROVE FALSE
        OBVIOUS
      <4>2. DeclIn(World', j, o)
        BY <4>1 DEF DeclInv
      <4> QED
        BY <1>0, <1>5, <4>1, <4>2 DEF DeclIn
    <3> QED
      BY <1>3, <3>1
  <2>2. Users' = Users
    BY <1>2, <2>1
  <2>3. CASE Rep' = Rep
    BY <2>2, <2>3
  <2>4. CASE Rep' # Rep
    <3>1. i \in ITypeInfo /\ Rep[i] = 0 /\ Rep'[i] # 0
      <4>1. PICK j \in ITypeInfo : Rep'[j] # Rep[j]
        BY <1>2, <2>4
      <4> QED
        BY <1>1, <4>1
    <3>2. FreshRep(i)
      BY <1>1, <3>1 DEF FreshRep
    <3> QED
      BY <2>2, <3>1, <3>2 DEF IdentityStep
  <2> QED
    BY <2>3, <2>4
<1> QED
  BY <1>4, <1>5

\* A release takes one reference from Java.
LEMMA ReleasedStep ==
  ASSUME IInv, DeclInv, IInv', DeclInv', Grown(World, World', {}), Alive(World') = Alive(World),
         NEW o \in Alive(World), held[o] > 0, held' = [held EXCEPT ![o] = @ - 1]
  PROVE  IdentityStep \/ (Rep' = Rep /\ Users' = Users)
<1>0. /\ World.obj = obj /\ o \in 1 .. MaxObjects /\ o \in Nat /\ o > 0
      /\ held \in [1 .. MaxObjects -> 0 .. MaxHeld] /\ Held[o] > 0
      /\ \A x \in Nat : Held[x] \in Nat
  <2>1. World.obj = obj /\ Held \in Tallies /\ o \in DOMAIN obj
    BY InvFacts DEF Alive
  <2> QED
    BY <2>1, InvFacts DEF IInv, Tallies
<1>1. \A x \in Nat : Held'[x] = IF x = o THEN Held[x] - 1 ELSE Held[x]
  <2>1. \A x \in 1 .. MaxObjects : held'[x] = IF x = o THEN held[x] - 1 ELSE held[x]
    BY <1>0
  <2> QED
    BY <1>0, <2>1 DEF Held
<1>2. /\ Users \in [ITypeInfo -> Nat] /\ Rep \in [ITypeInfo -> Nat]
  BY UsersDomain
<1>3. Rep' = Rep
  <2>1. \A j \in ITypeInfo : Rep'[j] = Rep[j]
    BY GrownReps
  <2>2. Rep' = [j \in ITypeInfo |-> Rep'[j]] /\ Rep = [j \in ITypeInfo |-> Rep[j]]
    BY DEF Rep
  <2> QED
    BY <2>1, <2>2
<1>4. ASSUME NEW j \in ITypeInfo
      PROVE  Users'[j] = IF Rep[j] = o THEN Users[j] - 1 ELSE Users[j]
  <2>1. /\ Users[j] = IF Rep[j] = 0 THEN 0 ELSE Held[Rep[j]]
        /\ Users'[j] = IF Rep'[j] = 0 THEN 0 ELSE Held'[Rep'[j]]
    BY DEF DeclInv
  <2> QED
    BY <1>0, <1>1, <1>2, <1>3, <2>1
<1>5. Users' = [j \in ITypeInfo |-> Users'[j]]
  BY DEF Users
<1>6. CASE \E i \in ITypeInfo : Rep[i] = o
  <2>1. PICK i \in ITypeInfo : Rep[i] = o
    BY <1>6
  <2>2. Users[i] = Held[o]
    BY <1>0, <2>1 DEF DeclInv
  <2>3. \A j \in ITypeInfo : Rep[j] = o <=> j = i
    BY <1>0, <2>1 DEF DeclInv, DeclIn
  <2>4. Users' = [Users EXCEPT ![i] = @ - 1]
    BY <1>2, <1>4, <1>5, <2>1, <2>3
  <2> QED
    BY <1>0, <1>3, <2>1, <2>2, <2>4 DEF IdentityStep
<1>7. CASE \A i \in ITypeInfo : Rep[i] # o
  <2>1. Users' = Users
    BY <1>2, <1>4, <1>5, <1>7
  <2> QED
    BY <1>3, <2>1
<1> QED
  BY <1>6, <1>7

\* A destructor takes away an object that Java has no reference to.
LEMMA DestroyedStep ==
  ASSUME IInv, DeclInv, IInv', DeclInv', NEW o \in Alive(World), UNCHANGED held,
         Alive(World') = Alive(World) \ {o}, held[o] = 0,
         \A q \in Alive(World') : obj'[q].kind = obj[q].kind /\ obj'[q].key = obj[q].key
  PROVE  IdentityStep \/ (Rep' = Rep /\ Users' = Users)
<1>0. /\ World.obj = obj /\ World'.obj = obj' /\ Held' = Held /\ Held[o] = 0 /\ o # 0
  <2>1. World.obj = obj /\ World'.obj = obj' /\ Held' = Held
    BY DEF World, Held
  <2>2. o \in DOMAIN obj
    BY <2>1 DEF Alive
  <2> QED
    BY <2>1, <2>2, InvFacts
<1>1. Users \in [ITypeInfo -> Nat] /\ Rep \in [ITypeInfo -> Nat]
  BY UsersDomain
<1>2. \A j \in ITypeInfo : \A q : DeclIn(World', j, q) <=> DeclIn(World, j, q) /\ q # o
  BY <1>0 DEF DeclIn
<1>3. ASSUME NEW j \in ITypeInfo
      PROVE  Rep'[j] = IF Rep[j] = o THEN 0 ELSE Rep[j]
  <2>1. /\ Rep[j] # 0 => DeclIn(World, j, Rep[j])
        /\ Rep'[j] # 0 => DeclIn(World', j, Rep'[j])
        /\ \A q : DeclIn(World, j, q) => Rep[j] = q
        /\ \A q : DeclIn(World', j, q) => Rep'[j] = q
    BY DEF DeclInv
  <2> QED
    BY <1>0, <1>2, <2>1
<1>4. ASSUME NEW j \in ITypeInfo
      PROVE  Users'[j] = Users[j] /\ (Rep[j] = o => Users[j] = 0)
  <2>1. /\ Users[j] = IF Rep[j] = 0 THEN 0 ELSE Held[Rep[j]]
        /\ Users'[j] = IF Rep'[j] = 0 THEN 0 ELSE Held'[Rep'[j]]
    BY DEF DeclInv
  <2> QED
    BY <1>0, <1>3, <2>1
<1>5. /\ Users' = [j \in ITypeInfo |-> Users'[j]] /\ Users = [j \in ITypeInfo |-> Users[j]]
      /\ Rep' = [j \in ITypeInfo |-> Rep'[j]] /\ Rep = [j \in ITypeInfo |-> Rep[j]]
  BY DEF Users, Rep
<1>6. Users' = Users
  BY <1>4, <1>5
<1>7. CASE \E i \in ITypeInfo : Rep[i] = o
  <2>1. PICK i \in ITypeInfo : Rep[i] = o
    BY <1>7
  <2>2. \A j \in ITypeInfo : Rep[j] = o <=> j = i
    BY <1>0, <2>1 DEF DeclInv, DeclIn
  <2>3. Rep' = [Rep EXCEPT ![i] = 0]
    BY <1>1, <1>3, <1>5, <2>2
  <2> QED
    BY <1>4, <1>6, <2>1, <2>3 DEF IdentityStep
<1>8. CASE \A i \in ITypeInfo : Rep[i] # o
  <2>1. Rep' = Rep
    BY <1>3, <1>5, <1>8
  <2> QED
    BY <1>6, <2>1
<1> QED
  BY <1>7, <1>8

LEMMA ObtainsStep ==
  ASSUME IInv, DeclInv, IInv', DeclInv', Obtains
  PROVE  IdentityStep \/ (Rep' = Rep /\ Users' = Users)
<1>1. PICK r, i : Receive(r) /\ Offers(World, Held, r, {i})
  BY DEF Obtains
<1> DEFINE w == r[1]
           o == r[2]
<1>2. /\ w \in Worlds /\ Grown(World, w, {i})
      /\ \/ o \in {-1, 0}
         \/ o \in Alive(w) /\ (w.obj[o].kind = "decl" => w.obj[o].key = i)
  BY <1>1 DEF Offers, Good, Shape
<1>3. /\ Len(w.obj) <= MaxObjects
      /\ o > 0 => held[o] < MaxHeld
      /\ obj' = w.obj /\ libraries' = w.libraries
      /\ held' = IF o > 0 THEN [held EXCEPT ![o] = @ + 1] ELSE held
  BY <1>1 DEF Receive, Fits
<1> HIDE DEF w, o
<1>4. World' = w
  BY <1>2, <1>3, WorldFacts DEF World
<1>5. /\ o \in Int /\ (o > 0 => o \in 1 .. MaxObjects)
      /\ o > 0 => o \in Alive(World') /\ (obj'[o].kind = "decl" => obj'[o].key = i)
  <2>1. \A x \in DOMAIN w.obj : x \in Nat /\ x > 0 /\ x <= Len(w.obj) /\ Len(w.obj) \in Nat
    BY <1>2, WorldFacts
  <2>2. \A x \in DOMAIN w.obj : x \in 1 .. MaxObjects
    BY <1>3, <2>1, BoundsAreNumbers
  <2>3. \A x \in Alive(w) : x \in DOMAIN w.obj
    BY DEF Alive
  <2> QED
    BY <1>2, <1>3, <1>4, <2>1, <2>2, <2>3
<1>6. Held' = Plus(Held, o)
  BY <1>3, <1>5, HeldMore
<1>7. Grown(World, World', {i})
  BY <1>2, <1>4
<1> QED
  BY <1>5, <1>6, <1>7, ObtainedStep

\* Whichever way a type is reached, Java gets the one object that stands for it,
\* and keeps it as long as it has a reference.
THEOREM ImplementsIdentity == Spec => OneObjectPerType
<1>1. Init => Identity!Init
  <2> SUFFICES ASSUME Init PROVE Identity!Init
    OBVIOUS
  <2>1. \A i : DeclsOf(i) = {}
    BY DEF Init, DeclsOf
  <2> QED
    BY <2>1 DEF Identity!Init
<1>2. ASSUME IInv, DeclInv, IInv', DeclInv', [Next]_vars
      PROVE  IdentityStep \/ (Rep' = Rep /\ Users' = Users)
  <2>0. ASSUME NEW i, UNCHANGED held, Grown(World, World', {i})
        PROVE  IdentityStep \/ (Rep' = Rep /\ Users' = Users)
    <3>1. Held' = Held /\ Held \in Tallies
      BY <1>2, <2>0 DEF Held, DeclInv
    <3>2. Held' = Plus(Held, 0)
      BY <3>1, PlusNothing
    <3> QED
      BY <1>2, <2>0, <3>2, ObtainedStep
  <2>1. ASSUME UNCHANGED <<obj, held>>
        PROVE  IdentityStep \/ (Rep' = Rep /\ Users' = Users)
    <3>1. World'.obj = World.obj
      BY <2>1 DEF World
    <3>2. Grown(World, World', {0})
      BY <3>1 DEF Grown, Alive
    <3> QED
      BY <2>0, <2>1, <3>2
  <2>2. ASSUME NEW o \in DOMAIN obj, NEW i \in ITypeInfo \cup {NoInfo}, NEW knows \in BOOLEAN,
               GetVtblInterface(o, i, knows)
        PROVE  IdentityStep \/ (Rep' = Rep /\ Users' = Users)
    <3>1. CASE Obtains
      BY <1>2, <3>1, ObtainsStep
    <3>2. CASE UNCHANGED <<obj, held>>
      BY <2>1, <3>2
    <3>3. CASE UNCHANGED held /\ Grown(World, World', {i})
      BY <2>0, <3>3
    <3> QED
      BY <1>2, <2>2, <3>1, <3>2, <3>3, VtblInterfaceInv
  <2>3. ASSUME NEW o \in DOMAIN obj, Release(o)
        PROVE  IdentityStep \/ (Rep' = Rep /\ Users' = Users)
    BY <1>2, <2>3, ReleaseInv, ReleasedStep
  <2>4. ASSUME Destruct
        PROVE  IdentityStep \/ (Rep' = Rep /\ Users' = Users)
    <3>1. /\ UNCHANGED held
          /\ \E o \in Alive(World) :
               /\ Alive(World') = Alive(World) \ {o} /\ held[o] = 0
               /\ \A q \in Alive(World') : obj'[q].kind = obj[q].kind /\ obj'[q].key = obj[q].key
      BY <1>2, <2>4, DestructInv
    <3> QED
      BY <1>2, <3>1, DestroyedStep
  <2>5. ASSUME Obtains
        PROVE  IdentityStep \/ (Rep' = Rep /\ Users' = Users)
    BY <1>2, <2>5, ObtainsStep
  <2>6. CASE UNCHANGED vars
    BY <2>1, <2>6 DEF vars
  <2> QED
    BY <1>2, <2>2, <2>3, <2>4, <2>5, <2>6, JavaObtains DEF Next
<1>3. IInv /\ DeclInv /\ IInv' /\ DeclInv' /\ [Next]_vars => [Identity!Next]_<<Rep, Users>>
  BY <1>2, IdentityNext
<1> QED
  BY <1>1, <1>3, DeclFacts, Invariant, PTL DEF Spec, OneObjectPerType, Identity!Spec, Rep, Users

=============================================================================
