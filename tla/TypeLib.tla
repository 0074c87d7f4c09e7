------------------------------ MODULE TypeLib ------------------------------
(***************************************************************************)
(* The objects through which com4j shows a type library to Java: CTypeLib, *)
(* CTypeDecl and their parts, counted references between them, and two     *)
(* caches that are not counted: CTypeLib::libraries and the children of    *)
(* each library.  Java obtains objects from one another and releases them  *)
(* in any order, as its garbage collector finds them.                      *)
(*                                                                         *)
(* The objects are made for one thread (CComSingleThreadModel): a call is  *)
(* one step, and so is each destructor of the cascade a release can start. *)
(* OLE's own objects, ITypeLib and ITypeInfo, are model values.            *)
(***************************************************************************)
EXTENDS Integers, Sequences, FiniteSets

CONSTANTS ITypeLib, ITypeInfo, LibOf, NoInfo, MaxObjects, MaxHeld, MaxRefs

ASSUME InfosHaveLibs == LibOf \in [ITypeInfo -> ITypeLib] /\ NoInfo \notin ITypeInfo
ASSUME BoundsAreNumbers == {MaxObjects, MaxHeld, MaxRefs} \subseteq Nat

VARIABLES
  obj,        \* the objects; the place of a deleted one is used again
  libraries,  \* CTypeLib::libraries: the object of each ITypeLib, or 0
  held,       \* how many references Java has to each object
  dying,      \* objects whose destructor is due, the innermost first
  crashed

vars == <<obj, libraries, held, dying, crashed>>

(* `parent' is m_pParent, or m_pType of a pointer type; `key' is the type  *)
(* info or type library; 0 and -1 as objects are NULL and a primitive type,*)
(* which is not counted.                                                   *)
Object(kind, parent, key, kids) ==
  [kind |-> kind, parent |-> parent, key |-> key, refs |-> 1, children |-> kids]
Deleted == [Object("deleted", 0, NoInfo, <<>>) EXCEPT !.refs = 0]
Primitive == -1

(* Operators on w, an obj and a libraries together; those that return an   *)
(* object give <<w, object>>, with a reference for the receiver.           *)
World == [obj |-> obj, libraries |-> libraries]
AddRef(w, o) == IF o > 0 THEN [w EXCEPT !.obj[o].refs = @ + 1] ELSE w
Vacant(w) == {o \in DOMAIN w.obj : w.obj[o].kind = "deleted"}
Next1(w) == IF Vacant(w) = {} THEN Len(w.obj) + 1 ELSE CHOOSE o \in Vacant(w) : TRUE
Make(w, x) ==
  [AddRef(w, x.parent) EXCEPT !.obj = IF Next1(w) > Len(@) THEN Append(@, x) ELSE [@ EXCEPT ![Next1(w)] = x]]

\* Mutant: the cached library is returned without AddRef().
GetUncounted(w, l) ==
  IF w.libraries[l] # 0 THEN <<w, w.libraries[l]>>
  ELSE <<[Make(w, Object("lib", 0, l, [i \in ITypeInfo |-> 0])) EXCEPT !.libraries[l] = Next1(w)], Next1(w)>>

(* CTypeLib::get.                                                          *)
Get(w, l) ==
  IF w.libraries[l] # 0 THEN <<AddRef(w, w.libraries[l]), w.libraries[l]>>
  ELSE <<[Make(w, Object("lib", 0, l, [i \in ITypeInfo |-> 0])) EXCEPT !.libraries[l] = Next1(w)], Next1(w)>>

\* Mutant: every call makes a new declaration.
GetNewChild(w, lib, i) ==
  <<[Make(w, Object("decl", lib, i, <<>>)) EXCEPT !.obj[lib].children[i] = Next1(w)], Next1(w)>>

(* CTypeLib::getChild and CTypeDecl::create.                               *)
GetChild(w, lib, i) ==
  LET c == w.obj[lib].children[i]
  IN  IF c # 0 THEN <<AddRef(w, c), c>>
      ELSE <<[Make(w, Object("decl", lib, i, <<>>)) EXCEPT !.obj[lib].children[i] = Next1(w)], Next1(w)>>

(* getRef: the type a reference resolves to, if it does, as a child of its *)
(* library.  The reference to the library that `get' gave is dropped, and  *)
(* nobody releases it.                                                     *)
GetRef(w, i) ==
  IF i = NoInfo THEN <<w, 0>> ELSE LET g == Get(w, LibOf[i]) IN GetChild(g[1], g[2], i)

(* CPtrType::create around the type t made: the smart pointer takes a      *)
(* reference of its own beside the one createType returned.                *)
PointerTo(t) ==
  IF t[2] = 0 THEN t ELSE <<Make(t[1], Object("ptr", t[2], NoInfo, <<>>)), Next1(t[1])>>

(* createType of a TYPEDESC: `depth' pointers or arrays around a target.   *)
TypeDesc == [depth : 0..2, target : ITypeInfo \cup {NoInfo, Primitive}]
CreateType(w, t) ==
  LET target == IF t.target = Primitive THEN <<w, Primitive>> ELSE GetRef(w, t.target)
  IN  CASE t.depth = 0 -> target [] t.depth = 1 -> PointerTo(target)
        [] t.depth = 2 -> PointerTo(PointerTo(target))

(* Release: the last one leads to the destructor.                          *)
Drop(w, o)  == IF o > 0 THEN [w EXCEPT !.obj[o].refs = @ - 1] ELSE w
Doomed(w, o) == IF o > 0 /\ w.obj[o].refs = 0 THEN <<o>> ELSE <<>>

Init ==
  /\ obj = <<>> /\ libraries = [l \in ITypeLib |-> 0]
  /\ held = [o \in 1..MaxObjects |-> 0]
  /\ dying = <<>> /\ crashed = FALSE

-----------------------------------------------------------------------------

(* Java calls a method of o, of one of the kinds.                          *)
Called(o, kinds) ==
  /\ dying = <<>> /\ ~crashed
  /\ o \in DOMAIN obj /\ held[o] > 0 /\ obj[o].kind \in kinds

(* Bounds: objects at a time, references to one, those of them Java's.     *)
Fits(w) == Len(w.obj) <= MaxObjects /\ \A o \in DOMAIN w.obj : w.obj[o].refs <= MaxRefs

(* Java gets the object r[2]; NULL and primitive types are not counted.    *)
Receive(r) ==
  /\ Fits(r[1])
  /\ r[2] > 0 => held[r[2]] < MaxHeld
  /\ obj' = r[1].obj /\ libraries' = r[1].libraries
  /\ held' = IF r[2] > 0 THEN [held EXCEPT ![r[2]] = @ + 1] ELSE held
  /\ UNCHANGED <<dying, crashed>>

LoadTypeLibrary(l) == dying = <<>> /\ ~crashed /\ Receive(Get(World, l))

GetTypeDecl(o, i) ==
  /\ Called(o, {"lib"}) /\ LibOf[i] = obj[o].key
  /\ Receive(GetChild(World, o, i))

(* getMethod, getProperty, getConstant, getImplementedInterface.           *)
GetMember(o, kind) ==
  /\ Called(o, {"decl"})
  /\ Receive(<<Make(World, Object(kind, o, NoInfo, <<>>)), Next1(World)>>)

GetParam(o) ==
  /\ Called(o, {"method"})
  /\ Receive(<<Make(World, Object("param", o, NoInfo, <<>>)), Next1(World)>>)

(* getReturnType, getType, getDefinition.                                  *)
GetType(o, t) ==
  /\ Called(o, {"method", "variable", "param", "decl"})
  /\ Receive(CreateType(World, t))

(* getBaseInterface, and getType of an implemented interface.              *)
GetReferred(o, i) ==
  /\ Called(o, {"decl", "impl"})
  /\ Receive(GetRef(World, i))

(* getVtblInterface, getDispInterface: the declaration is asked for the    *)
(* interface and released, without a look whether there is one.            *)
GetVtblInterface(o, i, knows) ==
  /\ Called(o, {"decl"})
  /\ LET r == GetRef(World, i)
         w == Drop(r[1], r[2])
     IN  \/ /\ r[2] = 0 /\ crashed' = TRUE
            /\ UNCHANGED <<obj, libraries, held, dying>>
         \/ r[2] # 0 /\ knows /\ Receive(<<AddRef(w, r[2]), r[2]>>)
         \/ /\ r[2] # 0 /\ ~knows /\ Fits(w)
            /\ obj' = w.obj /\ libraries' = w.libraries
            /\ dying' = Doomed(w, r[2])
            /\ UNCHANGED <<held, crashed>>

(* getPointedAtType, getComponentType; getParent of a declaration.         *)
GetOwner(o) ==
  /\ Called(o, {"ptr", "decl"})
  /\ Receive(<<AddRef(World, obj[o].parent), obj[o].parent>>)

QueryInterface(o) ==
  /\ Called(o, {"lib", "decl", "method", "variable", "impl", "param", "ptr"})
  /\ Receive(<<AddRef(World, o), o>>)

Release(o) ==
  /\ Called(o, {"lib", "decl", "method", "variable", "impl", "param", "ptr"})
  /\ held' = [held EXCEPT ![o] = @ - 1]
  /\ obj' = Drop(World, o).obj
  /\ dying' = Doomed(Drop(World, o), o)
  /\ UNCHANGED <<libraries, crashed>>

\* Mutant: the destructor of a declaration leaves it in the cache.
UnregisterLibOnly(w, o) ==
  IF w.obj[o].kind = "lib" THEN [w EXCEPT !.libraries[w.obj[o].key] = 0] ELSE w

(* The bodies of ~CTypeLib and ~CTypeDecl.                                 *)
Unregister(w, o) ==
  CASE w.obj[o].kind = "lib"  -> [w EXCEPT !.libraries[w.obj[o].key] = 0]
    [] w.obj[o].kind = "decl" -> [w EXCEPT !.obj[w.obj[o].parent].children[w.obj[o].key] = 0]
    [] OTHER -> w

\* Mutant: the parent is released once by the destructor and once by the pointer.
ReleaseTwice(w, o) == Drop(Drop(w, w.obj[o].parent), w.obj[o].parent)

(* A destructor: its body, then the release of the smart pointer it holds. *)
LetGo(w, o) == Drop(w, w.obj[o].parent)
Destruct ==
  /\ dying # <<>>
  /\ LET o == Head(dying)
         w == LetGo(Unregister(World, o), o)
     IN  /\ obj' = [w.obj EXCEPT ![o] = Deleted]
         /\ libraries' = w.libraries
         /\ dying' = Doomed(w, obj[o].parent) \o Tail(dying)
  /\ UNCHANGED <<held, crashed>>

Next ==
  \/ \E l \in ITypeLib : LoadTypeLibrary(l)
  \/ \E o \in DOMAIN obj :
       \/ \E i \in ITypeInfo : GetTypeDecl(o, i)
       \/ \E k \in {"method", "variable", "impl"} : GetMember(o, k)
       \/ GetParam(o)
       \/ \E t \in TypeDesc : GetType(o, t)
       \/ \E i \in ITypeInfo \cup {NoInfo} : GetReferred(o, i)
       \/ \E i \in ITypeInfo \cup {NoInfo}, knows \in BOOLEAN : GetVtblInterface(o, i, knows)
       \/ GetOwner(o) \/ QueryInterface(o) \/ Release(o)
  \/ Destruct

Spec == Init /\ [][Next]_vars

-----------------------------------------------------------------------------

Members == {"method", "variable", "impl", "param"}

(* Reference counts never fall below zero; caches and parents name places  *)
(* of objects.                                                             *)
TypeOK ==
  /\ Len(obj) <= MaxObjects
  /\ \A o \in DOMAIN obj :
       /\ obj[o].kind \in Members \cup {"lib", "decl", "ptr", "deleted"}
       /\ obj[o].parent \in -1..Len(obj) /\ obj[o].refs \in Nat
  /\ libraries \in [ITypeLib -> 0..Len(obj)]
  /\ held \in [1..MaxObjects -> 0..MaxHeld]
  /\ \A k \in DOMAIN dying : dying[k] \in DOMAIN obj
  /\ crashed \in BOOLEAN

Exists(o) == obj[o].kind # "deleted"
Referrers(o) == {p \in DOMAIN obj : Exists(p) /\ obj[p].parent = o}

(* References are never fewer than those who count on them, so nothing is  *)
(* deleted under Java or under another object; the parts of a declaration  *)
(* have exactly as many, so they go when the last user goes.  Libraries    *)
(* and the targets of pointer types have more: getRef and CPtrType::init   *)
(* each leave one behind.                                                  *)
CountedReferences ==
  \A o \in DOMAIN obj :
    /\ obj[o].refs >= held[o] + Cardinality(Referrers(o))
    /\ obj[o].kind \in Members => obj[o].refs = held[o] + Cardinality(Referrers(o))

(* A destructor finds its parent: what refers to an object that is being   *)
(* destroyed or is gone was destroyed before it.                           *)
OwnersAreAlive ==
  \A o \in DOMAIN obj : Exists(o) /\ obj[o].parent > 0 => obj[obj[o].parent].refs > 0

(* The caches, which hold no references, name exactly the libraries and    *)
(* declarations that exist (typelib.h:727, 735, typelib.cpp:146, 155), so  *)
(* that no lookup revives a deleted object or makes a second one.          *)
CachesAreLive ==
  /\ \A l \in ITypeLib :
       {o \in DOMAIN obj : obj[o].kind = "lib" /\ obj[o].key = l} = {libraries[l]} \ {0}
  /\ \A p \in DOMAIN obj : obj[p].kind = "lib" => \A i \in ITypeInfo :
       {o \in DOMAIN obj : obj[o].kind = "decl" /\ obj[o].key = i /\ obj[o].parent = p}
         = {obj[p].children[i]} \ {0}

(* TypeIdentity, with Java as the user of a type's declaration.            *)
DeclsOf(i) == {o \in DOMAIN obj : obj[o].kind = "decl" /\ obj[o].key = i}
Identity == INSTANCE TypeIdentity WITH
  Info <- ITypeInfo,
  rep <- [i \in ITypeInfo |-> IF DeclsOf(i) = {} THEN 0 ELSE CHOOSE o \in DeclsOf(i) : TRUE],
  users <- [i \in ITypeInfo |-> IF DeclsOf(i) = {} THEN 0 ELSE held[CHOOSE o \in DeclsOf(i) : TRUE]]

(* Every way to a type gives the one object that stands for it, as long as *)
(* Java has it: the promise of TypeIdentity.                               *)
OneObjectPerType == Identity!Spec

=============================================================================
