------------------------ MODULE NativeOwnershipProofs ------------------------
(***************************************************************************)
(* Who gives back what a call has allocated, acquired or received, for     *)
(* every set of calls.  Each entry of the heap that nobody has freed or    *)
(* owns is claimed by a post action, by the return value or by a parameter *)
(* of the finally block, and, outside of the exceptions that FreedOnce and *)
(* NoUseAfterFree name, by one of them only.  The lemmas are about worlds: *)
(* a heap, the post actions and the unmarshallers.                         *)
(***************************************************************************)
EXTENDS NativeCallProofs

-----------------------------------------------------------------------------
(* Worlds.                                                                 *)

HeapKinds == {"chars", "bstr", "heldBstr", "buffer", "longs", "variant", "content", "sarray",
              "unm", "retUnm", "given", "dispatch", "wrapped", "dispatched"}
HeapEntry == [kind : HeapKinds, frees : Nat, owners : Nat]
ActNames == {"ReleaseStringChars", "BSTRCleanUp", "DeleteCleanUp", "LongArrayCleanUp", "VARIANTCleanUp",
             "SAFEARRAYCleanUp", "OutParam"}
PostAct == [what : ActNames, res : SUBSET Nat, unm : Nat, param : Nat]
IsUnms(us) ==
  /\ Len(us) \in Nat
  /\ us = [ k \in 1..Len(us) |-> Unm(us[k].kind, us[k].self, us[k].holds, us[k].val) ]

IsOut(a) == a.what = "OutParam"
Fresh(h, r) == h[r].frees = 0 /\ h[r].owners = 0

\* What an unmarshaller may hold: values it clears, or references.
Clearing == {"BSTR", "VARIANT", "SAFEARRAY"}
Fits(u, q) ==
  \/ q \in {"heldBstr", "content", "sarray", "given"} /\ u.kind \in Clearing
  \/ q = "wrapped" /\ u.kind = "ComObject_byRef"
  \/ q = "given" /\ u.kind \in {"ComObject", "DISPATCH", "ComObject_byRef"} /\ u.val # Null

\* What goes with an unmarshaller: not the reference a Wrapper has.
Owned(h, u) == {u.self} \cup {r \in {u.holds} \ {0} : h[r].kind # "wrapped"}

Linked(h, us) ==
  /\ \A k \in DOMAIN us :
       /\ us[k].self \in DOMAIN h /\ h[us[k].self].kind \in {"unm", "retUnm"}
       /\ us[k].holds \in 0..Len(h)
       /\ us[k].holds # 0 => Fits(us[k], h[us[k].holds].kind)
  /\ \A k, l \in DOMAIN us : k # l => Owned(h, us[k]) \cap Owned(h, us[l]) = {}

\* What has to be given back, as long as a Wrapper does not have it.
Things(h) == {r \in DOMAIN h : h[r].kind # "wrapped"}

(* What a post action gives back.  Two of them claim the same thing only   *)
(* if it is the BSTR of a holder, and the unmarshaller comes first.        *)
Claim(h, us, a) == IF IsOut(a) THEN Owned(h, us[a.unm]) ELSE a.res
Stacked(h, p, us) ==
  /\ \A i \in DOMAIN p : IF IsOut(p[i]) THEN p[i].unm \in DOMAIN us ELSE p[i].res \subseteq Things(h)
  /\ \A i, j \in DOMAIN p : i < j =>
       \A r \in Claim(h, us, p[i]) \cap Claim(h, us, p[j]) :
         h[r].kind = "heldBstr" /\ IsOut(p[i]) /\ ~IsOut(p[j])
Claimed(h, p, us, r) == \E i \in DOMAIN p : r \in Claim(h, us, p[i])

World(h, p, us) ==
  /\ h \in Seq(HeapEntry) /\ p \in Seq(PostAct) /\ IsUnms(us)
  /\ Linked(h, us) /\ Stacked(h, p, us)

\* Nothing that is claimed has been freed, but for the unmarshallers X.
Due(h, p, us, X) ==
  \A i \in DOMAIN p : \A r \in Claim(h, us, p[i]) :
    \/ Fresh(h, r)
    \/ IF IsOut(p[i]) THEN p[i].unm \in X ELSE h[r].kind = "heldBstr"

\* The post actions that write to a holder.
OutActs(p) == {p[i] : i \in {k \in 1..Len(p) : IsOut(p[k])}}
Answers(p, k) == \E a \in OutActs(p) : a.unm = k

(* Each writes to a parameter of its own, among the first m, and its       *)
(* unmarshaller is one for that parameter.                                 *)
ForOut(conv, kind) ==
  /\ conv # "DISPATCH" /\ kind \notin {"ComObject", "DISPATCH"}
  /\ conv = "ComObject_byRef" <=> kind = "ComObject_byRef"
Outs(params, p, us, m) ==
  /\ \A a \in OutActs(p) : a.param \in 1..m /\ ForOut(params[a.param].conv, us[a.unm].kind)
  /\ \A a, b \in OutActs(p) : a # b => a.param # b.param

\* Something to give back that no post action claims.
Loose(h, p, us, r) == r \in DOMAIN h /\ Fresh(h, r) /\ ~Claimed(h, p, us, r)

-----------------------------------------------------------------------------
(* Sequences.                                                              *)

LEMMA SeqOf ==
  ASSUME NEW f, NEW m \in Nat, f = [ i \in 1..m |-> f[i] ]
  PROVE  f \in Seq({f[i] : i \in 1..m}) /\ Len(f) = m /\ DOMAIN f = 1..m
<1> DEFINE S == {f[i] : i \in 1..m}
<1>1. \A i \in 1..m : f[i] \in S
  OBVIOUS
<1> HIDE DEF S
<1>2. [ i \in 1..m |-> f[i] ] \in Seq(S) /\ Len([ i \in 1..m |-> f[i] ]) = m
  BY <1>1
<1> QED
  BY <1>2 DEF S

LEMMA Fronted ==
  ASSUME NEW S, NEW a \in S, NEW p \in Seq(S)
  PROVE  /\ <<a>> \o p \in Seq(S) /\ Len(<<a>> \o p) = Len(p) + 1 /\ (<<a>> \o p)[1] = a
         /\ \A i \in 1..Len(p) : (<<a>> \o p)[i + 1] = p[i]
         /\ \A i \in 2..(Len(p) + 1) : i - 1 \in 1..Len(p) /\ (<<a>> \o p)[i] = p[i - 1]
OBVIOUS

LEMMA Behead ==
  ASSUME NEW S, NEW p \in Seq(S), p # <<>>
  PROVE  /\ Head(p) = p[1] /\ Tail(p) \in Seq(S) /\ Len(Tail(p)) = Len(p) - 1 /\ Len(p) \in Nat \ {0}
         /\ \A i \in 1..Len(Tail(p)) : Tail(p)[i] = p[i + 1]
OBVIOUS

\* Post actions are added in front of the earlier ones.
LEMMA AddedNone ==
  ASSUME NEW S, NEW p \in Seq(S)
  PROVE  Added(<<>>, p) = p
<1>1. [ i \in DOMAIN <<>> |-> <<>>[Len(<<>>) + 1 - i] ] = <<>>
  OBVIOUS
<1> QED
  BY <1>1 DEF Added

LEMMA AddedOne ==
  ASSUME NEW S, NEW p \in Seq(S), NEW a \in S
  PROVE  Added(<<a>>, p) = <<a>> \o p
<1>1. [ i \in DOMAIN <<a>> |-> <<a>>[Len(<<a>>) + 1 - i] ] = <<a>>
  OBVIOUS
<1> QED
  BY <1>1 DEF Added

LEMMA AddedTwo ==
  ASSUME NEW S, NEW p \in Seq(S), NEW a \in S, NEW b \in S
  PROVE  Added(<<a, b>>, p) = <<b>> \o (<<a>> \o p)
<1>1. [ i \in DOMAIN <<a, b>> |-> <<a, b>>[Len(<<a, b>>) + 1 - i] ] = <<b, a>>
  OBVIOUS
<1>2. <<b, a>> \o p = <<b>> \o (<<a>> \o p)
  OBVIOUS
<1> QED
  BY <1>1, <1>2 DEF Added

LEMMA Appended ==
  ASSUME NEW S, NEW s \in Seq(S), NEW c \in S
  PROVE  /\ Append(s, c) \in Seq(S) /\ Len(Append(s, c)) = Len(s) + 1 /\ Append(s, c)[Len(s) + 1] = c
         /\ \A i \in 1..Len(s) : Append(s, c)[i] = s[i]
OBVIOUS

LEMMA AppendedThird ==
  ASSUME NEW S, NEW a \in S, NEW b \in S, NEW c \in S
  PROVE  Append(<<a, b>>, c) = <<a, b, c>>
<1> DEFINE s == <<a, b>>
           t == <<a, b, c>>
<1>0. s \in Seq(S)
  OBVIOUS
<1>1. Len(s) = 2 /\ s[1] = a /\ s[2] = b
  OBVIOUS
<1>2. t = [ i \in 1..3 |-> t[i] ] /\ t[1] = a /\ t[2] = b /\ t[3] = c
  OBVIOUS
<1> HIDE DEF s, t
<1>3. /\ Append(s, c) \in Seq(S) /\ Len(Append(s, c)) = Len(s) + 1 /\ Append(s, c)[Len(s) + 1] = c
      /\ \A i \in 1..Len(s) : Append(s, c)[i] = s[i]
  BY <1>0, Appended
<1> DEFINE r == Append(s, c)
<1>4. r \in Seq(S) /\ Len(r) = 3 /\ r[1] = a /\ r[2] = b /\ r[3] = c
  BY <1>1, <1>3
<1> HIDE DEF r
<1>5. r = [ i \in 1..3 |-> r[i] ]
  BY <1>4
<1>6. [ i \in 1..3 |-> r[i] ] = [ i \in 1..3 |-> t[i] ]
  BY <1>2, <1>4
<1> QED
  BY <1>2, <1>5, <1>6 DEF r, s, t

LEMMA AddedThree ==
  ASSUME NEW S, NEW p \in Seq(S), NEW a \in S, NEW b \in S, NEW c \in S
  PROVE  Added(<<a, b, c>>, p) = <<c>> \o (<<b>> \o (<<a>> \o p))
<1>1. [ i \in DOMAIN <<a, b, c>> |-> <<a, b, c>>[Len(<<a, b, c>>) + 1 - i] ] = <<c, b, a>>
  OBVIOUS
<1>2. <<b, a>> \o p = <<b>> \o (<<a>> \o p)
  OBVIOUS
<1>3. <<c, b, a>> \o p = <<c>> \o (<<b, a>> \o p)
  OBVIOUS
<1> QED
  BY <1>1, <1>2, <1>3 DEF Added

-----------------------------------------------------------------------------
(* What each helper does to a heap.                                        *)

LEMMA NewHeap ==
  ASSUME NEW h \in Seq(HeapEntry), NEW kinds \in Seq(HeapKinds)
  PROVE  /\ New(h, kinds) \in Seq(HeapEntry) /\ Len(New(h, kinds)) = Len(h) + Len(kinds)
         /\ \A r \in 1..Len(h) : New(h, kinds)[r] = h[r]
         /\ \A i \in 1..Len(kinds) : /\ New(h, kinds)[Len(h) + i].kind = kinds[i]
                                     /\ Fresh(New(h, kinds), Len(h) + i)
<1> DEFINE e(i) == [kind |-> kinds[i], frees |-> 0, owners |-> 0]
           more == [ i \in DOMAIN kinds |-> e(i) ]
<1>1. DOMAIN kinds = 1..Len(kinds) /\ Len(kinds) \in Nat /\ \A i \in 1..Len(kinds) : e(i) \in HeapEntry
  BY DEF HeapEntry
<1>2. more \in Seq(HeapEntry) /\ Len(more) = Len(kinds) /\ \A i \in 1..Len(kinds) : more[i] = e(i)
  <2> HIDE DEF e
  <2> QED
    BY <1>1
<1>3. New(h, kinds) = h \o more
  BY DEF New
<1>4. \A i \in 1..Len(kinds) : e(i).kind = kinds[i] /\ e(i).frees = 0 /\ e(i).owners = 0
  OBVIOUS
<1> HIDE DEF e, more
<1>5. /\ h \o more \in Seq(HeapEntry) /\ Len(h \o more) = Len(h) + Len(more)
      /\ \A r \in 1..Len(h) : (h \o more)[r] = h[r]
      /\ \A i \in 1..Len(more) : (h \o more)[Len(h) + i] = more[i]
  BY <1>2
<1> QED
  BY <1>2, <1>3, <1>4, <1>5 DEF Fresh

LEMMA FreeAllHeap ==
  ASSUME NEW h \in Seq(HeapEntry), NEW R
  PROVE  /\ FreeAll(h, R) \in Seq(HeapEntry) /\ Len(FreeAll(h, R)) = Len(h)
         /\ \A r \in 1..Len(h) :
              /\ FreeAll(h, R)[r].kind = h[r].kind /\ FreeAll(h, R)[r].owners = h[r].owners
              /\ FreeAll(h, R)[r].frees = IF r \in R THEN h[r].frees + 1 ELSE h[r].frees
<1> DEFINE e(r) == IF r \in R THEN [h[r] EXCEPT !.frees = @ + 1] ELSE h[r]
<1>1. DOMAIN h = 1..Len(h) /\ Len(h) \in Nat
  OBVIOUS
<1>2. ASSUME NEW r \in 1..Len(h)
      PROVE  /\ e(r) \in HeapEntry /\ e(r).kind = h[r].kind /\ e(r).owners = h[r].owners
             /\ e(r).frees = IF r \in R THEN h[r].frees + 1 ELSE h[r].frees
  <2>1. h[r] \in HeapEntry
    BY <1>2
  <2> QED
    BY <2>1 DEF HeapEntry
<1>3. FreeAll(h, R) = [ r \in 1..Len(h) |-> e(r) ]
  BY <1>1 DEF FreeAll
<1> HIDE DEF e
<1>4. [ r \in 1..Len(h) |-> e(r) ] \in Seq(HeapEntry) /\ Len([ r \in 1..Len(h) |-> e(r) ]) = Len(h)
      /\ \A r \in 1..Len(h) : [ q \in 1..Len(h) |-> e(q) ][r] = e(r)
  BY <1>1, <1>2
<1> QED
  BY <1>2, <1>3, <1>4

LEMMA OwnHeap ==
  ASSUME NEW h \in Seq(HeapEntry), NEW r \in 0..Len(h)
  PROVE  /\ Own(h, r) \in Seq(HeapEntry) /\ Len(Own(h, r)) = Len(h)
         /\ \A q \in 1..Len(h) :
              /\ Own(h, r)[q].kind = h[q].kind /\ Own(h, r)[q].frees = h[q].frees
              /\ Own(h, r)[q].owners = IF q = r THEN h[q].owners + 1 ELSE h[q].owners
<1>1. CASE r = 0
  BY <1>1 DEF Own
<1>2. CASE r # 0
  <2> DEFINE e == [h[r] EXCEPT !.owners = @ + 1]
  <2>1. DOMAIN h = 1..Len(h) /\ Len(h) \in Nat /\ r \in 1..Len(h) /\ h[r] \in HeapEntry
    BY <1>2
  <2>2. e \in HeapEntry /\ e.kind = h[r].kind /\ e.frees = h[r].frees /\ e.owners = h[r].owners + 1
    <3>1. \A x \in HeapEntry :
            LET y == [x EXCEPT !.owners = @ + 1]
            IN  y \in HeapEntry /\ y.kind = x.kind /\ y.frees = x.frees /\ y.owners = x.owners + 1
      BY DEF HeapEntry
    <3> QED
      BY <2>1, <3>1
  <2>3. Own(h, r) = [h EXCEPT ![r] = e]
    BY <1>2 DEF Own
  <2> HIDE DEF e
  <2>4. [h EXCEPT ![r] = e] \in Seq(HeapEntry) /\ Len([h EXCEPT ![r] = e]) = Len(h)
        /\ \A q \in 1..Len(h) : [h EXCEPT ![r] = e][q] = IF q = r THEN e ELSE h[q]
    BY <2>1, <2>2
  <2> QED
    BY <2>2, <2>3, <2>4
<1> QED
  BY <1>1, <1>2

LEMMA UnmsAre ==
  ASSUME NEW us, IsUnms(us)
  PROVE  /\ DOMAIN us = 1..Len(us) /\ Len(us) \in Nat /\ us \in Seq({us[k] : k \in 1..Len(us)})
         /\ \A k \in 1..Len(us) : us[k] = Unm(us[k].kind, us[k].self, us[k].holds, us[k].val)
<1>1. us = [ k \in 1..Len(us) |-> us[k] ]
  BY DEF IsUnms
<1>2. Len(us) \in Nat
  BY DEF IsUnms
<1>3. us \in Seq({us[k] : k \in 1..Len(us)}) /\ DOMAIN us = 1..Len(us)
  BY <1>1, <1>2, SeqOf
<1> QED
  BY <1>2, <1>3 DEF IsUnms

LEMMA MoreUnms ==
  ASSUME NEW us, IsUnms(us), NEW kind, NEW self, NEW holds, NEW val
  PROVE  LET us2 == Append(us, Unm(kind, self, holds, val)) IN
         /\ IsUnms(us2) /\ Len(us2) = Len(us) + 1 /\ us2[Len(us) + 1] = Unm(kind, self, holds, val)
         /\ \A k \in 1..Len(us) : us2[k] = us[k]
<1> DEFINE u == Unm(kind, self, holds, val)
           us2 == Append(us, u)
           S == {us[k] : k \in 1..Len(us)} \cup {u}
<1>1. Len(us) \in Nat /\ us \in Seq(S)
  <2>1. DOMAIN us = 1..Len(us) /\ Len(us) \in Nat /\ us \in Seq({us[k] : k \in 1..Len(us)})
    BY UnmsAre
  <2>2. \A k \in 1..Len(us) : us[k] \in S
    OBVIOUS
  <2> HIDE DEF S
  <2> QED
    BY <2>1, <2>2
<1>2. u \in S
  OBVIOUS
<1>3. us2 \in Seq(S) /\ Len(us2) = Len(us) + 1 /\ us2[Len(us) + 1] = u /\ \A k \in 1..Len(us) : us2[k] = us[k]
  <2> HIDE DEF S, u
  <2> QED
    BY <1>1, <1>2
<1>4. u.kind = kind /\ u.self = self /\ u.holds = holds /\ u.val = val
  BY DEF Unm
<1> HIDE DEF us2, S
<1>5. \A k \in 1..Len(us2) : us2[k] = Unm(us2[k].kind, us2[k].self, us2[k].holds, us2[k].val)
  <2> SUFFICES ASSUME NEW k \in 1..Len(us2)
               PROVE  us2[k] = Unm(us2[k].kind, us2[k].self, us2[k].holds, us2[k].val)
    OBVIOUS
  <2>1. CASE k \in 1..Len(us)
    BY <1>3, <2>1, UnmsAre
  <2>2. CASE k = Len(us) + 1
    BY <1>3, <1>4, <2>2
  <2> QED
    BY <1>1, <1>3, <2>1, <2>2
<1>6. us2 = [ k \in 1..Len(us2) |-> us2[k] ]
  BY <1>3
<1>7. IsUnms(us2)
  BY <1>1, <1>3, <1>5, <1>6 DEF IsUnms
<1> QED
  BY <1>3, <1>7 DEF us2

-----------------------------------------------------------------------------
(* What changes of worlds keep.                                            *)

LEMMA WorldFacts ==
  ASSUME NEW h, NEW p, NEW us, World(h, p, us)
  PROVE  /\ DOMAIN h = 1..Len(h) /\ Len(h) \in Nat /\ DOMAIN p = 1..Len(p) /\ Len(p) \in Nat
         /\ DOMAIN us = 1..Len(us) /\ Len(us) \in Nat
         /\ \A k \in 1..Len(us) : us[k].self \in 1..Len(h) /\ Owned(h, us[k]) \subseteq 1..Len(h)
         /\ \A i \in 1..Len(p) : Claim(h, us, p[i]) \subseteq 1..Len(h)
         /\ \A i \in 1..Len(p) : \A r \in Claim(h, us, p[i]) : h[r].kind # "wrapped"
         /\ \A r : Claimed(h, p, us, r) => r \in 1..Len(h)
<1>1. DOMAIN h = 1..Len(h) /\ Len(h) \in Nat /\ DOMAIN p = 1..Len(p) /\ Len(p) \in Nat
  BY DEF World
<1>2. DOMAIN us = 1..Len(us) /\ Len(us) \in Nat
  BY UnmsAre DEF World
<1>3. \A k \in 1..Len(us) : us[k].self \in 1..Len(h) /\ us[k].holds \in 0..Len(h)
  BY <1>1, <1>2 DEF World, Linked
<1>4. \A k \in 1..Len(us) : Owned(h, us[k]) \subseteq 1..Len(h)
  BY <1>1, <1>3 DEF Owned
<1>5. \A i \in 1..Len(p) : Claim(h, us, p[i]) \subseteq 1..Len(h)
  BY <1>1, <1>2, <1>4 DEF World, Stacked, Claim, Things
<1>6. \A k \in 1..Len(us) : \A r \in Owned(h, us[k]) : h[r].kind # "wrapped"
  BY <1>2 DEF World, Linked, Owned
<1>7. \A i \in 1..Len(p) : \A r \in Claim(h, us, p[i]) : h[r].kind # "wrapped"
  BY <1>1, <1>2, <1>6 DEF World, Stacked, Claim, Things
<1> QED
  BY <1>1, <1>2, <1>3, <1>4, <1>5, <1>7 DEF Claimed

\* A heap that grows, or whose counts change.
Extends(h, h2) ==
  /\ h2 \in Seq(HeapEntry) /\ Len(h) <= Len(h2)
  /\ \A r \in 1..Len(h) : h2[r].kind = h[r].kind

LEMMA Extended ==
  ASSUME NEW h, NEW p, NEW us, World(h, p, us), NEW h2, Extends(h, h2)
  PROVE  /\ World(h2, p, us)
         /\ \A k \in 1..Len(us) : Owned(h2, us[k]) = Owned(h, us[k])
         /\ \A i \in 1..Len(p) : Claim(h2, us, p[i]) = Claim(h, us, p[i])
         /\ \A r : Claimed(h2, p, us, r) <=> Claimed(h, p, us, r)
<1>1. /\ DOMAIN h = 1..Len(h) /\ Len(h) \in Nat /\ DOMAIN p = 1..Len(p) /\ DOMAIN us = 1..Len(us)
      /\ \A k \in 1..Len(us) : us[k].self \in 1..Len(h)
      /\ \A i \in 1..Len(p) : Claim(h, us, p[i]) \subseteq 1..Len(h)
  BY WorldFacts
<1>2. DOMAIN h2 = 1..Len(h2) /\ Len(h2) \in Nat /\ Len(h) <= Len(h2)
      /\ \A r \in 1..Len(h) : r \in 1..Len(h2) /\ h2[r].kind = h[r].kind
  BY <1>1 DEF Extends
<1>3. \A k \in 1..Len(us) : /\ us[k].holds \in 0..Len(h) /\ h[us[k].self].kind \in {"unm", "retUnm"}
                            /\ us[k].holds # 0 => us[k].holds \in 1..Len(h) /\ Fits(us[k], h[us[k].holds].kind)
  BY <1>1 DEF World, Linked
<1>4. \A k \in 1..Len(us) : Owned(h2, us[k]) = Owned(h, us[k])
  BY <1>1, <1>2, <1>3 DEF Owned
<1>5. Linked(h2, us)
  <2>1. \A k, l \in 1..Len(us) : k # l => Owned(h, us[k]) \cap Owned(h, us[l]) = {}
    BY <1>1 DEF World, Linked
  <2>2. \A k, l \in 1..Len(us) : k # l => Owned(h2, us[k]) \cap Owned(h2, us[l]) = {}
    BY <1>4, <2>1
  <2>3. \A k \in 1..Len(us) :
          /\ us[k].self \in 1..Len(h2) /\ h2[us[k].self].kind \in {"unm", "retUnm"}
          /\ us[k].holds \in 0..Len(h2)
          /\ us[k].holds # 0 => Fits(us[k], h2[us[k].holds].kind)
    BY <1>1, <1>2, <1>3
  <2> QED
    BY <1>1, <1>2, <2>2, <2>3 DEF Linked
<1>6. \A i \in 1..Len(p) : Claim(h2, us, p[i]) = Claim(h, us, p[i])
  BY <1>1, <1>4 DEF Claim, World, Stacked
<1>7. Stacked(h2, p, us)
  <2>1. \A i, j \in 1..Len(p) : i < j =>
          \A r \in Claim(h2, us, p[i]) \cap Claim(h2, us, p[j]) :
            h2[r].kind = "heldBstr" /\ IsOut(p[i]) /\ ~IsOut(p[j])
    <3> SUFFICES ASSUME NEW i \in 1..Len(p), NEW j \in 1..Len(p), i < j,
                        NEW r \in Claim(h, us, p[i]) \cap Claim(h, us, p[j])
                 PROVE  h2[r].kind = "heldBstr" /\ IsOut(p[i]) /\ ~IsOut(p[j])
      BY <1>6
    <3>1. h[r].kind = "heldBstr" /\ IsOut(p[i]) /\ ~IsOut(p[j])
      BY <1>1 DEF World, Stacked
    <3> QED
      BY <1>1, <1>2, <3>1
  <2>2. \A i \in 1..Len(p) : IF IsOut(p[i]) THEN p[i].unm \in DOMAIN us ELSE p[i].res \subseteq Things(h2)
    <3>1. Things(h) \subseteq Things(h2)
      BY <1>1, <1>2 DEF Things
    <3> QED
      BY <1>1, <3>1 DEF World, Stacked
  <2> QED
    BY <1>1, <2>1, <2>2 DEF Stacked
<1>8. \A r : Claimed(h2, p, us, r) <=> Claimed(h, p, us, r)
  BY <1>1, <1>6 DEF Claimed
<1> QED
  BY <1>4, <1>5, <1>6, <1>7, <1>8 DEF World, Extends

\* One more unmarshaller, of things that no other one has.
With(us, u) == Append(us, u)

LEMMA AddedUnm ==
  ASSUME NEW h, NEW p, NEW us, World(h, p, us), NEW kind, NEW self \in 1..Len(h), NEW holds \in 0..Len(h), NEW val,
         h[self].kind \in {"unm", "retUnm"},
         \A k \in 1..Len(us) : self \notin Owned(h, us[k]),
         holds # 0 => /\ Fits(Unm(kind, self, holds, val), h[holds].kind)
                      /\ h[holds].kind # "wrapped" => \A k \in 1..Len(us) : holds \notin Owned(h, us[k])
  PROVE  LET us2 == With(us, Unm(kind, self, holds, val)) IN
         /\ World(h, p, us2)
         /\ \A i \in 1..Len(p) : Claim(h, us2, p[i]) = Claim(h, us, p[i])
         /\ \A r : Claimed(h, p, us2, r) <=> Claimed(h, p, us, r)
<1> DEFINE u == Unm(kind, self, holds, val)
           us2 == With(us, u)
           m == Len(us) + 1
<1>1. DOMAIN h = 1..Len(h) /\ Len(h) \in Nat /\ DOMAIN p = 1..Len(p) /\ DOMAIN us = 1..Len(us) /\ Len(us) \in Nat
  BY WorldFacts
<1>2. IsUnms(us2) /\ Len(us2) = m /\ us2[m] = u /\ \A k \in 1..Len(us) : us2[k] = us[k]
  BY MoreUnms DEF World, With
<1>3. u.kind = kind /\ u.self = self /\ u.holds = holds /\ u.val = val
  BY DEF Unm
<1>4. DOMAIN us2 = 1..m /\ m \in 1..m /\ \A k \in 1..m : k = m \/ k \in 1..Len(us)
  BY <1>1, <1>2, UnmsAre
<1> HIDE DEF us2, u
<1>5. \A k \in 1..Len(us) : Owned(h, u) \cap Owned(h, us[k]) = {}
  BY <1>3 DEF Owned, u
<1> HIDE DEF m
<1>6. Linked(h, us2)
  <2>1. \A k \in 1..m :
          /\ us2[k].self \in DOMAIN h /\ h[us2[k].self].kind \in {"unm", "retUnm"}
          /\ us2[k].holds \in 0..Len(h)
          /\ us2[k].holds # 0 => Fits(us2[k], h[us2[k].holds].kind)
    <3> SUFFICES ASSUME NEW k \in 1..m
                 PROVE  /\ us2[k].self \in DOMAIN h /\ h[us2[k].self].kind \in {"unm", "retUnm"}
                        /\ us2[k].holds \in 0..Len(h)
                        /\ us2[k].holds # 0 => Fits(us2[k], h[us2[k].holds].kind)
      OBVIOUS
    <3>1. CASE k = m
      BY <1>1, <1>2, <1>3, <3>1 DEF u
    <3>2. CASE k \in 1..Len(us)
      BY <1>1, <1>2, <3>2 DEF World, Linked
    <3> QED
      BY <1>4, <3>1, <3>2
  <2>2. \A k, l \in 1..m : k # l => Owned(h, us2[k]) \cap Owned(h, us2[l]) = {}
    <3> SUFFICES ASSUME NEW k \in 1..m, NEW l \in 1..m, k # l
                 PROVE  Owned(h, us2[k]) \cap Owned(h, us2[l]) = {}
      OBVIOUS
    <3>1. CASE k \in 1..Len(us) /\ l \in 1..Len(us)
      BY <1>1, <1>2, <3>1 DEF World, Linked
    <3>2. CASE k = m /\ l \in 1..Len(us)
      BY <1>2, <1>5, <3>2
    <3>3. CASE k \in 1..Len(us) /\ l = m
      BY <1>2, <1>5, <3>3
    <3> QED
      BY <1>4, <3>1, <3>2, <3>3
  <2> QED
    BY <1>4, <2>1, <2>2 DEF Linked
<1>7. \A i \in 1..Len(p) : Claim(h, us2, p[i]) = Claim(h, us, p[i])
  BY <1>1, <1>2 DEF Claim, World, Stacked
<1>8. Stacked(h, p, us2)
  <2>1. \A i \in 1..Len(p) : IF IsOut(p[i]) THEN p[i].unm \in DOMAIN us2 ELSE p[i].res \subseteq Things(h)
    <3>1. \A k \in DOMAIN us : k \in DOMAIN us2
      BY <1>1, <1>4 DEF m
    <3> QED
      BY <1>1, <3>1 DEF World, Stacked
  <2>2. \A i, j \in 1..Len(p) : i < j =>
          \A r \in Claim(h, us2, p[i]) \cap Claim(h, us2, p[j]) :
            h[r].kind = "heldBstr" /\ IsOut(p[i]) /\ ~IsOut(p[j])
    BY <1>1, <1>7 DEF World, Stacked
  <2> QED
    BY <1>1, <2>1, <2>2 DEF Stacked
<1>9. \A r : Claimed(h, p, us2, r) <=> Claimed(h, p, us, r)
  BY <1>1, <1>7 DEF Claimed
<1>10. World(h, p, us2)
  BY <1>2, <1>6, <1>8 DEF World
<1> QED
  BY <1>7, <1>9, <1>10 DEF us2, u

\* One more post action, of things that no other claims; the BSTR of a holder may be claimed by a clean-up.
LEMMA AddedAct ==
  ASSUME NEW h, NEW p, NEW us, World(h, p, us), NEW a \in PostAct,
         IF IsOut(a) THEN a.unm \in DOMAIN us ELSE a.res \subseteq Things(h),
         \A i \in 1..Len(p) : \A r \in Claim(h, us, a) \cap Claim(h, us, p[i]) :
           h[r].kind = "heldBstr" /\ IsOut(a) /\ ~IsOut(p[i])
  PROVE  /\ World(h, <<a>> \o p, us)
         /\ \A r : Claimed(h, <<a>> \o p, us, r) <=> (r \in Claim(h, us, a) \/ Claimed(h, p, us, r))
         /\ \A X : Due(h, p, us, X) /\ (\A r \in Claim(h, us, a) : Fresh(h, r)) => Due(h, <<a>> \o p, us, X)
<1> DEFINE p2 == <<a>> \o p
<1>1. DOMAIN p = 1..Len(p) /\ Len(p) \in Nat /\ p \in Seq(PostAct)
  BY WorldFacts DEF World
<1>2. /\ p2 \in Seq(PostAct) /\ Len(p2) = Len(p) + 1 /\ p2[1] = a
      /\ \A i \in 1..Len(p) : p2[i + 1] = p[i]
      /\ \A i \in 2..(Len(p) + 1) : i - 1 \in 1..Len(p) /\ p2[i] = p[i - 1]
  <2> HIDE DEF PostAct
  <2> QED
    BY <1>1, Fronted
<1>3. DOMAIN p2 = 1..(Len(p) + 1)
  BY <1>2
<1> HIDE DEF p2
<1>4. Stacked(h, p2, us)
  <2>1. ASSUME NEW i \in 1..(Len(p) + 1)
        PROVE  IF IsOut(p2[i]) THEN p2[i].unm \in DOMAIN us ELSE p2[i].res \subseteq Things(h)
    <3>1. CASE i = 1
      BY <1>2, <3>1
    <3>2. CASE i # 1
      <4>1. i - 1 \in 1..Len(p) /\ p2[i] = p[i - 1]
        BY <1>1, <1>2, <3>2
      <4> QED
        BY <1>1, <4>1 DEF World, Stacked
    <3> QED
      BY <3>1, <3>2
  <2>2. ASSUME NEW i \in 1..(Len(p) + 1), NEW j \in 1..(Len(p) + 1), i < j,
               NEW r \in Claim(h, us, p2[i]) \cap Claim(h, us, p2[j])
        PROVE  h[r].kind = "heldBstr" /\ IsOut(p2[i]) /\ ~IsOut(p2[j])
    <3>1. j - 1 \in 1..Len(p) /\ p2[j] = p[j - 1]
      BY <1>1, <1>2, <2>2
    <3>2. CASE i = 1
      BY <1>2, <2>2, <3>1, <3>2
    <3>3. CASE i # 1
      <4>1. i - 1 \in 1..Len(p) /\ p2[i] = p[i - 1] /\ i - 1 < j - 1
        BY <1>1, <1>2, <2>2, <3>3
      <4>2. \A x, y \in 1..Len(p) : x < y =>
              \A q \in Claim(h, us, p[x]) \cap Claim(h, us, p[y]) :
                h[q].kind = "heldBstr" /\ IsOut(p[x]) /\ ~IsOut(p[y])
        BY <1>1 DEF World, Stacked
      <4> QED
        BY <2>2, <3>1, <4>1, <4>2
    <3> QED
      BY <3>2, <3>3
  <2> QED
    BY <1>3, <2>1, <2>2 DEF Stacked
<1>5. \A r : Claimed(h, p2, us, r) <=> (r \in Claim(h, us, a) \/ Claimed(h, p, us, r))
  <2>1. ASSUME NEW r, Claimed(h, p2, us, r)
        PROVE  r \in Claim(h, us, a) \/ Claimed(h, p, us, r)
    <3>1. PICK i \in 1..(Len(p) + 1) : r \in Claim(h, us, p2[i])
      BY <1>3, <2>1 DEF Claimed
    <3>2. CASE i = 1
      BY <1>2, <3>1, <3>2
    <3>3. CASE i # 1
      <4>1. i - 1 \in 1..Len(p) /\ p2[i] = p[i - 1]
        BY <1>1, <1>2, <3>3
      <4> QED
        BY <1>1, <3>1, <4>1 DEF Claimed
    <3> QED
      BY <3>2, <3>3
  <2>2. ASSUME NEW r, r \in Claim(h, us, a) \/ Claimed(h, p, us, r)
        PROVE  Claimed(h, p2, us, r)
    <3>1. CASE r \in Claim(h, us, a)
      <4>1. 1 \in DOMAIN p2
        BY <1>1, <1>3
      <4> QED
        BY <1>2, <3>1, <4>1 DEF Claimed
    <3>2. CASE Claimed(h, p, us, r)
      <4>1. PICK i \in 1..Len(p) : r \in Claim(h, us, p[i])
        BY <1>1, <3>2 DEF Claimed
      <4>2. i + 1 \in DOMAIN p2 /\ p2[i + 1] = p[i]
        BY <1>1, <1>2, <1>3
      <4> QED
        BY <4>1, <4>2 DEF Claimed
    <3> QED
      BY <2>2, <3>1, <3>2
  <2> QED
    BY <2>1, <2>2
<1>6. ASSUME NEW X, Due(h, p, us, X), \A r \in Claim(h, us, a) : Fresh(h, r)
      PROVE  Due(h, p2, us, X)
  <2> SUFFICES ASSUME NEW i \in 1..(Len(p) + 1), NEW r \in Claim(h, us, p2[i])
               PROVE  \/ Fresh(h, r)
                      \/ IF IsOut(p2[i]) THEN p2[i].unm \in X ELSE h[r].kind = "heldBstr"
    BY <1>3 DEF Due
  <2>1. CASE i = 1
    BY <1>2, <1>6, <2>1
  <2>2. CASE i # 1
    <3>1. i - 1 \in 1..Len(p) /\ p2[i] = p[i - 1]
      BY <1>1, <1>2, <2>2
    <3> QED
      BY <1>1, <1>6, <3>1 DEF Due
  <2> QED
    BY <2>1, <2>2
<1>7. World(h, p2, us)
  BY <1>2, <1>4 DEF World
<1> QED
  BY <1>5, <1>6, <1>7 DEF p2

\* The first post action is over.
LEMMA PoppedAct ==
  ASSUME NEW h, NEW p, NEW us, World(h, p, us), p # <<>>
  PROVE  /\ World(h, Tail(p), us)
         /\ \A r : Claimed(h, p, us, r) <=> (r \in Claim(h, us, Head(p)) \/ Claimed(h, Tail(p), us, r))
         /\ \A i \in 1..Len(Tail(p)) : \A r \in Claim(h, us, Head(p)) \cap Claim(h, us, Tail(p)[i]) :
              h[r].kind = "heldBstr" /\ IsOut(Head(p)) /\ ~IsOut(Tail(p)[i])
         /\ \A X : Due(h, p, us, X) => Due(h, Tail(p), us, X)
<1> DEFINE p2 == Tail(p)
<1>1. DOMAIN p = 1..Len(p) /\ Len(p) \in Nat /\ p \in Seq(PostAct)
  BY WorldFacts DEF World
<1>2. /\ Head(p) = p[1] /\ p2 \in Seq(PostAct) /\ Len(p2) = Len(p) - 1 /\ Len(p) \in Nat \ {0}
      /\ \A i \in 1..Len(p2) : p2[i] = p[i + 1]
  <2> HIDE DEF PostAct
  <2> QED
    BY <1>1, Behead
<1>3. DOMAIN p2 = 1..Len(p2) /\ 1 \in DOMAIN p /\ \A i \in 1..Len(p2) : i + 1 \in DOMAIN p
  BY <1>1, <1>2
<1> HIDE DEF p2
<1>4. \A x, y \in DOMAIN p : x < y =>
        \A r \in Claim(h, us, p[x]) \cap Claim(h, us, p[y]) : h[r].kind = "heldBstr" /\ IsOut(p[x]) /\ ~IsOut(p[y])
  BY DEF World, Stacked
<1>5. \A x \in DOMAIN p : IF IsOut(p[x]) THEN p[x].unm \in DOMAIN us ELSE p[x].res \subseteq Things(h)
  BY DEF World, Stacked
<1>6. Stacked(h, p2, us)
  <2>1. \A i \in DOMAIN p2 : IF IsOut(p2[i]) THEN p2[i].unm \in DOMAIN us ELSE p2[i].res \subseteq Things(h)
    BY <1>2, <1>3, <1>5
  <2>2. ASSUME NEW i \in 1..Len(p2), NEW j \in 1..Len(p2), i < j,
               NEW r \in Claim(h, us, p2[i]) \cap Claim(h, us, p2[j])
        PROVE  h[r].kind = "heldBstr" /\ IsOut(p2[i]) /\ ~IsOut(p2[j])
    <3>1. i + 1 \in DOMAIN p /\ j + 1 \in DOMAIN p /\ i + 1 < j + 1 /\ p2[i] = p[i + 1] /\ p2[j] = p[j + 1]
      BY <1>2, <1>3, <2>2
    <3> QED
      BY <2>2, <3>1, <1>4
  <2> QED
    BY <1>3, <2>1, <2>2 DEF Stacked
<1>7. \A r : Claimed(h, p, us, r) <=> (r \in Claim(h, us, Head(p)) \/ Claimed(h, p2, us, r))
  <2>1. ASSUME NEW r, Claimed(h, p, us, r), r \notin Claim(h, us, Head(p))
        PROVE  Claimed(h, p2, us, r)
    <3>1. PICK i \in 1..Len(p) : r \in Claim(h, us, p[i])
      BY <1>1, <2>1 DEF Claimed
    <3>2. i # 1
      BY <1>2, <2>1, <3>1
    <3>3. i - 1 \in 1..Len(p2) /\ (i - 1) + 1 = i
      BY <1>1, <1>2, <3>2
    <3>4. p2[i - 1] = p[i]
      BY <1>2, <3>3
    <3> QED
      BY <1>3, <3>1, <3>3, <3>4 DEF Claimed
  <2>2. ASSUME NEW r, Claimed(h, p2, us, r)
        PROVE  Claimed(h, p, us, r)
    BY <1>2, <1>3, <2>2 DEF Claimed
  <2>3. ASSUME NEW r \in Claim(h, us, Head(p))
        PROVE  Claimed(h, p, us, r)
    BY <1>2, <1>3 DEF Claimed
  <2> QED
    BY <2>1, <2>2, <2>3
<1>8. \A i \in 1..Len(p2) : \A r \in Claim(h, us, Head(p)) \cap Claim(h, us, p2[i]) :
         h[r].kind = "heldBstr" /\ IsOut(Head(p)) /\ ~IsOut(p2[i])
  <2> SUFFICES ASSUME NEW i \in 1..Len(p2), NEW r \in Claim(h, us, Head(p)) \cap Claim(h, us, p2[i])
               PROVE  h[r].kind = "heldBstr" /\ IsOut(Head(p)) /\ ~IsOut(p2[i])
    OBVIOUS
  <2>1. 1 < i + 1 /\ p2[i] = p[i + 1] /\ i + 1 \in DOMAIN p /\ 1 \in DOMAIN p /\ Head(p) = p[1]
    BY <1>2, <1>3
  <2> QED
    BY <2>1, <1>4
<1>9. \A X : Due(h, p, us, X) => Due(h, p2, us, X)
  BY <1>2, <1>3 DEF Due
<1>10. World(h, p2, us)
  BY <1>2, <1>6 DEF World
<1> QED
  BY <1>7, <1>8, <1>9, <1>10 DEF p2

\* An unmarshaller receives something else, and what it held is nobody's but a clean-up's.
LEMMA ReplacedUnm ==
  ASSUME NEW h, NEW p, NEW us, World(h, p, us), NEW k \in 1..Len(us), NEW x \in 0..Len(h), NEW v,
         x # 0 => /\ Fits(Unm(us[k].kind, us[k].self, x, v), h[x].kind) /\ h[x].kind # "wrapped"
                  /\ ~Claimed(h, p, us, x) /\ \A l \in 1..Len(us) : x \notin Owned(h, us[l])
  PROVE  LET us2 == [us EXCEPT ![k] = Unm(us[k].kind, us[k].self, x, v)] IN
         /\ World(h, p, us2) /\ Len(us2) = Len(us) /\ us2[k] = Unm(us[k].kind, us[k].self, x, v)
         /\ \A l \in 1..Len(us) : l # k => us2[l] = us[l]
         /\ Owned(h, us2[k]) = {us[k].self} \cup ({x} \ {0})
         /\ \A i \in 1..Len(p) : Claim(h, us2, p[i]) =
              IF IsOut(p[i]) /\ p[i].unm = k THEN {us[k].self} \cup ({x} \ {0}) ELSE Claim(h, us, p[i])
         /\ \A r : Claimed(h, p, us2, r) /\ r # x => Claimed(h, p, us, r)
<1> DEFINE u == Unm(us[k].kind, us[k].self, x, v)
           us2 == [us EXCEPT ![k] = u]
<1>1. DOMAIN h = 1..Len(h) /\ Len(h) \in Nat /\ DOMAIN p = 1..Len(p) /\ DOMAIN us = 1..Len(us) /\ Len(us) \in Nat
      /\ us[k].self \in 1..Len(h)
  BY WorldFacts
<1>2. /\ us2 = [ l \in 1..Len(us) |-> us2[l] ] /\ us2[k] = u /\ \A l \in 1..Len(us) : l # k => us2[l] = us[l]
  <2> HIDE DEF u
  <2> QED
    BY <1>1
<1>3. u.kind = us[k].kind /\ u.self = us[k].self /\ u.holds = x /\ u.val = v
  BY DEF Unm
<1> HIDE DEF us2
<1>4. Len(us2) = Len(us) /\ DOMAIN us2 = 1..Len(us)
  BY <1>1, <1>2, SeqOf
<1> HIDE DEF u
<1>5. IsUnms(us2)
  <2>1. \A l \in 1..Len(us) : us[l] = Unm(us[l].kind, us[l].self, us[l].holds, us[l].val)
    BY UnmsAre DEF World
  <2>2. \A l \in 1..Len(us) : us2[l] = Unm(us2[l].kind, us2[l].self, us2[l].holds, us2[l].val)
    <3>1. us2[k] = Unm(us2[k].kind, us2[k].self, us2[k].holds, us2[k].val)
      BY <1>2, <1>3 DEF u
    <3> QED
      BY <1>2, <2>1, <3>1
  <2>3. us2 = [ l \in 1..Len(us2) |-> Unm(us2[l].kind, us2[l].self, us2[l].holds, us2[l].val) ]
    BY <1>2, <1>4, <2>2
  <2> QED
    BY <1>1, <1>4, <2>3 DEF IsUnms
<1>6. Owned(h, u) = {us[k].self} \cup ({x} \ {0})
  BY <1>3 DEF Owned
<1>7. us[k].self \in Owned(h, us[k])
  BY DEF Owned
<1>8. Linked(h, us2)
  <2>1. \A l \in 1..Len(us) :
          /\ us2[l].self \in DOMAIN h /\ h[us2[l].self].kind \in {"unm", "retUnm"}
          /\ us2[l].holds \in 0..Len(h)
          /\ us2[l].holds # 0 => Fits(us2[l], h[us2[l].holds].kind)
    <3> SUFFICES ASSUME NEW l \in 1..Len(us)
                 PROVE  /\ us2[l].self \in DOMAIN h /\ h[us2[l].self].kind \in {"unm", "retUnm"}
                        /\ us2[l].holds \in 0..Len(h)
                        /\ us2[l].holds # 0 => Fits(us2[l], h[us2[l].holds].kind)
      OBVIOUS
    <3>1. /\ us[l].self \in DOMAIN h /\ h[us[l].self].kind \in {"unm", "retUnm"}
          /\ us[l].holds \in 0..Len(h)
          /\ us[l].holds # 0 => Fits(us[l], h[us[l].holds].kind)
      BY <1>1 DEF World, Linked
    <3>2. CASE l = k
      BY <1>2, <1>3, <3>1, <3>2 DEF u
    <3> QED
      BY <1>2, <3>1, <3>2
  <2>2. \A l, m \in 1..Len(us) : l # m => Owned(h, us[l]) \cap Owned(h, us[m]) = {}
    BY <1>1 DEF World, Linked
  <2>3. \A l \in 1..Len(us) : l # k => Owned(h, u) \cap Owned(h, us[l]) = {}
    BY <1>6, <1>7, <2>2
  <2>4. \A l, m \in 1..Len(us) : l # m => Owned(h, us2[l]) \cap Owned(h, us2[m]) = {}
    BY <1>2, <2>2, <2>3
  <2> QED
    BY <1>4, <2>1, <2>4 DEF Linked
<1>9. \A i \in 1..Len(p) : Claim(h, us2, p[i]) =
        IF IsOut(p[i]) /\ p[i].unm = k THEN {us[k].self} \cup ({x} \ {0}) ELSE Claim(h, us, p[i])
  BY <1>1, <1>2, <1>6 DEF Claim, World, Stacked
<1>10. \A r : Claimed(h, p, us2, r) /\ r # x => Claimed(h, p, us, r)
  <2> SUFFICES ASSUME NEW r, NEW i \in 1..Len(p), r \in Claim(h, us2, p[i]), r # x
               PROVE  Claimed(h, p, us, r)
    BY <1>1 DEF Claimed
  <2>1. r \in Claim(h, us, p[i])
    BY <1>7, <1>9 DEF Claim
  <2> QED
    BY <1>1, <2>1 DEF Claimed
<1>11. Stacked(h, p, us2)
  <2>1. \A i \in 1..Len(p) : IF IsOut(p[i]) THEN p[i].unm \in DOMAIN us2 ELSE p[i].res \subseteq Things(h)
    BY <1>1, <1>4 DEF World, Stacked
  <2>2. ASSUME NEW i \in 1..Len(p), NEW j \in 1..Len(p), i < j,
               NEW r \in Claim(h, us2, p[i]) \cap Claim(h, us2, p[j])
        PROVE  h[r].kind = "heldBstr" /\ IsOut(p[i]) /\ ~IsOut(p[j])
    <3>1. \A q \in Claim(h, us, p[i]) \cap Claim(h, us, p[j]) : h[q].kind = "heldBstr" /\ IsOut(p[i]) /\ ~IsOut(p[j])
      BY <1>1, <2>2 DEF World, Stacked
    <3>2. CASE r # x
      <4>1. r \in Claim(h, us, p[i]) /\ r \in Claim(h, us, p[j])
        BY <1>7, <1>9, <2>2, <3>2 DEF Claim
      <4> QED
        BY <3>1, <4>1
    <3>3. CASE r = x
      <4>1. x # 0
        BY <1>9, <1>1, <2>2, <3>3, WorldFacts
      <4>2. \A m \in 1..Len(p) : x \notin Claim(h, us, p[m])
        BY <1>1, <4>1 DEF Claimed
      <4>3. IsOut(p[i]) /\ p[i].unm = k /\ IsOut(p[j]) /\ p[j].unm = k
        BY <1>9, <2>2, <3>3, <4>2
      <4>4. us[k].self \in Claim(h, us, p[i]) \cap Claim(h, us, p[j])
        BY <1>7, <4>3 DEF Claim
      <4> QED
        BY <3>1, <4>3, <4>4
    <3> QED
      BY <3>2, <3>3
  <2> QED
    BY <1>1, <2>1, <2>2 DEF Stacked
<1>12. World(h, p, us2)
  BY <1>5, <1>8, <1>11 DEF World
<1> QED
  BY <1>2, <1>4, <1>6, <1>9, <1>10, <1>12 DEF us2, u

-----------------------------------------------------------------------------
(* Worlds that grow while the arguments are converted.                     *)

LEMMA AddedOutActs ==
  ASSUME NEW S, NEW p \in Seq(S), NEW a \in S
  PROVE  OutActs(<<a>> \o p) = IF IsOut(a) THEN OutActs(p) \cup {a} ELSE OutActs(p)
<1> DEFINE p2 == <<a>> \o p
<1>1. /\ Len(p) \in Nat /\ Len(p2) = Len(p) + 1 /\ p2[1] = a
      /\ \A i \in 1..Len(p) : p2[i + 1] = p[i]
      /\ \A i \in 2..(Len(p) + 1) : i - 1 \in 1..Len(p) /\ p2[i] = p[i - 1]
  BY Fronted
<1> HIDE DEF p2
<1>2. \A x \in OutActs(p2) : IsOut(x) /\ (x = a \/ x \in OutActs(p))
  <2> SUFFICES ASSUME NEW i \in 1..Len(p2), IsOut(p2[i])
               PROVE  p2[i] = a \/ p2[i] \in OutActs(p)
    BY DEF OutActs
  <2>1. CASE i = 1
    BY <1>1, <2>1
  <2>2. CASE i # 1
    <3>1. i - 1 \in 1..Len(p) /\ p2[i] = p[i - 1]
      BY <1>1, <2>2
    <3> QED
      BY <3>1 DEF OutActs
  <2> QED
    BY <2>1, <2>2
<1>3. \A x \in OutActs(p) : x \in OutActs(p2)
  <2> SUFFICES ASSUME NEW i \in 1..Len(p), IsOut(p[i])
               PROVE  p[i] \in OutActs(p2)
    BY DEF OutActs
  <2>1. i + 1 \in 1..Len(p2) /\ p2[i + 1] = p[i]
    BY <1>1
  <2> QED
    BY <2>1 DEF OutActs
<1>4. IsOut(a) => a \in OutActs(p2)
  <2>1. 1 \in 1..Len(p2) /\ p2[1] = a
    BY <1>1
  <2> QED
    BY <2>1 DEF OutActs
<1>5. OutActs(p2) = IF IsOut(a) THEN OutActs(p) \cup {a} ELSE OutActs(p)
  BY <1>2, <1>3, <1>4
<1> QED
  BY <1>5 DEF p2

LEMMA PoppedOutActs ==
  ASSUME NEW h, NEW p, NEW us, World(h, p, us), p # <<>>
  PROVE  /\ OutActs(p) = OutActs(Tail(p)) \cup (IF IsOut(Head(p)) THEN {Head(p)} ELSE {})
         /\ IsOut(Head(p)) => \A a \in OutActs(Tail(p)) : a.unm # Head(p).unm
<1> DEFINE q == Tail(p)
           b == Head(p)
<1>1. q \in Seq(PostAct) /\ b \in PostAct /\ p = <<b>> \o q
  BY DEF World
<1>2. \A i \in 1..Len(q) : \A r \in Claim(h, us, b) \cap Claim(h, us, q[i]) :
        h[r].kind = "heldBstr" /\ IsOut(b) /\ ~IsOut(q[i])
  BY PoppedAct
<1> HIDE DEF q, b
<1>3. OutActs(p) = OutActs(q) \cup (IF IsOut(b) THEN {b} ELSE {})
  BY <1>1, AddedOutActs
<1>4. ASSUME IsOut(b), NEW a \in OutActs(q), a.unm = b.unm
      PROVE  FALSE
  <2>1. PICK i \in 1..Len(q) : a = q[i] /\ IsOut(q[i])
    BY <1>4 DEF OutActs
  <2>2. us[b.unm].self \in Claim(h, us, b) /\ us[b.unm].self \in Claim(h, us, q[i])
    BY <1>4, <2>1 DEF Claim, Owned
  <2> QED
    BY <1>2, <2>1, <2>2
<1> QED
  BY <1>3, <1>4 DEF q, b

\* What an act that writes claims.
LEMMA OutActFacts ==
  ASSUME NEW h, NEW p, NEW us, World(h, p, us), NEW a \in OutActs(p)
  PROVE  /\ IsOut(a) /\ a \in PostAct /\ a.unm \in 1..Len(us) /\ Claim(h, us, a) = Owned(h, us[a.unm])
         /\ Claim(h, us, a) \subseteq 1..Len(h)
         /\ \A r \in Claim(h, us, a) : Claimed(h, p, us, r) /\ h[r].kind # "wrapped"
         /\ \A X, r : Due(h, p, us, X) /\ r \in Claim(h, us, a) => Fresh(h, r) \/ a.unm \in X
<1>1. PICK i \in 1..Len(p) : a = p[i] /\ IsOut(p[i])
  BY DEF OutActs
<1>2. i \in DOMAIN p /\ a \in PostAct
  BY <1>1 DEF World
<1>3. a.unm \in DOMAIN us
  BY <1>1, <1>2 DEF World, Stacked
<1>4. DOMAIN us = 1..Len(us) /\ Claim(h, us, p[i]) \subseteq 1..Len(h)
      /\ \A r \in Claim(h, us, p[i]) : h[r].kind # "wrapped"
  BY <1>1, WorldFacts
<1>5. \A r \in Claim(h, us, a) : Claimed(h, p, us, r)
  BY <1>1, <1>2 DEF Claimed
<1>6. \A X, r : Due(h, p, us, X) /\ r \in Claim(h, us, a) => Fresh(h, r) \/ a.unm \in X
  BY <1>1, <1>2 DEF Due
<1> QED
  BY <1>1, <1>2, <1>3, <1>4, <1>5, <1>6 DEF Claim

\* Entries at the end, which nobody claims yet.
LEMMA NewWorld ==
  ASSUME NEW h, NEW p, NEW us, World(h, p, us), NEW kinds \in Seq(HeapKinds)
  PROVE  LET h2 == New(h, kinds) IN
         /\ World(h2, p, us) /\ Extends(h, h2) /\ Len(h2) = Len(h) + Len(kinds)
         /\ \A r \in 1..Len(h) : h2[r] = h[r]
         /\ \A i \in 1..Len(kinds) : h2[Len(h) + i].kind = kinds[i] /\ Fresh(h2, Len(h) + i)
         /\ \A k \in 1..Len(us) : Owned(h2, us[k]) = Owned(h, us[k])
         /\ \A i \in 1..Len(p) : Claim(h2, us, p[i]) = Claim(h, us, p[i])
         /\ \A r : Claimed(h2, p, us, r) <=> Claimed(h, p, us, r)
         /\ \A X : Due(h, p, us, X) => Due(h2, p, us, X)
<1> DEFINE h2 == New(h, kinds)
<1>1. DOMAIN p = 1..Len(p) /\ Len(h) \in Nat /\ Len(kinds) \in Nat
      /\ \A i \in 1..Len(p) : Claim(h, us, p[i]) \subseteq 1..Len(h)
  BY WorldFacts
<1>2. /\ h2 \in Seq(HeapEntry) /\ Len(h2) = Len(h) + Len(kinds)
      /\ \A r \in 1..Len(h) : h2[r] = h[r]
      /\ \A i \in 1..Len(kinds) : h2[Len(h) + i].kind = kinds[i] /\ Fresh(h2, Len(h) + i)
  BY NewHeap DEF World
<1> HIDE DEF h2
<1>3. Extends(h, h2)
  BY <1>1, <1>2 DEF Extends
<1>4. /\ World(h2, p, us)
      /\ \A k \in 1..Len(us) : Owned(h2, us[k]) = Owned(h, us[k])
      /\ \A i \in 1..Len(p) : Claim(h2, us, p[i]) = Claim(h, us, p[i])
      /\ \A r : Claimed(h2, p, us, r) <=> Claimed(h, p, us, r)
  BY <1>3, Extended
<1>5. ASSUME NEW X, Due(h, p, us, X)
      PROVE  Due(h2, p, us, X)
  <2> SUFFICES ASSUME NEW i \in 1..Len(p), NEW r \in Claim(h2, us, p[i])
               PROVE  Fresh(h2, r) \/ IF IsOut(p[i]) THEN p[i].unm \in X ELSE h2[r].kind = "heldBstr"
    BY <1>1 DEF Due
  <2>1. r \in Claim(h, us, p[i]) /\ h2[r] = h[r]
    BY <1>1, <1>2, <1>4
  <2>2. Fresh(h, r) \/ IF IsOut(p[i]) THEN p[i].unm \in X ELSE h[r].kind = "heldBstr"
    BY <1>1, <1>5, <2>1 DEF Due
  <2> QED
    BY <2>1, <2>2 DEF Fresh
<1> QED
  BY <1>2, <1>3, <1>4, <1>5 DEF h2

\* One entry.
LEMMA NewOneWorld ==
  ASSUME NEW h, NEW p, NEW us, World(h, p, us), NEW q \in HeapKinds
  PROVE  LET h2 == New(h, <<q>>) IN
         /\ World(h2, p, us) /\ Extends(h, h2) /\ Len(h2) = Len(h) + 1
         /\ \A r \in 1..Len(h) : h2[r] = h[r]
         /\ h2[Len(h) + 1].kind = q /\ Fresh(h2, Len(h) + 1)
         /\ \A k \in 1..Len(us) : Owned(h2, us[k]) = Owned(h, us[k])
         /\ \A i \in 1..Len(p) : Claim(h2, us, p[i]) = Claim(h, us, p[i])
         /\ \A r : Claimed(h2, p, us, r) <=> Claimed(h, p, us, r)
         /\ \A X : Due(h, p, us, X) => Due(h2, p, us, X)
<1> DEFINE kinds == <<q>>
<1>1. kinds \in Seq(HeapKinds) /\ Len(kinds) = 1 /\ kinds[1] = q /\ 1 \in 1..Len(kinds)
  <2> HIDE DEF HeapKinds
  <2> QED
    OBVIOUS
<1> HIDE DEF kinds
<1> DEFINE h2 == New(h, kinds)
<1>2. /\ World(h2, p, us) /\ Extends(h, h2) /\ Len(h2) = Len(h) + Len(kinds)
      /\ \A r \in 1..Len(h) : h2[r] = h[r]
      /\ \A i \in 1..Len(kinds) : h2[Len(h) + i].kind = kinds[i] /\ Fresh(h2, Len(h) + i)
      /\ \A k \in 1..Len(us) : Owned(h2, us[k]) = Owned(h, us[k])
      /\ \A i \in 1..Len(p) : Claim(h2, us, p[i]) = Claim(h, us, p[i])
      /\ \A r : Claimed(h2, p, us, r) <=> Claimed(h, p, us, r)
      /\ \A X : Due(h, p, us, X) => Due(h2, p, us, X)
  BY <1>1, NewWorld
<1> HIDE DEF h2
<1>3. Len(h2) = Len(h) + 1 /\ h2[Len(h) + 1].kind = q /\ Fresh(h2, Len(h) + 1)
  BY <1>1, <1>2
<1> QED
  BY <1>2, <1>3 DEF h2, kinds

\* A clean-up for things that nobody claims.
LEMMA AddedCleanUp ==
  ASSUME NEW h, NEW p, NEW us, World(h, p, us), NEW w \in ActNames \ {"OutParam"},
         NEW R \in SUBSET Nat, R \subseteq Things(h), \A r \in R : ~Claimed(h, p, us, r)
  PROVE  LET p2 == <<Act(w, R, 0, 0)>> \o p IN
         /\ World(h, p2, us) /\ OutActs(p2) = OutActs(p)
         /\ \A r : Claimed(h, p2, us, r) <=> (r \in R \/ Claimed(h, p, us, r))
         /\ \A X : Due(h, p, us, X) /\ (\A r \in R : Fresh(h, r)) => Due(h, p2, us, X)
<1> DEFINE a == Act(w, R, 0, 0)
<1>1. a \in PostAct /\ a.what = w /\ a.res = R
  BY DEF Act, PostAct
<1>2. ~IsOut(a) /\ Claim(h, us, a) = R
  BY <1>1 DEF IsOut, Claim
<1> HIDE DEF a
<1>3. \A i \in 1..Len(p) : Claim(h, us, a) \cap Claim(h, us, p[i]) = {}
  BY <1>2, WorldFacts DEF Claimed
<1>4. p \in Seq(PostAct)
  BY DEF World
<1>5. OutActs(<<a>> \o p) = OutActs(p)
  BY <1>1, <1>2, <1>4, AddedOutActs
<1>6. /\ World(h, <<a>> \o p, us)
      /\ \A r : Claimed(h, <<a>> \o p, us, r) <=> (r \in Claim(h, us, a) \/ Claimed(h, p, us, r))
      /\ \A X : Due(h, p, us, X) /\ (\A r \in Claim(h, us, a) : Fresh(h, r)) => Due(h, <<a>> \o p, us, X)
  BY <1>1, <1>2, <1>3, AddedAct
<1> QED
  BY <1>2, <1>5, <1>6 DEF a

(* A value in a new unmarshaller, with the act that will write it back.    *)
(* What it holds, x, is a wrapper's, or nobody's but a clean-up's.         *)
MayHold(h, p, us, kind, x, val) ==
  /\ x \in 0..Len(h)
  /\ x # 0 => /\ Fits(Unm(kind, Len(h) + 1, x, val), h[x].kind)
              /\ h[x].kind # "wrapped" => /\ Fresh(h, x)
                                          /\ \A k \in 1..Len(us) : x \notin Owned(h, us[k])
                                          /\ Claimed(h, p, us, x) => h[x].kind = "heldBstr"

LEMMA AddedOut ==
  ASSUME NEW h, NEW p, NEW us, NEW x, NEW kind, NEW val, NEW param \in Nat
  PROVE  LET h2  == New(h, <<"unm">>)
             us2 == Append(us, Unm(kind, Len(h) + 1, x, val))
             a   == Act("OutParam", {}, Len(us) + 1, param)
             p2  == <<a>> \o p
         IN  World(h, p, us) /\ MayHold(h, p, us, kind, x, val) =>
             /\ World(h2, p2, us2) /\ OutActs(p2) = OutActs(p) \cup {a}
             /\ Len(us2) = Len(us) + 1 /\ us2[Len(us) + 1].kind = kind
             /\ \A k \in 1..Len(us) : us2[k] = us[k]
             /\ \A r : Claimed(h2, p2, us2, r) <=>
                  \/ Claimed(h, p, us, r) \/ r = Len(h) + 1 \/ (r = x /\ x # 0 /\ h[x].kind # "wrapped")
             /\ \A X : Due(h, p, us, X) => Due(h2, p2, us2, X)
<1> DEFINE L == Len(h)
           s == L + 1
           m == Len(us) + 1
           h2 == New(h, <<"unm">>)
           u == Unm(kind, s, x, val)
           us2 == Append(us, u)
           a == Act("OutParam", {}, m, param)
           p2 == <<a>> \o p
           Goal == /\ World(h2, p2, us2) /\ OutActs(p2) = OutActs(p) \cup {a}
                   /\ Len(us2) = m /\ us2[m].kind = kind
                   /\ \A k \in 1..Len(us) : us2[k] = us[k]
                   /\ \A r : Claimed(h2, p2, us2, r) <=>
                        \/ Claimed(h, p, us, r) \/ r = s \/ (r = x /\ x # 0 /\ h[x].kind # "wrapped")
                   /\ \A X : Due(h, p, us, X) => Due(h2, p2, us2, X)
<1>0. SUFFICES ASSUME World(h, p, us), MayHold(h, p, us, kind, x, val)
               PROVE  Goal
  OBVIOUS
<1>1. L \in Nat /\ DOMAIN us = 1..Len(us) /\ Len(us) \in Nat /\ DOMAIN p = 1..Len(p)
      /\ (\A k \in 1..Len(us) : Owned(h, us[k]) \subseteq 1..L)
      /\ \A i \in 1..Len(p) : Claim(h, us, p[i]) \subseteq 1..L
  BY <1>0, WorldFacts
<1>2. "unm" \in HeapKinds
  BY DEF HeapKinds
<1>3. /\ World(h2, p, us) /\ Len(h2) = s
      /\ \A r \in 1..L : h2[r] = h[r]
      /\ h2[s].kind = "unm" /\ Fresh(h2, s)
      /\ \A k \in 1..Len(us) : Owned(h2, us[k]) = Owned(h, us[k])
      /\ \A i \in 1..Len(p) : Claim(h2, us, p[i]) = Claim(h, us, p[i])
      /\ \A r : Claimed(h2, p, us, r) <=> Claimed(h, p, us, r)
      /\ \A X : Due(h, p, us, X) => Due(h2, p, us, X)
  BY <1>0, <1>2, NewOneWorld
<1>4. u.kind = kind /\ u.self = s /\ u.holds = x
  BY DEF Unm
<1> HIDE DEF h2, Goal
<1>5. /\ s \in 1..Len(h2) /\ x \in 0..Len(h2) /\ h2[s].kind \in {"unm", "retUnm"}
      /\ \A k \in 1..Len(us) : s \notin Owned(h2, us[k])
      /\ x # 0 => x \in 1..L /\ h2[x] = h[x]
  BY <1>0, <1>1, <1>3 DEF MayHold
<1>6. x # 0 => /\ Fits(u, h2[x].kind)
               /\ h2[x].kind # "wrapped" => \A k \in 1..Len(us) : x \notin Owned(h2, us[k])
  BY <1>0, <1>1, <1>3, <1>5 DEF MayHold
<1> HIDE DEF s, L, u
<1>7. /\ World(h2, p, us2)
      /\ \A i \in 1..Len(p) : Claim(h2, us2, p[i]) = Claim(h2, us, p[i])
      /\ \A r : Claimed(h2, p, us2, r) <=> Claimed(h2, p, us, r)
  <2>1. World(h2, p, us)
    BY <1>3
  <2>2. u = Unm(kind, s, x, val) /\ us2 = With(us, u)
    BY DEF u, us2, With
  <2> QED
    BY <2>1, <2>2, <1>5, <1>6, AddedUnm
<1>8. Len(us2) = m /\ us2[m] = u /\ \A k \in 1..Len(us) : us2[k] = us[k]
  BY <1>0, MoreUnms DEF World, us2, m, u
<1>9. DOMAIN us2 = 1..m /\ m \in Nat /\ m \in 1..m
  BY <1>1, <1>7, <1>8, WorldFacts DEF m
<1>10. a \in PostAct /\ IsOut(a) /\ a.unm = m
  BY <1>9 DEF Act, PostAct, ActNames, IsOut
<1>11. Claim(h2, us2, a) = {s} \cup {r \in {x} \ {0} : h2[r].kind # "wrapped"}
  BY <1>4, <1>8, <1>10 DEF Claim, Owned
<1> HIDE DEF us2, a, m, u
<1>12. ASSUME NEW i \in 1..Len(p), NEW r \in Claim(h2, us2, a) \cap Claim(h2, us2, p[i])
       PROVE  h2[r].kind = "heldBstr" /\ IsOut(a) /\ ~IsOut(p[i])
  <2>1. r \in Claim(h, us, p[i]) /\ r \in 1..L
    BY <1>1, <1>3, <1>7, <1>12
  <2>2. r = x /\ x # 0 /\ h2[x].kind # "wrapped" /\ h2[x] = h[x]
    <3>1. r # s
      BY <1>1, <2>1 DEF s, L
    <3> QED
      BY <1>5, <1>11, <1>12, <3>1
  <2>3. Claimed(h, p, us, x)
    BY <1>1, <2>1, <2>2 DEF Claimed
  <2>4. h[x].kind = "heldBstr" /\ \A k \in 1..Len(us) : x \notin Owned(h, us[k])
    BY <1>0, <2>2, <2>3 DEF MayHold
  <2>5. IsOut(p[i]) => p[i].unm \in 1..Len(us) /\ Claim(h, us, p[i]) = Owned(h, us[p[i].unm])
    BY <1>0, <1>1 DEF World, Stacked, Claim
  <2> QED
    BY <1>10, <2>1, <2>2, <2>4, <2>5
<1>13. \A r \in Claim(h2, us2, a) : Fresh(h2, r)
  <2>1. ASSUME x # 0, h2[x].kind # "wrapped"
        PROVE  Fresh(h2, x)
    <3>1. h2[x] = h[x]
      BY <1>5, <2>1
    <3>2. Fresh(h, x)
      BY <1>0, <2>1, <3>1 DEF MayHold
    <3> QED
      BY <3>1, <3>2 DEF Fresh
  <2> QED
    BY <1>3, <1>11, <2>1
<1>14. /\ World(h2, p2, us2)
       /\ \A r : Claimed(h2, p2, us2, r) <=> (r \in Claim(h2, us2, a) \/ Claimed(h2, p, us2, r))
       /\ \A X : Due(h2, p, us2, X) => Due(h2, p2, us2, X)
  <2>1. IF IsOut(a) THEN a.unm \in DOMAIN us2 ELSE a.res \subseteq Things(h2)
    BY <1>9, <1>10
  <2>2. World(h2, p, us2)
    BY <1>7
  <2>3. a \in PostAct
    BY <1>10
  <2> QED
    BY <1>12, <1>13, <2>1, <2>2, <2>3, AddedAct
<1>15. \A X : Due(h2, p, us, X) => Due(h2, p, us2, X)
  BY <1>1, <1>7 DEF Due
<1>16. OutActs(p2) = OutActs(p) \cup {a}
  <2>1. p \in Seq(PostAct)
    BY <1>0 DEF World
  <2> QED
    BY <1>10, <2>1, AddedOutActs
<1>17. \A r : Claimed(h2, p2, us2, r) <=>
          \/ Claimed(h, p, us, r) \/ r = s \/ (r = x /\ x # 0 /\ h[x].kind # "wrapped")
  <2>1. x # 0 => h2[x] = h[x]
    BY <1>5
  <2>2. \A r : Claimed(h2, p2, us2, r) <=> (r \in Claim(h2, us2, a) \/ Claimed(h, p, us, r))
    BY <1>3, <1>7, <1>14
  <2> QED
    BY <1>11, <2>1, <2>2
<1>18. \A X : Due(h, p, us, X) => Due(h2, p2, us2, X)
  BY <1>3, <1>14, <1>15
<1>19. us2[m].kind = kind
  BY <1>4, <1>8
<1> HIDE DEF p2
<1> QED
  BY <1>8, <1>14, <1>16, <1>17, <1>18, <1>19 DEF Goal

\* What the conversions allocate.
CallKinds == {"chars", "bstr", "heldBstr", "buffer", "longs", "variant", "content", "sarray", "unm"}

(* A conversion leaves alone what was there, and who claims it; what is    *)
(* new is claimed, but for x.                                              *)
Grows(h, p, us, h2, p2, us2, x) ==
  /\ World(h2, p2, us2) /\ (Due(h, p, us, {}) => Due(h2, p2, us2, {}))
  /\ Len(h) <= Len(h2)
  /\ \A r \in 1..Len(h) : h2[r] = h[r] /\ (Claimed(h2, p2, us2, r) <=> Claimed(h, p, us, r))
  /\ \A r \in (Len(h) + 1)..Len(h2) :
       Fresh(h2, r) /\ h2[r].kind \in CallKinds /\ (r # x => Claimed(h2, p2, us2, r))

\* One more unmarshaller, and the act for it.
OneMoreOut(p, us, p2, us2, kind, param) ==
  /\ OutActs(p2) = OutActs(p) \cup {Act("OutParam", {}, Len(us) + 1, param)}
  /\ Len(us2) = Len(us) + 1 /\ us2[Len(us) + 1].kind = kind
  /\ \A k \in 1..Len(us) : us2[k] = us[k]

LEMMA GrowsBack ==
  ASSUME NEW h, NEW p, NEW us, World(h, p, us), NEW x
  PROVE  Grows(h, p, us, h, p, us, x)
<1>1. Len(h) \in Nat
  BY WorldFacts
<1> QED
  BY <1>1 DEF Grows

\* One entry, for an unmarshaller to hold.
LEMMA GrowsOne ==
  ASSUME NEW h, NEW p, NEW us, NEW q \in CallKinds
  PROVE  LET h1 == New(h, <<q>>)
             x  == Len(h) + 1
         IN  World(h, p, us) =>
             /\ Grows(h, p, us, h1, p, us, x)
             /\ Len(h1) = x /\ h1[x].kind = q /\ Fresh(h1, x) /\ ~Claimed(h1, p, us, x)
             /\ \A k \in 1..Len(us) : x \notin Owned(h1, us[k])
<1> DEFINE h1 == New(h, <<q>>)
           x  == Len(h) + 1
           Goal == /\ Grows(h, p, us, h1, p, us, x)
                   /\ Len(h1) = x /\ h1[x].kind = q /\ Fresh(h1, x) /\ ~Claimed(h1, p, us, x)
                   /\ \A k \in 1..Len(us) : x \notin Owned(h1, us[k])
<1>0. SUFFICES ASSUME World(h, p, us)
               PROVE  Goal
  OBVIOUS
<1>1. q \in HeapKinds
  BY DEF CallKinds, HeapKinds
<1>2. /\ World(h1, p, us) /\ Extends(h, h1) /\ Len(h1) = Len(h) + 1
      /\ \A r \in 1..Len(h) : h1[r] = h[r]
      /\ h1[Len(h) + 1].kind = q /\ Fresh(h1, Len(h) + 1)
      /\ \A k \in 1..Len(us) : Owned(h1, us[k]) = Owned(h, us[k])
      /\ \A i \in 1..Len(p) : Claim(h1, us, p[i]) = Claim(h, us, p[i])
      /\ \A r : Claimed(h1, p, us, r) <=> Claimed(h, p, us, r)
      /\ \A X : Due(h, p, us, X) => Due(h1, p, us, X)
  <2> HIDE DEF Goal, x
  <2> QED
    BY <1>0, <1>1, NewOneWorld
<1>3. /\ Len(h) \in Nat /\ \A k \in 1..Len(us) : Owned(h, us[k]) \subseteq 1..Len(h)
      /\ \A r : Claimed(h, p, us, r) => r \in 1..Len(h)
  BY <1>0, WorldFacts
<1> HIDE DEF h1, Goal
<1>4. x \notin 1..Len(h) /\ Len(h) <= Len(h1) /\ \A r \in (Len(h) + 1)..Len(h1) : r = x
  BY <1>2, <1>3
<1> HIDE DEF x
<1>5. ~Claimed(h1, p, us, x) /\ \A k \in 1..Len(us) : x \notin Owned(h1, us[k])
  BY <1>2, <1>3, <1>4
<1>6. Grows(h, p, us, h1, p, us, x)
  BY <1>2, <1>4 DEF Grows
<1> QED
  BY <1>2, <1>5, <1>6 DEF Goal, x

\* One clean-up for all that is new.
LEMMA GrowsCleanUp ==
  ASSUME NEW h, NEW p, NEW us, NEW kinds \in Seq(CallKinds), NEW w \in ActNames \ {"OutParam"},
         NEW R, R = (Len(h) + 1)..(Len(h) + Len(kinds))
  PROVE  LET p2 == <<Act(w, R, 0, 0)>> \o p IN
         World(h, p, us) =>
           Grows(h, p, us, New(h, kinds), p2, us, 0) /\ OutActs(p2) = OutActs(p)
<1> DEFINE h2 == New(h, kinds)
           p2 == <<Act(w, R, 0, 0)>> \o p
<1>0. SUFFICES ASSUME World(h, p, us)
               PROVE  Grows(h, p, us, h2, p2, us, 0) /\ OutActs(p2) = OutActs(p)
  OBVIOUS
<1>1. kinds \in Seq(HeapKinds) /\ Len(kinds) \in Nat /\ \A i \in 1..Len(kinds) : kinds[i] \in CallKinds
  <2>1. CallKinds \subseteq HeapKinds
    BY DEF CallKinds, HeapKinds
  <2> HIDE DEF CallKinds, HeapKinds
  <2>2. \A i \in 1..Len(kinds) : kinds[i] \in CallKinds /\ kinds[i] \in HeapKinds
    BY <2>1
  <2> QED
    BY <2>2
<1>2. /\ World(h2, p, us) /\ Len(h2) = Len(h) + Len(kinds)
      /\ \A r \in 1..Len(h) : h2[r] = h[r]
      /\ \A i \in 1..Len(kinds) : h2[Len(h) + i].kind = kinds[i] /\ Fresh(h2, Len(h) + i)
      /\ \A r : Claimed(h2, p, us, r) <=> Claimed(h, p, us, r)
      /\ \A X : Due(h, p, us, X) => Due(h2, p, us, X)
  BY <1>0, <1>1, NewWorld
<1>3. Len(h) \in Nat /\ \A r : Claimed(h, p, us, r) => r \in 1..Len(h)
  BY <1>0, WorldFacts
<1> HIDE DEF h2
<1>4. \A r \in R : r \in 1..Len(h2) /\ Fresh(h2, r) /\ h2[r].kind \in CallKinds
  <2> SUFFICES ASSUME NEW r \in R
               PROVE  r \in 1..Len(h2) /\ Fresh(h2, r) /\ h2[r].kind \in CallKinds
    OBVIOUS
  <2>1. r - Len(h) \in 1..Len(kinds) /\ r = Len(h) + (r - Len(h)) /\ r \in 1..Len(h2)
    BY <1>1, <1>2, <1>3
  <2> QED
    BY <1>1, <1>2, <2>1
<1>5. R \in SUBSET Nat /\ R \subseteq Things(h2) /\ \A r \in R : ~Claimed(h2, p, us, r)
  <2>1. DOMAIN h2 = 1..Len(h2)
    BY <1>2, WorldFacts
  <2>2. R \in SUBSET Nat /\ \A r \in R : r \notin 1..Len(h)
    BY <1>1, <1>3
  <2> QED
    BY <1>2, <1>3, <1>4, <2>1, <2>2 DEF Things, CallKinds
<1>6. /\ World(h2, p2, us) /\ OutActs(p2) = OutActs(p)
      /\ \A r : Claimed(h2, p2, us, r) <=> (r \in R \/ Claimed(h2, p, us, r))
      /\ Due(h2, p, us, {}) => Due(h2, p2, us, {})
  <2>1. World(h2, p, us)
    BY <1>2
  <2>2. \A r \in R : Fresh(h2, r)
    BY <1>4
  <2> QED
    BY <1>5, <2>1, <2>2, AddedCleanUp
<1> HIDE DEF p2
<1>7. Grows(h, p, us, h2, p2, us, 0)
  <2>1. \A r \in 1..Len(h) : r \notin R
    BY <1>1, <1>3
  <2>2. (Len(h) + 1)..Len(h2) = R /\ Len(h) <= Len(h2)
    BY <1>1, <1>2, <1>3
  <2> QED
    BY <1>2, <1>4, <1>6, <2>1, <2>2 DEF Grows
<1> QED
  BY <1>6, <1>7

\* A clean-up each for two.
LEMMA GrowsTwoCleanUps ==
  ASSUME NEW h, NEW p, NEW us, NEW k1 \in CallKinds, NEW k2 \in CallKinds,
         NEW w1 \in ActNames \ {"OutParam"}, NEW w2 \in ActNames \ {"OutParam"}
  PROVE  LET h2 == New(h, <<k1, k2>>)
             p2 == <<Act(w2, {Len(h) + 2}, 0, 0)>> \o (<<Act(w1, {Len(h) + 1}, 0, 0)>> \o p)
         IN  World(h, p, us) =>
             /\ Grows(h, p, us, h2, p2, us, 0) /\ OutActs(p2) = OutActs(p)
             /\ Len(h2) = Len(h) + 2 /\ h2[Len(h) + 2].kind = k2
<1> DEFINE kinds == <<k1, k2>>
           L == Len(h)
           h2 == New(h, kinds)
           p1 == <<Act(w1, {L + 1}, 0, 0)>> \o p
           p2 == <<Act(w2, {L + 2}, 0, 0)>> \o p1
           Goal == /\ Grows(h, p, us, h2, p2, us, 0) /\ OutActs(p2) = OutActs(p)
                   /\ Len(h2) = L + 2 /\ h2[L + 2].kind = k2
<1>0. SUFFICES ASSUME World(h, p, us)
               PROVE  Goal
  OBVIOUS
<1>1. /\ kinds \in Seq(HeapKinds) /\ Len(kinds) = 2 /\ kinds[1] = k1 /\ kinds[2] = k2
      /\ 1 \in 1..Len(kinds) /\ 2 \in 1..Len(kinds)
  <2>1. CallKinds \subseteq HeapKinds
    BY DEF CallKinds, HeapKinds
  <2> HIDE DEF CallKinds, HeapKinds
  <2> QED
    BY <2>1
<1> HIDE DEF kinds
<1>2. /\ World(h2, p, us) /\ Len(h2) = L + Len(kinds)
      /\ \A r \in 1..L : h2[r] = h[r]
      /\ \A i \in 1..Len(kinds) : h2[L + i].kind = kinds[i] /\ Fresh(h2, L + i)
      /\ \A r : Claimed(h2, p, us, r) <=> Claimed(h, p, us, r)
      /\ \A X : Due(h, p, us, X) => Due(h2, p, us, X)
  BY <1>0, <1>1, NewWorld
<1>3. L \in Nat /\ \A r : Claimed(h, p, us, r) => r \in 1..L
  BY <1>0, WorldFacts
<1> HIDE DEF h2, L, Goal
<1>4. /\ Len(h2) = L + 2 /\ h2[L + 1].kind = k1 /\ h2[L + 2].kind = k2
      /\ Fresh(h2, L + 1) /\ Fresh(h2, L + 2)
  BY <1>1, <1>2
<1>5. DOMAIN h2 = 1..Len(h2)
  BY <1>2, WorldFacts
<1>6. {L + 1} \in SUBSET Nat /\ {L + 2} \in SUBSET Nat /\ {L + 1} \subseteq Things(h2) /\ {L + 2} \subseteq Things(h2)
  BY <1>3, <1>4, <1>5 DEF Things, CallKinds
<1>7. /\ World(h2, p1, us) /\ OutActs(p1) = OutActs(p)
      /\ \A r : Claimed(h2, p1, us, r) <=> (r \in {L + 1} \/ Claimed(h2, p, us, r))
      /\ Due(h2, p, us, {}) => Due(h2, p1, us, {})
  <2>1. World(h2, p, us)
    BY <1>2
  <2>2. \A r \in {L + 1} : Fresh(h2, r) /\ ~Claimed(h2, p, us, r)
    BY <1>2, <1>3, <1>4
  <2> QED
    BY <1>6, <2>1, <2>2, AddedCleanUp
<1> HIDE DEF p1
<1>8. /\ World(h2, p2, us) /\ OutActs(p2) = OutActs(p1)
      /\ \A r : Claimed(h2, p2, us, r) <=> (r \in {L + 2} \/ Claimed(h2, p1, us, r))
      /\ Due(h2, p1, us, {}) => Due(h2, p2, us, {})
  <2>1. World(h2, p1, us)
    BY <1>7
  <2>2. \A r \in {L + 2} : Fresh(h2, r) /\ ~Claimed(h2, p1, us, r)
    BY <1>2, <1>3, <1>4, <1>7
  <2> QED
    BY <1>6, <2>1, <2>2, AddedCleanUp
<1> HIDE DEF p2
<1>9. Grows(h, p, us, h2, p2, us, 0)
  <2>1. \A r : Claimed(h2, p2, us, r) <=> (r = L + 2 \/ r = L + 1 \/ Claimed(h, p, us, r))
    BY <1>2, <1>7, <1>8
  <2>2. \A r \in 1..L : r # L + 1 /\ r # L + 2
    BY <1>3
  <2>3. L <= Len(h2) /\ \A r \in (L + 1)..Len(h2) : r = L + 1 \/ r = L + 2
    BY <1>3, <1>4
  <2>4. \A r \in (L + 1)..Len(h2) : Fresh(h2, r) /\ h2[r].kind \in CallKinds /\ Claimed(h2, p2, us, r)
    BY <1>4, <2>1, <2>3
  <2>5. \A r \in 1..L : h2[r] = h[r] /\ (Claimed(h2, p2, us, r) <=> Claimed(h, p, us, r))
    BY <1>2, <2>1, <2>2
  <2>6. World(h2, p2, us) /\ (Due(h, p, us, {}) => Due(h2, p2, us, {}))
    BY <1>2, <1>7, <1>8
  <2> QED
    BY <2>3, <2>4, <2>5, <2>6 DEF Grows, L
<1> QED
  BY <1>4, <1>7, <1>8, <1>9 DEF Goal, p1, p2

\* An unmarshaller, and an act, for what has grown.
LEMMA GrowsOut ==
  ASSUME NEW h, NEW p, NEW us, NEW h1, NEW p1, NEW x, NEW kind, NEW val, NEW param \in Nat
  PROVE  LET h2  == New(h1, <<"unm">>)
             us2 == Append(us, Unm(kind, Len(h1) + 1, x, val))
             p2  == <<Act("OutParam", {}, Len(us) + 1, param)>> \o p1
         IN  /\ World(h, p, us) /\ Grows(h, p, us, h1, p1, us, x) /\ OutActs(p1) = OutActs(p)
             /\ MayHold(h1, p1, us, kind, x, val) /\ x \in 0..Len(h1)
             /\ (x \in 1..Len(h) => h1[x].kind = "wrapped")
             => Grows(h, p, us, h2, p2, us2, 0) /\ OneMoreOut(p, us, p2, us2, kind, param)
<1> DEFINE h2  == New(h1, <<"unm">>)
           us2 == Append(us, Unm(kind, Len(h1) + 1, x, val))
           p2  == <<Act("OutParam", {}, Len(us) + 1, param)>> \o p1
           Goal == Grows(h, p, us, h2, p2, us2, 0) /\ OneMoreOut(p, us, p2, us2, kind, param)
<1>0. SUFFICES ASSUME World(h, p, us), Grows(h, p, us, h1, p1, us, x), OutActs(p1) = OutActs(p),
                      MayHold(h1, p1, us, kind, x, val), x \in 0..Len(h1),
                      x \in 1..Len(h) => h1[x].kind = "wrapped"
               PROVE  Goal
  OBVIOUS
<1>1. Len(h) \in Nat
  BY <1>0, WorldFacts
<1>2. /\ World(h1, p1, us) /\ (Due(h, p, us, {}) => Due(h1, p1, us, {})) /\ Len(h) <= Len(h1)
      /\ \A r \in 1..Len(h) : h1[r] = h[r] /\ (Claimed(h1, p1, us, r) <=> Claimed(h, p, us, r))
      /\ \A r \in (Len(h) + 1)..Len(h1) :
           Fresh(h1, r) /\ h1[r].kind \in CallKinds /\ (r # x => Claimed(h1, p1, us, r))
  BY <1>0 DEF Grows
<1>3. Len(h1) \in Nat
  BY <1>2, WorldFacts
<1>4. /\ Len(h2) = Len(h1) + 1
      /\ \A r \in 1..Len(h1) : h2[r] = h1[r]
      /\ h2[Len(h1) + 1].kind = "unm" /\ Fresh(h2, Len(h1) + 1)
  <2>1. World(h1, p1, us) /\ "unm" \in HeapKinds
    BY <1>2 DEF HeapKinds
  <2> QED
    BY <2>1, NewOneWorld
<1>5. /\ World(h2, p2, us2) /\ OutActs(p2) = OutActs(p1) \cup {Act("OutParam", {}, Len(us) + 1, param)}
      /\ Len(us2) = Len(us) + 1 /\ us2[Len(us) + 1].kind = kind
      /\ \A k \in 1..Len(us) : us2[k] = us[k]
      /\ \A r : Claimed(h2, p2, us2, r) <=>
           \/ Claimed(h1, p1, us, r) \/ r = Len(h1) + 1 \/ (r = x /\ x # 0 /\ h1[x].kind # "wrapped")
      /\ \A X : Due(h1, p1, us, X) => Due(h2, p2, us2, X)
  <2>1. World(h1, p1, us) /\ MayHold(h1, p1, us, kind, x, val)
    BY <1>0, <1>2
  <2> QED
    BY <2>1, AddedOut
<1> HIDE DEF h2, p2, us2
<1>6. OneMoreOut(p, us, p2, us2, kind, param)
  BY <1>0, <1>5 DEF OneMoreOut
<1>7. \A r \in 1..Len(h) : h2[r] = h[r] /\ (Claimed(h2, p2, us2, r) <=> Claimed(h, p, us, r))
  <2> SUFFICES ASSUME NEW r \in 1..Len(h)
               PROVE  h2[r] = h[r] /\ (Claimed(h2, p2, us2, r) <=> Claimed(h, p, us, r))
    OBVIOUS
  <2>1. r \in 1..Len(h1) /\ r # Len(h1) + 1
    BY <1>1, <1>2, <1>3
  <2>2. ~(r = x /\ x # 0 /\ h1[x].kind # "wrapped")
    BY <1>0
  <2> QED
    BY <1>2, <1>4, <1>5, <2>1, <2>2
<1>8. \A r \in (Len(h) + 1)..Len(h2) :
        Fresh(h2, r) /\ h2[r].kind \in CallKinds /\ Claimed(h2, p2, us2, r)
  <2> SUFFICES ASSUME NEW r \in (Len(h) + 1)..Len(h2)
               PROVE  Fresh(h2, r) /\ h2[r].kind \in CallKinds /\ Claimed(h2, p2, us2, r)
    OBVIOUS
  <2>1. CASE r = Len(h1) + 1
    BY <1>4, <1>5, <2>1 DEF CallKinds
  <2>2. CASE r # Len(h1) + 1
    <3>1. r \in (Len(h) + 1)..Len(h1) /\ r \in 1..Len(h1) /\ r # 0
      BY <1>1, <1>3, <1>4, <2>2
    <3>2. h2[r] = h1[r] /\ Fresh(h1, r) /\ h1[r].kind \in CallKinds /\ (r # x => Claimed(h1, p1, us, r))
      BY <1>2, <1>4, <3>1
    <3>3. h1[r].kind # "wrapped"
      BY <3>2 DEF CallKinds
    <3>4. Fresh(h2, r)
      BY <3>2 DEF Fresh
    <3> QED
      BY <1>5, <3>1, <3>2, <3>3, <3>4
  <2> QED
    BY <2>1, <2>2
<1>9. Len(h) <= Len(h2) /\ World(h2, p2, us2) /\ (Due(h, p, us, {}) => Due(h2, p2, us2, {}))
  BY <1>1, <1>2, <1>3, <1>4, <1>5
<1>10. Grows(h, p, us, h2, p2, us2, 0)
  BY <1>7, <1>8, <1>9 DEF Grows
<1> QED
  BY <1>6, <1>10

-----------------------------------------------------------------------------
(* The claims of a call, and its inductive invariant.                      *)

Before == {"idle", "message", "convert", "native", "returned"}
Conv(i) == call.params[i].conv

\* The unmarshaller of a return value has no post action, unless the value is in/out.
Ret == ~call.inout /\ retUnm # 0
RetJava == Ret /\ pc \in {"post", "java"} /\ call.retConv \in {"ComObject", "DISPATCH"} /\ RetRef # 0
OfRet ==
  IF Ret /\ pc \in Before THEN Owned(heap, unms[retUnm]) ELSE IF RetJava THEN {RetRef} ELSE {}

\* What the finally block will take for a parameter, or release.
Acquired(i) ==
  /\ refs[i] # 0 /\ Conv(i) \in {"DISPATCH", "ComObject_byRef"} /\ heap[refs[i]].kind # "wrapped"
  /\ pc # "done" /\ (pc = "cleanup" => i >= step)
OfParam(i) == IF Acquired(i) THEN {refs[i]} ELSE {}

ShapeInv ==
  /\ pc \in {"idle", "message", "convert", "native", "returned", "post", "java", "cleanup", "dispatch", "done"}
  /\ n \in Nat /\ call.retIndex \in -1..n /\ call.via \in {"vtable", "dispatch", "none"} /\ call.inout \in BOOLEAN
  /\ hr \in {"S_OK", "E_FAIL"}
  /\ outcome \in {"none", "crash", "ComException", "NullPointerException", "IllegalArgumentException"}
  /\ args = [ i \in 1..n |-> args[i] ] /\ refs = [ i \in 1..n |-> refs[i] ]
  /\ \A i \in 1..n : refs[i] \in 0..Len(heap)
  /\ step \in 0..(n + 1)
  /\ comParamIndex \in 0..(n + 1) /\ javaParamIndex \in 0..n /\ retIndex \in -1..n
  /\ retUnm \in 0..Len(unms) /\ replaced \subseteq 1..Len(unms)

FlowInv ==
  /\ pc = "idle" => call = NoCall /\ heap = <<>> /\ replaced = {} /\ refs = <<>>
  /\ pc \in {"idle", "message"} => comParamIndex = 0 /\ javaParamIndex = 0
  /\ pc \in {"idle", "message", "dispatch"} => unms = <<>> /\ retUnm = 0
  /\ pc \in {"idle", "message", "java", "cleanup", "dispatch"} \/ (pc = "done" /\ outcome # "crash") => post = <<>>
  /\ pc \in {"message", "cleanup"} => step \in 1..n
  /\ pc = "java" => step = 1
  /\ pc = "convert" /\ Ret => retIndex < comParamIndex
  /\ pc \in Before \cup {"dispatch"} => outcome = "none" /\ ~stale
  /\ pc \in (Before \ {"returned"}) \cup {"dispatch"} => hr = "S_OK"
  /\ pc = "java" => outcome = "none"
  /\ outcome = "crash" => pc = "done"
  /\ pc = "dispatch" \/ (pc = "done" /\ outcome = "none") => step > n
  /\ pc = "dispatch" => call.via = "dispatch"
  /\ call.via = "dispatch" => retUnm = 0 /\ pc \in {"message", "dispatch", "done"} /\ post = <<>>

\* Nothing that is claimed was freed before its turn.
TurnInv ==
  /\ World(heap, post, unms)
  /\ Due(heap, post, unms, IF call.inout /\ pc = "post" THEN {retUnm} ELSE {})
  /\ call.inout /\ pc = "post" /\ hr = "S_OK" =>
       \A a \in OutActs(post) : \A r \in Claim(heap, unms, a) : heap[r].frees = 0

\* Until the callee has returned, each unmarshaller of a parameter has its post action.
OutInv ==
  /\ pc \in Before => \A k \in 1..Len(unms) : (k = retUnm /\ ~call.inout) \/ Answers(post, k)
  /\ Outs(call.params, post, unms, IF pc = "convert" THEN javaParamIndex ELSE n)
  /\ \A a \in OutActs(post) :
       (pc = "post" => ~Acquired(a.param)) /\ (~call.inout => a.unm # retUnm)

RetInv ==
  /\ Ret =>
       /\ unms[retUnm].kind = call.retConv /\ call.retConv \in RetConvs
       /\ pc \in {"convert", "native"} => unms[retUnm].holds = 0
       /\ pc \in {"returned", "post"} /\ (hr # "S_OK" \/ outcome # "none") => unms[retUnm].holds = 0
       /\ pc \in {"convert", "native"} => heap[unms[retUnm].self].kind = "retUnm"
  /\ RetJava =>
       /\ result = unms[retUnm].val /\ result # Null /\ heap[RetRef].kind = "given"

\* What a parameter has acquired, and that no two of them have the same thing.
RefsInv ==
  /\ \A i \in 1..n : Acquired(i) =>
       \/ Conv(i) = "DISPATCH" /\ heap[refs[i]].kind = "dispatch"
       \/ /\ Conv(i) = "ComObject_byRef" /\ heap[refs[i]].kind = "given"
          /\ IsHolder(args[i]) /\ Held(args[i]) # Null /\ pc \in {"post", "java", "cleanup"}
  /\ pc \in Before => \A i \in 1..n : refs[i] # 0 =>
       Conv(i) = "DISPATCH" \/ (Conv(i) = "ComObject_byRef" /\ heap[refs[i]].kind = "wrapped")
  /\ pc = "message" => \A i \in step..n : refs[i] = 0

ApartInv ==
  ~call.inout =>
    /\ \A r \in OfRet : Loose(heap, post, unms, r)
    /\ \A i \in 1..n : \A r \in OfParam(i) :
         /\ Loose(heap, post, unms, r) /\ r \notin OfRet
         /\ \A j \in 1..n : i # j => r \notin OfParam(j)

KindsInv ==
  \A r \in 1..Len(heap) :
    /\ heap[r].kind = "dispatched" => call.via = "dispatch"
    /\ heap[r].kind = "wrapped" => heap[r].owners >= 1

\* An exception of com4j's own: what was acquired is lost.
Lossy ==
  \/ outcome \in {"NullPointerException", "IllegalArgumentException"}
  \/ outcome = "ComException" /\ hr = "S_OK"
  \/ pc = "done" /\ step <= n
Lost(r) ==
  \/ heap[r].kind = "dispatched"
  \/ call.via = "dispatch" /\ heap[r].kind = "dispatch"
  \/ Lossy /\ heap[r].kind \in {"retUnm", "dispatch", "given"}
CoverInv ==
  outcome # "crash" =>
    \A r \in 1..Len(heap) : Fresh(heap, r) =>
      Claimed(heap, post, unms, r) \/ r \in OfRet \/ (\E i \in 1..n : r \in OfParam(i)) \/ Lost(r)

-----------------------------------------------------------------------------
(* What the conversions do.                                                *)

\* A conversion goes on to the next parameter, fails, or ends the process.
Ends ==
  \/ /\ pc' = pc /\ outcome' = outcome
     /\ comParamIndex' = comParamIndex + 1 /\ javaParamIndex' = javaParamIndex + 1
     /\ retUnm' = retUnm \/ (call.inout /\ retUnm' \in 1..Len(unms'))
  \/ pc' = "post" /\ outcome' = "ComException" /\ UNCHANGED <<comParamIndex, javaParamIndex, retUnm>>
  \/ /\ pc' = "done" /\ outcome' = "crash" /\ UNCHANGED <<comParamIndex, javaParamIndex, retUnm>>
     /\ UNCHANGED <<heap, post, unms>>

Made(c) ==
  /\ Ends /\ Grows(heap, post, unms, heap', post', unms', 0)
  /\ \/ unms' = unms /\ OutActs(post') = OutActs(post)
     \/ \E kind : ForOut(c, kind) /\ OneMoreOut(post, unms, post', unms', kind, javaParamIndex + 1)

LEMMA PassEnds ==
  ASSUME NEW k, NEW u, Pass(k, u), u = 0 \/ u \in 1..Len(unms')
  PROVE  Ends
BY DEF Pass, Ends, Fail

LEMMA StayedMade ==
  ASSUME World(heap, post, unms), NEW c, UNCHANGED <<heap, post, unms>>, Ends
  PROVE  Made(c)
<1>1. Grows(heap, post, unms, heap, post, unms, 0)
  BY GrowsBack
<1>2. Grows(heap, post, unms, heap', post', unms', 0) /\ OutActs(post') = OutActs(post)
  BY <1>1
<1> QED
  BY <1>2 DEF Made

LEMMA PlainMade ==
  ASSUME World(heap, post, unms), NEW c, NEW k, PassPlain(k)
  PROVE  Made(c)
BY StayedMade, PassEnds DEF PassPlain

LEMMA FailMade ==
  ASSUME World(heap, post, unms), NEW c, Fault \/ (Fail /\ UNCHANGED <<heap, post, unms>>)
  PROVE  Made(c)
BY StayedMade DEF Fail, Fault, Ends

\* The clean-ups of one and of two.
LEMMA CleanUpsOne ==
  ASSUME NEW w, NEW R
  PROVE  CleanUps(<< <<w, R>> >>) = <<Act(w, {Len(heap) + k : k \in R}, 0, 0)>>
<1> DEFINE a == Act(w, {Len(heap) + k : k \in R}, 0, 0)
           acts == << <<w, R>> >>
<1>1. DOMAIN acts = {1} /\ acts[1][1] = w /\ acts[1][2] = R
  OBVIOUS
<1>2. CleanUps(acts) = [ i \in {1} |-> a ]
  <2> HIDE DEF acts
  <2> QED
    BY <1>1 DEF CleanUps
<1> HIDE DEF a
<1>3. [ i \in {1} |-> a ] = <<a>>
  OBVIOUS
<1> QED
  BY <1>2, <1>3 DEF a

LEMMA CleanUpsTwo ==
  ASSUME NEW w1, NEW w2
  PROVE  CleanUps(<< <<w1, {1}>>, <<w2, {2}>> >>) =
           <<Act(w1, {Len(heap) + 1}, 0, 0), Act(w2, {Len(heap) + 2}, 0, 0)>>
<1> DEFINE a == Act(w1, {Len(heap) + 1}, 0, 0)
           b == Act(w2, {Len(heap) + 2}, 0, 0)
           acts == << <<w1, {1}>>, <<w2, {2}>> >>
<1>1. /\ DOMAIN acts = {1, 2} /\ acts[1][1] = w1 /\ acts[1][2] = {1} /\ acts[2][1] = w2 /\ acts[2][2] = {2}
  OBVIOUS
<1>2. {Len(heap) + k : k \in {1}} = {Len(heap) + 1} /\ {Len(heap) + k : k \in {2}} = {Len(heap) + 2}
  OBVIOUS
<1>3. CleanUps(acts) = [ i \in {1, 2} |-> IF i = 1 THEN a ELSE b ]
  <2> HIDE DEF acts
  <2>1. CleanUps(acts) = [ i \in {1, 2} |-> Act(acts[i][1], {Len(heap) + k : k \in acts[i][2]}, 0, 0) ]
    BY <1>1 DEF CleanUps
  <2>2. /\ Act(acts[1][1], {Len(heap) + k : k \in acts[1][2]}, 0, 0) = a
        /\ Act(acts[2][1], {Len(heap) + k : k \in acts[2][2]}, 0, 0) = b
    BY <1>1, <1>2
  <2> HIDE DEF a, b
  <2> QED
    BY <2>1, <2>2
<1> HIDE DEF a, b
<1>4. [ i \in {1, 2} |-> IF i = 1 THEN a ELSE b ] = <<a, b>>
  OBVIOUS
<1> QED
  BY <1>3, <1>4 DEF a, b

LEMMA CleanUpsWriteNothing ==
  ASSUME NEW p \in Seq(PostAct), NEW a \in PostAct, a.what # "OutParam"
  PROVE  OutActs(<<a>> \o p) = OutActs(p) /\ <<a>> \o p \in Seq(PostAct)
<1>1. OutActs(<<a>> \o p) = OutActs(p)
  BY AddedOutActs DEF IsOut
<1>2. <<a>> \o p \in Seq(PostAct)
  BY Fronted
<1> QED
  BY <1>1, <1>2

LEMMA CleanUpMade ==
  ASSUME World(heap, post, unms), NEW c, NEW k, NEW kinds \in Seq(CallKinds),
         NEW w \in ActNames \ {"OutParam"}, NEW R,
         {Len(heap) + r : r \in R} = (Len(heap) + 1)..(Len(heap) + Len(kinds)),
         PassWith(k, kinds, << <<w, R>> >>)
  PROVE  Made(c)
<1> DEFINE S == {Len(heap) + r : r \in R}
           a == Act(w, S, 0, 0)
<1>1. heap' = New(heap, kinds) /\ unms' = unms /\ post' = Added(<<a>>, post) /\ Ends
  BY CleanUpsOne, PassEnds DEF PassWith
<1>2. post \in Seq(PostAct) /\ a \in PostAct
  <2>1. Len(heap) \in Nat /\ Len(kinds) \in Nat
    BY WorldFacts
  <2>2. S \subseteq Nat
    BY <2>1
  <2> HIDE DEF S
  <2> QED
    BY <2>2 DEF World, PostAct, Act
<1>3. post' = <<a>> \o post
  <2> HIDE DEF a
  <2> QED
    BY <1>1, <1>2, AddedOne
<1>4. Grows(heap, post, unms, New(heap, kinds), <<a>> \o post, unms, 0)
  <2>1. S = (Len(heap) + 1)..(Len(heap) + Len(kinds))
    OBVIOUS
  <2> HIDE DEF S
  <2> QED
    BY <2>1, GrowsCleanUp
<1>5. OutActs(<<a>> \o post) = OutActs(post)
  <2>1. a.what # "OutParam"
    BY DEF Act
  <2> HIDE DEF a
  <2> QED
    BY <1>2, <2>1, CleanUpsWriteNothing
<1> HIDE DEF a
<1> QED
  BY <1>1, <1>3, <1>4, <1>5 DEF Made

LEMMA TwoCleanUpsMade ==
  ASSUME World(heap, post, unms), NEW c, NEW k, NEW k1 \in CallKinds, NEW k2 \in CallKinds,
         NEW w1 \in ActNames \ {"OutParam"}, NEW w2 \in ActNames \ {"OutParam"},
         PassWith(k, <<k1, k2>>, << <<w1, {1}>>, <<w2, {2}>> >>)
  PROVE  Made(c)
<1> DEFINE a == Act(w1, {Len(heap) + 1}, 0, 0)
           b == Act(w2, {Len(heap) + 2}, 0, 0)
<1>1. heap' = New(heap, <<k1, k2>>) /\ unms' = unms /\ post' = Added(<<a, b>>, post) /\ Ends
  BY CleanUpsTwo, PassEnds DEF PassWith
<1>2. post \in Seq(PostAct) /\ a \in PostAct /\ b \in PostAct
  <2>1. Len(heap) \in Nat
    BY WorldFacts
  <2> QED
    BY <2>1 DEF World, PostAct, Act
<1>3. post' = <<b>> \o (<<a>> \o post)
  <2> HIDE DEF a, b
  <2> QED
    BY <1>1, <1>2, AddedTwo
<1>4. Grows(heap, post, unms, New(heap, <<k1, k2>>), <<b>> \o (<<a>> \o post), unms, 0)
  BY GrowsTwoCleanUps
<1>5. OutActs(<<b>> \o (<<a>> \o post)) = OutActs(post)
  <2>1. a.what # "OutParam" /\ b.what # "OutParam"
    BY DEF Act
  <2> HIDE DEF a, b
  <2>2. OutActs(<<a>> \o post) = OutActs(post) /\ <<a>> \o post \in Seq(PostAct)
    BY <1>2, <2>1, CleanUpsWriteNothing
  <2> QED
    BY <1>2, <2>1, <2>2, CleanUpsWriteNothing
<1> HIDE DEF a, b
<1> QED
  BY <1>1, <1>3, <1>4, <1>5 DEF Made

LEMMA NewNone ==
  ASSUME NEW h \in Seq(HeapEntry)
  PROVE  New(h, <<>>) = h
<1>1. [ i \in DOMAIN <<>> |-> [kind |-> <<>>[i], frees |-> 0, owners |-> 0] ] = <<>>
  OBVIOUS
<1>2. h \o <<>> = h
  <2> HIDE DEF HeapEntry
  <2> QED
    OBVIOUS
<1> QED
  BY <1>1, <1>2 DEF New

\* A by-reference argument, when what it holds is in place.
LEMMA OutMade ==
  ASSUME World(heap, post, unms), javaParamIndex \in Nat, NEW c, NEW h1, NEW p1, NEW x, NEW kind, NEW val,
         Grows(heap, post, unms, h1, p1, unms, x), OutActs(p1) = OutActs(post),
         MayHold(h1, p1, unms, kind, x, val), x \in 1..Len(heap) => h1[x].kind = "wrapped", ForOut(c, kind),
         heap' = New(h1, <<"unm">>), unms' = Append(unms, Unm(kind, Len(h1) + 1, x, val)),
         post' = <<Act("OutParam", {}, Len(unms) + 1, javaParamIndex + 1)>> \o p1,
         Pass("pointer", Len(unms) + 1)
  PROVE  Made(c)
<1>1. /\ Grows(heap, post, unms, heap', post', unms', 0)
      /\ OneMoreOut(post, unms, post', unms', kind, javaParamIndex + 1)
  <2>1. x \in 0..Len(h1)
    BY DEF MayHold
  <2>2. javaParamIndex + 1 \in Nat
    OBVIOUS
  <2> QED
    BY <2>1, <2>2, GrowsOut
<1>2. Ends
  <2>1. Len(unms) \in Nat /\ Len(unms') = Len(unms) + 1
    BY <1>1, WorldFacts DEF OneMoreOut
  <2>2. Len(unms) + 1 \in 1..Len(unms')
    BY <2>1
  <2> QED
    BY <2>2, PassEnds
<1> QED
  BY <1>1, <1>2 DEF Made

\* The references behind the arguments, while they are converted.
RefsKept ==
  \A i \in 1..n : /\ refs[i] \in 0..Len(heap)
                  /\ refs[i] # 0 => \/ Conv(i) = "DISPATCH"
                                    \/ Conv(i) = "ComObject_byRef" /\ heap[refs[i]].kind = "wrapped"

LEMMA ByRefPlainMade ==
  ASSUME World(heap, post, unms), RefsKept, javaParamIndex \in 0..(n - 1), n \in Nat, NEW c, Converting(c),
         NEW kind, NEW val, ForOut(c, kind)
  PROVE  PassByRef(kind, val, <<>>, <<>>) => Made(c)
<1>0. SUFFICES ASSUME PassByRef(kind, val, <<>>, <<>>)
               PROVE  Made(c)
  OBVIOUS
<1> DEFINE x == refs[javaParamIndex + 1]
           a == Act("OutParam", {}, Len(unms) + 1, javaParamIndex + 1)
<1>1. New(heap, <<>>) = heap
  BY NewNone DEF World
<1>2. CleanUps(<<>>) = <<>>
  BY DEF CleanUps
<1>3. /\ heap' = New(heap, <<"unm">>) /\ unms' = Append(unms, Unm(kind, Len(heap) + 1, x, val))
      /\ post' = Added(Append(CleanUps(<<>>), a), post) /\ Pass("pointer", Len(unms) + 1)
  BY <1>0, <1>1 DEF PassByRef
<1>4. post \in Seq(PostAct) /\ a \in PostAct /\ javaParamIndex + 1 \in 1..n /\ javaParamIndex \in Nat
  <2>1. Len(unms) \in Nat
    BY WorldFacts
  <2> QED
    BY <2>1 DEF World, PostAct, Act, ActNames
<1>5. post' = <<a>> \o post
  <2> HIDE DEF a
  <2>1. Append(<<>>, a) = <<a>>
    OBVIOUS
  <2> QED
    BY <1>2, <1>3, <1>4, <2>1, AddedOne
<1>6. x \in 0..Len(heap) /\ (x # 0 => c = "ComObject_byRef" /\ heap[x].kind = "wrapped")
  BY <1>4 DEF RefsKept, Converting, Conv, ForOut
<1>7. x # 0 => Fits(Unm(kind, Len(heap) + 1, x, val), "wrapped")
  BY <1>6 DEF ForOut, Fits, Unm
<1> HIDE DEF x
<1>8. MayHold(heap, post, unms, kind, x, val)
  BY <1>6, <1>7 DEF MayHold
<1>9. Grows(heap, post, unms, heap, post, unms, x)
  BY GrowsBack
<1>10. x \in 1..Len(heap) => heap[x].kind = "wrapped"
  BY <1>6
<1> QED
  BY <1>3, <1>4, <1>5, <1>8, <1>9, <1>10, OutMade DEF x

\* What a holder's value takes: one entry that the unmarshaller will free.
LEMMA ByRefOneMade ==
  ASSUME World(heap, post, unms), javaParamIndex \in 0..(n - 1), n \in Nat, NEW c,
         NEW kind \in {"VARIANT", "SAFEARRAY"}, NEW val, NEW q \in {"content", "sarray"}, ForOut(c, kind)
  PROVE  PassByRef(kind, val, <<q>>, <<>>) => Made(c)
<1>0. SUFFICES ASSUME PassByRef(kind, val, <<q>>, <<>>)
               PROVE  Made(c)
  OBVIOUS
<1> DEFINE h1 == New(heap, <<q>>)
           x == Len(h1)
           a == Act("OutParam", {}, Len(unms) + 1, javaParamIndex + 1)
<1>1. <<q>> # <<>> /\ q \in HeapKinds
  BY DEF HeapKinds
<1>2. CleanUps(<<>>) = <<>>
  BY DEF CleanUps
<1>3. /\ heap' = New(h1, <<"unm">>) /\ unms' = Append(unms, Unm(kind, Len(h1) + 1, x, val))
      /\ post' = Added(Append(CleanUps(<<>>), a), post) /\ Pass("pointer", Len(unms) + 1)
  BY <1>0, <1>1 DEF PassByRef
<1>4. post \in Seq(PostAct) /\ a \in PostAct /\ Len(heap) \in Nat /\ javaParamIndex \in Nat
  <2>1. Len(unms) \in Nat /\ Len(heap) \in Nat
    BY WorldFacts
  <2> QED
    BY <2>1 DEF World, PostAct, Act, ActNames
<1>5. post' = <<a>> \o post
  <2> HIDE DEF a
  <2>1. Append(<<>>, a) = <<a>>
    OBVIOUS
  <2> QED
    BY <1>2, <1>3, <1>4, <2>1, AddedOne
<1>6. /\ Grows(heap, post, unms, h1, post, unms, x)
      /\ x = Len(heap) + 1 /\ h1[x].kind = q /\ Fresh(h1, x) /\ ~Claimed(h1, post, unms, x)
      /\ \A k \in 1..Len(unms) : x \notin Owned(h1, unms[k])
  <2>1. q \in CallKinds
    BY DEF CallKinds
  <2>2. /\ Grows(heap, post, unms, h1, post, unms, Len(heap) + 1)
        /\ Len(h1) = Len(heap) + 1 /\ h1[Len(heap) + 1].kind = q /\ Fresh(h1, Len(heap) + 1)
        /\ ~Claimed(h1, post, unms, Len(heap) + 1)
        /\ \A k \in 1..Len(unms) : Len(heap) + 1 \notin Owned(h1, unms[k])
    BY <2>1, GrowsOne
  <2> QED
    BY <2>2
<1> HIDE DEF h1
<1>7. x \in 0..Len(h1) /\ x # 0 /\ x \notin 1..Len(heap)
  BY <1>4, <1>6
<1>8. Fits(Unm(kind, Len(h1) + 1, x, val), q)
  BY DEF Fits, Unm, Clearing
<1> HIDE DEF x
<1>9. MayHold(h1, post, unms, kind, x, val)
  BY <1>6, <1>7, <1>8 DEF MayHold
<1> QED
  BY <1>3, <1>4, <1>5, <1>6, <1>7, <1>9, OutMade DEF h1, x

\* A string: its characters, and a BSTR with a clean-up of its own.
LEMMA ByRefStringMade ==
  ASSUME World(heap, post, unms), javaParamIndex \in 0..(n - 1), n \in Nat, NEW c, NEW val, ForOut(c, "BSTR")
  PROVE  PassByRef("BSTR", val, <<"chars", "heldBstr">>, FreeString) => Made(c)
<1>0. SUFFICES ASSUME PassByRef("BSTR", val, <<"chars", "heldBstr">>, FreeString)
               PROVE  Made(c)
  OBVIOUS
<1> DEFINE h1 == New(heap, <<"chars", "heldBstr">>)
           x == Len(h1)
           a == Act("ReleaseStringChars", {Len(heap) + 1}, 0, 0)
           b == Act("BSTRCleanUp", {Len(heap) + 2}, 0, 0)
           d == Act("OutParam", {}, Len(unms) + 1, javaParamIndex + 1)
           p1 == <<b>> \o (<<a>> \o post)
<1>1. <<"chars", "heldBstr">> # <<>>
  OBVIOUS
<1>2. CleanUps(FreeString) = <<a, b>>
  BY CleanUpsTwo DEF FreeString
<1>3. /\ heap' = New(h1, <<"unm">>) /\ unms' = Append(unms, Unm("BSTR", Len(h1) + 1, x, val))
      /\ post' = Added(Append(CleanUps(FreeString), d), post) /\ Pass("pointer", Len(unms) + 1)
  BY <1>0, <1>1 DEF PassByRef
<1>4. /\ post \in Seq(PostAct) /\ a \in PostAct /\ b \in PostAct /\ d \in PostAct
      /\ Len(heap) \in Nat /\ javaParamIndex \in Nat
  <2>1. Len(unms) \in Nat /\ Len(heap) \in Nat
    BY WorldFacts
  <2> QED
    BY <2>1 DEF World, PostAct, Act, ActNames
<1>5. post' = <<d>> \o p1
  <2> HIDE DEF a, b, d
  <2>1. Append(<<a, b>>, d) = <<a, b, d>>
    BY <1>4, AppendedThird
  <2>2. post' = Added(<<a, b, d>>, post)
    BY <1>2, <1>3, <2>1
  <2>3. Added(<<a, b, d>>, post) = <<d>> \o (<<b>> \o (<<a>> \o post))
    BY <1>4, AddedThree
  <2> QED
    BY <2>2, <2>3
<1>6. /\ Grows(heap, post, unms, h1, p1, unms, 0) /\ OutActs(p1) = OutActs(post)
      /\ Len(h1) = Len(heap) + 2 /\ h1[Len(heap) + 2].kind = "heldBstr"
  <2>1. "chars" \in CallKinds /\ "heldBstr" \in CallKinds
        /\ "ReleaseStringChars" \in ActNames \ {"OutParam"} /\ "BSTRCleanUp" \in ActNames \ {"OutParam"}
    BY DEF CallKinds, ActNames
  <2>2. Grows(heap, post, unms, h1, p1, unms, 0)
    BY <2>1, GrowsTwoCleanUps
  <2>3. Len(h1) = Len(heap) + 2 /\ h1[Len(heap) + 2].kind = "heldBstr"
    <3> DEFINE kinds == <<"chars", "heldBstr">>
    <3>1. /\ kinds \in Seq(HeapKinds) /\ Len(kinds) = 2 /\ kinds[2] = "heldBstr" /\ 2 \in 1..Len(kinds)
          /\ heap \in Seq(HeapEntry)
      BY DEF HeapKinds, World
    <3> HIDE DEF kinds
    <3>2. /\ Len(New(heap, kinds)) = Len(heap) + Len(kinds)
          /\ \A i \in 1..Len(kinds) : New(heap, kinds)[Len(heap) + i].kind = kinds[i]
      BY <3>1, NewHeap
    <3> QED
      BY <3>1, <3>2 DEF kinds
  <2>4. OutActs(p1) = OutActs(post)
    <3>1. a.what # "OutParam" /\ b.what # "OutParam"
      BY DEF Act
    <3> HIDE DEF a, b
    <3>2. OutActs(<<a>> \o post) = OutActs(post) /\ <<a>> \o post \in Seq(PostAct)
      BY <1>4, <3>1, CleanUpsWriteNothing
    <3> QED
      BY <1>4, <3>1, <3>2, CleanUpsWriteNothing
  <2> QED
    BY <2>2, <2>3, <2>4
<1> HIDE DEF h1, p1, a, b
<1>7. x = Len(heap) + 2 /\ x \in (Len(heap) + 1)..Len(h1) /\ x \in 0..Len(h1) /\ x # 0 /\ x \notin 1..Len(heap)
  BY <1>4, <1>6
<1> HIDE DEF x
<1>8. MayHold(h1, p1, unms, "BSTR", x, val)
  <2>1. Fits(Unm("BSTR", Len(h1) + 1, x, val), "heldBstr")
    BY DEF Fits, Unm, Clearing
  <2>2. Fresh(h1, x) /\ h1[x].kind = "heldBstr"
    BY <1>6, <1>7 DEF Grows
  <2>3. \A k \in 1..Len(unms) : x \notin Owned(h1, unms[k])
    <3>1. \A k \in 1..Len(unms) : Owned(heap, unms[k]) \subseteq 1..Len(heap)
      BY WorldFacts
    <3>2. Extends(heap, h1)
      BY <1>6 DEF Grows, Extends, World
    <3>3. \A k \in 1..Len(unms) : Owned(h1, unms[k]) = Owned(heap, unms[k])
      BY <3>2, Extended
    <3> QED
      BY <1>7, <3>1, <3>3
  <2> QED
    BY <1>7, <2>1, <2>2, <2>3 DEF MayHold
<1>9. Grows(heap, post, unms, h1, p1, unms, x)
  BY <1>6 DEF Grows
<1> QED
  BY <1>3, <1>4, <1>5, <1>6, <1>7, <1>8, <1>9, OutMade DEF x

\* One clean-up for one thing.
LEMMA OneCleanUpMade ==
  ASSUME World(heap, post, unms), NEW c, NEW k, NEW q \in CallKinds, NEW w \in ActNames \ {"OutParam"},
         PassWith(k, <<q>>, << <<w, {1}>> >>)
  PROVE  Made(c)
<1>1. <<q>> \in Seq(CallKinds) /\ Len(<<q>>) = 1
  <2> HIDE DEF CallKinds
  <2> QED
    OBVIOUS
<1>2. {Len(heap) + r : r \in {1}} = (Len(heap) + 1)..(Len(heap) + Len(<<q>>))
  <2>1. Len(heap) \in Nat
    BY WorldFacts
  <2> QED
    BY <1>1, <2>1
<1> QED
  BY <1>1, <1>2, CleanUpMade

LEMMA VariantMade ==
  ASSUME World(heap, post, unms), NEW c, NEW k, NEW v, PassWith(k, VariantParts(v), ClearVariant(v))
  PROVE  Made(c)
<1>1. Len(heap) \in Nat /\ "VARIANTCleanUp" \in ActNames \ {"OutParam"}
  BY WorldFacts DEF ActNames
<1>2. CASE HasContent(v)
  <2> DEFINE kinds == <<"variant", "content">>
  <2>1. VariantParts(v) = kinds /\ ClearVariant(v) = << <<"VARIANTCleanUp", {1, 2}>> >>
    BY <1>2 DEF VariantParts, ClearVariant
  <2>2. kinds \in Seq(CallKinds) /\ Len(kinds) = 2
    BY DEF CallKinds
  <2>3. {Len(heap) + r : r \in {1, 2}} = (Len(heap) + 1)..(Len(heap) + Len(kinds))
    BY <1>1, <2>2
  <2>4. PassWith(k, kinds, << <<"VARIANTCleanUp", {1, 2}>> >>)
    BY <2>1
  <2> HIDE DEF kinds
  <2> QED
    BY <1>1, <2>2, <2>3, <2>4, CleanUpMade
<1>3. CASE ~HasContent(v)
  <2>1. PassWith(k, <<"variant">>, << <<"VARIANTCleanUp", {1}>> >>)
    BY <1>3 DEF VariantParts, ClearVariant
  <2>2. "variant" \in CallKinds
    BY DEF CallKinds
  <2> QED
    BY <1>1, <2>1, <2>2, OneCleanUpMade
<1> QED
  BY <1>2, <1>3

LEMMA NullVariantMade ==
  ASSUME World(heap, post, unms), NEW c, NEW k, PassWith(k, <<"variant">>, ClearVariant(NoVal))
  PROVE  Made(c)
<1>1. ~HasContent(NoVal)
  BY DEF HasContent, NoVal, Scalar
<1>2. VariantParts(NoVal) = <<"variant">>
  BY <1>1 DEF VariantParts
<1> QED
  BY <1>2, VariantMade

\* What a conversion step is: the slot of the return value, the end of the parameters, or a parameter.
LEMMA ConvertMade ==
  ASSUME World(heap, post, unms), RefsKept, javaParamIndex \in 0..n, n \in Nat, Convert
  PROVE  ReturnBuffer \/ NoMoreParameters \/ \E c : Converting(c) /\ Made(c)
<1> DEFINE Goal == \E c : Converting(c) /\ Made(c)
<1>0. \A c : Converting(c) => javaParamIndex \in 0..(n - 1)
  BY DEF Converting
<1>1. ASSUME ConvertBSTR PROVE Goal
  <2>1. CASE PassPlain("pointer")
    BY <1>1, <2>1, PlainMade DEF ConvertBSTR
  <2>2. CASE PassWith("pointer", <<"chars", "bstr">>, FreeString)
    <3>1. PassWith("pointer", <<"chars", "bstr">>, << <<"ReleaseStringChars", {1}>>, <<"BSTRCleanUp", {2}>> >>)
      BY <2>2 DEF FreeString
    <3>2. "chars" \in CallKinds /\ "bstr" \in CallKinds
          /\ "ReleaseStringChars" \in ActNames \ {"OutParam"} /\ "BSTRCleanUp" \in ActNames \ {"OutParam"}
      BY DEF CallKinds, ActNames
    <3>3. Made("BSTR")
      BY <3>1, <3>2, TwoCleanUpsMade
    <3> QED
      BY <1>1, <3>3 DEF ConvertBSTR
  <2> QED
    BY <1>1, <2>1, <2>2 DEF ConvertBSTR
<1>2. ASSUME ConvertBSTR_byRef PROVE Goal
  <2>1. Converting("BSTR_byRef") /\ ForOut("BSTR_byRef", "BSTR") /\ javaParamIndex \in 0..(n - 1)
    BY <1>0, <1>2 DEF ConvertBSTR_byRef, ForOut
  <2>2. \/ PassPlain("pointer") \/ PassByRef("BSTR", Null, <<>>, <<>>)
        \/ PassByRef("BSTR", Held(Arg), <<"chars", "heldBstr">>, FreeString)
    BY <1>2 DEF ConvertBSTR_byRef
  <2>3. Made("BSTR_byRef")
    BY <2>1, <2>2, PlainMade, ByRefPlainMade, ByRefStringMade
  <2> QED
    BY <2>1, <2>3
<1>3. ASSUME ConvertString PROVE Goal
  <2>1. PassPlain("pointer") \/ PassWith("pointer", <<"chars", "buffer">>,
                                         << <<"ReleaseStringChars", {1}>>, <<"DeleteCleanUp", {2}>> >>)
    BY <1>3 DEF ConvertString
  <2>2. "chars" \in CallKinds /\ "buffer" \in CallKinds
        /\ "ReleaseStringChars" \in ActNames \ {"OutParam"} /\ "DeleteCleanUp" \in ActNames \ {"OutParam"}
    BY DEF CallKinds, ActNames
  <2>3. \A c : Made(c)
    BY <2>1, <2>2, PlainMade, TwoCleanUpsMade
  <2> QED
    BY <1>3, <2>3 DEF ConvertString
<1>4. ASSUME ConvertNumber PROVE Goal
  BY <1>4, PlainMade DEF ConvertNumber
<1>5. ASSUME ConvertNumber_byRef PROVE Goal
  <2>1. PICK c \in NumbersByRef :
          Converting(c) /\ (PassPlain("pointer") \/ \E val : PassByRef(c, val, <<>>, <<>>))
    BY <1>5 DEF ConvertNumber_byRef
  <2>2. ForOut(c, c) /\ javaParamIndex \in 0..(n - 1)
    BY <1>0, <2>1 DEF ForOut, NumbersByRef
  <2>3. Made(c)
    BY <2>1, <2>2, PlainMade, ByRefPlainMade
  <2> QED
    BY <2>1, <2>3
<1>6. ASSUME ConvertPVOID PROVE Goal
  BY <1>6, PlainMade, FailMade DEF ConvertPVOID
<1>7. ASSUME ConvertGUID PROVE Goal
  <2>1. "longs" \in CallKinds /\ "LongArrayCleanUp" \in ActNames \ {"OutParam"}
    BY DEF CallKinds, ActNames
  <2> QED
    BY <1>7, <2>1, OneCleanUpMade DEF ConvertGUID
<1>8. ASSUME ConvertCURRENCY PROVE Goal
  BY <1>8, PlainMade DEF ConvertCURRENCY
<1>9. ASSUME ConvertCURRENCY_byRef PROVE Goal
  <2>1. Converting("CURRENCY_byRef") /\ ForOut("CURRENCY_byRef", "CURRENCY") /\ javaParamIndex \in 0..(n - 1)
    BY <1>0, <1>9 DEF ConvertCURRENCY_byRef, ForOut
  <2>2. PassPlain("pointer") \/ Fault \/ PassByRef("CURRENCY", Held(Arg), <<>>, <<>>)
    BY <1>9 DEF ConvertCURRENCY_byRef
  <2>3. Made("CURRENCY_byRef")
    BY <2>1, <2>2, PlainMade, FailMade, ByRefPlainMade
  <2> QED
    BY <2>1, <2>3
<1>10. ASSUME ConvertVARIANT PROVE Goal
  <2>1. Converting("VARIANT") /\
        ( \/ PassPlain("variant") \/ Fault \/ (Fail /\ UNCHANGED <<heap, post, unms>>)
          \/ \E v : PassWith("variant", VariantParts(v), ClearVariant(v)) )
    BY <1>10 DEF ConvertVARIANT
  <2>2. Made("VARIANT")
    BY <2>1, PlainMade, FailMade, VariantMade
  <2> QED
    BY <2>1, <2>2
<1>11. ASSUME ConvertVARIANT_byRef PROVE Goal
  <2>1. Converting("VARIANT_byRef") /\ ForOut("VARIANT_byRef", "VARIANT") /\ javaParamIndex \in 0..(n - 1)
    BY <1>0, <1>11 DEF ConvertVARIANT_byRef, ForOut
  <2>2. \/ PassWith("pointer", <<"variant">>, ClearVariant(NoVal)) \/ PassPlain("pointer") \/ Fault
        \/ \E v : \/ PassByRef("VARIANT", v, <<"content">>, <<>>)
                  \/ PassByRef("VARIANT", v, <<>>, <<>>)
                  \/ PassWith("pointer", VariantParts(v), ClearVariant(v))
    BY <1>11 DEF ConvertVARIANT_byRef
  <2>3. Made("VARIANT_byRef")
    BY <2>1, <2>2, PlainMade, FailMade, VariantMade, NullVariantMade, ByRefPlainMade, ByRefOneMade
  <2> QED
    BY <2>1, <2>3
<1>12. ASSUME ConvertSAFEARRAY PROVE Goal
  <2>1. "sarray" \in CallKinds /\ "SAFEARRAYCleanUp" \in ActNames \ {"OutParam"}
    BY DEF CallKinds, ActNames
  <2>2. Converting("SAFEARRAY") /\
        ( \/ Fault \/ (Fail /\ UNCHANGED <<heap, post, unms>>)
          \/ PassWith("pointer", <<"sarray">>, << <<"SAFEARRAYCleanUp", {1}>> >>) )
    BY <1>12 DEF ConvertSAFEARRAY
  <2>3. Made("SAFEARRAY")
    BY <2>1, <2>2, FailMade, OneCleanUpMade
  <2> QED
    BY <2>2, <2>3
<1>13. ASSUME ConvertSAFEARRAY_byRef PROVE Goal
  <2>1. Converting("SAFEARRAY_byRef") /\ ForOut("SAFEARRAY_byRef", "SAFEARRAY") /\ javaParamIndex \in 0..(n - 1)
    BY <1>0, <1>13 DEF ConvertSAFEARRAY_byRef, ForOut
  <2>2. \/ PassPlain("pointer") \/ Fault \/ (Fail /\ UNCHANGED <<heap, post, unms>>)
        \/ PassByRef("SAFEARRAY", NoVal, <<>>, <<>>)
        \/ \E v : PassByRef("SAFEARRAY", v, <<"sarray">>, <<>>)
    BY <1>13 DEF ConvertSAFEARRAY_byRef
  <2>3. Made("SAFEARRAY_byRef")
    BY <2>1, <2>2, PlainMade, FailMade, ByRefPlainMade, ByRefOneMade
  <2> QED
    BY <2>1, <2>3
<1>14. ASSUME UnexpectedConversion PROVE Goal
  BY <1>14, FailMade DEF UnexpectedConversion
<1> QED
  BY <1>1, <1>2, <1>3, <1>4, <1>5, <1>6, <1>7, <1>8, <1>9, <1>10, <1>11, <1>12, <1>13, <1>14 DEF Convert

-----------------------------------------------------------------------------
(* Giving back: a heap where each of T was freed once more, or has one     *)
(* more owner.                                                             *)

Spent(h, h2, T) ==
  /\ h2 \in Seq(HeapEntry) /\ Len(h2) = Len(h)
  /\ \A r \in 1..Len(h) :
       /\ h2[r].kind = h[r].kind /\ h2[r].frees >= h[r].frees /\ h2[r].owners >= h[r].owners
       /\ h2[r].frees + h2[r].owners = h[r].frees + h[r].owners + IF r \in T THEN 1 ELSE 0

LEMMA Counts ==
  ASSUME NEW h \in Seq(HeapEntry), NEW r \in 1..Len(h)
  PROVE  h[r].frees \in Nat /\ h[r].owners \in Nat /\ h[r].kind \in HeapKinds /\ Len(h) \in Nat
<1>1. h[r] \in HeapEntry
  OBVIOUS
<1> QED
  BY <1>1 DEF HeapEntry

LEMMA SpentNothing ==
  ASSUME NEW h \in Seq(HeapEntry)
  PROVE  Spent(h, h, {})
<1> SUFFICES ASSUME NEW r \in 1..Len(h)
             PROVE  /\ h[r].frees >= h[r].frees /\ h[r].owners >= h[r].owners
                    /\ h[r].frees + h[r].owners = h[r].frees + h[r].owners + 0
  BY DEF Spent
<1> QED
  BY Counts

LEMMA SpentFree ==
  ASSUME NEW h \in Seq(HeapEntry), NEW R
  PROVE  Spent(h, FreeAll(h, R), R)
<1> DEFINE h2 == FreeAll(h, R)
<1>1. /\ h2 \in Seq(HeapEntry) /\ Len(h2) = Len(h)
      /\ \A r \in 1..Len(h) :
           /\ h2[r].kind = h[r].kind /\ h2[r].owners = h[r].owners
           /\ h2[r].frees = IF r \in R THEN h[r].frees + 1 ELSE h[r].frees
  BY FreeAllHeap
<1> HIDE DEF h2
<1>2. \A r \in 1..Len(h) : h[r].frees \in Nat /\ h[r].owners \in Nat
  BY Counts
<1>3. \A r \in 1..Len(h) :
       /\ h2[r].kind = h[r].kind /\ h2[r].frees >= h[r].frees /\ h2[r].owners >= h[r].owners
       /\ h2[r].frees + h2[r].owners = h[r].frees + h[r].owners + IF r \in R THEN 1 ELSE 0
  <2> TAKE r \in 1..Len(h)
  <2>1. h[r].frees \in Nat /\ h[r].owners \in Nat
    BY <1>2
  <2>2. CASE r \in R
    BY <1>1, <2>1, <2>2
  <2>3. CASE r \notin R
    BY <1>1, <2>1, <2>3
  <2> QED
    BY <2>2, <2>3
<1>4. Spent(h, h2, R)
  BY <1>1, <1>3 DEF Spent
<1> QED
  BY <1>4 DEF h2

LEMMA SpentOwn ==
  ASSUME NEW h \in Seq(HeapEntry), NEW x \in 0..Len(h)
  PROVE  Spent(h, Own(h, x), {x}) /\ \A r \in 1..Len(h) : Own(h, x)[r].frees = h[r].frees
<1> DEFINE h2 == Own(h, x)
<1>1. /\ h2 \in Seq(HeapEntry) /\ Len(h2) = Len(h)
      /\ \A r \in 1..Len(h) :
           /\ h2[r].kind = h[r].kind /\ h2[r].frees = h[r].frees
           /\ h2[r].owners = IF r = x THEN h[r].owners + 1 ELSE h[r].owners
  BY OwnHeap
<1> HIDE DEF h2
<1>2. \A r \in 1..Len(h) : h[r].frees \in Nat /\ h[r].owners \in Nat
  BY Counts
<1>3. \A r \in 1..Len(h) :
       /\ h2[r].kind = h[r].kind /\ h2[r].frees >= h[r].frees /\ h2[r].owners >= h[r].owners
       /\ h2[r].frees + h2[r].owners = h[r].frees + h[r].owners + IF r \in {x} THEN 1 ELSE 0
  <2> TAKE r \in 1..Len(h)
  <2>1. h[r].frees \in Nat /\ h[r].owners \in Nat
    BY <1>2
  <2>2. CASE r \in {x}
    BY <1>1, <2>1, <2>2
  <2>3. CASE r \notin {x}
    BY <1>1, <2>1, <2>3
  <2> QED
    BY <2>2, <2>3
<1>4. Spent(h, h2, {x})
  BY <1>1, <1>3 DEF Spent
<1> QED
  BY <1>1, <1>4 DEF h2

LEMMA SpentBoth ==
  ASSUME NEW h \in Seq(HeapEntry), NEW h1, NEW h2, NEW T, NEW T2, Spent(h, h1, T), Spent(h1, h2, T2),
         \A r \in 1..Len(h) : ~(r \in T /\ r \in T2)
  PROVE  Spent(h, h2, T \cup T2)
<1>1. /\ h1 \in Seq(HeapEntry) /\ Len(h1) = Len(h) /\ h2 \in Seq(HeapEntry) /\ Len(h2) = Len(h)
  BY DEF Spent
<1>2. ASSUME NEW r \in 1..Len(h)
      PROVE  /\ h2[r].kind = h[r].kind /\ h2[r].frees >= h[r].frees /\ h2[r].owners >= h[r].owners
             /\ h2[r].frees + h2[r].owners = h[r].frees + h[r].owners + IF r \in T \cup T2 THEN 1 ELSE 0
  <2>1. /\ h[r].frees \in Nat /\ h[r].owners \in Nat /\ h1[r].frees \in Nat /\ h1[r].owners \in Nat
        /\ h2[r].frees \in Nat /\ h2[r].owners \in Nat
    BY <1>1, Counts
  <2>2. /\ h1[r].kind = h[r].kind /\ h1[r].frees >= h[r].frees /\ h1[r].owners >= h[r].owners
        /\ h1[r].frees + h1[r].owners = h[r].frees + h[r].owners + IF r \in T THEN 1 ELSE 0
    BY DEF Spent
  <2>3. /\ h2[r].kind = h1[r].kind /\ h2[r].frees >= h1[r].frees /\ h2[r].owners >= h1[r].owners
        /\ h2[r].frees + h2[r].owners = h1[r].frees + h1[r].owners + IF r \in T2 THEN 1 ELSE 0
    BY <1>1 DEF Spent
  <2>4. ~(r \in T /\ r \in T2)
    OBVIOUS
  <2> DEFINE x == IF r \in T THEN 1 ELSE 0
             y == IF r \in T2 THEN 1 ELSE 0
  <2>5. x \in 0..1 /\ y \in 0..1 /\ x + y = IF r \in T \cup T2 THEN 1 ELSE 0
    BY <2>4
  <2>6. h2[r].frees + h2[r].owners = h[r].frees + h[r].owners + (x + y)
    <3> HIDE DEF x, y
    <3>1. /\ h1[r].frees + h1[r].owners = h[r].frees + h[r].owners + x
          /\ h2[r].frees + h2[r].owners = h1[r].frees + h1[r].owners + y
      BY <2>2, <2>3 DEF x, y
    <3> QED
      BY <2>1, <2>5, <3>1
  <2>7. h2[r].kind = h[r].kind /\ h2[r].frees >= h[r].frees /\ h2[r].owners >= h[r].owners
    BY <2>1, <2>2, <2>3
  <2> QED
    BY <2>5, <2>6, <2>7
<1> QED
  BY <1>1, <1>2 DEF Spent

\* What `delete' gives back, and what Java may then own.
Deleted(u) == {u.self} \cup IF u.kind \in {"BSTR", "SAFEARRAY"} THEN {u.holds} ELSE {}
Taken(u) == IF u.kind = "VARIANT" THEN {u.holds} ELSE {}

LEMMA UnmFacts ==
  ASSUME NEW h, NEW p, NEW us, World(h, p, us), NEW k \in 1..Len(us)
  PROVE  /\ h \in Seq(HeapEntry) /\ Len(h) \in Nat
         /\ us[k].self \in 1..Len(h) /\ h[us[k].self].kind \in {"unm", "retUnm"}
         /\ us[k].holds \in 0..Len(h) /\ us[k].holds # us[k].self
         /\ us[k].holds # 0 => us[k].holds \in 1..Len(h) /\ Fits(us[k], h[us[k].holds].kind)
         /\ us[k].self \in Owned(h, us[k])
         /\ us[k].kind \in Clearing /\ us[k].holds # 0 => us[k].holds \in Owned(h, us[k])
         /\ \A r : r \in Deleted(us[k]) \cup Taken(us[k]) => r = 0 \/ r \in Owned(h, us[k])
<1>1. /\ us[k].self \in 1..Len(h) /\ h[us[k].self].kind \in {"unm", "retUnm"}
      /\ us[k].holds \in 0..Len(h) /\ (us[k].holds # 0 => Fits(us[k], h[us[k].holds].kind))
      /\ Len(h) \in Nat /\ h \in Seq(HeapEntry)
  <2>1. DOMAIN us = 1..Len(us) /\ DOMAIN h = 1..Len(h) /\ Len(h) \in Nat
    BY WorldFacts
  <2> QED
    BY <2>1 DEF World, Linked
<1>2. us[k].holds # us[k].self
  BY <1>1 DEF Fits
<1>3. us[k].kind \in Clearing /\ us[k].holds # 0 => h[us[k].holds].kind # "wrapped"
  BY <1>1 DEF Fits, Clearing
<1>4. us[k].kind \in Clearing /\ us[k].holds # 0 => us[k].holds \in Owned(h, us[k])
  BY <1>3 DEF Owned
<1>5. us[k].self \in Owned(h, us[k])
  BY DEF Owned
<1>6. \A r : r \in Deleted(us[k]) \cup Taken(us[k]) => r = 0 \/ r \in Owned(h, us[k])
  BY <1>4, <1>5 DEF Deleted, Taken, Clearing
<1> QED
  BY <1>1, <1>2, <1>4, <1>5, <1>6

LEMMA SpentDelete ==
  ASSUME NEW h \in Seq(HeapEntry), NEW u, u.holds # u.self
  PROVE  Spent(h, Delete(h, u), Deleted(u))
<1>1. CASE u.kind \in {"BSTR", "SAFEARRAY"}
  <2> DEFINE h1 == FreeAll(h, {u.holds})
             h2 == FreeAll(h1, {u.self})
  <2>1. Spent(h, h1, {u.holds})
    BY SpentFree
  <2>2. h1 \in Seq(HeapEntry)
    BY <2>1 DEF Spent
  <2>3. Delete(h, u) = h2
    BY <1>1 DEF Delete, Free
  <2> HIDE DEF h1
  <2>4. Spent(h1, h2, {u.self})
    BY <2>2, SpentFree
  <2> HIDE DEF h2
  <2>5. Spent(h, h2, {u.holds} \cup {u.self})
    BY <2>1, <2>4, SpentBoth
  <2>6. {u.holds} \cup {u.self} = Deleted(u)
    BY <1>1 DEF Deleted
  <2> QED
    BY <2>3, <2>5, <2>6
<1>2. CASE u.kind \notin {"BSTR", "SAFEARRAY"}
  <2>1. Delete(h, u) = FreeAll(h, {u.self}) /\ Deleted(u) = {u.self}
    BY <1>2 DEF Delete, Free, Deleted
  <2> QED
    BY <2>1, SpentFree
<1> QED
  BY <1>1, <1>2

LEMMA SpentUnmarshal ==
  ASSUME NEW h \in Seq(HeapEntry), NEW u, u.holds \in 0..Len(h)
  PROVE  /\ Spent(h, UnmarshalHeap(h, u), Taken(u))
         /\ \A r \in 1..Len(h) : UnmarshalHeap(h, u)[r].frees = h[r].frees
<1>1. CASE u.kind = "VARIANT"
  BY <1>1, SpentOwn DEF UnmarshalHeap, Taken
<1>2. CASE u.kind # "VARIANT"
  BY <1>2, SpentNothing DEF UnmarshalHeap, Taken
<1> QED
  BY <1>1, <1>2

LEMMA SpentWriteBack ==
  ASSUME NEW h \in Seq(HeapEntry), NEW u, u.holds \in 0..Len(h), u.holds # u.self
  PROVE  Spent(h, Delete(UnmarshalHeap(h, u), u), Deleted(u) \cup Taken(u))
<1> DEFINE h1 == UnmarshalHeap(h, u)
<1>1. Spent(h, h1, Taken(u))
  BY SpentUnmarshal
<1>2. h1 \in Seq(HeapEntry)
  BY <1>1 DEF Spent
<1> HIDE DEF h1
<1>3. Spent(h1, Delete(h1, u), Deleted(u))
  BY <1>2, SpentDelete
<1>4. \A r \in 1..Len(h) : ~(r \in Taken(u) /\ r \in Deleted(u))
  BY DEF Taken, Deleted
<1>5. Spent(h, Delete(h1, u), Taken(u) \cup Deleted(u))
  BY <1>1, <1>3, <1>4, SpentBoth
<1>6. Taken(u) \cup Deleted(u) = Deleted(u) \cup Taken(u)
  OBVIOUS
<1> QED
  BY <1>5, <1>6 DEF h1

\* What was not given back stays as it was, and so do the claims.
LEMMA SpentFresh ==
  ASSUME NEW h \in Seq(HeapEntry), NEW h2, NEW T, Spent(h, h2, T), NEW r \in 1..Len(h)
  PROVE  /\ Fresh(h2, r) <=> Fresh(h, r) /\ r \notin T
         /\ r \notin T => h2[r].frees = h[r].frees /\ h2[r].owners = h[r].owners
         /\ h2[r].kind = h[r].kind
<1>1. h2 \in Seq(HeapEntry) /\ Len(h2) = Len(h)
  BY DEF Spent
<1>2. h[r].frees \in Nat /\ h[r].owners \in Nat /\ h2[r].frees \in Nat /\ h2[r].owners \in Nat
  BY <1>1, Counts
<1>3. /\ h2[r].kind = h[r].kind /\ h2[r].frees >= h[r].frees /\ h2[r].owners >= h[r].owners
      /\ h2[r].frees + h2[r].owners = h[r].frees + h[r].owners + IF r \in T THEN 1 ELSE 0
  BY DEF Spent
<1>4. CASE r \in T
  BY <1>2, <1>3, <1>4 DEF Fresh
<1>5. CASE r \notin T
  <2>1. h2[r].frees + h2[r].owners = h[r].frees + h[r].owners
    BY <1>2, <1>3, <1>5
  <2>2. h2[r].frees = h[r].frees /\ h2[r].owners = h[r].owners
    BY <1>2, <1>3, <2>1
  <2> QED
    BY <1>3, <1>5, <2>2 DEF Fresh
<1> QED
  BY <1>4, <1>5

LEMMA SpentWorld ==
  ASSUME NEW h, NEW p, NEW us, World(h, p, us), NEW h2, NEW T, Spent(h, h2, T)
  PROVE  /\ World(h2, p, us)
         /\ \A k \in 1..Len(us) : Owned(h2, us[k]) = Owned(h, us[k])
         /\ \A i \in 1..Len(p) : Claim(h2, us, p[i]) = Claim(h, us, p[i])
         /\ \A r : Claimed(h2, p, us, r) <=> Claimed(h, p, us, r)
<1>1. Len(h) \in Nat
  BY WorldFacts
<1>2. Extends(h, h2)
  BY <1>1 DEF Spent, Extends
<1> QED
  BY <1>2, Extended

LEMMA SpentDue ==
  ASSUME NEW h, NEW p, NEW us, World(h, p, us), NEW h2, NEW T, Spent(h, h2, T), NEW X, NEW Y,
         Due(h, p, us, X), X \subseteq Y,
         \A i \in 1..Len(p) : \A r \in Claim(h, us, p[i]) :
           r \in T => IF IsOut(p[i]) THEN p[i].unm \in Y ELSE h[r].kind = "heldBstr"
  PROVE  Due(h2, p, us, Y)
<1>1. /\ DOMAIN p = 1..Len(p) /\ h \in Seq(HeapEntry)
      /\ \A i \in 1..Len(p) : Claim(h, us, p[i]) \subseteq 1..Len(h) /\ Claim(h2, us, p[i]) = Claim(h, us, p[i])
  BY WorldFacts, SpentWorld DEF World
<1> SUFFICES ASSUME NEW i \in 1..Len(p), NEW r \in Claim(h, us, p[i])
             PROVE  Fresh(h2, r) \/ IF IsOut(p[i]) THEN p[i].unm \in Y ELSE h2[r].kind = "heldBstr"
  BY <1>1 DEF Due
<1>2. r \in 1..Len(h)
  BY <1>1
<1>3. (Fresh(h2, r) <=> Fresh(h, r) /\ r \notin T) /\ h2[r].kind = h[r].kind
  BY <1>1, <1>2, SpentFresh
<1>4. Fresh(h, r) \/ IF IsOut(p[i]) THEN p[i].unm \in X ELSE h[r].kind = "heldBstr"
  BY <1>1 DEF Due
<1> QED
  BY <1>3, <1>4

-----------------------------------------------------------------------------
(* The inductive invariant, step by step.                                  *)

Ownership ==
  /\ ShapeInv /\ FlowInv /\ TurnInv /\ OutInv /\ RetInv /\ RefsInv /\ ApartInv /\ KindsInv /\ CoverInv
  /\ FreedOnce /\ NoUseAfterFree

LEMMA EmptyWorld ==
  /\ World(<<>>, <<>>, <<>>) /\ \A X : Due(<<>>, <<>>, <<>>, X)
  /\ OutActs(<<>>) = {} /\ \A q, m : Outs(q, <<>>, <<>>, m)
<1>1. <<>> \in Seq(HeapEntry) /\ <<>> \in Seq(PostAct)
  OBVIOUS
<1>2. IsUnms(<<>>)
  BY DEF IsUnms
<1>3. Linked(<<>>, <<>>) /\ Stacked(<<>>, <<>>, <<>>)
  BY DEF Linked, Stacked
<1>4. OutActs(<<>>) = {}
  BY DEF OutActs
<1> QED
  BY <1>1, <1>2, <1>3, <1>4 DEF World, Due, Outs

LEMMA InitOwnership == Init => Ownership
<1> SUFFICES ASSUME Init
             PROVE  Ownership
  OBVIOUS
<1>1. /\ pc = "idle" /\ call = NoCall /\ step = 0 /\ args = <<>> /\ refs = <<>>
      /\ comParamIndex = 0 /\ javaParamIndex = 0 /\ retIndex = -1
      /\ heap = <<>> /\ post = <<>> /\ unms = <<>> /\ retUnm = 0
      /\ hr = "S_OK" /\ outcome = "none" /\ replaced = {} /\ stale = FALSE
  BY DEF Init
<1>2. call.params = <<>> /\ call.retIndex = -1 /\ call.via = "none" /\ call.inout = FALSE /\ n = 0
  BY <1>1 DEF NoCall, n
<1>3. ShapeInv
  <2>1. args = [ i \in 1..n |-> args[i] ] /\ refs = [ i \in 1..n |-> refs[i] ]
    BY <1>1, <1>2
  <2>2. Len(unms) = 0 /\ \A i \in 1..n : FALSE
    BY <1>1, <1>2
  <2>3. retUnm \in 0..Len(unms) /\ replaced \subseteq 1..Len(unms) /\ \A i \in 1..n : refs[i] \in 0..Len(heap)
    BY <1>1, <2>2
  <2>4. /\ pc = "idle" /\ hr = "S_OK" /\ outcome = "none" /\ step \in 0..(n + 1)
        /\ comParamIndex \in 0..(n + 1) /\ javaParamIndex \in 0..n /\ retIndex \in -1..n /\ call.retIndex \in -1..n
    BY <1>1, <1>2
  <2> QED
    BY <1>2, <2>1, <2>3, <2>4 DEF ShapeInv
<1>4. FlowInv
  BY <1>1, <1>2 DEF FlowInv, Ret, Before
<1>5. TurnInv /\ OutInv
  BY <1>1, EmptyWorld DEF TurnInv, OutInv
<1>6. RetInv /\ RefsInv /\ ApartInv
  BY <1>1, <1>2 DEF RetInv, RefsInv, ApartInv, Ret, RetJava, OfRet, OfParam, Acquired
<1>7. KindsInv /\ CoverInv /\ FreedOnce /\ NoUseAfterFree
  BY <1>1 DEF KindsInv, CoverInv, FreedOnce, NoUseAfterFree
<1> QED
  BY <1>3, <1>4, <1>5, <1>6, <1>7 DEF Ownership

\* A step between two points before the call is over that touches nothing.
LEMMA QuietStep ==
  ASSUME Ownership, pc \in {"convert", "native"}, pc' \in {"convert", "native"}, pc = "native" => pc' = "native",
         UNCHANGED <<javaVars, javaParamIndex, retUnm, heap, post, unms, endVars>>, retIndex' \in {-1, retIndex},
         comParamIndex' \in 0..(n + 1), comParamIndex' >= comParamIndex
  PROVE  Ownership'
<1> USE DEF javaVars, endVars
<1>1. ShapeInv'
  <2>1. retIndex' \in -1..n
    BY DEF Ownership, ShapeInv
  <2> QED
    BY <2>1 DEF Ownership, ShapeInv, n
<1>2. FlowInv'
  BY DEF Ownership, ShapeInv, FlowInv, Ret, Before, n
<1>3. TurnInv'
  BY DEF Ownership, TurnInv
<1>4. /\ OfRet' = OfRet /\ (Ret <=> Ret') /\ ~RetJava /\ ~RetJava'
      /\ \A i : (Acquired(i) <=> Acquired(i)') /\ OfParam(i)' = OfParam(i)
  BY DEF OfRet, Ret, RetJava, RetRef, Before, OfParam, Acquired, Conv
<1>5. OutInv'
  <2>1. Outs(call.params, post, unms, IF pc' = "convert" THEN javaParamIndex ELSE n)
    <3>1. 1..javaParamIndex \subseteq 1..n
      BY DEF Ownership, ShapeInv
    <3> QED
      BY <3>1 DEF Ownership, OutInv, Outs
  <2>2. Outs(call.params, post, unms, IF pc = "convert" THEN javaParamIndex ELSE n)'
    BY <2>1 DEF n
  <2> QED
    BY <1>4, <2>2 DEF Ownership, OutInv, Before
<1>6. RetInv'
  BY <1>4 DEF Ownership, RetInv
<1>7. RefsInv'
  BY <1>4 DEF Ownership, RefsInv, Before, n, Conv
<1>8. ApartInv'
  BY <1>4 DEF Ownership, ApartInv, n
<1>9. KindsInv' /\ FreedOnce' /\ NoUseAfterFree'
  BY DEF Ownership, KindsInv, FreedOnce, NoUseAfterFree, OwnedTwice
<1>10. CoverInv'
  <2>1. \A r : Lost(r) <=> Lost(r)'
    BY DEF Lost, Lossy, n
  <2> QED
    BY <1>4, <2>1 DEF Ownership, CoverInv, n
<1> QED
  BY <1>1, <1>2, <1>3, <1>5, <1>6, <1>7, <1>8, <1>9, <1>10 DEF Ownership

LEMMA BeginCallStep ==
  ASSUME Ownership, pc = "idle", NEW c \in Calls, BeginCall(c)
  PROVE  Ownership'
<1> USE DEF endVars
<1>1. /\ call' = c /\ n' = Len(c.params) /\ n' \in Nat /\ DOMAIN c.params = 1..n'
      /\ c.retIndex \in -1..n' /\ c.via \in {"vtable", "dispatch"} /\ c.inout \in BOOLEAN
      /\ n' = 0 => c.params = <<>>
  BY CallsAssumption DEF BeginCall, n
<1>2. /\ heap = <<>> /\ post = <<>> /\ unms = <<>> /\ retUnm = 0 /\ replaced = {}
      /\ comParamIndex = 0 /\ javaParamIndex = 0 /\ outcome = "none" /\ ~stale /\ hr = "S_OK"
  BY DEF Ownership, FlowInv, Before
<1>3. /\ heap' = <<>> /\ post' = <<>> /\ unms' = <<>> /\ retUnm' = 0 /\ replaced' = {}
      /\ comParamIndex' = 0 /\ javaParamIndex' = 0 /\ outcome' = "none" /\ ~stale' /\ hr' = "S_OK"
      /\ pc' = IF c.params # <<>> THEN "message" ELSE IF c.via = "dispatch" THEN "dispatch" ELSE "convert"
      /\ step' = 1 /\ retIndex' = c.retIndex
      /\ args' = [ i \in 1..n' |-> c.params[i].arg ] /\ refs' = [ i \in 1..n' |-> 0 ]
  BY <1>1, <1>2 DEF BeginCall
<1>4. ShapeInv'
  <2>1. args' = [ i \in 1..n' |-> args'[i] ] /\ refs' = [ i \in 1..n' |-> refs'[i] ] /\ \A i \in 1..n' : refs'[i] = 0
    BY <1>3
  <2>2. call.params' = c.params /\ call.retIndex' = c.retIndex /\ call.via' = c.via /\ call.inout' = c.inout
    BY <1>1
  <2> QED
    BY <1>1, <1>3, <2>1, <2>2 DEF ShapeInv
<1>5. FlowInv'
  <2>1. c.params # <<>> => n' # 0
    BY <1>1
  <2> QED
    BY <1>1, <1>3, <2>1 DEF FlowInv, Ret, Before
<1>6. TurnInv' /\ OutInv'
  BY <1>3, EmptyWorld DEF TurnInv, OutInv
<1>7. \A i \in 1..n' : refs'[i] = 0
  BY <1>3
<1>8. RetInv' /\ RefsInv' /\ ApartInv'
  BY <1>3, <1>7 DEF RetInv, RefsInv, ApartInv, Ret, RetJava, OfRet, OfParam, Acquired
<1>9. KindsInv' /\ CoverInv' /\ FreedOnce' /\ NoUseAfterFree'
  BY <1>3 DEF KindsInv, CoverInv, FreedOnce, NoUseAfterFree
<1> QED
  BY <1>4, <1>5, <1>6, <1>8, <1>9 DEF Ownership

LEMMA EndCallStep ==
  ASSUME EndCall
  PROVE  Ownership'
<1>1. /\ pc' = "idle" /\ call' = NoCall /\ step' = 0 /\ args' = <<>> /\ refs' = <<>>
      /\ comParamIndex' = 0 /\ javaParamIndex' = 0 /\ retIndex' = -1
      /\ heap' = <<>> /\ post' = <<>> /\ unms' = <<>> /\ retUnm' = 0
      /\ hr' = "S_OK" /\ outcome' = "none" /\ replaced' = {} /\ stale' = FALSE
  BY DEF EndCall
<1>2. call.params' = <<>> /\ call.retIndex' = -1 /\ call.via' = "none" /\ call.inout' = FALSE /\ n' = 0
  BY <1>1 DEF NoCall, n
<1>3. ShapeInv'
  <2>1. args' = [ i \in 1..n' |-> args'[i] ] /\ refs' = [ i \in 1..n' |-> refs'[i] ]
    BY <1>1, <1>2
  <2>2. Len(unms') = 0 /\ \A i \in 1..n' : FALSE
    BY <1>1, <1>2
  <2>3. retUnm' \in 0..Len(unms') /\ replaced' \subseteq 1..Len(unms') /\ \A i \in 1..n' : refs'[i] \in 0..Len(heap')
    BY <1>1, <2>2
  <2>4. /\ pc' = "idle" /\ hr' = "S_OK" /\ outcome' = "none" /\ step' \in 0..(n' + 1)
        /\ comParamIndex' \in 0..(n' + 1) /\ javaParamIndex' \in 0..n' /\ retIndex' \in -1..n'
        /\ call.retIndex' \in -1..n'
    BY <1>1, <1>2
  <2> QED
    BY <1>2, <2>1, <2>3, <2>4 DEF ShapeInv
<1>4. FlowInv'
  BY <1>1, <1>2 DEF FlowInv, Ret, Before
<1>5. TurnInv' /\ OutInv'
  BY <1>1, EmptyWorld DEF TurnInv, OutInv
<1>6. RetInv' /\ RefsInv' /\ ApartInv'
  BY <1>1, <1>2 DEF RetInv, RefsInv, ApartInv, Ret, RetJava, OfRet, OfParam, Acquired
<1>7. KindsInv' /\ CoverInv' /\ FreedOnce' /\ NoUseAfterFree'
  BY <1>1 DEF KindsInv, CoverInv, FreedOnce, NoUseAfterFree
<1> QED
  BY <1>3, <1>4, <1>5, <1>6, <1>7 DEF Ownership

LEMMA BareWorld ==
  ASSUME NEW h \in Seq(HeapEntry)
  PROVE  /\ World(h, <<>>, <<>>) /\ \A r : ~Claimed(h, <<>>, <<>>, r)
         /\ \A X : Due(h, <<>>, <<>>, X)
<1>1. <<>> \in Seq(PostAct) /\ IsUnms(<<>>)
  BY EmptyWorld DEF World
<1>2. Linked(h, <<>>) /\ Stacked(h, <<>>, <<>>)
  BY DEF Linked, Stacked
<1> QED
  BY <1>1, <1>2 DEF World, Claimed, Due

LEMMA AppendedHeap ==
  ASSUME NEW h \in Seq(HeapEntry), NEW e \in HeapEntry
  PROVE  /\ Append(h, e) \in Seq(HeapEntry) /\ Len(Append(h, e)) = Len(h) + 1 /\ Append(h, e)[Len(h) + 1] = e
         /\ \A r \in 1..Len(h) : Append(h, e)[r] = h[r]
<1> HIDE DEF HeapEntry
<1> QED
  BY Appended

\* What messageParameters adds: a reference of the argument at hand.
LEMMA MessageFacts ==
  ASSUME Ownership, MessageParameter
  PROVE  /\ step \in 1..n /\ step' \in 1..(n + 1) /\ heap \in Seq(HeapEntry) /\ Len(heap) \in Nat
         /\ args' = [ i \in 1..n |-> args'[i] ] /\ refs' = [ i \in 1..n |-> refs'[i] ]
         /\ \/ /\ heap' = heap /\ refs' = refs
               /\ \/ pc' = "done" /\ outcome' = "NullPointerException" /\ step' = step
                  \/ /\ step' = step + 1 /\ pc' = (IF step = n THEN AfterMessages ELSE "message")
                     /\ outcome' = outcome
            \/ /\ step' = step + 1 /\ pc' = (IF step = n THEN AfterMessages ELSE "message") /\ outcome' = outcome
               /\ heap' \in Seq(HeapEntry) /\ Len(heap') = Len(heap) + 1
               /\ \A r \in 1..Len(heap) : heap'[r] = heap[r]
               /\ refs'[step] = Len(heap) + 1 /\ \A i \in 1..n : i # step => refs'[i] = refs[i]
               /\ \/ Conv(step) = "DISPATCH" /\ heap'[Len(heap) + 1].kind = "dispatch" /\ Fresh(heap', Len(heap) + 1)
                  \/ /\ Conv(step) = "ComObject_byRef" /\ heap'[Len(heap) + 1].kind = "wrapped"
                     /\ heap'[Len(heap) + 1].owners = 1 /\ heap'[Len(heap) + 1].frees = 0
<1> DEFINE a == args[step]
           e == PointerOf(Conv(step), a)
           Wraps == Conv(step) = "ComObject_byRef" /\ e.kind = "wrapped" /\ e.owners = 1 /\ e.frees = 0
           Gets == Conv(step) = "DISPATCH" /\ e.kind = "dispatch" /\ e.frees = 0 /\ e.owners = 0
<1>1. step \in 1..n /\ n \in Nat /\ refs = [ i \in 1..n |-> refs[i] ] /\ args = [ i \in 1..n |-> args[i] ]
  BY DEF Ownership, FlowInv, ShapeInv, MessageParameter
<1>2. heap \in Seq(HeapEntry) /\ Len(heap) \in Nat
  BY WorldFacts DEF Ownership, TurnInv, World
<1>3. CASE NullPointer(Conv(step), a)
  BY <1>1, <1>2, <1>3 DEF MessageParameter, Conv
<1>4. CASE ~NullPointer(Conv(step), a)
  <2>1. /\ args' = [args EXCEPT ![step] = Messaged(Conv(step), a)]
        /\ IF TakesPointer(Conv(step), a)
           THEN heap' = Append(heap, e) /\ refs' = [refs EXCEPT ![step] = Len(heap) + 1]
           ELSE UNCHANGED <<heap, refs>>
        /\ step' = step + 1
        /\ pc' = IF step = n THEN AfterMessages ELSE "message"
        /\ UNCHANGED outcome
    BY <1>4 DEF MessageParameter, Conv
  <2>2. args' = [ i \in 1..n |-> args'[i] ]
    BY <1>1, <2>1
  <2>3. CASE TakesPointer(Conv(step), a)
    <3>1. (Wraps \/ Gets) /\ e \in HeapEntry
      BY <2>3 DEF TakesPointer, PointerOf, HeapEntry, HeapKinds
    <3>2. heap' = Append(heap, e) /\ refs' = [refs EXCEPT ![step] = Len(heap) + 1]
      BY <2>1, <2>3
    <3>3. /\ refs' = [ i \in 1..n |-> refs'[i] ] /\ refs'[step] = Len(heap) + 1
          /\ \A i \in 1..n : i # step => refs'[i] = refs[i]
      BY <1>1, <3>2
    <3> HIDE DEF e, a
    <3>4. /\ heap' \in Seq(HeapEntry) /\ Len(heap') = Len(heap) + 1 /\ heap'[Len(heap) + 1] = e
          /\ \A r \in 1..Len(heap) : heap'[r] = heap[r]
      BY <1>2, <3>1, <3>2, AppendedHeap
    <3> QED
      BY <1>1, <1>2, <2>1, <2>2, <3>1, <3>3, <3>4 DEF Fresh
  <2>4. CASE ~TakesPointer(Conv(step), a)
    BY <1>1, <1>2, <2>1, <2>2, <2>4
  <2> QED
    BY <2>3, <2>4
<1> QED
  BY <1>3, <1>4

LEMMA MessageParameterStep ==
  ASSUME Ownership, MessageParameter
  PROVE  Ownership'
<1>0. PICK s \in 1..n : s = step
  BY DEF Ownership, FlowInv, MessageParameter
<1> DEFINE L == Len(heap)
           Grown == /\ heap' \in Seq(HeapEntry) /\ Len(heap') = L + 1
                    /\ \A r \in 1..L : heap'[r] = heap[r]
                    /\ refs'[s] = L + 1 /\ \A i \in 1..n : i # s => refs'[i] = refs[i]
                    /\ \/ Conv(s) = "DISPATCH" /\ heap'[L + 1].kind = "dispatch" /\ Fresh(heap', L + 1)
                       \/ /\ Conv(s) = "ComObject_byRef" /\ heap'[L + 1].kind = "wrapped"
                          /\ heap'[L + 1].owners = 1 /\ heap'[L + 1].frees = 0
           Stayed == heap' = heap /\ refs' = refs
           Goes == step' = s + 1 /\ pc' = (IF s = n THEN AfterMessages ELSE "message") /\ outcome' = outcome
           Stops == pc' = "done" /\ outcome' = "NullPointerException" /\ step' = s
<1>1. /\ s = step /\ step' \in 1..(n + 1) /\ heap \in Seq(HeapEntry) /\ L \in Nat
      /\ args' = [ i \in 1..n |-> args'[i] ] /\ refs' = [ i \in 1..n |-> refs'[i] ]
      /\ (Stayed /\ (Stops \/ Goes)) \/ (Grown /\ Goes)
  BY <1>0, MessageFacts
<1>2. /\ pc = "message" /\ n' = n /\ n \in Nat
      /\ UNCHANGED <<call, comParamIndex, javaParamIndex, retIndex, retUnm, unms, post, hr, replaced, stale>>
  BY DEF MessageParameter, convVars, n, Ownership, ShapeInv
<1>3. /\ post = <<>> /\ unms = <<>> /\ retUnm = 0 /\ comParamIndex = 0 /\ javaParamIndex = 0
      /\ outcome = "none" /\ ~stale /\ hr = "S_OK" /\ post' = <<>> /\ unms' = <<>> /\ retUnm' = 0
  BY <1>2 DEF Ownership, FlowInv, Before
<1>4. /\ \A i \in 1..n : Conv(i)' = Conv(i) /\ refs[i] \in 0..L
      /\ ~Ret /\ ~Ret' /\ OfRet = {} /\ OfRet' = {}
  BY <1>2, <1>3 DEF Conv, Ownership, ShapeInv, Ret, OfRet, RetJava
<1>5. Goes => pc' \in {"message", "convert", "dispatch"}
  BY DEF AfterMessages
<1>6. refs[s] = 0
  BY <1>0, <1>1, <1>2 DEF Ownership, RefsInv
<1> HIDE DEF L
<1>7. heap' \in Seq(HeapEntry) /\ L <= Len(heap') /\ Len(heap') \in Nat /\ \A r \in 1..L : r \in 1..Len(heap') /\ heap'[r] = heap[r]
  BY <1>1 DEF L
<1>8. \A r : ~Claimed(heap, post, unms, r) /\ ~Claimed(heap', post', unms', r)
  BY <1>1, <1>3, <1>7, BareWorld
<1> HIDE DEF Grown, Stayed, Goes, Stops
<1>9. ShapeInv'
  <2>1. \A i \in 1..n : refs'[i] \in 0..Len(heap')
    <3>1. CASE Stayed
      BY <1>4, <3>1 DEF Stayed, L
    <3>2. CASE Grown
      <4> SUFFICES ASSUME NEW i \in 1..n
                   PROVE  refs'[i] \in 0..Len(heap')
        OBVIOUS
      <4>1. Len(heap') = L + 1 /\ L \in Nat /\ refs[i] \in 0..L
        BY <1>1, <1>4, <3>2 DEF Grown, L
      <4>2. refs'[i] = L + 1 \/ refs'[i] = refs[i]
        BY <3>2 DEF Grown
      <4> QED
        BY <4>1, <4>2
    <3> QED
      BY <1>1, <3>1, <3>2
  <2>2. pc' \in {"message", "convert", "dispatch", "done"} /\ outcome' \in {"none", "NullPointerException"}
    BY <1>1, <1>3, <1>5 DEF Goes, Stops
  <2>3. step' \in 0..(n + 1)
    BY <1>1
  <2> QED
    BY <1>1, <1>2, <1>3, <2>1, <2>2, <2>3 DEF Ownership, ShapeInv
<1>10. FlowInv'
  <2>1. s = n => n > 0
    BY <1>1
  <2>2. Goes => /\ pc' \in {"message", "convert", "dispatch"} /\ (pc' = "message" => s + 1 \in 1..n)
                /\ (pc' = "dispatch" => s + 1 > n /\ call.via = "dispatch")
                /\ (pc' = "convert" => call.via # "dispatch")
    BY <1>1, <1>2, <1>5 DEF Goes, AfterMessages
  <2> QED
    BY <1>1, <1>2, <1>3, <1>4, <2>2 DEF FlowInv, Before, Goes, Stops
<1>11. TurnInv'
  BY <1>2, <1>3, <1>5, <1>7, BareWorld, EmptyWorld DEF TurnInv
<1>12. OutInv' /\ RetInv'
  BY <1>3, <1>4, EmptyWorld DEF OutInv, RetInv, RetJava
<1>13. \A i \in 1..n : (i # s => OfParam(i)' = IF Stops THEN {} ELSE OfParam(i)) /\ OfParam(s) = {}
  <2> SUFFICES ASSUME NEW i \in 1..n
               PROVE  (i # s => OfParam(i)' = IF Stops THEN {} ELSE OfParam(i)) /\ OfParam(s) = {}
    OBVIOUS
  <2>1. OfParam(s) = {}
    BY <1>6 DEF OfParam, Acquired
  <2>2. i # s => refs'[i] = refs[i] /\ (refs[i] # 0 => heap'[refs[i]] = heap[refs[i]])
    <3>1. i # s => refs'[i] = refs[i]
      BY <1>1 DEF Stayed, Grown
    <3>2. refs[i] # 0 => refs[i] \in 1..L
      BY <1>4
    <3> QED
      BY <1>7, <3>1, <3>2
  <2>3. i # s => (Acquired(i)' <=> Acquired(i) /\ ~Stops)
    BY <1>1, <1>2, <1>4, <1>5, <2>2 DEF Acquired, Goes, Stops
  <2> QED
    BY <2>1, <2>2, <2>3 DEF OfParam
<1>14. IF Grown /\ Conv(s) = "DISPATCH" THEN OfParam(s)' = {L + 1} ELSE OfParam(s)' = {}
  <2>1. CASE Grown
    <3>1. refs'[s] = L + 1 /\ refs'[s] # 0 /\ Conv(s)' = Conv(s)
      BY <1>1, <1>4, <2>1 DEF Grown, L
    <3>2. pc' # "done" /\ pc' # "cleanup"
      BY <1>1, <1>2, <1>5, <2>1 DEF Stayed, Stops, Goes, Grown, L
    <3>3. Acquired(s)' <=> Conv(s) = "DISPATCH"
      BY <2>1, <3>1, <3>2 DEF Acquired, Grown
    <3> QED
      BY <2>1, <3>1, <3>3 DEF OfParam
  <2>2. CASE ~Grown
    <3>1. refs'[s] = 0
      BY <1>1, <1>6, <2>2 DEF Stayed
    <3> QED
      BY <2>2, <3>1 DEF OfParam, Acquired
  <2> QED
    BY <2>1, <2>2
<1>15. RefsInv'
  <2>1. ASSUME NEW i \in 1..n, Acquired(i)'
        PROVE  Conv(i)' = "DISPATCH" /\ heap'[refs'[i]].kind = "dispatch"
    <3>1. CASE i = s
      <4>1. Grown /\ Conv(s) = "DISPATCH" /\ refs'[s] = L + 1
        BY <1>14, <2>1, <3>1 DEF OfParam, Grown
      <4> QED
        BY <1>4, <3>1, <4>1 DEF Grown
    <3>2. CASE i # s
      <4>1. Acquired(i) /\ refs'[i] = refs[i] /\ heap'[refs[i]] = heap[refs[i]]
        <5>1. OfParam(i)' # {}
          BY <2>1 DEF OfParam
        <5>2. Acquired(i)
          BY <1>13, <3>2, <5>1 DEF OfParam
        <5>3. refs[i] # 0 /\ refs'[i] = refs[i]
          BY <1>1, <3>2, <5>2 DEF Acquired, Stayed, Grown
        <5> QED
          BY <1>4, <1>7, <5>2, <5>3
      <4>2. Conv(i) = "DISPATCH" /\ heap[refs[i]].kind = "dispatch"
        BY <1>2, <4>1 DEF Ownership, RefsInv
      <4> QED
        BY <1>4, <4>1, <4>2
    <3> QED
      BY <3>1, <3>2
  <2>2. ASSUME NEW i \in 1..n, refs'[i] # 0
        PROVE  Conv(i)' = "DISPATCH" \/ (Conv(i)' = "ComObject_byRef" /\ heap'[refs'[i]].kind = "wrapped")
    <3>1. CASE refs'[i] = refs[i]
      <4>1. Conv(i) = "DISPATCH" \/ (Conv(i) = "ComObject_byRef" /\ heap[refs[i]].kind = "wrapped")
        BY <1>2, <2>2, <3>1 DEF Ownership, RefsInv, Before
      <4> QED
        BY <1>4, <1>7, <2>2, <3>1, <4>1
    <3>2. CASE refs'[i] # refs[i]
      BY <1>1, <1>4, <3>2 DEF Stayed, Grown
    <3> QED
      BY <3>1, <3>2
  <2>3. pc' = "message" => \A i \in step'..n : refs'[i] = 0
    <3> SUFFICES ASSUME pc' = "message", NEW i \in step'..n
                 PROVE  refs'[i] = 0
      OBVIOUS
    <3>1. step' = s + 1 /\ i \in 1..n /\ i # s /\ i \in s..n
      BY <1>1, <1>2 DEF Goes, Stops
    <3>2. refs[i] = 0
      BY <1>0, <1>2, <3>1 DEF Ownership, RefsInv
    <3> QED
      BY <1>1, <3>1, <3>2 DEF Stayed, Grown
  <2> QED
    BY <1>2, <2>1, <2>2, <2>3 DEF RefsInv
<1>16. ApartInv'
  <2> SUFFICES ASSUME ~call.inout, NEW i \in 1..n, NEW r \in OfParam(i)'
               PROVE  /\ Loose(heap', post', unms', r)
                      /\ \A j \in 1..n : i # j => r \notin OfParam(j)'
    BY <1>2, <1>4 DEF ApartInv
  <2>1. ASSUME NEW j \in 1..n, NEW q \in OfParam(j)
        PROVE  q \in 1..L /\ Fresh(heap, q) /\ \A k \in 1..n : k # j => q \notin OfParam(k)
    <3>1. Loose(heap, post, unms, q) /\ \A k \in 1..n : k # j => q \notin OfParam(k)
      BY <1>2, <2>1 DEF Ownership, ApartInv
    <3>2. DOMAIN heap = 1..L
      BY <1>1 DEF L
    <3> QED
      BY <3>1, <3>2 DEF Loose
  <2>2. r \in 1..Len(heap') /\ Fresh(heap', r) /\ (i # s => r \in OfParam(i)) /\ (i = s => r = L + 1)
    <3>1. CASE i = s
      <4>1. Grown /\ Conv(s) = "DISPATCH" /\ r = L + 1
        BY <1>14, <3>1
      <4>2. L + 1 \in 1..Len(heap')
        BY <1>1, <4>1 DEF Grown, L
      <4> QED
        BY <3>1, <4>1, <4>2 DEF Grown
    <3>2. CASE i # s
      <4>1. r \in OfParam(i)
        BY <1>13, <3>2
      <4> QED
        BY <1>7, <2>1, <3>2, <4>1 DEF Fresh
    <3> QED
      BY <3>1, <3>2
  <2>3. \A j \in 1..n : i # j => r \notin OfParam(j)'
    <3> SUFFICES ASSUME NEW j \in 1..n, i # j, r \in OfParam(j)'
                 PROVE  FALSE
      OBVIOUS
    <3>1. (j # s => r \in OfParam(j)) /\ (j = s => r = L + 1)
      BY <1>13, <1>14
    <3>2. L \in Nat
      BY <1>1 DEF L
    <3> QED
      BY <2>1, <2>2, <3>1, <3>2
  <2>4. DOMAIN heap' = 1..Len(heap')
    BY <1>7
  <2> QED
    BY <1>8, <2>2, <2>3, <2>4 DEF Loose
<1>17. \A r \in 1..Len(heap') : r \in 1..L \/ (Grown /\ r = L + 1)
  BY <1>1, <1>7 DEF Stayed, Grown, L
<1>18. KindsInv'
  <2>1. Grown => heap'[L + 1].kind # "dispatched" /\ (heap'[L + 1].kind = "wrapped" => heap'[L + 1].owners >= 1)
    BY DEF Grown
  <2> QED
    BY <1>2, <1>7, <1>17, <2>1 DEF Ownership, KindsInv, L
<1>19. FreedOnce' /\ NoUseAfterFree'
  <2>1. Grown => heap'[L + 1].frees + heap'[L + 1].owners <= 1
    BY DEF Grown, Fresh
  <2>2. DOMAIN heap = 1..L /\ DOMAIN heap' = 1..Len(heap')
    BY <1>1, <1>7 DEF L
  <2>3. ASSUME NEW r \in 1..Len(heap'), heap'[r].frees + heap'[r].owners > 1
        PROVE  OwnedTwice(r)'
    <3>1. CASE r \in 1..L
      BY <1>2, <1>7, <2>2, <2>3, <3>1 DEF Ownership, FreedOnce, OwnedTwice
    <3>2. CASE Grown /\ r = L + 1
      <4>1. heap'[r].frees \in Nat /\ heap'[r].owners \in Nat
        BY <1>7, Counts
      <4> QED
        BY <2>1, <2>3, <3>2, <4>1
    <3> QED
      BY <1>17, <3>1, <3>2
  <2> QED
    BY <1>2, <1>3, <2>2, <2>3 DEF FreedOnce, NoUseAfterFree
<1>20. CoverInv'
  <2> SUFFICES ASSUME NEW r \in 1..Len(heap'), Fresh(heap', r)
               PROVE  (\E i \in 1..n : r \in OfParam(i)') \/ Lost(r)'
    BY <1>2 DEF CoverInv
  <2>1. CASE r \in 1..L
    <3>1. Fresh(heap, r) /\ heap'[r] = heap[r]
      BY <1>7, <2>1 DEF Fresh
    <3>2. (\E i \in 1..n : r \in OfParam(i)) \/ Lost(r)
      BY <1>3, <1>4, <1>8, <2>1, <3>1 DEF Ownership, CoverInv, L
    <3>3. CASE Lost(r)
      <4>1. Lossy => Lossy'
        BY <1>2, <1>3 DEF Lossy
      <4> QED
        BY <1>2, <3>1, <3>3, <4>1 DEF Lost
    <3>4. CASE Stops /\ \E i \in 1..n : r \in OfParam(i)
      <4>1. PICK i \in 1..n : r \in OfParam(i)
        BY <3>4
      <4>2. heap[r].kind = "dispatch"
        BY <1>2, <4>1 DEF Ownership, RefsInv, OfParam
      <4> QED
        BY <3>1, <3>4, <4>2 DEF Lost, Lossy, Stops
    <3>5. CASE ~Stops /\ \E i \in 1..n : r \in OfParam(i)
      <4>1. PICK i \in 1..n : r \in OfParam(i)
        BY <3>5
      <4>2. i # s
        BY <1>13, <4>1
      <4> QED
        BY <1>13, <3>5, <4>1, <4>2
    <3> QED
      BY <3>2, <3>3, <3>4, <3>5
  <2>2. CASE Grown /\ r = L + 1
    <3>1. Conv(s) = "DISPATCH"
      BY <2>2 DEF Grown, Fresh
    <3> QED
      BY <1>1, <1>14, <2>2, <3>1
  <2> QED
    BY <1>17, <2>1, <2>2
<1> QED
  BY <1>9, <1>10, <1>11, <1>12, <1>15, <1>16, <1>18, <1>19, <1>20 DEF Ownership

LEMMA DispatchFacts ==
  ASSUME Ownership, pc = "dispatch"
  PROVE  /\ post = <<>> /\ unms = <<>> /\ retUnm = 0 /\ outcome = "none" /\ ~stale /\ hr = "S_OK"
         /\ call.via = "dispatch" /\ step > n /\ step \in Nat /\ n \in Nat /\ heap \in Seq(HeapEntry) /\ Len(heap) \in Nat
         /\ \A r : ~Claimed(heap, <<>>, <<>>, r)
         /\ \A i \in 1..n : refs[i] \in 0..Len(heap)
         /\ \A i \in 1..n : \A r \in OfParam(i) : r \in 1..Len(heap) /\ heap[r].kind = "dispatch"
<1>1. /\ post = <<>> /\ unms = <<>> /\ retUnm = 0 /\ outcome = "none" /\ ~stale /\ hr = "S_OK"
      /\ call.via = "dispatch" /\ step > n
  BY DEF Ownership, FlowInv
<1>2. heap \in Seq(HeapEntry) /\ Len(heap) \in Nat
  BY WorldFacts DEF Ownership, TurnInv, World
<1>3. \A r : ~Claimed(heap, <<>>, <<>>, r)
  BY <1>2, BareWorld
<1>4. step \in Nat /\ n \in Nat /\ \A i \in 1..n : refs[i] \in 0..Len(heap)
  BY DEF Ownership, ShapeInv
<1>5. \A i \in 1..n : \A r \in OfParam(i) : r \in 1..Len(heap) /\ heap[r].kind = "dispatch"
  BY <1>4 DEF OfParam, Acquired, Ownership, RefsInv
<1> QED
  BY <1>1, <1>2, <1>3, <1>4, <1>5

\* invokeDispatch: what its VARIANTs hold is left behind.
LEMMA ConvertDispatchArgumentStep ==
  ASSUME Ownership, ConvertDispatchArgument
  PROVE  Ownership'
<1> DEFINE L == Len(heap)
           Grown == /\ heap' \in Seq(HeapEntry) /\ Len(heap') = L + 1
                    /\ \A r \in 1..L : heap'[r] = heap[r]
                    /\ heap'[L + 1].kind = "dispatched" /\ Fresh(heap', L + 1)
           Goes == pc' = "dispatch" /\ outcome' = "none" /\ javaParamIndex' = javaParamIndex + 1
           Stops == pc' = "done" /\ outcome' = "crash" /\ javaParamIndex' = javaParamIndex
<1>1. pc = "dispatch"
  BY DEF ConvertDispatchArgument
<1>2. /\ post = <<>> /\ unms = <<>> /\ retUnm = 0 /\ outcome = "none" /\ ~stale /\ hr = "S_OK"
      /\ call.via = "dispatch" /\ step > n /\ step \in Nat /\ n \in Nat /\ heap \in Seq(HeapEntry) /\ L \in Nat
      /\ \A r : ~Claimed(heap, <<>>, <<>>, r)
      /\ \A i \in 1..n : refs[i] \in 0..L
      /\ \A i \in 1..n : \A r \in OfParam(i) : r \in 1..L /\ heap[r].kind = "dispatch"
  BY <1>1, DispatchFacts
<1>3. UNCHANGED <<javaVars, comParamIndex, retIndex, retUnm, unms, post, hr, replaced, stale>>
  BY DEF ConvertDispatchArgument, Fault
<1>4. (heap' = heap /\ (Stops \/ Goes)) \/ (Grown /\ Goes)
  <2>1. heap' = New(heap, <<"dispatched">>) => Grown
    <3>1. "dispatched" \in HeapKinds /\ World(heap, <<>>, <<>>)
      BY <1>2, BareWorld DEF HeapKinds
    <3> DEFINE h2 == New(heap, <<"dispatched">>)
    <3>2. /\ World(h2, <<>>, <<>>) /\ Len(h2) = L + 1 /\ \A r \in 1..L : h2[r] = heap[r]
          /\ h2[L + 1].kind = "dispatched" /\ Fresh(h2, L + 1)
      BY <3>1, NewOneWorld
    <3>3. h2 \in Seq(HeapEntry)
      BY <3>2 DEF World
    <3> HIDE DEF h2
    <3>4. heap' = h2 => Grown
      BY <3>2, <3>3
    <3> QED
      BY <3>4 DEF h2
  <2>2. heap' = heap \/ heap' = New(heap, <<"dispatched">>)
    BY DEF ConvertDispatchArgument, Fault
  <2>3. Goes \/ (Stops /\ heap' = heap)
    BY <1>1, <1>2 DEF ConvertDispatchArgument, Fault
  <2> QED
    BY <2>1, <2>2, <2>3
<1>5. /\ n' = n /\ (\A i : Conv(i)' = Conv(i)) /\ ~Ret /\ ~Ret' /\ OfRet = {} /\ OfRet' = {}
      /\ javaParamIndex' \in 0..n
  <2>1. javaParamIndex \in 0..n /\ javaParamIndex < n
    BY DEF Ownership, ShapeInv, ConvertDispatchArgument
  <2>2. javaParamIndex' \in 0..n
    BY <1>2, <1>4, <2>1
  <2> QED
    BY <1>2, <1>3, <2>2 DEF n, Conv, Ret, OfRet, RetJava, javaVars
<1> HIDE DEF L
<1>6. /\ heap' \in Seq(HeapEntry) /\ L <= Len(heap') /\ Len(heap') \in Nat
      /\ \A r \in 1..L : r \in 1..Len(heap') /\ heap'[r] = heap[r]
      /\ \A r \in 1..Len(heap') : r \in 1..L \/ (Grown /\ r = L + 1)
  BY <1>2, <1>4 DEF L
<1>7. \A r : ~Claimed(heap', post', unms', r)
  BY <1>2, <1>3, <1>6, BareWorld
<1>8. \A i \in 1..n : OfParam(i)' = IF Stops THEN {} ELSE OfParam(i)
  <2> SUFFICES ASSUME NEW i \in 1..n
               PROVE  OfParam(i)' = IF Stops THEN {} ELSE OfParam(i)
    OBVIOUS
  <2>1. refs'[i] = refs[i] /\ (refs[i] # 0 => heap'[refs[i]] = heap[refs[i]])
    BY <1>2, <1>3, <1>6 DEF javaVars
  <2>2. Acquired(i)' <=> Acquired(i) /\ ~Stops
    BY <1>1, <1>4, <1>5, <2>1 DEF Acquired
  <2> QED
    BY <2>1, <2>2 DEF OfParam
<1> HIDE DEF Grown, Goes, Stops
<1>9. ShapeInv'
  <2>1. \A i \in 1..n : refs'[i] \in 0..Len(heap')
    <3> SUFFICES ASSUME NEW i \in 1..n
                 PROVE  refs'[i] \in 0..Len(heap')
      OBVIOUS
    <3>1. refs'[i] = refs[i] /\ refs[i] \in 0..L
      BY <1>2, <1>3 DEF javaVars
    <3> QED
      BY <1>2, <1>6, <3>1
  <2>2. pc' \in {"dispatch", "done"} /\ outcome' \in {"none", "crash"}
    BY <1>4 DEF Goes, Stops
  <2> QED
    BY <1>3, <1>5, <2>1, <2>2 DEF Ownership, ShapeInv, javaVars
<1>10. FlowInv' /\ TurnInv' /\ OutInv' /\ RetInv'
  <2>1. pc' \in {"dispatch", "done"} /\ (pc' = "dispatch" => outcome' = "none") /\ (pc' = "done" => outcome' = "crash")
    BY <1>4 DEF Goes, Stops
  <2>2. FlowInv'
    BY <1>2, <1>3, <1>5, <2>1 DEF FlowInv, Before, javaVars
  <2>3. TurnInv' /\ OutInv' /\ RetInv'
    BY <1>2, <1>3, <1>5, <1>6, <2>1, BareWorld, EmptyWorld DEF TurnInv, OutInv, RetInv, RetJava
  <2> QED
    BY <2>2, <2>3
<1>11. RefsInv'
  <2>1. \A i \in 1..n : Acquired(i)' => refs'[i] = refs[i] /\ Acquired(i) /\ heap'[refs[i]] = heap[refs[i]]
    <3> SUFFICES ASSUME NEW i \in 1..n, Acquired(i)'
                 PROVE  refs'[i] = refs[i] /\ Acquired(i) /\ heap'[refs[i]] = heap[refs[i]]
      OBVIOUS
    <3>1. OfParam(i)' # {}
      BY DEF OfParam
    <3>2. Acquired(i)
      BY <1>8, <3>1 DEF OfParam
    <3> QED
      BY <1>2, <1>3, <1>6, <3>2 DEF Acquired, javaVars
  <2>2. \A i \in 1..n : Acquired(i) => Conv(i) = "DISPATCH" /\ heap[refs[i]].kind = "dispatch"
    BY <1>1 DEF Ownership, RefsInv
  <2>3. pc' \in {"dispatch", "done"}
    BY <1>4 DEF Goes, Stops
  <2> QED
    BY <1>5, <2>1, <2>2, <2>3 DEF RefsInv, Before
<1>12. ApartInv'
  <2> SUFFICES ASSUME ~call.inout, NEW i \in 1..n, NEW r \in OfParam(i)'
               PROVE  /\ Loose(heap', post', unms', r)
                      /\ \A j \in 1..n : i # j => r \notin OfParam(j)'
    BY <1>3, <1>5 DEF ApartInv, javaVars
  <2>1. r \in OfParam(i) /\ \A j \in 1..n : r \in OfParam(j)' => r \in OfParam(j)
    BY <1>8
  <2>2. Fresh(heap, r) /\ \A j \in 1..n : i # j => r \notin OfParam(j)
    BY <2>1 DEF Ownership, ApartInv, Loose
  <2>3. r \in 1..L
    BY <1>2, <2>1
  <2>4. DOMAIN heap' = 1..Len(heap')
    BY <1>6
  <2>5. Loose(heap', post', unms', r)
    BY <1>6, <1>7, <2>2, <2>3, <2>4 DEF Loose, Fresh
  <2> QED
    BY <2>1, <2>2, <2>5
<1>13. KindsInv'
  BY <1>2, <1>3, <1>6 DEF Ownership, KindsInv, Grown, L, javaVars
<1>14. FreedOnce' /\ NoUseAfterFree'
  <2>1. DOMAIN heap = 1..L /\ DOMAIN heap' = 1..Len(heap')
    BY <1>2, <1>6 DEF L
  <2>2. ASSUME NEW r \in 1..Len(heap'), heap'[r].frees + heap'[r].owners > 1
        PROVE  OwnedTwice(r)'
    <3>1. CASE r \in 1..L
      BY <1>3, <1>6, <2>1, <2>2, <3>1 DEF Ownership, FreedOnce, OwnedTwice, javaVars
    <3>2. CASE Grown /\ r = L + 1
      BY <2>2, <3>2 DEF Grown, Fresh
    <3> QED
      BY <1>6, <3>1, <3>2
  <2> QED
    BY <1>2, <1>3, <2>1, <2>2 DEF FreedOnce, NoUseAfterFree
<1>15. CoverInv'
  <2> SUFFICES ASSUME NEW r \in 1..Len(heap'), Fresh(heap', r), outcome' # "crash"
               PROVE  (\E i \in 1..n : r \in OfParam(i)') \/ Lost(r)'
    BY <1>5 DEF CoverInv
  <2>1. CASE r \in 1..L
    <3>1. Fresh(heap, r) /\ heap'[r] = heap[r]
      BY <1>6, <2>1 DEF Fresh
    <3>2. (\E i \in 1..n : r \in OfParam(i)) \/ Lost(r)
      BY <1>2, <1>5, <2>1, <3>1 DEF Ownership, CoverInv, L
    <3>3. ~Stops /\ (Lossy => Lossy')
      BY <1>1, <1>2, <1>3 DEF Lossy, Stops
    <3>4. Lost(r) => Lost(r)'
      BY <1>3, <3>1, <3>3 DEF Lost, javaVars
    <3> QED
      BY <1>8, <3>2, <3>3, <3>4
  <2>2. CASE Grown /\ r = L + 1
    BY <2>2 DEF Lost, Grown
  <2> QED
    BY <1>6, <2>1, <2>2
<1> QED
  BY <1>9, <1>10, <1>11, <1>12, <1>13, <1>14, <1>15 DEF Ownership

LEMMA InvokeDispatchStep ==
  ASSUME Ownership, InvokeDispatch
  PROVE  Ownership'
<1>1. /\ pc = "dispatch" /\ pc' = "done" /\ n' = n /\ hr' \in {"S_OK", "E_FAIL"}
      /\ UNCHANGED <<javaVars, convVars, heap, post, replaced, stale>>
  BY DEF InvokeDispatch, n, javaVars
<1>2. /\ post = <<>> /\ unms = <<>> /\ retUnm = 0 /\ outcome = "none" /\ ~stale /\ hr = "S_OK"
      /\ call.via = "dispatch" /\ step > n /\ step \in Nat /\ n \in Nat /\ heap \in Seq(HeapEntry) /\ Len(heap) \in Nat
      /\ \A r : ~Claimed(heap, <<>>, <<>>, r)
      /\ \A i \in 1..n : refs[i] \in 0..Len(heap)
      /\ \A i \in 1..n : \A r \in OfParam(i) : r \in 1..Len(heap) /\ heap[r].kind = "dispatch"
  BY <1>1, DispatchFacts
<1>3. outcome' \in {"none", "ComException"}
  BY <1>2 DEF InvokeDispatch
<1> USE DEF javaVars, convVars
<1>4. /\ ~Ret /\ ~Ret' /\ OfRet = {} /\ OfRet' = {} /\ \A i : ~Acquired(i)'
  BY <1>1, <1>2 DEF Ret, OfRet, RetJava, Acquired
<1>5. ShapeInv'
  BY <1>1, <1>3 DEF Ownership, ShapeInv
<1>6. FlowInv'
  BY <1>1, <1>2, <1>3 DEF FlowInv, Before
<1>7. TurnInv' /\ OutInv' /\ RetInv'
  <2>1. World(heap', post', unms') /\ \A X : Due(heap', post', unms', X)
    BY <1>1, <1>2, BareWorld
  <2>2. OutActs(post') = {} /\ \A q, m : Outs(q, post', unms', m)
    BY <1>1, <1>2, EmptyWorld
  <2> QED
    BY <1>1, <1>4, <2>1, <2>2 DEF TurnInv, OutInv, RetInv, RetJava, Before
<1>8. RefsInv' /\ ApartInv' /\ KindsInv'
  BY <1>1, <1>4 DEF RefsInv, ApartInv, OfParam, Before, Ownership, KindsInv
<1>9. FreedOnce' /\ NoUseAfterFree'
  BY <1>1, <1>2 DEF Ownership, FreedOnce, OwnedTwice, NoUseAfterFree
<1>10. CoverInv'
  <2> SUFFICES ASSUME NEW r \in 1..Len(heap), Fresh(heap, r)
               PROVE  Lost(r)'
    BY <1>1 DEF CoverInv
  <2>1. (\E i \in 1..n : r \in OfParam(i)) \/ Lost(r)
    BY <1>2, <1>4 DEF Ownership, CoverInv
  <2>2. ~Lossy
    BY <1>1, <1>2 DEF Lossy
  <2>3. heap[r].kind \in {"dispatch", "dispatched"}
    BY <1>2, <2>1, <2>2 DEF Lost
  <2> QED
    BY <1>1, <1>2, <2>3 DEF Lost
<1> QED
  BY <1>5, <1>6, <1>7, <1>8, <1>9, <1>10 DEF Ownership

LEMMA DueMore ==
  ASSUME NEW h, NEW p, NEW us, NEW X, NEW Y, Due(h, p, us, X), X \subseteq Y
  PROVE  Due(h, p, us, Y)
BY DEF Due

\* What a call has made while its arguments are converted, and before it comes back.
LEMMA ConvertFacts ==
  ASSUME Ownership, pc \in {"convert", "native", "returned"}
  PROVE  /\ World(heap, post, unms) /\ Due(heap, post, unms, {}) /\ heap \in Seq(HeapEntry)
         /\ DOMAIN heap = 1..Len(heap) /\ Len(heap) \in Nat /\ n \in Nat
         /\ DOMAIN unms = 1..Len(unms) /\ Len(unms) \in Nat /\ retUnm \in 0..Len(unms)
         /\ outcome = "none" /\ ~stale /\ (pc # "returned" => hr = "S_OK") /\ hr \in {"S_OK", "E_FAIL"}
         /\ call.via # "dispatch" /\ call.inout \in BOOLEAN
         /\ \A i \in 1..n : /\ refs[i] \in 0..Len(heap)
                            /\ Acquired(i) => Conv(i) = "DISPATCH" /\ heap[refs[i]].kind = "dispatch"
                            /\ refs[i] # 0 => \/ Conv(i) = "DISPATCH"
                                              \/ Conv(i) = "ComObject_byRef" /\ heap[refs[i]].kind = "wrapped"
         /\ ~RetJava /\ OfRet = IF Ret THEN Owned(heap, unms[retUnm]) ELSE {}
         /\ \A r : Lost(r) => heap[r].kind = "dispatched"
<1>1. World(heap, post, unms) /\ Due(heap, post, unms, {})
  BY DEF Ownership, TurnInv
<1>2. /\ DOMAIN heap = 1..Len(heap) /\ Len(heap) \in Nat /\ DOMAIN unms = 1..Len(unms) /\ Len(unms) \in Nat
      /\ heap \in Seq(HeapEntry)
  BY <1>1, WorldFacts DEF World
<1>3. /\ n \in Nat /\ retUnm \in 0..Len(unms) /\ hr \in {"S_OK", "E_FAIL"} /\ call.inout \in BOOLEAN
      /\ \A i \in 1..n : refs[i] \in 0..Len(heap)
  BY DEF Ownership, ShapeInv
<1>4. outcome = "none" /\ ~stale /\ (pc # "returned" => hr = "S_OK") /\ call.via # "dispatch"
  BY DEF Ownership, FlowInv, Before
<1>5. ~RetJava /\ OfRet = IF Ret THEN Owned(heap, unms[retUnm]) ELSE {}
  BY DEF RetJava, OfRet, Before
<1>6. \A i \in 1..n : /\ Acquired(i) => Conv(i) = "DISPATCH" /\ heap[refs[i]].kind = "dispatch"
                      /\ refs[i] # 0 => \/ Conv(i) = "DISPATCH"
                                        \/ Conv(i) = "ComObject_byRef" /\ heap[refs[i]].kind = "wrapped"
  BY DEF Ownership, RefsInv, Before
<1>7. \A r : Lost(r) => heap[r].kind = "dispatched"
  BY <1>4 DEF Lost, Lossy
<1> QED
  BY <1>1, <1>2, <1>3, <1>4, <1>5, <1>6, <1>7

LEMMA ParameterStep ==
  ASSUME Ownership, NEW c, Converting(c), Made(c)
  PROVE  Ownership'
<1> DEFINE L == Len(heap)
           m == Len(unms)
           Goes == /\ pc' = "convert" /\ outcome' = "none"
                   /\ comParamIndex' = comParamIndex + 1 /\ javaParamIndex' = javaParamIndex + 1
                   /\ retUnm' = retUnm \/ (call.inout /\ retUnm' \in 1..Len(unms'))
           Fails == pc' = "post" /\ outcome' = "ComException" /\ UNCHANGED <<comParamIndex, javaParamIndex, retUnm>>
           Stops == /\ pc' = "done" /\ outcome' = "crash" /\ UNCHANGED <<comParamIndex, javaParamIndex, retUnm>>
                    /\ UNCHANGED <<heap, post, unms>>
           One(kind) == /\ ForOut(c, kind)
                        /\ OutActs(post') = OutActs(post) \cup {Act("OutParam", {}, m + 1, javaParamIndex + 1)}
                        /\ Len(unms') = m + 1 /\ unms'[m + 1].kind = kind
                        /\ \A k \in 1..m : unms'[k] = unms[k]
           None == unms' = unms /\ OutActs(post') = OutActs(post)
<1>1. /\ pc = "convert" /\ comParamIndex <= n /\ javaParamIndex < n /\ Conv(javaParamIndex + 1) = c
      /\ UNCHANGED <<javaVars, retIndex, hr, replaced, stale>> /\ n' = n
  BY DEF Converting, Conv, javaVars, n
<1>2. /\ World(heap, post, unms) /\ Due(heap, post, unms, {}) /\ heap \in Seq(HeapEntry)
      /\ DOMAIN heap = 1..L /\ L \in Nat /\ n \in Nat
      /\ DOMAIN unms = 1..m /\ m \in Nat /\ retUnm \in 0..m
      /\ outcome = "none" /\ ~stale /\ hr = "S_OK" /\ call.via # "dispatch" /\ call.inout \in BOOLEAN
      /\ \A i \in 1..n : /\ refs[i] \in 0..L
                         /\ Acquired(i) => Conv(i) = "DISPATCH" /\ heap[refs[i]].kind = "dispatch"
                         /\ refs[i] # 0 => \/ Conv(i) = "DISPATCH"
                                           \/ Conv(i) = "ComObject_byRef" /\ heap[refs[i]].kind = "wrapped"
      /\ ~RetJava /\ OfRet = IF Ret THEN Owned(heap, unms[retUnm]) ELSE {}
      /\ \A r : Lost(r) => heap[r].kind = "dispatched"
  BY <1>1, ConvertFacts
<1>3. /\ World(heap', post', unms') /\ Due(heap', post', unms', {}) /\ L <= Len(heap')
      /\ \A r \in 1..L : heap'[r] = heap[r] /\ (Claimed(heap', post', unms', r) <=> Claimed(heap, post, unms, r))
      /\ \A r \in (L + 1)..Len(heap') :
           Fresh(heap', r) /\ heap'[r].kind \in CallKinds /\ Claimed(heap', post', unms', r)
  <2>1. Grows(heap, post, unms, heap', post', unms', 0)
    BY DEF Made
  <2>2. \A r \in (L + 1)..Len(heap') : r # 0
    BY <1>2
  <2> QED
    BY <1>2, <2>1, <2>2 DEF Grows
<1>4. Goes \/ Fails \/ Stops
  BY <1>1, <1>2 DEF Made, Ends
<1>5. None \/ \E kind : One(kind)
  BY DEF Made, OneMoreOut
<1> HIDE DEF Goes, Fails, Stops, One, None
<1>6. /\ DOMAIN heap' = 1..Len(heap') /\ Len(heap') \in Nat /\ Len(unms') \in Nat /\ m <= Len(unms')
      /\ \A k \in 1..m : unms'[k] = unms[k]
      /\ \A k \in 1..Len(unms') : k \in 1..m \/ (k = m + 1 /\ \E kind : One(kind))
      /\ OutActs(post) \subseteq OutActs(post')
      /\ heap' \in Seq(HeapEntry)
  <2>1. DOMAIN heap' = 1..Len(heap') /\ Len(heap') \in Nat /\ Len(unms') \in Nat /\ heap' \in Seq(HeapEntry)
    BY <1>3, WorldFacts DEF World
  <2>2. CASE None
    BY <1>2, <2>1, <2>2 DEF None
  <2>3. CASE \E kind : One(kind)
    BY <1>2, <2>1, <2>3 DEF One
  <2> QED
    BY <1>5, <2>2, <2>3
<1>7. /\ (Ret' <=> Ret) /\ (Ret => retUnm' = retUnm /\ retUnm \in 1..m) /\ (~call.inout => retUnm' = retUnm)
      /\ \A i : Conv(i)' = Conv(i)
  BY <1>1, <1>2, <1>4 DEF Ret, Goes, Fails, Stops, Conv, javaVars
<1>8. \A k \in 1..m : Owned(heap', unms'[k]) = Owned(heap, unms[k])
  <2>1. \A k \in 1..m : unms[k].holds \in 0..L /\ (unms[k].holds # 0 => unms[k].holds \in 1..L)
    BY <1>2 DEF World, Linked
  <2> QED
    BY <1>3, <1>6, <2>1 DEF Owned
<1>9. /\ Ret => Owned(heap, unms[retUnm]) = {unms[retUnm].self} /\ unms[retUnm].holds = 0
                /\ heap[unms[retUnm].self].kind = "retUnm" /\ unms[retUnm].self \in 1..L
  BY <1>1, <1>2, <1>7, WorldFacts DEF Ownership, RetInv, Owned
<1>10. /\ ~RetJava' /\ OfRet' = IF Goes THEN OfRet ELSE {}
  <2>1. Ret => unms'[retUnm'] = unms[retUnm]
    BY <1>6, <1>7
  <2>2. ~RetJava'
    BY <1>7, <1>9, <2>1 DEF RetJava, RetRef
  <2>3. Goes => pc' \in Before
    BY DEF Goes, Before
  <2>4. ~Goes => pc' \notin Before
    BY <1>4 DEF Fails, Stops, Before
  <2>5. Ret => Owned(heap', unms'[retUnm']) = Owned(heap, unms[retUnm])
    BY <1>7, <1>8
  <2> QED
    BY <1>2, <1>7, <2>2, <2>3, <2>4, <2>5 DEF OfRet
<1>11. \A i \in 1..n : /\ refs'[i] = refs[i] /\ (refs[i] # 0 => heap'[refs[i]] = heap[refs[i]])
                       /\ OfParam(i)' = IF Stops THEN {} ELSE OfParam(i)
                       /\ Acquired(i)' <=> Acquired(i) /\ ~Stops
  <2> SUFFICES ASSUME NEW i \in 1..n
               PROVE  /\ refs'[i] = refs[i] /\ (refs[i] # 0 => heap'[refs[i]] = heap[refs[i]])
                      /\ OfParam(i)' = IF Stops THEN {} ELSE OfParam(i)
                      /\ Acquired(i)' <=> Acquired(i) /\ ~Stops
    OBVIOUS
  <2>1. refs'[i] = refs[i] /\ (refs[i] # 0 => heap'[refs[i]] = heap[refs[i]])
    <3>1. refs[i] # 0 => refs[i] \in 1..L
      BY <1>2
    <3> QED
      BY <1>1, <1>3, <3>1 DEF javaVars
  <2>2. Acquired(i)' <=> Acquired(i) /\ ~Stops
    BY <1>1, <1>4, <1>7, <2>1 DEF Acquired, Goes, Fails, Stops
  <2> QED
    BY <2>1, <2>2 DEF OfParam
<1>12. ShapeInv'
  <2>1. \A i \in 1..n : refs'[i] \in 0..Len(heap')
    <3> SUFFICES ASSUME NEW i \in 1..n
                 PROVE  refs'[i] \in 0..Len(heap')
      OBVIOUS
    <3>1. refs'[i] = refs[i] /\ refs[i] \in 0..L
      BY <1>2, <1>11
    <3> QED
      BY <1>2, <1>3, <1>6, <3>1
  <2>2. pc' \in {"convert", "post", "done"} /\ outcome' \in {"none", "ComException", "crash"}
    BY <1>4 DEF Goes, Fails, Stops
  <2>3. comParamIndex' \in 0..(n + 1) /\ javaParamIndex' \in 0..n
    BY <1>1, <1>2, <1>4 DEF Ownership, ShapeInv, Goes, Fails, Stops
  <2>4. retUnm' \in 0..Len(unms') /\ 1..m \subseteq 1..Len(unms')
    BY <1>2, <1>4, <1>6 DEF Goes, Fails, Stops
  <2> QED
    BY <1>1, <2>1, <2>2, <2>3, <2>4 DEF Ownership, ShapeInv, javaVars
<1>13. FlowInv'
  <2>1. Ret => retIndex < comParamIndex
    BY <1>1 DEF Ownership, FlowInv
  <2>2. Goes => (Ret' => retIndex' < comParamIndex')
    BY <1>1, <1>7, <2>1 DEF Ownership, ShapeInv, Goes
  <2>3. /\ pc' \in {"convert", "post", "done"} /\ (pc' = "convert" => Goes) /\ (pc' = "convert" => outcome' = "none")
        /\ (pc' = "done" <=> outcome' = "crash")
    BY <1>4 DEF Goes, Fails, Stops
  <2> QED
    BY <1>1, <1>2, <2>2, <2>3 DEF FlowInv, Before, javaVars
<1>14. TurnInv'
  <2>1. \A X : Due(heap', post', unms', X)
    <3> SUFFICES ASSUME NEW X
                 PROVE  Due(heap', post', unms', X)
      OBVIOUS
    <3>1. {} \subseteq X
      OBVIOUS
    <3> QED
      BY <1>3, <3>1, DueMore
  <2>2. \A a \in OutActs(post') : \A r \in Claim(heap', unms', a) : heap'[r].frees = 0
    BY <1>3, OutActFacts DEF Fresh
  <2> QED
    BY <1>3, <2>1, <2>2 DEF TurnInv
<1>15. OutInv'
  <2> DEFINE o == Act("OutParam", {}, m + 1, javaParamIndex + 1)
             M == IF Goes THEN javaParamIndex + 1 ELSE n
  <2>1. /\ javaParamIndex \in Nat /\ javaParamIndex + 1 \in 1..M /\ 1..javaParamIndex \subseteq 1..M /\ M \in Nat
        /\ M = (IF pc' = "convert" THEN javaParamIndex' ELSE n') /\ 1..M \subseteq 1..n
    BY <1>1, <1>2, <1>4 DEF Ownership, ShapeInv, Goes, Fails, Stops
  <2>2. /\ \A a \in OutActs(post) : /\ a.param \in 1..javaParamIndex /\ ForOut(Conv(a.param), unms[a.unm].kind)
                                    /\ a.unm \in 1..m /\ (~call.inout => a.unm # retUnm)
        /\ \A a, b \in OutActs(post) : a # b => a.param # b.param
    BY <1>1, <1>2, OutActFacts DEF Ownership, OutInv, Outs, Conv
  <2>3. \A kind : One(kind) => o.param = javaParamIndex + 1 /\ o.unm = m + 1
    BY DEF Act
  <2> HIDE DEF o, M
  <2>4. \A a \in OutActs(post') : a \in OutActs(post) \/ (a = o /\ \E kind : One(kind))
    BY <1>5 DEF One, None, o
  <2>5. \A a \in OutActs(post') : /\ a.param \in 1..M /\ ForOut(Conv(a.param), unms'[a.unm].kind)
                                  /\ (~call.inout => a.unm # retUnm)
    <3> SUFFICES ASSUME NEW a \in OutActs(post')
                 PROVE  /\ a.param \in 1..M /\ ForOut(Conv(a.param), unms'[a.unm].kind)
                        /\ (~call.inout => a.unm # retUnm)
      OBVIOUS
    <3>1. CASE a \in OutActs(post)
      BY <1>6, <2>1, <2>2, <3>1
    <3>2. CASE a = o /\ \E kind : One(kind)
      <4>1. PICK kind : One(kind)
        BY <3>2
      <4>2. a.param = javaParamIndex + 1 /\ a.unm = m + 1
        BY <2>3, <3>2, <4>1
      <4>3. ForOut(c, kind) /\ unms'[m + 1].kind = kind
        BY <4>1 DEF One
      <4>4. m + 1 # retUnm
        BY <1>2
      <4> QED
        BY <1>1, <2>1, <4>2, <4>3, <4>4
    <3> QED
      BY <2>4, <3>1, <3>2
  <2>6. \A a, b \in OutActs(post') : a # b => a.param # b.param
    <3>1. \A a \in OutActs(post) : a.param # javaParamIndex + 1
      BY <2>1, <2>2
    <3> QED
      BY <2>2, <2>3, <2>4, <3>1
  <2>7. Outs(call.params', post', unms', IF pc' = "convert" THEN javaParamIndex' ELSE n')
    <3>1. call.params' = call.params
      BY <1>1 DEF javaVars
    <3> QED
      BY <2>1, <2>5, <2>6, <3>1 DEF Outs, Conv
  <2>8. \A i \in 1..n : Conv(i) # "DISPATCH" => ~Acquired(i)'
    BY <1>2, <1>11
  <2>9. \A a \in OutActs(post') : (pc' = "post" => ~Acquired(a.param)') /\ (~call.inout => a.unm # retUnm')
    BY <1>7, <2>1, <2>5, <2>8 DEF ForOut
  <2>10. ASSUME pc' \in Before, NEW k \in 1..Len(unms')
         PROVE  (k = retUnm' /\ ~call.inout) \/ Answers(post', k)
    <3>1. CASE k \in 1..m
      <4>1. (k = retUnm /\ ~call.inout) \/ Answers(post, k)
        BY <1>1, <3>1 DEF Ownership, OutInv, Before
      <4> QED
        BY <1>6, <1>7, <4>1 DEF Answers
    <3>2. CASE k = m + 1 /\ \E kind : One(kind)
      <4>1. o \in OutActs(post') /\ o.unm = k
        BY <2>3, <3>2 DEF One, o
      <4> QED
        BY <4>1 DEF Answers
    <3> QED
      BY <1>6, <3>1, <3>2
  <2> QED
    BY <1>1, <2>7, <2>9, <2>10 DEF OutInv, javaVars
<1>16. RetInv'
  <2>1. Ret' => /\ unms'[retUnm'] = unms[retUnm] /\ unms[retUnm].holds = 0
                /\ heap'[unms[retUnm].self] = heap[unms[retUnm].self] /\ heap[unms[retUnm].self].kind = "retUnm"
    BY <1>3, <1>6, <1>7, <1>9
  <2>2. Ret' => unms[retUnm].kind = call.retConv /\ call.retConv \in RetConvs
    BY <1>7 DEF Ownership, RetInv
  <2> QED
    BY <1>1, <1>10, <2>1, <2>2 DEF RetInv, javaVars
<1>17. RefsInv'
  <2>1. \A i \in 1..n : Acquired(i)' => Conv(i)' = "DISPATCH" /\ heap'[refs'[i]].kind = "dispatch"
    <3> SUFFICES ASSUME NEW i \in 1..n, Acquired(i)'
                 PROVE  Conv(i)' = "DISPATCH" /\ heap'[refs'[i]].kind = "dispatch"
      OBVIOUS
    <3>1. Acquired(i) /\ refs[i] # 0
      BY <1>11 DEF Acquired
    <3> QED
      BY <1>2, <1>7, <1>11, <3>1
  <2>2. \A i \in 1..n : refs'[i] # 0 => \/ Conv(i)' = "DISPATCH"
                                        \/ Conv(i)' = "ComObject_byRef" /\ heap'[refs'[i]].kind = "wrapped"
    BY <1>2, <1>7, <1>11
  <2>3. pc' # "message"
    BY <1>4 DEF Goes, Fails, Stops
  <2> QED
    BY <1>1, <2>1, <2>2, <2>3 DEF RefsInv
<1>18. ApartInv'
  <2>1. \A r \in 1..L : Loose(heap, post, unms, r) => Loose(heap', post', unms', r)
    <3>1. \A r \in 1..L : r \in 1..Len(heap')
      BY <1>2, <1>3, <1>6
    <3> QED
      BY <1>3, <1>6, <3>1 DEF Loose, Fresh
  <2>2. OfRet' \subseteq OfRet /\ \A i \in 1..n : OfParam(i)' \subseteq OfParam(i)
    BY <1>10, <1>11
  <2>3. ~call.inout =>
          /\ \A r \in OfRet : Loose(heap, post, unms, r) /\ r \in 1..L
          /\ \A i \in 1..n : \A r \in OfParam(i) :
               /\ Loose(heap, post, unms, r) /\ r \in 1..L /\ r \notin OfRet
               /\ \A j \in 1..n : i # j => r \notin OfParam(j)
    BY <1>2 DEF Ownership, ApartInv, Loose
  <2> HIDE DEF L
  <2>4. ~call.inout =>
          /\ \A r \in OfRet' : Loose(heap', post', unms', r)
          /\ \A i \in 1..n : \A r \in OfParam(i)' :
               /\ Loose(heap', post', unms', r) /\ r \notin OfRet'
               /\ \A j \in 1..n : i # j => r \notin OfParam(j)'
    BY <2>1, <2>2, <2>3
  <2> QED
    BY <1>1, <2>4 DEF ApartInv, javaVars
<1>19. \A r \in 1..Len(heap') : r \in 1..L \/ r \in (L + 1)..Len(heap')
  BY <1>2, <1>6
<1> HIDE DEF L
<1>20. KindsInv'
  <2> SUFFICES ASSUME NEW r \in 1..Len(heap')
               PROVE  /\ heap'[r].kind = "dispatched" => call.via = "dispatch"
                      /\ heap'[r].kind = "wrapped" => heap'[r].owners >= 1
    BY <1>1 DEF KindsInv, javaVars
  <2>1. CASE r \in 1..L
    BY <1>3, <2>1 DEF Ownership, KindsInv, L
  <2>2. CASE r \in (L + 1)..Len(heap')
    BY <1>3, <2>2 DEF CallKinds
  <2> QED
    BY <1>19, <2>1, <2>2
<1>21. FreedOnce' /\ NoUseAfterFree'
  <2>1. ASSUME NEW r \in 1..Len(heap'), heap'[r].frees + heap'[r].owners > 1
        PROVE  OwnedTwice(r)'
    <3>1. CASE r \in 1..L
      BY <1>1, <1>2, <1>3, <2>1, <3>1 DEF Ownership, FreedOnce, OwnedTwice, javaVars, L
    <3>2. CASE r \in (L + 1)..Len(heap')
      BY <1>3, <2>1, <3>2 DEF Fresh
    <3> QED
      BY <1>19, <3>1, <3>2
  <2> QED
    BY <1>1, <1>2, <1>6, <2>1 DEF FreedOnce, NoUseAfterFree
<1>22. CoverInv'
  <2> SUFFICES ASSUME outcome' # "crash", NEW r \in 1..Len(heap'), Fresh(heap', r)
               PROVE  Claimed(heap', post', unms', r) \/ r \in OfRet' \/ (\E i \in 1..n : r \in OfParam(i)') \/ Lost(r)'
    BY <1>1 DEF CoverInv
  <2>1. CASE r \in (L + 1)..Len(heap')
    BY <1>3, <2>1
  <2>2. CASE r \in 1..L
    <3>1. ~Stops
      BY DEF Stops
    <3>2. heap'[r] = heap[r] /\ Fresh(heap, r) /\ (Claimed(heap', post', unms', r) <=> Claimed(heap, post, unms, r))
      BY <1>3, <2>2 DEF Fresh
    <3>3. Claimed(heap, post, unms, r) \/ r \in OfRet \/ (\E i \in 1..n : r \in OfParam(i)) \/ Lost(r)
      BY <1>2, <2>2, <3>2 DEF Ownership, CoverInv, L
    <3>4. Lost(r) => Lost(r)'
      BY <1>2, <3>2 DEF Lost
    <3>5. r \in OfRet => r \in OfRet' \/ Lost(r)'
      <4>1. CASE Goes
        BY <1>10, <4>1
      <4>2. CASE Fails
        <5>1. r \in OfRet => heap'[r].kind = "retUnm"
          BY <1>2, <1>9, <3>2
        <5>2. Lossy'
          BY <1>1, <1>2, <4>2 DEF Lossy, Fails
        <5> QED
          BY <5>1, <5>2 DEF Lost
      <4> QED
        BY <1>4, <3>1, <4>1, <4>2
    <3>6. \A i \in 1..n : OfParam(i)' = OfParam(i)
      BY <1>11, <3>1
    <3> QED
      BY <3>2, <3>3, <3>4, <3>5, <3>6
  <2> QED
    BY <1>19, <2>1, <2>2
<1> QED
  BY <1>12, <1>13, <1>14, <1>15, <1>16, <1>17, <1>18, <1>20, <1>21, <1>22 DEF Ownership

\* The buffer of a return value: an unmarshaller that holds nothing yet, and that no post action deletes.
LEMMA AddedRet ==
  ASSUME NEW h, NEW p, NEW us, NEW kind, NEW val, World(h, p, us)
  PROVE  LET h2  == New(h, <<"retUnm">>)
             us2 == Append(us, Unm(kind, Len(h) + 1, 0, val))
         IN  /\ World(h2, p, us2)
             /\ \A i \in 1..Len(p) : Claim(h2, us2, p[i]) = Claim(h2, us, p[i])
             /\ \A r : Claimed(h2, p, us2, r) <=> Claimed(h2, p, us, r)
<1> DEFINE L == Len(h)
           s == L + 1
           x == 0
           h2 == New(h, <<"retUnm">>)
           u == Unm(kind, s, x, val)
           us2 == Append(us, u)
           Goal == /\ World(h2, p, us2)
                   /\ \A i \in 1..Len(p) : Claim(h2, us2, p[i]) = Claim(h2, us, p[i])
                   /\ \A r : Claimed(h2, p, us2, r) <=> Claimed(h2, p, us, r)
<1>1. L \in Nat /\ \A k \in 1..Len(us) : Owned(h, us[k]) \subseteq 1..L
  BY WorldFacts
<1>2. "retUnm" \in HeapKinds
  BY DEF HeapKinds
<1>3. /\ World(h2, p, us) /\ Len(h2) = s /\ h2[s].kind = "retUnm"
      /\ \A k \in 1..Len(us) : Owned(h2, us[k]) = Owned(h, us[k])
  BY <1>2, NewOneWorld
<1> HIDE DEF h2, Goal
<1>4. /\ s \in 1..Len(h2) /\ x \in 0..Len(h2) /\ h2[s].kind \in {"unm", "retUnm"} /\ ~(x # 0)
      /\ \A k \in 1..Len(us) : s \notin Owned(h2, us[k])
  BY <1>1, <1>3
<1> HIDE DEF s, L, x, u
<1>5. /\ World(h2, p, us2)
      /\ \A i \in 1..Len(p) : Claim(h2, us2, p[i]) = Claim(h2, us, p[i])
      /\ \A r : Claimed(h2, p, us2, r) <=> Claimed(h2, p, us, r)
  <2>1. World(h2, p, us)
    BY <1>3
  <2>2. u = Unm(kind, s, x, val) /\ us2 = With(us, u)
    BY DEF u, us2, With
  <2> QED
    BY <2>1, <2>2, <1>4, AddedUnm
<1>6. Goal
  BY <1>5 DEF Goal
<1> QED
  BY <1>6 DEF Goal, h2, us2, u, s, L, x

LEMMA ReturnBufferTaken ==
  ASSUME Ownership, ReturnBuffer, call.retConv \in RetConvs
  PROVE  Ownership'
<1> DEFINE L == Len(heap)
           m == Len(unms)
<1>1. /\ pc = "convert" /\ pc' = "convert" /\ outcome' = outcome /\ comParamIndex <= n /\ comParamIndex = retIndex
      /\ ~call.inout /\ heap' = New(heap, <<"retUnm">>) /\ unms' = Append(unms, Unm(call.retConv, L + 1, 0, NoVal))
      /\ retUnm' = m + 1 /\ comParamIndex' = comParamIndex + 1
      /\ UNCHANGED <<javaVars, javaParamIndex, retIndex, post, hr, result, replaced, stale>> /\ n' = n
  BY DEF ReturnBuffer, ReturnSlot, javaVars, n, RetConvs
<1>2. /\ World(heap, post, unms) /\ Due(heap, post, unms, {}) /\ heap \in Seq(HeapEntry)
      /\ DOMAIN heap = 1..L /\ L \in Nat /\ n \in Nat
      /\ DOMAIN unms = 1..m /\ m \in Nat /\ retUnm \in 0..m
      /\ outcome = "none" /\ ~stale /\ hr = "S_OK" /\ call.via # "dispatch" /\ call.inout \in BOOLEAN
      /\ \A i \in 1..n : /\ refs[i] \in 0..L
                         /\ Acquired(i) => Conv(i) = "DISPATCH" /\ heap[refs[i]].kind = "dispatch"
                         /\ refs[i] # 0 => \/ Conv(i) = "DISPATCH"
                                           \/ Conv(i) = "ComObject_byRef" /\ heap[refs[i]].kind = "wrapped"
      /\ ~RetJava /\ OfRet = IF Ret THEN Owned(heap, unms[retUnm]) ELSE {}
      /\ \A r : Lost(r) => heap[r].kind = "dispatched"
  BY <1>1, ConvertFacts
<1>3. retUnm = 0 /\ OfRet = {}
  <2>1. ~Ret
    BY <1>1 DEF Ownership, FlowInv, ShapeInv
  <2> QED
    BY <1>1, <1>2, <2>1 DEF Ret
<1>4. /\ World(heap', post, unms) /\ Len(heap') = L + 1 /\ \A r \in 1..L : heap'[r] = heap[r]
      /\ heap'[L + 1].kind = "retUnm" /\ Fresh(heap', L + 1)
      /\ \A k \in 1..m : Owned(heap', unms[k]) = Owned(heap, unms[k])
      /\ \A r : Claimed(heap', post, unms, r) <=> Claimed(heap, post, unms, r)
      /\ Due(heap', post, unms, {})
  <2> DEFINE h2 == New(heap, <<"retUnm">>)
  <2>1. "retUnm" \in HeapKinds
    BY DEF HeapKinds
  <2>2. /\ World(h2, post, unms) /\ Len(h2) = L + 1 /\ \A r \in 1..L : h2[r] = heap[r]
        /\ h2[L + 1].kind = "retUnm" /\ Fresh(h2, L + 1)
        /\ \A k \in 1..m : Owned(h2, unms[k]) = Owned(heap, unms[k])
        /\ \A r : Claimed(h2, post, unms, r) <=> Claimed(heap, post, unms, r)
        /\ Due(h2, post, unms, {})
    <3>1. World(heap, post, unms) /\ Due(heap, post, unms, {})
      BY <1>2
    <3> QED
      BY <2>1, <3>1, NewOneWorld
  <2>3. heap' = h2
    BY <1>1
  <2> HIDE DEF h2
  <2> QED
    BY <2>2, <2>3
<1>5. /\ Len(unms') = m + 1 /\ unms'[m + 1] = Unm(call.retConv, L + 1, 0, NoVal)
      /\ \A k \in 1..m : unms'[k] = unms[k]
  BY <1>1, <1>2, MoreUnms DEF World
<1>6. \A k \in 1..m : Owned(heap, unms[k]) \subseteq 1..L
  BY <1>2, WorldFacts
<1>7. /\ World(heap', post, unms')
      /\ \A i \in 1..Len(post) : Claim(heap', unms', post[i]) = Claim(heap', unms, post[i])
      /\ \A r : Claimed(heap', post, unms', r) <=> Claimed(heap', post, unms, r)
  <2> DEFINE h2 == New(heap, <<"retUnm">>)
             us2 == Append(unms, Unm(call.retConv, Len(heap) + 1, 0, NoVal))
             Goal(h, us) == /\ World(h, post, us)
                            /\ \A i \in 1..Len(post) : Claim(h, us, post[i]) = Claim(h, unms, post[i])
                            /\ \A r : Claimed(h, post, us, r) <=> Claimed(h, post, unms, r)
  <2>1. World(heap, post, unms)
    BY <1>2
  <2>2. Goal(h2, us2)
    BY <2>1, AddedRet
  <2>3. heap' = h2 /\ unms' = us2
    BY <1>1
  <2> HIDE DEF h2, us2, Goal
  <2>4. Goal(heap', unms')
    BY <2>2, <2>3
  <2> QED
    BY <2>4 DEF Goal
<1> DEFINE u == unms'[m + 1]
<1>8. u.kind = call.retConv /\ u.self = L + 1 /\ u.holds = 0
  BY <1>5 DEF Unm
<1> HIDE DEF L, u
<1>9. /\ Ret' /\ ~RetJava' /\ OfRet' = {L + 1} /\ \A i : Conv(i)' = Conv(i)
      /\ \A r \in 1..L : heap'[r] = heap[r] /\ r # L + 1 /\ r \in 1..Len(heap')
                         /\ (Claimed(heap', post', unms', r) <=> Claimed(heap, post, unms, r))
      /\ DOMAIN heap' = 1..Len(heap') /\ Len(heap') = L + 1 /\ ~Claimed(heap, post, unms, L + 1)
      /\ \A r \in 1..Len(heap') : r \in 1..L \/ r = L + 1
  <2>1. Ret' /\ ~RetJava'
    BY <1>1, <1>2 DEF Ret, RetJava, javaVars
  <2>2. Owned(heap', u) = {L + 1}
    BY <1>8 DEF Owned
  <2>3. OfRet' = {L + 1}
    BY <1>1, <2>1, <2>2 DEF OfRet, Before, u
  <2>4. DOMAIN heap' = 1..Len(heap')
    BY <1>7, WorldFacts
  <2>5. ~Claimed(heap, post, unms, L + 1)
    BY <1>2, WorldFacts DEF L
  <2>6. \A i : Conv(i)' = Conv(i)
    BY <1>1 DEF Conv, javaVars
  <2> QED
    BY <1>1, <1>2, <1>4, <1>7, <2>1, <2>3, <2>4, <2>5, <2>6 DEF L
<1>10. \A i \in 1..n : /\ refs'[i] = refs[i] /\ (refs[i] # 0 => heap'[refs[i]] = heap[refs[i]] /\ refs[i] \in 1..L)
                       /\ OfParam(i)' = OfParam(i) /\ (Acquired(i)' <=> Acquired(i))
  <2> SUFFICES ASSUME NEW i \in 1..n
               PROVE  /\ refs'[i] = refs[i] /\ (refs[i] # 0 => heap'[refs[i]] = heap[refs[i]] /\ refs[i] \in 1..L)
                      /\ OfParam(i)' = OfParam(i) /\ (Acquired(i)' <=> Acquired(i))
    OBVIOUS
  <2>1. refs'[i] = refs[i] /\ (refs[i] # 0 => heap'[refs[i]] = heap[refs[i]] /\ refs[i] \in 1..L)
    BY <1>1, <1>2, <1>4 DEF javaVars, L
  <2>2. Acquired(i)' <=> Acquired(i)
    BY <1>1, <1>9, <2>1 DEF Acquired
  <2> QED
    BY <2>1, <2>2 DEF OfParam
<1>11. ShapeInv'
  <2>1. \A i \in 1..n : refs'[i] \in 0..Len(heap')
    BY <1>2, <1>9, <1>10
  <2>2. comParamIndex' \in 0..(n + 1) /\ retUnm' \in 0..Len(unms') /\ 1..m \subseteq 1..Len(unms')
    BY <1>1, <1>2, <1>5 DEF Ownership, ShapeInv
  <2> QED
    BY <1>1, <2>1, <2>2 DEF Ownership, ShapeInv, javaVars
<1>12. FlowInv'
  <2>1. retIndex' < comParamIndex'
    BY <1>1 DEF Ownership, ShapeInv
  <2> QED
    BY <1>1, <1>2, <2>1 DEF FlowInv, Before, javaVars
<1>13. TurnInv'
  <2>1. Due(heap', post, unms', {})
    BY <1>4, <1>7 DEF Due, World
  <2> QED
    BY <1>1, <1>7, <2>1 DEF TurnInv
<1>14. OutInv'
  <2>1. \A a \in OutActs(post) : a.unm \in 1..m /\ unms'[a.unm] = unms[a.unm]
    BY <1>2, <1>5, OutActFacts
  <2>2. Outs(call.params, post, unms', javaParamIndex)
    BY <1>1, <2>1 DEF Ownership, OutInv, Outs
  <2>3. \A k \in 1..Len(unms') : k = retUnm' \/ Answers(post, k)
    BY <1>1, <1>2, <1>3, <1>5 DEF Ownership, OutInv, Before
  <2>4. \A a \in OutActs(post) : a.unm # retUnm'
    BY <1>1, <1>2, <2>1
  <2> QED
    BY <1>1, <2>2, <2>3, <2>4 DEF OutInv, javaVars
<1>15. RetInv'
  BY <1>1, <1>4, <1>8, <1>9 DEF RetInv, u, javaVars
<1>16. RefsInv'
  <2>1. \A i \in 1..n : Acquired(i)' => Conv(i)' = "DISPATCH" /\ heap'[refs'[i]].kind = "dispatch"
    BY <1>2, <1>9, <1>10 DEF Acquired
  <2>2. \A i \in 1..n : refs'[i] # 0 => \/ Conv(i)' = "DISPATCH"
                                        \/ Conv(i)' = "ComObject_byRef" /\ heap'[refs'[i]].kind = "wrapped"
    BY <1>2, <1>9, <1>10
  <2> QED
    BY <1>1, <2>1, <2>2 DEF RefsInv
<1>17. ApartInv'
  <2>1. \A r \in 1..L : Loose(heap, post, unms, r) => Loose(heap', post', unms', r)
    BY <1>9 DEF Loose, Fresh
  <2>2. Loose(heap', post', unms', L + 1)
    BY <1>1, <1>2, <1>4, <1>7, <1>9 DEF Loose, L
  <2>3. \A i \in 1..n : \A r \in OfParam(i) :
          Loose(heap, post, unms, r) /\ r \in 1..L /\ \A j \in 1..n : i # j => r \notin OfParam(j)
    BY <1>1, <1>2 DEF Ownership, ApartInv, Loose, L
  <2> QED
    BY <1>1, <1>9, <1>10, <2>1, <2>2, <2>3 DEF ApartInv
<1>18. KindsInv'
  <2> SUFFICES ASSUME NEW r \in 1..Len(heap')
               PROVE  /\ heap'[r].kind = "dispatched" => call.via = "dispatch"
                      /\ heap'[r].kind = "wrapped" => heap'[r].owners >= 1
    BY <1>1 DEF KindsInv, javaVars
  <2>1. CASE r \in 1..L
    BY <1>9, <2>1 DEF Ownership, KindsInv, L
  <2>2. CASE r = L + 1
    BY <1>4, <2>2 DEF L
  <2> QED
    BY <1>9, <2>1, <2>2
<1>19. FreedOnce' /\ NoUseAfterFree'
  <2>1. ASSUME NEW r \in 1..Len(heap'), heap'[r].frees + heap'[r].owners > 1
        PROVE  OwnedTwice(r)'
    <3>1. CASE r \in 1..L
      BY <1>1, <1>2, <1>9, <2>1, <3>1 DEF Ownership, FreedOnce, OwnedTwice, javaVars, L
    <3>2. CASE r = L + 1
      BY <1>4, <2>1, <3>2 DEF Fresh, L
    <3> QED
      BY <1>9, <3>1, <3>2
  <2> QED
    BY <1>1, <1>2, <1>9, <2>1 DEF FreedOnce, NoUseAfterFree
<1>20. CoverInv'
  <2> SUFFICES ASSUME NEW r \in 1..Len(heap'), Fresh(heap', r)
               PROVE  Claimed(heap', post', unms', r) \/ r \in OfRet' \/ (\E i \in 1..n : r \in OfParam(i)') \/ Lost(r)'
    BY <1>1 DEF CoverInv
  <2>1. CASE r = L + 1
    BY <1>9, <2>1
  <2>2. CASE r \in 1..L
    <3>1. heap'[r] = heap[r] /\ Fresh(heap, r) /\ (Claimed(heap', post', unms', r) <=> Claimed(heap, post, unms, r))
      BY <1>9, <2>2 DEF Fresh
    <3>2. Claimed(heap, post, unms, r) \/ (\E i \in 1..n : r \in OfParam(i)) \/ Lost(r)
      BY <1>2, <1>3, <2>2, <3>1 DEF Ownership, CoverInv, L
    <3>3. Lost(r) => Lost(r)'
      BY <1>2, <3>1 DEF Lost
    <3> QED
      BY <1>10, <3>1, <3>2, <3>3
  <2> QED
    BY <1>9, <2>1, <2>2
<1> QED
  BY <1>11, <1>12, <1>13, <1>14, <1>15, <1>16, <1>17, <1>18, <1>19, <1>20 DEF Ownership

LEMMA ReturnBufferStep ==
  ASSUME Ownership, ReturnBuffer
  PROVE  Ownership'
<1>1. CASE call.retConv \in RetConvs
  BY <1>1, ReturnBufferTaken
<1>2. CASE call.retConv = "HRESULT"
  <2>1. /\ pc = "convert" /\ pc' = pc /\ retIndex' = -1
        /\ UNCHANGED <<outcome, heap, unms, comParamIndex, javaParamIndex, retUnm>>
        /\ UNCHANGED <<javaVars, post, hr, result, replaced, stale>>
    BY <1>2 DEF ReturnBuffer, RetConvs
  <2>2. comParamIndex' \in 0..(n + 1) /\ comParamIndex' >= comParamIndex
    BY <2>1 DEF Ownership, ShapeInv
  <2> QED
    BY <2>1, <2>2, QuietStep DEF endVars
<1>3. CASE call.retConv \notin RetConvs \cup {"HRESULT"}
  <2>1. /\ pc = "convert" /\ pc' = "post" /\ outcome' = "ComException" /\ n' = n
        /\ UNCHANGED <<heap, unms, comParamIndex, javaParamIndex, retUnm, retIndex>>
        /\ UNCHANGED <<javaVars, post, hr, result, replaced, stale>>
    BY <1>3 DEF ReturnBuffer, Fail, n, javaVars
  <2>2. /\ Due(heap, post, unms, {}) /\ World(heap, post, unms) /\ n \in Nat
        /\ outcome = "none" /\ ~stale /\ hr = "S_OK" /\ call.via # "dispatch"
        /\ \A i \in 1..n : Acquired(i) => Conv(i) = "DISPATCH" /\ heap[refs[i]].kind = "dispatch"
        /\ OfRet = IF Ret THEN Owned(heap, unms[retUnm]) ELSE {}
        /\ \A r : Lost(r) => heap[r].kind = "dispatched"
    BY <2>1, ConvertFacts
  <2>3. ~Ret
    BY <2>1 DEF ReturnBuffer, ReturnSlot, Ownership, FlowInv, ShapeInv
  <2>4. /\ ~Ret' /\ ~RetJava' /\ OfRet = {} /\ OfRet' = {}
        /\ \A i : Conv(i)' = Conv(i) /\ (Acquired(i)' <=> Acquired(i)) /\ OfParam(i)' = OfParam(i)
    BY <2>1, <2>2, <2>3 DEF Ret, RetJava, OfRet, Conv, Acquired, OfParam, javaVars
  <2>5. ShapeInv'
    BY <2>1 DEF Ownership, ShapeInv, javaVars
  <2>6. FlowInv'
    BY <2>1, <2>2 DEF FlowInv, Before, javaVars
  <2>7. TurnInv'
    <3>1. \A X : Due(heap, post, unms, X)
      <4> SUFFICES ASSUME NEW X
                   PROVE  Due(heap, post, unms, X)
        OBVIOUS
      <4>1. {} \subseteq X
        OBVIOUS
      <4> QED
        BY <2>2, <4>1, DueMore
    <3>2. \A a \in OutActs(post) : \A r \in Claim(heap, unms, a) : heap[r].frees = 0
      BY <2>2, OutActFacts DEF Fresh
    <3> QED
      BY <2>1, <2>2, <3>1, <3>2 DEF TurnInv
  <2>8. OutInv'
    <3>1. /\ \A a \in OutActs(post) : a.param \in 1..n /\ ForOut(Conv(a.param), unms[a.unm].kind)
          /\ \A a, b \in OutActs(post) : a # b => a.param # b.param
      BY <2>1 DEF Ownership, OutInv, Outs, ShapeInv, Conv
    <3>2. \A a \in OutActs(post) : ~Acquired(a.param)
      BY <2>2, <3>1 DEF ForOut
    <3>3. \A a \in OutActs(post) : ~call.inout => a.unm # retUnm
      BY DEF Ownership, OutInv
    <3> QED
      BY <2>1, <2>4, <3>1, <3>2, <3>3 DEF OutInv, Outs, Before, Conv, javaVars
  <2>9. RetInv' /\ RefsInv'
    <3>1. RetInv'
      BY <2>4 DEF RetInv
    <3>2. \A i \in 1..n : Acquired(i)' => Conv(i)' = "DISPATCH" /\ heap'[refs'[i]].kind = "dispatch"
      BY <2>1, <2>2, <2>4 DEF javaVars
    <3> QED
      BY <2>1, <3>1, <3>2 DEF RefsInv, Before
  <2>10. ApartInv'
    <3>1. ~call.inout => \A i \in 1..n : \A r \in OfParam(i) :
            Loose(heap, post, unms, r) /\ \A j \in 1..n : i # j => r \notin OfParam(j)
      BY DEF Ownership, ApartInv
    <3> QED
      BY <2>1, <2>4, <3>1 DEF ApartInv, javaVars
  <2>11. KindsInv' /\ FreedOnce' /\ NoUseAfterFree'
    BY <2>1, <2>2 DEF Ownership, KindsInv, FreedOnce, NoUseAfterFree, OwnedTwice, javaVars
  <2>12. CoverInv'
    <3>1. \A r : Lost(r) => Lost(r)'
      BY <2>1, <2>2 DEF Lost
    <3> QED
      BY <2>1, <2>2, <2>4, <3>1 DEF Ownership, CoverInv
  <2> QED
    BY <2>5, <2>6, <2>7, <2>8, <2>9, <2>10, <2>11, <2>12 DEF Ownership
<1> QED
  BY <1>1, <1>2, <1>3

-----------------------------------------------------------------------------
(* An unmarshaller receives a value: what it held is freed, and it may     *)
(* hold something new.                                                     *)

ReceivedHeap(h, p, us, y, h2, x) ==
  /\ World(h2, p, us)
  /\ IF x = 0 THEN Len(h2) = Len(h)
     ELSE x = Len(h) + 1 /\ Len(h2) = Len(h) + 1 /\ h2[x].kind = "given" /\ Fresh(h2, x)
  /\ \A r \in 1..Len(h) : /\ h2[r].kind = h[r].kind /\ h2[r].owners = h[r].owners
                          /\ h2[r].frees = IF r = y THEN h[r].frees + 1 ELSE h[r].frees
  /\ \A l \in 1..Len(us) : Owned(h2, us[l]) = Owned(h, us[l])
  /\ \A i \in 1..Len(p) : Claim(h2, us, p[i]) = Claim(h, us, p[i])
  /\ \A r : Claimed(h2, p, us, r) <=> Claimed(h, p, us, r)

LEMMA GivenWorld ==
  ASSUME NEW h, NEW p, NEW us
  PROVE  LET h2 == New(h, <<"given">>) IN
         World(h, p, us) =>
         /\ World(h2, p, us) /\ Len(h2) = Len(h) + 1 /\ \A r \in 1..Len(h) : h2[r] = h[r]
         /\ h2[Len(h) + 1].kind = "given" /\ Fresh(h2, Len(h) + 1)
         /\ \A l \in 1..Len(us) : Owned(h2, us[l]) = Owned(h, us[l])
         /\ \A i \in 1..Len(p) : Claim(h2, us, p[i]) = Claim(h, us, p[i])
         /\ \A r : Claimed(h2, p, us, r) <=> Claimed(h, p, us, r)
<1>1. "given" \in HeapKinds
  BY DEF HeapKinds
<1> QED
  BY <1>1, NewOneWorld

LEMMA ReceivedInHeap ==
  ASSUME NEW h, NEW p, NEW us, World(h, p, us), NEW y \in 0..Len(h), NEW ks \in {<<>>, <<"given">>}
  PROVE  ReceivedHeap(h, p, us, y, New(Free(h, y), ks), IF ks = <<>> THEN 0 ELSE Len(Free(h, y)) + 1)
<1> DEFINE h1 == Free(h, y)
<1>1. h \in Seq(HeapEntry)
  BY DEF World
<1>2. /\ h1 \in Seq(HeapEntry) /\ Len(h1) = Len(h) /\ Spent(h, h1, {y})
      /\ \A r \in 1..Len(h) :
           /\ h1[r].kind = h[r].kind /\ h1[r].owners = h[r].owners
           /\ h1[r].frees = IF r = y THEN h[r].frees + 1 ELSE h[r].frees
  <2>1. h1 = FreeAll(h, {y})
    BY DEF Free
  <2>2. /\ FreeAll(h, {y}) \in Seq(HeapEntry) /\ Len(FreeAll(h, {y})) = Len(h) /\ Spent(h, FreeAll(h, {y}), {y})
        /\ \A r \in 1..Len(h) :
             /\ FreeAll(h, {y})[r].kind = h[r].kind /\ FreeAll(h, {y})[r].owners = h[r].owners
             /\ FreeAll(h, {y})[r].frees = IF r \in {y} THEN h[r].frees + 1 ELSE h[r].frees
    BY <1>1, FreeAllHeap, SpentFree
  <2> HIDE DEF h1
  <2>3. \A r : r \in {y} <=> r = y
    OBVIOUS
  <2> QED
    BY <2>1, <2>2, <2>3
<1> HIDE DEF h1
<1>3. /\ World(h1, p, us)
      /\ \A l \in 1..Len(us) : Owned(h1, us[l]) = Owned(h, us[l])
      /\ \A i \in 1..Len(p) : Claim(h1, us, p[i]) = Claim(h, us, p[i])
      /\ \A r : Claimed(h1, p, us, r) <=> Claimed(h, p, us, r)
  <2>1. Spent(h, h1, {y})
    BY <1>2
  <2> QED
    BY <2>1, SpentWorld
<1>4. CASE ks = <<>>
  <2>1. New(h1, ks) = h1
    BY <1>2, <1>4, NewNone
  <2>2. ReceivedHeap(h, p, us, y, h1, 0)
    BY <1>2, <1>3 DEF ReceivedHeap
  <2> QED
    BY <1>4, <2>1, <2>2 DEF h1
<1>5. CASE ks = <<"given">>
  <2> DEFINE h2 == New(h1, <<"given">>)
  <2>2. /\ World(h2, p, us) /\ Len(h2) = Len(h1) + 1 /\ \A r \in 1..Len(h1) : h2[r] = h1[r]
        /\ h2[Len(h1) + 1].kind = "given" /\ Fresh(h2, Len(h1) + 1)
        /\ \A l \in 1..Len(us) : Owned(h2, us[l]) = Owned(h1, us[l])
        /\ \A i \in 1..Len(p) : Claim(h2, us, p[i]) = Claim(h1, us, p[i])
        /\ \A r : Claimed(h2, p, us, r) <=> Claimed(h1, p, us, r)
    <3>1. World(h1, p, us)
      BY <1>3
    <3> QED
      BY <3>1, GivenWorld
  <2> HIDE DEF h2
  <2>3. Len(h) + 1 # 0 /\ Len(h) \in Nat
    BY <1>1
  <2>4. ReceivedHeap(h, p, us, y, h2, Len(h) + 1)
    BY <1>2, <1>3, <2>2, <2>3 DEF ReceivedHeap
  <2>5. ks # <<>>
    BY <1>5
  <2> QED
    BY <1>2, <1>5, <2>4, <2>5 DEF h1, h2
<1> QED
  BY <1>4, <1>5

\* The worlds before and after, for unmarshaller k.
ReceivedWorld(h, p, us, k, h2, us2, x) ==
  /\ World(h2, p, us2) /\ Len(us2) = Len(us)
  /\ us2[k].kind = us[k].kind /\ us2[k].self = us[k].self /\ us2[k].holds = x
  /\ \A l \in 1..Len(us) : l # k => us2[l] = us[l] /\ Owned(h2, us2[l]) = Owned(h, us[l])
  /\ Owned(h2, us2[k]) = {us[k].self} \cup ({x} \ {0})
  /\ IF x = 0 THEN Len(h2) = Len(h)
     ELSE /\ x = Len(h) + 1 /\ Len(h2) = Len(h) + 1 /\ h2[x].kind = "given" /\ Fresh(h2, x)
          /\ Claimed(h2, p, us2, x) <=> Answers(p, k)
  /\ \A r \in 1..Len(h) : /\ h2[r].kind = h[r].kind /\ h2[r].owners = h[r].owners
                          /\ h2[r].frees = IF r = us[k].holds THEN h[r].frees + 1 ELSE h[r].frees
                          /\ Claimed(h2, p, us2, r) => Claimed(h, p, us, r)
                          /\ Claimed(h, p, us, r) => Claimed(h2, p, us2, r) \/ r = us[k].holds

LEMMA ReceivedByUnm ==
  ASSUME NEW h, NEW p, NEW us, World(h, p, us), NEW k \in 1..Len(us), NEW h2, NEW x, NEW v,
         ReceivedHeap(h, p, us, us[k].holds, h2, x),
         x # 0 => Fits(Unm(us[k].kind, us[k].self, x, v), "given")
  PROVE  LET us2 == [us EXCEPT ![k] = Unm(us[k].kind, us[k].self, x, v)] IN
         /\ ReceivedWorld(h, p, us, k, h2, us2, x) /\ us2[k].val = v
         /\ us[k].holds = 0 \/ Answers(p, k) => (Due(h, p, us, {}) => Due(h2, p, us2, {}))
<1> DEFINE us2 == [us EXCEPT ![k] = Unm(us[k].kind, us[k].self, x, v)]
           y == us[k].holds
<1>1. /\ DOMAIN h = 1..Len(h) /\ Len(h) \in Nat /\ DOMAIN p = 1..Len(p) /\ DOMAIN us = 1..Len(us) /\ Len(us) \in Nat
      /\ us[k].self \in 1..Len(h)
      /\ \A l \in 1..Len(us) : Owned(h, us[l]) \subseteq 1..Len(h)
      /\ \A i \in 1..Len(p) : Claim(h, us, p[i]) \subseteq 1..Len(h)
      /\ \A i \in 1..Len(p) : \A r \in Claim(h, us, p[i]) : h[r].kind # "wrapped"
      /\ \A r : Claimed(h, p, us, r) => r \in 1..Len(h)
  BY WorldFacts
<1>2. /\ World(h2, p, us)
      /\ IF x = 0 THEN Len(h2) = Len(h)
         ELSE x = Len(h) + 1 /\ Len(h2) = Len(h) + 1 /\ h2[x].kind = "given" /\ Fresh(h2, x)
      /\ \A r \in 1..Len(h) : /\ h2[r].kind = h[r].kind /\ h2[r].owners = h[r].owners
                              /\ h2[r].frees = IF r = y THEN h[r].frees + 1 ELSE h[r].frees
      /\ \A l \in 1..Len(us) : Owned(h2, us[l]) = Owned(h, us[l])
      /\ \A i \in 1..Len(p) : Claim(h2, us, p[i]) = Claim(h, us, p[i])
      /\ \A r : Claimed(h2, p, us, r) <=> Claimed(h, p, us, r)
  BY DEF ReceivedHeap
<1>3. x \in 0..Len(h2) /\ (x # 0 => x \notin 1..Len(h))
  BY <1>1, <1>2
<1>4. x # 0 => /\ Fits(Unm(us[k].kind, us[k].self, x, v), h2[x].kind) /\ h2[x].kind # "wrapped"
               /\ ~Claimed(h2, p, us, x) /\ \A l \in 1..Len(us) : x \notin Owned(h2, us[l])
  BY <1>1, <1>2, <1>3
<1>5. /\ World(h2, p, us2) /\ Len(us2) = Len(us) /\ us2[k] = Unm(us[k].kind, us[k].self, x, v)
      /\ \A l \in 1..Len(us) : l # k => us2[l] = us[l]
      /\ Owned(h2, us2[k]) = {us[k].self} \cup ({x} \ {0})
      /\ \A i \in 1..Len(p) : Claim(h2, us2, p[i]) =
           IF IsOut(p[i]) /\ p[i].unm = k THEN {us[k].self} \cup ({x} \ {0}) ELSE Claim(h2, us, p[i])
      /\ \A r : Claimed(h2, p, us2, r) /\ r # x => Claimed(h2, p, us, r)
  <2>1. World(h2, p, us)
    BY <1>2
  <2> QED
    BY <1>3, <1>4, <2>1, ReplacedUnm
<1>6. us2[k].kind = us[k].kind /\ us2[k].self = us[k].self /\ us2[k].holds = x /\ us2[k].val = v
  BY <1>5 DEF Unm
<1> HIDE DEF us2
<1>7. \A i \in 1..Len(p) : Claim(h2, us2, p[i]) =
        IF IsOut(p[i]) /\ p[i].unm = k THEN {us[k].self} \cup ({x} \ {0}) ELSE Claim(h, us, p[i])
  BY <1>2, <1>5
<1>8. /\ Owned(h, us[k]) = {us[k].self} \cup {r \in {y} \ {0} : h[r].kind # "wrapped"}
      /\ \A i \in 1..Len(p) : IsOut(p[i]) /\ p[i].unm = k => Claim(h, us, p[i]) = Owned(h, us[k])
  BY DEF Owned, Claim
<1>9. Answers(p, k) <=> \E i \in 1..Len(p) : IsOut(p[i]) /\ p[i].unm = k
  BY DEF Answers, OutActs
<1>10. y # us[k].self
  BY UnmFacts
<1>11. ReceivedWorld(h, p, us, k, h2, us2, x)
  <2>1. x # 0 => (Claimed(h2, p, us2, x) <=> Answers(p, k))
    <3> SUFFICES ASSUME x # 0
                 PROVE  Claimed(h2, p, us2, x) <=> Answers(p, k)
      OBVIOUS
    <3>1. Claimed(h2, p, us2, x) <=> \E i \in 1..Len(p) : x \in Claim(h2, us2, p[i])
      BY <1>1 DEF Claimed
    <3>2. \A i \in 1..Len(p) : x \in Claim(h2, us2, p[i]) <=> IsOut(p[i]) /\ p[i].unm = k
      BY <1>1, <1>3, <1>7
    <3> QED
      BY <1>9, <3>1, <3>2
  <2>2. ASSUME NEW r \in 1..Len(h), Claimed(h, p, us, r), r # y
        PROVE  Claimed(h2, p, us2, r)
    <3>1. PICK i \in 1..Len(p) : r \in Claim(h, us, p[i])
      BY <1>1, <2>2 DEF Claimed
    <3>2. r \in Claim(h2, us2, p[i])
      BY <1>7, <1>8, <2>2, <3>1
    <3> QED
      BY <1>1, <3>2 DEF Claimed
  <2>3. \A r \in 1..Len(h) : Claimed(h2, p, us2, r) => Claimed(h, p, us, r)
    BY <1>2, <1>3, <1>5
  <2>4. \A l \in 1..Len(us) : l # k => us2[l] = us[l] /\ Owned(h2, us2[l]) = Owned(h, us[l])
    BY <1>2, <1>5
  <2> QED
    BY <1>2, <1>5, <1>6, <2>1, <2>2, <2>3, <2>4 DEF ReceivedWorld, y
<1>12. ASSUME y = 0 \/ Answers(p, k), Due(h, p, us, {})
       PROVE  Due(h2, p, us2, {})
  <2> SUFFICES ASSUME NEW i \in 1..Len(p), NEW r \in Claim(h2, us2, p[i]),
                      ~Fresh(h2, r)
               PROVE  ~IsOut(p[i]) /\ h2[r].kind = "heldBstr"
    BY <1>1 DEF Due
  <2>1. r # x
    <3>1. x = 0 => r # x
      BY <1>1, <1>7
    <3> QED
      BY <1>2, <3>1
  <2>2. r \in Claim(h, us, p[i]) /\ r \in 1..Len(h)
    BY <1>1, <1>7, <1>8, <2>1
  <2>3. CASE r # y
    <3>1. ~Fresh(h, r)
      BY <1>2, <2>2, <2>3 DEF Fresh
    <3>2. IF IsOut(p[i]) THEN p[i].unm \in {} ELSE h[r].kind = "heldBstr"
      BY <1>1, <1>12, <2>2, <3>1 DEF Due
    <3> QED
      BY <1>2, <2>2, <3>2
  <2>4. CASE r = y
    <3>1. PICK j \in 1..Len(p) : IsOut(p[j]) /\ p[j].unm = k
      BY <1>1, <1>9, <1>12, <2>2, <2>4
    <3>2. ~(IsOut(p[i]) /\ p[i].unm = k)
      BY <1>1, <1>7, <1>10, <2>1, <2>4
    <3>3. i # j /\ r \in Claim(h, us, p[j])
      <4>1. r # 0 /\ h[r].kind # "wrapped"
        BY <1>1, <2>2
      <4> QED
        BY <1>8, <2>4, <3>1, <3>2, <4>1
    <3>4. \A a, b \in 1..Len(p) : a < b => \A q \in Claim(h, us, p[a]) \cap Claim(h, us, p[b]) :
            h[q].kind = "heldBstr" /\ IsOut(p[a]) /\ ~IsOut(p[b])
      BY <1>1 DEF World, Stacked
    <3>5. i < j \/ j < i
      BY <3>3
    <3>6. h[r].kind = "heldBstr" /\ ~IsOut(p[i])
      BY <2>2, <3>1, <3>3, <3>4, <3>5
    <3> QED
      BY <1>2, <2>2, <3>6
  <2> QED
    BY <2>3, <2>4
<1> QED
  BY <1>6, <1>11, <1>12 DEF us2, y

LEMMA ObjectIsNotNull == \A v : Java("Com4jObject", v) # Null
<1> SUFFICES ASSUME NEW v
             PROVE  Java("Com4jObject", v) # Null
  OBVIOUS
<1>1. Java("Com4jObject", v).cls = "Com4jObject" /\ Null.cls = "null"
  BY DEF Java, Null
<1> QED
  BY <1>1

GivesFor(u, r) ==
  /\ r[2] \in {<<>>, <<"given">>}
  /\ r[2] # <<>> => \A x : Fits(Unm(u.kind, u.self, x, r[1]), "given")

LEMMA ReplacementsFit ==
  ASSUME NEW u, NEW r \in Replacements(u)
  PROVE  GivesFor(u, r)
<1>1. \A x, v : LET w == Unm(u.kind, u.self, x, v) IN w.kind = u.kind /\ w.val = v
  BY DEF Unm
<1>2. \A v, e : LET q == <<v, e>> IN q[1] = v /\ q[2] = e
  OBVIOUS
<1>3. CASE u.kind \in Clearing
  <2>1. \A x, v : Fits(Unm(u.kind, u.self, x, v), "given")
    BY <1>1, <1>3 DEF Fits
  <2>2. r[2] \in {<<>>, <<"given">>}
    BY <1>2, <1>3 DEF Replacements, Clearing
  <2> QED
    BY <2>1, <2>2 DEF GivesFor
<1>4. CASE u.kind = "ComObject_byRef"
  <2>1. r = <<Null, <<>> >> \/ r = <<Java("Com4jObject", <<1>>), <<"given">> >>
    BY <1>4 DEF Replacements
  <2>2. r[2] = <<>> \/ (r[2] = <<"given">> /\ r[1] # Null)
    BY <1>2, <2>1, ObjectIsNotNull
  <2>3. r[1] # Null => \A x : Fits(Unm(u.kind, u.self, x, r[1]), "given")
    BY <1>1, <1>4 DEF Fits
  <2> QED
    BY <2>2, <2>3 DEF GivesFor
<1>5. CASE u.kind \notin Clearing \cup {"ComObject_byRef"}
  <2>1. r = <<Java(u.val.cls, <<9>>), <<>> >>
    BY <1>5 DEF Replacements, Clearing
  <2>2. r[2] = <<>>
    BY <1>2, <2>1
  <2> QED
    BY <2>2 DEF GivesFor
<1> QED
  BY <1>3, <1>4, <1>5

LEMMA ReturnsFit ==
  ASSUME NEW u, NEW r \in Returns(u)
  PROVE  GivesFor(u, r)
<1>1. \A x, v : LET w == Unm(u.kind, u.self, x, v) IN w.kind = u.kind /\ w.val = v
  BY DEF Unm
<1>2. \A v, e : LET q == <<v, e>> IN q[1] = v /\ q[2] = e
  OBVIOUS
<1>3. CASE u.kind \in Clearing
  <2>1. r \in Replacements(u)
    BY <1>3 DEF Returns, Clearing
  <2> QED
    BY <2>1, ReplacementsFit
<1>4. CASE u.kind \in {"ComObject", "DISPATCH"}
  <2>1. \/ r = <<Null, <<>> >> \/ r = <<Java("Com4jObject", <<1>>), <<"given">> >>
        \/ r = <<Java("Com4jObject", <<2>>), <<"given">> >>
    BY <1>4 DEF Returns
  <2>2. r[2] = <<>> \/ (r[2] = <<"given">> /\ r[1] # Null)
    BY <1>2, <2>1, ObjectIsNotNull
  <2>3. r[1] # Null => \A x : Fits(Unm(u.kind, u.self, x, r[1]), "given")
    BY <1>1, <1>4 DEF Fits
  <2> QED
    BY <2>2, <2>3 DEF GivesFor
<1>5. CASE u.kind \notin Clearing \cup {"ComObject", "DISPATCH"}
  <2>1. r = <<Java("Number", <<9>>), <<>> >>
    BY <1>5 DEF Returns, Clearing
  <2>2. r[2] = <<>>
    BY <1>2, <2>1
  <2> QED
    BY <2>2 DEF GivesFor
<1> QED
  BY <1>3, <1>4, <1>5

LEMMA ReceiveFacts ==
  ASSUME World(heap, post, unms), NEW k \in 1..Len(unms), NEW r, GivesFor(unms[k], r), Receive(k, r)
  PROVE  \E x : /\ ReceivedWorld(heap, post, unms, k, heap', unms', x) /\ unms'[k].val = r[1]
                /\ x # 0 => Fits(unms'[k], "given")
                /\ unms[k].holds = 0 \/ Answers(post, k) =>
                     (Due(heap, post, unms, {}) => Due(heap', post, unms', {}))
<1> DEFINE u == unms[k]
           x == IF r[2] = <<>> THEN 0 ELSE Len(Free(heap, u.holds)) + 1
<1>1. u.holds \in 0..Len(heap) /\ r[2] \in {<<>>, <<"given">>}
  BY UnmFacts DEF GivesFor
<1>2. heap' = New(Free(heap, u.holds), r[2]) /\ unms' = [unms EXCEPT ![k] = Unm(u.kind, u.self, x, r[1])]
  BY DEF Receive
<1>3. x # 0 => Fits(Unm(u.kind, u.self, x, r[1]), "given")
  BY DEF GivesFor
<1>4. ReceivedHeap(heap, post, unms, u.holds, heap', x)
  BY <1>1, <1>2, ReceivedInHeap
<1> HIDE DEF x
<1> DEFINE us2 == [unms EXCEPT ![k] = Unm(unms[k].kind, unms[k].self, x, r[1])]
<1>5. /\ ReceivedWorld(heap, post, unms, k, heap', us2, x) /\ us2[k].val = r[1]
      /\ unms[k].holds = 0 \/ Answers(post, k) => (Due(heap, post, unms, {}) => Due(heap', post, us2, {}))
  BY <1>3, <1>4, ReceivedByUnm
<1>6. us2[k] = Unm(u.kind, u.self, x, r[1])
  <2> DEFINE w == Unm(unms[k].kind, unms[k].self, x, r[1])
  <2>1. k \in DOMAIN unms
    BY WorldFacts
  <2> HIDE DEF w
  <2>2. [unms EXCEPT ![k] = w][k] = w
    BY <2>1
  <2> QED
    BY <2>2 DEF w
<1>7. unms' = us2
  BY <1>2
<1> HIDE DEF us2
<1> QED
  BY <1>3, <1>5, <1>6, <1>7

-----------------------------------------------------------------------------
(* The callee, and the way back.                                           *)

LEMMA CalleeReplacesStep ==
  ASSUME Ownership, CalleeReplaces
  PROVE  Ownership'
<1> DEFINE L == Len(heap)
           m == Len(unms)
<1>1. /\ pc = "native" /\ pc' = pc /\ n' = n
      /\ UNCHANGED <<javaVars, comParamIndex, javaParamIndex, retIndex, retUnm, post, hr, result, outcome, stale>>
      /\ \A i : Conv(i)' = Conv(i)
  BY DEF CalleeReplaces, InCallee, n, javaVars, Conv
<1>2. /\ World(heap, post, unms) /\ Due(heap, post, unms, {}) /\ heap \in Seq(HeapEntry)
      /\ DOMAIN heap = 1..L /\ L \in Nat /\ n \in Nat
      /\ DOMAIN unms = 1..m /\ m \in Nat /\ retUnm \in 0..m
      /\ outcome = "none" /\ ~stale /\ hr = "S_OK" /\ call.via # "dispatch" /\ call.inout \in BOOLEAN
      /\ \A i \in 1..n : /\ refs[i] \in 0..L
                         /\ Acquired(i) => Conv(i) = "DISPATCH" /\ heap[refs[i]].kind = "dispatch"
                         /\ refs[i] # 0 => \/ Conv(i) = "DISPATCH"
                                           \/ Conv(i) = "ComObject_byRef" /\ heap[refs[i]].kind = "wrapped"
      /\ ~RetJava /\ OfRet = IF Ret THEN Owned(heap, unms[retUnm]) ELSE {}
      /\ \A r : Lost(r) => heap[r].kind = "dispatched"
  BY <1>1, ConvertFacts
<1>3. PICK k \in 1..m : /\ k # retUnm \/ call.inout
                        /\ \E r \in Replacements(unms[k]) : Receive(k, r)
                        /\ replaced' = replaced \cup {k}
  BY <1>2 DEF CalleeReplaces
<1> DEFINE y == unms[k].holds
<1>4. Answers(post, k)
  BY <1>1, <1>3 DEF Ownership, OutInv, Before
<1>5. PICK x : /\ ReceivedWorld(heap, post, unms, k, heap', unms', x)
               /\ Due(heap, post, unms, {}) => Due(heap', post, unms', {})
  <2>1. PICK r \in Replacements(unms[k]) : Receive(k, r)
    BY <1>3
  <2>2. GivesFor(unms[k], r)
    BY ReplacementsFit
  <2> QED
    BY <1>2, <1>4, <2>1, <2>2, ReceiveFacts
<1>6. /\ World(heap', post, unms') /\ Len(unms') = m
      /\ unms'[k].kind = unms[k].kind /\ unms'[k].self = unms[k].self
      /\ \A l \in 1..m : l # k => unms'[l] = unms[l] /\ Owned(heap', unms'[l]) = Owned(heap, unms[l])
      /\ IF x = 0 THEN Len(heap') = L
         ELSE /\ x = L + 1 /\ Len(heap') = L + 1 /\ heap'[x].kind = "given" /\ Fresh(heap', x)
              /\ Claimed(heap', post, unms', x)
      /\ \A r \in 1..L : /\ heap'[r].kind = heap[r].kind /\ heap'[r].owners = heap[r].owners
                         /\ heap'[r].frees = IF r = y THEN heap[r].frees + 1 ELSE heap[r].frees
                         /\ Claimed(heap', post, unms', r) => Claimed(heap, post, unms, r)
                         /\ Claimed(heap, post, unms, r) => Claimed(heap', post, unms', r) \/ r = y
  BY <1>4, <1>5 DEF ReceivedWorld
\* What it held is what the post action claims, or a Wrapper's.
<1>7. y # 0 => y \in 1..L /\ \/ Fresh(heap, y) /\ Claimed(heap, post, unms, y)
                             \/ heap[y].kind = "wrapped" /\ heap[y].owners >= 1
  <2> SUFFICES ASSUME y # 0
               PROVE  y \in 1..L /\ \/ Fresh(heap, y) /\ Claimed(heap, post, unms, y)
                                    \/ heap[y].kind = "wrapped" /\ heap[y].owners >= 1
    OBVIOUS
  <2>1. y \in 1..L
    BY <1>2, UnmFacts
  <2>2. CASE heap[y].kind = "wrapped"
    BY <2>1, <2>2 DEF Ownership, KindsInv
  <2>3. CASE heap[y].kind # "wrapped"
    <3>1. PICK a \in OutActs(post) : a.unm = k
      BY <1>4 DEF Answers
    <3>2. y \in Owned(heap, unms[k])
      BY <2>3 DEF Owned
    <3>3. y \in Claim(heap, unms, a)
      BY <1>2, <3>1, <3>2, OutActFacts
    <3>4. Claimed(heap, post, unms, y) /\ (Fresh(heap, y) \/ a.unm \in {})
      BY <1>2, <3>3, OutActFacts
    <3> QED
      BY <2>1, <3>4
  <2> QED
    BY <2>2, <2>3
<1> HIDE DEF L, y
<1>8. /\ DOMAIN heap' = 1..Len(heap') /\ Len(heap') \in Nat
      /\ \A r \in 1..Len(heap') : r \in 1..L \/ (r = x /\ x # 0 /\ x = L + 1)
      /\ \A r \in 1..L : r \in 1..Len(heap')
  BY <1>2, <1>6, WorldFacts DEF L
\* What nobody claims is left alone.
<1>9. \A r \in 1..L : Loose(heap, post, unms, r) => Loose(heap', post', unms', r)
  <2> SUFFICES ASSUME NEW r \in 1..L, Loose(heap, post, unms, r)
               PROVE  Loose(heap', post, unms', r)
    BY <1>1
  <2>1. Fresh(heap, r) /\ ~Claimed(heap, post, unms, r)
    BY DEF Loose
  <2>2. r # y
    <3>1. r # 0
      BY <1>2 DEF L
    <3>2. heap[r].owners = 0
      BY <2>1 DEF Fresh
    <3> QED
      BY <1>7, <2>1, <3>1, <3>2
  <2> QED
    BY <1>6, <1>8, <2>1, <2>2 DEF Loose, Fresh, L
<1>10. /\ (Ret' <=> Ret) /\ ~RetJava' /\ OfRet' = OfRet
       /\ Ret => retUnm # k /\ unms'[retUnm] = unms[retUnm]
  <2>1. (Ret' <=> Ret) /\ ~RetJava'
    BY <1>1 DEF Ret, RetJava, javaVars
  <2>2. Ret => retUnm # k /\ retUnm \in 1..m
    BY <1>2, <1>3 DEF Ret
  <2>3. Ret => unms'[retUnm] = unms[retUnm] /\ Owned(heap', unms'[retUnm]) = Owned(heap, unms[retUnm])
    BY <1>6, <2>2
  <2>4. OfRet' = OfRet
    BY <1>1, <1>2, <2>1, <2>3 DEF OfRet, Before
  <2> QED
    BY <2>1, <2>2, <2>3, <2>4
<1>11. \A i \in 1..n : /\ refs'[i] = refs[i] /\ (refs[i] # 0 => heap'[refs[i]].kind = heap[refs[i]].kind)
                       /\ refs'[i] \in 0..Len(heap')
                       /\ OfParam(i)' = OfParam(i) /\ (Acquired(i)' <=> Acquired(i))
  <2> SUFFICES ASSUME NEW i \in 1..n
               PROVE  /\ refs'[i] = refs[i] /\ (refs[i] # 0 => heap'[refs[i]].kind = heap[refs[i]].kind)
                      /\ refs'[i] \in 0..Len(heap')
                      /\ OfParam(i)' = OfParam(i) /\ (Acquired(i)' <=> Acquired(i))
    OBVIOUS
  <2>1. refs'[i] = refs[i] /\ (refs[i] # 0 => heap'[refs[i]].kind = heap[refs[i]].kind)
    BY <1>1, <1>2, <1>6 DEF javaVars, L
  <2>2. refs'[i] \in 0..Len(heap')
    <3>1. refs'[i] \in 0..L /\ L \in Nat
      BY <1>2, <2>1 DEF L
    <3>2. Len(heap') = L \/ Len(heap') = L + 1
      BY <1>6
    <3> QED
      BY <3>1, <3>2
  <2>3. Acquired(i)' <=> Acquired(i)
    BY <1>1, <2>1 DEF Acquired, javaVars
  <2> QED
    BY <2>1, <2>2, <2>3 DEF OfParam
<1>12. ShapeInv'
  <2>1. replaced' \subseteq 1..Len(unms')
    BY <1>3, <1>6 DEF Ownership, ShapeInv
  <2> QED
    BY <1>1, <1>6, <1>11, <2>1 DEF Ownership, ShapeInv, javaVars
<1>13. FlowInv'
  BY <1>1, <1>2 DEF FlowInv, Before, javaVars
<1>14. TurnInv'
  BY <1>1, <1>2, <1>5, <1>6 DEF TurnInv
<1>15. OutInv'
  <2>1. \A a \in OutActs(post) : unms'[a.unm].kind = unms[a.unm].kind
    BY <1>2, <1>6, OutActFacts
  <2>2. Outs(call.params, post, unms', n)
    BY <1>1, <2>1 DEF Ownership, OutInv, Outs
  <2> QED
    BY <1>1, <1>6, <1>11, <2>2 DEF Ownership, OutInv, Before, javaVars
<1>16. RetInv'
  <2>1. Ret => unms[retUnm].self \in 1..L
    BY <1>2, WorldFacts DEF Ret, L
  <2>2. Ret => heap'[unms[retUnm].self].kind = heap[unms[retUnm].self].kind
    BY <1>6, <2>1
  <2> QED
    BY <1>1, <1>10, <2>2 DEF Ownership, RetInv, javaVars
<1>17. RefsInv'
  <2>1. \A i \in 1..n : Acquired(i)' => Conv(i)' = "DISPATCH" /\ heap'[refs'[i]].kind = "dispatch"
    BY <1>1, <1>2, <1>11 DEF Acquired
  <2>2. \A i \in 1..n : refs'[i] # 0 => \/ Conv(i)' = "DISPATCH"
                                        \/ Conv(i)' = "ComObject_byRef" /\ heap'[refs'[i]].kind = "wrapped"
    BY <1>1, <1>2, <1>11
  <2> QED
    BY <1>1, <2>1, <2>2 DEF RefsInv
<1>18. ApartInv'
  <2>1. ~call.inout =>
          /\ \A r \in OfRet : Loose(heap, post, unms, r) /\ r \in 1..L
          /\ \A i \in 1..n : \A r \in OfParam(i) :
               /\ Loose(heap, post, unms, r) /\ r \in 1..L /\ r \notin OfRet
               /\ \A j \in 1..n : i # j => r \notin OfParam(j)
    BY <1>2 DEF Ownership, ApartInv, Loose, L
  <2>2. ~call.inout =>
          /\ \A r \in OfRet' : Loose(heap', post', unms', r)
          /\ \A i \in 1..n : \A r \in OfParam(i)' :
               /\ Loose(heap', post', unms', r) /\ r \notin OfRet'
               /\ \A j \in 1..n : i # j => r \notin OfParam(j)'
    BY <1>9, <1>10, <1>11, <2>1
  <2> QED
    BY <1>1, <2>2 DEF ApartInv, javaVars
<1>19. KindsInv'
  <2> SUFFICES ASSUME NEW r \in 1..Len(heap')
               PROVE  /\ heap'[r].kind = "dispatched" => call.via = "dispatch"
                      /\ heap'[r].kind = "wrapped" => heap'[r].owners >= 1
    BY <1>1 DEF KindsInv, javaVars
  <2>1. CASE r \in 1..L
    BY <1>6, <2>1 DEF Ownership, KindsInv, L
  <2>2. CASE r = x /\ x # 0
    BY <1>6, <2>2
  <2> QED
    BY <1>8, <2>1, <2>2
<1>20. FreedOnce' /\ NoUseAfterFree'
  <2>1. ASSUME NEW r \in 1..Len(heap'), heap'[r].frees + heap'[r].owners > 1
        PROVE  OwnedTwice(r)'
    <3>1. CASE r \in 1..L /\ r # y
      BY <1>1, <1>2, <1>6, <2>1, <3>1 DEF Ownership, FreedOnce, OwnedTwice, javaVars, L
    <3>2. CASE r \in 1..L /\ r = y
      <4>1. r # 0
        BY <1>2, <3>2 DEF L
      <4>2. ~Fresh(heap, r)
        BY <1>6, <2>1, <3>2 DEF Fresh
      <4>3. heap'[r].kind = "wrapped"
        BY <1>6, <1>7, <3>2, <4>1, <4>2
      <4> QED
        BY <4>3 DEF OwnedTwice
    <3>3. CASE r = x /\ x # 0
      BY <1>6, <2>1, <3>3 DEF Fresh
    <3> QED
      BY <1>8, <3>1, <3>2, <3>3
  <2> QED
    BY <1>1, <1>2, <1>8, <2>1 DEF FreedOnce, NoUseAfterFree
<1>21. CoverInv'
  <2> SUFFICES ASSUME NEW r \in 1..Len(heap'), Fresh(heap', r)
               PROVE  Claimed(heap', post', unms', r) \/ r \in OfRet' \/ (\E i \in 1..n : r \in OfParam(i)') \/ Lost(r)'
    BY <1>1 DEF CoverInv
  <2>1. CASE r = x /\ x # 0
    BY <1>1, <1>6, <2>1
  <2>2. CASE r \in 1..L
    <3>1. heap[r].frees \in Nat /\ heap[r].owners \in Nat
      BY <1>2, <2>2, Counts DEF L
    <3>2. r # y /\ Fresh(heap, r) /\ heap'[r].kind = heap[r].kind
      BY <1>6, <2>2, <3>1 DEF Fresh
    <3>3. Claimed(heap, post, unms, r) \/ r \in OfRet \/ (\E i \in 1..n : r \in OfParam(i)) \/ Lost(r)
      BY <1>2, <2>2, <3>2 DEF Ownership, CoverInv, L
    <3>4. Lost(r) => Lost(r)'
      BY <1>2, <3>2 DEF Lost
    <3>5. Claimed(heap, post, unms, r) => Claimed(heap', post', unms', r)
      BY <1>1, <1>6, <2>2, <3>2
    <3> QED
      BY <1>10, <1>11, <3>3, <3>4, <3>5
  <2> QED
    BY <1>8, <2>1, <2>2
<1> QED
  BY <1>12, <1>13, <1>14, <1>15, <1>16, <1>17, <1>18, <1>19, <1>20, <1>21 DEF Ownership

LEMMA CalleeReturnsNothing ==
  ASSUME Ownership, CalleeReturns, UNCHANGED <<heap, unms>>
  PROVE  Ownership'
<1>1. /\ pc = "native" /\ pc' = "returned" /\ n' = n /\ hr' \in {"S_OK", "E_FAIL"}
      /\ UNCHANGED <<javaVars, comParamIndex, javaParamIndex, retIndex, retUnm, post, result, outcome, replaced, stale>>
      /\ \A i : Conv(i)' = Conv(i)
  BY DEF CalleeReturns, InCallee, n, javaVars, Conv
<1>2. outcome = "none" /\ ~stale /\ hr = "S_OK" /\ call.via # "dispatch"
  BY <1>1, ConvertFacts
<1>3. /\ (Ret' <=> Ret) /\ ~RetJava /\ ~RetJava' /\ OfRet' = OfRet
      /\ \A i : (Acquired(i)' <=> Acquired(i)) /\ OfParam(i)' = OfParam(i)
  BY <1>1 DEF Ret, RetJava, OfRet, Before, Acquired, OfParam, javaVars
<1>4. ShapeInv' /\ FlowInv' /\ TurnInv'
  <2>1. ShapeInv'
    BY <1>1 DEF Ownership, ShapeInv, javaVars
  <2>2. FlowInv'
    BY <1>1, <1>2 DEF FlowInv, Before, javaVars
  <2>3. TurnInv'
    BY <1>1 DEF Ownership, TurnInv
  <2> QED
    BY <2>1, <2>2, <2>3
<1>5. OutInv' /\ RetInv' /\ RefsInv'
  <2>1. OutInv'
    BY <1>1, <1>3 DEF Ownership, OutInv, Before, javaVars
  <2>2. RetInv'
    BY <1>1, <1>3 DEF Ownership, RetInv, javaVars
  <2>3. RefsInv'
    BY <1>1, <1>3 DEF Ownership, RefsInv, Before, javaVars
  <2> QED
    BY <2>1, <2>2, <2>3
<1>6. ApartInv' /\ KindsInv'
  BY <1>1, <1>3 DEF Ownership, ApartInv, KindsInv, javaVars
<1>7. FreedOnce' /\ NoUseAfterFree'
  BY <1>1, <1>2 DEF Ownership, FreedOnce, NoUseAfterFree, OwnedTwice, javaVars
<1>8. CoverInv'
  <2>1. \A r : Lost(r) => Lost(r)'
    BY <1>1, <1>2 DEF Lost, Lossy, javaVars
  <2> QED
    BY <1>1, <1>3, <2>1 DEF Ownership, CoverInv
<1> QED
  BY <1>4, <1>5, <1>6, <1>7, <1>8 DEF Ownership

\* The return value is written to its buffer, which held nothing.
LEMMA CalleeReturnsValue ==
  ASSUME Ownership, CalleeReturns, Ret, hr' = "S_OK", NEW r0 \in Returns(unms[retUnm]), Receive(retUnm, r0)
  PROVE  Ownership'
<1> DEFINE L == Len(heap)
           m == Len(unms)
           self == unms[retUnm].self
<1>1. /\ pc = "native" /\ pc' = "returned" /\ n' = n
      /\ UNCHANGED <<javaVars, comParamIndex, javaParamIndex, retIndex, retUnm, post, result, outcome, replaced, stale>>
      /\ \A i : Conv(i)' = Conv(i)
  BY DEF CalleeReturns, InCallee, n, javaVars, Conv
<1>2. /\ World(heap, post, unms) /\ Due(heap, post, unms, {}) /\ heap \in Seq(HeapEntry)
      /\ DOMAIN heap = 1..L /\ L \in Nat /\ n \in Nat
      /\ DOMAIN unms = 1..m /\ m \in Nat /\ retUnm \in 0..m
      /\ outcome = "none" /\ ~stale /\ call.via # "dispatch"
      /\ \A i \in 1..n : /\ refs[i] \in 0..L
                         /\ Acquired(i) => Conv(i) = "DISPATCH" /\ heap[refs[i]].kind = "dispatch"
                         /\ refs[i] # 0 => \/ Conv(i) = "DISPATCH"
                                           \/ Conv(i) = "ComObject_byRef" /\ heap[refs[i]].kind = "wrapped"
      /\ OfRet = Owned(heap, unms[retUnm])
      /\ \A r : Lost(r) => heap[r].kind = "dispatched"
  BY <1>1, ConvertFacts
<1>3. /\ ~call.inout /\ retUnm \in 1..m /\ unms[retUnm].holds = 0 /\ unms[retUnm].kind = call.retConv
      /\ call.retConv \in RetConvs /\ OfRet = {self} /\ self \in 1..L
  <2>1. ~call.inout /\ retUnm \in 1..m
    BY <1>2 DEF Ret
  <2>2. unms[retUnm].holds = 0 /\ unms[retUnm].kind = call.retConv /\ call.retConv \in RetConvs
    BY <1>1 DEF Ownership, RetInv
  <2>3. OfRet = {self}
    BY <1>2, <2>2 DEF Owned
  <2> QED
    BY <1>2, <2>1, <2>2, <2>3, UnmFacts
<1>4. ~Answers(post, retUnm)
  BY <1>3 DEF Ownership, OutInv, Answers
<1>5. PICK x : /\ ReceivedWorld(heap, post, unms, retUnm, heap', unms', x)
               /\ Due(heap, post, unms, {}) => Due(heap', post, unms', {})
  <2>1. GivesFor(unms[retUnm], r0)
    BY ReturnsFit
  <2> QED
    BY <1>2, <1>3, <2>1, ReceiveFacts
<1>6. /\ World(heap', post, unms') /\ Len(unms') = m
      /\ unms'[retUnm].kind = call.retConv /\ unms'[retUnm].self = self /\ unms'[retUnm].holds = x
      /\ \A l \in 1..m : l # retUnm => unms'[l] = unms[l]
      /\ Owned(heap', unms'[retUnm]) = {self} \cup ({x} \ {0})
      /\ IF x = 0 THEN Len(heap') = L
         ELSE /\ x = L + 1 /\ Len(heap') = L + 1 /\ heap'[x].kind = "given" /\ Fresh(heap', x)
              /\ ~Claimed(heap', post, unms', x)
      /\ \A r \in 1..L : /\ heap'[r].kind = heap[r].kind /\ heap'[r].owners = heap[r].owners
                         /\ heap'[r].frees = heap[r].frees
                         /\ (Claimed(heap', post, unms', r) <=> Claimed(heap, post, unms, r))
  <2>1. \A r \in 1..L : r # 0
    BY <1>2
  <2> QED
    BY <1>3, <1>4, <1>5, <2>1 DEF ReceivedWorld
<1> HIDE DEF L, self
<1>7. /\ DOMAIN heap' = 1..Len(heap') /\ Len(heap') \in Nat /\ L \in Nat
      /\ \A r \in 1..Len(heap') : r \in 1..L \/ (r = x /\ x # 0 /\ x \notin 1..L /\ x \in 1..Len(heap'))
      /\ \A r \in 1..L : r \in 1..Len(heap')
      /\ x # 0 => x \in 1..Len(heap')
      /\ Len(heap') = L \/ Len(heap') = L + 1
  BY <1>2, <1>6, WorldFacts DEF L
<1>8. \A r \in 1..L : Loose(heap, post, unms, r) => Loose(heap', post', unms', r)
  BY <1>1, <1>6, <1>7 DEF Loose, Fresh
<1>9. Ret' /\ ~RetJava' /\ OfRet' = {self} \cup ({x} \ {0})
  <2>1. Ret' /\ ~RetJava'
    BY <1>1 DEF Ret, RetJava, javaVars
  <2> QED
    BY <1>1, <1>6, <2>1 DEF OfRet, Before
<1>10. \A i \in 1..n : /\ refs'[i] = refs[i] /\ (refs[i] # 0 => heap'[refs[i]].kind = heap[refs[i]].kind)
                       /\ refs'[i] \in 0..Len(heap')
                       /\ OfParam(i)' = OfParam(i) /\ (Acquired(i)' <=> Acquired(i))
  <2> SUFFICES ASSUME NEW i \in 1..n
               PROVE  /\ refs'[i] = refs[i] /\ (refs[i] # 0 => heap'[refs[i]].kind = heap[refs[i]].kind)
                      /\ refs'[i] \in 0..Len(heap')
                      /\ OfParam(i)' = OfParam(i) /\ (Acquired(i)' <=> Acquired(i))
    OBVIOUS
  <2>1. refs'[i] = refs[i] /\ (refs[i] # 0 => heap'[refs[i]].kind = heap[refs[i]].kind) /\ refs[i] \in 0..L
    BY <1>1, <1>2, <1>6 DEF javaVars, L
  <2>2. refs'[i] \in 0..Len(heap')
    BY <1>7, <2>1
  <2>3. Acquired(i)' <=> Acquired(i)
    BY <1>1, <2>1 DEF Acquired, javaVars
  <2> QED
    BY <2>1, <2>2, <2>3 DEF OfParam
<1>11. ShapeInv'
  BY <1>1, <1>6, <1>10 DEF Ownership, ShapeInv, javaVars
<1>12. FlowInv'
  BY <1>1, <1>2 DEF FlowInv, Before, javaVars
<1>13. TurnInv'
  BY <1>1, <1>2, <1>5, <1>6 DEF TurnInv
<1>14. OutInv'
  <2>1. \A a \in OutActs(post) : unms'[a.unm] = unms[a.unm]
    <3>1. \A a \in OutActs(post) : a.unm \in 1..m /\ a.unm # retUnm
      BY <1>2, <1>3, OutActFacts DEF Ownership, OutInv
    <3> QED
      BY <1>6, <3>1
  <2>2. Outs(call.params, post, unms', n)
    BY <1>1, <2>1 DEF Ownership, OutInv, Outs
  <2> QED
    BY <1>1, <1>6, <1>10, <2>2 DEF Ownership, OutInv, Before, javaVars
<1>15. RetInv'
  BY <1>1, <1>2, <1>3, <1>6, <1>9 DEF RetInv, javaVars
<1>16. RefsInv'
  <2>1. \A i \in 1..n : Acquired(i)' => Conv(i)' = "DISPATCH" /\ heap'[refs'[i]].kind = "dispatch"
    BY <1>1, <1>2, <1>10 DEF Acquired
  <2>2. \A i \in 1..n : refs'[i] # 0 => \/ Conv(i)' = "DISPATCH"
                                        \/ Conv(i)' = "ComObject_byRef" /\ heap'[refs'[i]].kind = "wrapped"
    BY <1>1, <1>2, <1>10
  <2> QED
    BY <1>1, <2>1, <2>2 DEF RefsInv
<1>17. ApartInv'
  <2>1. /\ \A r \in OfRet : Loose(heap, post, unms, r) /\ r \in 1..L
        /\ \A i \in 1..n : \A r \in OfParam(i) :
             /\ Loose(heap, post, unms, r) /\ r \in 1..L /\ r \notin OfRet
             /\ \A j \in 1..n : i # j => r \notin OfParam(j)
    BY <1>2, <1>3 DEF Ownership, ApartInv, Loose, L
  <2>2. x # 0 => Loose(heap', post', unms', x) /\ x \notin 1..L
    BY <1>1, <1>6, <1>7 DEF Loose
  <2>3. /\ \A r \in OfRet' : Loose(heap', post', unms', r)
        /\ \A i \in 1..n : \A r \in OfParam(i)' :
             /\ Loose(heap', post', unms', r) /\ r \notin OfRet'
             /\ \A j \in 1..n : i # j => r \notin OfParam(j)'
    <3>1. self \in OfRet
      BY <1>3 DEF self
    <3>2. \A r \in OfRet' : r = self \/ (r = x /\ x # 0)
      BY <1>9
    <3> QED
      BY <1>8, <1>10, <2>1, <2>2, <3>1, <3>2
  <2> QED
    BY <1>1, <2>3 DEF ApartInv, javaVars
<1>18. KindsInv'
  <2> SUFFICES ASSUME NEW r \in 1..Len(heap')
               PROVE  /\ heap'[r].kind = "dispatched" => call.via = "dispatch"
                      /\ heap'[r].kind = "wrapped" => heap'[r].owners >= 1
    BY <1>1 DEF KindsInv, javaVars
  <2>1. CASE r \in 1..L
    BY <1>6, <2>1 DEF Ownership, KindsInv, L
  <2>2. CASE r = x /\ x # 0
    BY <1>6, <2>2
  <2> QED
    BY <1>7, <2>1, <2>2
<1>19. FreedOnce' /\ NoUseAfterFree'
  <2>1. ASSUME NEW r \in 1..Len(heap'), heap'[r].frees + heap'[r].owners > 1
        PROVE  OwnedTwice(r)'
    <3>1. CASE r \in 1..L
      BY <1>1, <1>2, <1>6, <2>1, <3>1 DEF Ownership, FreedOnce, OwnedTwice, javaVars, L
    <3>2. CASE r = x /\ x # 0
      BY <1>6, <2>1, <3>2 DEF Fresh
    <3> QED
      BY <1>7, <3>1, <3>2
  <2> QED
    BY <1>1, <1>2, <1>7, <2>1 DEF FreedOnce, NoUseAfterFree
<1>20. CoverInv'
  <2> SUFFICES ASSUME NEW r \in 1..Len(heap'), Fresh(heap', r)
               PROVE  Claimed(heap', post', unms', r) \/ r \in OfRet' \/ (\E i \in 1..n : r \in OfParam(i)') \/ Lost(r)'
    BY <1>1 DEF CoverInv
  <2>1. CASE r = x /\ x # 0
    BY <1>9, <2>1
  <2>2. CASE r \in 1..L
    <3>1. Fresh(heap, r) /\ heap'[r].kind = heap[r].kind
      BY <1>6, <2>2 DEF Fresh
    <3>2. Claimed(heap, post, unms, r) \/ r \in OfRet \/ (\E i \in 1..n : r \in OfParam(i)) \/ Lost(r)
      BY <1>2, <2>2, <3>1 DEF Ownership, CoverInv, L
    <3>3. Lost(r) => Lost(r)'
      BY <1>2, <3>1 DEF Lost
    <3>4. Claimed(heap, post, unms, r) => Claimed(heap', post', unms', r)
      BY <1>1, <1>6, <2>2
    <3>5. r \in OfRet => r \in OfRet'
      BY <1>3, <1>9 DEF self
    <3> QED
      BY <1>10, <3>2, <3>3, <3>4, <3>5
  <2> QED
    BY <1>7, <2>1, <2>2
<1> QED
  BY <1>11, <1>12, <1>13, <1>14, <1>15, <1>16, <1>17, <1>18, <1>19, <1>20 DEF Ownership

LEMMA CalleeReturnsStep ==
  ASSUME Ownership, CalleeReturns
  PROVE  Ownership'
<1>1. CASE UNCHANGED <<heap, unms>>
  BY <1>1, CalleeReturnsNothing
<1>2. CASE ~UNCHANGED <<heap, unms>>
  <2>1. hr' = "S_OK" /\ Ret /\ \E r \in Returns(unms[retUnm]) : Receive(retUnm, r)
    BY <1>2 DEF CalleeReturns, Ret
  <2> QED
    BY <2>1, CalleeReturnsValue
<1> QED
  BY <1>1, <1>2

\* What Environment::invoke gives back, or to Java, after the call.
LEMMA ReturnSpends ==
  ASSUME Ownership, ReturnFromNative
  PROVE  \E T : /\ Spent(heap, heap', T)
                /\ \A r \in T : retUnm # 0 /\ r \in Deleted(unms[retUnm]) \cup Taken(unms[retUnm])
                /\ Ret => unms[retUnm].self \in T
                /\ Ret /\ hr = "S_OK" => Deleted(unms[retUnm]) \cup Taken(unms[retUnm]) \subseteq T
                /\ hr = "S_OK" => call.inout \/ Ret \/ heap' = heap
                /\ hr = "S_OK" /\ call.inout => \A r \in 1..Len(heap) : heap'[r].frees = heap[r].frees
<1> DEFINE u == unms[retUnm]
           Way(T) == /\ Spent(heap, heap', T)
                     /\ \A r \in T : retUnm # 0 /\ r \in Deleted(u) \cup Taken(u)
                     /\ Ret => u.self \in T
                     /\ Ret /\ hr = "S_OK" => Deleted(u) \cup Taken(u) \subseteq T
                     /\ hr = "S_OK" => call.inout \/ Ret \/ heap' = heap
                     /\ hr = "S_OK" /\ call.inout => \A r \in 1..Len(heap) : heap'[r].frees = heap[r].frees
<1>1. pc = "returned"
  BY DEF ReturnFromNative
<1>2. /\ World(heap, post, unms) /\ heap \in Seq(HeapEntry)
      /\ retUnm \in 0..Len(unms) /\ Len(unms) \in Nat /\ call.inout \in BOOLEAN
  BY <1>1, ConvertFacts
<1>3. Ret => call.retConv # "HRESULT"
  <2>1. "HRESULT" \notin RetConvs
    BY DEF RetConvs
  <2> QED
    BY <2>1 DEF Ownership, RetInv
<1>4. retUnm # 0 =>
        u.self \in Owned(heap, u) /\ u.holds \in 0..Len(heap) /\ u.holds # u.self
  <2> SUFFICES ASSUME retUnm # 0
               PROVE  u.self \in Owned(heap, u) /\ u.holds \in 0..Len(heap) /\ u.holds # u.self
    OBVIOUS
  <2>1. retUnm \in 1..Len(unms) /\ World(heap, post, unms)
    BY <1>2
  <2> QED
    BY <2>1, UnmFacts
<1>5. u.self \in Deleted(u)
  BY DEF Deleted
<1>6. CASE retUnm = 0 \/ call.retConv = "HRESULT"
  <2>1. heap' = heap /\ ~Ret
    BY <1>3, <1>6 DEF ReturnFromNative, Ret
  <2>2. Spent(heap, heap', {})
    BY <1>2, <2>1, SpentNothing
  <2>3. Way({})
    BY <2>1, <2>2
  <2> QED
    BY <2>3
<1>7. CASE retUnm # 0 /\ call.retConv # "HRESULT" /\ hr # "S_OK"
  <2>1. heap' = Delete(heap, u)
    BY <1>7 DEF ReturnFromNative
  <2>2. Spent(heap, heap', Deleted(u))
    BY <1>2, <1>4, <1>7, <2>1, SpentDelete
  <2>3. Way(Deleted(u))
    BY <1>4, <1>5, <1>7, <2>2
  <2> QED
    BY <2>3
<1>8. CASE Ret /\ hr = "S_OK"
  <2>1. heap' = Delete(UnmarshalHeap(heap, u), u)
    BY <1>3, <1>8 DEF ReturnFromNative, Ret
  <2>2. Spent(heap, heap', Deleted(u) \cup Taken(u))
    BY <1>2, <1>4, <1>8, <2>1, SpentWriteBack DEF Ret
  <2>3. Way(Deleted(u) \cup Taken(u))
    BY <1>4, <1>5, <1>8, <2>2 DEF Ret
  <2> QED
    BY <2>3
<1>9. CASE retUnm # 0 /\ call.inout /\ call.retConv # "HRESULT" /\ hr = "S_OK"
  <2>1. heap' = UnmarshalHeap(heap, u)
    BY <1>9 DEF ReturnFromNative
  <2>2. Spent(heap, heap', Taken(u)) /\ \A r \in 1..Len(heap) : heap'[r].frees = heap[r].frees
    BY <1>2, <1>4, <1>9, <2>1, SpentUnmarshal
  <2>3. Way(Taken(u))
    BY <1>4, <1>9, <2>2 DEF Ret
  <2> QED
    BY <2>3
<1> QED
  BY <1>2, <1>6, <1>7, <1>8, <1>9 DEF Ret

LEMMA ReturnFromNativeStep ==
  ASSUME Ownership, ReturnFromNative
  PROVE  Ownership'
<1> DEFINE L == Len(heap)
           m == Len(unms)
           u == unms[retUnm]
           self == u.self
           holds == u.holds
<1>1. /\ pc = "returned" /\ pc' = "post" /\ n' = n
      /\ UNCHANGED <<javaVars, convVars, post, hr, replaced, stale>>
      /\ \A i : Conv(i)' = Conv(i)
  BY DEF ReturnFromNative, n, javaVars, Conv
<1>2. /\ World(heap, post, unms) /\ Due(heap, post, unms, {}) /\ heap \in Seq(HeapEntry)
      /\ DOMAIN heap = 1..L /\ L \in Nat /\ n \in Nat
      /\ DOMAIN unms = 1..m /\ m \in Nat /\ retUnm \in 0..m
      /\ outcome = "none" /\ ~stale /\ call.via # "dispatch" /\ call.inout \in BOOLEAN /\ hr \in {"S_OK", "E_FAIL"}
      /\ \A i \in 1..n : /\ refs[i] \in 0..L
                         /\ Acquired(i) => Conv(i) = "DISPATCH" /\ heap[refs[i]].kind = "dispatch"
      /\ OfRet = IF Ret THEN Owned(heap, u) ELSE {}
      /\ \A r : Lost(r) => heap[r].kind = "dispatched"
  BY <1>1, ConvertFacts
<1>3. PICK T : /\ Spent(heap, heap', T)
               /\ \A r \in T : retUnm # 0 /\ r \in Deleted(u) \cup Taken(u)
               /\ Ret => self \in T
               /\ Ret /\ hr = "S_OK" => Deleted(u) \cup Taken(u) \subseteq T
               /\ hr = "S_OK" => call.inout \/ Ret \/ heap' = heap
               /\ hr = "S_OK" /\ call.inout => \A r \in 1..L : heap'[r].frees = heap[r].frees
  BY ReturnSpends
<1>4. /\ World(heap', post, unms) /\ Len(heap') = L /\ heap' \in Seq(HeapEntry) /\ DOMAIN heap' = 1..L
      /\ \A k \in 1..m : Owned(heap', unms[k]) = Owned(heap, unms[k])
      /\ \A i \in 1..Len(post) : Claim(heap', unms, post[i]) = Claim(heap, unms, post[i])
      /\ \A r : Claimed(heap', post, unms, r) <=> Claimed(heap, post, unms, r)
  <2>1. Spent(heap, heap', T)
    BY <1>3
  <2>2. /\ World(heap', post, unms)
        /\ \A k \in 1..m : Owned(heap', unms[k]) = Owned(heap, unms[k])
        /\ \A i \in 1..Len(post) : Claim(heap', unms, post[i]) = Claim(heap, unms, post[i])
        /\ \A r : Claimed(heap', post, unms, r) <=> Claimed(heap, post, unms, r)
    BY <1>2, <2>1, SpentWorld
  <2>3. Len(heap') = L /\ heap' \in Seq(HeapEntry)
    BY <2>1 DEF Spent
  <2> QED
    BY <2>2, <2>3
<1>5. \A r \in 1..L : /\ Fresh(heap', r) <=> Fresh(heap, r) /\ r \notin T
                      /\ r \notin T => heap'[r].frees = heap[r].frees /\ heap'[r].owners = heap[r].owners
                      /\ heap'[r].kind = heap[r].kind /\ heap'[r].owners >= heap[r].owners
                      /\ heap'[r].frees + heap'[r].owners = heap[r].frees + heap[r].owners + IF r \in T THEN 1 ELSE 0
  <2>1. heap \in Seq(HeapEntry) /\ Spent(heap, heap', T)
    BY <1>2, <1>3
  <2>2. \A r \in 1..L : /\ Fresh(heap', r) <=> Fresh(heap, r) /\ r \notin T
                        /\ r \notin T => heap'[r].frees = heap[r].frees /\ heap'[r].owners = heap[r].owners
    BY <2>1, SpentFresh
  <2>3. \A r \in 1..L :
          /\ heap'[r].kind = heap[r].kind /\ heap'[r].owners >= heap[r].owners
          /\ heap'[r].frees + heap'[r].owners = heap[r].frees + heap[r].owners + IF r \in T THEN 1 ELSE 0
    BY <2>1 DEF Spent
  <2> QED
    BY <2>2, <2>3
\* The unmarshaller of the return value, if it is not in/out.
<1>6. /\ Ret => /\ ~call.inout /\ retUnm # 0 /\ u.kind = call.retConv /\ call.retConv \in RetConvs
                /\ (hr # "S_OK" => holds = 0) /\ holds \in 0..L
                /\ (holds # 0 => Fits(u, heap[holds].kind) /\ holds \in 1..L)
                /\ OfRet = {self} \cup {r \in {holds} \ {0} : heap[r].kind # "wrapped"}
      /\ \A r \in T : r # 0 => (call.inout \/ (Ret /\ r \in OfRet)) /\ retUnm # 0 /\ r \in Owned(heap, u)
      /\ ~call.inout /\ retUnm # 0 => Ret
  <2>1. Ret => /\ ~call.inout /\ retUnm # 0 /\ u.kind = call.retConv /\ call.retConv \in RetConvs
               /\ (hr # "S_OK" => holds = 0)
    BY <1>1 DEF Ownership, RetInv, Ret
  <2>2. Ret => holds \in 0..L /\ (holds # 0 => Fits(u, heap[holds].kind) /\ holds \in 1..L)
    <3>1. Ret => retUnm \in 1..m
      BY <1>2 DEF Ret
    <3> QED
      BY <1>2, <3>1, UnmFacts
  <2>3. Ret => OfRet = {self} \cup {r \in {holds} \ {0} : heap[r].kind # "wrapped"}
    BY <1>2 DEF Owned
  <2>4. ~call.inout /\ retUnm # 0 => Ret
    BY DEF Ret
  <2>5. \A r \in T : r # 0 => retUnm # 0 /\ r \in Owned(heap, u)
    <3> SUFFICES ASSUME NEW r \in T, r # 0
                 PROVE  retUnm # 0 /\ r \in Owned(heap, u)
      OBVIOUS
    <3>1. retUnm \in 1..m /\ retUnm # 0 /\ r \in Deleted(u) \cup Taken(u)
      BY <1>2, <1>3
    <3> QED
      BY <1>2, <3>1, UnmFacts
  <2>6. \A r \in T : r # 0 => call.inout \/ (Ret /\ r \in OfRet)
    BY <1>2, <2>4, <2>5
  <2> QED
    BY <2>1, <2>2, <2>3, <2>4, <2>5, <2>6
<1> DEFINE Stays == Ret /\ call.retConv \in {"ComObject", "DISPATCH"} /\ holds # 0
<1>7. /\ Stays => hr = "S_OK" /\ heap[holds].kind = "given" /\ u.val # Null /\ u.kind = call.retConv
      /\ Ret /\ ~Stays => \A r \in OfRet : r \in T
      /\ Stays => OfRet = {self, holds} /\ self \in T /\ holds \notin T
  <2>1. Stays => hr = "S_OK" /\ heap[holds].kind = "given" /\ u.val # Null /\ u.kind = call.retConv
    BY <1>6 DEF Fits, Clearing
  <2>2. Ret /\ ~Stays => \A r \in OfRet : r \in T
    <3> SUFFICES ASSUME Ret, ~Stays, NEW r \in OfRet, r # self
                 PROVE  r \in T
      BY <1>3
    <3>1. r = holds /\ holds # 0 /\ heap[holds].kind # "wrapped"
      BY <1>6
    <3>2. hr = "S_OK" /\ u.kind \in Clearing
      <4>1. u.kind # "ComObject_byRef" /\ u.kind \notin {"ComObject", "DISPATCH"}
        BY <1>6, <3>1 DEF RetConvs
      <4> QED
        BY <1>6, <3>1, <4>1 DEF Fits
    <3>3. holds \in Deleted(u) \cup Taken(u)
      BY <3>2 DEF Deleted, Taken, Clearing
    <3> QED
      BY <1>3, <3>1, <3>2, <3>3
  <2>3. Stays => OfRet = {self, holds}
    BY <1>6, <2>1
  <2>4. Stays => holds \notin T
    <3>1. Stays => holds # self
      <4>1. Stays => retUnm \in 1..m
        BY <1>2 DEF Ret
      <4> QED
        BY <1>2, <4>1, UnmFacts
    <3>2. Stays => \A r \in Deleted(u) \cup Taken(u) : r = self
      BY <2>1 DEF Deleted, Taken
    <3> QED
      BY <1>3, <3>1, <3>2
  <2> QED
    BY <1>3, <2>1, <2>2, <2>3, <2>4
<1> HIDE DEF self, holds
<1>8. /\ (Ret' <=> Ret) /\ unms'[retUnm'] = u
      /\ Stays => result' = u.val
      /\ RetJava' <=> Stays
      /\ OfRet' = IF Stays THEN {holds} ELSE {}
      /\ outcome' \in {"none", "ComException"} /\ (hr = "S_OK" => outcome' = "none")
  <2>1. (Ret' <=> Ret) /\ unms'[retUnm'] = u
    BY <1>1 DEF Ret, convVars, javaVars
  <2>2. RetRef' = IF retUnm = 0 THEN 0 ELSE holds
    BY <1>1 DEF RetRef, convVars, holds
  <2>3. RetJava' <=> Stays
    BY <1>1, <1>6, <2>1, <2>2 DEF RetJava, javaVars
  <2>4. OfRet' = IF Stays THEN {holds} ELSE {}
    BY <1>1, <1>6, <2>1, <2>2, <2>3 DEF OfRet, Before
  <2>5. Stays => result' = u.val
    <3> SUFFICES ASSUME Stays
                 PROVE  result' = u.val
      OBVIOUS
    <3>1. hr = "S_OK" /\ retUnm # 0 /\ call.retConv # "HRESULT"
      BY <1>6, <1>7
    <3>2. result' = Unmarshal(u)
      BY <3>1 DEF ReturnFromNative
    <3>3. u.kind \in {"ComObject", "DISPATCH"}
      BY <1>7
    <3> QED
      BY <3>2, <3>3 DEF Unmarshal
  <2>6. outcome' \in {"none", "ComException"} /\ (hr = "S_OK" => outcome' = "none")
    BY <1>2 DEF ReturnFromNative
  <2> QED
    BY <2>1, <2>3, <2>4, <2>5, <2>6
<1> HIDE DEF u, Stays
<1>9. /\ OfRet' \subseteq OfRet /\ \A r \in OfRet : r \notin T => r \in OfRet'
      /\ \A r \in OfRet' : r \notin T
  BY <1>2, <1>6, <1>7, <1>8
<1>10. \A i \in 1..n : /\ refs'[i] = refs[i] /\ refs'[i] \in 0..Len(heap')
                       /\ (refs[i] # 0 => heap'[refs[i]].kind = heap[refs[i]].kind)
                       /\ OfParam(i)' = OfParam(i) /\ (Acquired(i)' <=> Acquired(i))
  <2> SUFFICES ASSUME NEW i \in 1..n
               PROVE  /\ refs'[i] = refs[i] /\ refs'[i] \in 0..Len(heap')
                      /\ (refs[i] # 0 => heap'[refs[i]].kind = heap[refs[i]].kind)
                      /\ OfParam(i)' = OfParam(i) /\ (Acquired(i)' <=> Acquired(i))
    OBVIOUS
  <2>1. refs'[i] = refs[i] /\ refs[i] \in 0..L
    BY <1>1, <1>2 DEF javaVars
  <2>2. refs[i] # 0 => heap'[refs[i]].kind = heap[refs[i]].kind
    BY <1>2, <1>5, <2>1
  <2>3. refs'[i] \in 0..Len(heap')
    BY <1>4, <2>1
  <2>4. Acquired(i)' <=> Acquired(i)
    BY <1>1, <2>1, <2>2 DEF Acquired, javaVars
  <2> QED
    BY <2>1, <2>2, <2>3, <2>4 DEF OfParam
<1> HIDE DEF L
<1>11. ShapeInv'
  BY <1>1, <1>8, <1>10 DEF Ownership, ShapeInv, javaVars, convVars
<1>12. FlowInv'
  BY <1>1, <1>2, <1>8 DEF FlowInv, Before, javaVars, convVars
\* What nobody claims, if it is not given back.
<1>13. \A r \in 1..L : Loose(heap, post, unms, r) /\ r \notin T => Loose(heap', post', unms', r)
  BY <1>1, <1>2, <1>4, <1>5 DEF Loose, convVars, L
<1>14. ~call.inout =>
         /\ \A r \in OfRet : Loose(heap, post, unms, r) /\ r \in 1..L
         /\ \A i \in 1..n : \A r \in OfParam(i) :
              /\ Loose(heap, post, unms, r) /\ r \in 1..L /\ r \notin OfRet
              /\ \A j \in 1..n : i # j => r \notin OfParam(j)
  BY <1>2 DEF Ownership, ApartInv, Loose, L
<1>15. TurnInv'
  <2> DEFINE Y == IF call.inout THEN {retUnm} ELSE {}
  <2>1. ASSUME NEW i \in 1..Len(post), NEW r \in Claim(heap, unms, post[i]), r \in T
        PROVE  IF IsOut(post[i]) THEN post[i].unm \in Y ELSE heap[r].kind = "heldBstr"
    <3>1. /\ DOMAIN post = 1..Len(post) /\ \A q \in 1..Len(post) : Claim(heap, unms, post[q]) \subseteq 1..L
      BY <1>2, WorldFacts DEF L
    <3>2. r # 0 /\ Claimed(heap, post, unms, r)
      BY <1>2, <2>1, <3>1 DEF Claimed, L
    <3>3. call.inout /\ retUnm # 0 /\ r \in Owned(heap, unms[retUnm])
      <4>1. (call.inout \/ (Ret /\ r \in OfRet)) /\ retUnm # 0 /\ r \in Owned(heap, u)
        BY <1>6, <2>1, <3>2
      <4>2. ~call.inout => ~Claimed(heap, post, unms, r)
        BY <1>14, <4>1 DEF Loose
      <4> QED
        BY <3>2, <4>1, <4>2 DEF u
    <3>4. CASE IsOut(post[i])
      <4>1. post[i].unm \in 1..m /\ r \in Owned(heap, unms[post[i].unm])
        BY <1>2, <2>1, <3>1, <3>4 DEF World, Stacked, Claim
      <4>2. \A k, l \in 1..m : k # l => Owned(heap, unms[k]) \cap Owned(heap, unms[l]) = {}
        BY <1>2 DEF World, Linked
      <4>3. post[i].unm = retUnm
        BY <1>2, <3>3, <4>1, <4>2
      <4> QED
        BY <3>3, <3>4, <4>3
    <3>5. CASE ~IsOut(post[i])
      <4>1. Answers(post, retUnm)
        BY <1>1, <1>2, <3>3 DEF Ownership, OutInv, Before
      <4>2. PICK j \in 1..Len(post) : IsOut(post[j]) /\ post[j].unm = retUnm
        BY <4>1 DEF Answers, OutActs
      <4>3. r \in Claim(heap, unms, post[j]) /\ i # j
        BY <3>3, <3>5, <4>2 DEF Claim
      <4>4. \A a, b \in 1..Len(post) : a < b => \A q \in Claim(heap, unms, post[a]) \cap Claim(heap, unms, post[b]) :
              heap[q].kind = "heldBstr" /\ IsOut(post[a]) /\ ~IsOut(post[b])
        BY <1>2, <3>1 DEF World, Stacked
      <4>5. i < j \/ j < i
        BY <4>3
      <4>6. heap[r].kind = "heldBstr"
        BY <2>1, <4>3, <4>4, <4>5
      <4> QED
        BY <3>5, <4>6
    <3> QED
      BY <3>4, <3>5
  <2>2. Due(heap', post, unms, Y)
    <3>1. {} \subseteq Y /\ World(heap, post, unms) /\ Due(heap, post, unms, {}) /\ Spent(heap, heap', T)
      BY <1>2, <1>3
    <3> HIDE DEF Y
    <3> QED
      BY <2>1, <3>1, SpentDue
  <2>3. ASSUME call.inout, hr = "S_OK", NEW a \in OutActs(post), NEW r \in Claim(heap, unms, a)
        PROVE  heap'[r].frees = 0
    <3>1. Fresh(heap, r) /\ r \in 1..L
      BY <1>2, <2>3, OutActFacts DEF L
    <3> QED
      BY <1>3, <2>3, <3>1 DEF Fresh, L
  <2>4. \A a \in OutActs(post) : Claim(heap', unms, a) = Claim(heap, unms, a)
    BY <1>4 DEF OutActs
  <2> QED
    BY <1>1, <1>4, <2>2, <2>3, <2>4 DEF TurnInv, javaVars, convVars
<1>16. OutInv'
  <2>1. Outs(call.params, post, unms, n)
    BY <1>1 DEF Ownership, OutInv
  <2>2. \A a \in OutActs(post) : ~Acquired(a.param)
    BY <1>2, <2>1 DEF Outs, ForOut, Conv
  <2>3. \A a \in OutActs(post) : a.param \in 1..n /\ (~call.inout => a.unm # retUnm)
    BY <2>1 DEF Ownership, OutInv, Outs
  <2> QED
    BY <1>1, <1>10, <2>1, <2>2, <2>3 DEF OutInv, Before, javaVars, convVars
<1>17. RetInv'
  <2>1. Ret' => /\ u.kind = call.retConv /\ call.retConv \in RetConvs
                /\ hr # "S_OK" \/ outcome' # "none" => u.holds = 0
    BY <1>2, <1>6, <1>8 DEF holds
  <2>2. Stays => heap'[holds].kind = "given"
    <3>1. Stays => holds \in 1..L
      BY <1>6 DEF Stays
    <3> QED
      BY <1>5, <1>7, <3>1
  <2>3. RetJava' => RetRef' = holds
    <3>1. RetJava' => retUnm # 0
      BY <1>6, <1>8 DEF Stays
    <3> QED
      BY <1>1, <3>1 DEF RetRef, convVars, holds, u
  <2> QED
    BY <1>1, <1>7, <1>8, <2>1, <2>2, <2>3 DEF RetInv, javaVars
<1>18. RefsInv'
  <2>1. \A i \in 1..n : Acquired(i)' => Conv(i)' = "DISPATCH" /\ heap'[refs'[i]].kind = "dispatch"
    BY <1>1, <1>2, <1>10 DEF Acquired
  <2> QED
    BY <1>1, <2>1 DEF RefsInv, Before
<1>19. ApartInv'
  <2>1. ~call.inout =>
          /\ \A r \in OfRet' : Loose(heap', post', unms', r)
          /\ \A i \in 1..n : \A r \in OfParam(i)' :
               /\ Loose(heap', post', unms', r) /\ r \notin OfRet'
               /\ \A j \in 1..n : i # j => r \notin OfParam(j)'
    <3>1. ~call.inout => \A r \in 1..L : r \in T => r \in OfRet
      <4>1. \A r \in 1..L : r # 0
        BY <1>2 DEF L
      <4> QED
        BY <1>6, <4>1
    <3> QED
      BY <1>9, <1>10, <1>13, <1>14, <3>1
  <2> QED
    BY <1>1, <2>1 DEF ApartInv, javaVars
<1>20. KindsInv'
  <2> SUFFICES ASSUME NEW r \in 1..L
               PROVE  /\ heap'[r].kind = "dispatched" => call.via = "dispatch"
                      /\ heap'[r].kind = "wrapped" => heap'[r].owners >= 1
    BY <1>1, <1>4 DEF KindsInv, javaVars
  <2>1. heap[r].owners \in Nat /\ heap'[r].owners \in Nat
    BY <1>2, <1>4, Counts DEF L
  <2> QED
    BY <1>5, <2>1 DEF Ownership, KindsInv, L
<1>21. FreedOnce' /\ NoUseAfterFree'
  <2>1. ASSUME NEW r \in 1..L, heap'[r].frees + heap'[r].owners > 1
        PROVE  OwnedTwice(r)'
    <3>1. CASE r \notin T
      BY <1>1, <1>2, <1>5, <2>1, <3>1 DEF Ownership, FreedOnce, OwnedTwice, javaVars, L
    <3>2. CASE r \in T
      <4>1. r # 0
        BY <1>2 DEF L
      <4>2. call.inout \/ r \in OfRet
        BY <1>6, <3>2, <4>1
      <4>3. CASE call.inout
        BY <1>1, <4>3 DEF OwnedTwice, javaVars
      <4>4. CASE ~call.inout
        <5>1. Fresh(heap, r)
          BY <1>14, <4>2, <4>4 DEF Loose
        <5>2. heap'[r].frees + heap'[r].owners = 1
          BY <1>5, <3>2, <5>1 DEF Fresh
        <5> QED
          BY <2>1, <5>2
      <4> QED
        BY <4>3, <4>4
    <3> QED
      BY <3>1, <3>2
  <2> QED
    BY <1>1, <1>2, <1>4, <2>1 DEF FreedOnce, NoUseAfterFree
<1>22. CoverInv'
  <2> SUFFICES ASSUME NEW r \in 1..L, Fresh(heap', r)
               PROVE  Claimed(heap', post', unms', r) \/ r \in OfRet' \/ (\E i \in 1..n : r \in OfParam(i)') \/ Lost(r)'
    BY <1>1, <1>4 DEF CoverInv
  <2>1. Fresh(heap, r) /\ r \notin T /\ heap'[r].kind = heap[r].kind
    BY <1>5
  <2>2. Claimed(heap, post, unms, r) \/ r \in OfRet \/ (\E i \in 1..n : r \in OfParam(i)) \/ Lost(r)
    BY <1>2, <2>1 DEF Ownership, CoverInv, L
  <2>3. Lost(r) => Lost(r)'
    BY <1>2, <2>1 DEF Lost
  <2>4. Claimed(heap, post, unms, r) => Claimed(heap', post', unms', r)
    BY <1>1, <1>4 DEF convVars
  <2> QED
    BY <1>9, <1>10, <2>1, <2>2, <2>3, <2>4
<1> QED
  BY <1>11, <1>12, <1>15, <1>16, <1>17, <1>18, <1>19, <1>20, <1>21, <1>22 DEF Ownership

-----------------------------------------------------------------------------
(* The post actions.                                                       *)

\* Whatever the first post action gives back is its own claim.
LEMMA PopStep ==
  ASSUME Ownership, RunPostAction, NEW T, Spent(heap, heap', T),
         \A r \in T : r # 0 => r \in Claim(heap, unms, Head(post))
  PROVE  /\ FlowInv' /\ TurnInv' /\ RetInv' /\ KindsInv' /\ FreedOnce'
         /\ (Ret' <=> Ret) /\ (RetJava' <=> RetJava) /\ OfRet' = OfRet
         /\ World(heap, post, unms) /\ World(heap, post', unms) /\ Len(heap) \in Nat /\ Len(heap') = Len(heap)
         /\ \A r \in 1..Len(heap) : /\ heap'[r].kind = heap[r].kind
                                    /\ Fresh(heap', r) <=> Fresh(heap, r) /\ r \notin T
                                    /\ Claimed(heap', post', unms', r) <=> Claimed(heap, post', unms, r)
                                    /\ Claimed(heap, post, unms, r) <=>
                                         \/ r \in Claim(heap, unms, Head(post))
                                         \/ Claimed(heap, post', unms, r)
                                    /\ Loose(heap, post, unms, r) => Loose(heap', post', unms', r)
         /\ \A r : Lost(r) /\ r \in 1..Len(heap) => Lost(r)'
<1> DEFINE L == Len(heap)
           m == Len(unms)
           X == IF call.inout THEN {retUnm} ELSE {}
           a == Head(post)
<1>1. /\ pc = "post" /\ pc' = "post" /\ post # <<>> /\ post' = Tail(post) /\ n' = n
      /\ UNCHANGED <<call, step, convVars, hr, result, outcome, replaced>>
  BY DEF RunPostAction, n
<1>2. /\ World(heap, post, unms) /\ Due(heap, post, unms, X) /\ heap \in Seq(HeapEntry)
      /\ DOMAIN heap = 1..L /\ L \in Nat /\ DOMAIN unms = 1..m /\ m \in Nat
      /\ DOMAIN post = 1..Len(post) /\ Len(post) \in Nat \ {0} /\ 1 \in 1..Len(post) /\ a = post[1]
      /\ call.via # "dispatch"
  <2>1. World(heap, post, unms) /\ Due(heap, post, unms, X)
    BY <1>1 DEF Ownership, TurnInv
  <2>2. /\ DOMAIN heap = 1..L /\ L \in Nat /\ DOMAIN unms = 1..m /\ m \in Nat /\ DOMAIN post = 1..Len(post)
    BY <2>1, WorldFacts
  <2>3. post \in Seq(PostAct) /\ heap \in Seq(HeapEntry)
    BY <2>1 DEF World
  <2>4. Len(post) \in Nat \ {0} /\ a = post[1]
    BY <1>1, <2>3, Behead
  <2>5. call.via # "dispatch"
    BY <1>1 DEF Ownership, FlowInv
  <2> QED
    BY <2>1, <2>2, <2>3, <2>4, <2>5
<1>3. /\ World(heap, Tail(post), unms)
      /\ \A r : Claimed(heap, post, unms, r) <=> (r \in Claim(heap, unms, a) \/ Claimed(heap, Tail(post), unms, r))
      /\ \A i \in 1..Len(Tail(post)) : \A r \in Claim(heap, unms, a) \cap Claim(heap, unms, Tail(post)[i]) :
           heap[r].kind = "heldBstr" /\ IsOut(a) /\ ~IsOut(Tail(post)[i])
      /\ Due(heap, Tail(post), unms, X)
  BY <1>1, <1>2, PoppedAct
<1>4. /\ World(heap', post', unms') /\ Len(heap') = L /\ heap' \in Seq(HeapEntry) /\ DOMAIN heap' = 1..L
      /\ \A i \in 1..Len(post') : Claim(heap', unms', post'[i]) = Claim(heap, unms, post'[i])
      /\ \A r : Claimed(heap', post', unms', r) <=> Claimed(heap, post', unms, r)
  <2>1. unms' = unms
    BY <1>1 DEF convVars
  <2>2. World(heap, post', unms)
    BY <1>1, <1>3
  <2>3. /\ World(heap', post', unms)
        /\ \A i \in 1..Len(post') : Claim(heap', unms, post'[i]) = Claim(heap, unms, post'[i])
        /\ \A r : Claimed(heap', post', unms, r) <=> Claimed(heap, post', unms, r)
    BY <2>2, SpentWorld
  <2>4. Len(heap') = L /\ heap' \in Seq(HeapEntry)
    BY DEF Spent
  <2> QED
    BY <2>1, <2>3, <2>4
<1>5. \A r \in 1..L : /\ Fresh(heap', r) <=> Fresh(heap, r) /\ r \notin T
                      /\ r \notin T => heap'[r].frees = heap[r].frees /\ heap'[r].owners = heap[r].owners
                      /\ heap'[r].kind = heap[r].kind /\ heap'[r].owners >= heap[r].owners
                      /\ heap'[r].frees + heap'[r].owners = heap[r].frees + heap[r].owners + IF r \in T THEN 1 ELSE 0
  <2>1. \A r \in 1..L : /\ Fresh(heap', r) <=> Fresh(heap, r) /\ r \notin T
                        /\ r \notin T => heap'[r].frees = heap[r].frees /\ heap'[r].owners = heap[r].owners
    BY <1>2, SpentFresh
  <2>2. \A r \in 1..L :
          /\ heap'[r].kind = heap[r].kind /\ heap'[r].owners >= heap[r].owners
          /\ heap'[r].frees + heap'[r].owners = heap[r].frees + heap[r].owners + IF r \in T THEN 1 ELSE 0
    BY DEF Spent
  <2> QED
    BY <2>1, <2>2
<1>6. /\ (Ret' <=> Ret) /\ RetRef' = RetRef /\ (RetJava' <=> RetJava) /\ OfRet' = OfRet
      /\ Ret => retUnm \in 1..m /\ RetRef = unms[retUnm].holds /\ unms'[retUnm'] = unms[retUnm]
  <2>1. (Ret' <=> Ret) /\ RetRef' = RetRef
    BY <1>1 DEF Ret, RetRef, convVars
  <2>2. RetJava' <=> RetJava
    BY <1>1, <2>1 DEF RetJava
  <2>3. OfRet' = OfRet
    BY <1>1, <2>1, <2>2 DEF OfRet, Before
  <2>4. Ret => retUnm \in 1..m /\ RetRef = unms[retUnm].holds /\ unms'[retUnm'] = unms[retUnm]
    BY <1>1, <1>2 DEF Ownership, ShapeInv, Ret, RetRef, convVars
  <2> QED
    BY <2>1, <2>2, <2>3, <2>4
<1> HIDE DEF L
<1>7. FlowInv'
  <2>1. outcome # "crash"
    BY <1>1 DEF Ownership, FlowInv
  <2> QED
    BY <1>1, <1>2, <2>1 DEF FlowInv, Before
<1>8. TurnInv'
  <2>1. ASSUME NEW i \in 1..Len(post'), NEW r \in Claim(heap, unms, post'[i]), r \in T
        PROVE  heap[r].kind = "heldBstr" /\ ~IsOut(post'[i])
    <3>1. r # 0
      <4>1. World(heap, post', unms)
        BY <1>1, <1>3
      <4>2. r \in 1..L
        BY <4>1, <2>1, WorldFacts DEF L
      <4> QED
        BY <1>2, <4>2 DEF L
    <3>2. r \in Claim(heap, unms, a)
      BY <2>1, <3>1
    <3> QED
      BY <1>1, <1>3, <2>1, <3>2
  <2>2. Due(heap', post', unms, X)
    <3>1. World(heap, post', unms) /\ Due(heap, post', unms, X) /\ X \subseteq X
      BY <1>1, <1>3
    <3>2. \A i \in 1..Len(post') : \A r \in Claim(heap, unms, post'[i]) :
            r \in T => IF IsOut(post'[i]) THEN post'[i].unm \in X ELSE heap[r].kind = "heldBstr"
      BY <2>1
    <3> HIDE DEF X
    <3> QED
      BY <3>1, <3>2, SpentDue
  <2>3. ASSUME call.inout, hr = "S_OK", NEW b \in OutActs(post'), NEW r \in Claim(heap', unms', b)
        PROVE  heap'[r].frees = 0
    <3>1. PICK i \in 1..Len(post') : b = post'[i] /\ IsOut(post'[i])
      BY DEF OutActs
    <3>2. r \in Claim(heap, unms, post'[i]) /\ r \notin T
      BY <1>4, <2>1, <2>3, <3>1
    <3>3. b \in OutActs(post)
      BY <1>1, <1>2, <2>3, PoppedOutActs
    <3>4. r \in Claim(heap, unms, b) /\ heap[r].frees = 0
      BY <1>1, <2>3, <3>1, <3>2, <3>3 DEF Ownership, TurnInv
    <3>5. r \in 1..L
      BY <1>2, <3>3, <3>4, OutActFacts DEF L
    <3> QED
      BY <1>5, <3>2, <3>4, <3>5
  <2>4. unms' = unms /\ call' = call /\ hr' = hr /\ retUnm' = retUnm
    BY <1>1 DEF convVars
  <2> QED
    BY <1>1, <1>4, <2>2, <2>3, <2>4 DEF TurnInv
<1>9. RetInv'
  <2>1. Ret' => /\ unms'[retUnm'] = unms[retUnm] /\ unms[retUnm].kind = call.retConv /\ call.retConv \in RetConvs
                /\ (hr # "S_OK" \/ outcome # "none" => unms[retUnm].holds = 0)
    BY <1>1, <1>6 DEF Ownership, RetInv
  <2>2. RetJava => /\ result = unms[retUnm].val /\ result # Null /\ heap[RetRef].kind = "given"
                   /\ Ret /\ RetRef # 0
    BY DEF Ownership, RetInv, RetJava
  <2>3. RetJava => RetRef \in 1..L
    BY <1>2, <1>6, <2>2, UnmFacts DEF L
  <2>4. RetJava => heap'[RetRef].kind = "given"
    BY <1>5, <2>2, <2>3
  <2> QED
    BY <1>1, <1>6, <2>1, <2>2, <2>4 DEF RetInv
<1>10. KindsInv'
  <2> SUFFICES ASSUME NEW r \in 1..L
               PROVE  /\ heap'[r].kind = "dispatched" => call.via = "dispatch"
                      /\ heap'[r].kind = "wrapped" => heap'[r].owners >= 1
    BY <1>1, <1>4 DEF KindsInv
  <2>1. heap[r].owners \in Nat /\ heap'[r].owners \in Nat
    BY <1>2, <1>4, Counts DEF L
  <2> QED
    BY <1>5, <2>1 DEF Ownership, KindsInv, L
<1>11. FreedOnce'
  <2>1. ASSUME NEW r \in 1..L, heap'[r].frees + heap'[r].owners > 1
        PROVE  OwnedTwice(r)'
    <3>1. CASE r \notin T
      BY <1>1, <1>2, <1>5, <2>1, <3>1 DEF Ownership, FreedOnce, OwnedTwice, L
    <3>2. CASE r \in T
      <4>1. r # 0
        BY <1>2 DEF L
      <4>2. r \in Claim(heap, unms, post[1])
        BY <1>2, <3>2, <4>1
      <4>3. Fresh(heap, r) \/ IF IsOut(post[1]) THEN post[1].unm \in X ELSE heap[r].kind = "heldBstr"
        BY <1>2, <4>2 DEF Due
      <4>4. CASE Fresh(heap, r)
        <5>1. heap'[r].frees + heap'[r].owners = 1
          BY <1>5, <3>2, <4>4 DEF Fresh
        <5> QED
          BY <2>1, <5>1
      <4>5. CASE ~Fresh(heap, r)
        <5>1. call.inout \/ heap'[r].kind = "heldBstr"
          BY <1>5, <4>3, <4>5
        <5> QED
          BY <1>1, <5>1 DEF OwnedTwice
      <4> QED
        BY <4>4, <4>5
    <3> QED
      BY <3>1, <3>2
  <2> QED
    BY <1>4, <2>1 DEF FreedOnce
<1>12. \A r \in 1..L : Loose(heap, post, unms, r) => Loose(heap', post', unms', r)
  <2> SUFFICES ASSUME NEW r \in 1..L, Loose(heap, post, unms, r)
               PROVE  Loose(heap', post', unms', r)
    OBVIOUS
  <2>1. r # 0 /\ Fresh(heap, r) /\ r \notin Claim(heap, unms, a) /\ ~Claimed(heap, post', unms, r)
    BY <1>1, <1>2, <1>3 DEF Loose, L
  <2>2. r \notin T
    BY <2>1
  <2> QED
    BY <1>4, <1>5, <2>1, <2>2 DEF Loose
<1>13. \A r : Lost(r) /\ r \in 1..L => Lost(r)'
  <2>1. Lossy => Lossy'
    BY <1>1 DEF Lossy
  <2> QED
    BY <1>1, <1>5, <2>1 DEF Lost
<1>14. World(heap, post', unms) /\ \A r : Claimed(heap, post, unms, r) <=>
                                     (r \in Claim(heap, unms, a) \/ Claimed(heap, post', unms, r))
  BY <1>1, <1>3
<1> QED
  BY <1>2, <1>4, <1>5, <1>6, <1>7, <1>8, <1>9, <1>10, <1>11, <1>12, <1>13, <1>14 DEF L

LEMMA CleanUpStep ==
  ASSUME Ownership, RunPostAction, ~IsOut(Head(post))
  PROVE  Ownership'
<1> DEFINE L == Len(heap)
           T == Head(post).res
<1>1. /\ pc = "post" /\ pc' = "post" /\ post # <<>> /\ post' = Tail(post) /\ n' = n /\ heap' = FreeAll(heap, T)
      /\ UNCHANGED <<call, step, convVars, hr, result, outcome, replaced, args, refs, stale>>
      /\ \A i : Conv(i)' = Conv(i)
  BY DEF RunPostAction, n, IsOut, Conv
<1>2. /\ Spent(heap, heap', T) /\ \A r \in T : r # 0 => r \in Claim(heap, unms, Head(post))
  <2>1. World(heap, post, unms)
    BY DEF Ownership, TurnInv
  <2>2. heap \in Seq(HeapEntry)
    BY <2>1 DEF World
  <2> QED
    BY <1>1, <2>2, SpentFree DEF Claim
<1> HIDE DEF T
<1>3. /\ FlowInv' /\ TurnInv' /\ RetInv' /\ KindsInv' /\ FreedOnce'
      /\ (RetJava' <=> RetJava) /\ OfRet' = OfRet
      /\ World(heap, post, unms) /\ L \in Nat /\ Len(heap') = L
      /\ \A r \in 1..L : /\ heap'[r].kind = heap[r].kind
                         /\ Fresh(heap', r) <=> Fresh(heap, r) /\ r \notin T
                         /\ Claimed(heap', post', unms', r) <=> Claimed(heap, post', unms, r)
                         /\ Claimed(heap, post, unms, r) <=>
                              \/ r \in Claim(heap, unms, Head(post))
                              \/ Claimed(heap, post', unms, r)
                         /\ Loose(heap, post, unms, r) => Loose(heap', post', unms', r)
      /\ \A r : Lost(r) /\ r \in 1..L => Lost(r)'
  BY <1>2, PopStep
<1>4. DOMAIN heap = 1..L /\ DOMAIN heap' = 1..L
  <2>1. DOMAIN heap = 1..L
    BY <1>3, WorldFacts
  <2>2. heap' \in Seq(HeapEntry)
    BY <1>2 DEF Spent
  <2> QED
    BY <1>3, <2>1, <2>2
<1>5. \A i \in 1..n : /\ refs'[i] = refs[i] /\ refs[i] \in 0..L
                      /\ (refs[i] # 0 => heap'[refs[i]].kind = heap[refs[i]].kind)
                      /\ OfParam(i)' = OfParam(i) /\ (Acquired(i)' <=> Acquired(i))
  <2> SUFFICES ASSUME NEW i \in 1..n
               PROVE  /\ refs'[i] = refs[i] /\ refs[i] \in 0..L
                      /\ (refs[i] # 0 => heap'[refs[i]].kind = heap[refs[i]].kind)
                      /\ OfParam(i)' = OfParam(i) /\ (Acquired(i)' <=> Acquired(i))
    OBVIOUS
  <2>1. refs'[i] = refs[i] /\ refs[i] \in 0..L
    BY <1>1 DEF Ownership, ShapeInv
  <2>2. refs[i] # 0 => heap'[refs[i]].kind = heap[refs[i]].kind
    BY <1>3, <2>1
  <2>3. Acquired(i)' <=> Acquired(i)
    BY <1>1, <2>1, <2>2 DEF Acquired
  <2> QED
    BY <2>1, <2>2, <2>3 DEF OfParam
<1> HIDE DEF L
<1>6. ShapeInv'
  BY <1>1, <1>3, <1>5 DEF Ownership, ShapeInv, convVars, L
<1>7. OutInv'
  <2>1. \A b \in OutActs(post') : b \in OutActs(post)
    BY <1>1, <1>3, PoppedOutActs
  <2>2. Outs(call.params, post, unms, n) /\ \A b \in OutActs(post) : ~Acquired(b.param) /\ (~call.inout => b.unm # retUnm)
    BY <1>1 DEF Ownership, OutInv
  <2>3. Outs(call.params, post', unms', n) /\ \A b \in OutActs(post') : b.param \in 1..n
    BY <1>1, <2>1, <2>2 DEF Outs, convVars
  <2> QED
    BY <1>1, <1>5, <2>1, <2>2, <2>3 DEF OutInv, Before, convVars
<1>8. RefsInv'
  BY <1>1, <1>5 DEF Ownership, RefsInv, Before, Acquired
<1>9. ApartInv'
  <2>1. ~call.inout =>
          /\ \A r \in OfRet : Loose(heap, post, unms, r) /\ r \in 1..L
          /\ \A i \in 1..n : \A r \in OfParam(i) :
               /\ Loose(heap, post, unms, r) /\ r \in 1..L /\ r \notin OfRet
               /\ \A j \in 1..n : i # j => r \notin OfParam(j)
    BY <1>4 DEF Ownership, ApartInv, Loose
  <2> QED
    BY <1>1, <1>3, <1>5, <2>1 DEF ApartInv, L
<1>10. NoUseAfterFree'
  BY <1>1 DEF Ownership, NoUseAfterFree
<1>11. CoverInv'
  <2> SUFFICES ASSUME outcome # "crash", NEW r \in 1..L, Fresh(heap', r)
               PROVE  Claimed(heap', post', unms', r) \/ r \in OfRet' \/ (\E i \in 1..n : r \in OfParam(i)') \/ Lost(r)'
    BY <1>1, <1>3 DEF CoverInv, L
  <2>1. Fresh(heap, r) /\ r \notin T
    BY <1>3 DEF L
  <2>2. Claimed(heap, post, unms, r) \/ r \in OfRet \/ (\E i \in 1..n : r \in OfParam(i)) \/ Lost(r)
    BY <2>1 DEF Ownership, CoverInv, L
  <2>3. Claimed(heap, post, unms, r) => Claimed(heap', post', unms', r)
    BY <1>3, <2>1 DEF Claim, T, L
  <2> QED
    BY <1>3, <1>5, <2>2, <2>3 DEF L
<1> QED
  BY <1>3, <1>6, <1>7, <1>8, <1>9, <1>10, <1>11 DEF Ownership

\* An OutParamHandler: what a raw pointer is about goes on to the finally block.
LEMMA OutParamStep ==
  ASSUME Ownership, RunPostAction, IsOut(Head(post))
  PROVE  Ownership'
<1>a. PICK a : a = Head(post)
  OBVIOUS
<1>u. PICK u : u = unms[a.unm]
  OBVIOUS
<1> DEFINE L == Len(heap)
           P == a.param
           T == Deleted(u) \cup Taken(u)
           X == IF call.inout THEN {retUnm} ELSE {}
<1>1. /\ pc = "post" /\ pc' = "post" /\ post # <<>> /\ post' = Tail(post) /\ n' = n
      /\ UNCHANGED <<call, step, convVars, hr, result, outcome, replaced>>
      /\ \A i : Conv(i)' = Conv(i)
      /\ args' = [args EXCEPT ![P] = Holder(Unmarshal(u))] /\ refs' = [refs EXCEPT ![P] = u.holds]
      /\ heap' = Delete(UnmarshalHeap(heap, u), u)
      /\ stale' = (stale \/ \E r \in Read(u) : heap[r].frees > 0)
  BY <1>a, <1>u DEF RunPostAction, n, IsOut, Conv
<1>2. /\ World(heap, post, unms) /\ Due(heap, post, unms, X) /\ heap \in Seq(HeapEntry)
      /\ a \in OutActs(post) /\ a.unm \in 1..Len(unms) /\ Claim(heap, unms, a) = Owned(heap, u)
      /\ \A r \in Owned(heap, u) : r \in 1..L /\ (Fresh(heap, r) \/ (call.inout /\ a.unm = retUnm))
  <2>1. World(heap, post, unms) /\ Due(heap, post, unms, X)
    BY <1>1 DEF Ownership, TurnInv
  <2>2. a \in OutActs(post)
    BY <1>1, <1>a, <2>1, PoppedOutActs
  <2>3. /\ a.unm \in 1..Len(unms) /\ Claim(heap, unms, a) = Owned(heap, u) /\ Claim(heap, unms, a) \subseteq 1..L
        /\ \A r \in Claim(heap, unms, a) : Fresh(heap, r) \/ a.unm \in X
    <3> HIDE DEF X
    <3> QED
      BY <1>u, <2>1, <2>2, OutActFacts
  <2> QED
    BY <2>1, <2>2, <2>3 DEF World
<1>3. /\ P \in 1..n /\ ForOut(Conv(P), u.kind) /\ ~Acquired(P)
      /\ \A b \in OutActs(post) : b # a => b.param # P
  <2>1. Outs(call.params, post, unms, n) /\ \A b \in OutActs(post) : ~Acquired(b.param)
    BY <1>1 DEF Ownership, OutInv
  <2>2. a.param \in 1..n /\ ForOut(Conv(a.param), u.kind) /\ \A b \in OutActs(post) : b # a => b.param # a.param
    BY <1>2, <1>u, <2>1 DEF Outs, Conv
  <2>3. ~Acquired(a.param)
    BY <1>2, <2>1
  <2> QED
    BY <2>2, <2>3
<1>4. /\ u.self \in Owned(heap, u) /\ u.holds \in 0..L /\ u.holds # u.self
      /\ (u.holds # 0 => Fits(u, heap[u.holds].kind) /\ u.holds \in 1..L)
      /\ (u.kind \in Clearing /\ u.holds # 0 => u.holds \in Owned(heap, u))
      /\ \A r \in T : r = 0 \/ r \in Owned(heap, u)
  <2>1. World(heap, post, unms) /\ a.unm \in 1..Len(unms)
    BY <1>2
  <2> QED
    BY <1>u, <2>1, UnmFacts
<1>5. /\ Spent(heap, heap', T) /\ \A r \in T : r # 0 => r \in Claim(heap, unms, Head(post))
  BY <1>1, <1>2, <1>4, <1>a, SpentWriteBack
<1> HIDE DEF T
<1>6. /\ FlowInv' /\ TurnInv' /\ RetInv' /\ KindsInv' /\ FreedOnce'
      /\ (RetJava' <=> RetJava) /\ OfRet' = OfRet
      /\ L \in Nat /\ Len(heap') = L
      /\ \A r \in 1..L : /\ heap'[r].kind = heap[r].kind
                         /\ Fresh(heap', r) <=> Fresh(heap, r) /\ r \notin T
                         /\ Claimed(heap', post', unms', r) <=> Claimed(heap, post', unms, r)
                         /\ Claimed(heap, post, unms, r) <=>
                              \/ r \in Claim(heap, unms, Head(post))
                              \/ Claimed(heap, post', unms, r)
                         /\ Loose(heap, post, unms, r) => Loose(heap', post', unms', r)
      /\ \A r : Lost(r) /\ r \in 1..L => Lost(r)'
  BY <1>5, PopStep
<1>7. DOMAIN heap = 1..L /\ DOMAIN heap' = 1..L
  <2>1. DOMAIN heap = 1..L
    BY <1>2, WorldFacts
  <2>2. heap' \in Seq(HeapEntry)
    BY <1>5 DEF Spent
  <2> QED
    BY <1>6, <2>1, <2>2
<1> HIDE DEF L, P
\* The other parameters.
<1>8. /\ n \in Nat /\ \A i \in 1..n : refs[i] \in 0..L
      /\ args = [ i \in 1..n |-> args[i] ] /\ refs = [ i \in 1..n |-> refs[i] ]
  BY DEF Ownership, ShapeInv, L
<1>9. /\ args' = [ i \in 1..n |-> args'[i] ] /\ refs' = [ i \in 1..n |-> refs'[i] ]
      /\ args'[P] = Holder(Unmarshal(u)) /\ refs'[P] = u.holds
      /\ \A i \in 1..n : i # P => args'[i] = args[i] /\ refs'[i] = refs[i]
  <2>1. DOMAIN args = 1..n /\ DOMAIN refs = 1..n
    BY <1>8
  <2>2. args' = [ i \in 1..n |-> args'[i] ] /\ args'[P] = Holder(Unmarshal(u)) /\ \A i \in 1..n : i # P => args'[i] = args[i]
    <3> DEFINE v == Holder(Unmarshal(u))
    <3>1. args' = [args EXCEPT ![P] = v]
      BY <1>1 DEF P
    <3> HIDE DEF v
    <3> QED
      BY <1>3, <2>1, <3>1 DEF v
  <2>3. refs' = [ i \in 1..n |-> refs'[i] ] /\ refs'[P] = u.holds /\ \A i \in 1..n : i # P => refs'[i] = refs[i]
    <3>1. refs' = [refs EXCEPT ![P] = u.holds]
      BY <1>1 DEF P
    <3> QED
      BY <1>3, <2>1, <3>1
  <2> QED
    BY <2>2, <2>3
<1>10. \A i \in 1..n : i # P => /\ OfParam(i)' = OfParam(i) /\ (Acquired(i)' <=> Acquired(i))
                                /\ (refs[i] # 0 => heap'[refs[i]].kind = heap[refs[i]].kind)
  <2> SUFFICES ASSUME NEW i \in 1..n, i # P
               PROVE  /\ OfParam(i)' = OfParam(i) /\ (Acquired(i)' <=> Acquired(i))
                      /\ (refs[i] # 0 => heap'[refs[i]].kind = heap[refs[i]].kind)
    OBVIOUS
  <2>1. refs[i] # 0 => heap'[refs[i]].kind = heap[refs[i]].kind
    BY <1>6, <1>8
  <2>2. Acquired(i)' <=> Acquired(i)
    BY <1>1, <1>9, <2>1 DEF Acquired
  <2> QED
    BY <1>9, <2>1, <2>2 DEF OfParam
\* The parameter that is written to.
<1>11. /\ Acquired(P)' <=> u.kind = "ComObject_byRef" /\ u.holds # 0 /\ heap[u.holds].kind # "wrapped"
       /\ OfParam(P)' = IF Acquired(P)' THEN {u.holds} ELSE {}
  <2>1. u.holds # 0 => heap'[u.holds].kind = heap[u.holds].kind
    BY <1>4, <1>6
  <2>2. Conv(P) \in {"DISPATCH", "ComObject_byRef"} <=> u.kind = "ComObject_byRef"
    BY <1>3 DEF ForOut
  <2>3. Acquired(P)' <=> u.kind = "ComObject_byRef" /\ u.holds # 0 /\ heap[u.holds].kind # "wrapped"
    BY <1>1, <1>9, <2>1, <2>2 DEF Acquired
  <2> QED
    BY <1>9, <2>3 DEF OfParam
<1>12. Acquired(P)' => /\ heap[u.holds].kind = "given" /\ u.val # Null /\ Conv(P) = "ComObject_byRef"
                       /\ u.holds \in Owned(heap, u) /\ u.holds \notin T /\ u.holds \in 1..L
                       /\ IsHolder(args'[P]) /\ Held(args'[P]) = u.val
  <2> SUFFICES ASSUME Acquired(P)'
               PROVE  /\ heap[u.holds].kind = "given" /\ u.val # Null /\ Conv(P) = "ComObject_byRef"
                      /\ u.holds \in Owned(heap, u) /\ u.holds \notin T /\ u.holds \in 1..L
                      /\ IsHolder(args'[P]) /\ Held(args'[P]) = u.val
    OBVIOUS
  <2>1. u.kind = "ComObject_byRef" /\ u.holds # 0 /\ heap[u.holds].kind # "wrapped"
    BY <1>11
  <2>2. heap[u.holds].kind = "given" /\ u.val # Null /\ Conv(P) = "ComObject_byRef" /\ u.holds \in 1..L
    BY <1>3, <1>4, <2>1 DEF Fits, ForOut, Clearing
  <2>3. u.holds \in Owned(heap, u)
    BY <2>1 DEF Owned
  <2>4. u.holds \notin T
    BY <1>4, <2>1 DEF T, Deleted, Taken
  <2>5. Unmarshal(u) = u.val
    BY <2>1 DEF Unmarshal
  <2>6. \A v : IsHolder(Holder(v)) /\ Held(Holder(v)) = v
    BY DEF IsHolder, Holder, Held, Boxed
  <2> QED
    BY <1>9, <2>2, <2>3, <2>4, <2>5, <2>6
<1>13. OfParam(P)' \subseteq Owned(heap, u) /\ \A r \in OfParam(P)' : r = u.holds /\ r \notin T /\ r \in 1..L
  BY <1>11, <1>12
\* What the unmarshaller has goes to the parameter, or is given back now.
<1>14. \A r \in Owned(heap, u) : r \notin T => r \in OfParam(P)'
  <2> SUFFICES ASSUME NEW r \in Owned(heap, u), r \notin T
               PROVE  r \in OfParam(P)'
    OBVIOUS
  <2>1. r = u.holds /\ u.holds # 0 /\ heap[u.holds].kind # "wrapped" /\ u.kind \notin Clearing
    BY DEF Owned, T, Deleted, Taken, Clearing
  <2>2. u.kind = "ComObject_byRef"
    BY <1>3, <1>4, <2>1 DEF Fits, ForOut
  <2> QED
    BY <1>11, <2>1, <2>2
<1>15. ShapeInv'
  <2>1. \A i \in 1..n : refs'[i] \in 0..Len(heap')
    BY <1>4, <1>6, <1>8, <1>9
  <2> QED
    BY <1>1, <1>9, <2>1 DEF Ownership, ShapeInv, convVars
<1>16. OutInv'
  <2>1. \A b \in OutActs(post') : b \in OutActs(post) /\ b # a
    BY <1>1, <1>2, <1>a, PoppedOutActs
  <2>2. Outs(call.params, post, unms, n) /\ \A b \in OutActs(post) : ~Acquired(b.param) /\ (~call.inout => b.unm # retUnm)
    BY <1>1 DEF Ownership, OutInv
  <2>3. Outs(call.params, post', unms', n) /\ \A b \in OutActs(post') : b.param \in 1..n /\ b.param # P
    BY <1>1, <1>3, <2>1, <2>2 DEF Outs, convVars
  <2> QED
    BY <1>1, <1>10, <2>1, <2>2, <2>3 DEF OutInv, Before, convVars
<1>17. RefsInv'
  <2>1. ASSUME NEW i \in 1..n, Acquired(i)'
        PROVE  \/ Conv(i)' = "DISPATCH" /\ heap'[refs'[i]].kind = "dispatch"
               \/ /\ Conv(i)' = "ComObject_byRef" /\ heap'[refs'[i]].kind = "given"
                  /\ IsHolder(args'[i]) /\ Held(args'[i]) # Null
    <3>1. CASE i = P
      BY <1>1, <1>6, <1>9, <1>12, <2>1, <3>1
    <3>2. CASE i # P
      <4>1. Acquired(i) /\ refs[i] # 0 /\ heap'[refs[i]].kind = heap[refs[i]].kind /\ refs'[i] = refs[i] /\ args'[i] = args[i]
        BY <1>9, <1>10, <2>1, <3>2 DEF Acquired
      <4> QED
        BY <1>1, <4>1 DEF Ownership, RefsInv
    <3> QED
      BY <3>1, <3>2
  <2> QED
    BY <1>1, <2>1 DEF RefsInv, Before
<1>18. ApartInv'
  <2>1. ASSUME ~call.inout
        PROVE  /\ \A r \in OfRet : Loose(heap, post, unms, r) /\ r \in 1..L
               /\ \A i \in 1..n : \A r \in OfParam(i) :
                    /\ Loose(heap, post, unms, r) /\ r \in 1..L /\ r \notin OfRet
                    /\ \A j \in 1..n : i # j => r \notin OfParam(j)
    BY <1>7, <2>1 DEF Ownership, ApartInv, Loose
  <2>2. ASSUME ~call.inout, NEW r \in OfParam(P)'
        PROVE  Loose(heap', post', unms', r) /\ ~Loose(heap, post, unms, r)
    <3>1. r \in 1..L /\ r \notin T /\ r \in Owned(heap, u) /\ Fresh(heap, r) /\ heap[r].kind = "given"
      BY <1>2, <1>11, <1>12, <1>13, <2>2
    <3>2. ~Claimed(heap, post', unms, r)
      <4>1. World(heap, post, unms) /\ post # <<>> /\ post' = Tail(post)
        BY <1>1, <1>2
      <4>2. World(heap, post', unms) /\ \A i \in 1..Len(post') : \A q \in Claim(heap, unms, a) \cap Claim(heap, unms, post'[i]) :
              heap[q].kind = "heldBstr"
        BY <1>a, <4>1, PoppedAct
      <4>3. DOMAIN post' = 1..Len(post')
        BY <4>2, WorldFacts
      <4>4. \A i \in 1..Len(post') : r \notin Claim(heap, unms, post'[i])
        BY <1>2, <3>1, <4>2
      <4> QED
        BY <4>3, <4>4 DEF Claimed
    <3>3. Claimed(heap, post, unms, r) /\ ~Claimed(heap', post', unms', r) /\ Fresh(heap', r)
      BY <1>2, <1>6, <1>a, <3>1, <3>2
    <3> QED
      BY <1>7, <3>1, <3>3 DEF Loose
  <2>3. ~call.inout => /\ \A r \in OfRet' : Loose(heap', post', unms', r)
                       /\ \A i \in 1..n : \A r \in OfParam(i)' :
                            /\ Loose(heap', post', unms', r) /\ r \notin OfRet'
                            /\ \A j \in 1..n : i # j => r \notin OfParam(j)'
    <3> SUFFICES ASSUME ~call.inout
                 PROVE  /\ \A r \in OfRet' : Loose(heap', post', unms', r)
                        /\ \A i \in 1..n : \A r \in OfParam(i)' :
                             /\ Loose(heap', post', unms', r) /\ r \notin OfRet'
                             /\ \A j \in 1..n : i # j => r \notin OfParam(j)'
      OBVIOUS
    <3>1. \A r \in OfRet' : Loose(heap', post', unms', r)
      BY <1>6, <2>1
    <3>2. ASSUME NEW i \in 1..n, NEW r \in OfParam(i)'
          PROVE  /\ Loose(heap', post', unms', r) /\ r \notin OfRet'
                 /\ \A j \in 1..n : i # j => r \notin OfParam(j)'
      <4>1. CASE i = P
        BY <1>6, <1>10, <2>1, <2>2, <3>2, <4>1
      <4>2. CASE i # P
        BY <1>6, <1>10, <2>1, <2>2, <3>2, <4>2
      <4> QED
        BY <4>1, <4>2
    <3> QED
      BY <3>1, <3>2
  <2> QED
    BY <1>1, <2>3 DEF ApartInv
<1>19. NoUseAfterFree'
  <2>1. ASSUME NEW r \in Read(u), heap[r].frees > 0
        PROVE  call.inout /\ hr = "E_FAIL"
    <3>1. r \in Owned(heap, u)
      BY <1>4 DEF Read, Clearing
    <3>2. r \in 1..L /\ (Fresh(heap, r) \/ (call.inout /\ a.unm = retUnm))
      BY <1>2, <3>1
    <3>3. heap[r].frees # 0
      BY <2>1
    <3>4. call.inout
      BY <3>2, <3>3 DEF Fresh
    <3>5. hr # "S_OK"
      BY <1>1, <1>2, <3>1, <3>3, <3>4 DEF Ownership, TurnInv
    <3> QED
      BY <3>4, <3>5 DEF Ownership, ShapeInv
  <2> QED
    BY <1>1, <2>1 DEF Ownership, NoUseAfterFree
<1>20. CoverInv'
  <2> SUFFICES ASSUME outcome # "crash", NEW r \in 1..L, Fresh(heap', r)
               PROVE  Claimed(heap', post', unms', r) \/ r \in OfRet' \/ (\E i \in 1..n : r \in OfParam(i)') \/ Lost(r)'
    BY <1>1, <1>6 DEF CoverInv
  <2>1. Fresh(heap, r) /\ r \notin T
    BY <1>6
  <2>2. Claimed(heap, post, unms, r) \/ r \in OfRet \/ (\E i \in 1..n : r \in OfParam(i)) \/ Lost(r)
    BY <2>1 DEF Ownership, CoverInv, L
  <2>3. Claimed(heap, post, unms, r) => Claimed(heap', post', unms', r) \/ r \in OfParam(P)'
    BY <1>2, <1>6, <1>14, <1>a, <2>1
  <2>4. \A i \in 1..n : r \in OfParam(i) => r \in OfParam(i)'
    BY <1>3, <1>10 DEF OfParam
  <2> QED
    BY <1>3, <1>6, <2>2, <2>3, <2>4
<1> QED
  BY <1>6, <1>15, <1>16, <1>17, <1>18, <1>19, <1>20 DEF Ownership

LEMMA RunPostActionStep == Ownership /\ RunPostAction => Ownership'
  BY CleanUpStep, OutParamStep

LEMMA LeaveNativeStep ==
  ASSUME Ownership, LeaveNative
  PROVE  Ownership'
<1>1. /\ pc = "post" /\ post = <<>> /\ step' = 1 /\ n' = n
      /\ UNCHANGED <<call, args, refs, convVars, heap, post, endVars>>
      /\ pc' = IF outcome = "none" THEN "java" ELSE IF n > 0 THEN "cleanup" ELSE "done"
      /\ \A i : Conv(i)' = Conv(i)
  BY DEF LeaveNative, n, Conv
<1>2. n \in Nat /\ pc' \in {"java", "cleanup", "done"} /\ (pc' = "done" => n = 0) /\ (pc' = "java" <=> outcome = "none")
  BY <1>1 DEF Ownership, ShapeInv
<1>3. \A i \in 1..n : (Acquired(i)' <=> Acquired(i)) /\ OfParam(i)' = OfParam(i)
  <2> SUFFICES ASSUME NEW i \in 1..n
               PROVE  (Acquired(i)' <=> Acquired(i)) /\ OfParam(i)' = OfParam(i)
    OBVIOUS
  <2>1. Acquired(i)' <=> Acquired(i)
    BY <1>1, <1>2 DEF Acquired
  <2> QED
    BY <1>1, <2>1 DEF OfParam
<1>4. /\ (Ret' <=> Ret) /\ RetRef' = RetRef /\ (RetJava' <=> RetJava) /\ OfRet' = OfRet
  <2>1. (Ret' <=> Ret) /\ RetRef' = RetRef
    BY <1>1 DEF Ret, RetRef, convVars
  <2>2. RetJava => pc' = "java"
    <3>1. RetJava => Ret /\ RetRef # 0 /\ retUnm # 0
      BY DEF RetJava, Ret
    <3>2. Ret /\ outcome # "none" => RetRef = 0
      BY <1>1 DEF Ownership, RetInv, RetRef
    <3> QED
      BY <1>2, <3>1, <3>2
  <2>3. RetJava' <=> RetJava
    BY <1>1, <1>2, <2>1, <2>2 DEF RetJava
  <2> QED
    BY <1>1, <1>2, <2>1, <2>3 DEF OfRet, Before
<1>5. OutActs(post) = {} /\ OutActs(post') = {} /\ \A r : ~Claimed(heap, post, unms, r)
  <2>1. OutActs(<<>>) = {} /\ DOMAIN <<>> = {}
    BY EmptyWorld
  <2> QED
    BY <1>1, <2>1 DEF Claimed
<1>6. ShapeInv' /\ FlowInv'
  BY <1>1, <1>2 DEF Ownership, ShapeInv, FlowInv, Before, convVars, endVars
<1>7. TurnInv'
  <2>1. World(heap', post', unms')
    BY <1>1 DEF Ownership, TurnInv, convVars
  <2> QED
    BY <1>1, <1>2, <1>5, <2>1 DEF TurnInv, Due
<1>8. OutInv'
  BY <1>1, <1>2, <1>5 DEF OutInv, Outs, Before
<1>9. RetInv'
  BY <1>1, <1>2, <1>4 DEF Ownership, RetInv, convVars, endVars
<1>10. RefsInv'
  BY <1>1, <1>2, <1>3 DEF Ownership, RefsInv, Before, Acquired
<1>11. ApartInv'
  BY <1>1, <1>3, <1>4 DEF Ownership, ApartInv, convVars
<1>12. KindsInv' /\ FreedOnce' /\ NoUseAfterFree'
  BY <1>1 DEF Ownership, KindsInv, FreedOnce, NoUseAfterFree, OwnedTwice, endVars
<1>13. CoverInv'
  <2>1. \A r : Lost(r) => Lost(r)'
    BY <1>1 DEF Lost, Lossy, endVars
  <2> QED
    BY <1>1, <1>3, <1>4, <2>1 DEF Ownership, CoverInv, convVars, endVars
<1> QED
  BY <1>6, <1>7, <1>8, <1>9, <1>10, <1>11, <1>12, <1>13 DEF Ownership

\* What toJava takes over, or releases.
LEMMA ToJavaSpends ==
  ASSUME heap \in Seq(HeapEntry), NEW conv, NEW sig, NEW v, NEW r \in 0..Len(heap)
  PROVE  /\ ToJava(conv, sig, v, r).thrown \in {"none", "IllegalArgumentException", "ComException"}
         /\ conv = "DISPATCH" => ToJava(conv, sig, v, r).thrown # "ComException"
         /\ conv = "ComObject" => ToJava(conv, sig, v, r).thrown = "none"
         /\ \E T \in SUBSET {r} :
              /\ Spent(heap, ToJava(conv, sig, v, r).heap, T)
              /\ conv \notin {"ComObject", "DISPATCH"} => T = {}
              /\ conv \in {"ComObject", "DISPATCH"} /\ v # Null =>
                   T = {r} \/ ToJava(conv, sig, v, r).thrown # "none"
<1>1. CASE conv = "ComObject" /\ v # Null
  <2>1. ToJava(conv, sig, v, r) = [val |-> v, heap |-> Own(heap, r), thrown |-> "none"]
    BY <1>1 DEF ToJava
  <2>2. Spent(heap, Own(heap, r), {r})
    BY SpentOwn
  <2> QED
    BY <1>1, <2>1, <2>2
<1>2. CASE conv = "DISPATCH" /\ v # Null /\ HasDispatch(v)
  <2>1. ToJava(conv, sig, v, r) = [val |-> v, heap |-> FreeAll(heap, {r}), thrown |-> "none"]
    BY <1>2 DEF ToJava, Free
  <2>2. Spent(heap, FreeAll(heap, {r}), {r})
    BY SpentFree
  <2> QED
    BY <1>2, <2>1, <2>2
<1>3. CASE conv = "DISPATCH" /\ v # Null /\ ~HasDispatch(v)
  <2>1. ToJava(conv, sig, v, r) = [val |-> v, heap |-> heap, thrown |-> "IllegalArgumentException"]
    BY <1>3 DEF ToJava
  <2>2. Spent(heap, heap, {})
    BY SpentNothing
  <2> QED
    BY <1>3, <2>1, <2>2
<1>4. CASE ~(conv \in {"ComObject", "DISPATCH"} /\ v # Null)
  <2>1. /\ ToJava(conv, sig, v, r).heap = heap
        /\ ToJava(conv, sig, v, r).thrown \in {"none", "ComException"}
        /\ conv \in {"ComObject", "DISPATCH"} => ToJava(conv, sig, v, r).thrown = "none"
    <3>1. CASE conv = "VARIANT" /\ v.cls = "RawVariant" /\ VariantToObject(sig, v.elems[1]) = Unconvertible
      <4>1. ToJava(conv, sig, v, r) = [val |-> v, heap |-> heap, thrown |-> "ComException"]
        BY <3>1 DEF ToJava
      <4> QED
        BY <3>1, <4>1
    <3>2. CASE conv = "VARIANT" /\ v.cls = "RawVariant" /\ VariantToObject(sig, v.elems[1]) # Unconvertible
      <4>1. ToJava(conv, sig, v, r) = [val |-> VariantToObject(sig, v.elems[1]), heap |-> heap, thrown |-> "none"]
        BY <3>2 DEF ToJava
      <4> QED
        BY <3>2, <4>1
    <3>3. CASE ~(conv = "VARIANT" /\ v.cls = "RawVariant")
      <4>1. ToJava(conv, sig, v, r) = [val |-> v, heap |-> heap, thrown |-> "none"]
        BY <1>4, <3>3 DEF ToJava
      <4> QED
        BY <4>1
    <3> QED
      BY <3>1, <3>2, <3>3
  <2>2. Spent(heap, heap, {})
    BY SpentNothing
  <2> QED
    BY <1>4, <2>1, <2>2
<1> QED
  BY <1>1, <1>2, <1>3, <1>4

\* The Java side after the call: one reference may find its owner, or go.
LEMMA JavaSpends ==
  ASSUME Ownership, pc \in {"java", "cleanup"}, pc' \in {"cleanup", "done"},
         UNCHANGED <<call, refs, convVars, post, hr, replaced, stale>>,
         NEW T, Spent(heap, heap', T),
         \A r \in 1..Len(heap) : r \in T => Fresh(heap, r) \/ OwnedTwice(r)
  PROVE  /\ TurnInv' /\ OutInv' /\ RetInv' /\ KindsInv' /\ FreedOnce' /\ NoUseAfterFree'
         /\ OfRet' = {} /\ post = <<>> /\ post' = <<>> /\ n \in Nat /\ n' = n
         /\ Len(heap') = Len(heap) /\ DOMAIN heap = 1..Len(heap) /\ DOMAIN heap' = 1..Len(heap)
         /\ \A r : ~Claimed(heap, post, unms, r) /\ ~Claimed(heap', post', unms', r)
         /\ \A r \in 1..Len(heap) : /\ heap'[r].kind = heap[r].kind
                                    /\ Fresh(heap', r) <=> Fresh(heap, r) /\ r \notin T
         /\ \A i \in 1..n : refs'[i] \in 0..Len(heap')
         /\ retUnm' \in 0..Len(unms') /\ retUnm' = retUnm /\ unms' = unms /\ call' = call
<1> DEFINE L == Len(heap)
<1>1. /\ call' = call /\ refs' = refs /\ post' = post /\ hr' = hr /\ replaced' = replaced /\ stale' = stale
      /\ retUnm' = retUnm /\ unms' = unms /\ n' = n
  BY DEF convVars, n
<1>2. /\ World(heap, post, unms) /\ heap \in Seq(HeapEntry) /\ post = <<>> /\ n \in Nat
      /\ retUnm \in 0..Len(unms) /\ \A i \in 1..n : refs[i] \in 0..L
  BY DEF Ownership, ShapeInv, FlowInv, TurnInv, World
<1>3. World(heap', post, unms)
  BY <1>2, SpentWorld
<1>4. Len(heap') = L /\ heap' \in Seq(HeapEntry) /\ DOMAIN heap = 1..L /\ DOMAIN heap' = 1..L
  BY <1>2 DEF Spent
<1>5. \A r \in 1..L : Fresh(heap', r) <=> Fresh(heap, r) /\ r \notin T
  BY <1>2, SpentFresh
<1>6. \A r \in 1..L :
        /\ heap'[r].kind = heap[r].kind /\ heap'[r].owners >= heap[r].owners
        /\ heap'[r].frees + heap'[r].owners = heap[r].frees + heap[r].owners + IF r \in T THEN 1 ELSE 0
  BY DEF Spent
<1>7. DOMAIN post = {} /\ OutActs(post) = {} /\ \A r : ~Claimed(heap, post, unms, r) /\ ~Claimed(heap', post', unms', r)
  <2>1. OutActs(<<>>) = {} /\ DOMAIN <<>> = {}
    BY EmptyWorld
  <2> QED
    BY <1>1, <1>2, <2>1 DEF Claimed
<1>8. (Ret' <=> Ret) /\ ~RetJava' /\ OfRet' = {}
  BY <1>1 DEF Ret, RetJava, OfRet, Before
<1>9. TurnInv'
  BY <1>1, <1>3, <1>7 DEF TurnInv, Due
<1>10. OutInv'
  BY <1>1, <1>7 DEF OutInv, Outs, Before
<1>11. RetInv'
  BY <1>1, <1>8 DEF Ownership, RetInv
<1>12. \A r \in 1..L : heap[r].frees \in Nat /\ heap[r].owners \in Nat /\ heap'[r].owners \in Nat
  BY <1>2, <1>4, Counts
<1> HIDE DEF L
<1>13. KindsInv'
  <2> SUFFICES ASSUME NEW r \in 1..L
               PROVE  /\ heap'[r].kind = "dispatched" => call.via = "dispatch"
                      /\ heap'[r].kind = "wrapped" => heap'[r].owners >= 1
    BY <1>1, <1>4 DEF KindsInv
  <2> QED
    BY <1>6, <1>12 DEF Ownership, KindsInv, L
<1>14. FreedOnce'
  <2> SUFFICES ASSUME NEW r \in 1..L, heap'[r].frees + heap'[r].owners > 1
               PROVE  OwnedTwice(r)'
    BY <1>4 DEF FreedOnce
  <2>1. CASE OwnedTwice(r)
    BY <1>1, <1>6, <2>1 DEF OwnedTwice
  <2>2. CASE r \in T /\ Fresh(heap, r)
    <3>1. heap'[r].frees + heap'[r].owners = 1
      BY <1>6, <2>2 DEF Fresh
    <3> QED
      BY <3>1
  <2>3. CASE r \notin T
    <3>1. heap'[r].frees + heap'[r].owners = heap[r].frees + heap[r].owners
      BY <1>6, <1>12, <2>3
    <3>2. OwnedTwice(r)
      BY <1>4, <3>1 DEF Ownership, FreedOnce
    <3> QED
      BY <2>1, <3>2
  <2> QED
    BY <2>1, <2>2, <2>3 DEF L
<1>15. NoUseAfterFree'
  BY <1>1 DEF Ownership, NoUseAfterFree
<1> QED
  BY <1>1, <1>2, <1>4, <1>5, <1>6, <1>7, <1>8, <1>9, <1>10, <1>11, <1>13, <1>14, <1>15 DEF L

LEMMA ConvertResultStep ==
  ASSUME Ownership, ConvertResult
  PROVE  Ownership'
<1> DEFINE L == Len(heap)
           r0 == RetRef
           zero == call.inout /\ call.retConv = "ComObject" /\ result = Null
           thrown == ToJava(call.retConv, call.retSig, result, r0).thrown
<1>1. /\ pc = "java" /\ pc' = (IF n > 0 THEN "cleanup" ELSE "done")
      /\ heap' = ToJava(call.retConv, call.retSig, result, r0).heap
      /\ outcome' = IF zero THEN "IllegalArgumentException" ELSE thrown
      /\ call' = call /\ step' = step /\ args' = args /\ refs' = refs /\ n' = n
      /\ UNCHANGED <<convVars, post, hr, replaced, stale>> /\ \A i : Conv(i)' = Conv(i)
  BY DEF ConvertResult, javaVars, n, Conv
<1>2. /\ World(heap, post, unms) /\ heap \in Seq(HeapEntry) /\ n \in Nat /\ step = 1 /\ outcome = "none"
      /\ retUnm \in 0..Len(unms) /\ call.inout \in BOOLEAN /\ pc' \in {"cleanup", "done"} /\ (pc' = "done" => n = 0)
  BY <1>1 DEF Ownership, ShapeInv, FlowInv, TurnInv, World
<1>3. r0 \in 0..L
  <2>1. CASE retUnm = 0
    BY <1>2, <2>1 DEF RetRef
  <2>2. CASE retUnm # 0
    <3>1. World(heap, post, unms) /\ retUnm \in 1..Len(unms)
      BY <1>2, <2>2
    <3>2. unms[retUnm].holds \in 0..Len(heap)
      BY <3>1, UnmFacts
    <3> QED
      BY <2>2, <3>2 DEF RetRef
  <2> QED
    BY <2>1, <2>2
<1> HIDE DEF r0
<1>4. /\ thrown \in {"none", "IllegalArgumentException", "ComException"}
      /\ call.retConv = "DISPATCH" => thrown # "ComException"
      /\ call.retConv = "ComObject" => thrown = "none"
  <2>1. heap \in Seq(HeapEntry) /\ r0 \in 0..Len(heap)
    BY <1>2, <1>3
  <2> QED
    BY <2>1, ToJavaSpends
<1>5. PICK T \in SUBSET {r0} : /\ Spent(heap, heap', T)
                               /\ call.retConv \notin {"ComObject", "DISPATCH"} => T = {}
                               /\ call.retConv \in {"ComObject", "DISPATCH"} /\ result # Null => T = {r0} \/ thrown # "none"
  <2>1. heap \in Seq(HeapEntry) /\ r0 \in 0..Len(heap)
    BY <1>2, <1>3
  <2>2. \E T \in SUBSET {r0} :
          /\ Spent(heap, ToJava(call.retConv, call.retSig, result, r0).heap, T)
          /\ call.retConv \notin {"ComObject", "DISPATCH"} => T = {}
          /\ call.retConv \in {"ComObject", "DISPATCH"} /\ result # Null =>
               T = {r0} \/ ToJava(call.retConv, call.retSig, result, r0).thrown # "none"
    BY <2>1, ToJavaSpends
  <2> QED
    BY <1>1, <2>2
<1> HIDE DEF thrown
<1>6. OfRet = IF RetJava THEN {r0} ELSE {}
  BY <1>1 DEF OfRet, Before, r0
<1>7. \A r \in 1..L : r \in T => Fresh(heap, r) \/ OwnedTwice(r)
  <2> SUFFICES ASSUME NEW r \in 1..L, r \in T, ~call.inout
               PROVE  Fresh(heap, r)
    BY <1>2 DEF OwnedTwice
  <2>1. r = r0 /\ r0 # 0 /\ call.retConv \in {"ComObject", "DISPATCH"}
    BY <1>2, <1>5
  <2>2. retUnm # 0
    BY <2>1 DEF RetRef, r0
  <2>3. RetJava
    BY <1>1, <2>1, <2>2 DEF RetJava, Ret, r0
  <2> QED
    BY <1>6, <2>1, <2>3 DEF Ownership, ApartInv, Loose
<1>8. /\ TurnInv' /\ OutInv' /\ RetInv' /\ KindsInv' /\ FreedOnce' /\ NoUseAfterFree'
      /\ OfRet' = {} /\ post = <<>> /\ post' = <<>>
      /\ Len(heap') = L /\ DOMAIN heap = 1..L /\ DOMAIN heap' = 1..L
      /\ \A r : ~Claimed(heap, post, unms, r) /\ ~Claimed(heap', post', unms', r)
      /\ \A r \in 1..L : /\ heap'[r].kind = heap[r].kind
                         /\ Fresh(heap', r) <=> Fresh(heap, r) /\ r \notin T
      /\ \A i \in 1..n : refs'[i] \in 0..Len(heap')
      /\ retUnm' \in 0..Len(unms') /\ retUnm' = retUnm /\ unms' = unms
  <2>1. /\ pc \in {"java", "cleanup"} /\ pc' \in {"cleanup", "done"} /\ Spent(heap, heap', T)
        /\ UNCHANGED <<call, refs, convVars, post, hr, replaced, stale>>
    BY <1>1, <1>2, <1>5
  <2> QED
    BY <1>7, <2>1, JavaSpends
<1> HIDE DEF L
<1>9. \A i \in 1..n : /\ (Acquired(i)' <=> Acquired(i)) /\ OfParam(i)' = OfParam(i)
                      /\ (refs[i] # 0 => refs[i] \in 1..L /\ heap'[refs[i]].kind = heap[refs[i]].kind)
  <2> SUFFICES ASSUME NEW i \in 1..n
               PROVE  /\ (Acquired(i)' <=> Acquired(i)) /\ OfParam(i)' = OfParam(i)
                      /\ (refs[i] # 0 => refs[i] \in 1..L /\ heap'[refs[i]].kind = heap[refs[i]].kind)
    OBVIOUS
  <2>1. refs[i] # 0 => refs[i] \in 1..L
    <3>1. refs[i] \in 0..L /\ L \in Nat
      BY <1>2 DEF Ownership, ShapeInv, L
    <3> QED
      BY <3>1
  <2>2. refs[i] # 0 => heap'[refs[i]].kind = heap[refs[i]].kind
    BY <1>8, <2>1
  <2>3. pc' = "cleanup" /\ i >= 1
    BY <1>2
  <2>4. Acquired(i)' <=> Acquired(i)
    BY <1>1, <1>2, <2>2, <2>3 DEF Acquired
  <2> QED
    BY <1>1, <2>1, <2>2, <2>4 DEF OfParam
<1>10. ShapeInv'
  BY <1>1, <1>2, <1>4, <1>8 DEF Ownership, ShapeInv, convVars
<1>11. FlowInv'
  <2>1. outcome' # "crash"
    BY <1>1, <1>4
  <2> QED
    BY <1>1, <1>2, <1>8, <2>1 DEF Ownership, FlowInv, Before, convVars
<1>12. RefsInv'
  BY <1>1, <1>2, <1>9 DEF Ownership, RefsInv, Before, Acquired
<1>13. ApartInv'
  <2>1. ASSUME ~call.inout, NEW i \in 1..n, NEW r \in OfParam(i)
        PROVE  /\ Loose(heap', post', unms', r) /\ \A j \in 1..n : i # j => r \notin OfParam(j)
    <3>1. /\ Loose(heap, post, unms, r) /\ r \notin OfRet
          /\ \A j \in 1..n : i # j => r \notin OfParam(j)
      BY <2>1 DEF Ownership, ApartInv
    <3>2. r \in 1..L /\ Fresh(heap, r)
      BY <1>8, <3>1 DEF Loose
    <3>3. r \notin T
      <4>1. CASE RetJava
        BY <1>5, <1>6, <3>1, <4>1
      <4>2. CASE ~RetJava
        <5> SUFFICES ASSUME r \in T
                     PROVE  FALSE
          OBVIOUS
        <5>1. r = r0 /\ r0 # 0 /\ call.retConv \in {"ComObject", "DISPATCH"}
          BY <1>2, <1>5, <3>2
        <5>2. retUnm # 0
          BY <5>1 DEF RetRef, r0
        <5> QED
          BY <1>1, <2>1, <4>2, <5>1, <5>2 DEF RetJava, Ret, r0
      <4> QED
        BY <4>1, <4>2
    <3> QED
      BY <1>8, <3>1, <3>2, <3>3 DEF Loose
  <2> QED
    BY <1>1, <1>8, <1>9, <2>1 DEF ApartInv
<1>14. CoverInv'
  <2> SUFFICES ASSUME NEW r \in 1..L, Fresh(heap', r)
               PROVE  (\E i \in 1..n : r \in OfParam(i)') \/ Lost(r)'
    BY <1>1, <1>8 DEF CoverInv
  <2>1. Fresh(heap, r) /\ r \notin T /\ heap'[r].kind = heap[r].kind
    BY <1>8
  <2>2. Claimed(heap, post, unms, r) \/ r \in OfRet \/ (\E i \in 1..n : r \in OfParam(i)) \/ Lost(r)
    BY <1>2, <2>1 DEF Ownership, CoverInv, L
  <2>3. CASE r \in OfRet
    <3>1. RetJava /\ r = r0
      BY <1>6, <2>3
    <3>2. result # Null /\ call.retConv \in {"ComObject", "DISPATCH"} /\ heap[r].kind = "given"
      BY <3>1 DEF Ownership, RetInv, RetJava, r0
    <3>3. thrown = "IllegalArgumentException"
      BY <1>4, <1>5, <2>1, <3>1, <3>2
    <3>4. outcome' = "IllegalArgumentException"
      BY <1>1, <3>3
    <3> QED
      BY <2>1, <3>2, <3>4 DEF Lost, Lossy
  <2>4. CASE \E i \in 1..n : r \in OfParam(i)
    BY <1>9, <2>4
  <2>5. CASE Lost(r)
    <3>1. ~Lossy
      BY <1>1, <1>2 DEF Lossy
    <3> QED
      BY <1>1, <2>1, <2>5, <3>1 DEF Lost
  <2> QED
    BY <1>8, <2>2, <2>3, <2>4, <2>5
<1> QED
  BY <1>8, <1>10, <1>11, <1>12, <1>13, <1>14 DEF Ownership

LEMMA CleanupSpends ==
  ASSUME Ownership, CleanupParameter, NEW s, s = step
  PROVE  \E T \in SUBSET {refs[s]} :
           /\ Spent(heap, heap', T)
           /\ T # {} => Conv(s) \in {"DISPATCH", "ComObject_byRef"}
           /\ Acquired(s) => T = {refs[s]}
           /\ \/ pc' = "done" /\ outcome' \in {"IllegalArgumentException", "ComException"} /\ step' = s /\ args' = args
              \/ /\ pc' = (IF s = n THEN "done" ELSE "cleanup") /\ outcome' = outcome /\ step' = s + 1
                 /\ args' = [ i \in 1..n |-> args'[i] ] /\ \A i \in 1..n : i # s => args'[i] = args[i]
<1> DEFINE a == args[s]
           sig == call.params[s].sig
           raw == IsHolder(a) /\ ByRef(Conv(s))
           zero == Conv(s) = "ComObject_byRef" /\ Held(a) = Null
           t == IF raw THEN ToJava(NoByRef[Conv(s)], sig, Held(a), refs[s])
                ELSE [ val |-> a, thrown |-> "none",
                       heap |-> IF Conv(s) = "DISPATCH" THEN Free(heap, refs[s]) ELSE heap ]
           r0 == refs[s]
           Fair(T) == /\ Spent(heap, t.heap, T)
                      /\ T # {} => Conv(s) \in {"DISPATCH", "ComObject_byRef"}
                      /\ Acquired(s) => T = {r0}
<1>1. /\ pc = "cleanup" /\ heap' = t.heap
      /\ \/ pc' = "done" /\ outcome' = (IF zero THEN "IllegalArgumentException" ELSE t.thrown) /\ (zero \/ t.thrown # "none")
            /\ step' = s /\ args' = args
         \/ /\ pc' = (IF s = n THEN "done" ELSE "cleanup") /\ outcome' = outcome /\ step' = s + 1
            /\ args' = IF IsHolder(a) THEN [args EXCEPT ![s] = Holder(t.val)] ELSE args
  BY DEF CleanupParameter, Conv
<1>2. /\ World(heap, post, unms) /\ heap \in Seq(HeapEntry) /\ n \in Nat /\ s \in 1..n /\ r0 \in 0..Len(heap)
      /\ args = [ i \in 1..n |-> args[i] ]
  BY <1>1 DEF Ownership, ShapeInv, FlowInv, TurnInv, World
<1>3. Acquired(s) => \/ Conv(s) = "DISPATCH"
                     \/ Conv(s) = "ComObject_byRef" /\ IsHolder(a) /\ Held(a) # Null
  BY <1>2 DEF Ownership, RefsInv
<1>4. Acquired(s) => r0 # 0
  BY DEF Acquired
<1> HIDE DEF r0
<1>5. t.thrown \in {"none", "IllegalArgumentException", "ComException"} /\ \E T \in SUBSET {r0} : Fair(T)
  <2>1. CASE raw
    <3>1. heap \in Seq(HeapEntry) /\ r0 \in 0..Len(heap)
      BY <1>2
    <3>2. /\ ToJava(NoByRef[Conv(s)], sig, Held(a), r0).thrown \in {"none", "IllegalArgumentException", "ComException"}
          /\ NoByRef[Conv(s)] = "ComObject" => ToJava(NoByRef[Conv(s)], sig, Held(a), r0).thrown = "none"
      BY <3>1, ToJavaSpends
    <3>3. PICK T \in SUBSET {r0} :
              /\ Spent(heap, ToJava(NoByRef[Conv(s)], sig, Held(a), r0).heap, T)
              /\ NoByRef[Conv(s)] \notin {"ComObject", "DISPATCH"} => T = {}
              /\ NoByRef[Conv(s)] \in {"ComObject", "DISPATCH"} /\ Held(a) # Null =>
                   T = {r0} \/ ToJava(NoByRef[Conv(s)], sig, Held(a), r0).thrown # "none"
      BY <3>1, ToJavaSpends
    <3>4. t = ToJava(NoByRef[Conv(s)], sig, Held(a), r0)
      BY <2>1 DEF r0
    <3>5. /\ Conv(s) # "DISPATCH" /\ NoByRef[Conv(s)] # "DISPATCH"
          /\ (NoByRef[Conv(s)] = "ComObject" <=> Conv(s) = "ComObject_byRef")
      BY <2>1 DEF ByRef, NoByRef
    <3> HIDE DEF t, raw, a, sig
    <3>6. Fair(T)
      <4>1. T # {} => Conv(s) = "ComObject_byRef"
        BY <3>3, <3>5
      <4>2. Acquired(s) => T = {r0}
        BY <1>3, <3>2, <3>3, <3>5
      <4> QED
        BY <3>3, <3>4, <4>1, <4>2
    <3> QED
      BY <3>2, <3>4, <3>6
  <2>2. CASE ~raw /\ Conv(s) = "DISPATCH"
    <3>1. t.thrown = "none" /\ t.heap = FreeAll(heap, {r0})
      BY <2>2 DEF Free, r0
    <3>2. Spent(heap, FreeAll(heap, {r0}), {r0})
      BY <1>2, SpentFree
    <3> HIDE DEF t, raw
    <3>3. Fair({r0})
      BY <2>2, <3>1, <3>2
    <3> QED
      BY <3>1, <3>3
  <2>3. CASE ~raw /\ Conv(s) # "DISPATCH"
    <3>1. t.thrown = "none" /\ t.heap = heap
      BY <2>3
    <3>2. Spent(heap, heap, {})
      BY <1>2, SpentNothing
    <3>3. ~Acquired(s)
      <4>1. ByRef("ComObject_byRef")
        BY DEF ByRef, NoByRef
      <4> QED
        BY <1>3, <2>3, <4>1
    <3> HIDE DEF t, raw
    <3>4. Fair({})
      BY <3>1, <3>2, <3>3
    <3> QED
      BY <3>1, <3>4
  <2> QED
    BY <2>1, <2>2, <2>3
<1>6. \/ pc' = "done" /\ outcome' \in {"IllegalArgumentException", "ComException"} /\ step' = s /\ args' = args
      \/ /\ pc' = (IF s = n THEN "done" ELSE "cleanup") /\ outcome' = outcome /\ step' = s + 1
         /\ args' = [ i \in 1..n |-> args'[i] ] /\ \A i \in 1..n : i # s => args'[i] = args[i]
  <2> DEFINE v == Holder(t.val)
  <2>1. CASE pc' = "done" /\ outcome' = (IF zero THEN "IllegalArgumentException" ELSE t.thrown) /\ (zero \/ t.thrown # "none")
             /\ step' = s /\ args' = args
    <3> HIDE DEF t, zero
    <3> QED
      BY <1>5, <2>1
  <2>2. CASE /\ pc' = (IF s = n THEN "done" ELSE "cleanup") /\ outcome' = outcome /\ step' = s + 1
             /\ args' = IF IsHolder(a) THEN [args EXCEPT ![s] = v] ELSE args
    <3> HIDE DEF v
    <3>1. DOMAIN args = 1..n
      BY <1>2
    <3>2. args' = [ i \in 1..n |-> args'[i] ] /\ \A i \in 1..n : i # s => args'[i] = args[i]
      <4>1. CASE IsHolder(a)
        BY <1>2, <2>2, <3>1, <4>1
      <4>2. CASE ~IsHolder(a)
        BY <1>2, <2>2, <4>2
      <4> QED
        BY <4>1, <4>2
    <3> QED
      BY <2>2, <3>2
  <2> QED
    BY <1>1, <2>1, <2>2
<1> HIDE DEF t, zero, raw, a, sig
<1> QED
  BY <1>1, <1>5, <1>6 DEF r0

LEMMA CleanupParameterStep ==
  ASSUME Ownership, CleanupParameter
  PROVE  Ownership'
<1>s. PICK s : s = step
  OBVIOUS
<1> DEFINE L == Len(heap)
           Throws == /\ pc' = "done" /\ outcome' \in {"IllegalArgumentException", "ComException"}
                     /\ step' = s /\ args' = args
           Goes == /\ pc' = (IF s = n THEN "done" ELSE "cleanup") /\ outcome' = outcome /\ step' = s + 1
                   /\ args' = [ i \in 1..n |-> args'[i] ] /\ \A i \in 1..n : i # s => args'[i] = args[i]
<1>1. /\ pc = "cleanup" /\ n' = n /\ call' = call /\ refs' = refs
      /\ UNCHANGED <<convVars, post, hr, result, replaced, stale>> /\ \A i : Conv(i)' = Conv(i)
  BY DEF CleanupParameter, n, Conv
<1>2. /\ n \in Nat /\ s \in 1..n /\ outcome # "crash" /\ call.via # "dispatch" /\ call.inout \in BOOLEAN
      /\ args = [ i \in 1..n |-> args[i] ] /\ refs = [ i \in 1..n |-> refs[i] ] /\ \A i \in 1..n : refs[i] \in 0..L
      /\ OfRet = {} /\ World(heap, post, unms) /\ L \in Nat
  <2>1. World(heap, post, unms)
    BY DEF Ownership, TurnInv
  <2>2. L \in Nat
    BY <2>1, WorldFacts
  <2> QED
    BY <1>1, <1>s, <2>1, <2>2 DEF Ownership, ShapeInv, FlowInv, OfRet, RetJava, Before
<1>3. PICK T \in SUBSET {refs[s]} :
         /\ Spent(heap, heap', T) /\ (T # {} => Conv(s) \in {"DISPATCH", "ComObject_byRef"})
         /\ (Acquired(s) => T = {refs[s]}) /\ (Throws \/ Goes)
  BY <1>s, CleanupSpends
<1> HIDE DEF Throws, Goes
<1>4. pc' \in {"cleanup", "done"}
  BY <1>3 DEF Throws, Goes
\* What is taken or released, if not the reference of a Wrapper, was claimed for the parameter.
<1>5. \A r \in T : r # 0 => Acquired(s) \/ (r \in 1..L /\ heap[r].kind = "wrapped")
  BY <1>1, <1>2, <1>3, <1>s DEF Acquired
<1>6. ~call.inout =>
        \A i \in 1..n : \A r \in OfParam(i) :
           Loose(heap, post, unms, r) /\ \A j \in 1..n : i # j => r \notin OfParam(j)
  BY DEF Ownership, ApartInv
<1>7. \A r \in 1..L : r \in T => Fresh(heap, r) \/ OwnedTwice(r)
  <2> SUFFICES ASSUME NEW r \in 1..L, r \in T, ~OwnedTwice(r)
               PROVE  Fresh(heap, r)
    OBVIOUS
  <2>1. ~call.inout /\ heap[r].kind # "wrapped" /\ r # 0
    BY <1>2 DEF OwnedTwice
  <2>2. r \in OfParam(s)
    BY <1>3, <1>5, <2>1 DEF OfParam
  <2> QED
    BY <1>2, <1>6, <2>1, <2>2 DEF Loose
<1>8. /\ TurnInv' /\ OutInv' /\ RetInv' /\ KindsInv' /\ FreedOnce' /\ NoUseAfterFree'
      /\ OfRet' = {} /\ post = <<>> /\ post' = <<>>
      /\ Len(heap') = L /\ DOMAIN heap = 1..L /\ DOMAIN heap' = 1..L
      /\ \A r : ~Claimed(heap, post, unms, r) /\ ~Claimed(heap', post', unms', r)
      /\ \A r \in 1..L : /\ heap'[r].kind = heap[r].kind
                         /\ Fresh(heap', r) <=> Fresh(heap, r) /\ r \notin T
      /\ \A i \in 1..n : refs'[i] \in 0..Len(heap')
      /\ retUnm' \in 0..Len(unms') /\ retUnm' = retUnm /\ unms' = unms
  <2>1. /\ pc \in {"java", "cleanup"} /\ pc' \in {"cleanup", "done"} /\ Spent(heap, heap', T)
        /\ UNCHANGED <<call, refs, convVars, post, hr, replaced, stale>>
    BY <1>1, <1>3, <1>4
  <2> QED
    BY <1>7, <2>1, JavaSpends
<1> HIDE DEF L
<1>9. \A i \in 1..n : refs[i] # 0 => refs[i] \in 1..L /\ heap'[refs[i]].kind = heap[refs[i]].kind
  <2>1. \A i \in 1..n : refs[i] # 0 => refs[i] \in 1..L
    BY <1>2
  <2> QED
    BY <1>8, <2>1
<1>10. \A i \in 1..n : /\ Acquired(i)' => Acquired(i) /\ i # s /\ pc' = "cleanup" /\ args'[i] = args[i]
                       /\ Acquired(i) /\ i # s => Acquired(i)' \/ Throws
                       /\ refs'[i] = refs[i]
  <2> SUFFICES ASSUME NEW i \in 1..n
               PROVE  /\ Acquired(i)' => Acquired(i) /\ i # s /\ pc' = "cleanup" /\ args'[i] = args[i]
                      /\ Acquired(i) /\ i # s => Acquired(i)' \/ Throws
                      /\ refs'[i] = refs[i]
    OBVIOUS
  <2>1. refs'[i] = refs[i] /\ Conv(i)' = Conv(i) /\ (refs[i] # 0 => heap'[refs[i]].kind = heap[refs[i]].kind)
    BY <1>1, <1>9
  <2>2. Acquired(i)' => pc' = "cleanup" /\ step' = s + 1 /\ i >= s + 1 /\ Goes
    BY <1>3, <1>4 DEF Acquired, Throws, Goes
  <2>3. Acquired(i)' => Acquired(i) /\ i # s /\ args'[i] = args[i]
    <3>1. Acquired(i)' => i # s /\ i >= s /\ args'[i] = args[i]
      BY <1>2, <2>2 DEF Goes
    <3> QED
      BY <1>1, <1>s, <2>1, <3>1 DEF Acquired
  <2>4. Acquired(i) /\ i # s /\ Goes => Acquired(i)'
    <3> SUFFICES ASSUME Acquired(i), i # s, Goes
                 PROVE  Acquired(i)'
      OBVIOUS
    <3>1. i >= s + 1 /\ s # n
      BY <1>1, <1>2, <1>s DEF Acquired
    <3>2. pc' = "cleanup" /\ step' = s + 1
      BY <3>1 DEF Goes
    <3> QED
      BY <2>1, <3>1, <3>2 DEF Acquired
  <2> QED
    BY <1>3, <2>1, <2>2, <2>3, <2>4
<1>11. ShapeInv'
  <2>1. args' = [ i \in 1..n |-> args'[i] ] /\ step' \in 0..(n + 1)
    BY <1>2, <1>3 DEF Throws, Goes
  <2>2. outcome' \in {"none", "crash", "ComException", "NullPointerException", "IllegalArgumentException"}
    BY <1>3 DEF Throws, Goes, Ownership, ShapeInv
  <2> QED
    BY <1>1, <1>4, <1>8, <2>1, <2>2 DEF Ownership, ShapeInv, convVars
<1>12. FlowInv'
  <2>1. outcome' # "crash" /\ (pc' = "cleanup" => step' \in 1..n) /\ (pc' = "done" /\ outcome' = "none" => step' > n)
    BY <1>2, <1>3 DEF Throws, Goes
  <2> QED
    BY <1>1, <1>2, <1>4, <1>8, <2>1 DEF FlowInv, Before
<1>13. RefsInv'
  <2>1. ASSUME NEW i \in 1..n, Acquired(i)'
        PROVE  \/ Conv(i)' = "DISPATCH" /\ heap'[refs'[i]].kind = "dispatch"
               \/ /\ Conv(i)' = "ComObject_byRef" /\ heap'[refs'[i]].kind = "given"
                  /\ IsHolder(args'[i]) /\ Held(args'[i]) # Null
    <3>1. Acquired(i) /\ args'[i] = args[i] /\ refs'[i] = refs[i]
      BY <1>10, <2>1
    <3>2. heap'[refs'[i]].kind = heap[refs[i]].kind
      BY <1>9, <3>1 DEF Acquired
    <3> QED
      BY <1>1, <3>1, <3>2 DEF Ownership, RefsInv
  <2> QED
    BY <1>1, <1>4, <1>10, <2>1 DEF RefsInv, Before
<1>14. \A i \in 1..n : \A r \in OfParam(i)' : r \in OfParam(i) /\ i # s
  BY <1>10 DEF OfParam
<1>15. ApartInv'
  <2>1. ASSUME ~call.inout, NEW i \in 1..n, NEW r \in OfParam(i)'
        PROVE  /\ Loose(heap', post', unms', r) /\ \A j \in 1..n : i # j => r \notin OfParam(j)'
    <3>1. /\ Loose(heap, post, unms, r) /\ r \in OfParam(i) /\ i # s
          /\ \A j \in 1..n : i # j => r \notin OfParam(j)
      BY <1>6, <1>14, <2>1
    <3>2. r \in 1..L /\ Fresh(heap, r) /\ r # 0
      BY <1>2, <1>8, <3>1 DEF Loose
    <3>3. heap[r].kind # "wrapped"
      BY <3>1 DEF OfParam, Acquired
    <3>4. r \notin T
      <4> SUFFICES ASSUME r \in T
                   PROVE  FALSE
        OBVIOUS
      <4>1. Acquired(s) /\ r = refs[s]
        BY <1>3, <1>5, <3>2, <3>3
      <4>2. r \in OfParam(s)
        BY <4>1 DEF OfParam
      <4> QED
        BY <1>2, <3>1, <4>2
    <3>5. \A j \in 1..n : i # j => r \notin OfParam(j)'
      BY <1>14, <3>1
    <3>6. Loose(heap', post', unms', r)
      BY <1>8, <3>2, <3>4 DEF Loose
    <3> QED
      BY <3>5, <3>6
  <2> QED
    BY <1>1, <1>8, <2>1 DEF ApartInv
<1>16. CoverInv'
  <2> SUFFICES ASSUME NEW r \in 1..L, Fresh(heap', r)
               PROVE  (\E i \in 1..n : r \in OfParam(i)') \/ Lost(r)'
    BY <1>1, <1>8 DEF CoverInv
  <2>1. Fresh(heap, r) /\ r \notin T /\ heap'[r].kind = heap[r].kind
    BY <1>8
  <2>2. Claimed(heap, post, unms, r) \/ r \in OfRet \/ (\E i \in 1..n : r \in OfParam(i)) \/ Lost(r)
    BY <1>2, <2>1 DEF Ownership, CoverInv, L
  <2>3. Throws => Lossy'
    BY <1>1, <1>2 DEF Throws, Lossy
  <2>4. Lossy => Lossy'
    <3>1. Goes /\ Lossy => Lossy'
      BY <1>1 DEF Goes, Lossy
    <3> QED
      BY <1>3, <2>3, <3>1
  <2>5. CASE \E i \in 1..n : r \in OfParam(i)
    <3>1. PICK i \in 1..n : r \in OfParam(i)
      BY <2>5
    <3>2. Acquired(i) /\ r = refs[i] /\ i # s
      BY <1>3, <2>1, <3>1 DEF OfParam
    <3>3. CASE Acquired(i)'
      <4>1. r \in OfParam(i)'
        BY <1>10, <3>2, <3>3 DEF OfParam
      <4> QED
        BY <4>1
    <3>4. CASE Throws
      <4>1. heap[r].kind \in {"dispatch", "given"}
        BY <3>2 DEF Ownership, RefsInv
      <4> QED
        BY <2>1, <2>3, <3>4, <4>1 DEF Lost
    <3> QED
      BY <1>10, <3>2, <3>3, <3>4
  <2>6. CASE Lost(r)
    BY <1>1, <2>1, <2>4, <2>6 DEF Lost
  <2> QED
    BY <1>2, <1>8, <2>2, <2>5, <2>6
<1> QED
  BY <1>8, <1>11, <1>12, <1>13, <1>15, <1>16 DEF Ownership

\* While the arguments are converted and the call is made.
LEMMA ConvertStep ==
  ASSUME Ownership, Convert
  PROVE  Ownership'
<1>1. pc = "convert" /\ World(heap, post, unms) /\ javaParamIndex \in 0..n /\ n \in Nat
  BY ConvertBegins DEF Ownership, ShapeInv, TurnInv
<1>2. RefsKept
  BY <1>1 DEF Ownership, ShapeInv, RefsInv, Before, RefsKept
<1>3. ReturnBuffer \/ NoMoreParameters \/ \E c : Converting(c) /\ Made(c)
  BY <1>1, <1>2, ConvertMade
<1>4. CASE NoMoreParameters
  <2>1. /\ pc' = "convert" /\ UNCHANGED <<javaVars, javaParamIndex, retUnm, heap, post, unms, endVars>>
        /\ retIndex' = retIndex /\ comParamIndex' = comParamIndex + 1 /\ comParamIndex <= n
    BY <1>1, <1>4 DEF NoMoreParameters
  <2>2. comParamIndex' \in 0..(n + 1) /\ comParamIndex' >= comParamIndex
    BY <1>1, <2>1 DEF Ownership, ShapeInv
  <2> QED
    BY <1>1, <2>1, <2>2, QuietStep
<1> QED
  BY <1>3, <1>4, ReturnBufferStep, ParameterStep

LEMMA CallStep ==
  ASSUME Ownership, CallNative \/ Libffi
  PROVE  Ownership'
<1>1. /\ pc \in {"convert", "native"} /\ pc' = "native"
      /\ UNCHANGED <<javaVars, convVars, heap, post, endVars>>
  BY DEF CallNative, Libffi
<1>2. /\ UNCHANGED <<javaVars, javaParamIndex, retUnm, heap, post, unms, endVars>>
      /\ retIndex' \in {-1, retIndex} /\ comParamIndex' = comParamIndex
  BY <1>1 DEF convVars
<1>3. comParamIndex' \in 0..(n + 1) /\ comParamIndex' >= comParamIndex
  BY <1>2 DEF Ownership, ShapeInv
<1> QED
  BY <1>1, <1>2, <1>3, QuietStep

LEMMA StutterOwnership ==
  ASSUME Ownership, UNCHANGED vars
  PROVE  Ownership'
<1> USE DEF vars, javaVars, convVars, endVars
<1>1. n' = n /\ Ret' = Ret /\ RetRef' = RetRef /\ RetJava' = RetJava /\ OfRet' = OfRet /\ Lossy' = Lossy
  BY DEF n, Ret, RetRef, RetJava, OfRet, Lossy
<1>2. /\ \A i : Conv(i)' = Conv(i) /\ Acquired(i)' = Acquired(i) /\ OfParam(i)' = OfParam(i)
      /\ \A r : Lost(r)' = Lost(r) /\ OwnedTwice(r)' = OwnedTwice(r)
  BY <1>1 DEF Conv, Acquired, OfParam, Lost, OwnedTwice
<1>3. ShapeInv' /\ FlowInv' /\ TurnInv'
  BY <1>1 DEF Ownership, ShapeInv, FlowInv, TurnInv
<1>4. OutInv' /\ RetInv' /\ RefsInv'
  BY <1>1, <1>2 DEF Ownership, OutInv, RetInv, RefsInv
<1>5. ApartInv' /\ KindsInv' /\ CoverInv' /\ FreedOnce' /\ NoUseAfterFree'
  BY <1>1, <1>2 DEF Ownership, ApartInv, KindsInv, CoverInv, FreedOnce, NoUseAfterFree
<1> QED
  BY <1>3, <1>4, <1>5 DEF Ownership

LEMMA OwnershipStep == Ownership /\ [Next]_vars => Ownership'
<1> SUFFICES ASSUME Ownership, [Next]_vars
             PROVE  Ownership'
  OBVIOUS
<1>1. CASE UNCHANGED vars
  BY <1>1, StutterOwnership
<1>2. CASE Next
  <2>1. CASE pc = "idle" /\ \E c \in Calls : BeginCall(c)
    BY <2>1, BeginCallStep
  <2>2. CASE MessageParameter
    BY <2>2, MessageParameterStep
  <2>3. CASE Convert
    BY <2>3, ConvertStep
  <2>4. CASE CallNative \/ Libffi
    BY <2>4, CallStep
  <2>5. CASE CalleeReplaces
    BY <2>5, CalleeReplacesStep
  <2>6. CASE CalleeReturns
    BY <2>6, CalleeReturnsStep
  <2>7. CASE ReturnFromNative
    BY <2>7, ReturnFromNativeStep
  <2>8. CASE RunPostAction
    BY <2>8, RunPostActionStep
  <2>9. CASE LeaveNative
    BY <2>9, LeaveNativeStep
  <2>10. CASE ConvertResult
    BY <2>10, ConvertResultStep
  <2>11. CASE CleanupParameter
    BY <2>11, CleanupParameterStep
  <2>12. CASE EndCall
    BY <2>12, EndCallStep
  <2>13. CASE ConvertDispatchArgument
    BY <2>13, ConvertDispatchArgumentStep
  <2>14. CASE InvokeDispatch
    BY <2>14, InvokeDispatchStep
  <2> QED
    BY <1>2, <2>1, <2>2, <2>3, <2>4, <2>5, <2>6, <2>7, <2>8, <2>9, <2>10, <2>11, <2>12, <2>13, <2>14 DEF Next
<1> QED
  BY <1>1, <1>2

LEMMA OwnershipInvariant == Spec => []Ownership
<1>1. Init => Ownership
  BY InitOwnership
<1>2. Ownership /\ [Next]_vars => Ownership'
  BY OwnershipStep
<1> QED
  BY <1>1, <1>2, PTL DEF Spec

-----------------------------------------------------------------------------
(* The theorems.                                                           *)

(* Whatever the calls are, what was allocated, acquired or received for    *)
(* one is freed or owned once at most, but for the BSTR of a holder, the   *)
(* reference of a wrapper and what an in/out return value is about         *)
(* (invoke.cpp, cleanup.h, unmarshaller.h, StandardComMethod.invoke).      *)
THEOREM EachFreedOnce == Spec => []FreedOnce
<1>1. Ownership => FreedOnce
  BY DEF Ownership
<1> QED
  BY <1>1, OwnershipInvariant, PTL

(* No unmarshaller is read after it, or what it holds, was freed, but for  *)
(* that of an in/out return value whose call the callee has failed         *)
(* (the order of the post actions in ~Environment, invoke.cpp).            *)
THEOREM NeverUsedAfterFree == Spec => []NoUseAfterFree
<1>1. Ownership => NoUseAfterFree
  BY DEF Ownership
<1> QED
  BY <1>1, OwnershipInvariant, PTL

LEMMA LeftIsLost ==
  ASSUME Ownership, pc = "done", outcome # "crash", NEW q \in Left
  PROVE  \E r \in 1..Len(heap) : heap[r].kind = q /\ Lost(r)
<1>1. post = <<>> /\ DOMAIN post = {} /\ World(heap, post, unms)
  BY DEF Ownership, FlowInv, TurnInv
<1>2. DOMAIN heap = 1..Len(heap) /\ heap \in Seq(HeapEntry)
  BY <1>1, WorldFacts DEF World
<1>3. PICK r \in 1..Len(heap) : heap[r].kind = q /\ heap[r].frees + heap[r].owners = 0
  BY <1>2 DEF Left
<1>4. Fresh(heap, r)
  <2>1. heap[r].frees \in Nat /\ heap[r].owners \in Nat
    BY <1>2, Counts
  <2> QED
    BY <1>3, <2>1 DEF Fresh
<1>5. ~Claimed(heap, post, unms, r) /\ OfRet = {} /\ \A i \in 1..n : OfParam(i) = {}
  BY <1>1 DEF Claimed, OfRet, RetJava, Before, OfParam, Acquired
<1> QED
  BY <1>3, <1>4, <1>5 DEF Ownership, CoverInv

(* A call that returns, or that the callee fails, leaves nothing behind    *)
(* but what invokeDispatch made; one that ends with an exception of        *)
(* com4j's own leaves no more than the unmarshaller of its return value    *)
(* and references it had acquired or received.                             *)
THEOREM NothingIsLeft == Spec => []NothingLeaks
<1>1. Ownership => NothingLeaks
  <2> SUFFICES ASSUME Ownership, pc = "done"
               PROVE  NothingLeaks
    BY DEF NothingLeaks
  <2>1. ASSUME outcome # "crash"
        PROVE  Left \subseteq {"dispatched", "retUnm", "dispatch", "given"}
    <3> SUFFICES ASSUME NEW q \in Left
                 PROVE  q \in {"dispatched", "retUnm", "dispatch", "given"}
      OBVIOUS
    <3>1. PICK r \in 1..Len(heap) : heap[r].kind = q /\ Lost(r)
      BY <2>1, LeftIsLost
    <3> QED
      BY <3>1 DEF Lost
  <2>2. ASSUME outcome = "none" \/ (outcome = "ComException" /\ hr = "E_FAIL" /\ step > n)
        PROVE  Left \subseteq IF call.via = "dispatch" THEN {"dispatched", "dispatch"} ELSE {}
    <3> SUFFICES ASSUME NEW q \in Left
                 PROVE  call.via = "dispatch" /\ q \in {"dispatched", "dispatch"}
      OBVIOUS
    <3>1. outcome # "crash"
      BY <2>2
    <3>2. PICK r \in 1..Len(heap) : heap[r].kind = q /\ Lost(r)
      BY <3>1, LeftIsLost
    <3>3. step > n /\ step \in 0..(n + 1) /\ n \in Nat
      BY <2>2 DEF Ownership, FlowInv, ShapeInv
    <3>4. ~Lossy
      BY <2>2, <3>3 DEF Lossy
    <3> QED
      BY <3>2, <3>4 DEF Lost, Ownership, KindsInv
  <2> QED
    BY <2>1, <2>2 DEF NothingLeaks
<1> QED
  BY <1>1, OwnershipInvariant, PTL

(* The variables of a call have their types: indexes stay among the        *)
(* parameters, references in the heap, and what is passed to libffi is of  *)
(* a kind it knows.                                                        *)
THEOREM CallsHaveTypes == Spec => []TypeOK
<1>1. Ownership /\ PassedInv /\ FfiInv => TypeOK
  <2> SUFFICES ASSUME Ownership, PassedInv, FfiInv
               PROVE  TypeOK
    OBVIOUS
  <2>1. World(heap, post, unms) /\ heap \in Seq(HeapEntry) /\ DOMAIN heap = 1..Len(heap) /\ DOMAIN unms = 1..Len(unms)
    <3>1. World(heap, post, unms)
      BY DEF Ownership, TurnInv
    <3> QED
      BY <3>1, WorldFacts DEF World
  <2>2. \A r \in DOMAIN heap : heap[r].frees \in Nat /\ heap[r].owners \in Nat
    BY <2>1, Counts
  <2>3. \A k \in DOMAIN unms : unms[k].self \in DOMAIN heap /\ unms[k].holds \in 0..Len(heap)
    BY <2>1 DEF World, Linked
  <2>4. Len(args) = n /\ Len(refs) = n
    <3>1. n \in Nat /\ args = [ i \in 1..n |-> args[i] ] /\ refs = [ i \in 1..n |-> refs[i] ]
      BY DEF Ownership, ShapeInv
    <3> QED
      BY <3>1, SeqOf
  <2>5. pc \in {"convert", "native"} => \A i \in DOMAIN passed : passed[i] \in Kinds
    BY DEF PassedInv
  <2>6. FfiTypeOK
    BY DEF FfiInv
  <2> QED
    BY <2>1, <2>2, <2>3, <2>4, <2>5, <2>6 DEF Ownership, ShapeInv, TypeOK
<1> QED
  BY <1>1, OwnershipInvariant, CallsKeepFfi, PTL

=============================================================================
