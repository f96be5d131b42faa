----------------------------- MODULE CopyMoveProofs -----------------------------
(***************************************************************************)
(* Theorems about CopyMove, for any hierarchy, any sources and any number  *)
(* of commands and of other clients' collections; and about Listing, for   *)
(* answers of any length, in any order, and any times.  The two components *)
(* keep their own variables: a theorem names the specification it is of.   *)
(***************************************************************************)
EXTENDS CopyMove, Listing, SequenceTheorems, FiniteSetTheorems, WellFoundedInduction, TLAPS

\* What the bounds are.
LEMMA Bounds ==
  /\ MaxDepth \in Nat /\ MaxTyped \in Nat /\ MaxSources \in Nat
  /\ MaxCommands \in Nat /\ MaxMade \in Nat /\ MaxTyped <= MaxDepth
  BY CopyMoveAssumption

\* What a path may hold.
Contents == {ABSENT, COLL} \cup Files

LEMMA ContentsDiffer == ABSENT # COLL /\ ABSENT \notin Files /\ COLL \notin Files
  BY CopyMoveAssumption

---------------------------------------------------------------------------
(* Paths. *)

LEMMA Bounded ==
  ASSUME NEW n \in Nat
  PROVE  \A s : s \in SeqOf(Names, n) <=> s \in Seq(Names) /\ Len(s) <= n
  <1> SUFFICES ASSUME NEW s
               PROVE  s \in SeqOf(Names, n) <=> s \in Seq(Names) /\ Len(s) <= n
    OBVIOUS
  <1>1. ASSUME s \in SeqOf(Names, n) PROVE s \in Seq(Names) /\ Len(s) <= n
    <2>1. PICK m \in 0 .. n : s \in [1 .. m -> Names]
      BY <1>1 DEF SeqOf
    <2>2. m \in Nat /\ m <= n
      BY <2>1
    <2>3. s \in Seq(Names)
      <3>1. s \in UNION {[1 .. k -> Names] : k \in Nat}
        BY <2>1, <2>2, Zenon
      <3> QED BY <3>1, SeqDef
    <2>4. Len(s) = m
      BY <2>1, <2>2, <2>3, LenProperties
    <2> QED BY <2>2, <2>3, <2>4
  <1>2. ASSUME s \in Seq(Names), Len(s) <= n PROVE s \in SeqOf(Names, n)
    <2>1. Len(s) \in 0 .. n /\ s \in [1 .. Len(s) -> Names]
      BY <1>2, LenProperties
    <2>2. s \in UNION {[1 .. k -> Names] : k \in 0 .. n}
      BY <2>1, Zenon
    <2> QED BY <2>2 DEF SeqOf
  <1> QED BY <1>1, <1>2

LEMMA PathIsSeq ==
  /\ \A s : s \in Paths <=> s \in Seq(Names) /\ Len(s) <= MaxDepth
  /\ \A s : s \in Typed <=> s \in Seq(Names) /\ Len(s) <= MaxTyped
  BY Bounds, Bounded DEF Paths, Typed

LEMMA TypedPaths == Typed \subseteq Paths /\ Root \in Typed /\ Root \in Paths
  <1>1. ASSUME NEW s \in Typed PROVE s \in Paths
    <2>1. s \in Seq(Names) /\ Len(s) <= MaxTyped /\ Len(s) \in Nat
      BY PathIsSeq, LenProperties
    <2>2. Len(s) <= MaxDepth
      BY <2>1, Bounds
    <2> QED BY <2>1, <2>2, PathIsSeq
  <1>2. <<>> \in Seq(Names) /\ Len(<<>>) = 0
    BY EmptySeq
  <1>3. Root \in Typed
    <2>1. Len(<<>>) <= MaxTyped
      BY <1>2, Bounds
    <2>2. <<>> \in Typed
      BY <1>2, <2>1, PathIsSeq
    <2> QED BY <2>2 DEF Root
  <1> QED BY <1>1, <1>3

LEMMA PrefixMeans ==
  ASSUME NEW S, NEW s \in Seq(S), NEW t \in Seq(S)
  PROVE  /\ Len(s) \in Nat /\ Len(t) \in Nat
         /\ IsPrefix(s, t) <=> Len(s) <= Len(t) /\ \A i \in 1 .. Len(s) : s[i] = t[i]
  <1>1. Len(s) \in Nat /\ Len(t) \in Nat
    BY LenProperties
  <1>2. /\ \A i \in 1 .. Len(s) : s[i] \in S
        /\ \A i \in 1 .. Len(t) : t[i] \in S
    BY ElementOfSeq
  <1>3. ASSUME Len(s) <= Len(t)
        PROVE  /\ SubSeq(s, 1, Len(s)) \in Seq(S) /\ SubSeq(t, 1, Len(s)) \in Seq(S)
               /\ Len(SubSeq(s, 1, Len(s))) = Len(s) /\ Len(SubSeq(t, 1, Len(s))) = Len(s)
               /\ \A i \in 1 .. Len(s) : /\ SubSeq(s, 1, Len(s))[i] = s[i]
                                         /\ SubSeq(t, 1, Len(s))[i] = t[i]
    BY <1>1, <1>2, <1>3
  <1>4. ASSUME IsPrefix(s, t)
        PROVE  Len(s) <= Len(t) /\ \A i \in 1 .. Len(s) : s[i] = t[i]
    <2>1. Len(s) <= Len(t) /\ SubSeq(s, 1, Len(s)) = SubSeq(t, 1, Len(s))
      BY <1>4 DEF IsPrefix
    <2> QED BY <1>3, <2>1
  <1>5. ASSUME Len(s) <= Len(t), \A i \in 1 .. Len(s) : s[i] = t[i]
        PROVE  IsPrefix(s, t)
    <2>1. SubSeq(s, 1, Len(s)) = SubSeq(t, 1, Len(s))
      BY <1>3, <1>5, SeqEqual
    <2> QED BY <1>5, <2>1 DEF IsPrefix
  <1> QED BY <1>1, <1>4, <1>5

LEMMA PrefixSelf ==
  ASSUME NEW S, NEW s \in Seq(S)
  PROVE  IsPrefix(s, s)
  BY PrefixMeans

LEMMA PrefixOfPrefix ==
  ASSUME NEW S, NEW s \in Seq(S), NEW t \in Seq(S), NEW u \in Seq(S),
         IsPrefix(s, t), IsPrefix(t, u)
  PROVE  IsPrefix(s, u)
  <1>1. /\ Len(s) \in Nat /\ Len(t) \in Nat /\ Len(u) \in Nat
        /\ Len(s) <= Len(t) /\ \A i \in 1 .. Len(s) : s[i] = t[i]
        /\ Len(t) <= Len(u) /\ \A i \in 1 .. Len(t) : t[i] = u[i]
    BY PrefixMeans
  <1>2. Len(s) <= Len(u) /\ \A i \in 1 .. Len(s) : s[i] = u[i]
    BY <1>1
  <1> QED BY <1>2, PrefixMeans

\* Of two that begin the same sequence, the shorter begins the longer.
LEMMA PrefixesNest ==
  ASSUME NEW S, NEW s \in Seq(S), NEW t \in Seq(S), NEW u \in Seq(S),
         IsPrefix(s, u), IsPrefix(t, u), Len(s) <= Len(t)
  PROVE  IsPrefix(s, t) /\ (Len(s) = Len(t) => s = t)
  <1>1. /\ Len(s) \in Nat /\ Len(t) \in Nat /\ Len(u) \in Nat
        /\ \A i \in 1 .. Len(s) : s[i] = u[i]
        /\ \A i \in 1 .. Len(t) : t[i] = u[i]
    BY PrefixMeans
  <1>2. \A i \in 1 .. Len(s) : s[i] = t[i]
    BY <1>1
  <1>3. IsPrefix(s, t)
    BY <1>2, PrefixMeans
  <1>4. ASSUME Len(s) = Len(t) PROVE s = t
    BY <1>2, <1>4, SeqEqual
  <1> QED BY <1>3, <1>4

LEMMA PrefixOfAppend ==
  ASSUME NEW S, NEW s \in Seq(S), NEW t \in Seq(S), NEW x \in S
  PROVE  /\ Append(t, x) \in Seq(S) /\ Len(Append(t, x)) = Len(t) + 1
         /\ IsPrefix(t, Append(t, x)) /\ ~IsPrefix(Append(t, x), t)
         /\ IsPrefix(s, Append(t, x)) => IsPrefix(s, t) \/ s = Append(t, x)
         /\ IsPrefix(s, t) => IsPrefix(s, Append(t, x))
  <1> DEFINE u == Append(t, x)
  <1>1. /\ u \in Seq(S) /\ Len(u) = Len(t) + 1 /\ Len(t) \in Nat /\ Len(s) \in Nat
        /\ \A i \in 1 .. Len(t) : u[i] = t[i]
    BY AppendProperties, LenProperties
  <1> HIDE DEF u
  <1>2. IsPrefix(t, u)
    <2>1. Len(t) <= Len(u) /\ \A i \in 1 .. Len(t) : t[i] = u[i]
      BY <1>1
    <2> QED BY <1>1, <2>1, PrefixMeans
  <1>3. ~IsPrefix(u, t)
    <2>1. ~(Len(u) <= Len(t))
      BY <1>1
    <2> QED BY <1>1, <2>1, PrefixMeans
  <1>4. ASSUME IsPrefix(s, u) PROVE IsPrefix(s, t) \/ s = u
    <2>1. Len(s) <= Len(u)
      BY <1>1, <1>4, PrefixMeans
    <2>2. CASE Len(s) = Len(u)
      BY <1>1, <1>4, <2>2, PrefixSelf, PrefixesNest
    <2>3. CASE Len(s) <= Len(t)
      BY <1>1, <1>2, <1>4, <2>3, PrefixesNest
    <2> QED BY <1>1, <2>1, <2>2, <2>3
  <1>5. ASSUME IsPrefix(s, t) PROVE IsPrefix(s, u)
    BY <1>1, <1>2, <1>5, PrefixOfPrefix
  <1> QED BY <1>1, <1>2, <1>3, <1>4, <1>5 DEF u

LEMMA FrontOfPath ==
  ASSUME NEW S, NEW s \in Seq(S), s # <<>>
  PROVE  /\ Front(s) \in Seq(S) /\ Len(Front(s)) = Len(s) - 1 /\ Len(s) \in Nat \ {0}
         /\ IsPrefix(Front(s), s) /\ Last(s) \in S
         /\ \A t \in Seq(S) : IsPrefix(t, s) /\ t # s => IsPrefix(t, Front(s))
  <1>1. Len(s) \in Nat \ {0}
    BY LenProperties, EmptySeq
  <1>2. \A i \in 1 .. Len(s) : s[i] \in S
    BY ElementOfSeq
  <1>3. /\ Front(s) \in Seq(S) /\ Len(Front(s)) = Len(s) - 1
        /\ \A i \in 1 .. Len(s) - 1 : Front(s)[i] = s[i]
    <2>1. PICK n \in Nat : n = Len(s) - 1
      BY <1>1
    <2>2. /\ SubSeq(s, 1, n) \in Seq(S) /\ Len(SubSeq(s, 1, n)) = n
          /\ \A i \in 1 .. n : SubSeq(s, 1, n)[i] = s[i]
      BY <1>1, <1>2, <2>1
    <2> QED BY <2>1, <2>2 DEF Front
  <1>4. Last(s) \in S
    BY <1>1, <1>2 DEF Last
  <1>5. IsPrefix(Front(s), s)
    <2>1. Len(Front(s)) <= Len(s) /\ \A i \in 1 .. Len(Front(s)) : Front(s)[i] = s[i]
      BY <1>1, <1>3
    <2> QED BY <1>3, <2>1, PrefixMeans
  <1>6. ASSUME NEW t \in Seq(S), IsPrefix(t, s), t # s PROVE IsPrefix(t, Front(s))
    <2>1. Len(t) <= Len(s) /\ Len(t) \in Nat
      BY <1>6, PrefixMeans
    <2>2. Len(t) # Len(s)
      BY <1>6, <2>1, PrefixSelf, PrefixesNest
    <2>3. Len(t) <= Len(Front(s))
      BY <1>1, <1>3, <2>1, <2>2
    <2> QED BY <1>3, <1>5, <1>6, <2>3, PrefixesNest
  <1> QED BY <1>1, <1>3, <1>4, <1>5, <1>6

\* Taking a path from p to r and back.
LEMMA RebasedPath ==
  ASSUME NEW p \in Seq(Names), NEW q \in Seq(Names), NEW r \in Seq(Names),
         IsPrefix(p, q)
  PROVE  LET b == Rebased(q, p, r)
         IN /\ b \in Seq(Names) /\ Len(b) = Len(r) + Len(q) - Len(p)
            /\ IsPrefix(r, b)
            /\ \A i \in 1 .. Len(q) - Len(p) : b[Len(r) + i] = q[Len(p) + i]
  <1> DEFINE rest == SubSeq(q, Len(p) + 1, Len(q))
             b == r \o rest
  <1>1. /\ Len(p) \in Nat /\ Len(q) \in Nat /\ Len(r) \in Nat /\ Len(p) <= Len(q)
    BY PrefixMeans
  <1>2. \A i \in 1 .. Len(q) : q[i] \in Names
    BY ElementOfSeq
  <1>3. /\ rest \in Seq(Names) /\ Len(rest) = Len(q) - Len(p)
        /\ \A i \in 1 .. Len(q) - Len(p) : rest[i] = q[Len(p) + i]
    BY <1>1, <1>2
  <1> HIDE DEF rest
  <1>4. /\ b \in Seq(Names) /\ Len(b) = Len(r) + (Len(q) - Len(p))
        /\ \A i \in 1 .. Len(r) + (Len(q) - Len(p)) :
             b[i] = IF i <= Len(r) THEN r[i] ELSE rest[i - Len(r)]
    <2>1. /\ b \in Seq(Names) /\ Len(b) = Len(r) + Len(rest)
          /\ \A i \in 1 .. Len(r) + Len(rest) :
               b[i] = IF i <= Len(r) THEN r[i] ELSE rest[i - Len(r)]
      BY <1>3, ConcatProperties
    <2> HIDE DEF b
    <2> QED BY <1>3, <2>1
  <1> HIDE DEF b
  <1>5. IsPrefix(r, b)
    <2>1. Len(r) <= Len(b)
      BY <1>1, <1>4
    <2>2. ASSUME NEW i \in 1 .. Len(r) PROVE r[i] = b[i]
      <3>1. i \in 1 .. Len(r) + (Len(q) - Len(p)) /\ i <= Len(r)
        BY <1>1
      <3> QED BY <1>4, <3>1
    <2> QED BY <1>4, <2>1, <2>2, PrefixMeans
  <1>6. ASSUME NEW i \in 1 .. Len(q) - Len(p) PROVE b[Len(r) + i] = q[Len(p) + i]
    <2>1. /\ Len(r) + i \in 1 .. Len(r) + (Len(q) - Len(p)) /\ ~(Len(r) + i <= Len(r))
          /\ (Len(r) + i) - Len(r) = i
      BY <1>1
    <2>2. b[Len(r) + i] = rest[(Len(r) + i) - Len(r)]
      BY <1>4, <2>1
    <2> QED BY <1>3, <2>1, <2>2
  <1>7. Rebased(q, p, r) = b
    BY DEF Rebased, b, rest
  <1>8. Len(b) = Len(r) + Len(q) - Len(p)
    BY <1>1, <1>4
  <1> QED BY <1>4, <1>5, <1>6, <1>7, <1>8

LEMMA RebasedBack ==
  ASSUME NEW p \in Seq(Names), NEW q \in Seq(Names), NEW r \in Seq(Names),
         IsPrefix(p, q)
  PROVE  Rebased(Rebased(q, p, r), r, p) = q
  <1> DEFINE b == Rebased(q, p, r)
             c == Rebased(b, r, p)
  <1>1. /\ b \in Seq(Names) /\ Len(b) = Len(r) + Len(q) - Len(p) /\ IsPrefix(r, b)
        /\ \A i \in 1 .. Len(q) - Len(p) : b[Len(r) + i] = q[Len(p) + i]
    BY RebasedPath
  <1> HIDE DEF b
  <1>2. /\ c \in Seq(Names) /\ Len(c) = Len(p) + Len(b) - Len(r) /\ IsPrefix(p, c)
        /\ \A i \in 1 .. Len(b) - Len(r) : c[Len(p) + i] = b[Len(r) + i]
    BY <1>1, RebasedPath
  <1> HIDE DEF c
  <1>3. /\ Len(p) \in Nat /\ Len(q) \in Nat /\ Len(r) \in Nat /\ Len(p) <= Len(q)
        /\ \A i \in 1 .. Len(p) : p[i] = q[i]
    BY PrefixMeans
  <1>4. \A i \in 1 .. Len(p) : p[i] = c[i]
    BY <1>2, PrefixMeans
  <1>5. Len(c) = Len(q) /\ Len(b) - Len(r) = Len(q) - Len(p)
    BY <1>1, <1>2, <1>3
  <1>6. \A i \in 1 .. Len(q) : c[i] = q[i]
    <2> SUFFICES ASSUME NEW i \in 1 .. Len(q) PROVE c[i] = q[i]
      OBVIOUS
    <2>1. CASE i <= Len(p)
      <3>1. i \in 1 .. Len(p)
        BY <1>3, <2>1
      <3> QED BY <1>3, <1>4, <3>1
    <2>2. CASE ~(i <= Len(p))
      <3>1. PICK j \in 1 .. Len(q) - Len(p) : i = Len(p) + j
        <4>1. i - Len(p) \in 1 .. Len(q) - Len(p) /\ i = Len(p) + (i - Len(p))
          BY <1>3, <2>2
        <4> QED BY <4>1
      <3>2. c[Len(p) + j] = b[Len(r) + j] /\ b[Len(r) + j] = q[Len(p) + j]
        BY <1>1, <1>2, <1>5, <3>1
      <3> QED BY <3>1, <3>2
    <2> QED BY <2>1, <2>2
  <1>7. c = q
    BY <1>2, <1>5, <1>6, SeqEqual
  <1> QED BY <1>7 DEF b, c

\* What is above a path is above it after both are taken from p to r.
LEMMA RebasedAbove ==
  ASSUME NEW p \in Seq(Names), NEW q \in Seq(Names), NEW r \in Seq(Names),
         NEW a \in Seq(Names), IsPrefix(p, a), IsPrefix(a, q)
  PROVE  /\ IsPrefix(p, q) /\ IsPrefix(Rebased(a, p, r), Rebased(q, p, r))
         /\ Len(Rebased(a, p, r)) <= Len(Rebased(q, p, r))
         /\ a # q => Rebased(a, p, r) # Rebased(q, p, r)
  <1> DEFINE b == Rebased(q, p, r)
             c == Rebased(a, p, r)
  <1>1. IsPrefix(p, q)
    BY PrefixOfPrefix
  <1>2. /\ b \in Seq(Names) /\ Len(b) = Len(r) + Len(q) - Len(p) /\ IsPrefix(r, b)
        /\ \A i \in 1 .. Len(q) - Len(p) : b[Len(r) + i] = q[Len(p) + i]
    BY <1>1, RebasedPath
  <1>3. /\ c \in Seq(Names) /\ Len(c) = Len(r) + Len(a) - Len(p) /\ IsPrefix(r, c)
        /\ \A i \in 1 .. Len(a) - Len(p) : c[Len(r) + i] = a[Len(p) + i]
    BY RebasedPath
  <1>4. a # q => c # b
    BY <1>1, RebasedBack
  <1> HIDE DEF b, c
  <1>5. /\ Len(p) \in Nat /\ Len(q) \in Nat /\ Len(r) \in Nat /\ Len(a) \in Nat
        /\ Len(p) <= Len(a) /\ Len(a) <= Len(q)
        /\ \A i \in 1 .. Len(a) : a[i] = q[i]
    BY PrefixMeans
  <1>6. /\ \A i \in 1 .. Len(r) : r[i] = b[i]
        /\ \A i \in 1 .. Len(r) : r[i] = c[i]
    BY <1>2, <1>3, PrefixMeans
  <1>7. \A i \in 1 .. Len(c) : c[i] = b[i]
    <2> SUFFICES ASSUME NEW i \in 1 .. Len(c) PROVE c[i] = b[i]
      OBVIOUS
    <2>1. CASE i <= Len(r)
      <3>1. i \in 1 .. Len(r)
        BY <1>3, <1>5, <2>1
      <3> QED BY <1>6, <3>1
    <2>2. CASE ~(i <= Len(r))
      <3>1. PICK j \in 1 .. Len(a) - Len(p) : i = Len(r) + j
        <4>1. i - Len(r) \in 1 .. Len(a) - Len(p) /\ i = Len(r) + (i - Len(r))
          BY <1>3, <1>5, <2>2
        <4> QED BY <4>1
      <3>2. j \in 1 .. Len(q) - Len(p) /\ Len(p) + j \in 1 .. Len(a)
        BY <1>5, <3>1
      <3>3. c[Len(r) + j] = a[Len(p) + j] /\ b[Len(r) + j] = q[Len(p) + j]
        BY <1>2, <1>3, <3>1, <3>2
      <3>4. a[Len(p) + j] = q[Len(p) + j]
        BY <1>5, <3>2
      <3> QED BY <3>1, <3>3, <3>4
    <2> QED BY <2>1, <2>2
  <1>8. Len(c) <= Len(b)
    BY <1>2, <1>3, <1>5
  <1>9. IsPrefix(c, b)
    BY <1>2, <1>3, <1>7, <1>8, PrefixMeans
  <1> QED BY <1>1, <1>4, <1>8, <1>9 DEF b, c

---------------------------------------------------------------------------
(* Types, and where a batch is: no request is sent before each source has  *)
(* its pair.                                                               *)

BatchInv ==
  /\ pc = "source" => Len(ops) < Len(sources) /\ sent = 0 /\ verb # "rename"
  /\ pc = "run" => Len(ops) = Len(sources) /\ sent < Len(ops) /\ verb # "rename"
  /\ pc = "rename" => Len(sources) = 1 /\ sent = 0 /\ verb = "rename"
  /\ AllOrNothing
  /\ pc # "prompt" => given > 0

LEMMA RequestType ==
  ASSUME TypeOK, NEW p, NEW r, NEW over, NEW keep, Request(p, r, over, keep)
  PROVE  tree' \in [Paths -> {ABSENT, COLL} \cup Files]
  <1>1. tree \in [Paths -> {ABSENT, COLL} \cup Files]
    BY DEF TypeOK
  <1>2. Transferred(p, r, keep) \in [Paths -> {ABSENT, COLL} \cup Files]
    BY <1>1 DEF Transferred
  <1> QED BY <1>1, <1>2 DEF Request

\* The types of what a command line gives.
LEMMA LineTypes ==
  /\ \A n \in 1 .. MaxSources : \A srcs \in [1 .. n -> Typed] :
       srcs \in Seq(Paths) /\ Len(srcs) = n /\ n > 0
  /\ \A src \in Typed : <<src>> \in Seq(Paths) /\ Len(<<src>>) = 1
  <1>1. ASSUME NEW n \in 1 .. MaxSources, NEW srcs \in [1 .. n -> Typed]
        PROVE  srcs \in Seq(Paths) /\ Len(srcs) = n /\ n > 0
    <2>1. n \in Nat /\ n > 0
      BY <1>1, Bounds
    <2>2. srcs \in [1 .. n -> Paths]
      BY <1>1, TypedPaths
    <2>3. srcs \in Seq(Paths)
      <3>1. srcs \in UNION {[1 .. k -> Paths] : k \in Nat}
        BY <2>1, <2>2, Zenon
      <3> QED BY <3>1, SeqDef
    <2>4. Len(srcs) = n
      BY <2>1, <2>2, <2>3, LenProperties
    <2> QED BY <2>1, <2>3, <2>4
  <1>2. ASSUME NEW src \in Typed PROVE <<src>> \in Seq(Paths) /\ Len(<<src>>) = 1
    BY <1>2, TypedPaths
  <1> QED BY <1>1, <1>2

\* What a new command line leaves as it was and what it sets.
LEMMA Started ==
  ASSUME TypeOK, Command
  PROVE  /\ pc = "prompt" /\ tree' = tree /\ before' = tree /\ made' = made
         /\ given' = given + 1 /\ given' \in 0 .. MaxCommands /\ given' > 0
         /\ ops' = <<>> /\ sent' = 0 /\ dest' \in Paths /\ sources' \in Seq(Paths)
         /\ Len(sources') > 0
         /\ {slash', destcoll', overwrite'} \subseteq BOOLEAN
         /\ misread' \subseteq Paths
         /\ \/ /\ verb' \in {"copy", "move"} /\ pc' = "source"
               /\ FirstLookup(dest', destcoll')
            \/ verb' = "rename" /\ pc' \in {"prompt", "rename"} /\ Len(sources') = 1
  <1>1. /\ pc = "prompt" /\ given \in Nat /\ given + 1 \in 0 .. MaxCommands
    BY Bounds DEF Command, TypeOK
  <1>2. ASSUME NEW v \in {"copy", "move"}, NEW n \in 1 .. MaxSources, NEW d \in Typed,
               NEW srcs \in [1 .. n -> Typed], CopyMoveCommand(v, srcs, d)
        PROVE  /\ tree' = tree /\ before' = tree /\ made' = made /\ given' = given + 1
               /\ ops' = <<>> /\ sent' = 0 /\ dest' \in Paths /\ sources' \in Seq(Paths)
               /\ Len(sources') > 0
               /\ {slash', destcoll', overwrite'} \subseteq BOOLEAN
               /\ misread' \subseteq Paths
               /\ verb' \in {"copy", "move"} /\ pc' = "source"
               /\ FirstLookup(dest', destcoll')
    <2>1. /\ verb' = v /\ sources' = srcs /\ dest' = d /\ dest' \in Paths
          /\ overwrite' \in BOOLEAN /\ slash' \in BOOLEAN /\ destcoll' \in BOOLEAN
          /\ ops' = <<>> /\ sent' = 0 /\ before' = tree /\ given' = given + 1
          /\ tree' = tree /\ made' = made /\ pc' = "source"
          /\ FirstLookup(d, destcoll')
      BY <1>2, TypedPaths DEF CopyMoveCommand, Start
    <2>2. sources' \in Seq(Paths) /\ Len(sources') > 0
      BY <2>1, LineTypes
    <2>3. misread' \subseteq Paths
      BY <2>1 DEF FirstLookup
    <2> QED BY <2>1, <2>2, <2>3
  <1>3. ASSUME NEW src \in Typed, NEW d \in Typed, RenameCommand(src, d)
        PROVE  /\ tree' = tree /\ before' = tree /\ made' = made /\ given' = given + 1
               /\ ops' = <<>> /\ sent' = 0 /\ dest' \in Paths /\ sources' \in Seq(Paths)
               /\ Len(sources') = 1
               /\ {slash', destcoll', overwrite'} \subseteq BOOLEAN
               /\ misread' \subseteq Paths
               /\ verb' = "rename" /\ pc' \in {"prompt", "rename"}
    <2>1. /\ verb' = "rename" /\ sources' = <<src>> /\ dest' = d /\ dest' \in Paths
          /\ overwrite' \in BOOLEAN /\ slash' \in BOOLEAN /\ destcoll' = FALSE
          /\ ops' = <<>> /\ sent' = 0 /\ before' = tree /\ given' = given + 1
          /\ tree' = tree /\ made' = made
          /\ pc' \in {"prompt", "rename"}
      BY <1>3, TypedPaths DEF RenameCommand, Start
    <2>2. sources' \in Seq(Paths) /\ Len(sources') = 1
      BY <2>1, LineTypes
    <2>3. misread' = {} \/ misread' = {src}
      BY <1>3 DEF RenameCommand, FirstLookup
    <2>4. misread' \subseteq Paths
      BY <2>3, TypedPaths
    <2> QED BY <2>1, <2>2, <2>4
  <1>4. \/ \E v \in {"copy", "move"}, n \in 1 .. MaxSources, d \in Typed :
             \E srcs \in [1 .. n -> Typed] : CopyMoveCommand(v, srcs, d)
        \/ \E src, d \in Typed : RenameCommand(src, d)
    BY DEF Command
  <1>5. CASE \E v \in {"copy", "move"}, n \in 1 .. MaxSources, d \in Typed :
               \E srcs \in [1 .. n -> Typed] : CopyMoveCommand(v, srcs, d)
    <2>0. PICK v \in {"copy", "move"}, n \in 1 .. MaxSources, d \in Typed :
            \E srcs \in [1 .. n -> Typed] : CopyMoveCommand(v, srcs, d)
      BY <1>5, Zenon
    <2>1. PICK srcs \in [1 .. n -> Typed] : CopyMoveCommand(v, srcs, d)
      BY <2>0
    <2>2. /\ tree' = tree /\ before' = tree /\ made' = made /\ given' = given + 1
          /\ ops' = <<>> /\ sent' = 0 /\ dest' \in Paths /\ sources' \in Seq(Paths)
          /\ Len(sources') > 0
          /\ {slash', destcoll', overwrite'} \subseteq BOOLEAN
          /\ misread' \subseteq Paths
          /\ verb' \in {"copy", "move"} /\ pc' = "source"
          /\ FirstLookup(dest', destcoll')
      BY <1>2, <2>1
    <2> QED BY <1>1, <2>2
  <1>6. CASE \E src, d \in Typed : RenameCommand(src, d)
    <2>1. PICK src \in Typed, d \in Typed : RenameCommand(src, d)
      BY <1>6
    <2>2. /\ tree' = tree /\ before' = tree /\ made' = made /\ given' = given + 1
          /\ ops' = <<>> /\ sent' = 0 /\ dest' \in Paths /\ sources' \in Seq(Paths)
          /\ Len(sources') = 1
          /\ {slash', destcoll', overwrite'} \subseteq BOOLEAN
          /\ misread' \subseteq Paths
          /\ verb' = "rename" /\ pc' \in {"prompt", "rename"}
      BY <1>3, <2>1
    <2> QED BY <1>1, <2>2
  <1> QED BY <1>4, <1>5, <1>6

\* One round of the first loop.
LEMMA LookedUp ==
  ASSUME TypeOK, BatchInv, LookupSource
  PROVE  LET src == sources[Len(ops) + 1]
         IN /\ Len(ops) + 1 \in 1 .. Len(sources) /\ src \in Paths
            /\ UNCHANGED <<tree, verb, sources, slash, dest, destcoll, overwrite, sent,
                           before, given, made>>
            /\ misread \subseteq misread' /\ misread' \subseteq Paths
            /\ \/ ops' = ops /\ pc' = "prompt"
               \/ /\ src # Root
                  /\ \E coll \in BOOLEAN :
                       /\ coll = IsColl(src) \/ src \in misread'
                       /\ ops' = Append(ops, PairFor(src, coll))
                       /\ PairFor(src, coll) \in Pair
                  /\ Len(ops') = Len(ops) + 1 /\ ops' \in Seq(Pair)
                  /\ pc' = IF Len(ops') = Len(sources) THEN "run" ELSE "source"
  <1> DEFINE src == sources[Len(ops) + 1]
  <1>1. /\ ops \in Seq(Pair) /\ sources \in Seq(Paths) /\ dest \in Paths
        /\ Len(ops) < Len(sources) /\ misread \subseteq Paths
    BY DEF TypeOK, BatchInv, LookupSource
  <1>2. Len(ops) \in Nat /\ Len(sources) \in Nat
    BY <1>1, LenProperties
  <1>3. Len(ops) + 1 \in 1 .. Len(sources)
    BY <1>1, <1>2
  <1>4. src \in Paths
    BY <1>1, <1>3, ElementOfSeq
  <1>5. PICK coll \in BOOLEAN :
          /\ Lookup(src, coll)
          /\ \/ Refused(src, coll) /\ pc' = "prompt" /\ UNCHANGED ops
             \/ /\ ~Refused(src, coll)
                /\ ops' = Append(ops, PairFor(src, coll))
                /\ pc' = IF Len(ops') = Len(sources) THEN "run" ELSE "source"
    BY DEF LookupSource
  <1>6. UNCHANGED <<tree, verb, sources, slash, dest, destcoll, overwrite, sent,
                    before, given, made>>
    BY DEF LookupSource
  <1> HIDE DEF src
  <1>7. /\ misread \subseteq misread' /\ misread' \subseteq Paths
        /\ coll = IsColl(src) \/ src \in misread'
    BY <1>1, <1>4, <1>5 DEF Lookup
  <1>8. ASSUME ~Refused(src, coll)
        PROVE  src # Root /\ PairFor(src, coll) \in Pair
    <2>1. src # Root
      BY <1>8 DEF Refused
    <2>2. src \in Seq(Names) /\ dest \in Seq(Names) /\ src # <<>>
      BY <1>1, <1>4, <2>1, PathIsSeq DEF Root
    <2>3. Last(src) \in Names
      BY <2>2, FrontOfPath
    <2>4. Append(dest, Last(src)) \in Seq(Names)
      BY <2>2, <2>3, AppendProperties
    <2>5. PairFor(src, coll) \in Pair
      BY <1>4, <2>2, <2>4 DEF PairFor, Into, Pair
    <2> QED BY <2>1, <2>5
  <1>9. ASSUME ~Refused(src, coll), ops' = Append(ops, PairFor(src, coll))
        PROVE  Len(ops') = Len(ops) + 1 /\ ops' \in Seq(Pair)
    BY <1>1, <1>8, <1>9, AppendProperties
  <1> QED BY <1>3, <1>4, <1>5, <1>6, <1>7, <1>8, <1>9 DEF src

LEMMA InitTypes == Init => TypeOK /\ BatchInv
  <1> SUFFICES ASSUME Init PROVE TypeOK /\ BatchInv
    OBVIOUS
  <1>1. PICK t \in [Typed -> {ABSENT, COLL} \cup Files] :
          tree = [p \in Paths |-> IF p \in Typed THEN t[p] ELSE ABSENT]
    BY DEF Init
  <1>2. tree \in [Paths -> {ABSENT, COLL} \cup Files]
    BY <1>1
  <1>3. /\ <<>> \in Seq(Paths) /\ <<>> \in Seq(Pair) /\ Len(<<>>) = 0
    BY EmptySeq
  <1>4. 0 \in 0 .. MaxCommands /\ 0 \in 0 .. MaxMade /\ 0 \in 0 .. Len(<<>>)
    BY <1>3, Bounds
  <1>5. TypeOK
    <2>1. /\ pc = "prompt" /\ verb = "copy" /\ sources = <<>> /\ slash = FALSE
          /\ dest = Root /\ destcoll = FALSE /\ overwrite = TRUE /\ ops = <<>>
          /\ sent = 0 /\ before = tree /\ given = 0 /\ made = 0 /\ misread = {}
      BY DEF Init
    <2>2. sources \in Seq(Paths) /\ ops \in Seq(Pair) /\ Len(ops) <= Len(sources)
      BY <1>3, <2>1
    <2>3. sent \in 0 .. Len(sources) /\ given \in 0 .. MaxCommands /\ made \in 0 .. MaxMade
      BY <1>4, <2>1
    <2>4. dest \in Paths /\ {slash, destcoll, overwrite} \subseteq BOOLEAN
      BY <2>1, TypedPaths
    <2>5. before \in [Paths -> {ABSENT, COLL} \cup Files]
      BY <1>2, <2>1
    <2> QED BY <1>2, <2>1, <2>2, <2>3, <2>4, <2>5 DEF TypeOK
  <1>6. BatchInv
    BY DEF Init, BatchInv, AllOrNothing
  <1> QED BY <1>5, <1>6

LEMMA StepTypes == TypeOK /\ BatchInv /\ [Next]_vars => TypeOK' /\ BatchInv'
  <1> SUFFICES ASSUME TypeOK, BatchInv, [Next]_vars PROVE TypeOK' /\ BatchInv'
    OBVIOUS
  <1>0. /\ Len(ops) \in Nat /\ Len(sources) \in Nat /\ sent \in Nat /\ given \in Nat
        /\ made \in Nat
    <2>1. ops \in Seq(Pair) /\ sources \in Seq(Paths)
      BY DEF TypeOK
    <2>2. Len(ops) \in Nat /\ Len(sources) \in Nat
      BY <2>1, LenProperties
    <2> QED BY <2>2, Bounds DEF TypeOK
  <1>1. CASE Command
    <2>1. /\ sent' \in 0 .. Len(sources') /\ Len(ops') <= Len(sources')
          /\ Len(ops') < Len(sources') /\ ops' \in Seq(Pair)
      <3>1. ops' = <<>> /\ sent' = 0 /\ sources' \in Seq(Paths) /\ Len(sources') > 0
        BY <1>1, Started
      <3>2. Len(sources') \in Nat /\ Len(ops') = 0 /\ ops' \in Seq(Pair)
        BY <3>1, LenProperties, EmptySeq
      <3> QED BY <3>1, <3>2
    <2>2. TypeOK'
      BY <1>1, <2>1, Started DEF TypeOK
    <2>3. BatchInv'
      BY <1>1, <2>1, Started DEF BatchInv, AllOrNothing
    <2> QED BY <2>2, <2>3
  <1>2. CASE LookupSource
    <2>1. /\ UNCHANGED <<tree, verb, sources, slash, dest, destcoll, overwrite, sent,
                         before, given, made>>
          /\ misread' \subseteq Paths /\ pc = "source"
          /\ \/ ops' = ops /\ pc' = "prompt"
             \/ /\ Len(ops') = Len(ops) + 1 /\ ops' \in Seq(Pair)
                /\ pc' = IF Len(ops') = Len(sources) THEN "run" ELSE "source"
      BY <1>2, LookedUp DEF LookupSource
    <2>2. /\ ops' \in Seq(Pair) /\ Len(ops') <= Len(sources)
          /\ pc' \in {"prompt", "source", "run"}
          /\ pc' = "source" => Len(ops') < Len(sources)
          /\ pc' = "run" => Len(ops') = Len(sources) /\ Len(sources) > 0
      BY <1>0, <2>1 DEF TypeOK, BatchInv
    <2>3. TypeOK'
      BY <2>1, <2>2 DEF TypeOK
    <2>4. BatchInv'
      BY <1>0, <2>1, <2>2 DEF BatchInv, AllOrNothing
    <2> QED BY <2>3, <2>4
  <1>3. CASE SendPair
    <2>1. /\ tree' \in [Paths -> {ABSENT, COLL} \cup Files]
      BY <1>3, RequestType DEF SendPair
    <2>2. /\ pc = "run" /\ sent' = sent + 1
          /\ pc' = IF sent' = Len(ops) THEN "prompt" ELSE "run"
          /\ UNCHANGED <<verb, sources, slash, dest, destcoll, overwrite, ops, before,
                         given, made, misread>>
      BY <1>3 DEF SendPair
    <2>3. /\ sent' \in 0 .. Len(sources) /\ Len(ops) = Len(sources)
          /\ pc' = "run" => sent' < Len(ops)
      BY <1>0, <2>2 DEF BatchInv
    <2>4. TypeOK'
      BY <2>1, <2>2, <2>3 DEF TypeOK
    <2>5. BatchInv'
      BY <2>2, <2>3 DEF BatchInv, AllOrNothing
    <2> QED BY <2>4, <2>5
  <1>4. CASE SendRename
    <2>1. /\ tree' \in [Paths -> {ABSENT, COLL} \cup Files]
      BY <1>4, RequestType DEF SendRename
    <2>2. /\ pc = "rename" /\ sent' = 1 /\ pc' = "prompt" /\ Len(sources) = 1
          /\ UNCHANGED <<verb, sources, slash, dest, destcoll, overwrite, ops, before,
                         given, made, misread>>
      BY <1>4 DEF SendRename, BatchInv
    <2>5. sent' \in 0 .. Len(sources)
      BY <1>0, <2>2
    <2>3. TypeOK'
      BY <2>1, <2>2, <2>5 DEF TypeOK
    <2>4. BatchInv'
      BY <2>2 DEF BatchInv, AllOrNothing
    <2> QED BY <2>3, <2>4
  <1>5. CASE \E p \in Typed : OtherMakes(p)
    <2>1. PICK p \in Typed : OtherMakes(p)
      BY <1>5
    <2>2. /\ tree' = [tree EXCEPT ![p] = COLL] /\ made' = made + 1 /\ made < MaxMade
          /\ UNCHANGED <<pc, verb, sources, slash, dest, destcoll, overwrite, ops, sent,
                         before, given, misread>>
      BY <2>1 DEF OtherMakes
    <2>6. tree \in [Paths -> {ABSENT, COLL} \cup Files] /\ p \in Paths
      BY TypedPaths DEF TypeOK
    <2>7. tree' \in [Paths -> {ABSENT, COLL} \cup Files]
      BY <2>2, <2>6
    <2>8. made' \in 0 .. MaxMade
      BY <1>0, <2>2, Bounds
    <2>3. tree' \in [Paths -> {ABSENT, COLL} \cup Files] /\ made' \in 0 .. MaxMade
      BY <2>7, <2>8
    <2>4. TypeOK'
      BY <2>2, <2>3 DEF TypeOK
    <2>5. BatchInv'
      BY <2>2 DEF BatchInv, AllOrNothing
    <2> QED BY <2>4, <2>5
  <1>6. CASE UNCHANGED vars
    BY <1>6 DEF vars, TypeOK, BatchInv, AllOrNothing
  <1> QED BY <1>1, <1>2, <1>3, <1>4, <1>5, <1>6 DEF Next, Done

LEMMA Typing == Spec => [](TypeOK /\ BatchInv)
  BY InitTypes, StepTypes, PTL DEF Spec

\* Every variable keeps its type, and no request of a batch is sent before each
\* source has its pair, so that a refused source sends nothing (do_copymove).
THEOREM BatchesAreSound == Spec => []BatchSound
  <1>1. TypeOK /\ BatchInv => BatchSound
    BY DEF BatchInv, BatchSound
  <1> QED BY <1>1, Typing, PTL

---------------------------------------------------------------------------
(* The hierarchy: whatever is there is in collections, up to the root.     *)

Closed(t) ==
  \A p, q \in Paths : IsPrefix(p, q) /\ p # q /\ t[q] # ABSENT => t[p] = COLL

HierarchyInv == Closed(tree) /\ Closed(before) /\ tree[Root] = COLL

LEMMA RootPrefix ==
  \A s \in Seq(Names) : IsPrefix(Root, s) /\ (IsPrefix(s, Root) <=> s = Root)
  <1> SUFFICES ASSUME NEW s \in Seq(Names)
               PROVE  IsPrefix(Root, s) /\ (IsPrefix(s, Root) <=> s = Root)
    OBVIOUS
  <1>1. Root \in Seq(Names) /\ Len(Root) = 0 /\ Len(s) \in Nat
    BY EmptySeq, LenProperties DEF Root
  <1>2. IsPrefix(Root, s)
    <2>1. Len(Root) <= Len(s) /\ \A i \in 1 .. Len(Root) : Root[i] = s[i]
      BY <1>1
    <2> QED BY <1>1, <2>1, PrefixMeans
  <1>3. IsPrefix(s, Root) => s = Root
    <2> SUFFICES ASSUME IsPrefix(s, Root) PROVE s = Root
      OBVIOUS
    <2>1. Len(s) <= Len(Root)
      BY <1>1, PrefixMeans
    <2>2. Len(s) = 0
      BY <1>1, <2>1
    <2> QED BY <2>2, EmptySeq DEF Root
  <1>4. s = Root => IsPrefix(s, Root)
    BY <1>2
  <1> QED BY <1>2, <1>3, <1>4

LEMMA LeastOf ==
  ASSUME NEW S \in SUBSET Nat, S # {}
  PROVE  \E n \in S : \A m \in S : ~(m < n)
  <1>1. PICK n \in S : \A m \in S : ~(<<m, n>> \in OpToRel(<, Nat))
    BY WFMin, NatLessThanWellFounded, Zenon
  <1>2. \A m \in S : ~(m < n)
    BY <1>1, Zenon DEF OpToRel
  <1> QED BY <1>2

\* Each resource in a collection, each resource under collections only.
LEMMA UnderCollections ==
  ASSUME NEW t, \A p \in Paths \ {Root} : t[p] # ABSENT => t[Front(p)] = COLL
  PROVE  Closed(t)
  <1> DEFINE Bad == {n \in Nat : \E p, q \in Paths :
                       /\ Len(q) = n /\ IsPrefix(p, q) /\ p # q
                       /\ t[q] # ABSENT /\ t[p] # COLL}
  <1>1. \A p, q \in Paths : IsPrefix(p, q) /\ p # q /\ t[q] # ABSENT /\ t[p] # COLL
          => Len(q) \in Bad
    <2> SUFFICES ASSUME NEW p \in Paths, NEW q \in Paths, IsPrefix(p, q), p # q,
                        t[q] # ABSENT, t[p] # COLL
                 PROVE  Len(q) \in Bad
      OBVIOUS
    <2>1. Len(q) \in Nat
      BY PathIsSeq, LenProperties
    <2> QED BY <2>1
  <1>2. ASSUME Bad # {} PROVE FALSE
    <2>0. Bad \in SUBSET Nat
      OBVIOUS
    <2>1. PICK n \in Bad : \A m \in Bad : ~(m < n)
      <3> HIDE DEF Bad
      <3> QED BY <1>2, <2>0, LeastOf
    <2>2. \A m \in Bad : ~(m < n)
      BY <2>1
    <2>3. PICK p \in Paths, q \in Paths :
            /\ Len(q) = n /\ IsPrefix(p, q) /\ p # q
            /\ t[q] # ABSENT /\ t[p] # COLL
      BY <2>1
    <2> HIDE DEF Bad
    <2>4. p \in Seq(Names) /\ q \in Seq(Names) /\ Len(q) <= MaxDepth
      BY PathIsSeq
    <2>5. q # Root
      BY <2>3, <2>4, RootPrefix
    <2>6. /\ Front(q) \in Seq(Names) /\ Len(Front(q)) = Len(q) - 1 /\ Len(q) \in Nat \ {0}
          /\ IsPrefix(p, Front(q))
      BY <2>3, <2>4, <2>5, FrontOfPath DEF Root
    <2>7. Front(q) \in Paths /\ Len(Front(q)) < n
      BY <2>3, <2>4, <2>6, Bounds, PathIsSeq
    <2>8. t[Front(q)] = COLL
      BY <2>3, <2>5
    <2>9. Len(Front(q)) \in Bad
      BY <1>1, <2>3, <2>6, <2>7, <2>8, ContentsDiffer
    <2> QED BY <2>2, <2>7, <2>9
  <1> HIDE DEF Bad
  <1> QED BY <1>1, <1>2 DEF Closed

LEMMA InitHierarchy == Init => HierarchyInv
  <1> SUFFICES ASSUME Init PROVE HierarchyInv
    OBVIOUS
  <1>1. PICK t \in [Typed -> {ABSENT, COLL} \cup Files] :
          /\ WellFormed(t)
          /\ tree = [p \in Paths |-> IF p \in Typed THEN t[p] ELSE ABSENT]
    BY DEF Init
  <1>2. t[Root] = COLL /\ \A p \in Typed \ {Root} : t[p] # ABSENT => t[Front(p)] = COLL
    BY <1>1 DEF WellFormed
  <1>3. tree[Root] = COLL
    BY <1>1, <1>2, TypedPaths
  <1>4. ASSUME NEW p \in Paths \ {Root}, tree[p] # ABSENT PROVE tree[Front(p)] = COLL
    <2>1. p \in Typed /\ t[p] # ABSENT
      BY <1>1, <1>4
    <2>2. p \in Seq(Names) /\ Len(p) <= MaxTyped
      BY <2>1, PathIsSeq
    <2>3. Front(p) \in Seq(Names) /\ Len(Front(p)) = Len(p) - 1 /\ Len(p) \in Nat
      BY <1>4, <2>2, FrontOfPath DEF Root
    <2>4. Front(p) \in Typed
      <3>1. Len(Front(p)) <= MaxTyped
        BY <2>2, <2>3, Bounds
      <3> QED BY <2>3, <3>1, PathIsSeq
    <2>5. t[Front(p)] = COLL
      BY <1>2, <1>4, <2>1
    <2> QED BY <1>1, <2>4, <2>5, TypedPaths
  <1>5. Closed(tree)
    BY <1>4, UnderCollections
  <1>6. before = tree
    BY DEF Init
  <1> QED BY <1>3, <1>5, <1>6 DEF HierarchyInv

\* What a request that is carried out is about.
LEMMA AcceptablePaths ==
  ASSUME NEW p, NEW r, NEW over, Acceptable(p, r, over)
  PROVE  /\ p \in Paths /\ r \in Paths /\ p \in Seq(Names) /\ r \in Seq(Names)
         /\ tree[p] # ABSENT /\ ~IsPrefix(p, r) /\ ~IsPrefix(r, p)
         /\ r # Root /\ p # Root /\ Front(r) \in Paths /\ tree[Front(r)] = COLL
         /\ tree[r] # ABSENT => over
         /\ \A q \in Paths : IsPrefix(p, q) /\ tree[q] # ABSENT
              => Rebased(q, p, r) \in Paths
  <1>1. /\ p \in Paths /\ r \in Paths /\ tree[p] # ABSENT
        /\ ~IsPrefix(p, r) /\ ~IsPrefix(r, p)
        /\ Front(r) \in Paths /\ tree[Front(r)] = COLL
        /\ tree[r] # ABSENT => over
        /\ \A q \in Paths : IsPrefix(p, q) /\ tree[q] # ABSENT
             => Rebased(q, p, r) \in Paths
    BY DEF Acceptable, Exists, IsColl
  <1>2. p \in Seq(Names) /\ r \in Seq(Names)
    BY <1>1, PathIsSeq
  <1> QED BY <1>1, <1>2, RootPrefix

LEMMA TransferredValue ==
  ASSUME NEW p, NEW r, NEW keep, NEW q \in Paths
  PROVE  LET v == Transferred(p, r, keep)[q]
         IN /\ IsPrefix(r, q) /\ Rebased(q, r, p) \in Paths => v = tree[Rebased(q, r, p)]
            /\ IsPrefix(r, q) /\ Rebased(q, r, p) \notin Paths => v = ABSENT
            /\ ~IsPrefix(r, q) /\ IsPrefix(p, q) /\ ~keep => v = ABSENT
            /\ ~IsPrefix(r, q) /\ (IsPrefix(p, q) => keep) => v = tree[q]
  BY DEF Transferred

LEMMA TransferredClosed ==
  ASSUME Closed(tree), tree[Root] = COLL, NEW p, NEW r, NEW over, NEW keep \in BOOLEAN,
         Acceptable(p, r, over)
  PROVE  Closed(Transferred(p, r, keep)) /\ Transferred(p, r, keep)[Root] = COLL
  <1> DEFINE T == Transferred(p, r, keep)
  <1>0. /\ p \in Paths /\ r \in Paths /\ p \in Seq(Names) /\ r \in Seq(Names)
        /\ ~IsPrefix(p, r) /\ r # Root /\ p # Root
        /\ Front(r) \in Paths /\ tree[Front(r)] = COLL
    BY AcceptablePaths
  <1>1. T[Root] = COLL
    <2>1. Root \in Paths /\ Root \in Seq(Names)
      BY TypedPaths, PathIsSeq
    <2>2. ~IsPrefix(r, Root) /\ ~IsPrefix(p, Root)
      BY <1>0, RootPrefix
    <2>3. T[Root] = tree[Root]
      BY <2>1, <2>2, TransferredValue
    <2> QED BY <2>3
  <1>2. ASSUME NEW a \in Paths, NEW b \in Paths, IsPrefix(a, b), a # b, T[b] # ABSENT
        PROVE  T[a] = COLL
    <2>0. a \in Seq(Names) /\ b \in Seq(Names) /\ Len(a) \in Nat /\ Len(r) \in Nat
      BY <1>0, PathIsSeq, LenProperties
    <2>1. CASE IsPrefix(r, b) /\ IsPrefix(r, a)
      <3> DEFINE b2 == Rebased(b, r, p)
                 a2 == Rebased(a, r, p)
      <3>1. b2 \in Paths /\ T[b] = tree[b2]
        BY <1>2, <2>1, TransferredValue
      <3>2. IsPrefix(a2, b2) /\ Len(a2) <= Len(b2) /\ a2 # b2
        BY <1>0, <1>2, <2>0, <2>1, RebasedAbove
      <3>3. a2 \in Seq(Names)
        BY <1>0, <2>0, <2>1, RebasedPath
      <3> HIDE DEF a2, b2
      <3>4. b2 \in Seq(Names) /\ Len(b2) <= MaxDepth /\ Len(b2) \in Nat /\ Len(a2) \in Nat
        BY <3>1, <3>3, PathIsSeq, LenProperties
      <3>5. a2 \in Paths
        <4>1. Len(a2) <= MaxDepth
          BY <3>2, <3>4, Bounds
        <4> QED BY <3>3, <4>1, PathIsSeq
      <3>6. tree[a2] = COLL
        BY <1>2, <3>1, <3>2, <3>5 DEF Closed
      <3>7. T[a] = tree[a2]
        BY <2>1, <3>5, TransferredValue DEF a2
      <3> QED BY <3>6, <3>7
    <2>2. CASE IsPrefix(r, b) /\ ~IsPrefix(r, a)
      <3>1. IsPrefix(a, r) /\ a # r
        <4>1. ~(Len(r) <= Len(a))
          BY <1>0, <1>2, <2>0, <2>2, PrefixesNest
        <4>2. Len(a) <= Len(r)
          BY <2>0, <4>1
        <4>3. IsPrefix(a, r)
          BY <1>0, <1>2, <2>0, <2>2, <4>2, PrefixesNest
        <4> QED BY <2>0, <4>1, <4>3
      <3>2. IsPrefix(a, Front(r))
        BY <1>0, <2>0, <3>1, FrontOfPath DEF Root
      <3>3. tree[a] = COLL
        BY <1>0, <3>2, ContentsDiffer DEF Closed
      <3>4. ~IsPrefix(p, a)
        BY <1>0, <2>0, <3>1, PrefixOfPrefix
      <3>5. T[a] = tree[a]
        BY <2>2, <3>4, TransferredValue
      <3> QED BY <3>3, <3>5
    <2>3. CASE ~IsPrefix(r, b)
      <3>1. T[b] = tree[b] /\ (IsPrefix(p, b) => keep)
        BY <1>2, <2>3, TransferredValue
      <3>2. tree[a] = COLL
        BY <1>2, <3>1 DEF Closed
      <3>3. ~IsPrefix(r, a) /\ (IsPrefix(p, a) => keep)
        BY <1>0, <1>2, <2>0, <2>3, <3>1, PrefixOfPrefix
      <3>4. T[a] = tree[a]
        BY <3>3, TransferredValue
      <3> QED BY <3>2, <3>4
    <2> QED BY <2>1, <2>2, <2>3
  <1> HIDE DEF T
  <1>3. Closed(T)
    BY <1>2 DEF Closed
  <1> QED BY <1>1, <1>3 DEF T

\* Another client's collection.
LEMMA MadeTree ==
  ASSUME TypeOK, Closed(tree), tree[Root] = COLL, NEW p \in Typed, OtherMakes(p)
  PROVE  /\ p \in Paths /\ tree[p] = ABSENT /\ tree'[p] = COLL
         /\ \A q \in Paths : q # p => tree'[q] = tree[q]
         /\ Closed(tree') /\ tree'[Root] = COLL /\ pc # "prompt"
         /\ UNCHANGED <<pc, verb, sources, slash, dest, destcoll, overwrite, ops, sent,
                        before, given, misread>>
  <1>1. /\ p \in Paths /\ p # Root /\ tree[p] = ABSENT /\ Front(p) \in Paths
        /\ tree[Front(p)] = COLL /\ tree' = [tree EXCEPT ![p] = COLL]
    BY TypedPaths DEF OtherMakes, Exists, IsColl
  <1>2. tree'[p] = COLL /\ \A q \in Paths : q # p => tree'[q] = tree[q]
    BY <1>1 DEF TypeOK
  <1>3. tree'[Root] = COLL
    BY <1>1, <1>2, TypedPaths
  <1>4. ASSUME NEW a \in Paths, NEW b \in Paths, IsPrefix(a, b), a # b, tree'[b] # ABSENT
        PROVE  tree'[a] = COLL
    <2>1. CASE b = p
      <3>1. a \in Seq(Names) /\ p \in Seq(Names)
        BY <1>1, PathIsSeq
      <3>2. IsPrefix(a, Front(p))
        BY <1>1, <1>4, <2>1, <3>1, FrontOfPath DEF Root
      <3>3. tree[a] = COLL
        BY <1>1, <3>2, ContentsDiffer DEF Closed
      <3> QED BY <1>2, <1>4, <2>1, <3>3
    <2>2. CASE b # p
      <3>1. tree[a] = COLL
        BY <1>2, <1>4, <2>2 DEF Closed
      <3> QED BY <1>2, <3>1
    <2> QED BY <2>1, <2>2
  <1>5. Closed(tree')
    BY <1>4 DEF Closed
  <1>6. /\ pc # "prompt"
        /\ UNCHANGED <<pc, verb, sources, slash, dest, destcoll, overwrite, ops, sent,
                       before, given, misread>>
    BY DEF OtherMakes
  <1> QED BY <1>1, <1>2, <1>3, <1>5, <1>6

LEMMA RequestClosed ==
  ASSUME Closed(tree), tree[Root] = COLL, NEW p, NEW r, NEW over, NEW keep \in BOOLEAN,
         Request(p, r, over, keep)
  PROVE  Closed(tree') /\ tree'[Root] = COLL
  <1>1. CASE Acceptable(p, r, over) /\ tree' = Transferred(p, r, keep)
    BY <1>1, TransferredClosed
  <1>2. CASE UNCHANGED tree
    BY <1>2
  <1> QED BY <1>1, <1>2 DEF Request

---------------------------------------------------------------------------
(* What a command knows of the hierarchy it was given in.                  *)

\* The destination was a collection if the command takes it for one, and is
\* taken for one if its lookup did not fail.
LookedUpDest ==
  given > 0 /\ verb # "rename" =>
    /\ destcoll => before[dest] = COLL
    /\ ~destcoll /\ before[dest] = COLL => dest \in misread

\* Before the first request, all that was there is there.
OnlyMade ==
  pc \in {"source", "rename"} =>
    \A p \in Paths : before[p] # ABSENT => tree[p] = before[p]

\* Each pair is a source and its place in the destination, or the destination.
PairsAreRight ==
  Plain =>
    \A k \in 1 .. Len(ops) :
      /\ sources[k] # Root
      /\ ops[k] = [src |-> sources[k],
                   dest |-> IF destcoll THEN Append(dest, Last(sources[k])) ELSE dest]

CommandInv ==
  /\ HierarchyInv /\ LookedUpDest /\ OnlyMade /\ PairsAreRight
  /\ given > 0 => Len(sources) > 0

\* One request of the batch.
LEMMA Sent ==
  ASSUME TypeOK, BatchInv, SendPair
  PROVE  /\ sent + 1 \in 1 .. Len(ops) /\ sent + 1 \in 1 .. Len(sources)
         /\ sent + 1 \in DOMAIN sources /\ DOMAIN sources = 1 .. Len(sources)
         /\ sent \in Nat /\ pc = "run" /\ verb # "rename" /\ given > 0
         /\ ops[sent + 1].src \in Paths /\ ops[sent + 1].dest \in Seq(Names)
         /\ Request(ops[sent + 1].src, ops[sent + 1].dest, overwrite, verb = "copy")
         /\ sent' = sent + 1 /\ pc' \in {"prompt", "run"}
         /\ UNCHANGED <<verb, sources, slash, dest, destcoll, overwrite, ops, before,
                        given, made, misread>>
  <1>1. ops \in Seq(Pair) /\ sources \in Seq(Paths)
    BY DEF TypeOK
  <1>2. Len(ops) \in Nat /\ Len(sources) \in Nat /\ DOMAIN sources = 1 .. Len(sources)
    BY <1>1, LenProperties
  <1>3. /\ pc = "run" /\ Len(ops) = Len(sources) /\ sent < Len(ops)
        /\ verb # "rename" /\ given > 0 /\ sent \in 0 .. Len(sources)
    BY DEF SendPair, BatchInv, TypeOK
  <1>4. sent \in Nat /\ sent + 1 \in 1 .. Len(ops)
    BY <1>2, <1>3
  <1>5. ops[sent + 1] \in Pair
    BY <1>1, <1>4, ElementOfSeq
  <1>6. ops[sent + 1].src \in Paths /\ ops[sent + 1].dest \in Seq(Names)
    BY <1>5 DEF Pair
  <1>7. /\ Request(ops[sent + 1].src, ops[sent + 1].dest, overwrite, verb = "copy")
        /\ sent' = sent + 1 /\ pc' \in {"prompt", "run"}
        /\ UNCHANGED <<verb, sources, slash, dest, destcoll, overwrite, ops, before,
                       given, made, misread>>
    BY DEF SendPair
  <1> QED BY <1>2, <1>3, <1>4, <1>6, <1>7

\* A failed lookup only ever makes a command less plain.
LEMMA StaysPlain ==
  ASSUME misread \subseteq misread',
         UNCHANGED <<sources, slash, before>>
  PROVE  Plain' => Plain
  BY DEF Plain

LEMMA InitCommand == Init => CommandInv
  <1> SUFFICES ASSUME Init PROVE CommandInv
    OBVIOUS
  <1>1. given = 0 /\ pc = "prompt" /\ ops = <<>>
    BY DEF Init
  <1>2. ~(given > 0) /\ \A k \in 1 .. Len(ops) : FALSE
    <2>1. Len(ops) = 0
      BY <1>1, EmptySeq
    <2> QED BY <1>1, <2>1
  <1>3. LookedUpDest /\ OnlyMade /\ PairsAreRight
    BY <1>1, <1>2 DEF LookedUpDest, OnlyMade, PairsAreRight
  <1> QED BY <1>2, <1>3, InitHierarchy DEF CommandInv

LEMMA PairsGrow ==
  ASSUME TypeOK, BatchInv, CommandInv, LookupSource
  PROVE  PairsAreRight'
  <1> DEFINE src == sources[Len(ops) + 1]
             place(s) == IF destcoll THEN Append(dest, Last(s)) ELSE dest
  <1>1. /\ Len(ops) + 1 \in 1 .. Len(sources) /\ src \in Paths
        /\ UNCHANGED <<tree, verb, sources, slash, dest, destcoll, overwrite, sent,
                       before, given, made>>
        /\ misread \subseteq misread'
        /\ \/ ops' = ops
           \/ /\ src # Root /\ Len(ops') = Len(ops) + 1
              /\ \E coll \in BOOLEAN :
                   /\ coll = IsColl(src) \/ src \in misread'
                   /\ ops' = Append(ops, PairFor(src, coll))
                   /\ PairFor(src, coll) \in Pair
    BY LookedUp
  <1>2. /\ ops \in Seq(Pair) /\ Len(ops) \in Nat /\ sources \in Seq(Paths)
        /\ DOMAIN sources = 1 .. Len(sources)
    BY LenProperties DEF TypeOK
  <1> SUFFICES ASSUME Plain'
               PROVE  \A k \in 1 .. Len(ops') :
                        /\ sources[k] # Root
                        /\ ops'[k] = [src |-> sources[k], dest |-> place(sources[k])]
    BY <1>1 DEF PairsAreRight
  <1>3. Plain
    BY <1>1, StaysPlain
  <1>4. \A k \in 1 .. Len(ops) :
          /\ sources[k] # Root
          /\ ops[k] = [src |-> sources[k], dest |-> place(sources[k])]
    BY <1>3 DEF CommandInv, PairsAreRight
  <1>5. CASE ops' = ops
    BY <1>4, <1>5
  <1>6. CASE ops' # ops
    <2>1. src # Root /\ Len(ops') = Len(ops) + 1
      BY <1>1, <1>6
    <2>2. PICK coll \in BOOLEAN :
            /\ coll = IsColl(src) \/ src \in misread'
            /\ ops' = Append(ops, PairFor(src, coll))
            /\ PairFor(src, coll) \in Pair
      BY <1>1, <1>6
    <2>3. ~(slash /\ ~coll)
      <3> SUFFICES ASSUME slash PROVE coll
        OBVIOUS
      <3>1. before[src] = COLL /\ src \notin misread'
        BY <1>1, <1>2 DEF Plain
      <3>2. tree[src] = before[src]
        BY <1>1, <3>1, ContentsDiffer DEF CommandInv, OnlyMade, LookupSource
      <3>3. IsColl(src)
        BY <1>1, <3>1, <3>2 DEF IsColl
      <3> QED BY <2>2, <3>1, <3>3
    <2>4. PairFor(src, coll) = [src |-> src, dest |-> place(src)]
      BY <2>3 DEF PairFor, Into
    <2>5. \A k \in 1 .. Len(ops) : ops'[k] = ops[k]
      BY <1>2, <2>2, AppendProperties
    <2>6. ops'[Len(ops) + 1] = PairFor(src, coll)
      BY <1>2, <2>2, AppendProperties
    <2> SUFFICES ASSUME NEW k \in 1 .. Len(ops')
                 PROVE  /\ sources[k] # Root
                        /\ ops'[k] = [src |-> sources[k], dest |-> place(sources[k])]
      OBVIOUS
    <2>7. k \in 1 .. Len(ops) \/ k = Len(ops) + 1
      BY <1>2, <2>1
    <2> HIDE DEF place
    <2> QED BY <1>4, <2>1, <2>4, <2>5, <2>6, <2>7
  <1> QED BY <1>5, <1>6

LEMMA StepCommand ==
  TypeOK /\ BatchInv /\ CommandInv /\ [Next]_vars => CommandInv'
  <1> SUFFICES ASSUME TypeOK, BatchInv, CommandInv, [Next]_vars PROVE CommandInv'
    OBVIOUS
  <1>0. Closed(tree) /\ Closed(before) /\ tree[Root] = COLL
    BY DEF CommandInv, HierarchyInv
  <1>1. CASE Command
    <2>1. /\ tree' = tree /\ before' = tree /\ ops' = <<>> /\ Len(sources') > 0
          /\ dest' \in Paths /\ destcoll' \in BOOLEAN
          /\ verb' # "rename" => FirstLookup(dest', destcoll')
      BY <1>1, Started
    <2>2. HierarchyInv'
      BY <1>0, <2>1 DEF HierarchyInv, Closed
    <2>3. LookedUpDest'
      <3> SUFFICES ASSUME verb' # "rename"
                   PROVE  /\ destcoll' => tree[dest'] = COLL
                          /\ ~destcoll' /\ tree[dest'] = COLL => dest' \in misread'
        BY <2>1 DEF LookedUpDest
      <3>1. FirstLookup(dest', destcoll')
        BY <2>1
      <3>2. destcoll' = IsColl(dest') \/ (IsColl(dest') /\ ~destcoll' /\ dest' \in misread')
        BY <3>1 DEF FirstLookup
      <3>3. IsColl(dest') <=> tree[dest'] = COLL
        BY <2>1 DEF IsColl
      <3> QED BY <3>2, <3>3
    <2>4. OnlyMade'
      BY <2>1 DEF OnlyMade
    <2>5. PairsAreRight'
      <3>1. Len(ops') = 0
        BY <2>1, EmptySeq
      <3>2. \A k \in 1 .. Len(ops') : FALSE
        BY <3>1
      <3> QED BY <3>2 DEF PairsAreRight
    <2> QED BY <2>1, <2>2, <2>3, <2>4, <2>5 DEF CommandInv
  <1>2. CASE LookupSource
    <2>1. /\ UNCHANGED <<tree, verb, sources, slash, dest, destcoll, overwrite, sent,
                         before, given, made>>
          /\ misread \subseteq misread' /\ pc = "source"
      BY <1>2, LookedUp DEF LookupSource
    <2>2. PairsAreRight'
      BY <1>2, PairsGrow
    <2>3. HierarchyInv' /\ LookedUpDest' /\ OnlyMade'
      BY <2>1 DEF CommandInv, HierarchyInv, Closed, LookedUpDest, OnlyMade
    <2> QED BY <2>1, <2>2, <2>3 DEF CommandInv
  <1>3. CASE SendPair
    <2>1. /\ Request(ops[sent + 1].src, ops[sent + 1].dest, overwrite, verb = "copy")
          /\ pc' \in {"prompt", "run"}
          /\ UNCHANGED <<verb, sources, slash, dest, destcoll, overwrite, ops, before,
                         given, made, misread>>
      BY <1>3, Sent
    <2>2. Closed(tree') /\ tree'[Root] = COLL
      BY <1>0, <2>1, RequestClosed
    <2>3. HierarchyInv'
      BY <1>0, <2>1, <2>2 DEF HierarchyInv, Closed
    <2>4. LookedUpDest' /\ OnlyMade' /\ PairsAreRight'
      BY <2>1 DEF CommandInv, LookedUpDest, OnlyMade, PairsAreRight, Plain
    <2> QED BY <2>1, <2>3, <2>4 DEF CommandInv
  <1>4. CASE SendRename
    <2>1. /\ Request(sources[1], dest, FALSE, FALSE) /\ pc' = "prompt"
          /\ UNCHANGED <<verb, sources, slash, dest, destcoll, overwrite, ops, before,
                         given, made, misread>>
      BY <1>4 DEF SendRename
    <2>2. Closed(tree') /\ tree'[Root] = COLL
      BY <1>0, <2>1, RequestClosed
    <2>3. HierarchyInv'
      BY <1>0, <2>1, <2>2 DEF HierarchyInv, Closed
    <2>4. LookedUpDest' /\ OnlyMade' /\ PairsAreRight'
      BY <2>1 DEF CommandInv, LookedUpDest, OnlyMade, PairsAreRight, Plain
    <2> QED BY <2>1, <2>3, <2>4 DEF CommandInv
  <1>5. CASE \E p \in Typed : OtherMakes(p)
    <2>1. PICK p \in Typed : OtherMakes(p)
      BY <1>5
    <2>2. /\ p \in Paths /\ tree[p] = ABSENT
          /\ \A q \in Paths : q # p => tree'[q] = tree[q]
          /\ Closed(tree') /\ tree'[Root] = COLL
          /\ UNCHANGED <<pc, verb, sources, slash, dest, destcoll, overwrite, ops, sent,
                         before, given, misread>>
      BY <1>0, <2>1, MadeTree
    <2>3. HierarchyInv'
      BY <1>0, <2>2 DEF HierarchyInv, Closed
    <2>4. OnlyMade'
      BY <2>2 DEF CommandInv, OnlyMade
    <2>5. LookedUpDest' /\ PairsAreRight'
      BY <2>2 DEF CommandInv, LookedUpDest, PairsAreRight, Plain
    <2> QED BY <2>2, <2>3, <2>4, <2>5 DEF CommandInv
  <1>6. CASE UNCHANGED vars
    BY <1>6 DEF vars, CommandInv, HierarchyInv, Closed, LookedUpDest, OnlyMade,
                PairsAreRight, Plain
  <1> QED BY <1>1, <1>2, <1>3, <1>4, <1>5, <1>6 DEF Next, Done

LEMMA Commanding == Spec => [](TypeOK /\ BatchInv /\ CommandInv)
  BY InitTypes, StepTypes, InitCommand, StepCommand, PTL DEF Spec

---------------------------------------------------------------------------
(* The destination collection.                                             *)

LEMMA SurvivesRequest ==
  ASSUME TypeOK, BatchInv, CommandInv, DestinationSurvives, SendPair
  PROVE  DestinationSurvives'
  <1> DEFINE k == sent + 1
             p == ops[k].src
             r == ops[k].dest
  <1>1. /\ k \in 1 .. Len(ops) /\ k \in DOMAIN sources /\ verb # "rename" /\ given > 0
        /\ Request(p, r, overwrite, verb = "copy")
        /\ UNCHANGED <<verb, sources, slash, dest, destcoll, overwrite, ops, before,
                       given, made, misread>>
    BY Sent
  <1>2. dest \in Paths /\ dest \in Seq(Names) /\ destcoll \in BOOLEAN
    BY PathIsSeq DEF TypeOK
  <1> HIDE DEF k
  <1> SUFFICES ASSUME before[dest] = COLL, Plain, overwrite => dest \notin misread
               PROVE  /\ tree'[dest] = COLL
                      /\ \A n \in Names :
                           LET m == Append(dest, n) IN
                           m \in Paths /\ before[m] # ABSENT /\ tree'[m] = ABSENT =>
                             \E i \in DOMAIN sources :
                               IsPrefix(sources[i], m) \/ Target(i) = m
    BY <1>1 DEF DestinationSurvives, Plain, Target
  <1>3. /\ tree[dest] = COLL
        /\ \A n \in Names :
             LET m == Append(dest, n) IN
             m \in Paths /\ before[m] # ABSENT /\ tree[m] = ABSENT =>
               \E i \in DOMAIN sources : IsPrefix(sources[i], m) \/ Target(i) = m
    BY <1>1 DEF DestinationSurvives
  <1>4. CASE UNCHANGED tree
    BY <1>3, <1>4
  <1>5. CASE Acceptable(p, r, overwrite) /\ tree' = Transferred(p, r, verb = "copy")
    <2>1. /\ p \in Seq(Names) /\ r \in Paths /\ r \in Seq(Names) /\ ~IsPrefix(p, r)
          /\ tree[r] # ABSENT => overwrite
      BY <1>5, AcceptablePaths
    <2>2. /\ p = sources[k] /\ sources[k] # Root
          /\ r = IF destcoll THEN Append(dest, Last(sources[k])) ELSE dest
      <3> DEFINE place == IF destcoll THEN Append(dest, Last(sources[k])) ELSE dest
      <3>1. sources[k] # Root /\ ops[k] = [src |-> sources[k], dest |-> place]
        BY <1>1 DEF CommandInv, PairsAreRight
      <3> HIDE DEF place
      <3>2. p = sources[k] /\ r = place
        BY <3>1
      <3> QED BY <3>1, <3>2 DEF place
    <2>3. destcoll
      <3> SUFFICES ASSUME ~destcoll PROVE FALSE
        BY <1>2
      <3>1. dest \in misread
        BY <1>1 DEF CommandInv, LookedUpDest
      <3>2. r = dest
        BY <2>2
      <3> HIDE DEF p, r
      <3> QED BY <1>3, <2>1, <3>1, <3>2, ContentsDiffer
    <2> HIDE DEF p, r
    <2>4. Last(p) \in Names /\ r = Append(dest, Last(p)) /\ Target(k) = r
      BY <2>1, <2>2, <2>3, FrontOfPath DEF Root, Target
    <2>5. /\ IsPrefix(dest, r) /\ ~IsPrefix(r, dest) /\ Len(r) = Len(dest) + 1
      BY <1>2, <2>4, PrefixOfAppend
    <2>6. ~IsPrefix(p, dest)
      BY <1>2, <2>1, <2>5, PrefixOfPrefix
    <2>7. tree'[dest] = COLL
      BY <1>2, <1>3, <1>5, <2>5, <2>6, TransferredValue
    <2>8. ASSUME NEW n \in Names, Append(dest, n) \in Paths,
                 before[Append(dest, n)] # ABSENT, tree'[Append(dest, n)] = ABSENT
          PROVE  \E i \in DOMAIN sources :
                   IsPrefix(sources[i], Append(dest, n)) \/ Target(i) = Append(dest, n)
      <3> DEFINE m == Append(dest, n)
      <3>1. m \in Seq(Names) /\ m \in Paths /\ Len(m) = Len(dest) + 1
        BY <1>2, <2>8, PrefixOfAppend
      <3>2. CASE IsPrefix(r, m)
        <4>1. r = m
          <5> HIDE DEF m
          <5>1. Len(r) = Len(m) /\ Len(r) <= Len(m) /\ IsPrefix(m, m)
            BY <2>1, <2>5, <3>1, LenProperties, PrefixSelf
          <5> QED BY <2>1, <3>1, <3>2, <5>1, PrefixesNest
        <4> QED BY <1>1, <2>4, <4>1
      <3>3. CASE IsPrefix(p, m)
        BY <1>1, <2>2, <3>3
      <3>4. CASE ~IsPrefix(r, m) /\ ~IsPrefix(p, m)
        <4>1. tree[m] = ABSENT
          <5> HIDE DEF m
          <5>1. tree'[m] = tree[m]
            BY <1>5, <3>1, <3>4, TransferredValue
          <5> QED BY <2>8, <5>1 DEF m
        <4> QED BY <1>3, <2>8, <4>1
      <3> QED BY <3>2, <3>3, <3>4
    <2> QED BY <2>7, <2>8
  <1> QED BY <1>1, <1>4, <1>5 DEF Request

LEMMA StepSurvives ==
  TypeOK /\ BatchInv /\ CommandInv /\ DestinationSurvives /\ [Next]_vars
    => DestinationSurvives'
  <1> SUFFICES ASSUME TypeOK, BatchInv, CommandInv, DestinationSurvives, [Next]_vars
               PROVE  DestinationSurvives'
    OBVIOUS
  <1>0. Closed(tree) /\ tree[Root] = COLL
    BY DEF CommandInv, HierarchyInv
  <1>1. CASE Command
    <2>1. tree' = tree /\ before' = tree
      BY <1>1, Started
    <2> QED BY <2>1 DEF DestinationSurvives
  <1>2. CASE LookupSource
    <2>1. /\ UNCHANGED <<tree, verb, sources, slash, dest, destcoll, overwrite, sent,
                         before, given, made>>
          /\ misread \subseteq misread'
      BY <1>2, LookedUp
    <2>2. Plain' => Plain
      BY <2>1, StaysPlain
    <2> QED BY <2>1, <2>2 DEF DestinationSurvives, Target
  <1>3. CASE SendPair
    BY <1>3, SurvivesRequest
  <1>4. CASE SendRename
    <2>1. verb' = "rename"
      BY <1>4 DEF SendRename, BatchInv
    <2> QED BY <2>1 DEF DestinationSurvives
  <1>5. CASE \E p \in Typed : OtherMakes(p)
    <2>1. PICK p \in Typed : OtherMakes(p)
      BY <1>5
    <2>2. /\ p \in Paths /\ tree[p] = ABSENT /\ tree'[p] = COLL
          /\ \A q \in Paths : q # p => tree'[q] = tree[q]
          /\ UNCHANGED <<pc, verb, sources, slash, dest, destcoll, overwrite, ops, sent,
                         before, given, misread>>
      BY <1>0, <2>1, MadeTree
    <2>3. \A q \in Paths : /\ tree'[q] = ABSENT => tree[q] = ABSENT
                           /\ tree[q] = COLL => tree'[q] = COLL
      BY <2>2, ContentsDiffer
    <2>4. dest \in Paths
      BY DEF TypeOK
    <2> QED BY <2>2, <2>3, <2>4 DEF DestinationSurvives, Plain, Target
  <1>6. CASE UNCHANGED vars
    BY <1>6 DEF vars, DestinationSurvives, Plain, Target
  <1> QED BY <1>1, <1>2, <1>3, <1>4, <1>5, <1>6 DEF Next, Done

\* What is copied or moved into a collection leaves the collection there, and of
\* its members only those that are sources or whose place is taken may be gone,
\* for any hierarchy and any answers (do_copymove, cases 1 to 3).
THEOREM CollectionsStay == Spec => []DestinationSurvives
  <1>1. Init => DestinationSurvives
    <2> SUFFICES ASSUME Init PROVE DestinationSurvives
      OBVIOUS
    <2>1. ~(given > 0)
      <3>1. given = 0
        BY DEF Init
      <3> QED BY <3>1
    <2> QED BY <2>1 DEF DestinationSurvives
  <1> QED BY <1>1, StepSurvives, Commanding, PTL DEF Spec

---------------------------------------------------------------------------
(* The contents.                                                           *)

\* Every source has a place of its own, in which there was nothing, or nothing
\* is replaced.
Safe ==
  \/ verb = "rename" \/ ~overwrite
  \/ /\ \A i, j \in DOMAIN sources : i # j => Target(i) # Target(j)
     /\ \A i \in DOMAIN sources : Target(i) \in Paths => before[Target(i)] = ABSENT
     /\ dest \notin misread

NoFileUnder(r) == \A q \in Paths : IsPrefix(r, q) => tree[q] \notin Files

\* What is not sent yet will replace no file.
PlacesAreFree ==
  verb # "rename" /\ overwrite =>
    \A j \in DOMAIN sources : j > sent => NoFileUnder(Target(j))

KeptInv ==
  given > 0 /\ Root \notin Range(sources) /\ Plain /\ Safe =>
    Kept(before) \subseteq Kept(tree) /\ PlacesAreFree

\* A request that replaces no file keeps every content.
LEMMA MoveKeeps ==
  ASSUME NEW p, NEW r, NEW over, NEW keep, Acceptable(p, r, over), NoFileUnder(r),
         tree' = Transferred(p, r, keep)
  PROVE  Kept(tree) \subseteq Kept(tree')
  <1> SUFFICES ASSUME NEW f \in Files, NEW q \in Paths, tree[q] = f
               PROVE  \E a \in Paths : tree'[a] = f
    BY DEF Kept
  <1>1. /\ p \in Seq(Names) /\ r \in Seq(Names) /\ q \in Seq(Names) /\ ~IsPrefix(r, q)
        /\ IsPrefix(p, q) => Rebased(q, p, r) \in Paths
    BY AcceptablePaths, PathIsSeq, ContentsDiffer DEF NoFileUnder
  <1>2. CASE IsPrefix(p, q) => keep
    <2>1. tree'[q] = tree[q]
      BY <1>1, <1>2, TransferredValue
    <2> QED BY <2>1
  <1>3. CASE IsPrefix(p, q)
    <2>1. Rebased(q, p, r) \in Paths
      BY <1>1, <1>3
    <2>2. IsPrefix(r, Rebased(q, p, r)) /\ Rebased(Rebased(q, p, r), r, p) = q
      BY <1>1, <1>3, RebasedPath, RebasedBack
    <2>3. tree'[Rebased(q, p, r)] = tree[q]
      BY <2>1, <2>2, TransferredValue
    <2> QED BY <2>1, <2>3
  <1> QED BY <1>2, <1>3

\* Nothing is under what is not there.
LEMMA NothingUnder ==
  ASSUME Closed(tree), NEW r \in Paths, tree[r] = ABSENT
  PROVE  NoFileUnder(r)
  <1> SUFFICES ASSUME NEW q \in Paths, IsPrefix(r, q), tree[q] \in Files PROVE FALSE
    BY DEF NoFileUnder
  <1>1. tree[q] # ABSENT /\ r # q
    BY ContentsDiffer
  <1>2. tree[r] = COLL
    BY <1>1 DEF Closed
  <1> QED BY <1>2, ContentsDiffer

LEMMA PlaceIsPath ==
  ASSUME NEW d \in Paths, NEW srcs \in Seq(Paths), Root \notin Range(srcs),
         NEW j \in DOMAIN srcs
  PROVE  /\ d \in Seq(Names) /\ Append(d, Last(srcs[j])) \in Seq(Names)
         /\ Len(Append(d, Last(srcs[j]))) = Len(d) + 1
  <1>1. d \in Seq(Names)
    BY PathIsSeq
  <1>2. srcs[j] \in Seq(Names) /\ srcs[j] # Root
    BY LenProperties, ElementOfSeq, PathIsSeq DEF Range
  <1>3. Last(srcs[j]) \in Names
    BY <1>2, FrontOfPath DEF Root
  <1> QED BY <1>1, <1>3, PrefixOfAppend

LEMMA TargetIsPath ==
  ASSUME TypeOK, Root \notin Range(sources), NEW j \in DOMAIN sources
  PROVE  /\ Target(j) \in Seq(Names)
         /\ before[dest] = COLL => Len(Target(j)) = Len(dest) + 1
         /\ before[dest] # COLL => Target(j) = dest
  <1>1. sources \in Seq(Paths) /\ dest \in Paths
    BY DEF TypeOK
  <1> QED BY <1>1, PlaceIsPath DEF Target

\* Two places that hold the same path are one.
LEMMA PlacesApart ==
  ASSUME TypeOK, Root \notin Range(sources), NEW i \in DOMAIN sources,
         NEW j \in DOMAIN sources, NEW q \in Seq(Names),
         IsPrefix(Target(i), q), IsPrefix(Target(j), q)
  PROVE  Target(i) = Target(j)
  <1> DEFINE a == Target(i)
             b == Target(j)
  <1>1. a \in Seq(Names) /\ b \in Seq(Names)
    BY TargetIsPath
  <1>2. CASE before[dest] = COLL
    <2>1. Len(a) = Len(dest) + 1 /\ Len(b) = Len(dest) + 1
      BY <1>2, TargetIsPath
    <2>2. IsPrefix(a, q) /\ IsPrefix(b, q)
      OBVIOUS
    <2> HIDE DEF a, b
    <2>3. Len(a) = Len(b) /\ Len(a) <= Len(b)
      BY <1>1, <2>1, LenProperties
    <2>4. a = b
      BY <1>1, <2>2, <2>3, PrefixesNest
    <2> QED BY <2>4 DEF a, b
  <1>3. CASE before[dest] # COLL
    BY <1>3, TargetIsPath
  <1> QED BY <1>2, <1>3

LEMMA KeptAtStart ==
  ASSUME TypeOK, BatchInv, CommandInv, Command, TypeOK'
  PROVE  KeptInv'
  <1>1. tree' = tree /\ before' = tree
    BY Started
  <1> SUFFICES ASSUME (Root \notin Range(sources))', Safe', verb' # "rename", overwrite',
                      NEW j \in DOMAIN sources'
               PROVE  NoFileUnder(Target(j))'
    BY <1>1 DEF KeptInv, PlacesAreFree
  <1>2. Target(j)' \in Paths => tree[Target(j)'] = ABSENT
    BY <1>1 DEF Safe
  <1>3. Target(j)' \in Seq(Names)
    <2>1. sources' \in Seq(Paths) /\ dest' \in Paths /\ Root \notin Range(sources')
      BY DEF TypeOK, Range
    <2>2. /\ dest' \in Seq(Names)
          /\ Append(dest', Last(sources'[j])) \in Seq(Names)
      BY <2>1, PlaceIsPath
    <2> QED BY <2>2 DEF Target
  <1>4. CASE Target(j)' \in Paths
    <2>1. NoFileUnder(Target(j)')
      BY <1>2, <1>4, NothingUnder DEF CommandInv, HierarchyInv
    <2> QED BY <1>1, <2>1 DEF NoFileUnder
  <1>5. CASE Target(j)' \notin Paths
    <2>1. ASSUME NEW q \in Paths, IsPrefix(Target(j)', q) PROVE FALSE
      <3>1. q \in Seq(Names) /\ Len(q) <= MaxDepth
        BY PathIsSeq
      <3>2. Len(Target(j)') <= Len(q) /\ Len(Target(j)') \in Nat /\ Len(q) \in Nat
        BY <1>3, <2>1, <3>1, PrefixMeans
      <3>3. Len(Target(j)') <= MaxDepth
        BY <3>1, <3>2, Bounds
      <3> QED BY <1>3, <1>5, <3>3, PathIsSeq
    <2> QED BY <2>1 DEF NoFileUnder
  <1> QED BY <1>4, <1>5

LEMMA KeptByRequest ==
  ASSUME TypeOK, BatchInv, CommandInv, KeptInv, SendPair
  PROVE  KeptInv'
  <1> DEFINE k == sent + 1
             p == ops[k].src
             r == ops[k].dest
  <1>1. /\ k \in 1 .. Len(ops) /\ k \in DOMAIN sources /\ verb # "rename" /\ given > 0
        /\ Request(p, r, overwrite, verb = "copy")
        /\ UNCHANGED <<verb, sources, slash, dest, destcoll, overwrite, ops, before,
                       given, made, misread>>
    BY Sent
  <1>2. /\ sent' = k /\ k > sent /\ DOMAIN sources \subseteq Nat
        /\ \A j \in DOMAIN sources : j > k => j > sent /\ j # k
    BY Sent
  <1>3. destcoll \in BOOLEAN /\ overwrite \in BOOLEAN
    BY DEF TypeOK
  <1> HIDE DEF k
  <1>4. Plain' = Plain /\ Safe' = Safe /\ \A j : Target(j)' = Target(j)
    BY <1>1 DEF Plain, Safe, Target
  <1> SUFFICES ASSUME Root \notin Range(sources), Plain, Safe
               PROVE  /\ Kept(before) \subseteq Kept(tree')
                      /\ overwrite => \A j \in DOMAIN sources : j > k =>
                           \A q \in Paths : IsPrefix(Target(j), q) => tree'[q] \notin Files
    BY <1>1, <1>2, <1>4 DEF KeptInv, PlacesAreFree, NoFileUnder, Kept
  <1>5. Kept(before) \subseteq Kept(tree) /\ PlacesAreFree
    BY <1>1 DEF KeptInv
  <1>6. ASSUME overwrite, NEW j \in DOMAIN sources, j > k
        PROVE  j # k /\ \A q \in Paths : IsPrefix(Target(j), q) => tree[q] \notin Files
    BY <1>1, <1>2, <1>5, <1>6 DEF PlacesAreFree, NoFileUnder
  <1>7. CASE UNCHANGED tree
    BY <1>5, <1>6, <1>7
  <1>8. CASE Acceptable(p, r, overwrite) /\ tree' = Transferred(p, r, verb = "copy")
    <2>1. /\ p \in Seq(Names) /\ r \in Paths /\ r \in Seq(Names) /\ ~IsPrefix(p, r)
          /\ tree[r] # ABSENT => overwrite
      BY <1>8, AcceptablePaths
    <2>2. r = IF destcoll THEN Append(dest, Last(sources[k])) ELSE dest
      <3> DEFINE place == IF destcoll THEN Append(dest, Last(sources[k])) ELSE dest
      <3>1. ops[k] = [src |-> sources[k], dest |-> place]
        BY <1>1 DEF CommandInv, PairsAreRight
      <3> HIDE DEF place
      <3>2. r = place
        BY <3>1
      <3> QED BY <3>2 DEF place
    <2> HIDE DEF p, r
    <2>3. ASSUME overwrite PROVE r = Target(k) /\ NoFileUnder(r)
      <3>1. /\ dest \notin misread
            /\ \A a, b \in DOMAIN sources : a # b => Target(a) # Target(b)
        BY <1>1, <2>3 DEF Safe
      <3>2. destcoll <=> before[dest] = COLL
        BY <1>1, <1>3, <3>1 DEF CommandInv, LookedUpDest
      <3>3. r = Target(k)
        BY <2>2, <3>2 DEF Target
      <3>4. NoFileUnder(Target(k))
        BY <1>1, <1>2, <1>5, <2>3 DEF PlacesAreFree
      <3> QED BY <3>3, <3>4
    <2>4. NoFileUnder(r)
      <3>1. CASE overwrite
        BY <2>3, <3>1
      <3>2. CASE ~overwrite
        <4>1. tree[r] = ABSENT
          BY <2>1, <3>2
        <4> QED BY <2>1, <4>1, NothingUnder DEF CommandInv, HierarchyInv
      <3> QED BY <3>1, <3>2
    <2>5. Kept(before) \subseteq Kept(tree')
      <3>1. Kept(tree) \subseteq Kept(tree')
        BY <1>8, <2>4, MoveKeeps
      <3> QED BY <1>5, <3>1
    <2>6. ASSUME overwrite, NEW j \in DOMAIN sources, j > k, NEW q \in Paths,
                 IsPrefix(Target(j), q), tree'[q] \in Files
          PROVE  FALSE
      <3>1. Target(j) # Target(k) /\ tree[q] \notin Files
        BY <1>1, <1>6, <2>6 DEF Safe
      <3>2. q \in Seq(Names)
        BY PathIsSeq
      <3>3. ~IsPrefix(r, q)
        BY <1>1, <2>3, <2>6, <3>1, <3>2, PlacesApart
      <3>4. tree'[q] = ABSENT \/ tree'[q] = tree[q]
        BY <1>8, <3>3, TransferredValue
      <3> QED BY <2>6, <3>1, <3>4, ContentsDiffer
    <2> QED BY <2>5, <2>6
  <1> QED BY <1>1, <1>7, <1>8 DEF Request

LEMMA KeptByRename ==
  ASSUME TypeOK, BatchInv, CommandInv, KeptInv, SendRename
  PROVE  KeptInv'
  <1>1. /\ Request(sources[1], dest, FALSE, FALSE) /\ verb = "rename"
        /\ UNCHANGED <<verb, sources, slash, dest, destcoll, overwrite, ops, before,
                       given, made, misread>>
    BY DEF SendRename, BatchInv
  <1>2. Kept(tree) \subseteq Kept(tree')
    <2>1. CASE UNCHANGED tree
      BY <2>1
    <2>2. CASE /\ Acceptable(sources[1], dest, FALSE)
               /\ tree' = Transferred(sources[1], dest, FALSE)
      <3>1. dest \in Paths /\ tree[dest] = ABSENT
        BY <2>2, AcceptablePaths
      <3>2. NoFileUnder(dest)
        BY <3>1, NothingUnder DEF CommandInv, HierarchyInv
      <3> QED BY <2>2, <3>2, MoveKeeps
    <2> QED BY <1>1, <2>1, <2>2 DEF Request
  <1>3. Plain' = Plain /\ Safe' = Safe /\ Kept(before)' = Kept(before)
    BY <1>1 DEF Plain, Safe, Target, Kept
  <1>4. Kept(tree)' = Kept(tree')
    BY DEF Kept
  <1> QED BY <1>1, <1>2, <1>3, <1>4 DEF KeptInv, PlacesAreFree

LEMMA StepKept ==
  TypeOK /\ BatchInv /\ CommandInv /\ KeptInv /\ [Next]_vars => KeptInv'
  <1> SUFFICES ASSUME TypeOK, BatchInv, CommandInv, KeptInv, [Next]_vars
               PROVE  KeptInv'
    OBVIOUS
  <1>0. Closed(tree) /\ tree[Root] = COLL
    BY DEF CommandInv, HierarchyInv
  <1>1. CASE Command
    BY <1>1, StepTypes, KeptAtStart
  <1>2. CASE LookupSource
    <2>1. /\ UNCHANGED <<tree, verb, sources, slash, dest, destcoll, overwrite, sent,
                         before, given, made>>
          /\ misread \subseteq misread'
      BY <1>2, LookedUp
    <2>2. Plain' => Plain
      BY <2>1, StaysPlain
    <2>3. Safe' => Safe
      BY <2>1 DEF Safe, Target
    <2>4. Kept(before)' = Kept(before) /\ Kept(tree)' = Kept(tree)
      BY <2>1 DEF Kept
    <2>5. PlacesAreFree => PlacesAreFree'
      BY <2>1 DEF PlacesAreFree, NoFileUnder, Target
    <2> QED BY <2>1, <2>2, <2>3, <2>4, <2>5 DEF KeptInv
  <1>3. CASE SendPair
    BY <1>3, KeptByRequest
  <1>4. CASE SendRename
    BY <1>4, KeptByRename
  <1>5. CASE \E p \in Typed : OtherMakes(p)
    <2>1. PICK p \in Typed : OtherMakes(p)
      BY <1>5
    <2>2. /\ p \in Paths /\ tree[p] = ABSENT /\ tree'[p] = COLL
          /\ \A q \in Paths : q # p => tree'[q] = tree[q]
          /\ UNCHANGED <<pc, verb, sources, slash, dest, destcoll, overwrite, ops, sent,
                         before, given, misread>>
      BY <1>0, <2>1, MadeTree
    <2>3. \A q \in Paths : /\ tree[q] \in Files => tree'[q] = tree[q]
                           /\ tree'[q] \in Files => tree[q] = tree'[q]
      BY <2>2, ContentsDiffer
    <2>4. Kept(before)' = Kept(before) /\ Kept(tree)' = Kept(tree)
      BY <2>2, <2>3 DEF Kept
    <2>5. PlacesAreFree => PlacesAreFree'
      BY <2>2, <2>3 DEF PlacesAreFree, NoFileUnder, Target
    <2>6. Plain' = Plain /\ Safe' = Safe
      BY <2>2 DEF Plain, Safe, Target
    <2> QED BY <2>2, <2>4, <2>5, <2>6 DEF KeptInv
  <1>6. CASE UNCHANGED vars
    BY <1>6 DEF vars, KeptInv, PlacesAreFree, NoFileUnder, Plain, Safe, Target, Kept
  <1> QED BY <1>1, <1>2, <1>3, <1>4, <1>5, <1>6 DEF Next, Done

\* When every source has a place of its own and nothing was there, or nothing may
\* be replaced, no content is lost, for any hierarchy, any sources, any lookups
\* and requests that fail, and whatever collections other clients make meanwhile
\* (do_copymove, execute_rename).
THEOREM ContentsAreKept == Spec => []NothingLost
  <1>1. Init => KeptInv
    <2> SUFFICES ASSUME Init PROVE KeptInv
      OBVIOUS
    <2>1. ~(given > 0)
      <3>1. given = 0
        BY DEF Init
      <3> QED BY <3>1
    <2> QED BY <2>1 DEF KeptInv
  <1>2. TypeOK /\ CommandInv /\ KeptInv => NothingLost
    <2> SUFFICES ASSUME TypeOK, CommandInv, KeptInv, given > 0,
                        Root \notin Range(sources), Plain
                 PROVE  \/ Kept(before) \subseteq Kept(tree)
                        \/ verb # "rename" /\ overwrite
                           /\ \E i, j \in DOMAIN sources :
                                \/ i # j /\ Target(i) = Target(j)
                                \/ Target(i) \in Paths /\ before[Target(i)] # ABSENT
                                \/ dest \in misread
      BY DEF NothingLost
    <2>1. 1 \in DOMAIN sources
      <3>1. Len(sources) \in Nat /\ DOMAIN sources = 1 .. Len(sources) /\ Len(sources) > 0
        BY LenProperties DEF TypeOK, CommandInv
      <3> QED BY <3>1
    <2>2. CASE Safe
      BY <2>2 DEF KeptInv
    <2>3. CASE ~Safe
      BY <2>1, <2>3 DEF Safe
    <2> QED BY <2>2, <2>3
  <1> QED BY <1>1, <1>2, StepKept, Commanding, PTL DEF Spec

---------------------------------------------------------------------------
(* The listing: its resources, and the order they are kept in. *)

\* What the bounds are.
LEMMA ListingBounds ==
  /\ MaxTime \in Nat /\ MaxTime > 0 /\ Expire \in Nat
  /\ MaxHeld \in Nat /\ MaxCached \in Nat
  /\ 0 \notin Servers /\ <<>> \in Colls
  BY ListingAssumption

LEMMA UrisAreSeqs ==
  /\ \A c \in Colls : c \in Seq(Segments) /\ c \in Uris
  /\ \A u \in Uris : u \in Seq(Segments) /\ Len(u) \in Nat
                       /\ (u # <<>> => Len(u) > 0 /\ Last(u) \in Nat)
  <1>1. ASSUME NEW c \in Colls PROVE c \in Seq(Segments) /\ c \in Uris
    BY ListingAssumption DEF Uris
  <1>2. ASSUME NEW u \in Uris PROVE u \in Seq(Segments)
    <2>1. CASE u \in Colls
      BY <1>1, <2>1
    <2>2. ASSUME NEW c \in Colls, NEW n \in Segments, u = Append(c, n) PROVE u \in Seq(Segments)
      BY <1>1, <2>2, AppendProperties
    <2> QED BY <2>1, <2>2 DEF Uris
  <1>3. ASSUME NEW u \in Uris, u # <<>> PROVE Len(u) \in Nat \ {0} /\ Last(u) \in Nat
    <2>1. Len(u) \in Nat \ {0}
      BY <1>2, <1>3, EmptySeq
    <2>2. u[Len(u)] \in Segments
      BY <1>2, <2>1, ElementOfSeq
    <2> QED BY <2>1, <2>2, ListingAssumption DEF Last
  <1>4. ASSUME NEW u \in Uris PROVE Len(u) \in Nat
    BY <1>2, LenProperties
  <1> QED BY <1>1, <1>2, <1>3, <1>4

\* The order of a listing: what may stand before what.
MayPrecede(r1, r2) ==
  \/ Rank(r1.type) < Rank(r2.type)
  \/ r1.type = r2.type /\ (r1.type = "error" \/ ~Precedes(r2.uri, r1.uri))

LEMMA PrecedesOrders ==
  ASSUME NEW u \in Uris, NEW v \in Uris, NEW w \in Uris
  PROVE  /\ Precedes(u, v) => ~Precedes(v, u)
         /\ ~Precedes(u, v) /\ ~Precedes(v, w) => ~Precedes(u, w)
  <1>1. /\ Len(u) \in Nat /\ Len(v) \in Nat /\ Len(w) \in Nat
        /\ u # <<>> => Last(u) \in Nat
        /\ v # <<>> => Last(v) \in Nat
        /\ w # <<>> => Last(w) \in Nat
        /\ u # <<>> => Len(u) > 0
        /\ v # <<>> => Len(v) > 0
        /\ w # <<>> => Len(w) > 0
    BY UrisAreSeqs
  <1>2. Len(<<>>) = 0
    BY EmptySeq
  <1>3. CASE Len(u) = 0 \/ Len(v) = 0 \/ Len(w) = 0
    BY <1>1, <1>2, <1>3 DEF Precedes
  <1>4. CASE Len(u) # 0 /\ Len(v) # 0 /\ Len(w) # 0
    <2>1. Last(u) \in Nat /\ Last(v) \in Nat /\ Last(w) \in Nat
      BY <1>1, <1>2, <1>4
    <2>2. PICK a \in Nat, b \in Nat, c \in Nat : a = Last(u) /\ b = Last(v) /\ c = Last(w)
      BY <2>1
    <2>3. /\ Precedes(u, v) <=> Len(u) < Len(v) \/ (Len(u) = Len(v) /\ a < b)
          /\ Precedes(v, u) <=> Len(v) < Len(u) \/ (Len(u) = Len(v) /\ b < a)
          /\ Precedes(v, w) <=> Len(v) < Len(w) \/ (Len(v) = Len(w) /\ b < c)
          /\ Precedes(u, w) <=> Len(u) < Len(w) \/ (Len(u) = Len(w) /\ a < c)
      BY <2>2 DEF Precedes
    <2> QED BY <1>1, <2>3
  <1> QED BY <1>3, <1>4

\* The comparison of the insertion decides that order, and the order carries on.
LEMMA OrderCarries ==
  ASSUME NEW r1 \in Resource, NEW r2 \in Resource, NEW r3 \in Resource
  PROVE  /\ NotBefore(r2, r1) => MayPrecede(r1, r2)
         /\ ~NotBefore(r1, r2) => MayPrecede(r1, r2)
         /\ MayPrecede(r1, r2) /\ MayPrecede(r2, r3) => MayPrecede(r1, r3)
  <1>1. /\ r1.uri \in Uris /\ r2.uri \in Uris /\ r3.uri \in Uris
        /\ r1.type \in Types /\ r2.type \in Types /\ r3.type \in Types
    BY DEF Resource
  <1>2. /\ \A t \in Types : Rank(t) = IF t = "error" THEN 1 ELSE IF t = "collection" THEN 2 ELSE 3
    BY DEF Types, Rank
  <1>3. NotBefore(r2, r1) => MayPrecede(r1, r2)
    BY <1>1, <1>2 DEF NotBefore, MayPrecede, Types
  <1>4. ~NotBefore(r1, r2) => MayPrecede(r1, r2)
    <2>1. Precedes(r1.uri, r2.uri) => ~Precedes(r2.uri, r1.uri)
      BY <1>1, PrecedesOrders
    <2> QED BY <1>1, <1>2, <2>1 DEF NotBefore, MayPrecede, Types
  <1>5. MayPrecede(r1, r2) /\ MayPrecede(r2, r3) => MayPrecede(r1, r3)
    <2>1. ~Precedes(r3.uri, r2.uri) /\ ~Precedes(r2.uri, r1.uri) => ~Precedes(r3.uri, r1.uri)
      BY <1>1, PrecedesOrders
    <2> QED BY <1>1, <1>2, <2>1 DEF MayPrecede, Types
  <1> QED BY <1>3, <1>4, <1>5

\* Insert puts a resource at one place and moves the later ones by one.
PutAt(l, m, k, r) ==
  /\ m \in Seq(Resource) /\ Len(m) = Len(l) + 1
  /\ \A i \in 1 .. k - 1 : m[i] = l[i]
  /\ m[k] = r
  /\ \A i \in k + 1 .. Len(l) + 1 : m[i] = l[i - 1]

LEMMA PutBetween ==
  ASSUME NEW a \in Seq(Resource), NEW b \in Seq(Resource), NEW x \in Resource
  PROVE  /\ a \o <<x>> \o b \in Seq(Resource) /\ Len(a \o <<x>> \o b) = Len(a) + 1 + Len(b)
         /\ \A i \in 1 .. Len(a) : (a \o <<x>> \o b)[i] = a[i]
         /\ (a \o <<x>> \o b)[Len(a) + 1] = x
         /\ \A i \in 1 .. Len(b) : (a \o <<x>> \o b)[Len(a) + 1 + i] = b[i]
  <1> DEFINE c == a \o <<x>>
             m == c \o b
  <1>1. Len(a) \in Nat /\ Len(b) \in Nat
    BY LenProperties
  <1>2. /\ c \in Seq(Resource) /\ Len(c) = Len(a) + 1
        /\ \A i \in 1 .. Len(a) : c[i] = a[i]
        /\ c[Len(a) + 1] = x
    BY AppendProperties, AppendIsConcat
  <1> HIDE DEF c
  <1>4. /\ m \in Seq(Resource) /\ Len(m) = Len(c) + Len(b)
        /\ \A i \in 1 .. Len(c) + Len(b) : m[i] = IF i <= Len(c) THEN c[i] ELSE b[i - Len(c)]
    BY <1>2, ConcatProperties
  <1> HIDE DEF m
  <1>5. /\ m \in Seq(Resource) /\ Len(m) = Len(a) + 1 + Len(b)
        /\ \A i \in 1 .. Len(a) : m[i] = a[i]
        /\ m[Len(a) + 1] = x
    BY <1>1, <1>2, <1>4
  <1>6. ASSUME NEW i \in 1 .. Len(b) PROVE m[Len(a) + 1 + i] = b[i]
    <2>1. Len(c) + i \in 1 .. Len(c) + Len(b) /\ ~(Len(c) + i <= Len(c)) /\ Len(c) + i - Len(c) = i
      BY <1>1, <1>2
    <2>2. m[Len(c) + i] = b[i]
      BY <1>4, <2>1
    <2> QED BY <1>2, <2>2
  <1> QED BY <1>5, <1>6 DEF m, c

LEMMA Inserted ==
  ASSUME NEW l \in Seq(Resource), NEW r \in Resource
  PROVE  \E k \in 1 .. Len(l) + 1 :
           /\ PutAt(l, Insert(l, r), k, r)
           /\ \A i \in 1 .. k - 1 : ~NotBefore(l[i], r)
           /\ k <= Len(l) => NotBefore(l[k], r)
  <1> DEFINE later == {i \in DOMAIN l : NotBefore(l[i], r)}
             k == IF later = {} THEN Len(l) + 1 ELSE Min(later)
             a == SubSeq(l, 1, k - 1)
             b == SubSeq(l, k, Len(l))
             m == a \o <<r>> \o b
  <1>1. Len(l) \in Nat /\ DOMAIN l = 1 .. Len(l) /\ \A i \in 1 .. Len(l) : l[i] \in Resource
    BY LenProperties, ElementOfSeq
  <1>2. Insert(l, r) = m
    BY DEF Insert, InsertAt
  <1>3. /\ k \in 1 .. Len(l) + 1
        /\ \A i \in 1 .. k - 1 : ~NotBefore(l[i], r)
        /\ k <= Len(l) => NotBefore(l[k], r)
    <2>1. CASE later = {}
      BY <1>1, <2>1
    <2>2. CASE later # {}
      <3>0. later \in SUBSET Nat
        BY <1>1
      <3>1. PICK least \in later : \A i \in later : least <= i
        <4>1. PICK least \in later : \A i \in later : ~(i < least)
          BY <3>0, <2>2, LeastOf
        <4> QED BY <3>0, <4>1
      <3>2. Min(later) \in later /\ \A i \in later : Min(later) <= i
        <4> HIDE DEF later
        <4> QED BY <3>1, Zenon DEF Min
      <3>3. k = Min(later)
        BY <2>2
      <3> HIDE DEF k
      <3>4. k \in 1 .. Len(l) /\ NotBefore(l[k], r)
        BY <1>1, <3>2, <3>3
      <3>5. \A i \in 1 .. k - 1 : ~NotBefore(l[i], r)
        <4> SUFFICES ASSUME NEW i \in 1 .. k - 1, NotBefore(l[i], r) PROVE FALSE
          OBVIOUS
        <4>1. i \in later
          BY <1>1, <3>4
        <4>2. k <= i
          BY <3>2, <3>3, <4>1
        <4> QED BY <3>4, <4>2, <1>1
      <3> QED BY <1>1, <3>4, <3>5
    <2> QED BY <2>1, <2>2
  <1> HIDE DEF k
  <1>4. a \in Seq(Resource) /\ Len(a) = k - 1 /\ \A i \in 1 .. k - 1 : a[i] = l[i]
    BY <1>1, <1>3, SubSeqProperties
  <1>5. /\ b \in Seq(Resource) /\ Len(b) = Len(l) + 1 - k
        /\ \A i \in 1 .. Len(l) + 1 - k : b[i] = l[k + i - 1]
    BY <1>1, <1>3, SubSeqProperties
  <1> HIDE DEF a, b
  <1>6. /\ m \in Seq(Resource) /\ Len(m) = Len(a) + 1 + Len(b)
        /\ \A i \in 1 .. Len(a) : m[i] = a[i]
        /\ m[Len(a) + 1] = r
        /\ \A i \in 1 .. Len(b) : m[Len(a) + 1 + i] = b[i]
    <2>1. a \in Seq(Resource) /\ b \in Seq(Resource)
      BY <1>4, <1>5
    <2> QED BY <2>1, PutBetween, Zenon
  <1> HIDE DEF m
  <1>7. ASSUME NEW i \in k + 1 .. Len(l) + 1 PROVE m[i] = l[i - 1]
    <2>1. i - k \in 1 .. Len(b) /\ Len(a) + 1 + (i - k) = i /\ k + (i - k) - 1 = i - 1
      BY <1>1, <1>3, <1>4, <1>5
    <2> QED BY <1>5, <1>6, <2>1
  <1>8. PutAt(l, m, k, r)
    BY <1>1, <1>3, <1>4, <1>5, <1>6, <1>7 DEF PutAt
  <1> QED BY <1>2, <1>3, <1>8

---------------------------------------------------------------------------
(* Counting the elements of a sequence. *)

LEMMA Countable ==
  ASSUME NEW n \in Nat, NEW S, S \subseteq 1 .. n
  PROVE  IsFiniteSet(S) /\ Cardinality(S) \in Nat /\ (Cardinality(S) = 0 <=> S = {})
  <1>1. IsFiniteSet(1 .. n)
    BY FS_Interval
  <1>2. IsFiniteSet(S)
    BY <1>1, FS_Subset
  <1> QED BY <1>2, FS_CardinalityType, FS_EmptySet

\* One element more, past all others.
LEMMA CountedOneMore ==
  ASSUME NEW n \in Nat, NEW S, S \subseteq 1 .. n
  PROVE  Cardinality(S \cup {n + 1}) = Cardinality(S) + 1
  <1>1. IsFiniteSet(S)
    BY Countable
  <1>2. n + 1 \notin S
    OBVIOUS
  <1> QED BY <1>1, <1>2, FS_AddElement

LEMMA CountedPut ==
  ASSUME NEW l \in Seq(Resource), NEW m, NEW r, NEW k \in 1 .. Len(l) + 1,
         PutAt(l, m, k, r), NEW e
  PROVE  Times(e, l) \in Nat /\ Times(e, m) = Times(e, l) + IF r = e THEN 1 ELSE 0
  <1> DEFINE A == {i \in DOMAIN l : l[i] = e}
             B == {i \in DOMAIN m : m[i] = e}
             C == B \ {k}
             f == [i \in A |-> IF i < k THEN i ELSE i + 1]
  <1>1. /\ Len(l) \in Nat /\ DOMAIN l = 1 .. Len(l)
        /\ DOMAIN m = 1 .. Len(l) + 1
    BY LenProperties DEF PutAt
  <1>2. /\ \A i \in 1 .. k - 1 : m[i] = l[i]
        /\ m[k] = r
        /\ \A i \in k + 1 .. Len(l) + 1 : m[i] = l[i - 1]
    BY DEF PutAt
  <1>3. A \subseteq 1 .. Len(l) /\ B \subseteq 1 .. Len(l) + 1
    BY <1>1
  <1>4. f \in [A -> C]
    <2> SUFFICES ASSUME NEW i \in A PROVE f[i] \in C
      OBVIOUS
    <2>1. CASE i < k
      BY <1>1, <1>2, <2>1
    <2>2. CASE ~(i < k)
      <3>1. i + 1 \in k + 1 .. Len(l) + 1 /\ (i + 1) - 1 = i /\ l[i] = e
        BY <1>1, <2>2
      <3>2. m[i + 1] = e /\ i + 1 \in DOMAIN m
        BY <1>1, <1>2, <3>1
      <3> QED BY <1>1, <2>2, <3>1, <3>2
    <2> QED BY <2>1, <2>2
  <1>5. \A i, j \in A : f[i] = f[j] => i = j
    BY <1>1
  <1>6. \A c \in C : \E i \in A : f[i] = c
    <2> SUFFICES ASSUME NEW c \in C PROVE \E i \in A : f[i] = c
      OBVIOUS
    <2>1. CASE c < k
      <3>1. c \in A /\ f[c] = c
        BY <1>1, <1>2, <2>1
      <3> QED BY <3>1
    <2>2. CASE ~(c < k)
      <3>1. c \in k + 1 .. Len(l) + 1 /\ m[c] = e
        BY <1>1, <2>2
      <3>2. c - 1 \in A /\ ~(c - 1 < k) /\ c - 1 + 1 = c
        BY <1>1, <1>2, <3>1
      <3>3. f[c - 1] = c
        BY <3>2
      <3> QED BY <3>2, <3>3
    <2> QED BY <2>1, <2>2
  <1>7. IsFiniteSet(A) /\ IsFiniteSet(B) /\ Cardinality(A) \in Nat /\ Cardinality(B) \in Nat
    <2>1. Len(l) + 1 \in Nat
      BY <1>1
    <2> HIDE DEF A, B
    <2> QED BY <1>1, <1>3, <2>1, Countable
  <1>8. Cardinality(C) = Cardinality(A)
    <2>1. f \in Bijection(A, C)
      <3>1. DOMAIN f = A
        OBVIOUS
      <3> HIDE DEF f, A, C
      <3> QED BY <1>4, <1>5, <1>6, <3>1 DEF Bijection, Injection, Surjection, IsInjective
    <2>2. ExistsBijection(A, C)
      BY <2>1 DEF ExistsBijection
    <2> HIDE DEF f, A, C
    <2> QED BY <1>7, <2>2, FS_Bijection
  <1>9. Cardinality(C) = IF r = e THEN Cardinality(B) - 1 ELSE Cardinality(B)
    <2>1. k \in B <=> r = e
      BY <1>1, <1>2
    <2> HIDE DEF B
    <2> QED BY <1>7, <2>1, FS_RemoveElement
  <1>10. Times(e, l) = Cardinality(A) /\ Times(e, m) = Cardinality(B)
    BY DEF Times
  <1> HIDE DEF A, B, C
  <1>11. Cardinality(B) = Cardinality(A) + IF r = e THEN 1 ELSE 0
    BY <1>7, <1>8, <1>9
  <1>12. Times(e, m) = Cardinality(A) + IF r = e THEN 1 ELSE 0
    BY <1>10, <1>11
  <1> QED BY <1>7, <1>10, <1>12

\* Append is a put at the end.
LEMMA CountedAppend ==
  ASSUME NEW S, NEW s \in Seq(S), NEW x \in S, NEW e
  PROVE  Times(e, s) \in Nat /\ Times(e, Append(s, x)) = Times(e, s) + IF x = e THEN 1 ELSE 0
  <1> DEFINE A == {i \in DOMAIN s : s[i] = e}
             B == {i \in DOMAIN Append(s, x) : Append(s, x)[i] = e}
  <1>1. /\ Len(s) \in Nat /\ DOMAIN s = 1 .. Len(s)
        /\ DOMAIN Append(s, x) = 1 .. Len(s) + 1
        /\ \A i \in 1 .. Len(s) : Append(s, x)[i] = s[i]
        /\ Append(s, x)[Len(s) + 1] = x
    BY AppendProperties, LenProperties
  <1>2. B = IF x = e THEN A \cup {Len(s) + 1} ELSE A
    BY <1>1
  <1>3. A \subseteq 1 .. Len(s)
    BY <1>1
  <1>4. Times(e, s) = Cardinality(A) /\ Times(e, Append(s, x)) = Cardinality(B)
    BY DEF Times
  <1> HIDE DEF A, B
  <1>5. Cardinality(A) \in Nat /\ Cardinality(A \cup {Len(s) + 1}) = Cardinality(A) + 1
    BY <1>1, <1>3, Countable, CountedOneMore
  <1> QED BY <1>2, <1>4, <1>5

LEMMA CountedNone == \A e : Times(e, <<>>) = 0
  <1>1. \A e : {i \in DOMAIN <<>> : <<>>[i] = e} = {}
    OBVIOUS
  <1> QED BY <1>1, FS_EmptySet DEF Times

---------------------------------------------------------------------------
(* Types. *)

\* The entries of out.
Entry == [uri : Seq(Segments), form : Types \cup {"relative", "absolute"}]

LEMMA KindTypes == \A kind : TypeOf(kind) \in Types
  BY DEF TypeOf, Types

LEMMA LineIsEntry == \A r \in Resource : Line(r) \in Entry
  BY UrisAreSeqs DEF Line, Entry, Resource

LEMMA OfferIsEntry ==
  ASSUME NEW u \in Uris, cwd \in Colls
  PROVE  Offer(u) \in Entry
  <1>1. u \in Seq(Segments) /\ cwd \in Seq(Segments)
    BY UrisAreSeqs
  <1>2. Len(u) \in Nat /\ Len(cwd) \in Nat /\ \A i \in 1 .. Len(u) : u[i] \in Segments
    BY <1>1, LenProperties, ElementOfSeq
  <1>3. SubSeq(u, Len(cwd) + 1, Len(u)) \in Seq(Segments)
    BY <1>2, SubSeqProperties
  <1> QED BY <1>1, <1>3 DEF Offer, Entry

LEMMA InsertType ==
  ASSUME NEW l \in Seq(Resource), NEW r \in Resource
  PROVE  Insert(l, r) \in Seq(Resource)
  BY Inserted DEF PutAt

LEMMA FirstOfList ==
  ASSUME NEW l \in Seq(Resource), l # <<>>
  PROVE  /\ Head(l) \in Resource /\ Head(l) = l[1] /\ Tail(l) \in Seq(Resource)
         /\ Len(l) \in Nat \ {0} /\ Len(Tail(l)) = Len(l) - 1
         /\ \A i \in 1 .. Len(l) - 1 : Tail(l)[i] = l[i + 1]
  <1>1. Len(l) \in Nat \ {0}
    BY EmptySeq
  <1>2. /\ Head(l) \in Resource /\ Tail(l) \in Seq(Resource) /\ Len(Tail(l)) = Len(l) - 1
        /\ \A i \in 1 .. Len(Tail(l)) : Tail(l)[i] = l[i + 1]
    BY HeadTailProperties
  <1>3. Head(l) = l[1]
    OBVIOUS
  <1> QED BY <1>1, <1>2, <1>3

LEMMA ListingInitTypes == ListingInit => ListingTypeOK
  <1> SUFFICES ASSUME ListingInit PROVE ListingTypeOK
    OBVIOUS
  <1>1. \A S : <<>> \in Seq(S)
    BY EmptySeq
  <1>2. 0 \in 0 .. MaxTime /\ 0 \in 0 .. MaxTime + Expire /\ 1 \in 1 .. MaxTime
    BY ListingBounds
  <1>3. <<>> \in Colls
    BY ListingBounds
  <1>4. cache \in [state : {"null", "full", "freed"}, path : Colls,
                   list : Seq(Resource), expiry : 0 .. MaxTime + Expire]
    BY <1>1, <1>2, <1>3 DEF ListingInit, EmptyCache
  <1>5. stamp \in [server : Servers \cup {0}, path : Colls, at : 0 .. MaxTime,
                   opened : BOOLEAN]
    BY <1>2, <1>3 DEF ListingInit, NoStamp
  <1> QED BY <1>1, <1>2, <1>3, <1>4, <1>5 DEF ListingInit, ListingTypeOK

LEMMA ListingStepTypes == ListingTypeOK /\ [ListingNext]_listingVars => ListingTypeOK'
  <1> SUFFICES ASSUME ListingTypeOK, [ListingNext]_listingVars PROVE ListingTypeOK'
    OBVIOUS
  <1> USE DEF conn
  <1>0. /\ \A S : <<>> \in Seq(S)
        /\ <<>> \in Colls
        /\ 0 \in 0 .. MaxTime /\ 0 \in 0 .. MaxTime + Expire
    BY EmptySeq, ListingBounds
  <1> DEFINE Cache == [state : {"null", "full", "freed"}, path : Colls,
                       list : Seq(Resource), expiry : 0 .. MaxTime + Expire]
             Stamp == [server : Servers \cup {0}, path : Colls, at : 0 .. MaxTime,
                       opened : BOOLEAN]
  <1>1. EmptyCache \in Cache /\ NoStamp \in Stamp
    BY <1>0 DEF EmptyCache, NoStamp
  <1>2. CASE Ask
    BY <1>2, <1>0 DEF Ask, Begin, ListingTypeOK
  <1>3. CASE Arrives
    <2>1. PICK uri \in Uris, kind \in Kinds :
            /\ Results(uri, kind)
            /\ arrived' = Append(arrived, [uri |-> uri, kind |-> kind])
      BY <1>3 DEF Arrives
    <2>2. [uri |-> uri, type |-> TypeOf(kind)] \in Resource
      BY <2>1, KindTypes DEF Resource
    <2>3. list \in Seq(Resource) /\ arrived \in Seq([uri : Uris, kind : Kinds])
      BY DEF ListingTypeOK
    <2>4. list' \in Seq(Resource)
      BY <2>1, <2>2, <2>3, InsertType DEF Results
    <2>5. arrived' \in Seq([uri : Uris, kind : Kinds])
      BY <2>1, <2>3, AppendProperties
    <2> QED BY <1>3, <2>4, <2>5 DEF Arrives, ListingTypeOK
  <1>4. CASE Answered
    <2>1. CASE LsEmpty
      BY <1>4, <2>1 DEF Answered, LsEmpty, ListingTypeOK
    <2>2. CASE Opened
      BY <1>4, <2>2 DEF Answered, Opened, ListingTypeOK
    <2>3. CASE TypeEnds
      <3>1. out' \in Seq(Entry)
        <4>1. CASE list = <<>> \/ list[1].uri # target
          <5>1. out' = <<>>
            BY <2>3, <4>1 DEF TypeEnds
          <5> QED BY <5>1, <1>0
        <4>2. CASE list # <<>>
          <5>1. list[1] \in Resource
            BY <4>2, FirstOfList DEF ListingTypeOK
          <5>2. <<Line(list[1])>> \in Seq(Entry)
            BY <5>1, LineIsEntry
          <5> QED BY <2>3, <5>2, <1>0 DEF TypeEnds
        <4> QED BY <4>1, <4>2
      <3> QED BY <1>4, <2>3, <3>1, <1>0 DEF Answered, TypeEnds, ListingTypeOK, Entry
    <2>4. CASE Cached
      <3>1. now + Expire \in 0 .. MaxTime + Expire /\ now \in 0 .. MaxTime
        BY ListingBounds DEF ListingTypeOK
      <3>2. cache' \in Cache
        BY <2>4, <3>1 DEF Cached, ListingTypeOK
      <3>3. stamp' \in Stamp
        BY <2>4, <3>1 DEF Cached, ListingTypeOK
      <3> QED BY <1>4, <2>4, <3>2, <3>3, <1>0 DEF Answered, Cached, ListingTypeOK
    <2> QED BY <1>4, <2>1, <2>2, <2>3, <2>4 DEF Answered
  <1>5. CASE Fails
    BY <1>5, <1>0, <1>1 DEF Fails, ClearedCache, ListingTypeOK
  <1>6. CASE Readdir
    <2>1. Head(current) \in Resource /\ Tail(current) \in Seq(Resource)
      BY <1>6, FirstOfList DEF Readdir, ListingTypeOK
    <2>2. out \in Seq(Entry)
      BY DEF ListingTypeOK, Entry
    <2>3. Append(out, Line(Head(current))) \in Seq(Entry)
      BY <2>1, <2>2, LineIsEntry, AppendProperties
    <2>4. out' \in Seq(Entry)
      BY <1>6, <2>2, <2>3 DEF Readdir
    <2> QED BY <1>6, <2>1, <2>4 DEF Readdir, ListingTypeOK, Entry
  <1>7. CASE Closedir
    BY <1>7, <1>0 DEF Closedir, ListingTypeOK
  <1>8. CASE Tab
    <2>1. PICK coll \in Colls, names \in Stems :
       /\ stem' = names
       /\ misuse' = (misuse \/ (cache.expiry > 0 /\ cache.state # "full"))
       /\ IF Stale(coll)
            THEN /\ Begin("tab", coll)
                 /\ cache' = [cache EXCEPT !.state = IF cache.expiry > 0 THEN "freed" ELSE @,
                                           !.list = <<>>]
            ELSE /\ phase' = "matching" /\ job' = "tab" /\ target' = coll
                 /\ current' = cache.list
                 /\ UNCHANGED <<now, conn, list, cache, out, verdict, arrived, stamp>>
      BY <1>8 DEF Tab
    <2>2. stem' \subseteq Segments /\ misuse' \in BOOLEAN
      BY <2>1, ListingAssumption
    <2>3. CASE Stale(coll)
      <3>1. cache' \in Cache
        <4>1. cache \in Cache
          BY DEF ListingTypeOK
        <4> QED BY <2>1, <2>3, <4>1, <1>0
      <3> QED BY <2>1, <2>2, <2>3, <3>1, <1>0 DEF Begin, ListingTypeOK
    <2>4. CASE ~Stale(coll)
      BY <2>1, <2>2, <2>4 DEF ListingTypeOK
    <2> QED BY <2>3, <2>4
  <1>9. CASE Match
    <2>1. Head(current) \in Resource /\ Tail(current) \in Seq(Resource)
      BY <1>9, FirstOfList DEF Match, ListingTypeOK
    <2>2. out \in Seq(Entry) /\ cwd \in Colls
      BY DEF ListingTypeOK, Entry
    <2>3. Append(out, Offer(Head(current).uri)) \in Seq(Entry)
      <3>1. Head(current).uri \in Uris
        BY <2>1 DEF Resource
      <3> QED BY <3>1, <2>2, OfferIsEntry, AppendProperties
    <2>4. out' \in Seq(Entry)
      BY <1>9, <2>2, <2>3 DEF Match
    <2> QED BY <1>9, <2>1, <2>4 DEF Match, ListingTypeOK, Entry
  <1>10. CASE NoMore
    BY <1>10 DEF NoMore, ListingTypeOK
  <1>11. CASE Return
    BY <1>11, <1>0 DEF Return, ListingTypeOK
  <1>12. CASE Move
    <2>1. stamp' \in Stamp
      <3>1. stamp \in Stamp
        BY DEF ListingTypeOK
      <3> QED BY <1>12, <3>1 DEF Move
    <2> QED BY <1>12, <2>1, <1>0 DEF Move, ListingTypeOK
  <1>13. CASE Tick
    <2>1. now + 1 \in 1 .. MaxTime
      BY <1>13, ListingBounds DEF Tick, ListingTypeOK
    <2> QED BY <1>13, <2>1 DEF Tick, ListingTypeOK
  <1>14. CASE UNCHANGED listingVars
    BY <1>14 DEF listingVars, ListingTypeOK
  <1> QED BY <1>2, <1>3, <1>4, <1>5, <1>6, <1>7, <1>8, <1>9, <1>10, <1>11, <1>12,
             <1>13, <1>14 DEF ListingNext

\* ListingTypeOK: the answer, the list and the completion cache keep their
\* types, for answers of any length.
THEOREM ListingTypeCorrect == ListingSpec => []ListingTypeOK
  BY ListingInitTypes, ListingStepTypes, PTL DEF ListingSpec

---------------------------------------------------------------------------
(* The cache. *)

\* Where the resources of an answer for a collection are.
Near(u, c) == u = c \/ IsPrefix(u, c) \/ Front(u) = c

\* What is set at each point of a job.
JobInv ==
  /\ phase = "prompt" => out = <<>> /\ verdict = "none"
  /\ phase = "fetching" =>
       job \in {"ls", "glob", "type", "tab"} /\ out = <<>> /\ verdict = "none" /\ server # 0
  /\ phase = "reading" => job \in {"ls", "glob"} /\ verdict = "none"
  /\ phase = "matching" =>
       /\ job = "tab" /\ server # 0 /\ verdict \in {"none", "failed"}
       /\ verdict = "failed" => cache.state = "null"
       /\ verdict = "none" => cache.state = "full" /\ cache.path = target /\ now <= cache.expiry
  /\ phase \in {"fetching", "matching", "reading"} => job # "none"

\* What the cache says of itself: it is full when it has not expired, but for
\* the time of its own refresh; and a full cache holds what its stamp says.
CacheInv ==
  /\ ~misuse
  /\ ~(phase = "fetching" /\ job = "tab") =>
       cache.state # "freed" /\ (cache.state = "full" <=> cache.expiry > 0)
  /\ phase = "fetching" /\ job = "tab" => cache.state # "full"
  /\ cache.state # "full" => cache.list = <<>>
  /\ cache.state = "full" =>
       /\ stamp.path = cache.path /\ cache.expiry = stamp.at + Expire
       /\ server # 0 => stamp.server = server \/ stamp.opened
       /\ \A k \in 1 .. Len(cache.list) : Near(cache.list[k].uri, cache.path)

\* What is being listed belongs to the collection asked for.
NearInv ==
  phase = "fetching" => \A k \in 1 .. Len(list) : Near(list[k].uri, target)

LEMMA InsertedNear ==
  ASSUME NEW l \in Seq(Resource), NEW r \in Resource, NEW c,
         \A k \in 1 .. Len(l) : Near(l[k].uri, c), Near(r.uri, c)
  PROVE  \A k \in 1 .. Len(Insert(l, r)) : Near(Insert(l, r)[k].uri, c)
  <1>1. PICK k \in 1 .. Len(l) + 1 : PutAt(l, Insert(l, r), k, r)
    BY Inserted
  <1> DEFINE m == Insert(l, r)
  <1>2. /\ Len(l) \in Nat /\ Len(m) = Len(l) + 1
        /\ \A i \in 1 .. k - 1 : m[i] = l[i]
        /\ m[k] = r
        /\ \A i \in k + 1 .. Len(l) + 1 : m[i] = l[i - 1]
    BY <1>1, LenProperties DEF PutAt
  <1> HIDE DEF m
  <1>3. ASSUME NEW i \in 1 .. Len(m) PROVE Near(m[i].uri, c)
    <2>1. CASE i < k
      <3>1. m[i] = l[i] /\ i \in 1 .. Len(l)
        BY <1>2, <2>1
      <3> QED BY <3>1
    <2>2. CASE i = k
      BY <1>2, <2>2
    <2>3. CASE i > k
      <3>1. m[i] = l[i - 1] /\ i - 1 \in 1 .. Len(l)
        BY <1>2, <2>3
      <3> QED BY <3>1
    <2> QED BY <2>1, <2>2, <2>3, <1>2
  <1> QED BY <1>3 DEF m

LEMMA CacheInit == ListingInit => JobInv /\ CacheInv /\ NearInv
  BY DEF ListingInit, JobInv, CacheInv, NearInv, EmptyCache

LEMMA CacheSteps ==
  ASSUME ListingTypeOK, JobInv, CacheInv, NearInv, [ListingNext]_listingVars
  PROVE  JobInv' /\ CacheInv' /\ NearInv'
  <1> USE DEF conn
  <1>0. /\ now \in Nat /\ now > 0 /\ Expire \in Nat /\ cache.expiry \in Nat
        /\ Len(<<>>) = 0
    BY ListingBounds DEF ListingTypeOK
  <1>1. CASE Ask
    BY <1>1, <1>0 DEF Ask, Begin, JobInv, CacheInv, NearInv
  <1>2. CASE Arrives
    <2>1. PICK uri \in Uris, kind \in Kinds :
            /\ uri = target \/ IsPrefix(uri, target) \/ Front(uri) = target
            /\ Results(uri, kind)
      BY <1>2 DEF Arrives
    <2> DEFINE r == [uri |-> uri, type |-> TypeOf(kind)]
    <2>2. r \in Resource /\ r.uri = uri /\ Near(r.uri, target)
      BY <2>1, KindTypes DEF Resource, Near
    <2>3. /\ phase = "fetching" /\ phase' = phase /\ target' = target
          /\ list \in Seq(Resource) /\ list' \in {list, Insert(list, r)}
      BY <1>2, <2>1 DEF Arrives, Results, ListingTypeOK
    <2>4. \A k \in 1 .. Len(list) : Near(list[k].uri, target)
      BY <2>3 DEF NearInv
    <2> HIDE DEF r
    <2>5. \A k \in 1 .. Len(Insert(list, r)) : Near(Insert(list, r)[k].uri, target)
      BY <2>2, <2>3, <2>4, InsertedNear
    <2>6. NearInv'
      BY <2>3, <2>4, <2>5 DEF NearInv
    <2>7. JobInv' /\ CacheInv'
      BY <1>2 DEF Arrives, JobInv, CacheInv
    <2> QED BY <2>6, <2>7
  <1>3. CASE Answered
    <2>0. phase = "fetching" /\ UNCHANGED <<now, server, job, target>>
      BY <1>3 DEF Answered
    <2>1. CASE LsEmpty
      BY <2>0, <2>1 DEF LsEmpty, JobInv, CacheInv, NearInv
    <2>2. CASE Opened
      BY <2>0, <2>2 DEF Opened, JobInv, CacheInv, NearInv
    <2>3. CASE TypeEnds
      BY <2>0, <2>3 DEF TypeEnds, JobInv, CacheInv, NearInv
    <2>4. CASE Cached
      <3>1. /\ cache'.state = "full" /\ cache'.path = target /\ cache'.list = list
            /\ cache'.expiry = now + Expire
            /\ stamp'.server = server /\ stamp'.path = target /\ stamp'.at = now
            /\ phase' = "matching" /\ job = "tab" /\ UNCHANGED <<out, verdict, misuse>>
        BY <2>4 DEF Cached
      <3>2. \A k \in 1 .. Len(list) : Near(list[k].uri, target)
        BY <2>0 DEF NearInv
      <3>3. now + Expire > 0 /\ now <= now + Expire
        BY <1>0
      <3>4. JobInv'
        BY <2>0, <3>1, <3>3 DEF JobInv
      <3>5. CacheInv'
        BY <2>0, <3>1, <3>2, <3>3 DEF CacheInv
      <3>6. NearInv'
        BY <3>1 DEF NearInv
      <3> QED BY <3>4, <3>5, <3>6
    <2> QED BY <1>3, <2>1, <2>2, <2>3, <2>4 DEF Answered
  <1>4. CASE Fails
    BY <1>4, <1>0 DEF Fails, ClearedCache, EmptyCache, JobInv, CacheInv, NearInv
  <1>5. CASE Readdir \/ Closedir
    BY <1>5 DEF Readdir, Closedir, JobInv, CacheInv, NearInv
  <1>6. CASE Tab
    <2>1. PICK coll \in Colls :
       /\ misuse' = (misuse \/ (cache.expiry > 0 /\ cache.state # "full"))
       /\ IF Stale(coll)
            THEN /\ Begin("tab", coll)
                 /\ cache' = [cache EXCEPT !.state = IF cache.expiry > 0 THEN "freed" ELSE @,
                                           !.list = <<>>]
            ELSE /\ phase' = "matching" /\ job' = "tab" /\ target' = coll
                 /\ current' = cache.list
                 /\ UNCHANGED <<now, conn, list, cache, out, verdict, arrived, stamp>>
      BY <1>6 DEF Tab
    <2>2. phase = "prompt" /\ server # 0
      BY <1>6 DEF Tab
    <2>3. misuse' = FALSE
      BY <2>1, <2>2 DEF CacheInv
    <2>4. CASE Stale(coll)
      <3>1. /\ cache'.list = <<>> /\ cache'.expiry = cache.expiry /\ cache'.path = cache.path
            /\ cache'.state = IF cache.expiry > 0 THEN "freed" ELSE cache.state
        BY <2>1, <2>4 DEF ListingTypeOK
      <3>2. cache'.state # "full"
        BY <3>1, <2>2 DEF CacheInv
      <3>3. phase' = "fetching" /\ job' = "tab" /\ list' = <<>> /\ UNCHANGED <<server, out, verdict>>
        BY <2>1, <2>4 DEF Begin
      <3> QED BY <1>0, <2>2, <2>3, <3>1, <3>2, <3>3 DEF JobInv, CacheInv, NearInv
    <2>5. CASE ~Stale(coll)
      <3>1. cache.path = coll /\ now <= cache.expiry
        BY <2>5, <1>0 DEF Stale
      <3>2. cache.state = "full"
        BY <3>1, <2>2, <1>0 DEF CacheInv
      <3> QED BY <2>1, <2>2, <2>3, <2>5, <3>1, <3>2 DEF JobInv, CacheInv, NearInv
    <2> QED BY <2>4, <2>5
  <1>7. CASE Match
    BY <1>7 DEF Match, JobInv, CacheInv, NearInv
  <1>8. CASE NoMore
    BY <1>8 DEF NoMore, JobInv, CacheInv, NearInv
  <1>9. CASE Return
    BY <1>9 DEF Return, JobInv, CacheInv, NearInv
  <1>10. CASE Move
    <2>1. /\ phase = "prompt" /\ UNCHANGED <<phase, out, verdict, cache, misuse>>
      BY <1>10 DEF Move
    <2>2. stamp'.path = stamp.path /\ stamp'.at = stamp.at
      BY <1>10 DEF Move, ListingTypeOK
    <2>3. cache.state = "full" /\ server' # 0 =>
            stamp'.server = server' \/ stamp'.opened
      <3>1. CASE server # 0 /\ UNCHANGED <<server, stamp>>
        BY <3>1 DEF CacheInv
      <3>2. CASE stamp' = [stamp EXCEPT !.opened = (cache.state = "full")]
        BY <3>2 DEF ListingTypeOK
      <3>3. CASE server' = 0
        BY <3>3
      <3> QED BY <1>10, <3>1, <3>2, <3>3 DEF Move
    <2> QED BY <2>1, <2>2, <2>3 DEF JobInv, CacheInv, NearInv
  <1>11. CASE Tick
    BY <1>11 DEF Tick, JobInv, CacheInv, NearInv
  <1>12. CASE UNCHANGED listingVars
    BY <1>12 DEF listingVars, JobInv, CacheInv, NearInv
  <1> QED BY <1>1, <1>2, <1>3, <1>4, <1>5, <1>6, <1>7, <1>8, <1>9, <1>10, <1>11, <1>12
          DEF ListingNext

LEMMA CacheIsKept == ListingSpec => [](JobInv /\ CacheInv /\ NearInv)
  <1>1. ListingTypeOK /\ (JobInv /\ CacheInv /\ NearInv) /\ [ListingNext]_listingVars
          => (JobInv /\ CacheInv /\ NearInv)'
    BY CacheSteps
  <1> QED BY <1>1, CacheInit, ListingTypeCorrect, PTL DEF ListingSpec

\* Fresh: names are offered for completion from a listing of the collection
\* asked for, no older than the cache may be and of the connected server, unless
\* a connection was opened since (refresh_completion_cache).
THEOREM CompletionsAreFresh == ListingSpec => []Fresh
  <1>1. ListingTypeOK /\ JobInv /\ CacheInv => Fresh
    BY DEF ListingTypeOK, JobInv, CacheInv, Fresh
  <1> QED BY <1>1, CacheIsKept, ListingTypeCorrect, PTL

\* NoMisuse: the path and the list of the cache are never used after they are
\* freed, not even when the listing that should replace them fails.
THEOREM CacheNotMisused == ListingSpec => []NoMisuse
  <1>1. CacheInv => NoMisuse
    BY DEF CacheInv, NoMisuse
  <1> QED BY <1>1, CacheIsKept, PTL

---------------------------------------------------------------------------
(* The list is the answer, in order. *)

\* How often an answer reports a resource.
Reports(r) == Cardinality({i \in Reported : Got(i) = r})

ListInv ==
  phase \in {"fetching", "reading"} => \A r \in Resource : Times(r, list) = Reports(r)

OrderInv ==
  phase = "fetching" =>
    \A i, j \in 1 .. Len(list) : i < j => MayPrecede(list[i], list[j])

\* What is reported is a set of places of the answer.
LEMMA ReportedPlaces ==
  ASSUME arrived \in Seq([uri : Uris, kind : Kinds])
  PROVE  /\ Len(arrived) \in Nat /\ Reported \subseteq 1 .. Len(arrived)
         /\ \A i \in 1 .. Len(arrived) : arrived[i].uri \in Uris /\ Got(i) \in Resource
         /\ \A r : /\ Reports(r) \in Nat
                   /\ Reports(r) = 0 <=> ~\E i \in Reported : Got(i) = r
  <1>1. /\ Len(arrived) \in Nat /\ DOMAIN arrived = 1 .. Len(arrived)
        /\ \A i \in 1 .. Len(arrived) : arrived[i] \in [uri : Uris, kind : Kinds]
    BY LenProperties, ElementOfSeq
  <1>2. Reported \subseteq 1 .. Len(arrived)
    BY <1>1 DEF Reported
  <1>3. ASSUME NEW i \in 1 .. Len(arrived) PROVE arrived[i].uri \in Uris /\ Got(i) \in Resource
    BY <1>1, <1>3, KindTypes DEF Got, Resource
  <1>4. ASSUME NEW r
        PROVE  Reports(r) \in Nat /\ (Reports(r) = 0 <=> ~\E i \in Reported : Got(i) = r)
    <2> DEFINE P == {i \in Reported : Got(i) = r}
    <2>1. P \subseteq 1 .. Len(arrived)
      BY <1>2
    <2>2. P = {} <=> ~\E i \in Reported : Got(i) = r
      OBVIOUS
    <2>3. Reports(r) = Cardinality(P)
      BY DEF Reports
    <2> HIDE DEF P
    <2>4. Cardinality(P) \in Nat /\ (Cardinality(P) = 0 <=> P = {})
      BY <1>1, <2>1, Countable
    <2> QED BY <2>2, <2>3, <2>4
  <1> QED BY <1>1, <1>2, <1>3, <1>4

LEMMA OneMoreReport ==
  ASSUME arrived \in Seq([uri : Uris, kind : Kinds]), NEW uri \in Uris, NEW kind \in Kinds,
         arrived' = Append(arrived, [uri |-> uri, kind |-> kind]),
         UNCHANGED <<job, target>>, NEW r
  PROVE  Reports(r)' = Reports(r)
           + IF (uri # target \/ job = "type") /\ [uri |-> uri, type |-> TypeOf(kind)] = r
               THEN 1 ELSE 0
  <1> DEFINE n == Len(arrived)
             P == {i \in 1 .. n : (arrived[i].uri # target \/ job = "type")
                                    /\ [uri |-> arrived[i].uri, type |-> TypeOf(arrived[i].kind)] = r}
             Q == {i \in 1 .. n + 1 : (arrived'[i].uri # target \/ job = "type")
                                    /\ [uri |-> arrived'[i].uri, type |-> TypeOf(arrived'[i].kind)] = r}
             a == [uri |-> uri, kind |-> kind]
             more == (uri # target \/ job = "type") /\ [uri |-> uri, type |-> TypeOf(kind)] = r
  <1>1. /\ n \in Nat /\ DOMAIN arrived = 1 .. n /\ DOMAIN arrived' = 1 .. n + 1
        /\ \A i \in 1 .. n : arrived'[i] = arrived[i]
        /\ arrived'[n + 1] = a
    BY AppendProperties, LenProperties
  <1>2. Reports(r) = Cardinality(P)
    <2>1. P = {i \in Reported : Got(i) = r}
      BY <1>1 DEF Reported, Got
    <2> QED BY <2>1 DEF Reports
  <1>3. Reports(r)' = Cardinality(Q)
    <2>1. Q = {i \in Reported : Got(i) = r}'
      BY <1>1 DEF Reported, Got
    <2> QED BY <2>1 DEF Reports
  <1>4. a.uri = uri /\ a.kind = kind
    OBVIOUS
  <1>5. Q = IF more THEN P \cup {n + 1} ELSE P
    <2> HIDE DEF a
    <2>1. n + 1 \in Q <=> more
      BY <1>1, <1>4
    <2>2. \A i \in 1 .. n : i \in Q <=> i \in P
      BY <1>1
    <2>3. \A i : i \in Q => i \in 1 .. n \/ i = n + 1
      BY <1>1
    <2>4. n + 1 \notin P /\ \A i \in P : i \in 1 .. n
      BY <1>1
    <2> HIDE DEF P, Q, more, n
    <2>5. CASE more
      <3>1. \A i : i \in Q <=> i \in P \/ i = n + 1
        BY <2>1, <2>2, <2>3, <2>4, <2>5
      <3> QED BY <2>5, <3>1
    <2>6. CASE ~more
      <3>1. \A i : i \in Q <=> i \in P
        BY <2>1, <2>2, <2>3, <2>4, <2>6
      <3> QED BY <2>6, <3>1
    <2> QED BY <2>5, <2>6
  <1>6. P \subseteq 1 .. n
    OBVIOUS
  <1> HIDE DEF P, Q, more
  <1>7. Cardinality(P) \in Nat /\ Cardinality(P \cup {n + 1}) = Cardinality(P) + 1
    BY <1>1, <1>6, Countable, CountedOneMore
  <1>8. Reports(r)' = Reports(r) + IF more THEN 1 ELSE 0
    BY <1>2, <1>3, <1>5, <1>7
  <1> QED BY <1>8 DEF more

\* A resource is put where the order allows it.
LEMMA InsertedInOrder ==
  ASSUME NEW l \in Seq(Resource), NEW r \in Resource,
         \A i, j \in 1 .. Len(l) : i < j => MayPrecede(l[i], l[j])
  PROVE  \A i, j \in 1 .. Len(Insert(l, r)) :
           i < j => MayPrecede(Insert(l, r)[i], Insert(l, r)[j])
  <1> DEFINE m == Insert(l, r)
  <1>1. PICK k \in 1 .. Len(l) + 1 :
           /\ PutAt(l, m, k, r)
           /\ \A i \in 1 .. k - 1 : ~NotBefore(l[i], r)
           /\ k <= Len(l) => NotBefore(l[k], r)
    BY Inserted
  <1> HIDE DEF m
  <1>2. /\ Len(l) \in Nat /\ Len(m) = Len(l) + 1
        /\ \A i \in 1 .. k - 1 : m[i] = l[i]
        /\ m[k] = r
        /\ \A i \in k + 1 .. Len(l) + 1 : m[i] = l[i - 1]
        /\ \A i \in 1 .. Len(l) : l[i] \in Resource
    BY <1>1, LenProperties, ElementOfSeq DEF PutAt
  <1>3. \A i \in 1 .. k - 1 : MayPrecede(l[i], r)
    <2> SUFFICES ASSUME NEW i \in 1 .. k - 1 PROVE MayPrecede(l[i], r)
      OBVIOUS
    <2>1. i \in 1 .. Len(l) /\ l[i] \in Resource /\ ~NotBefore(l[i], r)
      BY <1>1, <1>2
    <2> QED BY <2>1, OrderCarries
  <1>4. \A i \in k .. Len(l) : MayPrecede(r, l[i])
    <2> SUFFICES ASSUME NEW i \in k .. Len(l) PROVE MayPrecede(r, l[i])
      OBVIOUS
    <2>1. /\ k \in 1 .. Len(l) /\ i \in 1 .. Len(l)
          /\ l[k] \in Resource /\ l[i] \in Resource /\ NotBefore(l[k], r)
      BY <1>1, <1>2
    <2>2. MayPrecede(r, l[k])
      BY <2>1, OrderCarries
    <2>3. CASE i = k
      BY <2>2, <2>3
    <2>4. CASE k < i
      <3>1. MayPrecede(l[k], l[i])
        BY <2>1, <2>4
      <3> QED BY <2>1, <2>2, <3>1, OrderCarries
    <2> QED BY <2>1, <2>3, <2>4
  <1>5. ASSUME NEW i \in 1 .. Len(m), NEW j \in 1 .. Len(m), i < j
        PROVE  MayPrecede(m[i], m[j])
    <2>1. CASE j < k
      <3>1. m[i] = l[i] /\ m[j] = l[j] /\ i \in 1 .. Len(l) /\ j \in 1 .. Len(l)
        BY <1>2, <1>5, <2>1
      <3> QED BY <1>5, <3>1
    <2>2. CASE j = k
      <3>1. m[i] = l[i] /\ m[j] = r /\ i \in 1 .. k - 1
        BY <1>2, <1>5, <2>2
      <3> QED BY <1>3, <3>1
    <2>3. CASE i < k /\ k < j
      <3>1. /\ m[i] = l[i] /\ m[j] = l[j - 1] /\ i < j - 1
            /\ i \in 1 .. Len(l) /\ j - 1 \in 1 .. Len(l)
        BY <1>2, <1>5, <2>3
      <3> QED BY <3>1
    <2>4. CASE i = k
      <3>1. m[i] = r /\ m[j] = l[j - 1] /\ j - 1 \in k .. Len(l)
        BY <1>2, <1>5, <2>4
      <3> QED BY <1>4, <3>1
    <2>5. CASE k < i
      <3>1. /\ m[i] = l[i - 1] /\ m[j] = l[j - 1] /\ i - 1 < j - 1
            /\ i - 1 \in 1 .. Len(l) /\ j - 1 \in 1 .. Len(l)
        BY <1>2, <1>5, <2>5
      <3> QED BY <3>1
    <2> QED BY <1>2, <1>5, <2>1, <2>2, <2>3, <2>4, <2>5
  <1> QED BY <1>5 DEF m

LEMMA ListInit == ListingInit => ListInv /\ OrderInv
  BY DEF ListingInit, ListInv, OrderInv

LEMMA ListSteps ==
  ASSUME ListingTypeOK, JobInv, ListInv, OrderInv, [ListingNext]_listingVars
  PROVE  ListInv' /\ OrderInv'
  <1>1. CASE phase' \notin {"fetching", "reading"}
    BY <1>1 DEF ListInv, OrderInv
  <1>2. ASSUME phase' = "fetching", list' = <<>>, arrived' = <<>>
        PROVE  ListInv' /\ OrderInv'
    <2>1. \A r : Times(r, list)' = 0
      BY <1>2, CountedNone DEF Times
    <2>2. \A r : {i \in Reported : Got(i) = r}' = {}
      BY <1>2 DEF Reported
    <2>3. \A r : Reports(r)' = 0
      BY <2>2, FS_EmptySet DEF Reports
    <2>4. Len(list') = 0
      BY <1>2, EmptySeq
    <2> QED BY <2>1, <2>3, <2>4 DEF ListInv, OrderInv
  <1>3. ASSUME UNCHANGED <<list, arrived, target, job>>,
               phase' = phase \/ (phase = "fetching" /\ phase' = "reading")
        PROVE  ListInv' /\ OrderInv'
    <2>1. \A r : Times(r, list)' = Times(r, list)
      BY <1>3 DEF Times
    <2>2. \A r : Reports(r)' = Reports(r)
      BY <1>3 DEF Reports, Reported, Got
    <2> QED BY <1>3, <2>1, <2>2 DEF ListInv, OrderInv
  <1>4. CASE Ask
    BY <1>2, <1>4 DEF Ask, Begin
  <1>5. CASE Arrives
    <2>1. PICK uri \in Uris, kind \in Kinds :
            /\ Results(uri, kind)
            /\ arrived' = Append(arrived, [uri |-> uri, kind |-> kind])
      BY <1>5 DEF Arrives
    <2> DEFINE r == [uri |-> uri, type |-> TypeOf(kind)]
               more == uri # target \/ job = "type"
    <2>2. /\ r \in Resource /\ list \in Seq(Resource)
          /\ arrived \in Seq([uri : Uris, kind : Kinds])
          /\ phase = "fetching" /\ phase' = phase /\ UNCHANGED <<target, job>>
      BY <1>5, KindTypes DEF Arrives, ListingTypeOK, Resource
    <2>3. list' = IF more THEN Insert(list, r) ELSE list
      BY <2>1 DEF Results
    <2>4. \A x : Reports(x)' = Reports(x) + IF more /\ r = x THEN 1 ELSE 0
      BY <2>1, <2>2, OneMoreReport
    <2> HIDE DEF r, more
    <2>5. \A x \in Resource : Times(x, list) = Reports(x) /\ Reports(x) \in Nat
      BY <2>2, ReportedPlaces DEF ListInv
    <2>6. \A x \in Resource : Times(x, list)' = Times(x, list) + IF more /\ r = x THEN 1 ELSE 0
      <3>1. CASE more
        <4>1. PICK k \in 1 .. Len(list) + 1 : PutAt(list, Insert(list, r), k, r)
          BY <2>2, Inserted
        <4>2. \A x \in Resource : Times(x, Insert(list, r)) = Times(x, list) + IF r = x THEN 1 ELSE 0
          BY <2>2, <4>1, CountedPut
        <4>3. \A x : Times(x, list)' = Times(x, Insert(list, r))
          BY <2>3, <3>1 DEF Times
        <4> QED BY <3>1, <4>2, <4>3
      <3>2. CASE ~more
        <4>1. \A x : Times(x, list)' = Times(x, list)
          BY <2>3, <3>2 DEF Times
        <4> QED BY <2>5, <3>2, <4>1
      <3> QED BY <3>1, <3>2
    <2>7. ListInv'
      <3>1. \A x \in Resource : Times(x, list)' = Reports(x)'
        BY <2>4, <2>5, <2>6
      <3> QED BY <3>1 DEF ListInv, Resource, Uris
    <2>8. OrderInv'
      <3>1. CASE more
        <4>1. \A i, j \in 1 .. Len(list) : i < j => MayPrecede(list[i], list[j])
          BY <2>2 DEF OrderInv
        <4>2. \A i, j \in 1 .. Len(Insert(list, r)) :
                i < j => MayPrecede(Insert(list, r)[i], Insert(list, r)[j])
          BY <2>2, <4>1, InsertedInOrder
        <4> QED BY <2>3, <3>1, <4>2 DEF OrderInv
      <3>2. CASE ~more
        BY <2>2, <2>3, <3>2 DEF OrderInv
      <3> QED BY <3>1, <3>2
    <2> QED BY <2>7, <2>8
  <1>6. CASE Answered
    <2>1. CASE LsEmpty \/ TypeEnds \/ Cached
      BY <1>1, <2>1 DEF LsEmpty, TypeEnds, Cached
    <2>2. CASE Opened
      BY <1>3, <1>6, <2>2 DEF Answered, Opened
    <2> QED BY <1>6, <2>1, <2>2 DEF Answered
  <1>7. CASE Fails
    BY <1>1, <1>7 DEF Fails
  <1>8. CASE Readdir
    BY <1>3, <1>8 DEF Readdir
  <1>9. CASE Closedir \/ NoMore \/ Return
    BY <1>1, <1>9 DEF Closedir, NoMore, Return
  <1>10. CASE Tab
    <2>1. (phase' = "fetching" /\ list' = <<>> /\ arrived' = <<>>) \/ phase' = "matching"
      BY <1>10 DEF Tab, Begin
    <2> QED BY <1>1, <1>2, <2>1
  <1>11. CASE Match \/ Move \/ Tick
    BY <1>3, <1>11 DEF Match, Move, Tick
  <1>12. CASE UNCHANGED listingVars
    BY <1>3, <1>12 DEF listingVars
  <1> QED BY <1>4, <1>5, <1>6, <1>7, <1>8, <1>9, <1>10, <1>11, <1>12 DEF ListingNext

LEMMA ListIsKept == ListingSpec => [](ListInv /\ OrderInv)
  <1>1. ListingTypeOK /\ (JobInv /\ CacheInv /\ NearInv) /\ (ListInv /\ OrderInv)
          /\ [ListingNext]_listingVars => (ListInv /\ OrderInv)'
    BY ListSteps
  <1> QED BY <1>1, ListInit, CacheIsKept, ListingTypeCorrect, PTL DEF ListingSpec

LEMMA ListIsSorted == ListingTypeOK /\ ListInv /\ OrderInv => Sorted
  <1> SUFFICES ASSUME ListingTypeOK, ListInv, OrderInv, phase = "fetching"
               PROVE  /\ \A r \in ToSet(list) \cup {Got(i) : i \in Reported} :
                           Times(r, list) = Reports(r)
                      /\ \A i, j \in DOMAIN list : i < j => MayPrecede(list[i], list[j])
    BY DEF Sorted, Reports, MayPrecede
  <1>1. arrived \in Seq([uri : Uris, kind : Kinds]) /\ list \in Seq(Resource)
    BY DEF ListingTypeOK
  <1>2. DOMAIN list = 1 .. Len(list) /\ \A i \in 1 .. Len(list) : list[i] \in Resource
    BY <1>1, LenProperties, ElementOfSeq
  <1>3. \A i \in Reported : Got(i) \in Resource
    BY <1>1, ReportedPlaces
  <1>4. ToSet(list) \subseteq Resource
    BY <1>2 DEF ToSet
  <1>5. \A r \in ToSet(list) \cup {Got(i) : i \in Reported} : r \in Resource
    BY <1>3, <1>4
  <1>6. \A r \in Resource : Times(r, list) = Reports(r)
    BY DEF ListInv
  <1>7. \A i, j \in DOMAIN list : i < j => MayPrecede(list[i], list[j])
    BY <1>2 DEF OrderInv
  <1> QED BY <1>5, <1>6, <1>7

---------------------------------------------------------------------------
(* What is shown of the list. *)

\* How many of the first n resources of the list are shown as a line, and how
\* many resources of the answer should be.
Shown(l, n) == Cardinality({i \in 1 .. n : Longer(list[i]) /\ Line(list[i]) = l})
Members(l) == Cardinality({i \in Reported : Longer(Got(i)) /\ Line(Got(i)) = l})

\* What is left to read is the end of the list; what was read has been shown.
ReadInv ==
  phase = "reading" =>
    /\ job = "ls" => list # <<>>
    /\ Len(current) <= Len(list)
    /\ \A i \in 1 .. Len(current) : current[i] = list[Len(list) - Len(current) + i]
    /\ \A l : Times(l, out) = Shown(l, Len(list) - Len(current))

LEMMA ListHolds ==
  ASSUME ListingTypeOK, ListInv, phase \in {"fetching", "reading"}
  PROVE  /\ list = <<>> => Reported = {}
         /\ list # <<>> => \E i \in Reported : Got(i) = list[1]
  <1>1. list \in Seq(Resource) /\ arrived \in Seq([uri : Uris, kind : Kinds])
    BY DEF ListingTypeOK
  <1>2. /\ \A i \in Reported : Got(i) \in Resource
        /\ \A r \in Resource : Times(r, list) = Reports(r)
        /\ \A r : Reports(r) = 0 <=> ~\E i \in Reported : Got(i) = r
    BY <1>1, ReportedPlaces DEF ListInv
  <1>3. ASSUME list = <<>>, NEW i \in Reported PROVE FALSE
    <2>1. Times(Got(i), list) = 0
      BY <1>3, CountedNone
    <2> QED BY <1>2, <2>1
  <1>4. ASSUME list # <<>> PROVE \E i \in Reported : Got(i) = list[1]
    <2>1. list[1] \in Resource /\ Len(list) \in Nat /\ 1 \in DOMAIN list /\ DOMAIN list = 1 .. Len(list)
      BY <1>1, <1>4, FirstOfList, LenProperties
    <2> DEFINE S == {i \in DOMAIN list : list[i] = list[1]}
    <2>2. S # {} /\ S \subseteq 1 .. Len(list)
      BY <2>1
    <2>3. Times(list[1], list) = Cardinality(S)
      BY DEF Times
    <2> HIDE DEF S
    <2>4. Times(list[1], list) # 0
      BY <2>1, <2>2, <2>3, Countable
    <2> QED BY <1>2, <2>1, <2>4
  <1> QED BY <1>3, <1>4

\* A line tells which resource it is of.
LEMMA LineTells == \A r, s \in Resource : Line(r) = Line(s) => r = s
  <1> SUFFICES ASSUME NEW r \in Resource, NEW s \in Resource, Line(r) = Line(s)
               PROVE  r = s
    OBVIOUS
  <1>1. Line(r).uri = Line(s).uri /\ Line(r).form = Line(s).form
    OBVIOUS
  <1>2. r.uri = s.uri /\ r.type = s.type
    BY <1>1 DEF Line
  <1> QED BY <1>2 DEF Resource

\* Once it is all read, what is shown is what should be.
LEMMA AllShown ==
  ASSUME ListingTypeOK, ListInv, phase = "reading", NEW l
  PROVE  Shown(l, Len(list)) = Members(l)
  <1>1. list \in Seq(Resource) /\ arrived \in Seq([uri : Uris, kind : Kinds])
    BY DEF ListingTypeOK
  <1>2. /\ Len(list) \in Nat /\ DOMAIN list = 1 .. Len(list)
        /\ \A i \in 1 .. Len(list) : list[i] \in Resource
    BY <1>1, LenProperties, ElementOfSeq
  <1>3. \A i \in Reported : Got(i) \in Resource
    BY <1>1, ReportedPlaces
  <1> DEFINE S == {i \in 1 .. Len(list) : Longer(list[i]) /\ Line(list[i]) = l}
             M == {i \in Reported : Longer(Got(i)) /\ Line(Got(i)) = l}
  <1>4. Shown(l, Len(list)) = Cardinality(S) /\ Members(l) = Cardinality(M)
    BY DEF Shown, Members
  <1>5. CASE \E x \in Resource : Line(x) = l /\ Longer(x)
    <2>1. PICK x \in Resource : Line(x) = l /\ Longer(x)
      BY <1>5
    <2>2. \A y \in Resource : (Longer(y) /\ Line(y) = l) <=> y = x
      BY <2>1, LineTells
    <2>3. S = {i \in DOMAIN list : list[i] = x}
      BY <1>2, <2>2
    <2>4. M = {i \in Reported : Got(i) = x}
      BY <1>3, <2>2
    <2>5. Cardinality(S) = Times(x, list) /\ Cardinality(M) = Reports(x)
      BY <2>3, <2>4 DEF Times, Reports
    <2>6. Times(x, list) = Reports(x)
      BY DEF ListInv
    <2> QED BY <1>4, <2>5, <2>6
  <1>6. CASE ~\E x \in Resource : Line(x) = l /\ Longer(x)
    <2>1. S = {}
      BY <1>2, <1>6
    <2>2. M = {}
      BY <1>3, <1>6
    <2> QED BY <1>4, <2>1, <2>2
  <1> QED BY <1>5, <1>6

LEMMA ShownOneMore ==
  ASSUME NEW n \in Nat, NEW l
  PROVE  /\ Shown(l, n) \in Nat
         /\ Shown(l, n + 1) = Shown(l, n)
              + IF Longer(list[n + 1]) /\ Line(list[n + 1]) = l THEN 1 ELSE 0
  <1> DEFINE S == {i \in 1 .. n : Longer(list[i]) /\ Line(list[i]) = l}
             T == {i \in 1 .. n + 1 : Longer(list[i]) /\ Line(list[i]) = l}
             more == Longer(list[n + 1]) /\ Line(list[n + 1]) = l
  <1>1. Shown(l, n) = Cardinality(S) /\ Shown(l, n + 1) = Cardinality(T)
    BY DEF Shown
  <1>2. CASE more
    <2>1. T = S \cup {n + 1}
      <3>1. \A i : i \in 1 .. n + 1 <=> i \in 1 .. n \/ i = n + 1
        OBVIOUS
      <3> QED BY <1>2, <3>1, Zenon
    <2>2. S \subseteq 1 .. n
      OBVIOUS
    <2> HIDE DEF S, T, more
    <2>3. Cardinality(S) \in Nat /\ Cardinality(T) = Cardinality(S) + 1
      BY <2>1, <2>2, Countable, CountedOneMore
    <2>4. Shown(l, n) \in Nat /\ Shown(l, n + 1) = Shown(l, n) + IF more THEN 1 ELSE 0
      BY <1>1, <1>2, <2>3
    <2> QED BY <2>4 DEF more
  <1>3. CASE ~more
    <2>1. T = S
      <3>1. \A i : i \in 1 .. n + 1 <=> i \in 1 .. n \/ i = n + 1
        OBVIOUS
      <3> QED BY <1>3, <3>1, Zenon
    <2>2. S \subseteq 1 .. n
      OBVIOUS
    <2> HIDE DEF S, T, more
    <2>3. Cardinality(S) \in Nat
      BY <2>2, Countable
    <2>4. Shown(l, n) \in Nat /\ Shown(l, n + 1) = Shown(l, n) + IF more THEN 1 ELSE 0
      BY <1>1, <1>3, <2>1, <2>3
    <2> QED BY <2>4 DEF more
  <1> QED BY <1>2, <1>3

LEMMA ShowInit == ListingInit => ReadInv /\ EveryMember /\ TypeReported
  BY DEF ListingInit, ReadInv, EveryMember, TypeReported

LEMMA TypeFound ==
  ASSUME ListingTypeOK, ListInv, phase = "fetching", TypeEnds,
         UNCHANGED <<target, arrived>>
  PROVE  TypeReported'
  <1>1. list \in Seq(Resource) /\ arrived \in Seq([uri : Uris, kind : Kinds])
    BY DEF ListingTypeOK
  <1>2. job = "type"
    BY DEF TypeEnds
  <1>3. Len(arrived) \in Nat /\ DOMAIN arrived = 1 .. Len(arrived) /\ Reported = 1 .. Len(arrived)
    BY <1>1, <1>2, LenProperties DEF Reported
  <1> DEFINE reports == {TypeOf(arrived[i].kind) : i \in {k \in DOMAIN arrived :
                                                           arrived[k].uri = target}}
  <1>4. CASE list = <<>>
    <2>1. Reported = {}
      BY <1>4, ListHolds
    <2>2. Len(arrived) = 0
      BY <1>3, <2>1
    <2>3. arrived = <<>>
      BY <1>1, <2>2, EmptySeq
    <2>4. verdict' = "crashed"
      BY <1>4 DEF TypeEnds
    <2> QED BY <2>3, <2>4 DEF TypeReported
  <1>5. CASE list # <<>>
    <2>1. PICK i \in Reported : Got(i) = list[1]
      BY <1>5, ListHolds
    <2>2. list[1].uri = arrived[i].uri /\ list[1].type = TypeOf(arrived[i].kind)
      BY <2>1 DEF Got
    <2>3. CASE list[1].uri = target
      <3>1. verdict' = "success" /\ out' = <<Line(list[1])>>
        BY <1>5, <2>3 DEF TypeEnds
      <3>2. out'[1].uri = target /\ out'[1].form = list[1].type
        BY <2>3, <3>1 DEF Line
      <3>3. list[1].type \in reports
        BY <1>3, <2>2, <2>3
      <3> QED BY <3>1, <3>2, <3>3 DEF TypeReported
    <2>4. CASE list[1].uri # target
      <3>1. verdict' = "unknown"
        BY <1>5, <2>4 DEF TypeEnds
      <3>2. ASSUME reports # {} PROVE Len(arrived) > 1
        <4>1. PICK k \in DOMAIN arrived : arrived[k].uri = target
          BY <3>2
        <4>2. k # i
          BY <2>2, <2>4, <4>1
        <4> QED BY <1>3, <4>1, <4>2
      <3> QED BY <3>1, <3>2 DEF TypeReported
    <2> QED BY <2>3, <2>4
  <1> QED BY <1>4, <1>5

LEMMA ShowSteps ==
  ASSUME ListingTypeOK, ListingTypeOK', JobInv, ListInv, ReadInv, EveryMember, TypeReported,
         [ListingNext]_listingVars
  PROVE  ReadInv' /\ EveryMember' /\ TypeReported'
  <1>0. /\ list \in Seq(Resource) /\ current \in Seq(Resource) /\ out \in Seq(Entry)
        /\ arrived \in Seq([uri : Uris, kind : Kinds])
        /\ Len(list) \in Nat /\ Len(current) \in Nat
    BY LenProperties DEF ListingTypeOK, Entry
  <1>1. CASE phase' \notin {"reading", "done"}
    BY <1>1 DEF ReadInv, EveryMember, TypeReported
  <1>2. CASE Ask \/ Arrives \/ Tab \/ Match \/ Return \/ Move \/ Tick
    <2>1. phase' \notin {"reading", "done"}
      BY <1>2 DEF Ask, Begin, Arrives, Tab, Match, Return, Move, Tick
    <2> QED BY <1>1, <2>1
  <1>3. CASE Answered
    <2>0. phase = "fetching" /\ UNCHANGED <<job, target, arrived>> /\ out = <<>>
      BY <1>3 DEF Answered, JobInv
    <2>1. CASE LsEmpty
      <3>1. phase' = "done" /\ job = "ls" /\ verdict' = "empty" /\ out' = <<>> /\ list = <<>>
        BY <2>0, <2>1 DEF LsEmpty
      <3>2. Reported = {}
        BY <2>0, <3>1, ListHolds
      <3>3. Reported' = {}
        BY <2>0, <3>2 DEF Reported
      <3>4. ToSet(out') = {}
        BY <3>1 DEF ToSet
      <3>5. \A i \in DOMAIN arrived : arrived[i].uri = target
        BY <3>2 DEF Reported
      <3> QED BY <2>0, <3>1, <3>3, <3>4, <3>5 DEF ReadInv, EveryMember, TypeReported
    <2>2. CASE Opened
      <3>1. /\ phase' = "reading" /\ current' = list /\ list' = list /\ out' = <<>>
            /\ job = "ls" => list # <<>>
        BY <2>0, <2>2 DEF Opened
      <3>2. ReadInv'
        <4>1. Len(list) - Len(current') = 0
          BY <1>0, <3>1
        <4>2. \A l : Times(l, out') = 0
          BY <3>1, CountedNone
        <4>3. ASSUME NEW l PROVE Shown(l, Len(list) - Len(current))' = 0
          <5>1. {i \in 1 .. Len(list') - Len(current') : Longer(list[i])' /\ Line(list'[i]) = l} = {}
            BY <3>1, <4>1
          <5> QED BY <5>1, FS_EmptySet DEF Shown
        <4>4. \A l : Times(l, out)' = Shown(l, Len(list) - Len(current))'
          BY <4>2, <4>3 DEF Times
        <4> QED BY <1>0, <2>0, <3>1, <4>1, <4>4 DEF ReadInv
      <3> QED BY <3>1, <3>2 DEF EveryMember, TypeReported
    <2>3. CASE TypeEnds
      <3>1. TypeReported'
        BY <2>0, <2>3, TypeFound
      <3>2. phase' = "done" /\ job' = "type"
        BY <2>0, <2>3 DEF TypeEnds
      <3> QED BY <3>1, <3>2 DEF ReadInv, EveryMember
    <2>4. CASE Cached
      BY <1>1, <2>4 DEF Cached
    <2> QED BY <1>3, <2>1, <2>2, <2>3, <2>4 DEF Answered
  <1>4. CASE Fails
    <2>1. verdict' = "failed" /\ phase' # "reading"
      BY <1>4 DEF Fails
    <2> QED BY <2>1 DEF ReadInv, EveryMember, TypeReported
  <1>5. CASE Readdir
    <2> DEFINE n == Len(list) - Len(current)
               r == Head(current)
    <2>1. /\ phase = "reading" /\ phase' = phase /\ current # <<>>
          /\ current' = Tail(current) /\ UNCHANGED <<list, target, job>>
          /\ out' = IF Longer(r) THEN Append(out, Line(r)) ELSE out
      BY <1>5 DEF Readdir
    <2>2. /\ r \in Resource /\ r = current[1] /\ Len(current) \in Nat \ {0}
          /\ Len(current') = Len(current) - 1
          /\ \A i \in 1 .. Len(current) - 1 : current'[i] = current[i + 1]
      BY <1>0, <2>1, FirstOfList
    <2>3. /\ job = "ls" => list # <<>>
          /\ Len(current) <= Len(list)
          /\ \A i \in 1 .. Len(current) : current[i] = list[n + i]
          /\ \A l : Times(l, out) = Shown(l, n)
      BY <2>1 DEF ReadInv
    <2>4. n \in Nat /\ r = list[n + 1] /\ Len(list') - Len(current') = n + 1
      BY <1>0, <2>1, <2>2, <2>3
    <2> HIDE DEF n, r
    <2>5. \A i \in 1 .. Len(current') : current'[i] = list'[Len(list') - Len(current') + i]
      <3> SUFFICES ASSUME NEW i \in 1 .. Len(current') PROVE current'[i] = list[n + 1 + i]
        BY <2>1, <2>4
      <3>1. current'[i] = current[i + 1] /\ i + 1 \in 1 .. Len(current)
        BY <2>2
      <3>2. current[i + 1] = list[n + (i + 1)]
        BY <2>3, <3>1
      <3>3. n + (i + 1) = n + 1 + i
        BY <2>4
      <3> QED BY <3>1, <3>2, <3>3
    <2>6. ASSUME NEW l PROVE Times(l, out)' = Shown(l, Len(list) - Len(current))'
      <3>1. Shown(l, Len(list) - Len(current))' = Shown(l, n + 1)
        BY <2>1, <2>4 DEF Shown, Longer
      <3>2. Shown(l, n) \in Nat
            /\ Shown(l, n + 1) = Shown(l, n) + IF Longer(r) /\ Line(r) = l THEN 1 ELSE 0
        BY <2>4, ShownOneMore
      <3>3. CASE Longer(r)
        <4>1. Line(r) \in Entry
          BY <2>2, LineIsEntry
        <4>2. Times(l, Append(out, Line(r))) = Times(l, out) + IF Line(r) = l THEN 1 ELSE 0
          BY <1>0, <4>1, CountedAppend
        <4>3. Times(l, out)' = Times(l, Append(out, Line(r)))
          BY <2>1, <3>3 DEF Times
        <4> QED BY <2>3, <3>1, <3>2, <3>3, <4>2, <4>3
      <3>4. CASE ~Longer(r)
        <4>1. Times(l, out)' = Times(l, out)
          BY <2>1, <3>4 DEF Times
        <4> QED BY <2>3, <3>1, <3>2, <3>4, <4>1
      <3> QED BY <3>3, <3>4
    <2>7. ReadInv'
      <3>1. Len(current') <= Len(list')
        BY <1>0, <2>1, <2>2, <2>3
      <3>2. (job = "ls" => list # <<>>)'
        BY <2>1, <2>3
      <3> QED BY <2>5, <2>6, <3>1, <3>2 DEF ReadInv
    <2> QED BY <2>1, <2>7 DEF EveryMember, TypeReported
  <1>6. CASE Closedir
    <2>1. /\ phase = "reading" /\ phase' = "done" /\ verdict' = "success" /\ current = <<>>
          /\ UNCHANGED <<job, target, out, arrived>> /\ job \in {"ls", "glob"}
      BY <1>6 DEF Closedir, JobInv
    <2>2. Len(list) - Len(current) = Len(list)
      BY <1>0, <2>1, EmptySeq
    <2>3. \A l : Times(l, out) = Members(l)
      <3>1. \A l : Times(l, out) = Shown(l, Len(list) - Len(current))
        BY <2>1 DEF ReadInv
      <3>2. \A l : Shown(l, Len(list)) = Members(l)
        BY <2>1, AllShown
      <3> QED BY <2>2, <3>1, <3>2
    <2>4. \A l : Times(l, out)' = Members(l)'
      BY <2>1, <2>3 DEF Times, Members, Reported, Got, Longer
    <2>5. job = "ls" => ~\A i \in DOMAIN arrived : arrived[i].uri = target
      <3> SUFFICES ASSUME job = "ls" PROVE \E i \in DOMAIN arrived : arrived[i].uri # target
        OBVIOUS
      <3>1. list # <<>>
        BY <2>1 DEF ReadInv
      <3>2. PICK i \in Reported : Got(i) = list[1]
        BY <2>1, <3>1, ListHolds
      <3> QED BY <3>2 DEF Reported
    <2>6. EveryMember'
      BY <2>1, <2>4, <2>5 DEF EveryMember, Members
    <2> QED BY <2>1, <2>6 DEF ReadInv, TypeReported
  <1>7. CASE NoMore
    <2>1. job' = "tab" /\ phase' = "done"
      BY <1>7 DEF NoMore, JobInv
    <2> QED BY <2>1 DEF ReadInv, EveryMember, TypeReported
  <1>8. CASE UNCHANGED listingVars
    <2>1. UNCHANGED <<phase, job, target, list, current, out, verdict, arrived>>
      BY <1>8 DEF listingVars
    <2>2. ReadInv'
      BY <2>1 DEF ReadInv, Times, Shown, Longer
    <2>3. EveryMember'
      <3>1. Reported' = Reported
        BY <2>1 DEF Reported
      <3>2. \A i : Got(i)' = Got(i) /\ Longer(Got(i))' = Longer(Got(i))
        BY <2>1 DEF Got, Longer
      <3>3. \A l : Times(l, out)' = Times(l, out) /\ Members(l)' = Members(l)
        BY <2>1, <3>1, <3>2 DEF Times, Members
      <3>4. ToSet(out)' \cup {Line(Got(i)) : i \in Reported}'
              = ToSet(out) \cup {Line(Got(i)) : i \in Reported}
        BY <2>1, <3>1, <3>2 DEF ToSet
      <3> QED BY <2>1, <3>3, <3>4 DEF EveryMember, Members
    <2>4. TypeReported'
      BY <2>1 DEF TypeReported
    <2> QED BY <2>2, <2>3, <2>4
  <1> QED BY <1>2, <1>3, <1>4, <1>5, <1>6, <1>7, <1>8 DEF ListingNext

LEMMA ShowIsKept == ListingSpec => [](ReadInv /\ EveryMember /\ TypeReported)
  <1>1. ListingTypeOK /\ ListingTypeOK' /\ (JobInv /\ CacheInv /\ NearInv)
          /\ (ListInv /\ OrderInv) /\ (ReadInv /\ EveryMember /\ TypeReported)
          /\ [ListingNext]_listingVars => (ReadInv /\ EveryMember /\ TypeReported)'
    BY ShowSteps
  <1> QED BY <1>1, ShowInit, ListIsKept, CacheIsKept, ListingTypeCorrect, PTL DEF ListingSpec

\* TypeReported: a type is that of the resource asked for, as the server
\* reported it, and only an answer without any resource crashes (getrestype).
THEOREM TypesAreReported == ListingSpec => []TypeReported
  BY ShowIsKept, PTL

\* ListingWellFormed: for answers of any length and in any order, the list holds
\* each resource once and in order (results, compare_resource), what ls and glob
\* give is what the server reported (execute_ls, davglob_readdir), and the cache
\* is not used after it is freed (refresh_completion_cache).
THEOREM ListingsAreSound == ListingSpec => []ListingWellFormed
  <1>1. ListingTypeOK /\ NoMisuse /\ ListInv /\ OrderInv /\ EveryMember => ListingWellFormed
    BY ListIsSorted DEF ListingWellFormed, Listed
  <1> QED BY <1>1, ShowIsKept, ListIsKept, CacheNotMisused, ListingTypeCorrect, PTL

---------------------------------------------------------------------------
(* What is offered for completion. *)

\* What an offer means when it is typed.
MeantBy(o) == IF o.form = "relative" THEN cwd \o o.uri ELSE o.uri

\* The places of the cached list, up to n, that have to be offered.
Wanted(n) == {k \in 1 .. n : \E x \in stem : cache.list[k].uri = Append(target, x)}

\* They are what is offered.
OffersUpTo(n) ==
  /\ Len(out) = Cardinality(Wanted(n))
  /\ \A k \in Wanted(n) : MeantBy(out[Cardinality(Wanted(k))]) = cache.list[k].uri

\* What is left to match is the end of the cached list, and what was matched
\* has been offered.
OfferInv ==
  /\ phase = "matching" =>
       \E n \in Nat : /\ n + Len(current) = Len(cache.list)
                      /\ \A i \in 1 .. Len(current) : current[i] = cache.list[n + i]
                      /\ OffersUpTo(n)
  /\ phase = "done" /\ job = "tab" => OffersUpTo(Len(cache.list))

LEMMA OffersSame ==
  ASSUME UNCHANGED <<cwd, target, stem, cache, out>>, NEW n
  PROVE  OffersUpTo(n)' <=> OffersUpTo(n)
  <1>1. \A k : Wanted(k)' = Wanted(k)
    BY DEF Wanted
  <1>2. \A o : MeantBy(o)' = MeantBy(o)
    BY DEF MeantBy
  <1>3. \A k : MeantBy(out[Cardinality(Wanted(k))])' = MeantBy(out[Cardinality(Wanted(k))])
    BY <1>1 DEF MeantBy
  <1> QED BY <1>1, <1>3 DEF OffersUpTo

LEMMA PrefixIs ==
  ASSUME NEW s \in Seq(Segments), NEW t \in Seq(Segments)
  PROVE  IsPrefix(s, t) <=> Len(s) <= Len(t) /\ \A i \in 1 .. Len(s) : s[i] = t[i]
  <1>1. /\ Len(s) \in Nat /\ Len(t) \in Nat
        /\ \A i \in 1 .. Len(s) : s[i] \in Segments
        /\ \A i \in 1 .. Len(t) : t[i] \in Segments
    BY LenProperties, ElementOfSeq
  <1>2. CASE Len(s) <= Len(t)
    <2> DEFINE a == SubSeq(s, 1, Len(s))
               b == SubSeq(t, 1, Len(s))
    <2>1. a \in Seq(Segments) /\ Len(a) = Len(s) /\ \A i \in 1 .. Len(s) : a[i] = s[i]
      BY <1>1, SubSeqProperties
    <2>2. b \in Seq(Segments) /\ Len(b) = Len(s) /\ \A i \in 1 .. Len(s) : b[i] = t[i]
      BY <1>1, <1>2, SubSeqProperties
    <2>3. IsPrefix(s, t) <=> a = b
      BY <1>2 DEF IsPrefix
    <2> HIDE DEF a, b
    <2>4. a = b <=> \A i \in 1 .. Len(s) : a[i] = b[i]
      BY <2>1, <2>2, SeqEqual
    <2> QED BY <1>2, <2>1, <2>2, <2>3, <2>4
  <1>3. CASE ~(Len(s) <= Len(t))
    BY <1>3 DEF IsPrefix
  <1> QED BY <1>2, <1>3

\* A resource of the listing of c that begins as a member does is that member.
LEMMA MatchesMember ==
  ASSUME NEW u \in Seq(Segments), target \in Seq(Segments), stem \subseteq Segments,
         Near(u, target)
  PROVE  Matches(u) <=> \E x \in stem : u = Append(target, x)
  <1>1. Len(u) \in Nat /\ Len(target) \in Nat /\ \A i \in 1 .. Len(u) : u[i] \in Segments
    BY LenProperties, ElementOfSeq
  <1>2. ASSUME NEW x \in stem
        PROVE  IsPrefix(Append(target, x), u) <=> u = Append(target, x)
    <2> DEFINE a == Append(target, x)
    <2>1. a \in Seq(Segments) /\ Len(a) = Len(target) + 1
      BY AppendProperties
    <2> HIDE DEF a
    <2>2. IsPrefix(a, u) <=> Len(a) <= Len(u) /\ \A i \in 1 .. Len(a) : a[i] = u[i]
      BY <2>1, PrefixIs
    <2>3. Len(u) <= Len(target) + 1
      <3>1. CASE u = target
        BY <1>1, <3>1
      <3>2. CASE IsPrefix(u, target)
        <4>1. Len(u) <= Len(target)
          BY <3>2 DEF IsPrefix
        <4> QED BY <1>1, <4>1
      <3>3. CASE Front(u) = target
        <4>1. CASE u = <<>>
          BY <1>1, <4>1, EmptySeq
        <4>2. CASE u # <<>>
          <5>1. Len(u) \in Nat \ {0}
            BY <4>2, EmptySeq
          <5>2. Len(SubSeq(u, 1, Len(u) - 1)) = IF 1 <= Len(u) - 1 THEN Len(u) - 1 ELSE 0
            <6>1. \A i \in 1 .. Len(u) - 1 : u[i] \in Segments
              BY <1>1, <5>1
            <6>2. Len(u) - 1 \in Int /\ 1 \in Int
              BY <5>1
            <6> QED BY <5>1, <6>1, <6>2, SubSeqProperties
          <5>3. Len(target) = Len(u) - 1
            BY <3>3, <5>1, <5>2 DEF Front
          <5> QED BY <5>1, <5>3
        <4> QED BY <4>1, <4>2
      <3> QED BY <3>1, <3>2, <3>3 DEF Near
    <2>4. ASSUME Len(a) <= Len(u), \A i \in 1 .. Len(a) : a[i] = u[i] PROVE u = a
      <3>1. Len(u) = Len(a)
        BY <1>1, <2>1, <2>3, <2>4
      <3> QED BY <2>1, <2>4, <3>1, SeqEqual
    <2>5. u = a => Len(a) <= Len(u) /\ \A i \in 1 .. Len(a) : a[i] = u[i]
      BY <1>1
    <2>6. IsPrefix(a, u) <=> u = a
      BY <2>2, <2>4, <2>5
    <2> QED BY <2>6 DEF a
  <1> QED BY <1>2 DEF Matches

\* An offer means the resource that it is made of.
LEMMA OfferMeans ==
  ASSUME NEW u \in Seq(Segments), cwd \in Seq(Segments)
  PROVE  MeantBy(Offer(u)) = u
  <1>1. CASE IsStrictPrefix(cwd, u)
    <2> DEFINE b == SubSeq(u, Len(cwd) + 1, Len(u))
               c == cwd \o b
    <2>1. /\ Len(u) \in Nat /\ Len(cwd) \in Nat /\ Len(cwd) <= Len(u)
          /\ \A i \in 1 .. Len(u) : u[i] \in Segments
          /\ \A i \in 1 .. Len(cwd) : cwd[i] = u[i]
      BY <1>1, PrefixIs, LenProperties, ElementOfSeq DEF IsStrictPrefix
    <2>2. /\ b \in Seq(Segments) /\ Len(b) = Len(u) - Len(cwd)
          /\ \A i \in 1 .. Len(u) - Len(cwd) : b[i] = u[Len(cwd) + i]
      <3>1. \A i \in Len(cwd) + 1 .. Len(u) : u[i] \in Segments
        BY <2>1
      <3>2. Len(cwd) + 1 \in Int /\ Len(u) \in Int
        BY <2>1
      <3> QED BY <2>1, <3>1, <3>2, SubSeqProperties
    <2> HIDE DEF b
    <2>3. /\ c \in Seq(Segments) /\ Len(c) = Len(cwd) + Len(b)
          /\ \A i \in 1 .. Len(cwd) + Len(b) :
               c[i] = IF i <= Len(cwd) THEN cwd[i] ELSE b[i - Len(cwd)]
      BY <2>2, ConcatProperties
    <2> HIDE DEF c
    <2>4. Len(c) = Len(u)
      BY <2>1, <2>2, <2>3
    <2>5. ASSUME NEW i \in 1 .. Len(c) PROVE c[i] = u[i]
      <3>1. CASE i <= Len(cwd)
        BY <2>1, <2>3, <3>1
      <3>2. CASE ~(i <= Len(cwd))
        <4>1. i - Len(cwd) \in 1 .. Len(u) - Len(cwd) /\ Len(cwd) + (i - Len(cwd)) = i
          BY <2>1, <2>4, <3>2
        <4> QED BY <2>2, <2>3, <3>2, <4>1
      <3> QED BY <3>1, <3>2
    <2>6. c = u
      BY <2>3, <2>4, <2>5, SeqEqual
    <2>7. Offer(u) = [uri |-> b, form |-> "relative"]
      BY <1>1 DEF Offer, b
    <2>8. Offer(u).form = "relative" /\ Offer(u).uri = b
      BY <2>7
    <2>9. MeantBy(Offer(u)) = c
      BY <2>8 DEF MeantBy, c
    <2> QED BY <2>6, <2>9
  <1>2. CASE ~IsStrictPrefix(cwd, u)
    BY <1>2 DEF Offer, MeantBy
  <1> QED BY <1>1, <1>2

\* How far a wanted place is among those wanted.
LEMMA WantedPlaces ==
  ASSUME NEW n \in Nat
  PROVE  /\ Cardinality(Wanted(n)) \in Nat
         /\ \A k \in Wanted(n) : Cardinality(Wanted(k)) \in 1 .. Cardinality(Wanted(n))
         /\ Wanted(n + 1) =
              IF \E x \in stem : cache.list[n + 1].uri = Append(target, x)
                THEN Wanted(n) \cup {n + 1} ELSE Wanted(n)
         /\ Cardinality(Wanted(n) \cup {n + 1}) = Cardinality(Wanted(n)) + 1
  <1> DEFINE w(k) == \E x \in stem : cache.list[k].uri = Append(target, x)
  <1>1. \A k : Wanted(k) = {i \in 1 .. k : w(i)}
    BY DEF Wanted
  <1> HIDE DEF w
  <1>2. Wanted(n) \subseteq 1 .. n
    BY <1>1
  <1>3. IsFiniteSet(Wanted(n)) /\ Cardinality(Wanted(n)) \in Nat
        /\ (Cardinality(Wanted(n)) = 0 <=> Wanted(n) = {})
        /\ Cardinality(Wanted(n) \cup {n + 1}) = Cardinality(Wanted(n)) + 1
    BY <1>2, Countable, CountedOneMore
  <1>4. ASSUME NEW k \in Wanted(n) PROVE Cardinality(Wanted(k)) \in 1 .. Cardinality(Wanted(n))
    <2>1. k \in 1 .. n /\ w(k)
      BY <1>1
    <2>2. Wanted(k) \in SUBSET Wanted(n) /\ k \in Wanted(k)
      BY <1>1, <2>1
    <2>3. Cardinality(Wanted(k)) <= Cardinality(Wanted(n))
      BY <1>3, <2>2, FS_Subset
    <2>4. Wanted(k) \subseteq 1 .. k /\ k \in Nat
      BY <1>1, <2>1
    <2>5. Cardinality(Wanted(k)) \in Nat /\ Cardinality(Wanted(k)) # 0
      BY <2>2, <2>4, Countable
    <2> QED BY <1>3, <2>3, <2>5
  <1>6. Wanted(n + 1) = IF w(n + 1) THEN Wanted(n) \cup {n + 1} ELSE Wanted(n)
    <2>1. \A i : i \in 1 .. n + 1 <=> i \in 1 .. n \/ i = n + 1
      OBVIOUS
    <2>2. \A i : i \in Wanted(n + 1) <=> (i \in 1 .. n \/ i = n + 1) /\ w(i)
      BY <1>1, <2>1, Zenon
    <2>3. \A i : i \in Wanted(n) <=> i \in 1 .. n /\ w(i)
      BY <1>1, Zenon
    <2>4. CASE w(n + 1)
      <3>1. \A i : i \in Wanted(n + 1) <=> i \in Wanted(n) \/ i = n + 1
        BY <2>2, <2>3, <2>4
      <3> QED BY <2>4, <3>1
    <2>5. CASE ~w(n + 1)
      <3>1. \A i : i \in Wanted(n + 1) <=> i \in Wanted(n)
        BY <2>2, <2>3, <2>5
      <3> QED BY <2>5, <3>1
    <2> QED BY <2>4, <2>5
  <1> QED BY <1>3, <1>4, <1>6 DEF w

LEMMA OfferInit == ListingInit => OfferInv
  BY DEF ListingInit, OfferInv

LEMMA MatchOffers ==
  ASSUME ListingTypeOK, JobInv, CacheInv, OfferInv, Match
  PROVE  OfferInv'
  <1> USE DEF conn
  <1> DEFINE r == Head(current)
  <1>1. /\ phase = "matching" /\ phase' = phase /\ current # <<>>
        /\ current' = Tail(current) /\ UNCHANGED <<cwd, target, stem, cache>>
        /\ out' = IF Matches(r.uri) THEN Append(out, Offer(r.uri)) ELSE out
    BY DEF Match
  <1>2. /\ current \in Seq(Resource) /\ cache.list \in Seq(Resource) /\ out \in Seq(Entry)
        /\ cwd \in Colls /\ target \in Colls /\ stem \subseteq Segments
        /\ Len(cache.list) \in Nat
    BY LenProperties DEF ListingTypeOK, Entry
  <1>3. /\ r \in Resource /\ r = current[1] /\ Len(current) \in Nat \ {0}
        /\ Len(current') = Len(current) - 1
        /\ \A i \in 1 .. Len(current) - 1 : current'[i] = current[i + 1]
    BY <1>1, <1>2, FirstOfList
  <1>4. PICK n \in Nat : /\ n + Len(current) = Len(cache.list)
                         /\ \A i \in 1 .. Len(current) : current[i] = cache.list[n + i]
                         /\ OffersUpTo(n)
    BY <1>1 DEF OfferInv
  <1>5. /\ n + 1 \in 1 .. Len(cache.list) /\ r = cache.list[n + 1]
        /\ n + 1 + Len(current') = Len(cache.list)
    <2> HIDE DEF r
    <2>1. 1 \in 1 .. Len(current)
      BY <1>3
    <2>2. r = cache.list[n + 1]
      BY <1>3, <1>4, <2>1
    <2> QED BY <1>2, <1>3, <1>4, <2>2
  <1> HIDE DEF r
  <1>6. Near(r.uri, target)
    <2>1. cache.list # <<>>
      BY <1>5, EmptySeq
    <2>2. cache.state = "full" /\ cache.path = target
      BY <1>1, <2>1 DEF CacheInv, JobInv
    <2> QED BY <1>5, <2>2 DEF CacheInv
  <1>7. r.uri \in Uris /\ r.uri \in Seq(Segments) /\ target \in Seq(Segments) /\ cwd \in Seq(Segments)
    BY <1>2, <1>3, UrisAreSeqs DEF Resource
  <1>8. Matches(r.uri) <=> \E x \in stem : r.uri = Append(target, x)
    BY <1>2, <1>6, <1>7, MatchesMember
  <1>9. \A i \in 1 .. Len(current') : current'[i] = cache.list[n + 1 + i]
    <2> SUFFICES ASSUME NEW i \in 1 .. Len(current') PROVE current'[i] = cache.list[n + 1 + i]
      OBVIOUS
    <2>1. current'[i] = current[i + 1] /\ i + 1 \in 1 .. Len(current)
      BY <1>3
    <2>2. current[i + 1] = cache.list[n + (i + 1)]
      BY <1>4, <2>1
    <2>3. n + (i + 1) = n + 1 + i
      OBVIOUS
    <2> QED BY <2>1, <2>2, <2>3
  <1>10. \A k : Wanted(k)' = Wanted(k)
    BY <1>1 DEF Wanted
  <1>12. /\ Cardinality(Wanted(n)) \in Nat
         /\ \A k \in Wanted(n) : Cardinality(Wanted(k)) \in 1 .. Cardinality(Wanted(n))
         /\ Wanted(n + 1) =
              IF \E x \in stem : cache.list[n + 1].uri = Append(target, x)
                THEN Wanted(n) \cup {n + 1} ELSE Wanted(n)
         /\ Cardinality(Wanted(n) \cup {n + 1}) = Cardinality(Wanted(n)) + 1
    BY WantedPlaces
  <1>13. /\ Len(out) = Cardinality(Wanted(n))
         /\ \A k \in Wanted(n) : MeantBy(out[Cardinality(Wanted(k))]) = cache.list[k].uri
    BY <1>4 DEF OffersUpTo
  <1>14. /\ Len(out') = Cardinality(Wanted(n + 1))
         /\ \A k \in Wanted(n + 1) : MeantBy(out'[Cardinality(Wanted(k))]) = cache.list[k].uri
    <2>1. CASE Matches(r.uri)
      <3>1. Wanted(n + 1) = Wanted(n) \cup {n + 1}
        BY <1>5, <1>8, <1>12, <2>1
      <3>2. Offer(r.uri) \in Entry /\ MeantBy(Offer(r.uri)) = r.uri
        BY <1>2, <1>7, OfferIsEntry, OfferMeans
      <3>3. /\ Len(out') = Len(out) + 1
            /\ \A i \in 1 .. Len(out) : out'[i] = out[i]
            /\ out'[Len(out) + 1] = Offer(r.uri)
        BY <1>1, <1>2, <2>1, <3>2, AppendProperties
      <3>4. Len(out') = Cardinality(Wanted(n + 1))
        BY <1>12, <1>13, <3>1, <3>3
      <3>5. ASSUME NEW k \in Wanted(n)
            PROVE  MeantBy(out'[Cardinality(Wanted(k))]) = cache.list[k].uri
        <4>1. Cardinality(Wanted(k)) \in 1 .. Len(out)
          BY <1>12, <1>13
        <4>2. out'[Cardinality(Wanted(k))] = out[Cardinality(Wanted(k))]
          BY <3>3, <4>1
        <4> QED BY <1>13, <4>2
      <3>6. MeantBy(out'[Cardinality(Wanted(n + 1))]) = cache.list[n + 1].uri
        <4>1. Cardinality(Wanted(n + 1)) = Len(out) + 1
          BY <1>12, <1>13, <3>1
        <4>2. out'[Cardinality(Wanted(n + 1))] = Offer(r.uri)
          BY <3>3, <4>1
        <4> QED BY <1>5, <3>2, <4>2
      <3> QED BY <3>1, <3>4, <3>5, <3>6
    <2>2. CASE ~Matches(r.uri)
      <3>1. Wanted(n + 1) = Wanted(n)
        BY <1>5, <1>8, <1>12, <2>2
      <3>2. out' = out
        BY <1>1, <2>2
      <3> QED BY <1>13, <3>1, <3>2
    <2> QED BY <2>1, <2>2
  <1>15. OffersUpTo(n + 1)'
    <2>1. \A k : MeantBy(out[Cardinality(Wanted(k))])' = MeantBy(out'[Cardinality(Wanted(k))])
      BY <1>1, <1>10 DEF MeantBy
    <2> QED BY <1>1, <1>10, <1>14, <2>1 DEF OffersUpTo
  <1>16. n + 1 \in Nat /\ (n + 1) + Len(current') = Len(cache'.list)
         /\ \A i \in 1 .. Len(current') : current'[i] = cache'.list[(n + 1) + i]
    BY <1>1, <1>5, <1>9
  <1>17. \E m \in Nat : /\ m + Len(current') = Len(cache'.list)
                        /\ \A i \in 1 .. Len(current') : current'[i] = cache'.list[m + i]
                        /\ OffersUpTo(m)'
    BY <1>15, <1>16
  <1> QED BY <1>1, <1>17 DEF OfferInv

LEMMA OffersBegin ==
  ASSUME phase' = "matching", current' = cache'.list, cache'.list \in Seq(Resource), out' = <<>>
  PROVE  OfferInv'
  <1>1. Len(current') \in Nat /\ Len(cache'.list) = Len(current')
    BY LenProperties
  <1>2. Wanted(0)' = {}
    BY DEF Wanted
  <1>3. Len(out') = 0 /\ Cardinality(Wanted(0)') = 0
    BY <1>2, FS_EmptySet, EmptySeq
  <1>4. OffersUpTo(0)'
    BY <1>2, <1>3 DEF OffersUpTo
  <1>5. 0 + Len(current') = Len(cache'.list)
        /\ \A i \in 1 .. Len(current') : current'[i] = cache'.list[0 + i]
    BY <1>1
  <1>6. \E m \in Nat : /\ m + Len(current') = Len(cache'.list)
                       /\ \A i \in 1 .. Len(current') : current'[i] = cache'.list[m + i]
                       /\ OffersUpTo(m)'
    BY <1>4, <1>5
  <1> QED BY <1>6 DEF OfferInv

LEMMA OfferSteps ==
  ASSUME ListingTypeOK, JobInv, CacheInv, OfferInv, [ListingNext]_listingVars
  PROVE  OfferInv'
  <1> USE DEF conn
  <1>0. list \in Seq(Resource) /\ cache.list \in Seq(Resource)
    BY DEF ListingTypeOK
  <1>1. CASE phase' \notin {"matching", "done"}
    BY <1>1 DEF OfferInv
  <1>2. CASE Ask \/ Arrives \/ Readdir \/ Return \/ Move \/ Tick
    <2>1. phase' \notin {"matching", "done"}
      BY <1>2 DEF Ask, Begin, Arrives, Readdir, Return, Move, Tick
    <2> QED BY <1>1, <2>1
  <1>3. CASE Answered
    <2>0. phase = "fetching" /\ UNCHANGED <<job, target, stem>> /\ out = <<>>
      BY <1>3 DEF Answered, JobInv
    <2>1. CASE LsEmpty \/ TypeEnds
      <3>1. job' # "tab" /\ phase' = "done"
        BY <2>0, <2>1 DEF LsEmpty, TypeEnds
      <3> QED BY <3>1 DEF OfferInv
    <2>2. CASE Opened
      BY <1>1, <2>2 DEF Opened
    <2>3. CASE Cached
      <3>1. /\ phase' = "matching" /\ current' = list /\ out' = <<>> /\ cache'.list = list
        BY <2>0, <2>3 DEF Cached
      <3> QED BY <1>0, <3>1, OffersBegin
    <2> QED BY <1>3, <2>1, <2>2, <2>3 DEF Answered
  <1>4. CASE Fails
    <2>1. CASE job = "tab"
      <3>1. phase' = "matching" /\ current' = <<>> /\ out' = <<>> /\ cache'.list = <<>>
        BY <1>4, <2>1 DEF Fails, ClearedCache, EmptyCache
      <3> QED BY <3>1, EmptySeq, OffersBegin
    <2>2. CASE job # "tab"
      <3>1. job' # "tab" /\ phase' = "done"
        BY <1>4, <2>2 DEF Fails
      <3> QED BY <3>1 DEF OfferInv
    <2> QED BY <2>1, <2>2
  <1>5. CASE Closedir
    <2>1. job' # "tab" /\ phase' = "done"
      BY <1>5 DEF Closedir, JobInv
    <2> QED BY <2>1 DEF OfferInv
  <1>6. CASE Tab
    <2>1. \/ phase' = "fetching"
          \/ phase' = "matching" /\ current' = cache.list /\ UNCHANGED <<cache, out>>
      BY <1>6 DEF Tab, Begin
    <2>2. CASE phase' = "fetching"
      BY <1>1, <2>2
    <2>3. CASE phase' = "matching" /\ current' = cache.list /\ UNCHANGED <<cache, out>>
      <3>1. out' = <<>>
        BY <1>6, <2>3 DEF Tab, JobInv
      <3> QED BY <1>0, <2>3, <3>1, OffersBegin
    <2> QED BY <2>1, <2>2, <2>3
  <1>7. CASE Match
    BY <1>7, MatchOffers
  <1>8. CASE NoMore
    <2>1. /\ phase = "matching" /\ phase' = "done" /\ current = <<>>
          /\ UNCHANGED <<cwd, target, stem, cache, out>>
      BY <1>8 DEF NoMore
    <2>2. PICK n \in Nat : n + Len(current) = Len(cache.list) /\ OffersUpTo(n)
      BY <2>1 DEF OfferInv
    <2>3. n = Len(cache'.list)
      BY <2>1, <2>2, EmptySeq
    <2>4. OffersUpTo(n)'
      BY <2>1, <2>2, OffersSame
    <2> QED BY <2>1, <2>3, <2>4 DEF OfferInv, OffersUpTo
  <1>9. CASE UNCHANGED listingVars
    <2>1. UNCHANGED <<phase, cwd, job, target, stem, cache, current, out>>
      BY <1>9 DEF listingVars
    <2>2. \A n : OffersUpTo(n)' <=> OffersUpTo(n)
      BY <2>1, OffersSame
    <2>3. OffersUpTo(Len(cache.list))' <=> OffersUpTo(Len(cache.list))
      BY <2>1, <2>2 DEF OffersUpTo
    <2> QED BY <2>1, <2>2, <2>3 DEF OfferInv
  <1> QED BY <1>2, <1>3, <1>4, <1>5, <1>6, <1>7, <1>8, <1>9 DEF ListingNext

LEMMA OffersResolve == ListingTypeOK /\ OfferInv => OfferedResolve
  <1> SUFFICES ASSUME ListingTypeOK, OfferInv, phase = "done", job = "tab"
               PROVE  OfferedResolve
    BY DEF OfferedResolve
  <1> DEFINE n == Len(cache.list)
  <1>1. n \in Nat /\ DOMAIN cache.list = 1 .. n
    BY LenProperties DEF ListingTypeOK
  <1>2. /\ Len(out) = Cardinality(Wanted(n))
        /\ \A k \in Wanted(n) : MeantBy(out[Cardinality(Wanted(k))]) = cache.list[k].uri
    BY DEF OfferInv, OffersUpTo
  <1> HIDE DEF n
  <1>3. \A k \in Wanted(n) : {m \in Wanted(n) : m <= k} = Wanted(k)
    BY <1>1 DEF Wanted
  <1>4. Wanted(n) = {k \in DOMAIN cache.list :
                       \E x \in stem : cache.list[k].uri = Append(target, x)}
    BY <1>1 DEF Wanted
  <1>5. \A k \in Wanted(n) :
          MeantBy(out[Cardinality({m \in Wanted(n) : m <= k})]) = cache.list[k].uri
    BY <1>2, <1>3
  <1> DEFINE W == Wanted(n)
  <1>6. W = {k \in DOMAIN cache.list : \E x \in stem : cache.list[k].uri = Append(target, x)}
    BY <1>4
  <1> HIDE DEF W
  <1>7. /\ Len(out) = Cardinality(W)
        /\ \A k \in W : (IF out[Cardinality({m \in W : m <= k})].form = "relative"
                           THEN cwd \o out[Cardinality({m \in W : m <= k})].uri
                           ELSE out[Cardinality({m \in W : m <= k})].uri)
                         = cache.list[k].uri
    BY <1>2, <1>5 DEF W, MeantBy
  <1> QED BY <1>6, <1>7 DEF OfferedResolve

\* OfferedResolve: what is offered for completion, typed as it is, names a
\* member of the cached listing that begins as the text does, and each such
\* member is offered, in order (remote_completion).
THEOREM CompletionsResolve == ListingSpec => []OfferedResolve
  <1>1. ListingTypeOK /\ (JobInv /\ CacheInv /\ NearInv) /\ OfferInv
          /\ [ListingNext]_listingVars => OfferInv'
    BY OfferSteps
  <1>2. ListingSpec => []OfferInv
    BY <1>1, OfferInit, CacheIsKept, ListingTypeCorrect, PTL DEF ListingSpec
  <1> QED BY <1>2, OffersResolve, ListingTypeCorrect, PTL
================================================================================
