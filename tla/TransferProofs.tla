----------------------------- MODULE TransferProofs -----------------------------
(***************************************************************************)
(* Theorems about Transfers, for any files, resources, bounds and other    *)
(* programs, and about CommandLine, for any lines, commands and matches.   *)
(***************************************************************************)
EXTENDS Transfers, CommandLine, SequenceTheorems, TLAPS

Block == 0 .. MaxVersion

\* What the bounds are.
LEMMA Bounds ==
  /\ Size \in Nat \ {0} /\ MaxVersion \in Nat \ {0} /\ MaxLength \in Nat \ {0}
  /\ MaxTouches \in Nat /\ Size <= MaxLength
  BY TransferAssumption

\* What a content is.
LEMMA ContentIsSeq ==
  \A s : s \in Contents <=> s \in Seq(Block) /\ Len(s) <= MaxLength
  <1> SUFFICES ASSUME NEW s
               PROVE  s \in Contents <=> s \in Seq(Block) /\ Len(s) <= MaxLength
    OBVIOUS
  <1>0. MaxLength \in Nat
    BY Bounds
  <1>1. ASSUME s \in Contents PROVE s \in Seq(Block) /\ Len(s) <= MaxLength
    <2>1. PICK m \in 0 .. MaxLength : s \in [1 .. m -> Block]
      BY <1>1 DEF Contents, SeqOf, Block
    <2>2. m \in Nat /\ m <= MaxLength
      BY <1>0, <2>1
    <2>3. s \in Seq(Block)
      <3>1. s \in UNION {[1 .. k -> Block] : k \in Nat}
        BY <2>1, <2>2, Zenon
      <3> QED BY <3>1, SeqDef
    <2>4. Len(s) = m
      BY <2>1, <2>2, <2>3, LenProperties
    <2> QED BY <2>2, <2>3, <2>4
  <1>2. ASSUME s \in Seq(Block), Len(s) <= MaxLength PROVE s \in Contents
    <2>1. Len(s) \in 0 .. MaxLength /\ s \in [1 .. Len(s) -> Block]
      BY <1>0, <1>2, LenProperties
    <2>2. s \in UNION {[1 .. k -> Block] : k \in 0 .. MaxLength}
      BY <2>1, Zenon
    <2> QED BY <2>2 DEF Contents, SeqOf, Block
  <1> QED BY <1>1, <1>2

---------------------------------------------------------------------------
(* Sequences. *)

\* s is the first part of t.
PartOf(s, t) == Len(s) <= Len(t) /\ \A i \in 1 .. Len(s) : s[i] = t[i]

\* What is written after the end of a file keeps the file.
LEMMA AppendedKeeps ==
  ASSUME NEW S, NEW s \in Seq(S), NEW t \in Seq(S)
  PROVE  IsPrefix(s, s \o t)
  <1>1. /\ Len(s) \in Nat /\ Len(t) \in Nat /\ s \o t \in Seq(S)
        /\ Len(s \o t) = Len(s) + Len(t)
        /\ \A i \in 1 .. Len(s) : (s \o t)[i] = s[i]
    BY LenProperties, ConcatProperties
  <1>2. /\ \A i \in 1 .. Len(s) : s[i] \in S
        /\ \A i \in 1 .. Len(s) : (s \o t)[i] \in S
    BY <1>1, ElementOfSeq
  <1>3. /\ SubSeq(s, 1, Len(s)) \in Seq(S) /\ SubSeq(s \o t, 1, Len(s)) \in Seq(S)
        /\ Len(SubSeq(s, 1, Len(s))) = Len(s) /\ Len(SubSeq(s \o t, 1, Len(s))) = Len(s)
        /\ \A i \in 1 .. Len(s) : /\ SubSeq(s, 1, Len(s))[i] = s[i]
                                  /\ SubSeq(s \o t, 1, Len(s))[i] = s[i]
    BY <1>1, <1>2
  <1>4. SubSeq(s, 1, Len(s)) = SubSeq(s \o t, 1, Len(s))
    BY <1>3, SeqEqual
  <1> QED BY <1>1, <1>4 DEF IsPrefix

\* A part of the rest of a content, put after what is there of it, makes more
\* of that content, and the whole rest makes it whole.
LEMMA RestCompletes ==
  ASSUME NEW S, NEW r \in Seq(S), NEW s \in Seq(S), PartOf(s, r),
         NEW k \in 0 .. Len(SubSeq(r, Len(s) + 1, Len(r)))
  PROVE  LET tail == SubSeq(r, Len(s) + 1, Len(r))
             data == SubSeq(tail, 1, k)
         IN /\ tail \in Seq(S) /\ data \in Seq(S) /\ Len(data) = k
            /\ s \o data \in Seq(S)
            /\ PartOf(s \o data, r)
            /\ s \o tail = r
  <1> DEFINE tail == SubSeq(r, Len(s) + 1, Len(r))
             data == SubSeq(tail, 1, k)
  <1>1. Len(r) \in Nat /\ Len(s) \in Nat /\ Len(s) <= Len(r)
    BY LenProperties DEF PartOf
  <1>2. \A i \in 1 .. Len(r) : r[i] \in S
    BY ElementOfSeq
  <1>3. /\ tail \in Seq(S) /\ Len(tail) = Len(r) - Len(s)
        /\ \A i \in 1 .. Len(r) - Len(s) : tail[i] = r[Len(s) + i]
    BY <1>1, <1>2
  <1>4. k \in 0 .. Len(r) - Len(s)
    BY <1>3
  <1>5. \A i \in 1 .. k : tail[i] \in S
    BY <1>1, <1>3, <1>4, ElementOfSeq
  <1>6. data \in Seq(S) /\ Len(data) = k /\ \A i \in 1 .. k : data[i] = tail[i]
    BY <1>1, <1>4, <1>5
  <1>7. /\ s \o data \in Seq(S) /\ Len(s \o data) = Len(s) + k
        /\ \A i \in 1 .. Len(s) + k :
             (s \o data)[i] = IF i <= Len(s) THEN s[i] ELSE data[i - Len(s)]
    BY <1>6, ConcatProperties
  <1>8. \A i \in 1 .. Len(s) + k : (s \o data)[i] = r[i]
    <2> SUFFICES ASSUME NEW i \in 1 .. Len(s) + k PROVE (s \o data)[i] = r[i]
      OBVIOUS
    <2>1. CASE i <= Len(s)
      BY <1>1, <1>4, <1>7, <2>1 DEF PartOf
    <2>2. CASE i > Len(s)
      <3>1. i - Len(s) \in 1 .. k /\ i - Len(s) \in 1 .. Len(r) - Len(s)
        BY <1>1, <1>4, <2>2
      <3>2. data[i - Len(s)] = tail[i - Len(s)]
        BY <1>6, <3>1
      <3>3. tail[i - Len(s)] = r[Len(s) + (i - Len(s))]
        BY <1>3, <3>1
      <3>4. Len(s) + (i - Len(s)) = i /\ ~(i <= Len(s))
        BY <1>1, <1>4, <2>2
      <3>5. (s \o data)[i] = data[i - Len(s)]
        BY <1>7, <3>4
      <3> QED BY <3>2, <3>3, <3>4, <3>5
    <2> QED BY <1>1, <1>4, <2>1, <2>2
  <1>9. PartOf(s \o data, r)
    BY <1>1, <1>4, <1>7, <1>8 DEF PartOf
  <1>10. s \o tail = r
    <2>1. /\ s \o tail \in Seq(S) /\ Len(s \o tail) = Len(r)
          /\ \A i \in 1 .. Len(r) :
               (s \o tail)[i] = IF i <= Len(s) THEN s[i] ELSE tail[i - Len(s)]
      BY <1>1, <1>3, ConcatProperties
    <2>2. \A i \in 1 .. Len(r) : (s \o tail)[i] = r[i]
      <3> SUFFICES ASSUME NEW i \in 1 .. Len(r) PROVE (s \o tail)[i] = r[i]
        OBVIOUS
      <3>1. CASE i <= Len(s)
        BY <1>1, <2>1, <3>1 DEF PartOf
      <3>2. CASE ~(i <= Len(s))
        <4>1. i - Len(s) \in 1 .. Len(r) - Len(s) /\ Len(s) + (i - Len(s)) = i
          BY <1>1, <3>2
        <4>2. tail[i - Len(s)] = r[i]
          BY <1>3, <4>1
        <4> QED BY <2>1, <3>2, <4>2
      <3> QED BY <3>1, <3>2
    <2> QED BY <1>1, <2>1, <2>2, SeqEqual
  <1> QED BY <1>3, <1>6, <1>7, <1>9, <1>10

\* The first blocks of a content are a part of it.
LEMMA FirstBlocks ==
  ASSUME NEW S, NEW s \in Seq(S), NEW k \in 0 .. Len(s)
  PROVE  /\ SubSeq(s, 1, k) \in Seq(S) /\ Len(SubSeq(s, 1, k)) = k
         /\ \A t : PartOf(s, t) /\ Len(t) \in Nat => PartOf(SubSeq(s, 1, k), t)
         /\ PartOf(SubSeq(s, 1, k), s)
         /\ k = Len(s) => SubSeq(s, 1, k) = s
  <1>1. Len(s) \in Nat /\ \A i \in 1 .. k : s[i] \in S
    BY LenProperties, ElementOfSeq
  <1>2. /\ SubSeq(s, 1, k) \in Seq(S) /\ Len(SubSeq(s, 1, k)) = k
        /\ \A i \in 1 .. k : SubSeq(s, 1, k)[i] = s[i]
    BY <1>1
  <1>3. k = Len(s) => SubSeq(s, 1, k) = s
    BY <1>2, SeqEqual
  <1> QED BY <1>1, <1>2, <1>3 DEF PartOf

---------------------------------------------------------------------------
(* The files. *)

\* A file of a known content is a part of it, and is its whole once a download
\* has arrived.  Until then it is as long as when it was opened, unless another
\* program has written to it: a file that was removed is no longer written to.
FileInv ==
  /\ pc = "open" /\ flags = "trunc" => typed
  /\ pc \in {"receive", "close"} =>
       IF linked THEN Regular(name) ELSE origin[name] = TOUCHED
  /\ pc \in {"open", "receive"} /\ flags = "append" /\ origin[name] # TOUCHED =>
       start = Len(local[name])
  /\ pc = "receive" /\ flags # "append" /\ origin[name] # TOUCHED => local[name] = <<>>
  /\ \A n \in Names : origin[n] \in Contents =>
       local[n] \in Contents /\ PartOf(local[n], origin[n])
  /\ pc = "close" /\ got /\ origin[name] \in Contents => local[name] = origin[name]
  /\ pc # "prompt" => said # "downloaded"
  /\ Complete

\* The names are none of the contents.
LEMMA MarksAreNone ==
  /\ ABSENT \notin Contents /\ DIR \notin Contents
  /\ TOUCHED \notin Contents /\ MIXED \notin Contents
  /\ ABSENT # DIR /\ TOUCHED # MIXED
  BY NamesAssumption

\* The empty file, a block and a version of the resource are contents.
LEMMA SmallContents ==
  /\ <<>> \in Contents /\ <<0>> \in Contents /\ Len(<<>>) = 0
  /\ \A v \in 1 .. MaxVersion : Written(v) \in Contents
  <1>1. 0 \in Block /\ \A v \in 1 .. MaxVersion : v \in Block
    BY Bounds DEF Block
  <1>2. <<>> \in Seq(Block) /\ Len(<<>>) = 0 /\ <<0>> \in Seq(Block) /\ Len(<<0>>) = 1
    BY <1>1
  <1>3. <<>> \in Contents /\ <<0>> \in Contents
    <2>1. 0 <= MaxLength /\ 1 <= MaxLength
      BY Bounds
    <2>2. <<>> \in Contents
      BY <1>2, <2>1, ContentIsSeq
    <2>3. <<0>> \in Contents
      BY <1>2, <2>1, ContentIsSeq
    <2> QED BY <2>2, <2>3
  <1>4. ASSUME NEW v \in 1 .. MaxVersion PROVE Written(v) \in Contents
    <2>1. Written(v) \in [1 .. Size -> Block]
      BY <1>1 DEF Written
    <2>2. Size \in Nat /\ Written(v) \in UNION {[1 .. m -> Block] : m \in Nat}
      BY <2>1, Bounds
    <2>3. Written(v) \in Seq(Block)
      BY <2>2, SeqDef
    <2>4. Len(Written(v)) = Size
      BY <2>1, <2>2, <2>3, LenProperties
    <2> QED BY <2>3, <2>4, ContentIsSeq, Bounds
  <1> QED BY <1>2, <1>3, <1>4

\* What a download adds to its file.
LEMMA StoreAdds ==
  ASSUME TypeOK, FileInv, pc = "receive", linked,
         NEW k \in 0 .. Len(Body), Store(SubSeq(Body, 1, k))
  PROVE  \E new \in Contents, whence \in Contents \cup {TOUCHED, MIXED} :
           /\ local' = [local EXCEPT ![name] = new]
           /\ origin' = [origin EXCEPT ![name] = whence]
           /\ flags = "append" => IsPrefix(local[name], new)
           /\ whence \in Contents => PartOf(new, whence)
           /\ /\ k = Len(Body) /\ (flags = "append" => Body # <<>>)
              /\ whence \in Contents
              => new = whence
  <1> DEFINE data == SubSeq(Body, 1, k)
             old == local[name]
             new == Overwritten(old, data)
             whence == Origin(data)
  <1>0. name \in Names /\ old \in Contents
    BY DEF TypeOK, FileInv, Regular
  <1>1. /\ local' = [local EXCEPT ![name] = new]
        /\ origin' = [origin EXCEPT ![name] = whence]
        /\ Len(new) <= MaxLength
    BY <1>0 DEF Store, TypeOK
  <1>2. /\ old \in Seq(Block) /\ res \in Seq(Block) /\ res \in Contents
        /\ Len(old) \in Nat /\ Len(res) \in Nat /\ start \in Nat
    BY <1>0, ContentIsSeq, Bounds, LenProperties DEF TypeOK
  <1>3. Body \in Seq(Block)
    <2>1. \A i \in start + 1 .. Len(res) : res[i] \in Block
      BY <1>2, ElementOfSeq
    <2> QED BY <1>2, <2>1 DEF Body
  <1>4. /\ data \in Seq(Block) /\ Len(data) = k /\ k \in Nat
        /\ k = Len(Body) => data = Body
    BY <1>3, FirstBlocks, LenProperties
  <1>5. whence \in Contents \cup {TOUCHED, MIXED}
    BY <1>0, <1>2 DEF Origin, TypeOK
  <1>6. CASE flags = "append"
    <2>1. new = old \o data
      BY <1>6 DEF Overwritten
    <2>2. new \in Seq(Block) /\ IsPrefix(old, new)
      BY <1>2, <1>4, <2>1, ConcatProperties, AppendedKeeps
    <2>3. new \in Contents
      BY <1>1, <2>2, ContentIsSeq
    <2>4. ASSUME whence \in Contents
          PROVE  /\ PartOf(new, whence)
                 /\ k = Len(Body) /\ Body # <<>> => new = whence
      <3>1. origin[name] # TOUCHED
        BY <2>4, MarksAreNone DEF Origin
      <3>2. start = Len(old)
        BY <1>6, <3>1 DEF FileInv
      <3>3. \/ whence = res /\ (old = <<>> \/ origin[name] = res)
            \/ whence = origin[name] /\ data = <<>>
        BY <1>6, <2>4, <3>1, MarksAreNone DEF Origin
      <3>4. CASE whence = res /\ (old = <<>> \/ origin[name] = res)
        <4>1. PartOf(old, res)
          <5>1. CASE old = <<>>
            BY <1>2, <5>1, SmallContents DEF PartOf
          <5>2. CASE origin[name] = res
            BY <1>0, <1>2, <5>2 DEF FileInv
          <5> QED BY <3>4, <5>1, <5>2
        <4>2. Body = SubSeq(res, Len(old) + 1, Len(res))
          BY <1>6, <3>2 DEF Body
        <4>3. PartOf(old \o data, res) /\ old \o Body = res
          BY <1>2, <4>1, <4>2, RestCompletes
        <4> QED BY <1>4, <2>1, <3>4, <4>3
      <3>5. CASE whence = origin[name] /\ data = <<>>
        <4>1. new = old
          BY <1>2, <2>1, <3>5, ConcatEmptySeq
        <4>2. PartOf(old, whence)
          BY <1>0, <2>4, <3>5 DEF FileInv
        <4>3. k = Len(Body) => Body = <<>>
          BY <1>4, <3>5
        <4> QED BY <4>1, <4>2, <4>3
      <3> QED BY <3>3, <3>4, <3>5
    <2> HIDE DEF data, old, new, whence
    <2>5. /\ flags = "append" => IsPrefix(local[name], new)
          /\ whence \in Contents => PartOf(new, whence)
          /\ /\ k = Len(Body) /\ (flags = "append" => Body # <<>>)
             /\ whence \in Contents
             => new = whence
      BY <1>6, <2>2, <2>4 DEF old
    <2> QED BY <1>1, <1>5, <2>3, <2>5, Zenon
  <1>7. CASE flags # "append"
    <2>1. new = data \o SubSeq(old, Len(data) + 1, Len(old)) /\ Body = res
      BY <1>7 DEF Overwritten, Body
    <2>2. SubSeq(old, Len(data) + 1, Len(old)) \in Seq(Block)
      <3>1. \A i \in Len(data) + 1 .. Len(old) : old[i] \in Block
        BY <1>2, <1>4, ElementOfSeq
      <3> QED BY <1>2, <1>4, <3>1
    <2>3. new \in Contents
      BY <1>1, <1>4, <2>1, <2>2, ConcatProperties, ContentIsSeq
    <2>4. ASSUME whence \in Contents
          PROVE  PartOf(new, whence) /\ (k = Len(Body) => new = whence)
      <3>1. origin[name] # TOUCHED /\ whence = res
        BY <1>7, <2>4, MarksAreNone DEF Origin
      <3>2. old = <<>>
        BY <1>7, <3>1 DEF FileInv
      <3>3. SubSeq(old, Len(data) + 1, Len(old)) = <<>>
        BY <1>4, <3>2, SmallContents, SubSeqEmpty
      <3>4. new = data
        BY <1>4, <2>1, <3>3, ConcatEmptySeq
      <3>5. PartOf(data, res)
        BY <1>2, <2>1, FirstBlocks
      <3> QED BY <1>4, <2>1, <3>1, <3>4, <3>5
    <2> HIDE DEF data, old, new, whence
    <2>5. /\ flags = "append" => IsPrefix(local[name], new)
          /\ whence \in Contents => PartOf(new, whence)
          /\ /\ k = Len(Body) /\ (flags = "append" => Body # <<>>)
             /\ whence \in Contents
             => new = whence
      BY <1>7, <2>4
    <2> QED BY <1>1, <1>5, <2>3, <2>5, Zenon
  <1> QED BY <1>6, <1>7

\* What a download adds when its file is gone.
LEMMA StoreGone ==
  ASSUME NEW data, ~linked, Store(data)
  PROVE  UNCHANGED <<local, origin>>
  BY DEF Store

\* What is left of a file whose end could not be written.
LEMMA CutKeeps ==
  ASSUME NEW s \in Contents, NEW k \in 0 .. Len(s)
  PROVE  /\ SubSeq(s, 1, k) \in Contents
         /\ \A t \in Contents : PartOf(s, t) => PartOf(SubSeq(s, 1, k), t)
  <1>1. s \in Seq(Block) /\ Len(s) <= MaxLength /\ Len(s) \in Nat
    BY ContentIsSeq, LenProperties
  <1>2. /\ SubSeq(s, 1, k) \in Seq(Block) /\ Len(SubSeq(s, 1, k)) = k
        /\ \A t : PartOf(s, t) /\ Len(t) \in Nat => PartOf(SubSeq(s, 1, k), t)
    BY <1>1, FirstBlocks
  <1>3. \A t \in Contents : Len(t) \in Nat
    BY ContentIsSeq, LenProperties
  <1>4. k <= MaxLength
    BY <1>1, Bounds
  <1> QED BY <1>1, <1>2, <1>3, <1>4, ContentIsSeq

\* Types and files at the start of a run.
LEMMA FilesInit == Init => TypeOK /\ FileInv
  <1> SUFFICES ASSUME Init PROVE TypeOK /\ FileInv
    OBVIOUS
  <1>1. Written(1) \in Contents /\ <<0>> \in Contents /\ TOUCHED \notin Contents
    BY SmallContents, MarksAreNone, Bounds
  <1>2. /\ 1 \in 1 .. MaxVersion /\ 0 \in 0 .. MaxLength /\ 0 \in 0 .. MaxTouches
    BY Bounds
  <1>3. local \in [Names -> Contents \cup {ABSENT, DIR}]
    BY <1>1 DEF Init
  <1> QED BY <1>1, <1>2, <1>3 DEF Init, TypeOK, FileInv, Complete

\* What the commands leave alone before a file is open.
LEMMA AskingKeeps ==
  ASSUME TypeOK, FileInv,
         \/ \E n \in Names : GetCommand(n) \/ ResumeCommand(n) \/ TypeName(n)
         \/ Cancel
  PROVE  TypeOK' /\ FileInv'
  <1>1. ASSUME NEW n \in Names, GetCommand(n)
        PROVE  TypeOK' /\ FileInv'
    BY <1>1 DEF GetCommand, TypeOK, FileInv, Complete, Regular
  <1>2. ASSUME NEW n \in Names, ResumeCommand(n)
        PROVE  TypeOK' /\ FileInv'
    <2>1. Regular(n) => Len(local[n]) \in 0 .. MaxLength
      BY ContentIsSeq, LenProperties, Bounds DEF Regular
    <2>2. TypeOK'
      BY <1>2, <2>1 DEF ResumeCommand, TypeOK
    <2>3. CASE Regular(n)
      <3>1. /\ name' = n /\ pc' = "open" /\ flags' = "append" /\ start' = Len(local[n])
            /\ said' = "nothing" /\ UNCHANGED <<local, origin>>
        BY <1>2, <2>3 DEF ResumeCommand
      <3> QED BY <2>2, <3>1 DEF FileInv, Complete
    <2>4. CASE ~Regular(n)
      <3>1. /\ pc = "prompt" /\ pc' = "prompt" /\ said' = "nothing"
            /\ UNCHANGED <<local, origin>>
        BY <1>2, <2>4 DEF ResumeCommand
      <3> QED BY <2>2, <3>1 DEF FileInv, Complete
    <2> QED BY <2>2, <2>3, <2>4
  <1>3. ASSUME NEW n \in Names, TypeName(n)
        PROVE  TypeOK' /\ FileInv'
    BY <1>3 DEF TypeName, TypeOK, FileInv, Complete, Regular
  <1>4. CASE Cancel
    <2>1. 0 \in 0 .. MaxLength
      BY Bounds
    <2> QED BY <1>4, <2>1 DEF Cancel, Closed, TypeOK, FileInv, Complete, Regular
  <1> QED BY <1>1, <1>2, <1>3, <1>4

\* Opening a file.
LEMMA OpenKeeps ==
  ASSUME TypeOK, FileInv, Open
  PROVE  TypeOK' /\ FileInv'
  <1>0. 0 \in 0 .. MaxLength
    BY Bounds
  <1>1. CASE pc' = "prompt" /\ said' = "failed" /\ Closed /\ UNCHANGED <<local, origin>>
    BY <1>0, <1>1 DEF Open, Closed, TypeOK, FileInv, Complete, Regular
  <1>2. CASE /\ Openable /\ pc' = "receive" /\ linked' = TRUE /\ flags = "append"
             /\ UNCHANGED <<local, origin, flags, start, got, typed, said>>
    BY <1>2 DEF Open, Openable, TypeOK, FileInv, Complete, Regular
  <1>3. CASE /\ Openable /\ pc' = "receive" /\ linked' = TRUE /\ flags # "append"
             /\ local' = [local EXCEPT ![name] = <<>>]
             /\ origin' = [origin EXCEPT ![name] = res]
             /\ UNCHANGED <<flags, start, got, typed, said>>
    <2>1. name \in Names /\ res \in Contents /\ <<>> \in Contents
      BY SmallContents DEF TypeOK
    <2>2. PartOf(<<>>, res)
      BY <2>1, SmallContents, ContentIsSeq, LenProperties DEF PartOf
    <2>3. /\ local'[name] = <<>> /\ origin'[name] = res
          /\ \A n \in Names \ {name} : local'[n] = local[n] /\ origin'[n] = origin[n]
      BY <1>3, <2>1 DEF TypeOK
    <2>4. TypeOK'
      BY <1>3, <2>1 DEF Open, TypeOK
    <2> QED BY <1>3, <2>1, <2>2, <2>3, <2>4 DEF Open, FileInv, Complete, Regular
  <1> QED BY <1>1, <1>2, <1>3 DEF Open

\* Receiving, to the end or until the program is interrupted.
LEMMA ReceiveKeeps ==
  ASSUME TypeOK, FileInv, pc = "receive", NEW k \in 0 .. Len(Body),
         Store(SubSeq(Body, 1, k)), UNCHANGED <<res, version, name, touches>>
  PROVE  /\ local' \in [Names -> Contents \cup {ABSENT, DIR}]
         /\ origin' \in [Names -> Contents \cup {TOUCHED, MIXED}]
         /\ IF linked THEN local'[name] \in Contents ELSE origin'[name] = TOUCHED
         /\ \A n \in Names : origin'[n] \in Contents =>
              local'[n] \in Contents /\ PartOf(local'[n], origin'[n])
         /\ /\ k = Len(Body) /\ (flags = "append" => Body # <<>>)
            /\ origin'[name] \in Contents
            => local'[name] = origin'[name]
  <1>0. name \in Names
    BY DEF TypeOK
  <1>1. CASE linked
    <2>1. PICK new \in Contents, whence \in Contents \cup {TOUCHED, MIXED} :
            /\ local' = [local EXCEPT ![name] = new]
            /\ origin' = [origin EXCEPT ![name] = whence]
            /\ whence \in Contents => PartOf(new, whence)
            /\ /\ k = Len(Body) /\ (flags = "append" => Body # <<>>)
               /\ whence \in Contents
               => new = whence
      BY <1>1, StoreAdds
    <2>2. /\ local'[name] = new /\ origin'[name] = whence
          /\ \A n \in Names \ {name} : local'[n] = local[n] /\ origin'[n] = origin[n]
      BY <1>0, <2>1 DEF TypeOK
    <2>3. /\ local' \in [Names -> Contents \cup {ABSENT, DIR}]
          /\ origin' \in [Names -> Contents \cup {TOUCHED, MIXED}]
      BY <2>1 DEF TypeOK
    <2>4. \A n \in Names : origin'[n] \in Contents =>
            local'[n] \in Contents /\ PartOf(local'[n], origin'[n])
      BY <2>1, <2>2 DEF FileInv
    <2> QED BY <1>1, <2>1, <2>2, <2>3, <2>4
  <1>2. CASE ~linked
    <2>1. UNCHANGED <<local, origin>> /\ origin[name] = TOUCHED
      BY <1>2, StoreGone DEF FileInv
    <2> QED BY <1>2, <2>1, MarksAreNone DEF TypeOK, FileInv
  <1> QED BY <1>1, <1>2

\* The whole of what was asked for, taken for a part of it.
LEMMA WholeBody ==
  ASSUME TypeOK
  PROVE  Len(Body) \in 0 .. Len(Body) /\ SubSeq(Body, 1, Len(Body)) = Body
  <1>1. res \in Seq(Block) /\ Len(res) \in Nat /\ start \in Nat
    BY ContentIsSeq, LenProperties, Bounds DEF TypeOK
  <1>2. \A i \in start + 1 .. Len(res) : res[i] \in Block
    BY <1>1, ElementOfSeq
  <1>3. Body \in Seq(Block)
    BY <1>1, <1>2 DEF Body
  <1> QED BY <1>3, LenProperties, FirstBlocks

\* An answer, and the end of the run.
LEMMA AnswerKeeps ==
  ASSUME TypeOK, FileInv, Receive \/ Interrupted
  PROVE  TypeOK' /\ FileInv'
  <1>0. 0 \in 0 .. MaxLength
    BY Bounds
  <1>1. CASE Receive
    <2>1. /\ pc = "receive" /\ pc' = "close" /\ said # "downloaded"
          /\ UNCHANGED <<res, version, name, flags, start, linked, said, typed, touches>>
      BY <1>1 DEF Receive, FileInv
    <2>2. PICK k \in 0 .. Len(Body) :
            /\ Store(SubSeq(Body, 1, k)) /\ got' \in BOOLEAN
            /\ got' => k = Len(Body) /\ (flags = "append" => Body # <<>>)
      BY <1>1, WholeBody DEF Receive
    <2>3. /\ local' \in [Names -> Contents \cup {ABSENT, DIR}]
          /\ origin' \in [Names -> Contents \cup {TOUCHED, MIXED}]
          /\ IF linked THEN local'[name] \in Contents ELSE origin'[name] = TOUCHED
          /\ \A n \in Names : origin'[n] \in Contents =>
               local'[n] \in Contents /\ PartOf(local'[n], origin'[n])
          /\ got' /\ origin'[name] \in Contents => local'[name] = origin'[name]
      BY <2>1, <2>2, ReceiveKeeps
    <2> QED BY <2>1, <2>2, <2>3 DEF TypeOK, FileInv, Complete, Regular
  <1>2. CASE Interrupted /\ pc = "receive"
    <2>1. /\ pc' = "prompt" /\ said' = "nothing" /\ Closed
          /\ UNCHANGED <<res, version, name, touches>>
      BY <1>2 DEF Interrupted
    <2>2. PICK k \in 0 .. Len(Body) : Store(SubSeq(Body, 1, k))
      BY <1>2 DEF Interrupted
    <2>3. /\ local' \in [Names -> Contents \cup {ABSENT, DIR}]
          /\ origin' \in [Names -> Contents \cup {TOUCHED, MIXED}]
          /\ \A n \in Names : origin'[n] \in Contents =>
               local'[n] \in Contents /\ PartOf(local'[n], origin'[n])
      BY <1>2, <2>1, <2>2, ReceiveKeeps
    <2> QED BY <1>0, <2>1, <2>3 DEF Closed, TypeOK, FileInv, Complete
  <1>3. CASE Interrupted /\ pc # "receive"
    BY <1>0, <1>3 DEF Interrupted, Closed, TypeOK, FileInv, Complete
  <1> QED BY <1>1, <1>2, <1>3

\* Closing a file.
LEMMA CloseKeeps ==
  ASSUME TypeOK, FileInv, Close
  PROVE  TypeOK' /\ FileInv'
  <1>0. 0 \in 0 .. MaxLength /\ name \in Names
    BY Bounds DEF TypeOK
  <1>1. /\ pc = "close" /\ pc' = "prompt" /\ Closed
        /\ UNCHANGED <<res, version, name, origin, touches>>
    BY DEF Close
  <1>2. CASE UNCHANGED local /\ said' \in {IF got THEN "downloaded" ELSE "failed", "failed"}
    <2>1. said' \in {"nothing", "downloaded", "uploaded", "failed"}
          /\ (said' = "downloaded" => got)
      BY <1>2
    <2> QED BY <1>0, <1>1, <1>2, <2>1 DEF Closed, TypeOK, FileInv, Complete
  <1>3. ASSUME said' = "failed", linked, NEW k \in 0 .. Len(local[name]),
               local' = [local EXCEPT ![name] = SubSeq(@, 1, k)]
        PROVE  TypeOK' /\ FileInv'
    <2>1. local[name] \in Contents
      BY <1>1, <1>3 DEF FileInv, Regular
    <2>2. /\ SubSeq(local[name], 1, k) \in Contents
          /\ \A t \in Contents : PartOf(local[name], t)
                                 => PartOf(SubSeq(local[name], 1, k), t)
      BY <2>1, <1>3, CutKeeps
    <2>3. /\ local'[name] = SubSeq(local[name], 1, k)
          /\ \A n \in Names \ {name} : local'[n] = local[n]
          /\ local' \in [Names -> Contents \cup {ABSENT, DIR}]
      BY <1>0, <1>3, <2>2 DEF TypeOK
    <2>4. \A n \in Names : origin[n] \in Contents =>
            local'[n] \in Contents /\ PartOf(local'[n], origin[n])
      BY <2>2, <2>3 DEF FileInv
    <2> QED BY <1>0, <1>1, <1>3, <2>3, <2>4 DEF Closed, TypeOK, FileInv, Complete
  <1> QED BY <1>2, <1>3 DEF Close

\* What goes on around the transfers.
LEMMA OthersKeep ==
  ASSUME TypeOK, FileInv,
         \/ \E n \in Names : PutCommand(n) \/ OtherProgram(n)
         \/ OtherClient \/ UNCHANGED vars
  PROVE  TypeOK' /\ FileInv'
  <1>1. ASSUME NEW n \in Names, PutCommand(n)
        PROVE  TypeOK' /\ FileInv'
    <2>1. /\ pc = "prompt" /\ pc' = "prompt" /\ said' \in {"uploaded", "failed"}
          /\ name' = n /\ res' \in Contents
          /\ UNCHANGED <<local, version, flags, start, linked, got, typed, origin, touches>>
      BY <1>1 DEF PutCommand, open, Regular, TypeOK
    <2> QED BY <2>1 DEF TypeOK, FileInv, Complete
  <1>2. ASSUME NEW n \in Names, OtherProgram(n)
        PROVE  TypeOK' /\ FileInv'
    <2>1. PICK new \in Contents \cup {ABSENT} :
            /\ local' = [local EXCEPT ![n] = new]
            /\ \/ linked' = linked /\ new \in Contents
               \/ linked' = (linked /\ n # name)
      <3>1. local[n] \in Contents => Append(local[n], 0) \in Seq(Block)
                                     /\ Len(Append(local[n], 0)) = Len(local[n]) + 1
        BY ContentIsSeq, AppendProperties, Bounds DEF Block
      <3>2. local[n] \in Contents /\ Len(local[n]) < Size => Append(local[n], 0) \in Contents
        <4>1. local[n] \in Contents => Len(local[n]) \in Nat
          BY ContentIsSeq, LenProperties
        <4>2. local[n] \in Contents /\ Len(local[n]) < Size => Len(local[n]) + 1 <= MaxLength
          BY <4>1, Bounds
        <4> QED BY <3>1, <4>2, ContentIsSeq
      <3> QED BY <1>2, <3>2, SmallContents DEF OtherProgram, Regular
    <2>2. /\ origin' = [origin EXCEPT ![n] = TOUCHED] /\ touches' = touches + 1
          /\ touches < MaxTouches
          /\ UNCHANGED <<pc, res, version, name, flags, start, got, said, typed>>
      BY <1>2 DEF OtherProgram
    <2>3. /\ local'[n] = new /\ origin'[n] = TOUCHED
          /\ \A m \in Names \ {n} : local'[m] = local[m] /\ origin'[m] = origin[m]
          /\ local' \in [Names -> Contents \cup {ABSENT, DIR}]
          /\ origin' \in [Names -> Contents \cup {TOUCHED, MIXED}]
      BY <2>1, <2>2 DEF TypeOK
    <2>4. touches' \in 0 .. MaxTouches /\ linked' \in BOOLEAN
      <3>1. touches \in 0 .. MaxTouches /\ linked \in BOOLEAN
        BY DEF TypeOK
      <3>2. touches' \in 0 .. MaxTouches
        BY <2>2, <3>1, Bounds
      <3> QED BY <2>1, <3>1, <3>2
    <2>5. TypeOK'
      BY <2>2, <2>3, <2>4 DEF TypeOK
    <2>6. \A m \in Names : origin'[m] \in Contents =>
            local'[m] \in Contents /\ PartOf(local'[m], origin'[m])
      BY <2>3, MarksAreNone DEF FileInv
    <2>7. CASE n = name
      <3>1. /\ local'[name] \in Contents \/ (pc \in {"receive", "close"} => ~linked')
            /\ origin'[name] = TOUCHED /\ name' = name
        <4>1. local'[name] = new /\ origin'[name] = TOUCHED /\ name' = name
          BY <2>2, <2>3, <2>7
        <4> QED BY <2>1, <2>7, <4>1
      <3>2. FileInv'
        BY <2>2, <2>6, <3>1, MarksAreNone DEF FileInv, Complete, Regular
      <3> QED BY <2>5, <3>2
    <2>8. CASE n # name
      <3>1. local'[name] = local[name] /\ origin'[name] = origin[name] /\ linked' = linked
        BY <2>1, <2>3, <2>8 DEF TypeOK
      <3>2. FileInv'
        BY <2>2, <2>6, <3>1 DEF FileInv, Complete, Regular
      <3> QED BY <2>5, <3>2
    <2> QED BY <2>5, <2>7, <2>8
  <1>3. CASE OtherClient
    <2>1. version + 1 \in 1 .. MaxVersion
      BY <1>3, Bounds DEF OtherClient, TypeOK
    <2>2. Written(version + 1) \in Contents
      BY <2>1, SmallContents
    <2> QED BY <1>3, <2>1, <2>2 DEF OtherClient, open, TypeOK, FileInv, Complete, Regular
  <1>4. CASE UNCHANGED vars
    BY <1>4 DEF vars, open, TypeOK, FileInv, Complete, Regular
  <1> QED BY <1>1, <1>2, <1>3, <1>4

\* Types and files are kept throughout.
LEMMA FilesInvariant == Spec => [](TypeOK /\ FileInv)
  <1>1. TypeOK /\ FileInv /\ [Next]_vars => TypeOK' /\ FileInv'
    <2> SUFFICES ASSUME TypeOK, FileInv, [Next]_vars PROVE TypeOK' /\ FileInv'
      OBVIOUS
    <2> QED BY AskingKeeps, OpenKeeps, AnswerKeeps, CloseKeeps, OthersKeep
            DEF Next, Program
  <1> QED BY <1>1, FilesInit, PTL DEF Spec

---------------------------------------------------------------------------
(* What becomes of the user's files. *)

\* What is called a success is the whole of one content, in how many pieces
\* ever it came and whatever broke off (do_get, execute_resumeget).
THEOREM DownloadIsWhole == Spec => []Downloaded
  <1>1. TypeOK /\ FileInv => Downloaded
    BY DEF FileInv, Downloaded
  <1> QED BY <1>1, FilesInvariant, PTL

\* No file is emptied but one whose name the user typed, also when another
\* program creates it after get has looked, and a resumed one keeps what it
\* had (do_get, execute_resumeget).
THEOREM FilesAreKept == Spec => KeepsFiles
  <1> DEFINE Kept ==
        /\ pc = "open" /\ pc' = "receive" =>
             \A n \in Names : \/ local'[n] = local[n]
                              \/ n = name /\ (typed \/ local[n] = ABSENT)
        /\ pc = "receive" /\ pc' = "close" =>
             \A n \in Names : \/ local'[n] = local[n]
                              \/ n = name /\ flags # "append"
                              \/ n = name /\ IsPrefix(local[n], local'[n])
  <1>1. ASSUME TypeOK, FileInv, [Next]_vars PROVE [Kept]_vars
    <2>1. CASE pc = "open" /\ pc' = "receive"
      <3>1. Open
        BY <1>1, <2>1
           DEF Next, Program, GetCommand, ResumeCommand, TypeName, PutCommand, Cancel,
               Receive, Close, Interrupted, OtherClient, OtherProgram, vars
      <3>2. \/ UNCHANGED local
            \/ /\ local' = [local EXCEPT ![name] = <<>>]
               /\ flags = "trunc" \/ (flags = "excl" /\ local[name] = ABSENT)
        BY <1>1, <2>1, <3>1 DEF Open, Openable, TypeOK
      <3>3. flags = "trunc" => typed
        BY <1>1, <2>1 DEF FileInv
      <3>4. \A n \in Names : \/ local'[n] = local[n]
                             \/ n = name /\ (typed \/ local[n] = ABSENT)
        BY <1>1, <3>2, <3>3 DEF TypeOK
      <3> QED BY <2>1, <3>4
    <2>2. CASE pc = "receive" /\ pc' = "close"
      <3>1. Receive
        BY <1>1, <2>2
           DEF Next, Program, GetCommand, ResumeCommand, TypeName, PutCommand, Cancel,
               Open, Close, Interrupted, OtherClient, OtherProgram, vars
      <3>2. PICK k \in 0 .. Len(Body) : Store(SubSeq(Body, 1, k))
        BY <1>1, <3>1, WholeBody DEF Receive
      <3>3. CASE linked
        <4>1. PICK new \in Contents :
                /\ local' = [local EXCEPT ![name] = new]
                /\ flags = "append" => IsPrefix(local[name], new)
          BY <1>1, <2>2, <3>2, <3>3, StoreAdds
        <4>2. \A n \in Names : local'[n] = IF n = name THEN new ELSE local[n]
          BY <1>1, <4>1 DEF TypeOK
        <4> QED BY <2>2, <4>1, <4>2
      <3>4. CASE ~linked
        BY <2>2, <3>2, <3>4, StoreGone
      <3> QED BY <3>3, <3>4
    <2>3. CASE ~(pc = "open" /\ pc' = "receive") /\ ~(pc = "receive" /\ pc' = "close")
      BY <2>3
    <2> QED BY <2>1, <2>2, <2>3
  <1> QED BY <1>1, FilesInvariant, PTL DEF Spec, KeepsFiles

---------------------------------------------------------------------------
(* The command line. *)

\* AbortedByUser: the expansion of a pattern is given up only when the user
\* interrupted that expansion, since parse_command clears interrupt_state before
\* each (cmdline.c 286).
THEOREM ExpansionsEndByUser == LineSpec => []AbortedByUser
  <1> DEFINE Inv == /\ aborted => pressed
                    /\ phase = "glob" => (interrupted => pressed) /\ ~aborted
  <1>1. LineInit => Inv
    BY DEF LineInit
  <1>2. Inv /\ [LineNext]_lineVars => Inv'
    <2> SUFFICES ASSUME Inv, [LineNext]_lineVars PROVE Inv'
      OBVIOUS
    <2>1. CASE Chew
      BY <2>1 DEF Chew, expansion
    <2>2. CASE NoToken
      BY <2>2 DEF NoToken, expansion
    <2>3. CASE Token
      BY <2>3 DEF Token, expansion
    <2>4. CASE Interrupt
      BY <2>4 DEF Interrupt
    <2>5. CASE Execute
      BY <2>5 DEF Execute, expansion
    <2>6. ASSUME NEW names, NEW fails, GlobEnds(names, fails) PROVE Inv'
      BY <2>6 DEF GlobEnds
    <2>7. CASE UNCHANGED lineVars
      BY <2>7 DEF lineVars, expansion
    <2> QED BY <2>1, <2>2, <2>3, <2>4, <2>5, <2>6, <2>7 DEF LineNext
  <1>3. Inv => AbortedByUser
    BY DEF AbortedByUser
  <1> QED BY <1>1, <1>2, <1>3, PTL DEF LineSpec

\* The text is read from the left.
ReadInv ==
  /\ line \in Lines /\ rest \in Seq(STRING) /\ Len(rest) <= Len(line.text)
  /\ rest = SubSeq(line.text, at + 1, Len(line.text))

\* What the fields may be.
ControlTypes ==
  /\ phase \in {"chew", "glob", "execute", "prompt", "quit"}
  /\ state \in {0, 1, 2, 3, 4, 8, 9} /\ quote \in Quotes
  /\ {connected, interrupted, aborted, pressed} \subseteq BOOLEAN
  /\ ended \in {"not", "line", "empty", "overlong", "comment"}
  /\ called.cmd \in DOMAIN Commands \cup {<<>>}

\* What the sequences may be; each token took a character.
TokenTypes ==
  /\ buf \in Seq(STRING) /\ from \in Seq(Nat)
  /\ tokens \in Seq(Seq(STRING) \ {<<>>})
  /\ raw \in Seq([token : Seq(STRING), from : Seq(Nat)])
  /\ Len(raw) <= at
  /\ phase = "chew" /\ buf # <<>> => Len(raw) < at
  /\ phase = "glob" => buf # <<>>

\* What is in buf are the characters at the places in from, in their order, all
\* of them read; between tokens there are none.
BufInv ==
  /\ Len(buf) <= BufSize
  /\ phase # "chew" => Len(buf) < BufSize \/ ended = "overlong"
  /\ \A k \in 1 .. Len(from) : from[k] \in 1 .. at
  /\ \A k \in 1 .. Len(from) : \A h \in 1 .. k - 1 : from[h] < from[k]
  /\ IF phase = "glob" THEN from = <<>>
     ELSE /\ Len(from) = Len(buf)
          /\ \A k \in 1 .. Len(from) : buf[k] = line.text[from[k]]

\* The places kept and those of buf.
Held == KeptPlaces \cup {from[k] : k \in 1 .. Len(from)}

\* The tokens are in order, and before what is in buf.
OrderInv ==
  /\ TokensInOrder
  /\ \A q \in KeptPlaces : \A k \in 1 .. Len(from) : q < from[k]

Covered(n) == \A p \in 1 .. n : Letter(line.text[p]) => p \in Held

\* A comment is at p and takes the rest.
CommentAt(p) ==
  /\ line.text[p] = "#" /\ Covered(p - 1)
  /\ \A q \in Held : q < p
  /\ state = 8 \/ rest = <<>>

\* All letters read are kept, or all before a comment.
LettersInv ==
  /\ Held \subseteq 1 .. at
  /\ \/ state # 8 /\ Covered(at)
     \/ \E p \in 1 .. at : CommentAt(p)
  /\ phase \in {"execute", "prompt", "quit"} /\ ended = "line" =>
       rest = <<>> /\ state # 8 /\ buf = <<>>

\* Where a token may still be empty.
EmptyInv ==
  /\ phase = "chew" /\ state \in {1, 3} => buf # <<>>
  /\ phase = "chew" /\ state = 0 => buf = <<>>
  /\ state = 2 /\ buf = <<>> => at >= 1 /\ line.text[at] = quote
  /\ state = 9 /\ buf = <<>> =>
       at >= 2 /\ line.text[at] \in Quotes /\ line.text[at - 1] = line.text[at]
  /\ phase = "glob" => state = 0
  /\ EndsEarly

\* In a quoted line, where character j of argument i is, the quote that opens it
\* being character 0, and where the quote that ends it is.
PlaceOf(i, j) == IF j = 0 THEN line.open[i] ELSE line.place[i][j]
CloseOf(i) == PlaceOf(i, Len(line.args[i])) + 1
QuoteOf(i) == line.text[line.open[i]]

\* Reading argument i, after its first j characters.
InArgument(i, j) ==
  /\ j \in 0 .. Len(line.args[i])
  /\ Len(buf) = j /\ \A h \in 1 .. j : buf[h] = line.args[i][h]
  /\ quote = QuoteOf(i)
  /\ \/ state = 2 /\ at = PlaceOf(i, j)
     \/ /\ state = 4 /\ at = PlaceOf(i, j) + 1
        /\ j < Len(line.args[i]) /\ line.args[i][j + 1] \in {QuoteOf(i), "\\"}
     \/ state = 9 /\ at = CloseOf(i) /\ j = Len(line.args[i])

\* Between its arguments, before the blank or after it.
BetweenArguments(k) ==
  /\ state = 0 /\ Len(buf) = 0
  /\ \/ k < Len(line.args) /\ at = line.open[k + 1] - 1
     \/ k > 0 /\ at = CloseOf(k)

\* Reading its name.
InName ==
  /\ phase = "chew"
  /\ \/ at = 0 /\ state = 0 /\ Len(buf) = 0
     \/ at \in 1 .. line.open[1] - 2 /\ state = 1 /\ Len(buf) = at
     \/ at = line.open[1] - 1 /\ state = 9 /\ Len(buf) = at - 1

\* After its name and k arguments.
AfterArguments(k) ==
  /\ k \in 0 .. Len(line.args) /\ Len(tokens) = k + 1
  /\ \A i \in 1 .. k : tokens[i + 1] = line.args[i]
  /\ phase = "chew" => \/ BetweenArguments(k)
                       \/ k < Len(line.args) /\ \E j \in Nat : InArgument(k + 1, j)
  /\ phase # "chew" => k = Len(line.args)

QuotedInv ==
  line.args # FREE =>
    /\ phase # "glob" /\ (called = None \/ called.args = line.args)
    /\ IF tokens = <<>> THEN InName ELSE \E k \in Nat : AfterArguments(k)

\* The character about to be read.
NextChar == line.text[at + 1]

\* What the text is, and how far it was read.
LEMMA TextIs ==
  ASSUME ReadInv
  PROVE  /\ line.text \in Seq(STRING) /\ rest \in Seq(STRING) /\ Len(line.text) \in Nat
         /\ Len(rest) \in 0 .. Len(line.text) /\ at \in 0 .. Len(line.text)
         /\ at = Len(line.text) - Len(rest)
         /\ rest = <<>> <=> at = Len(line.text)
         /\ \A i \in 1 .. Len(line.text) : line.text[i] \in STRING
  <1>1. line.text \in Seq(STRING)
    BY LineAssumption DEF ReadInv
  <1>2. Len(line.text) \in Nat /\ \A i \in 1 .. Len(line.text) : line.text[i] \in STRING
    BY <1>1, LenProperties, ElementOfSeq
  <1>3. Len(rest) \in Nat /\ (rest = <<>> <=> Len(rest) = 0)
    BY LenProperties, EmptySeq DEF ReadInv
  <1> QED BY <1>1, <1>2, <1>3 DEF ReadInv, at

\* Chew reads the next character.
LEMMA ChewReads ==
  ASSUME ReadInv, Chew
  PROVE  /\ ReadInv' /\ line' = line /\ at' = at + 1 /\ at + 1 \in 1 .. Len(line.text)
         /\ Head(rest) = NextChar
  <1>1. rest # <<>> /\ rest' = Tail(rest) /\ line' = line
    BY DEF Chew, Chews
  <1>2. /\ rest' \in Seq(STRING) /\ Len(rest') = Len(rest) - 1
    BY <1>1, TextIs, HeadTailProperties
  <1>3. at' = at + 1 /\ at + 1 \in 1 .. Len(line.text)
    BY <1>1, <1>2, TextIs DEF at
  <1>4. /\ Head(rest) = line.text[at + 1]
        /\ Tail(rest) = SubSeq(line.text, at + 2, Len(line.text))
    <2> DEFINE m == at + 1
               n == Len(line.text)
    <2>1. m \in 1 .. Len(line.text) /\ n \in m .. Len(line.text) /\ m + 1 = at + 2
      BY <1>3, TextIs
    <2>2. rest = SubSeq(line.text, m, n) /\ line.text \in Seq(STRING)
      BY TextIs DEF ReadInv
    <2> HIDE DEF m, n
    <2>3. /\ Head(SubSeq(line.text, m, n)) = line.text[m]
          /\ Tail(SubSeq(line.text, m, n)) = SubSeq(line.text, m + 1, n)
      BY <2>1, <2>2, HeadTailOfSubSeq
    <2>4. Head(rest) = line.text[m] /\ Tail(rest) = SubSeq(line.text, at + 2, n)
      BY <2>1, <2>2, <2>3
    <2> QED BY <2>4 DEF m, n
  <1>5. at' + 1 = at + 2
    BY <1>3, TextIs
  <1>6. rest' = SubSeq(line.text, at' + 1, Len(line.text))
    BY <1>1, <1>4, <1>5
  <1>7. Len(rest') <= Len(line.text)
    BY <1>2, TextIs
  <1> QED BY <1>1, <1>2, <1>3, <1>4, <1>6, <1>7 DEF ReadInv, NextChar

\* The other steps read nothing.
OtherStep == \/ NoToken \/ Token \/ Interrupt \/ Execute
             \/ \E names \in Matches : GlobEnds(names, "no")
             \/ \E fails \in {"no match", "aborted"} : GlobEnds(<<>>, fails)
             \/ UNCHANGED lineVars

LEMMA OthersRead ==
  ASSUME ReadInv, OtherStep
  PROVE  ReadInv' /\ UNCHANGED <<line, rest, at>>
  <1>1. UNCHANGED <<line, rest>>
    BY DEF OtherStep, NoToken, Token, Interrupt, Execute, GlobEnds, lineVars, chewing
  <1>2. at' = at
    BY <1>1 DEF at
  <1> QED BY <1>1, <1>2 DEF ReadInv

\* What Chew does with it: it is kept or dropped.
Kept ==
  /\ buf' = Append(buf, NextChar) /\ from' = Append(from, at + 1)
  /\ quote' = quote
  /\ \/ state = 0 /\ state' = 1 /\ NextChar \notin Quotes \cup {"#", blank}
     \/ state = 1 /\ state' = 1 /\ NextChar \notin {blank, "#", "\\"}
     \/ state = 2 /\ state' = 2 /\ NextChar \notin {quote, "\\"}
     \/ state = 3 /\ state' = 1
     \/ state = 4 /\ state' = 2

Dropped ==
  /\ buf' = buf /\ from' = from
  /\ state' # 2 => quote' = quote
  /\ \/ state = 0 /\ state' = 2 /\ NextChar \in Quotes /\ quote' = NextChar
     \/ state \in {0, 1} /\ state' = 8 /\ NextChar = "#"
     \/ state = 0 /\ state' = 0 /\ NextChar = blank
     \/ state = 1 /\ state' = 9 /\ NextChar = blank
     \/ state = 1 /\ state' = 3 /\ NextChar = "\\"
     \/ state = 2 /\ state' = 9 /\ NextChar = quote
     \/ state = 2 /\ state' = 4 /\ NextChar = "\\" /\ NextChar # quote
     \/ state = 8 /\ state' = 8

LEMMA ChewDoes ==
  ASSUME ReadInv, Chew
  PROVE  /\ phase = "chew" /\ state # 9 /\ Len(buf) < BufSize
         /\ UNCHANGED <<phase, line, tokens, connected, expansion, history, called>>
         /\ Kept \/ Dropped
  <1>1. Head(rest) = NextChar
    BY ChewReads
  <1>2. /\ phase = "chew" /\ state # 9 /\ Len(buf) < BufSize
        /\ UNCHANGED <<phase, line, tokens, connected, expansion, history, called>>
    BY DEF Chew, Chews
  <1>3. Leading(NextChar) \/ Normal(NextChar) \/ InQuote(NextChar) \/ Escaped(NextChar) \/ Comment
    BY <1>1 DEF Chew
  <1>4. ASSUME Leading(NextChar) PROVE Kept \/ Dropped
    BY <1>4 DEF Leading, Keep, Drop, Kept, Dropped
  <1>5. ASSUME Normal(NextChar) PROVE Kept \/ Dropped
    BY <1>5 DEF Normal, Keep, Drop, Kept, Dropped
  <1>6. ASSUME InQuote(NextChar) PROVE Kept \/ Dropped
    BY <1>6 DEF InQuote, Keep, Drop, Kept, Dropped
  <1>7. ASSUME Escaped(NextChar) PROVE Kept \/ Dropped
    BY <1>7 DEF Escaped, Keep, Kept
  <1>8. ASSUME Comment PROVE Kept \/ Dropped
    BY <1>8 DEF Comment, Drop, Dropped
  <1> QED BY <1>2, <1>3, <1>4, <1>5, <1>6, <1>7, <1>8

LineSteps == Chew \/ OtherStep

\* Every step is Chew or one of the others.
LEMMA StepsOfLines ==
  ASSUME [LineNext]_lineVars
  PROVE  LineSteps
  BY DEF LineNext, LineSteps, OtherStep

\* ControlTypes is inductive.
LEMMA ControlStep ==
  ASSUME ReadInv, ControlTypes, LineSteps
  PROVE  ControlTypes'
  <1>1. CASE Chew
    <2>1. state' \in {0, 1, 2, 3, 4, 8, 9}
      BY <1>1, ChewDoes DEF Kept, Dropped
    <2>2. quote' \in Quotes
      BY <1>1, ChewDoes DEF ControlTypes, Kept, Dropped
    <2> QED BY <1>1, <2>1, <2>2, ChewDoes DEF ControlTypes, expansion, history
  <1>2. CASE NoToken
    BY <1>2 DEF NoToken, ControlTypes, chewing, expansion
  <1>3. CASE Token
    BY <1>3 DEF Token, ControlTypes, expansion
  <1>4. CASE Interrupt
    BY <1>4 DEF Interrupt, ControlTypes, chewing, history
  <1>5. CASE Execute
    <2>1. called'.cmd \in DOMAIN Commands \cup {<<>>}
      <3>1. PICK args : called' = IF Runs(Name, args) THEN [cmd |-> Name, args |-> args] ELSE None
        BY <1>5 DEF Execute
      <3>2. CASE Runs(Name, args)
        BY <3>1, <3>2 DEF Runs, Known
      <3>3. CASE ~Runs(Name, args)
        BY <3>1, <3>3 DEF None
      <3> QED BY <3>2, <3>3
    <2>2. phase' \in {"prompt", "quit"}
      BY <1>5 DEF Execute
    <2> QED BY <1>5, <2>1, <2>2 DEF Execute, ControlTypes, chewing, expansion, history
  <1>6. ASSUME NEW names, NEW fails, GlobEnds(names, fails) PROVE ControlTypes'
    BY <1>6 DEF GlobEnds, ControlTypes, history
  <1>7. CASE UNCHANGED lineVars
    BY <1>7 DEF lineVars, ControlTypes, chewing, expansion, history
  <1> QED BY <1>1, <1>2, <1>3, <1>4, <1>5, <1>6, <1>7 DEF LineSteps, OtherStep

\* Words are added to the words there are.
LEMMA WordsAdded ==
  ASSUME NEW s \in Seq(Seq(STRING) \ {<<>>}), NEW t \in Seq(Seq(STRING) \ {<<>>})
  PROVE  s \o t \in Seq(Seq(STRING) \ {<<>>})
  BY ConcatProperties

\* A token is a word.
LEMMA OneWord ==
  ASSUME NEW w \in Seq(STRING), w # <<>>
  PROVE  <<w>> \in Seq(Seq(STRING) \ {<<>>})
  OBVIOUS

\* TokenTypes is inductive.
LEMMA TokenStep ==
  ASSUME ReadInv, TokenTypes, LineSteps
  PROVE  TokenTypes'
  <1>0. at \in Nat /\ Len(raw) \in Nat
    BY TextIs, LenProperties DEF TokenTypes
  <1>1. CASE Chew
    <2>1. /\ phase' = phase /\ phase = "chew" /\ tokens' = tokens /\ raw' = raw /\ at' = at + 1
          /\ NextChar \in STRING
      BY <1>1, ChewDoes, ChewReads, TextIs DEF history, NextChar
    <2>2. buf' \in Seq(STRING) /\ from' \in Seq(Nat)
      <3>1. CASE Kept
        <4>1. Append(buf, NextChar) \in Seq(STRING) /\ Append(from, at + 1) \in Seq(Nat)
          <5>1. at + 1 \in Nat
            BY <1>0
          <5> QED BY <2>1, <5>1, AppendProperties DEF TokenTypes
        <4> QED BY <3>1, <4>1 DEF Kept
      <3>2. CASE Dropped
        BY <3>2 DEF Dropped, TokenTypes
      <3> QED BY <1>1, <3>1, <3>2, ChewDoes
    <2>3. Len(raw') < at'
      BY <1>0, <2>1 DEF TokenTypes
    <2>4. Len(raw') <= at'
      BY <1>0, <2>1 DEF TokenTypes
    <2>5. phase' # "glob"
      BY <2>1
    <2> QED BY <2>1, <2>2, <2>3, <2>4, <2>5 DEF TokenTypes
  <1>2. CASE NoToken
    <2>1. at' = at
      BY <1>2, OthersRead DEF OtherStep
    <2> QED BY <1>2, <2>1 DEF NoToken, TokenTypes, chewing
  <1>3. CASE Token
    <2>1. at' = at /\ buf # <<>> /\ phase = "chew"
      BY <1>3, OthersRead DEF OtherStep, Token
    <2>2. Len(raw) < at
      BY <2>1 DEF TokenTypes
    <2> DEFINE r == [token |-> buf, from |-> from]
    <2>3. /\ Append(raw, r) \in Seq([token : Seq(STRING), from : Seq(Nat)])
          /\ Len(Append(raw, r)) = Len(raw) + 1
      <3>1. r \in [token : Seq(STRING), from : Seq(Nat)]
        BY DEF TokenTypes
      <3> HIDE DEF r
      <3> QED BY <3>1, AppendProperties DEF TokenTypes
    <2>4. /\ raw' \in Seq([token : Seq(STRING), from : Seq(Nat)]) /\ Len(raw') <= at'
      <3>1. raw' = Append(raw, r)
        BY <1>3 DEF Token
      <3> QED BY <1>0, <2>1, <2>2, <2>3, <3>1
    <2>5. /\ from' = <<>>
          /\ \/ phase' = "glob" /\ buf' = buf /\ tokens' = tokens
             \/ phase' = "chew" /\ buf' = <<>> /\ tokens' = Append(tokens, buf)
      BY <1>3, <2>1 DEF Token
    <2>6. Append(tokens, buf) \in Seq(Seq(STRING) \ {<<>>})
      <3>1. buf \in Seq(STRING) \ {<<>>}
        BY <2>1 DEF TokenTypes
      <3> QED BY <3>1, AppendProperties DEF TokenTypes
    <2>7. from' \in Seq(Nat) /\ buf' \in Seq(STRING)
      BY <2>5, EmptySeq DEF TokenTypes
    <2>8. tokens' \in Seq(Seq(STRING) \ {<<>>})
      BY <2>5, <2>6 DEF TokenTypes
    <2> QED BY <2>1, <2>4, <2>5, <2>7, <2>8 DEF TokenTypes
  <1>4. CASE Interrupt
    <2>1. at' = at
      BY <1>4, OthersRead DEF OtherStep
    <2> QED BY <1>4, <2>1 DEF Interrupt, TokenTypes, chewing, history
  <1>5. CASE Execute
    <2>1. at' = at /\ phase' \in {"prompt", "quit"}
      BY <1>5, OthersRead DEF OtherStep, Execute
    <2> QED BY <1>5, <2>1 DEF Execute, TokenTypes, chewing, history
  <1>6. ASSUME NEW names, NEW fails, GlobEnds(names, fails), OtherStep,
               names \in Matches \/ fails # "no"
        PROVE  TokenTypes'
    <2>1. at' = at
      BY <1>6, OthersRead
    <2>2. /\ phase = "glob" /\ phase' = "chew" /\ buf' = <<>> /\ from' = from /\ raw' = raw
          /\ tokens' = tokens \o (IF fails = "no" THEN names ELSE <<buf>>)
      BY <1>6 DEF GlobEnds, history
    <2>3. PICK t \in Seq(Seq(STRING) \ {<<>>}) : tokens' = tokens \o t
      <3>1. CASE fails = "no"
        BY <1>6, <2>2, <3>1, LineAssumption
      <3>2. CASE fails # "no"
        <4>1. <<buf>> \in Seq(Seq(STRING) \ {<<>>})
          BY <2>2, OneWord DEF TokenTypes
        <4> QED BY <2>2, <3>2, <4>1
      <3> QED BY <3>1, <3>2
    <2>4. tokens' \in Seq(Seq(STRING) \ {<<>>})
      BY <2>3, WordsAdded DEF TokenTypes
    <2>5. buf' \in Seq(STRING)
      BY <2>2, EmptySeq
    <2> QED BY <2>1, <2>2, <2>4, <2>5 DEF TokenTypes
  <1>7. CASE UNCHANGED lineVars
    <2>1. at' = at
      BY <1>7, OthersRead DEF OtherStep
    <2> QED BY <1>7, <2>1 DEF lineVars, TokenTypes, chewing, expansion, history
  <1> QED
    <2>1. ASSUME NEW names \in Matches, GlobEnds(names, "no"), OtherStep PROVE TokenTypes'
      BY <1>6, <2>1
    <2>2. ASSUME NEW fails \in {"no match", "aborted"}, GlobEnds(<<>>, fails), OtherStep
          PROVE  TokenTypes'
      <3>1. fails # "no"
        BY <2>2
      <3> QED BY <1>6, <2>2, <3>1
    <2> QED BY <1>1, <1>2, <1>3, <1>4, <1>5, <1>7, <2>1, <2>2 DEF LineSteps, OtherStep

\* A place after those of a sequence.
LEMMA PlaceAppended ==
  ASSUME NEW f \in Seq(Nat), NEW n \in Nat, \A k \in 1 .. Len(f) : f[k] \in 1 .. n,
         \A k \in 1 .. Len(f) : \A h \in 1 .. k - 1 : f[h] < f[k],
         NEW g, g = Append(f, n + 1)
  PROVE  /\ g \in Seq(Nat) /\ Len(g) = Len(f) + 1 /\ Len(f) \in Nat
         /\ \A k \in 1 .. Len(f) : g[k] = f[k]
         /\ g[Len(f) + 1] = n + 1
         /\ \A k \in 1 .. Len(g) : g[k] \in 1 .. n + 1
         /\ \A k \in 1 .. Len(g) : \A h \in 1 .. k - 1 : g[h] < g[k]
  <1>0. Len(f) \in Nat
    BY LenProperties
  <1>1. /\ g \in Seq(Nat) /\ Len(g) = Len(f) + 1
        /\ \A k \in 1 .. Len(f) : g[k] = f[k]
        /\ g[Len(f) + 1] = n + 1
    BY AppendProperties
  <1>2. ASSUME NEW k \in 1 .. Len(g)
        PROVE  g[k] \in 1 .. n + 1 /\ \A h \in 1 .. k - 1 : g[h] < g[k]
    <2>1. CASE k = Len(f) + 1
      <3>1. ASSUME NEW h \in 1 .. k - 1 PROVE g[h] < g[k]
        <4>1. h \in 1 .. Len(f)
          BY <1>0, <2>1
        <4>2. g[h] = f[h] /\ f[h] \in 1 .. n
          BY <1>1, <4>1
        <4> QED BY <1>1, <2>1, <4>2
      <3> QED BY <1>1, <2>1, <3>1
    <2>2. CASE k # Len(f) + 1
      <3>1. k \in 1 .. Len(f)
        BY <1>0, <1>1, <2>2
      <3>2. \A h \in 1 .. k - 1 : h \in 1 .. Len(f)
        BY <1>0, <3>1
      <3>3. g[k] = f[k] /\ \A h \in 1 .. k - 1 : g[h] = f[h]
        BY <1>1, <3>1, <3>2
      <3>4. f[k] \in 1 .. n
        BY <3>1
      <3> QED BY <3>1, <3>3, <3>4
    <2> QED BY <2>1, <2>2
  <1> QED BY <1>0, <1>1, <1>2

\* BufInv is inductive: a character kept is the next of the text.
LEMMA BufStep ==
  ASSUME ReadInv, TokenTypes, BufInv, LineSteps
  PROVE  BufInv'
  <1>0. /\ at \in Nat /\ Len(buf) \in Nat /\ BufSize \in Nat \ {0}
        /\ buf = <<>> <=> Len(buf) = 0
    BY TextIs, LenProperties, EmptySeq, LineAssumption DEF TokenTypes
  <1>1. CASE Chew
    <2>1. /\ phase' = "chew" /\ phase = "chew" /\ at' = at + 1 /\ line' = line
          /\ Len(buf) < BufSize /\ NextChar \in STRING
      BY <1>1, ChewDoes, ChewReads, TextIs DEF NextChar
    <2>2. CASE Dropped
      <3>1. buf' = buf /\ from' = from
        BY <2>2 DEF Dropped
      <3>2. \A k \in 1 .. Len(from') : from'[k] \in 1 .. at'
        BY <1>0, <2>1, <3>1 DEF BufInv
      <3> QED BY <2>1, <3>1, <3>2 DEF BufInv
    <2>3. CASE Kept
      <3>1. buf' = Append(buf, NextChar) /\ from' = Append(from, at + 1)
        BY <2>3 DEF Kept
      <3>2. /\ Len(from') = Len(from) + 1 /\ Len(from) \in Nat
            /\ \A k \in 1 .. Len(from) : from'[k] = from[k]
            /\ from'[Len(from) + 1] = at + 1
            /\ \A k \in 1 .. Len(from') : from'[k] \in 1 .. at + 1
            /\ \A k \in 1 .. Len(from') : \A h \in 1 .. k - 1 : from'[h] < from'[k]
        <4>1. PICK g : g = Append(from, at + 1)
          OBVIOUS
        <4>2. /\ from \in Seq(Nat) /\ \A k \in 1 .. Len(from) : from[k] \in 1 .. at
              /\ \A k \in 1 .. Len(from) : \A h \in 1 .. k - 1 : from[h] < from[k]
          BY DEF TokenTypes, BufInv
        <4>3. /\ Len(g) = Len(from) + 1 /\ Len(from) \in Nat
              /\ \A k \in 1 .. Len(from) : g[k] = from[k]
              /\ g[Len(from) + 1] = at + 1
              /\ \A k \in 1 .. Len(g) : g[k] \in 1 .. at + 1
              /\ \A k \in 1 .. Len(g) : \A h \in 1 .. k - 1 : g[h] < g[k]
          <5>1. PICK f, n : f = from /\ n = at
            OBVIOUS
          <5>2. /\ f \in Seq(Nat) /\ n \in Nat /\ \A k \in 1 .. Len(f) : f[k] \in 1 .. n
                /\ \A k \in 1 .. Len(f) : \A h \in 1 .. k - 1 : f[h] < f[k]
                /\ g = Append(f, n + 1)
            BY <1>0, <4>1, <4>2, <5>1
          <5> QED BY <5>1, <5>2, PlaceAppended
        <4>4. from' = g
          BY <3>1, <4>1
        <4> QED BY <4>3, <4>4
      <3>3. /\ Len(buf') = Len(buf) + 1
            /\ \A k \in 1 .. Len(buf) : buf'[k] = buf[k]
            /\ buf'[Len(buf) + 1] = NextChar
        BY <2>1, <3>1, AppendProperties DEF TokenTypes
      <3>4. Len(from) = Len(buf) /\ \A k \in 1 .. Len(from) : buf[k] = line.text[from[k]]
        BY <2>1 DEF BufInv
      <3>5. \A k \in 1 .. Len(from') : buf'[k] = line'.text[from'[k]]
        <4> SUFFICES ASSUME NEW k \in 1 .. Len(from')
                     PROVE  buf'[k] = line'.text[from'[k]]
          OBVIOUS
        <4>1. CASE k = Len(from) + 1
          BY <2>1, <3>2, <3>3, <3>4, <4>1 DEF NextChar
        <4>2. CASE k # Len(from) + 1
          <5>1. k \in 1 .. Len(from)
            BY <3>2, <4>2
          <5> QED BY <2>1, <3>2, <3>3, <3>4, <5>1
        <4> QED BY <4>1, <4>2
      <3>6. Len(buf') <= BufSize
        BY <1>0, <2>1, <3>3
      <3> QED BY <2>1, <3>2, <3>3, <3>4, <3>5, <3>6 DEF BufInv
    <2> QED BY <1>1, <2>2, <2>3, ChewDoes
  <1>2. CASE NoToken
    <2>1. at' = at /\ UNCHANGED <<line, buf, from>> /\ phase = "chew" /\ phase' = "execute"
      BY <1>2, OthersRead DEF OtherStep, NoToken, chewing
    <2>2. Len(buf') < BufSize \/ ended' = "overlong"
      <3>1. CASE Len(buf) = BufSize
        BY <1>2, <3>1 DEF NoToken
      <3>2. CASE Len(buf) # BufSize
        BY <1>0, <2>1, <3>2 DEF BufInv
      <3> QED BY <3>1, <3>2
    <2> QED BY <2>1, <2>2 DEF BufInv
  <1>3. CASE Token
    <2>1. at' = at /\ line' = line /\ buf # <<>> /\ phase = "chew" /\ Len(buf) < BufSize
      BY <1>3, OthersRead DEF OtherStep, Token
    <2>2. /\ from' = <<>>
          /\ \/ phase' = "glob" /\ buf' = buf
             \/ phase' = "chew" /\ buf' = <<>>
      BY <1>3, <2>1 DEF Token
    <2>3. Len(from') = 0 /\ 1 .. Len(from') = {}
      BY <2>2
    <2>4. Len(buf') <= BufSize /\ (phase' # "chew" => Len(buf') < BufSize)
      BY <1>0, <2>1, <2>2
    <2>5. phase' # "glob" => Len(from') = Len(buf')
      BY <2>2
    <2> QED BY <2>2, <2>3, <2>4, <2>5 DEF BufInv
  <1>4. CASE Interrupt
    <2>1. at' = at
      BY <1>4, OthersRead DEF OtherStep
    <2> QED BY <1>4, <2>1 DEF Interrupt, BufInv, chewing, history
  <1>5. CASE Execute
    <2>1. at' = at /\ phase' \in {"prompt", "quit"} /\ phase = "execute"
      BY <1>5, OthersRead DEF OtherStep, Execute
    <2> QED BY <1>5, <2>1 DEF Execute, BufInv, chewing, history
  <1>6. ASSUME NEW names, NEW fails, GlobEnds(names, fails) PROVE BufInv'
    <2>1. /\ phase = "glob" /\ phase' = "chew" /\ buf' = <<>> /\ from' = from
      BY <1>6 DEF GlobEnds
    <2>2. from' = <<>>
      BY <2>1 DEF BufInv
    <2>3. 1 .. Len(from') = {} /\ Len(from') = 0 /\ Len(buf') = 0
      BY <2>1, <2>2
    <2> QED BY <1>0, <2>1, <2>3 DEF BufInv
  <1>7. CASE UNCHANGED lineVars
    <2>1. at' = at
      BY <1>7, OthersRead DEF OtherStep
    <2> QED BY <1>7, <2>1 DEF lineVars, BufInv, chewing, expansion, history
  <1> QED BY <1>1, <1>2, <1>3, <1>4, <1>5, <1>6, <1>7 DEF LineSteps, OtherStep

\* EmptyInv is inductive: only the quotes can leave a token empty.
LEMMA EmptyStep ==
  ASSUME ReadInv, TokenTypes, ControlTypes, EmptyInv, LineSteps
  PROVE  EmptyInv'
  <1>0. at \in Nat /\ Len(buf) \in Nat /\ BufSize # 0 /\ (buf = <<>> => Len(buf) = 0)
    BY TextIs, LenProperties, EmptySeq, LineAssumption DEF TokenTypes
  <1>1. CASE Chew
    <2>1. /\ phase' = phase /\ phase = "chew" /\ at' = at + 1 /\ line' = line /\ ended' = ended
          /\ NextChar = line.text[at'] /\ at' >= 1 /\ at' - 1 = at /\ (at >= 1 => at' >= 2)
          /\ NextChar \in STRING
      BY <1>0, <1>1, ChewDoes, ChewReads, TextIs DEF NextChar, history
    <2>2. EndsEarly'
      BY <2>1 DEF EmptyInv, EndsEarly
    <2>3. CASE Kept
      <3>1. buf' # <<>>
        <4>1. buf' = Append(buf, NextChar)
          BY <2>3 DEF Kept
        <4> QED BY <2>1, <4>1, AppendProperties DEF TokenTypes
      <3>2. state' # 0
        BY <2>3 DEF Kept
      <3> QED BY <2>1, <2>2, <3>1, <3>2 DEF EmptyInv
    <2>4. CASE Dropped
      <3>1. phase' = "chew" /\ state' \in {1, 3} => buf' # <<>>
        BY <2>1, <2>4 DEF EmptyInv, Dropped
      <3>2. phase' = "chew" /\ state' = 0 => buf' = <<>>
        BY <2>1, <2>4 DEF EmptyInv, Dropped
      <3>3. state' = 2 /\ buf' = <<>> => at' >= 1 /\ line'.text[at'] = quote'
        BY <2>1, <2>4 DEF EmptyInv, Dropped
      <3>4. ASSUME state' = 9, buf' = <<>>
            PROVE  /\ at' >= 2 /\ line'.text[at'] \in Quotes
                   /\ line'.text[at' - 1] = line'.text[at']
        <4>1. state = 2 /\ NextChar = quote /\ buf = <<>>
          BY <2>1, <2>4, <3>4 DEF EmptyInv, Dropped
        <4>2. at >= 1 /\ line.text[at] = quote
          BY <4>1 DEF EmptyInv
        <4> QED BY <2>1, <4>1, <4>2 DEF ControlTypes
      <3> QED BY <2>1, <2>2, <3>1, <3>2, <3>3, <3>4 DEF EmptyInv
    <2> QED BY <1>1, <2>3, <2>4, ChewDoes
  <1>2. CASE NoToken
    <2>1. at' = at /\ UNCHANGED <<line, buf, from, state, quote>> /\ phase' = "execute"
      BY <1>2, OthersRead DEF OtherStep, NoToken, chewing
    <2>2. ASSUME ended' = "empty"
          PROVE  \E i \in 1 .. Len(line.text) - 1 :
                   line.text[i] \in Quotes /\ line.text[i + 1] = line.text[i]
      <3>1. Len(buf) # BufSize
        BY <1>2, <2>2 DEF NoToken
      <3>2. buf = <<>>
        BY <1>2, <3>1 DEF NoToken
      <3>3. state = 9
        BY <1>2, <2>2, <3>1 DEF NoToken
      <3>4. at >= 2 /\ line.text[at] \in Quotes /\ line.text[at - 1] = line.text[at]
        BY <3>2, <3>3 DEF EmptyInv
      <3>5. at - 1 \in 1 .. Len(line.text) - 1 /\ (at - 1) + 1 = at
        BY <3>4, TextIs
      <3> QED BY <3>4, <3>5
    <2>3. EndsEarly'
      BY <2>1, <2>2 DEF EndsEarly
    <2> QED BY <2>1, <2>3 DEF EmptyInv
  <1>3. CASE Token
    <2>1. /\ at' = at /\ line' = line /\ ended' = ended /\ state' = 0
          /\ phase' = "glob" \/ (phase' = "chew" /\ buf' = <<>>)
      BY <1>3, OthersRead DEF OtherStep, Token
    <2>2. EndsEarly'
      BY <2>1 DEF EmptyInv, EndsEarly
    <2> QED BY <2>1, <2>2 DEF EmptyInv
  <1>4. CASE Interrupt
    <2>1. at' = at /\ UNCHANGED <<line, buf, from, state, quote, ended>> /\ phase' = phase
      BY <1>4, OthersRead DEF OtherStep, Interrupt, chewing, history
    <2> QED BY <2>1 DEF EmptyInv, EndsEarly
  <1>5. CASE Execute
    <2>1. /\ at' = at /\ phase' \in {"prompt", "quit"}
          /\ UNCHANGED <<line, buf, from, state, quote, ended>>
      BY <1>5, OthersRead DEF OtherStep, Execute, chewing, history
    <2> QED BY <2>1 DEF EmptyInv, EndsEarly
  <1>6. ASSUME NEW names, NEW fails, GlobEnds(names, fails), OtherStep PROVE EmptyInv'
    <2>1. /\ phase = "glob" /\ phase' = "chew" /\ buf' = <<>> /\ at' = at
          /\ UNCHANGED <<line, state, ended>>
      BY <1>6, OthersRead DEF GlobEnds, history
    <2>2. state = 0
      BY <2>1 DEF EmptyInv
    <2> QED BY <2>1, <2>2 DEF EmptyInv, EndsEarly
  <1>7. CASE UNCHANGED lineVars
    <2>1. at' = at
      BY <1>7, OthersRead DEF OtherStep
    <2> QED BY <1>7, <2>1 DEF lineVars, EmptyInv, EndsEarly, chewing, expansion, history
  <1> QED BY <1>1, <1>2, <1>3, <1>4, <1>5, <1>6, <1>7 DEF LineSteps, OtherStep

\* What KeptPlaces holds.
LEMMA KeptIs ==
  \A q : q \in KeptPlaces <=>
           \E i \in 1 .. Len(raw) : \E j \in 1 .. Len(raw[i].from) : q = raw[i].from[j]
  BY DEF KeptPlaces

\* Only Token ends one.
LEMMA RawSame ==
  ASSUME raw' = raw
  PROVE  KeptPlaces' = KeptPlaces
  BY DEF KeptPlaces

\* Token adds buf to the tokens, and its places to those kept.
LEMMA RawMore ==
  ASSUME TokenTypes, Token
  PROVE  /\ Len(raw) \in Nat /\ Len(raw') = Len(raw) + 1
         /\ \A i \in 1 .. Len(raw) : raw'[i] = raw[i]
         /\ raw'[Len(raw) + 1].token = buf /\ raw'[Len(raw) + 1].from = from
         /\ KeptPlaces' = KeptPlaces \cup {from[k] : k \in 1 .. Len(from)}
  <1> DEFINE n == Len(raw)
  <1>1. PICK r : r = [token |-> buf, from |-> from]
    OBVIOUS
  <1>2. r \in [token : Seq(STRING), from : Seq(Nat)]
    BY <1>1 DEF TokenTypes
  <1>3. raw' = Append(raw, r)
    BY <1>1 DEF Token
  <1>4. /\ n \in Nat /\ Len(raw') = n + 1
        /\ \A i \in 1 .. n : raw'[i] = raw[i]
        /\ raw'[n + 1] = r
    BY <1>2, <1>3, AppendProperties, LenProperties DEF TokenTypes
  <1>5. r.token = buf /\ r.from = from
    BY <1>1
  <1> HIDE DEF n
  <1>6. 1 .. n + 1 = (1 .. n) \cup {n + 1} /\ n + 1 \notin 1 .. n
    BY <1>4
  <1>7. ASSUME NEW q
        PROVE  q \in KeptPlaces' <=> q \in KeptPlaces \cup {from[k] : k \in 1 .. Len(from)}
    <2>1. q \in KeptPlaces' <=>
            \E i \in 1 .. Len(raw') : \E j \in 1 .. Len(raw'[i].from) : q = raw'[i].from[j]
      BY DEF KeptPlaces
    <2>2. (\E i \in 1 .. n + 1 : \E j \in 1 .. Len(raw'[i].from) : q = raw'[i].from[j])
          <=> \/ \E i \in 1 .. n : \E j \in 1 .. Len(raw[i].from) : q = raw[i].from[j]
              \/ \E j \in 1 .. Len(from) : q = from[j]
      BY <1>4, <1>5, <1>6
    <2>3. q \in KeptPlaces <=>
            \E i \in 1 .. n : \E j \in 1 .. Len(raw[i].from) : q = raw[i].from[j]
      BY KeptIs DEF n
    <2> QED BY <1>4, <2>1, <2>2, <2>3
  <1>8. KeptPlaces' = KeptPlaces \cup {from[k] : k \in 1 .. Len(from)}
    BY <1>7
  <1> QED BY <1>4, <1>5, <1>8 DEF n

\* What the other steps do to tokens.
LEMMA NotEnded ==
  ASSUME LineSteps, ~Token
  PROVE  raw' = raw /\ line' = line
  <1>1. CASE Chew
    BY <1>1 DEF Chew, history
  <1>2. CASE OtherStep
    BY <1>2 DEF OtherStep, NoToken, Interrupt, Execute, GlobEnds, lineVars, chewing, history
  <1> QED BY <1>1, <1>2 DEF LineSteps

\* Token leaves from empty.
LEMMA TokenEmpties ==
  ASSUME Token
  PROVE  from' = <<>> /\ 1 .. Len(from') = {} /\ line' = line
  <1>1. from' = <<>> /\ line' = line
    BY DEF Token
  <1> QED BY <1>1

\* The tokens stay in order: a token added is of later places.
LEMMA TokensOrdered ==
  ASSUME ReadInv, TokenTypes, BufInv, OrderInv, LineSteps
  PROVE  TokensInOrder'
  <1>1. CASE ~Token
    <2>1. raw' = raw /\ line' = line
      BY <1>1, NotEnded
    <2> QED BY <2>1 DEF OrderInv, TokensInOrder
  <1>2. CASE Token
    <2>0. PICK n : n = Len(raw)
      OBVIOUS
    <2>1. /\ n \in Nat /\ Len(raw') = n + 1 /\ line' = line
          /\ \A i \in 1 .. n : raw'[i] = raw[i]
          /\ raw'[n + 1].token = buf /\ raw'[n + 1].from = from
      BY <1>2, <2>0, RawMore, TokenEmpties
    <2>2. /\ Len(from) = Len(buf)
          /\ \A k \in 1 .. Len(from) : buf[k] = line.text[from[k]]
          /\ \A k \in 1 .. Len(from) : \A h \in 1 .. k - 1 : from[h] < from[k]
      BY <1>2 DEF BufInv, Token
    <2> SUFFICES ASSUME NEW i \in 1 .. n + 1
                 PROVE  /\ Len(raw'[i].token) = Len(raw'[i].from)
                        /\ \A j \in 1 .. Len(raw'[i].from) :
                             /\ raw'[i].token[j] = line'.text[raw'[i].from[j]]
                             /\ \A k \in 1 .. j - 1 : raw'[i].from[k] < raw'[i].from[j]
                             /\ \A h \in 1 .. i - 1 : \A k \in 1 .. Len(raw'[h].from) :
                                  raw'[h].from[k] < raw'[i].from[j]
      BY <2>1 DEF TokensInOrder
    <2>3. CASE i = n + 1
      <3>1. \A h \in 1 .. i - 1 : h \in 1 .. n
        BY <2>1, <2>3
      <3>2. ASSUME NEW j \in 1 .. Len(from), NEW h \in 1 .. i - 1,
                   NEW k \in 1 .. Len(raw'[h].from)
            PROVE  raw'[h].from[k] < from[j]
        <4>1. h \in 1 .. n /\ raw'[h] = raw[h]
          BY <2>1, <3>1
        <4>2. raw[h].from[k] \in KeptPlaces
          BY <2>0, <4>1, KeptIs
        <4> QED BY <4>1, <4>2 DEF OrderInv
      <3>3. raw'[i].from = from /\ raw'[i].token = buf
        BY <2>1, <2>3
      <3> QED BY <2>1, <2>2, <3>2, <3>3
    <2>4. CASE i # n + 1
      <3>1. i \in 1 .. n /\ \A h \in 1 .. i - 1 : h \in 1 .. n
        BY <2>1, <2>4
      <3>2. raw'[i] = raw[i] /\ \A h \in 1 .. i - 1 : raw'[h] = raw[h]
        BY <2>1, <3>1
      <3>3. /\ Len(raw[i].token) = Len(raw[i].from)
            /\ \A j \in 1 .. Len(raw[i].from) :
                 /\ raw[i].token[j] = line.text[raw[i].from[j]]
                 /\ \A k \in 1 .. j - 1 : raw[i].from[k] < raw[i].from[j]
                 /\ \A h \in 1 .. i - 1 : \A k \in 1 .. Len(raw[h].from) :
                      raw[h].from[k] < raw[i].from[j]
        BY <2>0, <3>1 DEF OrderInv, TokensInOrder
      <3> QED BY <2>1, <3>2, <3>3
    <2> QED BY <2>3, <2>4
  <1> QED BY <1>1, <1>2

\* The places of earlier tokens are below those of buf.
LEMMA PlacesOrdered ==
  ASSUME ReadInv, TokenTypes, BufInv, OrderInv, LettersInv, LineSteps
  PROVE  \A q \in KeptPlaces' : \A k \in 1 .. Len(from') : q < from'[k]
  <1>1. CASE Token
    BY <1>1, TokenEmpties
  <1>2. CASE ~Token /\ from' = from
    BY <1>2, NotEnded, RawSame DEF OrderInv
  <1>3. CASE Chew /\ Kept
    <2>1. KeptPlaces' = KeptPlaces
      <3>1. raw' = raw
        BY <1>3, ChewDoes DEF history
      <3> QED BY <3>1, RawSame
    <2>2. PICK n : n = Len(from)
      OBVIOUS
    <2>3. /\ n \in Nat /\ Len(from') = n + 1 /\ from'[n + 1] = at + 1
          /\ \A k \in 1 .. n : from'[k] = from[k]
      <3>1. from' = Append(from, at + 1) /\ at + 1 \in Nat /\ from \in Seq(Nat)
        BY <1>3, TextIs DEF Kept, TokenTypes
      <3> QED BY <2>2, <3>1, AppendProperties, LenProperties
    <2>4. \A q \in KeptPlaces : q \in 1 .. at
      BY DEF LettersInv, Held
    <2>5. at \in Nat
      BY TextIs
    <2> SUFFICES ASSUME NEW q \in KeptPlaces, NEW k \in 1 .. n + 1
                 PROVE  q < from'[k]
      BY <2>1, <2>3
    <2>6. CASE k = n + 1
      BY <2>3, <2>4, <2>5, <2>6
    <2>7. CASE k # n + 1
      <3>1. k \in 1 .. n
        BY <2>3, <2>7
      <3> QED BY <2>2, <2>3, <3>1 DEF OrderInv
    <2> QED BY <2>6, <2>7
  <1>4. ~Token => from' = from \/ (Chew /\ Kept)
    <2>1. CASE Chew
      BY <2>1, ChewDoes DEF Dropped
    <2>2. CASE OtherStep
      BY <2>2 DEF OtherStep, NoToken, Interrupt, Execute, GlobEnds, lineVars, chewing
    <2> QED BY <2>1, <2>2 DEF LineSteps
  <1> QED BY <1>1, <1>2, <1>3, <1>4

\* The words of a line without patterns.
WordsInv ==
  ~Contains(line.text, star) =>
    phase # "glob" /\ tokens = [i \in 1 .. Len(raw) |-> raw[i].token]

\* WordsInv is inductive: what has no star is not expanded.
LEMMA WordsStep ==
  ASSUME ReadInv, TokenTypes, BufInv, WordsInv, LineSteps
  PROVE  WordsInv'
  <1> SUFFICES ASSUME ~Contains(line'.text, star)
               PROVE  phase' # "glob" /\ tokens' = [i \in 1 .. Len(raw') |-> raw'[i].token]
    BY DEF WordsInv
  <1>0. line' = line
    BY NotEnded, TokenEmpties
  <1>1. /\ phase # "glob" /\ tokens = [i \in 1 .. Len(raw) |-> raw[i].token]
        /\ \A i \in 1 .. Len(line.text) : line.text[i] # star
    BY <1>0 DEF WordsInv, Contains
  <1>2. CASE Token
    <2>1. ~Contains(buf, star)
      <3>1. Len(from) = Len(buf) /\ \A k \in 1 .. Len(from) : buf[k] = line.text[from[k]]
        BY <1>1 DEF BufInv
      <3>2. \A k \in 1 .. Len(from) : from[k] \in 1 .. Len(line.text)
        BY TextIs DEF BufInv
      <3> QED BY <1>1, <3>1, <3>2 DEF Contains
    <2>2. /\ phase = "chew" /\ buf # <<>> /\ phase' = phase /\ tokens' = Append(tokens, buf)
      BY <1>2, <2>1 DEF Token, Expands
    <2>3. PICK n : n = Len(raw)
      OBVIOUS
    <2>4. /\ n \in Nat /\ Len(raw') = n + 1 /\ \A i \in 1 .. n : raw'[i] = raw[i]
          /\ raw'[n + 1].token = buf
      BY <1>2, <2>3, RawMore
    <2>5. PICK W : W = Seq(STRING) \ {<<>>}
      OBVIOUS
    <2>6. tokens \in Seq(W) /\ buf \in W
      BY <2>2, <2>5 DEF TokenTypes
    <2>7. Len(tokens) = n
      <3>1. DOMAIN tokens = 1 .. n
        BY <1>1, <2>3
      <3>2. DOMAIN tokens = 1 .. Len(tokens) /\ Len(tokens) \in Nat
        BY <2>6, LenProperties
      <3> QED BY <2>4, <3>1, <3>2
    <2>8. /\ tokens' \in Seq(W) /\ Len(tokens') = n + 1
          /\ \A i \in 1 .. n : tokens'[i] = tokens[i]
          /\ tokens'[n + 1] = buf
      BY <2>2, <2>6, <2>7, AppendProperties
    <2>9. tokens' = [i \in 1 .. n + 1 |-> tokens'[i]]
      <3>1. tokens' \in [1 .. Len(tokens') -> W]
        BY <2>8, LenProperties
      <3>2. tokens' \in [1 .. n + 1 -> W]
        BY <2>8, <3>1
      <3> QED BY <3>2
    <2>10. ASSUME NEW i \in 1 .. n + 1 PROVE tokens'[i] = raw'[i].token
      <3>1. CASE i = n + 1
        BY <2>4, <2>8, <3>1
      <3>2. CASE i # n + 1
        <4>1. i \in 1 .. n
          BY <2>4, <3>2
        <4>2. tokens[i] = raw[i].token
          BY <1>1, <2>3, <4>1
        <4> QED BY <2>4, <2>8, <4>1, <4>2
      <3> QED BY <3>1, <3>2
    <2>11. [i \in 1 .. n + 1 |-> tokens'[i]] = [i \in 1 .. n + 1 |-> raw'[i].token]
      BY <2>10
    <2>12. tokens' = [i \in 1 .. Len(raw') |-> raw'[i].token]
      BY <2>4, <2>9, <2>11
    <2> QED BY <1>1, <2>2, <2>12
  <1>3. CASE ~Token
    <2>1. phase' # "glob" /\ tokens' = tokens
      <3>1. CASE Chew
        BY <1>1, <3>1, ChewDoes
      <3>2. CASE OtherStep
        BY <1>1, <1>3, <3>2 DEF OtherStep, NoToken, Interrupt, Execute, GlobEnds, lineVars
      <3> QED BY <3>1, <3>2 DEF LineSteps
    <2> QED BY <1>1, <1>3, <2>1, NotEnded
  <1> QED BY <1>2, <1>3

\* What is held: one character more, or what was held.
LEMMA HeldStep ==
  ASSUME ReadInv, TokenTypes, LineSteps
  PROVE  IF Chew /\ Kept THEN Held' = Held \cup {at + 1} ELSE Held' = Held
  <1>1. CASE Token
    <2>1. ~Chew
      BY <1>1 DEF Chew, Token
    <2>2. Held' = KeptPlaces'
      BY <1>1, TokenEmpties DEF Held
    <2> QED BY <1>1, <2>1, <2>2, RawMore DEF Held
  <1>2. CASE Chew /\ Kept
    <2>1. KeptPlaces' = KeptPlaces
      <3>1. raw' = raw
        BY <1>2, ChewDoes DEF history
      <3> QED BY <3>1, RawSame
    <2>2. PICK n : n = Len(from)
      OBVIOUS
    <2>3. /\ n \in Nat /\ Len(from') = n + 1 /\ from'[n + 1] = at + 1
          /\ \A k \in 1 .. n : from'[k] = from[k]
      <3>1. from' = Append(from, at + 1) /\ at + 1 \in Nat /\ from \in Seq(Nat)
        BY <1>2, TextIs DEF Kept, TokenTypes
      <3> QED BY <2>2, <3>1, AppendProperties, LenProperties
    <2>4. 1 .. n + 1 = (1 .. n) \cup {n + 1}
      BY <2>3
    <2>5. {from'[k] : k \in 1 .. n + 1} = {from[k] : k \in 1 .. n} \cup {at + 1}
      BY <2>3, <2>4
    <2> QED BY <1>2, <2>1, <2>2, <2>3, <2>5 DEF Held
  <1>3. CASE ~Token /\ ~(Chew /\ Kept)
    <2>1. from' = from
      <3>1. CASE Chew
        BY <1>3, <3>1, ChewDoes DEF Dropped
      <3>2. CASE OtherStep
        BY <1>3, <3>2 DEF OtherStep, NoToken, Interrupt, Execute, GlobEnds, lineVars, chewing
      <3> QED BY <3>1, <3>2 DEF LineSteps
    <2>2. KeptPlaces' = KeptPlaces
      BY <1>3, NotEnded, RawSame
    <2>3. Held' = Held
      BY <2>1, <2>2 DEF Held
    <2> QED BY <1>3, <2>3
  <1> QED BY <1>1, <1>2, <1>3

\* The end of the tokens.
LEMMA EndOfLine ==
  ASSUME TokenTypes, NoToken, ended' = "line"
  PROVE  rest' = <<>> /\ state' # 8 /\ buf' = <<>>
  <1>1. Len(buf) # BufSize
    BY DEF NoToken
  <1>2. buf = <<>> /\ state # 8 /\ state # 9
    BY <1>1 DEF NoToken
  <1>3. rest = <<>>
    <2>1. Len(buf) < BufSize
      BY <1>1, <1>2, LineAssumption
    <2> QED BY <1>2, <2>1 DEF NoToken, Chews
  <1> QED BY <1>2, <1>3 DEF NoToken, chewing

\* LettersInv is inductive: what Chew drops is no letter, or in a comment.
LEMMA LettersStep ==
  ASSUME ReadInv, TokenTypes, ControlTypes, BufInv, LettersInv, LineSteps
  PROVE  LettersInv'
  <1>0. /\ at \in Nat /\ Held \subseteq 1 .. at
        /\ line' = line
    BY TextIs, NotEnded, TokenEmpties DEF LettersInv
  <1>1. phase' \in {"execute", "prompt", "quit"} /\ ended' = "line" =>
          rest' = <<>> /\ state' # 8 /\ buf' = <<>>
    <2>1. CASE NoToken
      BY <2>1, EndOfLine
    <2>2. CASE Chew
      BY <2>2, ChewDoes
    <2>3. CASE Token
      BY <2>3 DEF Token
    <2>4. CASE Interrupt
      BY <2>4 DEF Interrupt
    <2>5. CASE Execute
      BY <2>5 DEF Execute, LettersInv, chewing, history
    <2>6. ASSUME NEW names, NEW fails, GlobEnds(names, fails) PROVE phase' = "chew"
      BY <2>6 DEF GlobEnds
    <2>7. CASE UNCHANGED lineVars
      BY <2>7 DEF lineVars, LettersInv, chewing, history
    <2> QED BY <2>1, <2>2, <2>3, <2>4, <2>5, <2>6, <2>7 DEF LineSteps, OtherStep
  <1>2. CASE Chew
    <2>1. at' = at + 1 /\ NextChar = line.text[at + 1] /\ rest # <<>>
      BY <1>2, ChewReads DEF NextChar, Chew, Chews
    <2>2. CASE Kept
      <3>1. Held' = Held \cup {at + 1}
        BY <1>2, <2>2, HeldStep
      <3>2. Held' \subseteq 1 .. at'
        BY <1>0, <2>1, <3>1
      <3>3. state # 8 /\ state' # 8
        BY <2>2 DEF Kept
      <3>4. Covered(at)
        BY <2>1, <3>3 DEF LettersInv, CommentAt
      <3>5. \A p \in 1 .. at + 1 : Letter(line.text[p]) => p \in Held'
        <4> SUFFICES ASSUME NEW p \in 1 .. at + 1, Letter(line.text[p]), p # at + 1
                     PROVE  p \in Held
          BY <3>1
        <4>1. p \in 1 .. at
          BY <1>0
        <4> QED BY <3>4, <4>1 DEF Covered
      <3>6. Covered(at)'
        BY <1>0, <2>1, <3>5 DEF Covered
      <3> QED BY <1>1, <3>2, <3>3, <3>6 DEF LettersInv
    <2>3. CASE Dropped
      <3>1. Held' = Held
        <4>1. ~Kept
          <5>1. Kept => Len(buf') = Len(buf) + 1
            BY <1>2, ChewReads, TextIs, AppendProperties DEF Kept, TokenTypes, NextChar
          <5>2. Len(buf') = Len(buf)
            BY <2>3 DEF Dropped
          <5>3. Len(buf) \in Nat
            BY LenProperties DEF TokenTypes
          <5> QED BY <5>1, <5>2, <5>3
        <4> QED BY <4>1, HeldStep
      <3>2. Held' \subseteq 1 .. at'
        BY <1>0, <2>1, <3>1
      <3>3. \A n : Covered(n)' <=> Covered(n)
        BY <1>0, <3>1 DEF Covered
      <3>4. ASSUME NEW p \in 1 .. at, CommentAt(p) PROVE \E c \in 1 .. at' : CommentAt(c)'
        <4>1. state = 8
          BY <2>1, <3>4 DEF CommentAt
        <4>2. state' = 8
          BY <2>3, <4>1 DEF Dropped
        <4>3. p \in 1 .. at'
          BY <1>0, <2>1
        <4>4. /\ line'.text[p] = "#" /\ Covered(p - 1)'
              /\ \A q \in Held' : q < p
          BY <1>0, <3>1, <3>3, <3>4 DEF CommentAt
        <4> QED BY <4>2, <4>3, <4>4 DEF CommentAt
      <3>5. CASE state # 8 /\ state' = 8 /\ Covered(at)
        <4>1. NextChar = "#"
          BY <2>3, <3>5 DEF Dropped
        <4>2. PICK c : c = at + 1
          OBVIOUS
        <4>3. c \in 1 .. at' /\ c - 1 = at /\ \A q \in Held' : q < c
          BY <1>0, <2>1, <3>1, <4>2
        <4>4. Covered(c - 1)
          BY <3>5, <4>3
        <4>5. line'.text[c] = "#" /\ Covered(c - 1)'
          BY <1>0, <2>1, <3>3, <4>1, <4>2, <4>4
        <4>6. CommentAt(c)'
          BY <3>5, <4>3, <4>5 DEF CommentAt
        <4> QED BY <1>1, <3>2, <4>3, <4>6 DEF LettersInv
      <3>6. CASE state # 8 /\ state' # 8 /\ Covered(at)
        <4>1. ~Letter(NextChar)
          BY <2>3, <3>6 DEF Dropped, Letter, ControlTypes
        <4>2. \A p \in 1 .. at + 1 : Letter(line.text[p]) => p \in Held
          <5> SUFFICES ASSUME NEW p \in 1 .. at + 1, Letter(line.text[p]) PROVE p \in Held
            OBVIOUS
          <5>1. p # at + 1
            BY <2>1, <4>1
          <5>2. p \in 1 .. at
            BY <1>0, <5>1
          <5> QED BY <3>6, <5>2 DEF Covered
        <4>3. Covered(at)'
          BY <1>0, <2>1, <3>1, <4>2 DEF Covered
        <4> QED BY <1>1, <3>2, <3>6, <4>3 DEF LettersInv
      <3> QED BY <1>1, <3>2, <3>4, <3>5, <3>6 DEF LettersInv
    <2> QED BY <1>2, <2>2, <2>3, ChewDoes
  <1>3. CASE OtherStep
    <2>1. at' = at /\ rest' = rest
      BY <1>3, OthersRead
    <2>2. Held' = Held
      <3>1. ~Chew \/ at' = at + 1
        BY ChewReads
      <3>2. ~Chew
        BY <1>0, <2>1, <3>1
      <3> QED BY <3>2, HeldStep
    <2>3. \A n : Covered(n)' <=> Covered(n)
      BY <1>0, <2>2 DEF Covered
    <2>4. \/ state' = state
          \/ state' = 0 /\ (state = 8 => rest = <<>>)
      <3>1. CASE Token
        <4>1. Len(buf) < BufSize /\ ~Chews /\ state' = 0
          BY <3>1 DEF Token
        <4> QED BY <4>1 DEF Chews
      <3>2. CASE ~Token
        BY <1>3, <3>2 DEF OtherStep, NoToken, Interrupt, Execute, GlobEnds, lineVars, chewing
      <3> QED BY <3>1, <3>2
    <2>5. Held' \subseteq 1 .. at'
      BY <1>0, <2>1, <2>2
    <2>6. ASSUME NEW p \in 1 .. at, CommentAt(p) PROVE \E c \in 1 .. at' : CommentAt(c)'
      <3>1. state' = 8 \/ rest' = <<>>
        BY <2>1, <2>4, <2>6 DEF CommentAt
      <3>2. /\ line'.text[p] = "#" /\ Covered(p - 1)'
            /\ \A q \in Held' : q < p
        BY <1>0, <2>2, <2>3, <2>6 DEF CommentAt
      <3>3. p \in 1 .. at'
        BY <2>1
      <3> QED BY <3>1, <3>2, <3>3 DEF CommentAt
    <2>7. CASE state # 8 /\ Covered(at)
      <3>1. state' # 8
        BY <2>4, <2>7
      <3>2. Covered(at)'
        BY <1>0, <2>1, <2>2, <2>7 DEF Covered
      <3> QED BY <1>1, <2>5, <3>1, <3>2 DEF LettersInv
    <2> QED BY <1>1, <2>5, <2>6, <2>7 DEF LettersInv
  <1> QED BY <1>2, <1>3 DEF LineSteps

\* What argument i of a quoted line is.
ArgumentIs(i) ==
  /\ line.args[i] \in Seq(STRING) /\ Len(line.args[i]) \in 1 .. BufSize - 1
  /\ line.open[i] \in 1 .. Len(line.text)
  /\ ~Contains(line.args[i], star)
  /\ QuoteOf(i) \in Quotes /\ line.text[CloseOf(i)] = QuoteOf(i)
  /\ \/ i = Len(line.args) /\ Len(line.text) = CloseOf(i)
     \/ /\ i + 1 \in 1 .. Len(line.args) /\ line.text[CloseOf(i) + 1] = blank
        /\ line.open[i + 1] = CloseOf(i) + 2
  /\ \A j \in 0 .. Len(line.args[i]) : PlaceOf(i, j) \in 1 .. Len(line.text)
  /\ \A j \in 0 .. Len(line.args[i]) - 1 :
       /\ line.text[PlaceOf(i, j + 1)] = line.args[i][j + 1]
       /\ IF line.args[i][j + 1] \in {QuoteOf(i), "\\"}
          THEN /\ PlaceOf(i, j + 1) = PlaceOf(i, j) + 2
               /\ line.text[PlaceOf(i, j) + 1] = "\\"
          ELSE PlaceOf(i, j + 1) = PlaceOf(i, j) + 1

\* What a quoted line is.
LEMMA QuotedLines ==
  ASSUME ReadInv, line.args # FREE
  PROVE  /\ line.args \in Seq(Seq(STRING)) /\ Len(line.args) \in Nat \ {0}
         /\ line.open[1] \in 3 .. BufSize + 1 /\ line.text[line.open[1] - 1] = blank
         /\ \A k \in 1 .. line.open[1] - 2 : line.text[k] \notin Quotes \cup {blank, "#", "\\"}
         /\ \A i \in 1 .. Len(line.args) : ArgumentIs(i)
  <1>1. line \in Lines
    BY DEF ReadInv
  <1>2. IsQuoted(line) /\ line.text \in Seq(STRING)
    BY <1>1, LineAssumption
  <1>3. /\ line.args \in Seq(Seq(STRING)) /\ line.args # <<>>
        /\ line.open \in Seq(DOMAIN line.text) /\ line.place \in Seq(Seq(DOMAIN line.text))
        /\ Len(line.open) = Len(line.args) /\ Len(line.place) = Len(line.args)
        /\ line.open[1] \in 3 .. BufSize + 1 /\ line.text[line.open[1] - 1] = blank
        /\ \A k \in 1 .. line.open[1] - 2 : line.text[k] \notin Quotes \cup {blank, "#", "\\"}
    BY <1>2 DEF IsQuoted
  <1>4. Len(line.args) \in Nat \ {0} /\ DOMAIN line.text = 1 .. Len(line.text) /\ Len(line.text) \in Nat
    BY <1>2, <1>3, LenProperties, EmptySeq
  <1>5. ASSUME NEW i \in 1 .. Len(line.args)
        PROVE  ArgumentIs(i)
    <2>1. /\ line.args[i] \in Seq(STRING) /\ line.open[i] \in DOMAIN line.text
          /\ line.place[i] \in Seq(DOMAIN line.text)
      BY <1>3, ElementOfSeq
    <2>2. PICK m : m = Len(line.args[i])
      OBVIOUS
    <2>3. /\ line.text[line.open[i]] \in Quotes /\ line.text[line.place[i][m] + 1] = line.text[line.open[i]]
          /\ m \in 1 .. BufSize - 1 /\ ~Contains(line.args[i], star)
          /\ Len(line.place[i]) = m
          /\ IF i = Len(line.args) THEN Len(line.text) = line.place[i][m] + 1
             ELSE line.text[(line.place[i][m] + 1) + 1] = blank /\ line.open[i + 1] = (line.place[i][m] + 1) + 2
      BY <1>2, <2>2 DEF IsQuoted
    <2>4. ASSUME NEW j \in 1 .. m
          PROVE  LET before == IF j = 1 THEN line.open[i] ELSE line.place[i][j - 1]
                 IN /\ line.text[line.place[i][j]] = line.args[i][j]
                    /\ IF line.args[i][j] \in {line.text[line.open[i]], "\\"}
                       THEN line.place[i][j] = before + 2 /\ line.text[before + 1] = "\\"
                       ELSE line.place[i][j] = before + 1
      BY <1>2, <2>2, <2>4 DEF IsQuoted
    <2>5. m \in Nat \ {0} /\ QuoteOf(i) = line.text[line.open[i]] /\ CloseOf(i) = line.place[i][m] + 1
      <3>1. m \in Nat \ {0}
        BY <2>3, LineAssumption
      <3> QED BY <1>1, <2>2, <3>1 DEF QuoteOf, CloseOf, PlaceOf
    <2>6. i = Len(line.args) \/ i + 1 \in 1 .. Len(line.args)
      BY <1>4
    <2>7. ASSUME NEW j \in 0 .. m PROVE PlaceOf(i, j) \in 1 .. Len(line.text)
      <3>1. CASE j = 0
        BY <1>1, <1>4, <2>1, <3>1 DEF PlaceOf
      <3>2. CASE j # 0
        <4>1. j \in 1 .. Len(line.place[i])
          BY <2>3, <2>5, <3>2
        <4>2. line.place[i][j] \in DOMAIN line.text
          BY <2>1, <4>1, ElementOfSeq
        <4> QED BY <1>1, <1>4, <3>2, <4>2 DEF PlaceOf
      <3> QED BY <3>1, <3>2
    <2>8. ASSUME NEW j \in 0 .. m - 1
          PROVE  /\ line.text[PlaceOf(i, j + 1)] = line.args[i][j + 1]
                 /\ IF line.args[i][j + 1] \in {QuoteOf(i), "\\"}
                    THEN /\ PlaceOf(i, j + 1) = PlaceOf(i, j) + 2
                         /\ line.text[PlaceOf(i, j) + 1] = "\\"
                    ELSE PlaceOf(i, j + 1) = PlaceOf(i, j) + 1
      <3>1. PICK p : p = j + 1
        OBVIOUS
      <3>2. p \in 1 .. m /\ p # 0 /\ p - 1 = j /\ (p = 1 <=> j = 0)
        BY <2>5, <3>1
      <3>3. PICK before : before = IF p = 1 THEN line.open[i] ELSE line.place[i][p - 1]
        OBVIOUS
      <3>4. before = PlaceOf(i, j) /\ line.place[i][p] = PlaceOf(i, p)
        BY <1>1, <3>2, <3>3 DEF PlaceOf
      <3>5. /\ line.text[line.place[i][p]] = line.args[i][p]
            /\ IF line.args[i][p] \in {line.text[line.open[i]], "\\"}
               THEN line.place[i][p] = before + 2 /\ line.text[before + 1] = "\\"
               ELSE line.place[i][p] = before + 1
        BY <2>4, <3>2, <3>3
      <3> QED BY <2>5, <3>1, <3>4, <3>5
    <2>9. \/ i = Len(line.args) /\ Len(line.text) = CloseOf(i)
          \/ /\ i + 1 \in 1 .. Len(line.args) /\ line.text[CloseOf(i) + 1] = blank
             /\ line.open[i + 1] = CloseOf(i) + 2
      BY <2>3, <2>5, <2>6
    <2>10. line.open[i] \in 1 .. Len(line.text)
      BY <1>4, <2>1
    <2> QED BY <2>1, <2>2, <2>3, <2>5, <2>7, <2>8, <2>9, <2>10 DEF ArgumentIs
  <1> QED BY <1>3, <1>4, <1>5

\* What Chew does to the length of buf.
LEMMA BufGrows ==
  ASSUME ReadInv, TokenTypes, Chew
  PROVE  /\ Len(buf) \in Nat
         /\ Kept => /\ Len(buf') = Len(buf) + 1 /\ buf'[Len(buf) + 1] = NextChar
                    /\ \A h \in 1 .. Len(buf) : buf'[h] = buf[h]
         /\ Dropped => buf' = buf
  <1>1. NextChar \in STRING
    BY ChewReads, TextIs DEF NextChar
  <1>2. buf \in Seq(STRING)
    BY DEF TokenTypes
  <1>3. Kept => /\ Len(buf') = Len(buf) + 1 /\ buf'[Len(buf) + 1] = NextChar
                /\ \A h \in 1 .. Len(buf) : buf'[h] = buf[h]
    BY <1>1, <1>2, AppendProperties DEF Kept
  <1> QED BY <1>2, <1>3, LenProperties DEF Dropped

\* Chew reads the name of a quoted line.
LEMMA NameRead ==
  ASSUME ReadInv, TokenTypes, line.args # FREE, InName, Chew
  PROVE  InName'
  <1>1. /\ at' = at + 1 /\ line' = line /\ phase' = "chew" /\ phase = "chew" /\ state # 9
        /\ at \in Nat /\ Len(buf) \in Nat /\ NextChar = line.text[at + 1]
    BY ChewReads, ChewDoes, TextIs, BufGrows DEF NextChar
  <1>2. PICK o \in Nat : o = line.open[1] /\ o >= 3
    BY QuotedLines, LineAssumption
  <1>3. \A k \in 1 .. o - 2 : line.text[k] \notin Quotes \cup {blank, "#", "\\"}
    BY <1>2, QuotedLines
  <1>4. line.text[o - 1] = blank
    BY <1>2, QuotedLines
  <1>5. CASE at + 1 \in 1 .. o - 2 /\ state \in {0, 1} /\ Len(buf) = at
    <2>1. NextChar \notin Quotes \cup {blank, "#", "\\"}
      BY <1>1, <1>3, <1>5
    <2>2. Kept /\ state' = 1
      BY <1>5, <2>1, ChewDoes DEF Kept, Dropped
    <2>3. Len(buf') = at'
      BY <1>1, <1>5, <2>2, BufGrows
    <2>4. at' \in 1 .. line'.open[1] - 2
      BY <1>1, <1>2, <1>5
    <2>5. phase' = "chew"
      BY <1>1
    <2> QED BY <2>2, <2>3, <2>4, <2>5 DEF InName
  <1>6. CASE at + 1 = o - 1 /\ state = 1 /\ Len(buf) = at
    <2>1. NextChar = blank
      BY <1>1, <1>4, <1>6
    <2>2. Dropped /\ state' = 9
      <3>1. state = 1 /\ (Kept \/ Dropped)
        BY <1>6, ChewDoes
      <3>2. blank # "#" /\ blank # "\\"
        BY DEF blank
      <3> QED BY <2>1, <3>1, <3>2 DEF Kept, Dropped
    <2>3. Len(buf') = at' - 1
      BY <1>1, <1>6, <2>2, BufGrows
    <2> QED BY <1>1, <1>2, <1>6, <2>2, <2>3 DEF InName
  <1>7. \/ at + 1 \in 1 .. o - 2 /\ state \in {0, 1} /\ Len(buf) = at
        \/ at + 1 = o - 1 /\ state = 1 /\ Len(buf) = at
    <2>1. \/ at = 0 /\ state = 0 /\ Len(buf) = 0
          \/ at \in 1 .. o - 2 /\ state = 1 /\ Len(buf) = at
      BY <1>1, <1>2 DEF InName
    <2> QED BY <1>1, <1>2, <2>1
  <1> QED BY <1>5, <1>6, <1>7

\* The places are those of the line.
LEMMA SamePlaces ==
  ASSUME line' = line
  PROVE  \A i : /\ QuoteOf(i)' = QuoteOf(i) /\ CloseOf(i)' = CloseOf(i)
                /\ \A j : PlaceOf(i, j)' = PlaceOf(i, j)
  BY DEF QuoteOf, CloseOf, PlaceOf

\* Arguments are shorter than the buffer, and end within the line.
LEMMA MoreToRead ==
  ASSUME ReadInv, TokenTypes, line.args # FREE, NEW i \in 1 .. Len(line.args), NEW j \in Nat,
         InArgument(i, j)
  PROVE  /\ Len(buf) < BufSize
         /\ state # 9 => rest # <<>> /\ Chews
         /\ state = 9 => Len(buf) = Len(line.args[i]) /\ Len(buf) # 0
  <1>1. ArgumentIs(i)
    BY QuotedLines
  <1>2. PICK m : m = Len(line.args[i])
    OBVIOUS
  <1>3. m \in 1 .. BufSize - 1 /\ BufSize \in Nat
    BY <1>1, <1>2, LineAssumption DEF ArgumentIs
  <1>4. j \in 0 .. m /\ Len(buf) = j
    BY <1>2 DEF InArgument
  <1>5. state = 9 => Len(buf) = m /\ Len(buf) # 0
    BY <1>2, <1>3 DEF InArgument
  <1>6. ASSUME state # 9 PROVE at # Len(line.text)
    <2>1. /\ CloseOf(i) = PlaceOf(i, m) + 1
          /\ CloseOf(i) <= Len(line.text) \/ (i + 1 \in 1 .. Len(line.args) /\ line.open[i + 1] = CloseOf(i) + 2)
      <3>1. PICK L : L = Len(line.text) /\ L \in Nat
        BY TextIs
      <3>2. CloseOf(i) = PlaceOf(i, m) + 1
        BY <1>2 DEF CloseOf
      <3>3. PlaceOf(i, m) \in 1 .. L
        BY <1>1, <1>2, <1>3, <3>1 DEF ArgumentIs
      <3> QED BY <1>1, <3>1, <3>2, <3>3 DEF ArgumentIs
    <2>2. CloseOf(i) <= Len(line.text)
      <3>1. CASE i + 1 \in 1 .. Len(line.args) /\ line.open[i + 1] = CloseOf(i) + 2
        <4>1. line.open[i + 1] \in 1 .. Len(line.text)
          BY <3>1, QuotedLines DEF ArgumentIs
        <4>2. PlaceOf(i, m) \in 1 .. Len(line.text)
          BY <1>1, <1>2, <1>3 DEF ArgumentIs
        <4> QED BY <2>1, <3>1, <4>1, <4>2, TextIs
      <3> QED BY <2>1, <3>1
    <2>3. PlaceOf(i, j) \in 1 .. Len(line.text) /\ PlaceOf(i, m) \in 1 .. Len(line.text)
      BY <1>1, <1>2, <1>3, <1>4 DEF ArgumentIs
    <2>4. CASE state = 2 /\ at = PlaceOf(i, j) /\ j = m
      BY <2>1, <2>2, <2>3, <2>4, TextIs
    <2>5. CASE j < m
      <3>1. j \in 0 .. m - 1
        BY <1>3, <1>4, <2>5
      <3>2. /\ PlaceOf(i, j + 1) = PlaceOf(i, j) + 2 \/ PlaceOf(i, j + 1) = PlaceOf(i, j) + 1
            /\ line.args[i][j + 1] \in {QuoteOf(i), "\\"} => PlaceOf(i, j + 1) = PlaceOf(i, j) + 2
        BY <1>1, <1>2, <3>1 DEF ArgumentIs
      <3>3. PlaceOf(i, j + 1) \in 1 .. Len(line.text)
        <4>1. j + 1 \in 0 .. m
          BY <1>3, <3>1
        <4> QED BY <1>1, <1>2, <4>1 DEF ArgumentIs
      <3>4. at = PlaceOf(i, j) \/ (at = PlaceOf(i, j) + 1 /\ PlaceOf(i, j + 1) = PlaceOf(i, j) + 2)
        BY <1>6, <3>2 DEF InArgument
      <3> QED BY <2>3, <3>2, <3>3, <3>4, TextIs
    <2>6. j < m \/ (state = 2 /\ at = PlaceOf(i, j) /\ j = m)
      <3>1. j < m \/ j = m
        BY <1>3, <1>4
      <3> QED BY <1>2, <1>6, <3>1 DEF InArgument
    <2> QED BY <2>4, <2>5, <2>6
  <1>7. Len(buf) < BufSize
    BY <1>3, <1>4
  <1> QED BY <1>2, <1>5, <1>6, <1>7, TextIs DEF Chews

\* Chew reads the next character of an argument, or its backslash, or its end.
LEMMA ArgumentRead ==
  ASSUME ReadInv, TokenTypes, ControlTypes, line.args # FREE,
         NEW i \in 1 .. Len(line.args), NEW j \in Nat, InArgument(i, j), Chew
  PROVE  \E h \in Nat : InArgument(i, h)'
  <1>1. /\ at' = at + 1 /\ line' = line /\ state # 9
        /\ at \in Nat /\ Len(buf) \in Nat /\ NextChar = line.text[at + 1]
    BY ChewReads, ChewDoes, TextIs, BufGrows DEF NextChar
  <1>2. ArgumentIs(i)
    BY QuotedLines
  <1>3. PICK m : m = Len(line.args[i])
    OBVIOUS
  <1>4. m \in Nat /\ j \in 0 .. m /\ Len(buf) = j
    BY <1>2, <1>3, LineAssumption DEF ArgumentIs, InArgument
  <1>5. /\ quote = QuoteOf(i) /\ quote \in Quotes /\ quote # "\\"
        /\ line.text[CloseOf(i)] = quote
        /\ \A h \in 1 .. j : buf[h] = line.args[i][h]
    BY <1>2 DEF ArgumentIs, InArgument, Quotes
  <1>6. QuoteOf(i)' = QuoteOf(i) /\ CloseOf(i)' = CloseOf(i) /\ \A h : PlaceOf(i, h)' = PlaceOf(i, h)
    BY <1>1, SamePlaces
  <1>7. CloseOf(i) = PlaceOf(i, m) + 1 /\ PlaceOf(i, j) \in Nat
    BY <1>2, <1>3, <1>4, TextIs DEF CloseOf, ArgumentIs
  <1>8. CASE state = 2 /\ at = PlaceOf(i, j) /\ j = m
    <2>1. NextChar = quote
      BY <1>1, <1>5, <1>7, <1>8
    <2>2. Dropped /\ state' = 9
      BY <1>5, <1>8, <2>1, ChewDoes DEF Kept, Dropped
    <2>3. buf' = buf /\ quote' = quote
      BY <2>2 DEF Dropped
    <2>4. at' = CloseOf(i)
      BY <1>1, <1>7, <1>8
    <2>5. InArgument(i, m)'
      <3>1. line'.args = line.args
        BY <1>1
      <3> QED BY <1>3, <1>4, <1>5, <1>6, <1>8, <2>2, <2>3, <2>4, <3>1 DEF InArgument
    <2> QED BY <1>4, <2>5
  <1>9. CASE j < m
    <2>0. j \in 0 .. m - 1 /\ j + 1 \in 0 .. m /\ j + 1 \in Nat
      BY <1>4, <1>9
    <2>1. /\ line.text[PlaceOf(i, j + 1)] = line.args[i][j + 1]
          /\ IF line.args[i][j + 1] \in {quote, "\\"}
             THEN /\ PlaceOf(i, j + 1) = PlaceOf(i, j) + 2
                  /\ line.text[PlaceOf(i, j) + 1] = "\\"
             ELSE PlaceOf(i, j + 1) = PlaceOf(i, j) + 1
      BY <1>2, <1>3, <1>5, <2>0 DEF ArgumentIs
    <2>2. ASSUME Kept, state' = 2, NextChar = line.args[i][j + 1], at + 1 = PlaceOf(i, j + 1)
          PROVE  InArgument(i, j + 1)'
      <3>1. /\ Len(buf') = j + 1 /\ buf'[j + 1] = line.args[i][j + 1]
            /\ \A h \in 1 .. j : buf'[h] = buf[h]
        BY <1>4, <2>2, BufGrows
      <3>2. \A h \in 1 .. j + 1 : buf'[h] = line.args[i][h]
        <4> SUFFICES ASSUME NEW h \in 1 .. j + 1 PROVE buf'[h] = line.args[i][h]
          OBVIOUS
        <4>1. h = j + 1 \/ h \in 1 .. j
          OBVIOUS
        <4> QED BY <1>5, <3>1, <4>1
      <3>3. quote' = quote
        BY <2>2 DEF Kept
      <3>4. at' = PlaceOf(i, j + 1)
        BY <1>1, <2>2
      <3>5. PICK h : h = j + 1
        OBVIOUS
      <3>6. InArgument(i, h)'
        <4>1. line'.args = line.args /\ h \in 0 .. m /\ at' = PlaceOf(i, h)'
          BY <1>1, <1>6, <2>0, <3>4, <3>5
        <4> QED BY <1>3, <1>5, <1>6, <2>2, <3>1, <3>2, <3>3, <3>5, <4>1 DEF InArgument
      <3> QED BY <3>5, <3>6
    <2>3. CASE state = 2 /\ at = PlaceOf(i, j) /\ line.args[i][j + 1] \notin {quote, "\\"}
      <3>1. NextChar = line.args[i][j + 1] /\ at + 1 = PlaceOf(i, j + 1)
        BY <1>1, <2>1, <2>3
      <3>2. Kept /\ state' = 2
        BY <2>3, <3>1, ChewDoes DEF Kept, Dropped
      <3> QED BY <2>0, <2>2, <3>1, <3>2
    <2>4. CASE state = 2 /\ at = PlaceOf(i, j) /\ line.args[i][j + 1] \in {quote, "\\"}
      <3>1. NextChar = "\\"
        BY <1>1, <2>1, <2>4
      <3>2. Dropped /\ state' = 4
        BY <1>5, <2>4, <3>1, ChewDoes DEF Kept, Dropped
      <3>3. buf' = buf /\ quote' = quote
        BY <3>2 DEF Dropped
      <3>4. at' = PlaceOf(i, j) + 1
        BY <1>1, <2>4
      <3>5. InArgument(i, j)'
        <4>1. line'.args = line.args
          BY <1>1
        <4> QED BY <1>3, <1>4, <1>5, <1>6, <1>9, <2>4, <3>2, <3>3, <3>4, <4>1 DEF InArgument
      <3> QED BY <3>5
    <2>5. CASE state = 4 /\ at = PlaceOf(i, j) + 1 /\ line.args[i][j + 1] \in {quote, "\\"}
      <3>1. at + 1 = PlaceOf(i, j + 1)
        <4>1. PlaceOf(i, j + 1) = PlaceOf(i, j) + 2
          BY <2>1, <2>5
        <4> QED BY <1>7, <2>5, <4>1
      <3>2. NextChar = line.args[i][j + 1]
        BY <1>1, <2>1, <3>1
      <3>3. Kept /\ state' = 2
        BY <2>5, ChewDoes DEF Kept, Dropped
      <3> QED BY <2>0, <2>2, <3>1, <3>2, <3>3
    <2>6. \/ state = 2 /\ at = PlaceOf(i, j)
          \/ state = 4 /\ at = PlaceOf(i, j) + 1 /\ line.args[i][j + 1] \in {quote, "\\"}
      BY <1>1, <1>5 DEF InArgument
    <2> QED BY <2>3, <2>4, <2>5, <2>6
  <1>10. j < m \/ (state = 2 /\ at = PlaceOf(i, j) /\ j = m)
    <2>1. j < m \/ j = m
      BY <1>4
    <2> QED BY <1>1, <1>3, <2>1 DEF InArgument
  <1> QED BY <1>8, <1>9, <1>10

\* Chew reads the blank before an argument, or its opening quote.
LEMMA BetweenRead ==
  ASSUME ReadInv, TokenTypes, line.args # FREE, NEW k \in 0 .. Len(line.args),
         BetweenArguments(k), Chew
  PROVE  BetweenArguments(k)' \/ (k < Len(line.args) /\ InArgument(k + 1, 0)')
  <1>1. /\ at' = at + 1 /\ line' = line /\ at + 1 \in 1 .. Len(line.text)
        /\ at \in Nat /\ Len(buf) = 0 /\ NextChar = line.text[at + 1] /\ state = 0
        /\ Kept \/ Dropped
    BY ChewReads, ChewDoes, TextIs DEF NextChar, BetweenArguments
  <1>2. PICK n \in Nat : n = Len(line.args) /\ k \in 0 .. n
    BY QuotedLines
  <1>3. CASE k < n /\ at = line.open[k + 1] - 1
    <2>1. k + 1 \in 1 .. n
      BY <1>2, <1>3
    <2>2. ArgumentIs(k + 1)
      BY <1>2, <2>1, QuotedLines
    <2>3. line.open[k + 1] \in Nat /\ QuoteOf(k + 1) \in Quotes
      BY <2>2, TextIs DEF ArgumentIs
    <2>4. at + 1 = line.open[k + 1]
      BY <1>1, <1>3, <2>3
    <2>5. NextChar = QuoteOf(k + 1)
      BY <1>1, <2>4 DEF QuoteOf
    <2>6. Dropped /\ state' = 2 /\ quote' = NextChar
      <3>1. \A q \in Quotes : q # "#" /\ q # blank
        BY DEF Quotes, blank
      <3> QED BY <1>1, <2>3, <2>5, <3>1 DEF Kept, Dropped
    <2>7. Len(buf') = 0 /\ 1 .. 0 = {} /\ 0 \in 0 .. Len(line'.args[k + 1])
      <3>1. Len(line.args[k + 1]) \in Nat
        BY <2>2, LenProperties DEF ArgumentIs
      <3>2. 0 \in 0 .. Len(line.args[k + 1])
        BY <3>1
      <3> QED BY <1>1, <2>6, <3>2 DEF Dropped
    <2>8. PICK i : i = k + 1
      OBVIOUS
    <2>9. QuoteOf(i)' = QuoteOf(i) /\ PlaceOf(i, 0)' = line.open[i]
      BY <1>1 DEF QuoteOf, PlaceOf
    <2>10. InArgument(i, 0)'
      BY <1>1, <2>4, <2>5, <2>6, <2>7, <2>8, <2>9 DEF InArgument
    <2> QED BY <1>2, <1>3, <2>8, <2>10
  <1>4. CASE k > 0 /\ at = CloseOf(k)
    <2>1. k \in 1 .. n
      BY <1>2, <1>4
    <2>2. ArgumentIs(k)
      BY <1>2, <2>1, QuotedLines
    <2>3. k # n
      <3>1. at # Len(line.text)
        BY <1>1, TextIs
      <3>2. k = n => k + 1 \notin 1 .. n
        BY <1>2
      <3> QED BY <1>2, <1>4, <2>2, <3>1, <3>2 DEF ArgumentIs
    <2>4. line.text[CloseOf(k) + 1] = blank /\ line.open[k + 1] = CloseOf(k) + 2
      BY <1>2, <2>2, <2>3 DEF ArgumentIs
    <2>5. NextChar = blank
      BY <1>1, <1>4, <2>4
    <2>6. Dropped /\ state' = 0
      <3>1. \A q \in Quotes : q # blank
        BY DEF Quotes, blank
      <3>2. blank # "#"
        BY DEF blank
      <3> QED BY <1>1, <2>5, <3>1, <3>2 DEF Kept, Dropped
    <2>7. at' = line.open[k + 1] - 1 /\ k < n
      BY <1>1, <1>2, <1>4, <2>1, <2>3, <2>4
    <2>8. Len(buf') = 0
      BY <1>1, <2>6 DEF Dropped
    <2> QED BY <1>1, <1>2, <2>6, <2>7, <2>8 DEF BetweenArguments
  <1> QED BY <1>2, <1>3, <1>4 DEF BetweenArguments

\* Between arguments the line only ends after the last.
LEMMA BetweenEnds ==
  ASSUME ReadInv, TokenTypes, line.args # FREE, NEW k \in 0 .. Len(line.args),
         BetweenArguments(k), ~Chews
  PROVE  k = Len(line.args)
  <1>1. PICK n \in Nat : n = Len(line.args) /\ k \in 0 .. n
    BY QuotedLines
  <1>2. at = Len(line.text)
    <2>1. state # 9 /\ Len(buf) < BufSize
      BY LineAssumption DEF BetweenArguments
    <2> QED BY <2>1, TextIs DEF Chews
  <1>3. PICK L \in Nat : L = Len(line.text)
    BY TextIs
  <1> SUFFICES ASSUME k # n PROVE FALSE
    BY <1>1
  <1>5. line.open[k + 1] \in 1 .. L
    <2>1. k + 1 \in 1 .. n
      BY <1>1
    <2> QED BY <1>1, <1>3, <2>1, QuotedLines DEF ArgumentIs
  <1>6. CASE at = line.open[k + 1] - 1
    BY <1>2, <1>3, <1>5, <1>6
  <1>7. CASE k > 0 /\ at = CloseOf(k)
    <2>1. k \in 1 .. n
      BY <1>1, <1>7
    <2>2. line.open[k + 1] = CloseOf(k) + 2
      BY <1>1, <2>1, QuotedLines DEF ArgumentIs
    <2> QED BY <1>2, <1>3, <1>5, <1>7, <2>2
  <1> QED BY <1>1, <1>6, <1>7 DEF BetweenArguments

\* A token as it was given.
LEMMA ArgumentEnds ==
  ASSUME ReadInv, TokenTypes, line.args # FREE, NEW i \in 1 .. Len(line.args), NEW j \in Nat,
         InArgument(i, j), ~Chews
  PROVE  state = 9 /\ at = CloseOf(i) /\ buf = line.args[i] /\ ~Contains(buf, star)
  <1>1. state = 9
    BY MoreToRead
  <1>2. at = CloseOf(i) /\ Len(buf) = Len(line.args[i])
        /\ \A h \in 1 .. Len(buf) : buf[h] = line.args[i][h]
    BY <1>1 DEF InArgument
  <1>3. ArgumentIs(i)
    BY QuotedLines
  <1>4. buf = line.args[i]
    <2>1. line.args[i] \in Seq(STRING) /\ buf \in Seq(STRING)
      BY <1>3 DEF ArgumentIs, TokenTypes
    <2> QED BY <1>2, <2>1, SeqEqual
  <1> QED BY <1>1, <1>2, <1>3, <1>4 DEF ArgumentIs

\* The name ends at the blank after it.
LEMMA NameEnds ==
  ASSUME ReadInv, TokenTypes, line.args # FREE, InName, ~Chews
  PROVE  at = line.open[1] - 1 /\ Len(buf) \in 1 .. BufSize - 1
  <1>1. PICK o \in Nat : o = line.open[1] /\ o \in 3 .. BufSize + 1
    BY QuotedLines, LineAssumption
  <1>2. PICK L \in Nat : L = Len(line.text) /\ o <= L
    <2>1. 1 \in 1 .. Len(line.args)
      BY QuotedLines
    <2>2. line.open[1] \in 1 .. Len(line.text)
      BY <2>1, QuotedLines DEF ArgumentIs
    <2> QED BY <1>1, <2>2, TextIs
  <1>3. at \in Nat /\ (rest = <<>> <=> at = L) /\ BufSize \in Nat
    BY <1>2, TextIs, LineAssumption
  <1>4. ASSUME at < o - 1, Len(buf) = at, state # 9 PROVE FALSE
    <2>1. rest # <<>>
      BY <1>1, <1>2, <1>3, <1>4
    <2>2. Len(buf) < BufSize
      BY <1>1, <1>3, <1>4
    <2> QED BY <1>4, <2>1, <2>2 DEF Chews
  <1>5. \/ at < o - 1 /\ Len(buf) = at /\ state # 9
        \/ at = o - 1 /\ Len(buf) = at - 1
    BY <1>1, <1>3 DEF InName
  <1>6. at = o - 1 /\ Len(buf) = at - 1
    BY <1>4, <1>5
  <1>7. Len(buf) \in 1 .. BufSize - 1
    BY <1>1, <1>3, <1>6
  <1> QED BY <1>1, <1>6, <1>7

\* QuotedInv is inductive.
LEMMA QuotedStep ==
  ASSUME ReadInv, TokenTypes, ControlTypes, QuotedInv, LineSteps
  PROVE  QuotedInv'
  <1>0. line' = line /\ (~Chew => at' = at)
    BY NotEnded, TokenEmpties, OthersRead DEF LineSteps
  <1> SUFFICES ASSUME line.args # FREE
               PROVE  /\ phase' # "glob" /\ (called' = None \/ called'.args = line.args)
                      /\ IF tokens' = <<>> THEN InName' ELSE \E k \in Nat : AfterArguments(k)'
    BY <1>0 DEF QuotedInv
  <1>1. /\ phase # "glob" /\ (called = None \/ called.args = line.args)
        /\ IF tokens = <<>> THEN InName ELSE \E k \in Nat : AfterArguments(k)
    BY DEF QuotedInv
  <1>2. CASE Chew
    <2>1. /\ phase' = "chew" /\ phase = "chew" /\ tokens' = tokens /\ called' = called
          /\ line' = line
      BY <1>2, ChewDoes
    <2>2. CASE tokens = <<>>
      BY <1>1, <1>2, <2>1, <2>2, NameRead
    <2>3. ASSUME NEW k \in Nat, AfterArguments(k) PROVE AfterArguments(k)'
      <3>1. /\ k \in 0 .. Len(line.args) /\ Len(tokens) = k + 1
            /\ \A i \in 1 .. k : tokens[i + 1] = line.args[i]
        BY <2>3 DEF AfterArguments
      <3>2. BetweenArguments(k) \/ (k < Len(line.args) /\ \E j \in Nat : InArgument(k + 1, j))
        BY <2>1, <2>3 DEF AfterArguments
      <3>3. CASE BetweenArguments(k)
        <4>1. BetweenArguments(k)' \/ (k < Len(line.args) /\ InArgument(k + 1, 0)')
          BY <1>2, <3>1, <3>3, BetweenRead
        <4>2. 0 \in Nat
          OBVIOUS
        <4> QED BY <2>1, <3>1, <4>1, <4>2 DEF AfterArguments
      <3>4. ASSUME k < Len(line.args), NEW j \in Nat, InArgument(k + 1, j)
            PROVE  AfterArguments(k)'
        <4>1. k + 1 \in 1 .. Len(line.args)
          BY <3>4, QuotedLines
        <4>2. \E h \in Nat : InArgument(k + 1, h)'
          <5>1. PICK i \in 1 .. Len(line.args) : i = k + 1
            BY <4>1
          <5>2. InArgument(i, j)
            BY <3>4, <5>1
          <5>3. \E h \in Nat : InArgument(i, h)'
            BY <1>2, <5>2, ArgumentRead
          <5> QED BY <5>1, <5>3
        <4> QED BY <2>1, <3>1, <3>4, <4>2 DEF AfterArguments
      <3> QED BY <3>2, <3>3, <3>4
    <2> QED BY <1>1, <2>1, <2>2, <2>3
  <1>3. CASE NoToken
    <2>1. /\ phase = "chew" /\ ~Chews /\ (Len(buf) = 0 \/ Len(buf) = BufSize)
          /\ phase' = "execute" /\ tokens' = tokens /\ called' = called
      BY <1>3 DEF NoToken
    <2>2. tokens # <<>>
      <3>1. Len(buf) \in 1 .. BufSize - 1 => FALSE
        BY <2>1, LineAssumption
      <3> QED BY <1>1, <2>1, <3>1, NameEnds
    <2>3. PICK k \in Nat : AfterArguments(k)
      BY <1>1, <2>2
    <2>4. /\ k \in 0 .. Len(line.args) /\ Len(tokens) = k + 1
          /\ \A i \in 1 .. k : tokens[i + 1] = line.args[i]
          /\ BetweenArguments(k) \/ (k < Len(line.args) /\ \E j \in Nat : InArgument(k + 1, j))
      BY <2>1, <2>3 DEF AfterArguments
    <2>5. ASSUME k < Len(line.args), NEW j \in Nat, InArgument(k + 1, j) PROVE FALSE
      <3>1. PICK i \in 1 .. Len(line.args) : i = k + 1
        <4>1. k + 1 \in 1 .. Len(line.args)
          BY <2>5, QuotedLines
        <4> QED BY <4>1
      <3>2. InArgument(i, j)
        BY <2>5, <3>1
      <3>3. Len(buf) # 0 /\ Len(buf) < BufSize
        BY <2>1, <3>2, MoreToRead
      <3> QED BY <2>1, <3>3, LineAssumption
    <2>6. k = Len(line.args)
      BY <2>1, <2>4, <2>5, BetweenEnds
    <2>7. AfterArguments(k)'
      BY <1>0, <2>1, <2>4, <2>6 DEF AfterArguments
    <2> QED BY <1>1, <2>1, <2>2, <2>7
  <1>4. CASE Token
    <2>1. /\ phase = "chew" /\ ~Chews /\ Len(buf) # 0 /\ called' = called /\ state' = 0
          /\ at' = at /\ line' = line
      <3>1. buf # <<>> => Len(buf) # 0
        BY EmptySeq, LenProperties DEF TokenTypes
      <3>2. ~Chew
        BY <1>4 DEF Chew, Token
      <3> QED BY <1>0, <1>4, <3>1, <3>2 DEF Token
    <2>2. /\ ~Contains(buf, star) \/ tokens = <<>> =>
               phase' = "chew" /\ tokens' = Append(tokens, buf) /\ buf' = <<>>
      BY <1>4, <2>1 DEF Token, Expands
    <2>3. CASE tokens = <<>>
      <3>1. at = line.open[1] - 1
        BY <1>1, <2>1, <2>3, NameEnds
      <3>2. /\ phase' = "chew" /\ tokens' = Append(tokens, buf) /\ Len(buf') = 0
            /\ Len(tokens') = 1 /\ tokens' # <<>>
        <4>1. Len(Append(tokens, buf)) = 1 /\ Append(tokens, buf) # <<>>
          <5>1. PICK W : W = Seq(STRING)
            OBVIOUS
          <5>2. tokens \in Seq(W) /\ buf \in W /\ Len(tokens) = 0
            BY <2>3, <5>1, EmptySeq DEF TokenTypes
          <5>3. Append(tokens, buf) # <<>> /\ Len(Append(tokens, buf)) = Len(tokens) + 1
            BY <5>2, AppendProperties
          <5> QED BY <5>2, <5>3
        <4> QED BY <2>2, <2>3, <4>1
      <3>3. AfterArguments(0)'
        <4>1. Len(line.args) \in Nat \ {0} /\ line'.args = line.args /\ line'.open = line.open
          BY <2>1, QuotedLines
        <4>2. BetweenArguments(0)'
          <5>1. at' = line'.open[0 + 1] - 1 /\ 0 < Len(line'.args)
            BY <2>1, <3>1, <4>1
          <5> QED BY <2>1, <3>2, <5>1 DEF BetweenArguments
        <4>3. 0 \in 0 .. Len(line'.args) /\ Len(tokens') = 0 + 1 /\ 1 .. 0 = {}
          BY <3>2, <4>1
        <4> QED BY <3>2, <4>2, <4>3 DEF AfterArguments
      <3>4. 0 \in Nat
        OBVIOUS
      <3> QED BY <1>1, <2>1, <3>2, <3>3, <3>4
    <2>4. ASSUME NEW k \in Nat, AfterArguments(k), tokens # <<>>
          PROVE  phase' = "chew" /\ tokens' # <<>> /\ \E h \in Nat : AfterArguments(h)'
      <3>1. /\ k \in 0 .. Len(line.args) /\ Len(tokens) = k + 1
            /\ \A i \in 1 .. k : tokens[i + 1] = line.args[i]
            /\ k < Len(line.args) /\ \E j \in Nat : InArgument(k + 1, j)
        BY <2>1, <2>4 DEF AfterArguments, BetweenArguments
      <3>2. PICK i \in 1 .. Len(line.args), j \in Nat : i = k + 1 /\ InArgument(i, j)
        <4>1. k + 1 \in 1 .. Len(line.args)
          BY <3>1, QuotedLines
        <4> QED BY <3>1, <4>1
      <3>3. at = CloseOf(i) /\ buf = line.args[i] /\ ~Contains(buf, star)
        BY <2>1, <3>2, ArgumentEnds
      <3>4. phase' = "chew" /\ tokens' = Append(tokens, buf) /\ Len(buf') = 0
        BY <2>2, <3>3
      <3>5. /\ Len(tokens') = i + 1 /\ tokens' # <<>> /\ tokens'[i + 1] = buf
            /\ \A h \in 1 .. i : tokens'[h] = tokens[h]
        <4>1. PICK W : W = Seq(STRING)
          OBVIOUS
        <4>2. tokens \in Seq(W) /\ buf \in W /\ Len(tokens) = i
          BY <3>1, <3>2, <4>1 DEF TokenTypes
        <4> QED BY <3>4, <4>2, AppendProperties
      <3>6. \A h \in 1 .. i : tokens'[h + 1] = line.args[h]
        <4> SUFFICES ASSUME NEW h \in 1 .. i PROVE tokens'[h + 1] = line.args[h]
          OBVIOUS
        <4>1. CASE h = i
          BY <3>3, <3>5, <4>1
        <4>2. CASE h # i
          <5>1. h \in 1 .. k /\ h + 1 \in 1 .. i
            BY <3>2, <4>2
          <5> QED BY <3>1, <3>5, <5>1
        <4> QED BY <4>1, <4>2
      <3>7. BetweenArguments(i)'
        <4>1. CloseOf(i)' = CloseOf(i) /\ i > 0
          BY <2>1, SamePlaces
        <4> QED BY <2>1, <3>3, <3>4, <4>1 DEF BetweenArguments
      <3>8. i \in Nat /\ i \in 0 .. Len(line'.args)
        BY <2>1, QuotedLines
      <3>9. AfterArguments(i)'
        BY <2>1, <3>4, <3>5, <3>6, <3>7, <3>8 DEF AfterArguments
      <3> QED BY <3>4, <3>5, <3>8, <3>9
    <2> QED BY <1>1, <2>1, <2>3, <2>4
  <1>5. CASE Execute
    <2>1. phase = "execute" /\ phase' \in {"prompt", "quit"} /\ tokens' = tokens
      BY <1>5 DEF Execute
    <2>2. tokens # <<>>
      BY <1>1, <2>1 DEF InName
    <2>3. PICK k \in Nat : AfterArguments(k)
      BY <1>1, <2>2
    <2>4. /\ k \in 0 .. Len(line.args) /\ Len(tokens) = k + 1 /\ k = Len(line.args)
          /\ \A i \in 1 .. k : tokens[i + 1] = line.args[i]
      BY <2>1, <2>3 DEF AfterArguments
    <2>5. Tail(tokens) = line.args
      <3>1. PICK W : W = Seq(STRING)
        OBVIOUS
      <3>2. tokens \in Seq(W)
        BY <3>1 DEF TokenTypes
      <3>3. /\ Tail(tokens) \in Seq(W) /\ Len(Tail(tokens)) = k
            /\ \A i \in 1 .. k : Tail(tokens)[i] = tokens[i + 1]
        BY <2>2, <2>4, <3>2, HeadTailProperties
      <3>4. line.args \in Seq(W)
        BY <3>1, QuotedLines
      <3>5. PICK t : t = Tail(tokens)
        OBVIOUS
      <3>6. t = line.args
        BY <2>4, <3>3, <3>4, <3>5, SeqEqual
      <3> QED BY <3>5, <3>6
    <2>6. called' = None \/ called'.args = line.args
      BY <1>5, <2>2, <2>5 DEF Execute
    <2>7. AfterArguments(k)'
      BY <1>0, <2>1, <2>4 DEF AfterArguments
    <2> QED BY <2>1, <2>2, <2>6, <2>7
  <1>6. CASE Interrupt
    BY <1>1, <1>6 DEF Interrupt
  <1>7. ASSUME NEW names, NEW fails, GlobEnds(names, fails) PROVE FALSE
    BY <1>1, <1>7 DEF GlobEnds
  <1>8. CASE UNCHANGED lineVars
    <2>1. /\ UNCHANGED <<phase, tokens, called, state, quote, buf, line, at>>
      BY <1>0, <1>8, OthersRead DEF lineVars, chewing, OtherStep
    <2>2. InName => InName'
      BY <2>1 DEF InName
    <2>3. \A i, j : InArgument(i, j) => InArgument(i, j)'
      BY <2>1, SamePlaces DEF InArgument
    <2>4. \A k : BetweenArguments(k) => BetweenArguments(k)'
      BY <2>1, SamePlaces DEF BetweenArguments
    <2>5. \A k : AfterArguments(k) => AfterArguments(k)'
      BY <2>1, <2>3, <2>4 DEF AfterArguments
    <2> QED BY <1>1, <2>1, <2>2, <2>5
  <1> QED BY <1>2, <1>3, <1>4, <1>5, <1>6, <1>7, <1>8 DEF LineSteps, OtherStep

---------------------------------------------------------------------------
LineInv == /\ ReadInv /\ ControlTypes /\ TokenTypes /\ BufInv /\ OrderInv
           /\ WordsInv /\ LettersInv /\ EmptyInv /\ QuotedInv

\* The invariant holds when the line was typed.
LEMMA LineInvBegins ==
  ASSUME LineInit
  PROVE  LineInv
  <1>1. /\ phase = "chew" /\ rest = line.text /\ state = 0 /\ buf = <<>> /\ from = <<>>
        /\ tokens = <<>> /\ raw = <<>> /\ ended = "not" /\ called = None /\ quote = "'"
        /\ line \in Lines
    BY DEF LineInit
  <1>2. line.text \in Seq(STRING) /\ Len(line.text) \in Nat
    BY <1>1, LineAssumption, LenProperties
  <1>3. at = 0 /\ at + 1 = 1
    BY <1>1, <1>2 DEF at
  <1>4. ReadInv
    <2>1. rest = SubSeq(line.text, 1, Len(line.text))
      BY <1>1, <1>2, SubSeqFull
    <2> QED BY <1>1, <1>2, <1>3, <2>1 DEF ReadInv
  <1>5. Len(buf) = 0 /\ Len(from) = 0 /\ Len(raw) = 0 /\ 1 .. Len(from) = {} /\ 1 .. Len(raw) = {}
    BY <1>1
  <1>6. ControlTypes
    <2>1. called.cmd = <<>>
      BY <1>1 DEF None
    <2>2. quote \in Quotes
      BY <1>1 DEF Quotes
    <2>3. {connected, interrupted, aborted, pressed} \subseteq BOOLEAN
      BY DEF LineInit
    <2> QED BY <1>1, <2>1, <2>2, <2>3 DEF ControlTypes
  <1>7. TokenTypes
    BY <1>1, <1>3, <1>5, EmptySeq DEF TokenTypes
  <1>8. BufInv
    BY <1>1, <1>5, LineAssumption DEF BufInv
  <1>9. KeptPlaces = {} /\ Held = {}
    BY <1>5 DEF KeptPlaces, Held
  <1>10. OrderInv
    BY <1>5, <1>9 DEF OrderInv, TokensInOrder
  <1>11. WordsInv
    <2>1. [i \in 1 .. Len(raw) |-> raw[i].token] = <<>>
      BY <1>5
    <2> QED BY <1>1, <2>1 DEF WordsInv
  <1>12. LettersInv
    <2>1. Covered(at)
      BY <1>3 DEF Covered
    <2> QED BY <1>1, <1>9, <2>1 DEF LettersInv
  <1>13. EmptyInv
    BY <1>1 DEF EmptyInv, EndsEarly
  <1>14. QuotedInv
    BY <1>1, <1>3, <1>5 DEF QuotedInv, InName
  <1> QED BY <1>4, <1>6, <1>7, <1>8, <1>10, <1>11, <1>12, <1>13, <1>14 DEF LineInv

\* Every step keeps it.
LEMMA LineInvStep ==
  ASSUME LineInv, [LineNext]_lineVars
  PROVE  LineInv'
  <1>1. LineSteps
    BY StepsOfLines
  <1>2. ReadInv'
    BY <1>1, ChewReads, OthersRead DEF LineInv, LineSteps
  <1>3. OrderInv'
    BY <1>1, TokensOrdered, PlacesOrdered DEF LineInv, OrderInv
  <1> QED BY <1>1, <1>2, <1>3, ControlStep, TokenStep, BufStep, WordsStep, LettersStep,
             EmptyStep, QuotedStep DEF LineInv

\* What the invariant says when the tokens have ended.
LEMMA LineInvMeans ==
  ASSUME LineInv
  PROVE  LineMeant
  <1> USE DEF LineInv
  <1>1. LineTypeOK
    <2>1. \A i \in 1 .. Len(tokens) : tokens[i] # <<>>
      <3>1. tokens \in Seq(Seq(STRING) \ {<<>>})
        BY DEF TokenTypes
      <3> QED BY <3>1, ElementOfSeq
    <2>2. Len(raw) <= Len(line.text)
      <3>1. Len(raw) \in Nat /\ Len(raw) <= at
        BY LenProperties DEF TokenTypes
      <3> QED BY <3>1, TextIs
    <2>3. Len(buf) <= BufSize /\ (phase # "chew" => Len(buf) < BufSize \/ ended = "overlong")
      BY DEF BufInv
    <2> QED BY <2>1, <2>2, <2>3 DEF LineTypeOK, ReadInv, ControlTypes
  <1>2. QuotedArrive
    BY DEF QuotedInv, QuotedArrive
  <1>3. EndsEarly
    BY DEF EmptyInv
  <1>4. LettersKept
    <2> SUFFICES ASSUME phase \in {"execute", "prompt", "quit"} PROVE
           /\ TokensInOrder
           /\ \A p \in 1 .. Len(line.text) :
                /\ Letter(line.text[p])
                /\ \/ \E q \in KeptPlaces : p < q
                   \/ ended = "line" /\ ~Contains(line.text, "#")
                => p \in KeptPlaces
           /\ ~Contains(line.text, star) => tokens = [i \in 1 .. Len(raw) |-> raw[i].token]
      BY DEF LettersKept
    <2>1. ASSUME NEW p \in 1 .. Len(line.text), Letter(line.text[p]),
                 NEW q \in KeptPlaces, p < q
          PROVE  p \in KeptPlaces
      <3>1. q \in 1 .. at /\ at \in Nat
        BY TextIs DEF LettersInv, Held
      <3>2. p \in Held
        <4>1. CASE Covered(at)
          BY <2>1, <3>1, <4>1 DEF Covered
        <4>2. ASSUME NEW c \in 1 .. at, CommentAt(c) PROVE p \in Held
          <5>1. q < c
            BY <4>2 DEF CommentAt, Held
          <5>2. p \in 1 .. c - 1
            BY <2>1, <3>1, <5>1
          <5> QED BY <2>1, <4>2, <5>2 DEF CommentAt, Covered
        <4> QED BY <4>1, <4>2 DEF LettersInv
      <3>3. \A k \in 1 .. Len(from) : from[k] # p
        <4> SUFFICES ASSUME NEW k \in 1 .. Len(from), from[k] = p PROVE FALSE
          OBVIOUS
        <4>1. q < from[k]
          BY DEF OrderInv
        <4> QED BY <2>1, <3>1, <4>1
      <3> QED BY <3>2, <3>3 DEF Held
    <2>2. ASSUME NEW p \in 1 .. Len(line.text), Letter(line.text[p]),
                 ended = "line", ~Contains(line.text, "#")
          PROVE  p \in KeptPlaces
      <3>1. rest = <<>> /\ buf = <<>>
        BY <2>2 DEF LettersInv
      <3>2. at = Len(line.text) /\ at \in Nat
        BY <3>1, TextIs
      <3>3. Covered(at)
        <4>1. \A c \in 1 .. at : line.text[c] # "#"
          BY <2>2, <3>2 DEF Contains
        <4> QED BY <4>1 DEF LettersInv, CommentAt
      <3>4. p \in Held
        BY <2>2, <3>2, <3>3 DEF Covered
      <3>5. Len(from) = 0
        <4>1. Len(from) = Len(buf)
          BY DEF BufInv
        <4> QED BY <3>1, <4>1
      <3>6. 1 .. Len(from) = {}
        BY <3>5
      <3> QED BY <3>4, <3>6 DEF Held
    <2> QED BY <2>1, <2>2 DEF OrderInv, WordsInv
  <1> QED BY <1>1, <1>2, <1>3, <1>4 DEF LineMeant

\* LineMeant: for every line, the tokens are made of the line's characters in their
\* order, no letter is lost on the way, the tokens end early only for a reason
\* in the line, and arguments that were quoted reach the handler as they were.
THEOREM LinesAreMeant == LineSpec => []LineMeant
  <1>1. LineInit => LineInv
    BY LineInvBegins
  <1>2. LineInv /\ [LineNext]_lineVars => LineInv'
    BY LineInvStep
  <1>3. LineInv => LineMeant
    BY LineInvMeans
  <1> QED BY <1>1, <1>2, <1>3, PTL DEF LineSpec
================================================================================
