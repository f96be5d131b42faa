----------------------------- MODULE ResultsProofs -----------------------------
(***************************************************************************)
(* Theorems about MultistatusResults, for answers of any length and depth  *)
(* and pages of any size; and about XmlReader, the parser those answers    *)
(* come through, for documents of any text cut into any blocks.            *)
(***************************************************************************)
EXTENDS MultistatusResults, XmlReader, SequenceTheorems, FiniteSetTheorems, WellFoundedInduction, TLAPS

\* What the bounds are.
LEMMA Bounds ==
  /\ PerPage \in Nat /\ PerPage > 1 /\ Ahead \in Nat
  /\ MaxElements \in Nat /\ MaxDepth \in Nat
  BY ResultsAssumption

\* An open element.
Open == [elem : Elements, resp : 0 .. MaxElements]

---------------------------------------------------------------------------
(* Sequences: what is put after the last, taken off it, or put before the  *)
(* first.                                                                  *)

LEMMA Pushed ==
  ASSUME NEW S, NEW s \in Seq(S), NEW x \in S
  PROVE  /\ Append(s, x) \in Seq(S) /\ Append(s, x) # <<>>
         /\ Len(s) \in Nat /\ Len(Append(s, x)) = Len(s) + 1
         /\ \A i \in 1 .. Len(s) : Append(s, x)[i] = s[i]
         /\ Append(s, x)[Len(s) + 1] = x
         /\ Last(Append(s, x)) = x
  <1>1. /\ Append(s, x) \in Seq(S)
        /\ Len(s) \in Nat /\ Len(Append(s, x)) = Len(s) + 1
        /\ \A i \in 1 .. Len(s) : Append(s, x)[i] = s[i]
        /\ Append(s, x)[Len(s) + 1] = x
    BY AppendProperties, LenProperties
  <1>2. Append(s, x) # <<>>
    BY <1>1
  <1>3. Last(Append(s, x)) = x
    BY <1>1 DEF Last
  <1> QED BY <1>1, <1>2, <1>3

LEMMA Popped ==
  ASSUME NEW S, NEW s \in Seq(S), s # <<>>
  PROVE  /\ Front(s) \in Seq(S)
         /\ Len(s) \in Nat \ {0} /\ Len(Front(s)) = Len(s) - 1
         /\ \A i \in 1 .. Len(s) - 1 : Front(s)[i] = s[i]
         /\ Last(s) = s[Len(s)] /\ Last(s) \in S
         /\ Len(s) > 1 => Front(s) # <<>> /\ Last(Front(s)) = s[Len(s) - 1]
         /\ Len(s) = 1 => Front(s) = <<>>
  <1>1. Len(s) \in Nat \ {0}
    BY LenProperties, EmptySeq
  <1>2. \A i \in 1 .. Len(s) : s[i] \in S
    BY ElementOfSeq
  <1>3. /\ Front(s) \in Seq(S) /\ Len(Front(s)) = Len(s) - 1
        /\ \A i \in 1 .. Len(s) - 1 : Front(s)[i] = s[i]
    <2>1. PICK n \in Nat : n = Len(s) - 1
      BY <1>1
    <2>2. /\ SubSeq(s, 1, n) \in Seq(S) /\ Len(SubSeq(s, 1, n)) = n
          /\ \A i \in 1 .. n : SubSeq(s, 1, n)[i] = s[i]
      BY <1>1, <1>2, <2>1
    <2> QED BY <2>1, <2>2 DEF Front
  <1>4. Last(s) = s[Len(s)] /\ Last(s) \in S
    BY <1>1, <1>2 DEF Last
  <1>5. ASSUME Len(s) > 1 PROVE Front(s) # <<>> /\ Last(Front(s)) = s[Len(s) - 1]
    <2>1. Len(s) - 1 \in 1 .. Len(s) - 1 /\ Len(Front(s)) # 0
      BY <1>1, <1>3, <1>5
    <2>2. Front(s) # <<>>
      BY <2>1
    <2>3. Last(Front(s)) = Front(s)[Len(s) - 1]
      BY <1>3 DEF Last
    <2> QED BY <1>3, <2>1, <2>2, <2>3
  <1>6. ASSUME Len(s) = 1 PROVE Front(s) = <<>>
    BY <1>3, <1>6, EmptySeq
  <1> QED BY <1>1, <1>3, <1>4, <1>5, <1>6

LEMMA PutFirst ==
  ASSUME NEW S, NEW s \in Seq(S), NEW x \in S
  PROVE  /\ <<x>> \o s \in Seq(S)
         /\ Len(s) \in Nat /\ Len(<<x>> \o s) = Len(s) + 1
         /\ (<<x>> \o s)[1] = x
         /\ \A i \in 2 .. Len(s) + 1 : i - 1 \in 1 .. Len(s) /\ (<<x>> \o s)[i] = s[i - 1]
  <1>1. <<x>> \in Seq(S) /\ Len(<<x>>) = 1 /\ <<x>>[1] = x
    OBVIOUS
  <1>2. Len(s) \in Nat
    BY LenProperties
  <1>3. /\ <<x>> \o s \in Seq(S) /\ Len(<<x>> \o s) = 1 + Len(s)
        /\ \A i \in 1 .. 1 + Len(s) :
             (<<x>> \o s)[i] = IF i <= 1 THEN <<x>>[i] ELSE s[i - 1]
    BY <1>1, ConcatProperties
  <1>4. ASSUME NEW i \in 2 .. Len(s) + 1
        PROVE  i - 1 \in 1 .. Len(s) /\ (<<x>> \o s)[i] = s[i - 1]
    BY <1>2, <1>3
  <1>5. 1 \in 1 .. 1 + Len(s)
    BY <1>2
  <1>6. (<<x>> \o s)[1] = x
    BY <1>1, <1>3, <1>5
  <1> QED BY <1>2, <1>3, <1>4, <1>6

---------------------------------------------------------------------------
(* The responses open. *)

Responses(s) == {i \in 1 .. Len(s) : s[i].elem = "response"}

LEMMA ResponsesFinite ==
  ASSUME NEW s \in Seq(Open)
  PROVE  IsFiniteSet(Responses(s)) /\ Cardinality(Responses(s)) \in Nat
  <1>1. Len(s) \in Nat
    BY LenProperties
  <1>2. IsFiniteSet(1 .. Len(s))
    BY <1>1, FS_Interval
  <1>3. IsFiniteSet(Responses(s))
    BY <1>2, FS_Subset DEF Responses
  <1> QED BY <1>3, FS_CardinalityType

\* Opening a response makes one more, opening another element none.
LEMMA ResponsesPushed ==
  ASSUME NEW s \in Seq(Open), NEW x \in Open
  PROVE  Cardinality(Responses(Append(s, x))) =
           Cardinality(Responses(s)) + IF x.elem = "response" THEN 1 ELSE 0
  <1> DEFINE t == Append(s, x)
  <1>1. /\ Len(s) \in Nat /\ Len(t) = Len(s) + 1
        /\ \A i \in 1 .. Len(s) : t[i] = s[i]
        /\ t[Len(s) + 1] = x
    BY Pushed
  <1>2. IsFiniteSet(Responses(s)) /\ Cardinality(Responses(s)) \in Nat
    BY ResponsesFinite
  <1> HIDE DEF t
  <1>3. CASE x.elem = "response"
    <2>1. Responses(t) = Responses(s) \cup {Len(s) + 1} /\ Len(s) + 1 \notin Responses(s)
      BY <1>1, <1>3 DEF Responses
    <2>2. Cardinality(Responses(t)) = Cardinality(Responses(s)) + 1
      BY <1>2, <2>1, FS_AddElement
    <2> QED BY <1>3, <2>2 DEF t
  <1>4. CASE x.elem # "response"
    <2>1. Responses(t) = Responses(s)
      BY <1>1, <1>4 DEF Responses
    <2> QED BY <1>2, <1>4, <2>1 DEF t
  <1> QED BY <1>3, <1>4

\* Closing a response leaves one less, closing another element as many.
LEMMA ResponsesPopped ==
  ASSUME NEW s \in Seq(Open), s # <<>>
  PROVE  Cardinality(Responses(s)) =
           Cardinality(Responses(Front(s)))
             + IF Last(s).elem = "response" THEN 1 ELSE 0
  <1> DEFINE t == Front(s)
  <1>1. /\ t \in Seq(Open)
        /\ Len(s) \in Nat \ {0} /\ Len(t) = Len(s) - 1
        /\ \A i \in 1 .. Len(s) - 1 : t[i] = s[i]
        /\ Last(s) = s[Len(s)]
    BY Popped
  <1>2. IsFiniteSet(Responses(t)) /\ Cardinality(Responses(t)) \in Nat
    BY <1>1, ResponsesFinite
  <1> HIDE DEF t
  <1>3. CASE Last(s).elem = "response"
    <2>1. Responses(s) = Responses(t) \cup {Len(s)} /\ Len(s) \notin Responses(t)
      BY <1>1, <1>3 DEF Responses
    <2>2. Cardinality(Responses(s)) = Cardinality(Responses(t)) + 1
      BY <1>2, <2>1, FS_AddElement
    <2> QED BY <1>3, <2>2 DEF t
  <1>4. CASE Last(s).elem # "response"
    <2>1. Responses(s) = Responses(t)
      BY <1>1, <1>4 DEF Responses
    <2> QED BY <1>2, <1>4, <2>1 DEF t
  <1> QED BY <1>3, <1>4

LEMMA NoResponses == Cardinality(Responses(<<>>)) = 0
  <1>1. Responses(<<>>) = {}
    BY DEF Responses
  <1> QED BY <1>1, FS_EmptySet

---------------------------------------------------------------------------
(* Results. *)

\* All of text t is of response n.
Of(t, n) == \A k \in 1 .. Len(t) : t[k].resp = n

\* All of result r is of its own response.
Own(r) == /\ Of(r.href, r.id) /\ Of(r.live, r.id)
          /\ \A d \in 1 .. Len(r.dead) : Of(r.dead[d].text, r.id)

LEMMA NoText == <<>> \in Seq(Piece) /\ \A n : Of(<<>>, n)
  <1>1. Len(<<>>) = 0 /\ <<>> \in Seq(Piece)
    BY EmptySeq
  <1>2. \A n : \A k \in 1 .. Len(<<>>) : <<>>[k].resp = n
    BY <1>1
  <1> QED BY <1>1, <1>2 DEF Of

\* A result is begun empty.
LEMMA NoneIsResult ==
  /\ None \in Result /\ None.id = 0 /\ None.named = "none"
  /\ None.href = <<>> /\ None.live = <<>> /\ None.dead = <<>>
  <1>1. 0 \in 0 .. MaxElements
    BY Bounds
  <1>2. <<>> \in Seq(DeadProp)
    BY EmptySeq
  <1>3. "none" \in Elements \cup {"none"} /\ FALSE \in BOOLEAN
    OBVIOUS
  <1>4. None \in Result
    BY <1>1, <1>2, <1>3, NoText DEF Result, None
  <1> QED BY <1>4 DEF None

LEMMA EmptyOwn ==
  ASSUME NEW r \in Result, r.href = <<>>, r.live = <<>>, r.dead = <<>>
  PROVE  Own(r)
  <1>1. Len(r.dead) = 0
    OBVIOUS
  <1>2. \A d \in 1 .. Len(r.dead) : Of(r.dead[d].text, r.id)
    BY <1>1
  <1> QED BY <1>2, NoText DEF Own

LEMMA NewResult ==
  ASSUME NEW n \in 0 .. MaxElements
  PROVE  LET r == [None EXCEPT !.id = n]
         IN r \in Result /\ r.id = n /\ Own(r) /\ r.named = "none"
  <1> DEFINE r == [None EXCEPT !.id = n]
  <1>1. /\ r \in Result
        /\ r.id = n /\ r.href = None.href /\ r.live = None.live /\ r.dead = None.dead
        /\ r.named = None.named
    BY NoneIsResult DEF Result
  <1> QED BY <1>1, NoneIsResult, EmptyOwn

\* What an element says of a result is added to it.
LEMMA NamedResult ==
  ASSUME NEW r \in Result, NEW e \in Elements
  PROVE  LET q == [r EXCEPT !.named = e]
         IN q \in Result /\ q.id = r.id /\ q.named = e /\ (Own(r) => Own(q))
  <1> DEFINE q == [r EXCEPT !.named = e]
  <1>1. /\ q \in Result
        /\ q.id = r.id /\ q.href = r.href /\ q.live = r.live /\ q.dead = r.dead
        /\ q.named = e
    BY DEF Result
  <1>2. ASSUME Own(r) PROVE Own(q)
    BY <1>1, <1>2 DEF Own
  <1> QED BY <1>1, <1>2

LEMMA HrefResult ==
  ASSUME NEW r \in Result, NEW t \in Seq(Piece)
  PROVE  LET q == [r EXCEPT !.href = t, !.hasHref = TRUE]
         IN q \in Result /\ q.id = r.id /\ (Own(r) /\ Of(t, r.id) => Own(q))
  <1> DEFINE q == [r EXCEPT !.href = t, !.hasHref = TRUE]
  <1>1. /\ q \in Result
        /\ q.id = r.id /\ q.href = t /\ q.live = r.live /\ q.dead = r.dead
    BY DEF Result
  <1>2. ASSUME Own(r), Of(t, r.id) PROVE Own(q)
    BY <1>1, <1>2 DEF Own
  <1> QED BY <1>1, <1>2

LEMMA LiveResult ==
  ASSUME NEW r \in Result, NEW t \in Seq(Piece)
  PROVE  LET q == [r EXCEPT !.live = t]
         IN q \in Result /\ q.id = r.id /\ (Own(r) /\ Of(t, r.id) => Own(q))
  <1> DEFINE q == [r EXCEPT !.live = t]
  <1>1. /\ q \in Result
        /\ q.id = r.id /\ q.href = r.href /\ q.live = t /\ q.dead = r.dead
    BY DEF Result
  <1>2. ASSUME Own(r), Of(t, r.id) PROVE Own(q)
    BY <1>1, <1>2 DEF Own
  <1> QED BY <1>1, <1>2

LEMMA DeadResult ==
  ASSUME NEW r \in Result, NEW t \in Seq(Piece), r.named # "none"
  PROVE  LET q == [r EXCEPT !.dead = <<[name |-> r.named, text |-> t]>> \o @,
                            !.named = "none"]
         IN q \in Result /\ q.id = r.id /\ (Own(r) /\ Of(t, r.id) => Own(q))
  <1> DEFINE dead == <<[name |-> r.named, text |-> t]>> \o r.dead
             q == [r EXCEPT !.dead = dead, !.named = "none"]
  <1>1. r.named \in Elements /\ r.dead \in Seq(DeadProp)
    BY DEF Result
  <1>2. [name |-> r.named, text |-> t] \in DeadProp
    BY <1>1 DEF DeadProp
  <1>3. /\ dead \in Seq(DeadProp)
        /\ Len(r.dead) \in Nat /\ Len(dead) = Len(r.dead) + 1
        /\ dead[1] = [name |-> r.named, text |-> t]
        /\ \A d \in 2 .. Len(r.dead) + 1 :
             d - 1 \in 1 .. Len(r.dead) /\ dead[d] = r.dead[d - 1]
    BY <1>1, <1>2, PutFirst
  <1> HIDE DEF dead
  <1>4. /\ q \in Result
        /\ q.id = r.id /\ q.href = r.href /\ q.live = r.live /\ q.dead = dead
    BY <1>3 DEF Result
  <1>5. ASSUME Own(r), Of(t, r.id) PROVE Own(q)
    <2>1. \A d \in 1 .. Len(dead) : Of(dead[d].text, r.id)
      <3> SUFFICES ASSUME NEW d \in 1 .. Len(dead) PROVE Of(dead[d].text, r.id)
        OBVIOUS
      <3>1. CASE d = 1
        BY <1>3, <1>5, <3>1
      <3>2. CASE d # 1
        <4>1. d \in 2 .. Len(r.dead) + 1
          BY <1>3, <3>2
        <4> QED BY <1>3, <1>5, <4>1 DEF Own
      <3> QED BY <3>1, <3>2
    <2> QED BY <1>4, <1>5, <2>1 DEF Own
  <1>6. q = [r EXCEPT !.dead = <<[name |-> r.named, text |-> t]>> \o @,
                      !.named = "none"]
    BY DEF dead
  <1> QED BY <1>4, <1>5, <1>6

LEMMA ListedResults ==
  ASSUME NEW s \in Seq(Result)
  PROVE  \A i \in 1 .. Len(s) : s[i] \in Result /\ s[i].id \in Nat
  <1>1. \A i \in 1 .. Len(s) : s[i] \in Result
    BY ElementOfSeq
  <1>2. \A r \in Result : r.id \in Nat
    BY Bounds DEF Result
  <1> QED BY <1>1, <1>2

---------------------------------------------------------------------------
(* Types. *)

\* What is pruned, counted or kept was sent.
SentInv ==
  /\ prune <= sent /\ num <= sent /\ curr.id <= sent
  /\ \A i \in 1 .. Len(root) : root[i].id <= sent

\* The types of the state the callbacks share.
ContextType ==
  /\ root \in Seq(Result) /\ curr \in Result /\ num \in 0 .. MaxElements
  /\ startProp \in BOOLEAN /\ err \in BOOLEAN /\ cdata \in Seq(Piece)
  /\ crashed \in BOOLEAN

LEMMA RespTypes ==
  ASSUME TypeOK, NEW e \in Elements, Sendable(e)
  PROVE  /\ sent + 1 \in 0 .. MaxElements
         /\ RespOf(e) \in 0 .. MaxElements
         /\ \A f \in Elements : [elem |-> f, resp |-> RespOf(e)] \in Open
  <1>1. sent + 1 \in 0 .. MaxElements /\ 0 \in 0 .. MaxElements
    BY Bounds DEF TypeOK, Sendable
  <1>2. RespOf(e) \in 0 .. MaxElements
    <2>1. CASE e = "response"
      BY <1>1, <2>1 DEF RespOf
    <2>2. CASE e # "response" /\ open = <<>>
      BY <1>1, <2>2 DEF RespOf
    <2>3. CASE e # "response" /\ open # <<>>
      <3>1. open \in Seq(Open)
        BY DEF TypeOK, Open
      <3>2. Last(open) \in Open
        BY <2>3, <3>1, Popped
      <3> QED BY <2>3, <3>2 DEF RespOf, Open
    <2> QED BY <2>1, <2>2, <2>3
  <1> QED BY <1>1, <1>2 DEF Open

\* What the start of an element does to the result being read.
LEMMA StartedResult ==
  ASSUME TypeOK, NEW e \in Elements, Sendable(e), StartCallback(e)
  PROVE  /\ curr' \in Result
         /\ e = "response" => /\ curr'.id = sent + 1 /\ Own(curr') /\ curr' # None
                              /\ curr'.named = "none"
         /\ e # "response" => /\ curr'.id = curr.id /\ (Own(curr) => Own(curr'))
                              /\ (curr = None => curr' = None)
         /\ /\ handler = "search" /\ searchall /\ startProp /\ curr # None
            /\ e \in {"multistatus", "status", "live", "other"}
            => curr'.named = e
         /\ \/ e # "response" /\ curr' = curr
            \/ curr'.named = e
            \/ e = "response"
  <1>1. curr \in Result
    BY DEF TypeOK
  <1>2. CASE e = "response"
    <2>1. curr' = [None EXCEPT !.id = sent + 1]
      BY <1>2 DEF StartCallback
    <2>2. /\ curr' \in Result /\ curr'.id = sent + 1 /\ Own(curr')
          /\ curr'.named = "none"
      BY <2>1, RespTypes, NewResult
    <2>3. curr' # None
      BY <2>2, NoneIsResult, Bounds DEF TypeOK
    <2> QED BY <1>2, <2>2, <2>3
  <1>3. CASE /\ handler = "search" /\ searchall /\ startProp /\ curr # None
             /\ e \in {"multistatus", "status", "live", "other"}
    <2>1. curr' = [curr EXCEPT !.named = e]
      BY <1>3 DEF StartCallback
    <2> QED BY <1>1, <1>3, <2>1, NamedResult
  <1>4. CASE /\ e # "response"
             /\ ~(/\ handler = "search" /\ searchall /\ startProp /\ curr # None
                  /\ e \in {"multistatus", "status", "live", "other"})
    <2>1. curr' = curr
      BY <1>4 DEF StartCallback
    <2> QED BY <1>1, <1>4, <2>1
  <1> QED BY <1>2, <1>3, <1>4

LEMMA StartTypes ==
  ASSUME TypeOK, SentInv, NEW e \in Elements, StartElement(e)
  PROVE  TypeOK' /\ SentInv'
  <1>1. /\ Sendable(e) /\ sent' = sent + 1 /\ sent' \in 0 .. MaxElements
        /\ UNCHANGED <<pc, handler, searchall, code, broken, said, row, heading>>
    BY RespTypes DEF StartElement, display
  <1>2. /\ sent \in Nat /\ prune \in 0 .. MaxElements /\ num \in Nat
        /\ open \in Seq(Open) /\ root \in Seq(Result) /\ curr \in Result
        /\ \A i \in 1 .. Len(root) : root[i].id \in Nat
    <2>1. root \in Seq(Result)
      BY DEF TypeOK
    <2>2. \A i \in 1 .. Len(root) : root[i].id \in Nat
      BY <2>1, ListedResults
    <2> QED BY <2>1, <2>2, Bounds DEF TypeOK, Open
  <1>3. curr.id \in Nat
    BY <1>2, Bounds DEF Result
  <1>4. CASE err
    <2>1. /\ open' = Append(open, [elem |-> "multistatus", resp |-> RespOf(e)])
          /\ prune' = prune
          /\ UNCHANGED <<root, curr, num, startProp, err, cdata, crashed>>
      BY <1>4 DEF StartElement, context
    <2>2. [elem |-> "multistatus", resp |-> RespOf(e)] \in Open
      BY <1>1, RespTypes DEF Elements
    <2>3. open' \in Seq(Open)
      BY <1>2, <2>1, <2>2, Pushed
    <2>4. TypeOK'
      BY <1>1, <2>1, <2>3 DEF TypeOK, Open
    <2>5. SentInv'
      <3>1. prune' = prune /\ num' = num /\ curr' = curr /\ root' = root
        BY <2>1
      <3>2. prune' <= sent' /\ num' <= sent' /\ curr'.id <= sent'
        BY <1>1, <1>2, <1>3, <3>1 DEF SentInv
      <3>3. \A i \in 1 .. Len(root') : root'[i].id <= sent'
        BY <1>1, <1>2, <3>1 DEF SentInv
      <3> QED BY <3>2, <3>3 DEF SentInv
    <2> QED BY <2>4, <2>5
  <1>5. CASE ~err
    <2>1. /\ StartCallback(e) /\ prune = 0
          /\ \/ /\ open' = Append(open, [elem |-> e, resp |-> RespOf(e)])
                /\ prune' = prune
             \/ open' = open /\ prune' = 1
      BY <1>5 DEF StartElement
    <2>2. open' \in Seq(Open)
      BY <1>1, <1>2, <2>1, RespTypes, Pushed
    <2>3. prune' \in 0 .. MaxElements /\ prune' <= sent'
      BY <1>1, <1>2, <2>1, Bounds
    <2>4. /\ curr' \in Result /\ curr'.id <= sent'
      BY <1>1, <1>2, <1>3, <2>1, StartedResult DEF SentInv
    <2>5. num' \in 0 .. MaxElements /\ num' <= sent'
      BY <1>1, <1>2, <2>1, Bounds DEF StartCallback, SentInv
    <2>6. /\ root' = root /\ crashed' = crashed /\ cdata' = <<>>
          /\ startProp' \in BOOLEAN /\ err' \in BOOLEAN
      BY <2>1, Zenon DEF StartCallback, TypeOK
    <2>7. cdata' \in Seq(Piece)
      BY <2>6, NoText
    <2>8. TypeOK'
      BY <1>1, <2>2, <2>3, <2>4, <2>5, <2>6, <2>7 DEF TypeOK, Open
    <2>9. SentInv'
      BY <1>1, <1>2, <2>3, <2>4, <2>5, <2>6 DEF SentInv
    <2> QED BY <2>8, <2>9
  <1> QED BY <1>4, <1>5

LEMMA TextTypes ==
  ASSUME TypeOK, SentInv, CharacterData
  PROVE  TypeOK' /\ SentInv'
  <1>1. open \in Seq(Open) /\ open # <<>> /\ cdata \in Seq(Piece)
    BY DEF CharacterData, TypeOK, Open
  <1>2. Last(open) \in Open
    BY <1>1, Popped
  <1>3. [in |-> Parent, resp |-> Last(open).resp] \in Piece
    BY <1>1, <1>2 DEF Parent, Piece, Open
  <1>4. cdata' = Append(cdata, [in |-> Parent, resp |-> Last(open).resp])
    BY DEF CharacterData
  <1>5. cdata' \in Seq(Piece)
    BY <1>1, <1>3, <1>4, Pushed
  <1> QED BY <1>5 DEF CharacterData, TypeOK, SentInv, parser, display

\* What the end of an element does to what the callbacks share.
Ended(e) ==
  \/ e = "response" /\ EndResponse
  \/ e \in {"href", "live"} /\ EndCopied(e)
  \/ e = "prop" /\ EndProp
  \/ e \in {"multistatus", "status", "other"} /\ EndOther
  \/ e \in {"propstat", "ignore"} /\ UNCHANGED <<root, curr, num, startProp, err, crashed>>

\* The end of an element that is no response keeps the result being read, and
\* adds the text to it at most.
LEMMA EndedResult ==
  ASSUME TypeOK, NEW e \in Elements, Ended(e), e # "response"
  PROVE  /\ curr' \in Result /\ curr'.id = curr.id
         /\ Own(curr) /\ Of(cdata, curr.id) => Own(curr')
         /\ root' = root /\ num' = num
         /\ startProp' \in BOOLEAN /\ err' \in BOOLEAN /\ crashed' \in BOOLEAN
  <1>1. curr \in Result /\ cdata \in Seq(Piece)
    BY DEF TypeOK
  <1>2. CASE e \in {"href", "live"}
    <2>1. /\ EndCopied(e) /\ root' = root /\ num' = num
          /\ startProp' = startProp /\ crashed' = crashed /\ err' \in BOOLEAN
      BY <1>2 DEF Ended, EndCopied
    <2>2. \/ curr' = curr
          \/ curr' = [curr EXCEPT !.href = cdata, !.hasHref = TRUE]
          \/ curr' = [curr EXCEPT !.live = cdata]
      BY <2>1, Zenon DEF EndCopied
    <2>3. /\ curr' \in Result /\ curr'.id = curr.id
          /\ Own(curr) /\ Of(cdata, curr.id) => Own(curr')
      <3>1. CASE curr' = curr
        BY <1>1, <3>1
      <3>2. CASE curr' = [curr EXCEPT !.href = cdata, !.hasHref = TRUE]
        BY <1>1, <3>2, HrefResult
      <3>3. CASE curr' = [curr EXCEPT !.live = cdata]
        BY <1>1, <3>3, LiveResult
      <3> QED BY <2>2, <3>1, <3>2, <3>3
    <2> QED BY <2>1, <2>3 DEF TypeOK
  <1>3. CASE e = "prop"
    <2>1. /\ curr' = curr /\ root' = root /\ num' = num /\ crashed' = crashed
          /\ startProp' \in BOOLEAN /\ err' \in BOOLEAN
      BY <1>3, Zenon DEF Ended, EndProp, TypeOK
    <2> QED BY <1>1, <2>1 DEF TypeOK
  <1>4. CASE e \in {"multistatus", "status", "other"}
    <2>1. EndOther /\ UNCHANGED <<root, num, startProp, err>>
      BY <1>4 DEF Ended, EndOther
    <2>2. CASE curr' = curr
      BY <1>1, <2>1, <2>2, Zenon DEF EndOther, TypeOK
    <2>3. CASE curr' # curr
      <3>1. /\ curr.named # "none"
            /\ curr' = [curr EXCEPT
                         !.dead = <<[name |-> curr.named, text |-> cdata]>> \o @,
                         !.named = "none"]
        BY <2>1, <2>3, Zenon DEF EndOther
      <3>2. crashed' \in BOOLEAN
        BY <2>1, Zenon DEF EndOther, TypeOK
      <3>3. /\ curr' \in Result /\ curr'.id = curr.id
            /\ Own(curr) /\ Of(cdata, curr.id) => Own(curr')
        <4> DEFINE q == [curr EXCEPT
                          !.dead = <<[name |-> curr.named, text |-> cdata]>> \o @,
                          !.named = "none"]
        <4>1. /\ q \in Result /\ q.id = curr.id
              /\ Own(curr) /\ Of(cdata, curr.id) => Own(q)
          BY <1>1, <3>1, DeadResult
        <4>2. curr' = q
          BY <3>1
        <4> HIDE DEF q
        <4> QED BY <4>1, <4>2
      <3> QED BY <2>1, <3>2, <3>3 DEF TypeOK
    <2> QED BY <2>2, <2>3
  <1>5. CASE e \in {"propstat", "ignore"}
    BY <1>1, <1>5 DEF Ended, TypeOK
  <1> QED BY <1>2, <1>3, <1>4, <1>5 DEF Elements

\* The end of a response links it or is an error.
LEMMA EndedResponse ==
  ASSUME TypeOK, Ended("response")
  PROVE  /\ num' = num /\ startProp' = startProp /\ crashed' = crashed
         /\ err' \in BOOLEAN
         /\ err' => root' = root /\ curr' = curr
         /\ ~err' => curr # None /\ root' = <<curr>> \o root /\ curr' = None
  <1>1. EndResponse
    BY DEF Ended
  <1> QED BY <1>1, Zenon DEF EndResponse

\* The end of an element, in all.
LEMMA EndedElement ==
  ASSUME TypeOK, EndElement
  PROVE  /\ open \in Seq(Open) /\ open # <<>> /\ Parent \in Elements
         /\ Last(open) \in Open /\ Last(open).elem = Parent
         /\ \/ /\ err /\ broken' /\ UNCHANGED <<open, context>>
            \/ /\ ~err /\ open' = Front(open) /\ broken' = broken
               /\ Ended(Parent) /\ cdata' = cdata
         /\ UNCHANGED <<pc, handler, searchall, code, prune, sent, said, row, heading>>
  <1>1. open \in Seq(Open) /\ open # <<>>
    BY DEF TypeOK, Open, EndElement
  <1>2. Last(open) \in Open
    BY <1>1, Popped
  <1>3. Parent = Last(open).elem
    BY <1>1 DEF Parent
  <1>4. \/ /\ err /\ broken' /\ UNCHANGED <<open, context>>
        \/ /\ ~err /\ open' = Front(open) /\ broken' = broken
           /\ Ended(Parent) /\ cdata' = cdata
    BY Zenon DEF EndElement, Ended
  <1>5. UNCHANGED <<pc, handler, searchall, code, prune, sent, said, row, heading>>
    BY DEF EndElement, display
  <1> QED BY <1>1, <1>2, <1>3, <1>4, <1>5 DEF Open

LEMMA EndTypes ==
  ASSUME TypeOK, SentInv, EndElement
  PROVE  TypeOK' /\ SentInv'
  <1> USE EndedElement
  <1>1. CASE err /\ broken' /\ UNCHANGED <<open, context>>
    <2>1. broken' \in BOOLEAN
      BY <1>1 DEF EndElement, TypeOK
    <2>2. TypeOK'
      BY <1>1, <2>1 DEF TypeOK, context
    <2>3. SentInv'
      BY <1>1 DEF SentInv, context
    <2> QED BY <2>2, <2>3
  <1>2. CASE /\ ~err /\ open' = Front(open) /\ broken' = broken
             /\ Ended(Parent) /\ cdata' = cdata
    <2>1. open' \in Seq(Open)
      BY <1>2, Popped
    <2>2. curr \in Result /\ root \in Seq(Result) /\ row \in 0 .. Len(root)
      BY DEF TypeOK
    <2>3. /\ root' \in Seq(Result) /\ curr' \in Result /\ num' = num
          /\ startProp' \in BOOLEAN /\ err' \in BOOLEAN /\ crashed' \in BOOLEAN
          /\ row \in 0 .. Len(root') /\ curr'.id <= sent
          /\ \A i \in 1 .. Len(root') : root'[i].id <= sent
      <3>1. CASE Parent = "response" /\ ~err'
        <4>1. /\ num' = num /\ startProp' \in BOOLEAN /\ err' \in BOOLEAN
              /\ crashed' \in BOOLEAN /\ root' = <<curr>> \o root /\ curr' = None
          BY <1>2, <3>1, EndedResponse DEF TypeOK
        <4>2. /\ root' \in Seq(Result) /\ Len(root) \in Nat
              /\ Len(root') = Len(root) + 1 /\ root'[1] = curr
              /\ \A i \in 2 .. Len(root) + 1 :
                   i - 1 \in 1 .. Len(root) /\ root'[i] = root[i - 1]
          BY <2>2, <4>1, PutFirst
        <4>3. row \in 0 .. Len(root')
          BY <2>2, <4>2
        <4>4. \A i \in 1 .. Len(root') : root'[i].id <= sent
          BY <4>2 DEF SentInv
        <4>5. curr' \in Result /\ curr'.id <= sent
          BY <4>1, NoneIsResult, Bounds DEF TypeOK
        <4> QED BY <4>1, <4>2, <4>3, <4>4, <4>5
      <3>2. CASE Parent = "response" /\ err'
        BY <1>2, <2>2, <3>2, EndedResponse DEF TypeOK, SentInv
      <3>3. CASE Parent # "response"
        BY <1>2, <2>2, <3>3, EndedResult DEF SentInv
      <3> QED BY <3>1, <3>2, <3>3
    <2>4. TypeOK'
      BY <1>2, <2>1, <2>3 DEF TypeOK, Open
    <2>5. SentInv'
      BY <2>3 DEF SentInv
    <2> QED BY <2>4, <2>5
  <1> QED BY <1>1, <1>2

LEMMA Headed ==
  ASSUME NEW m \in Nat, NEW n \in Nat
  PROVE  /\ <<m, n>> \in Seq(Nat) /\ Len(<<m, n>>) = 2
         /\ <<m, n>>[1] = m /\ <<m, n>>[2] = n
  OBVIOUS

LEMMA SmallerOne ==
  ASSUME NEW m \in Nat, NEW n \in Nat, NEW k \in Nat
  PROVE  Smaller(m, n + k) \in Nat /\ Smaller(m, n + k) <= m
  BY DEF Smaller

LEMMA InitTypes == Init => TypeOK /\ SentInv
  <1> SUFFICES ASSUME Init PROVE TypeOK /\ SentInv
    OBVIOUS
  <1>1. 0 \in 0 .. MaxElements
    BY Bounds
  <1>2. /\ <<>> \in Seq([elem : Elements, resp : 0 .. MaxElements])
        /\ <<>> \in Seq(Result) /\ Len(<<>>) = 0
    BY EmptySeq
  <1>3. heading \in Seq(Nat) /\ Len(heading) = 2
    BY DEF Init
  <1>4. FALSE \in BOOLEAN /\ searchall \in BOOLEAN
    BY DEF Init
  <1>5. curr \in Result /\ curr.id = 0
    BY NoneIsResult DEF Init
  <1>6. TypeOK
    <2>1. /\ pc = "request" /\ handler \in {"search", "history"} /\ code = 0
          /\ open = <<>> /\ prune = 0 /\ broken = FALSE /\ root = <<>> /\ num = 0
          /\ startProp = FALSE /\ err = FALSE /\ cdata = <<>> /\ crashed = FALSE
          /\ sent = 0 /\ said = "nothing" /\ row = 0
      BY DEF Init
    <2>2. /\ {prune, num, sent} \subseteq 0 .. MaxElements /\ row \in 0 .. Len(root)
      BY <1>1, <1>2, <2>1
    <2>3. {broken, startProp, err, crashed} \subseteq BOOLEAN
      BY <1>4, <2>1
    <2>4. /\ open \in Seq([elem : Elements, resp : 0 .. MaxElements])
          /\ root \in Seq(Result) /\ cdata \in Seq(Piece)
      BY <1>2, <2>1, NoText
    <2> QED BY <1>3, <1>4, <1>5, <2>1, <2>2, <2>3, <2>4 DEF TypeOK
  <1>7. SentInv
    BY <1>2, <1>5 DEF Init, SentInv
  <1> QED BY <1>6, <1>7

LEMMA StepTypes == TypeOK /\ SentInv /\ [Next]_vars => TypeOK' /\ SentInv'
  <1> SUFFICES ASSUME TypeOK, SentInv, [Next]_vars PROVE TypeOK' /\ SentInv'
    OBVIOUS
  <1> USE DEF parser, display, context
  <1>0. sent \in Nat /\ prune \in Nat /\ num \in Nat /\ row \in Nat /\ Len(root) \in Nat
        /\ curr.id \in Nat /\ \A i \in 1 .. Len(root) : root[i].id \in Nat
    <2>1. root \in Seq(Result) /\ curr \in Result
      BY DEF TypeOK
    <2>2. Len(root) \in Nat
      BY <2>1, LenProperties
    <2>3. curr.id \in Nat
      BY <2>1, Bounds DEF Result
    <2>4. \A i \in 1 .. Len(root) : root[i].id \in Nat
      BY <2>1, ListedResults
    <2> QED BY <2>2, <2>3, <2>4, Bounds DEF TypeOK
  <1>1. CASE \E c \in {0, 200, 207, 404} : Dispatch(c)
    BY <1>1 DEF Dispatch, TypeOK, SentInv
  <1>2. CASE \E e \in Elements : StartElement(e)
    BY <1>2, StartTypes
  <1>3. CASE \E e \in Elements : PrunedElement(e)
    <2>1. /\ prune > 0 /\ sent < MaxElements /\ sent' = sent + 1 /\ prune' = prune + 1
          /\ UNCHANGED <<pc, handler, searchall, code, open, broken, context, display>>
      BY <1>3 DEF PrunedElement, Sendable
    <2>2. sent' \in 0 .. MaxElements /\ prune' \in 0 .. MaxElements /\ prune' <= sent'
      BY <1>0, <2>1, Bounds DEF SentInv
    <2>3. SentInv'
      BY <1>0, <2>1, <2>2 DEF SentInv
    <2> QED BY <2>1, <2>2, <2>3 DEF TypeOK
  <1>4. CASE EndPruned
    <2>1. /\ prune > 0 /\ prune' = prune - 1
          /\ UNCHANGED <<pc, handler, searchall, code, open, broken, context, sent, display>>
      BY <1>4 DEF EndPruned
    <2>2. prune' \in 0 .. MaxElements /\ prune' <= sent
      BY <1>0, <2>1, Bounds DEF SentInv, TypeOK
    <2> QED BY <2>1, <2>2 DEF TypeOK, SentInv
  <1>5. CASE CharacterData
    BY <1>5, TextTypes
  <1>6. CASE EndElement
    BY <1>6, EndTypes
  <1>7. CASE Breaks
    BY <1>7 DEF Breaks, TypeOK, SentInv
  <1>8. CASE EndOfBody
    BY <1>8 DEF EndOfBody, TypeOK, SentInv
  <1>9. CASE Show
    <2>1. /\ UNCHANGED <<handler, searchall, code, parser, context, sent>>
          /\ pc' \in {"rows", "done"}
          /\ said' \in {"nothing", "failed", "results", "end"}
      BY <1>9 DEF Show
    <2>2. row' = row \/ row' = 0 \/ row' = Len(root)
      BY <1>9 DEF Show
    <2>3. heading' = heading \/ heading' = <<1, num>>
      BY <1>9 DEF Show
    <2>4. row' \in 0 .. Len(root')
      BY <1>0, <2>1, <2>2 DEF TypeOK
    <2>5. heading' \in Seq(Nat) /\ Len(heading') = 2
      <3>1. <<1, num>> \in Seq(Nat) /\ Len(<<1, num>>) = 2
        BY <1>0, Headed
      <3> QED BY <2>3, <3>1, Zenon DEF TypeOK
    <2> QED BY <2>1, <2>4, <2>5 DEF TypeOK, SentInv
  <1>10. CASE ShowRow
    <2>1. /\ UNCHANGED <<handler, searchall, code, parser, context, sent, said>>
          /\ pc' \in {"rows", "more"} /\ row < Len(root) /\ row' = row + 1
          /\ heading' = heading \/ heading' = <<row', Smaller(num, row' + Ahead)>>
      BY <1>10 DEF ShowRow
    <2>2. row' \in Nat /\ row' \in 0 .. Len(root')
      BY <1>0, <2>1
    <2>3. Smaller(num, row' + Ahead) \in Nat
      <3>1. row' \in Nat /\ Ahead \in Nat
        BY <2>2, Bounds
      <3> QED BY <1>0, <3>1, SmallerOne
    <2>4. heading' \in Seq(Nat) /\ Len(heading') = 2
      <3>1. /\ <<row', Smaller(num, row' + Ahead)>> \in Seq(Nat)
            /\ Len(<<row', Smaller(num, row' + Ahead)>>) = 2
        BY <2>2, <2>3, Headed
      <3> QED BY <2>1, <3>1, Zenon DEF TypeOK
    <2> QED BY <2>1, <2>2, <2>4 DEF TypeOK, SentInv
  <1>11. CASE EndOfRows
    BY <1>11 DEF EndOfRows, TypeOK, SentInv
  <1>12. CASE \E ch \in {"q", "enter"} : More(ch)
    BY <1>12 DEF More, TypeOK, SentInv
  <1>13. CASE UNCHANGED vars
    BY <1>13 DEF vars, TypeOK, SentInv
  <1> QED BY <1>1, <1>2, <1>3, <1>4, <1>5, <1>6, <1>7, <1>8, <1>9, <1>10, <1>11, <1>12,
             <1>13 DEF Next

---------------------------------------------------------------------------
(* The list: every result is made of its own text, and the last response   *)
(* comes first.  While no callback failed, the result being read is that   *)
(* of the response around, and every response open is one announced that   *)
(* is not in the list yet.                                                 *)

\* An open element that is no response is in the response of its parent.
Chain(s) ==
  \A i \in 1 .. Len(s) :
    s[i].elem # "response" => s[i].resp = IF i = 1 THEN 0 ELSE s[i - 1].resp

ListInv ==
  /\ curr = None \/ curr.id > 0
  /\ Own(curr) /\ \A i \in 1 .. Len(root) : Own(root[i])
  /\ LastFirst

CurrInv ==
  ~err /\ curr # None =>
    /\ open # <<>> /\ Last(open).resp = curr.id
    /\ Of(cdata, curr.id)
    /\ \A i \in 1 .. Len(root) : root[i].id < curr.id

ReadInv ==
  /\ ListInv /\ CurrInv
  /\ ~err => Chain(open) /\ num = Len(root) + Cardinality(Responses(open))

LEMMA ChainPushed ==
  ASSUME TypeOK, Chain(open), NEW e \in Elements, Sendable(e)
  PROVE  Chain(Append(open, [elem |-> e, resp |-> RespOf(e)]))
  <1> DEFINE x == [elem |-> e, resp |-> RespOf(e)]
             t == Append(open, x)
  <1>1. open \in Seq(Open) /\ x \in Open /\ x.elem = e /\ x.resp = RespOf(e)
    BY RespTypes DEF TypeOK, Open
  <1>2. /\ Len(open) \in Nat /\ Len(t) = Len(open) + 1
        /\ \A i \in 1 .. Len(open) : t[i] = open[i]
        /\ t[Len(open) + 1] = x
    BY <1>1, Pushed
  <1> HIDE DEF t
  <1> SUFFICES ASSUME NEW i \in 1 .. Len(t), t[i].elem # "response"
               PROVE  t[i].resp = IF i = 1 THEN 0 ELSE t[i - 1].resp
    BY DEF Chain, t
  <1>3. CASE i \in 1 .. Len(open)
    <2>1. i # 1 => i - 1 \in 1 .. Len(open)
      BY <1>2, <1>3
    <2> QED BY <1>2, <1>3, <2>1 DEF Chain
  <1>4. CASE i = Len(open) + 1
    <2>1. e # "response" /\ t[i].resp = RespOf(e)
      BY <1>1, <1>2, <1>4
    <2>2. CASE open = <<>>
      <3>1. i = 1
        BY <1>4, <2>2
      <3> QED BY <2>1, <2>2, <3>1 DEF RespOf
    <2>3. CASE open # <<>>
      <3>1. Len(open) \in 1 .. Len(open) /\ Last(open) = open[Len(open)]
        <4>1. Len(open) \in Nat \ {0} /\ Last(open) = open[Len(open)]
          BY <1>1, <2>3, Popped
        <4> QED BY <4>1
      <3>2. i # 1 /\ i - 1 = Len(open)
        BY <1>2, <1>4, <3>1
      <3> QED BY <1>2, <2>1, <2>3, <3>1, <3>2 DEF RespOf
    <2> QED BY <2>2, <2>3
  <1> QED BY <1>2, <1>3, <1>4

LEMMA ChainPopped ==
  ASSUME NEW s \in Seq(Open), s # <<>>, Chain(s)
  PROVE  /\ Chain(Front(s))
         /\ Last(s).elem # "response" /\ Last(s).resp > 0 =>
              Front(s) # <<>> /\ Last(Front(s)).resp = Last(s).resp
  <1> DEFINE t == Front(s)
  <1>1. /\ Len(s) \in Nat \ {0} /\ Len(t) = Len(s) - 1
        /\ \A i \in 1 .. Len(s) - 1 : t[i] = s[i]
        /\ Last(s) = s[Len(s)]
        /\ Len(s) > 1 => t # <<>> /\ Last(t) = s[Len(s) - 1]
    BY Popped
  <1> HIDE DEF t
  <1>2. Chain(t)
    <2> SUFFICES ASSUME NEW i \in 1 .. Len(t), t[i].elem # "response"
                 PROVE  t[i].resp = IF i = 1 THEN 0 ELSE t[i - 1].resp
      BY DEF Chain
    <2>1. i \in 1 .. Len(s) /\ i \in 1 .. Len(s) - 1
      BY <1>1
    <2>2. i # 1 => i - 1 \in 1 .. Len(s) - 1
      BY <1>1, <2>1
    <2> QED BY <1>1, <2>1, <2>2 DEF Chain
  <1>3. ASSUME Last(s).elem # "response", Last(s).resp > 0
        PROVE  t # <<>> /\ Last(t).resp = Last(s).resp
    <2>1. Len(s) \in 1 .. Len(s)
      BY <1>1
    <2>2. Last(s).resp = IF Len(s) = 1 THEN 0 ELSE s[Len(s) - 1].resp
      BY <1>1, <1>3, <2>1 DEF Chain
    <2>3. Len(s) > 1
      BY <1>1, <1>3, <2>2
    <2> QED BY <1>1, <2>2, <2>3
  <1> QED BY <1>2, <1>3 DEF t

LEMMA StartReads ==
  ASSUME TypeOK, SentInv, ReadInv, NEW e \in Elements, StartElement(e)
  PROVE  ReadInv'
  <1>0. /\ open \in Seq(Open) /\ curr \in Result /\ root \in Seq(Result)
        /\ curr.id \in Nat /\ sent \in Nat /\ num \in Nat
        /\ Len(root) \in Nat /\ \A i \in 1 .. Len(root) : root[i].id \in Nat
    <2>1. curr \in Result /\ root \in Seq(Result)
      BY DEF TypeOK
    <2>2. curr.id \in Nat
      BY <2>1, Bounds DEF Result
    <2> QED BY <2>1, <2>2, ListedResults, LenProperties, Bounds DEF TypeOK, Open
  <1>1. CASE err
    <2>1. UNCHANGED <<root, curr, num, err, cdata>>
      BY <1>1 DEF StartElement, context
    <2> QED BY <1>1, <2>1 DEF ReadInv, ListInv, CurrInv, LastFirst
  <1>2. CASE ~err
    <2>1. /\ StartCallback(e) /\ Sendable(e)
          /\ open' = IF Mapped(e) THEN Append(open, [elem |-> e, resp |-> RespOf(e)])
                                  ELSE open
      BY <1>2 DEF StartElement
    <2>2. /\ root' = root /\ cdata' = <<>>
          /\ num' = IF e = "response" THEN num + 1 ELSE num
      BY <2>1 DEF StartCallback
    <2>3. /\ curr' \in Result
          /\ e = "response" => curr'.id = sent + 1 /\ Own(curr') /\ curr' # None
          /\ e # "response" => /\ curr'.id = curr.id /\ (Own(curr) => Own(curr'))
                               /\ (curr = None => curr' = None)
      BY <2>1, StartedResult
    <2>4. ListInv'
      BY <1>0, <2>2, <2>3 DEF ReadInv, ListInv, LastFirst
    <2>5. [elem |-> e, resp |-> RespOf(e)] \in Open
      BY <2>1, RespTypes
    <2>6. Last(Append(open, [elem |-> e, resp |-> RespOf(e)])).resp = RespOf(e)
          /\ Append(open, [elem |-> e, resp |-> RespOf(e)]) # <<>>
      BY <1>0, <2>5, Pushed
    <2>7. CurrInv'
      <3> SUFFICES ASSUME curr' # None
                   PROVE  /\ open' # <<>> /\ Last(open').resp = curr'.id
                          /\ Of(cdata', curr'.id)
                          /\ \A i \in 1 .. Len(root') : root'[i].id < curr'.id
        BY DEF CurrInv
      <3>1. Of(cdata', curr'.id)
        BY <2>2, NoText
      <3>2. CASE e = "response"
        <4>1. Mapped(e)
          BY <3>2 DEF Mapped
        <4>2. open' # <<>> /\ Last(open').resp = sent + 1
          BY <2>1, <2>6, <3>2, <4>1 DEF RespOf
        <4>3. \A i \in 1 .. Len(root') : root'[i].id < curr'.id
          BY <1>0, <2>2, <2>3, <3>2 DEF SentInv
        <4> QED BY <2>3, <3>1, <3>2, <4>2, <4>3
      <3>3. CASE e # "response"
        <4>1. curr # None /\ curr'.id = curr.id
          BY <2>3, <3>3
        <4>2. /\ open # <<>> /\ Last(open).resp = curr.id
              /\ \A i \in 1 .. Len(root) : root[i].id < curr.id
          BY <1>2, <4>1 DEF ReadInv, CurrInv
        <4>3. RespOf(e) = curr.id
          BY <3>3, <4>2 DEF RespOf
        <4>4. open' # <<>> /\ Last(open').resp = curr.id
          BY <2>1, <2>6, <4>2, <4>3
        <4> QED BY <2>2, <3>1, <4>1, <4>2, <4>4
      <3> QED BY <3>2, <3>3
    <2>8. Chain(open')
      BY <1>2, <2>1, ChainPushed DEF ReadInv
    <2>9. num' = Len(root') + Cardinality(Responses(open'))
      <3>1. /\ num = Len(root) + Cardinality(Responses(open))
            /\ Cardinality(Responses(open)) \in Nat
        BY <1>0, <1>2, ResponsesFinite DEF ReadInv
      <3>2. CASE ~Mapped(e)
        <4>1. e # "response" /\ open' = open
          BY <2>1, <3>2 DEF Mapped
        <4> QED BY <2>2, <3>1, <4>1
      <3>3. CASE Mapped(e)
        <4>1. open' = Append(open, [elem |-> e, resp |-> RespOf(e)])
          BY <2>1, <3>3
        <4>2. Cardinality(Responses(open')) =
                Cardinality(Responses(open)) + IF e = "response" THEN 1 ELSE 0
          BY <1>0, <2>5, <4>1, ResponsesPushed
        <4> QED BY <1>0, <2>2, <3>1, <4>2
      <3> QED BY <3>2, <3>3
    <2> QED BY <2>4, <2>7, <2>8, <2>9 DEF ReadInv
  <1> QED BY <1>1, <1>2

LEMMA TextReads ==
  ASSUME TypeOK, ReadInv, CharacterData
  PROVE  ReadInv'
  <1>1. /\ cdata \in Seq(Piece) /\ curr \in Result /\ open \in Seq(Open) /\ open # <<>>
    BY DEF TypeOK, Open, CharacterData
  <1>2. /\ cdata' = Append(cdata, [in |-> Parent, resp |-> Last(open).resp])
        /\ ~err /\ UNCHANGED <<open, root, curr, num, err>>
    BY DEF CharacterData, parser
  <1>3. [in |-> Parent, resp |-> Last(open).resp] \in Piece
    <2>1. Last(open) \in Open
      BY <1>1, Popped
    <2> QED BY <1>1, <2>1 DEF Parent, Piece, Open
  <1>4. /\ Len(cdata) \in Nat /\ Len(cdata') = Len(cdata) + 1
        /\ \A i \in 1 .. Len(cdata) : cdata'[i] = cdata[i]
        /\ cdata'[Len(cdata) + 1] = [in |-> Parent, resp |-> Last(open).resp]
    BY <1>1, <1>2, <1>3, Pushed
  <1>5. ListInv'
    BY <1>2 DEF ReadInv, ListInv, LastFirst
  <1>6. CurrInv'
    <2> SUFFICES ASSUME curr # None PROVE Of(cdata', curr.id)
      BY <1>2 DEF ReadInv, CurrInv
    <2>1. Last(open).resp = curr.id /\ Of(cdata, curr.id)
      BY <1>2 DEF ReadInv, CurrInv
    <2>2. cdata'[Len(cdata) + 1].resp = curr.id
      BY <1>4, <2>1
    <2> QED BY <1>4, <2>1, <2>2 DEF Of
  <1> QED BY <1>2, <1>5, <1>6 DEF ReadInv

LEMMA EndReads ==
  ASSUME TypeOK, ReadInv, EndElement
  PROVE  ReadInv'
  <1>0. /\ open \in Seq(Open) /\ open # <<>> /\ Parent \in Elements
        /\ Last(open) \in Open /\ Last(open).elem = Parent
        /\ curr \in Result /\ root \in Seq(Result)
        /\ curr.id \in Nat /\ Len(root) \in Nat /\ num \in Nat
        /\ \A i \in 1 .. Len(root) : root[i].id \in Nat
    <2>1. curr \in Result /\ root \in Seq(Result)
      BY DEF TypeOK
    <2>2. curr.id \in Nat
      BY <2>1, Bounds DEF Result
    <2> QED BY <2>1, <2>2, ListedResults, LenProperties, Bounds, EndedElement DEF TypeOK
  <1>1. CASE err /\ broken' /\ UNCHANGED <<open, context>>
    BY <1>1 DEF context, ReadInv, ListInv, CurrInv, LastFirst
  <1>2. CASE /\ ~err /\ open' = Front(open) /\ broken' = broken
             /\ Ended(Parent) /\ cdata' = cdata
    <2>1. Chain(open)
      BY <1>2 DEF ReadInv
    <2>2. /\ Chain(open')
          /\ Parent # "response" /\ Last(open).resp > 0 =>
               open' # <<>> /\ Last(open').resp = Last(open).resp
      BY <1>0, <1>2, <2>1, ChainPopped
    <2>3. /\ Cardinality(Responses(open)) =
               Cardinality(Responses(open')) + IF Parent = "response" THEN 1 ELSE 0
          /\ Cardinality(Responses(open')) \in Nat
          /\ num = Len(root) + Cardinality(Responses(open))
      BY <1>0, <1>2, ResponsesPopped, ResponsesFinite, Popped DEF ReadInv
    <2>4. CASE Parent = "response" /\ err'
      <3>1. root' = root /\ curr' = curr /\ num' = num
        BY <1>2, <2>4, EndedResponse
      <3> QED BY <2>4, <3>1 DEF ReadInv, ListInv, CurrInv, LastFirst
    <2>5. CASE Parent = "response" /\ ~err'
      <3>1. num' = num /\ curr # None /\ root' = <<curr>> \o root /\ curr' = None
        BY <1>2, <2>5, EndedResponse
      <3>2. /\ Len(root') = Len(root) + 1 /\ root'[1] = curr
            /\ \A i \in 2 .. Len(root) + 1 :
                 i - 1 \in 1 .. Len(root) /\ root'[i] = root[i - 1]
        BY <1>0, <3>1, PutFirst
      <3>3. \A i \in 1 .. Len(root) : root[i].id < curr.id
        BY <1>2, <3>1 DEF ReadInv, CurrInv
      <3>4. \A i \in 1 .. Len(root') : Own(root'[i])
        BY <1>0, <3>2 DEF ReadInv, ListInv
      <3>5. LastFirst'
        <4> SUFFICES ASSUME NEW i \in 1 .. Len(root'), NEW j \in 1 .. Len(root'), i < j
                     PROVE  root'[i].id > root'[j].id
          BY DEF LastFirst
        <4>1. j \in 2 .. Len(root) + 1 /\ j - 1 \in 1 .. Len(root) /\ root'[j] = root[j - 1]
          BY <1>0, <3>2
        <4>2. CASE i = 1
          BY <1>0, <3>2, <3>3, <4>1, <4>2
        <4>3. CASE i # 1
          <5>1. /\ i - 1 \in 1 .. Len(root) /\ root'[i] = root[i - 1] /\ i - 1 < j - 1
            BY <1>0, <3>2, <4>1, <4>3
          <5> QED BY <1>0, <4>1, <5>1 DEF ReadInv, ListInv, LastFirst
        <4> QED BY <4>2, <4>3
      <3>6. ListInv'
        BY <3>1, <3>4, <3>5, NoneIsResult, EmptyOwn DEF ListInv
      <3>7. CurrInv'
        BY <3>1 DEF CurrInv
      <3>8. num' = Len(root') + Cardinality(Responses(open'))
        BY <1>0, <2>3, <2>5, <3>1, <3>2
      <3> QED BY <2>2, <3>6, <3>7, <3>8 DEF ReadInv
    <2>6. CASE Parent # "response"
      <3>1. /\ curr' \in Result /\ curr'.id = curr.id
            /\ Own(curr) /\ Of(cdata, curr.id) => Own(curr')
            /\ root' = root /\ num' = num
        BY <1>0, <1>2, <2>6, EndedResult
      <3>2. CASE curr = None
        <4>1. curr' = None
          BY <1>2, <2>6, <3>2, Zenon DEF Ended, EndCopied, EndProp, EndOther
        <4> QED BY <1>2, <2>2, <2>3, <2>6, <3>1, <3>2, <4>1
                DEF ReadInv, ListInv, CurrInv, LastFirst
      <3>3. CASE curr # None
        <4>1. /\ Last(open).resp = curr.id /\ Of(cdata, curr.id) /\ curr.id > 0
              /\ \A i \in 1 .. Len(root) : root[i].id < curr.id
          BY <1>2, <3>3 DEF ReadInv, CurrInv, ListInv
        <4>2. ListInv'
          BY <3>1, <4>1 DEF ReadInv, ListInv, LastFirst
        <4>3. CurrInv'
          BY <1>2, <2>2, <2>6, <3>1, <4>1 DEF CurrInv
        <4> QED BY <2>2, <2>3, <2>6, <3>1, <4>2, <4>3 DEF ReadInv
      <3> QED BY <3>2, <3>3
    <2> QED BY <2>4, <2>5, <2>6
  <1> QED BY <1>1, <1>2, EndedElement

LEMMA InitReads == Init => ReadInv
  <1> SUFFICES ASSUME Init PROVE ReadInv
    OBVIOUS
  <1>1. /\ open = <<>> /\ root = <<>> /\ curr = None /\ num = 0 /\ Len(root) = 0
    BY DEF Init
  <1>2. Own(curr)
    BY <1>1, NoneIsResult, EmptyOwn
  <1>3. Chain(open)
    BY <1>1 DEF Chain
  <1>4. num = Len(root) + Cardinality(Responses(open))
    BY <1>1, NoResponses
  <1>5. ListInv
    BY <1>1, <1>2 DEF ListInv, LastFirst
  <1> QED BY <1>1, <1>3, <1>4, <1>5 DEF ReadInv, CurrInv

LEMMA StepReads == TypeOK /\ SentInv /\ ReadInv /\ [Next]_vars => ReadInv'
  <1> SUFFICES ASSUME TypeOK, SentInv, ReadInv, [Next]_vars PROVE ReadInv'
    OBVIOUS
  <1>1. CASE \E e \in Elements : StartElement(e)
    BY <1>1, StartReads
  <1>2. CASE CharacterData
    BY <1>2, TextReads
  <1>3. CASE EndElement
    BY <1>3, EndReads
  <1>4. CASE UNCHANGED <<open, root, curr, num, err, cdata>>
    BY <1>4 DEF ReadInv, ListInv, CurrInv, LastFirst
  <1>5. \/ \E e \in Elements : StartElement(e)
        \/ CharacterData \/ EndElement
        \/ UNCHANGED <<open, root, curr, num, err, cdata>>
    BY DEF Next, vars, Dispatch, PrunedElement, EndPruned, Breaks, EndOfBody, Show, ShowRow,
           EndOfRows, More, parser, context
  <1> QED BY <1>1, <1>2, <1>3, <1>4, <1>5

---------------------------------------------------------------------------
(* No property without a name: an element whose end fills in a dead        *)
(* property is one whose start gave it a name.  That needs a server that   *)
(* puts nothing of DAV: into a status, and no multistatus into anything.   *)

DAVNesting ==
  /\ Children["status"] \subseteq {"other"}
  /\ \A e \in Elements : "multistatus" \notin Children[e]

NullInv ==
  /\ ~crashed
  /\ ~err =>
       /\ \A i \in 1 .. Len(open) : open[i].elem # "other"
       /\ \A i \in 1 .. Len(open) - 1 : open[i].elem # "status"
       /\ \A i \in 2 .. Len(open) : open[i].elem # "multistatus"
       /\ /\ open # <<>> /\ Last(open).elem = "status" /\ curr # None
          /\ handler = "search" /\ searchall /\ startProp
          => curr.named # "none"

LEMMA StartNamed ==
  ASSUME DAVNesting, TypeOK, NullInv, NEW e \in Elements, StartElement(e)
  PROVE  NullInv'
  <1>0. open \in Seq(Open) /\ Len(open) \in Nat
    BY LenProperties DEF TypeOK, Open
  <1>1. CASE err
    BY <1>1 DEF StartElement, context, NullInv
  <1>2. CASE ~err
    <2>1. /\ StartCallback(e) /\ Sendable(e) /\ (open # <<>> => e \in Children[Parent])
          /\ open' = IF Mapped(e) THEN Append(open, [elem |-> e, resp |-> RespOf(e)])
                                  ELSE open
          /\ UNCHANGED <<handler, searchall>>
      BY <1>2 DEF StartElement
    <2>2. crashed' = crashed /\ ~crashed
      BY <2>1 DEF StartCallback, NullInv
    <2>3. open # <<>> => /\ Len(open) \in Nat \ {0} /\ Last(open) = open[Len(open)]
                         /\ Last(open).elem = Parent /\ Parent \in Elements
      <3>1. open # <<>> => /\ Len(open) \in Nat \ {0} /\ Last(open) = open[Len(open)]
                           /\ Last(open) \in Open
        BY <1>0, Popped
      <3> QED BY <3>1 DEF Parent, Open
    <2>4. e # "prop" => startProp' = startProp
      <3>1. startProp \in BOOLEAN
        BY DEF TypeOK
      <3> QED BY <2>1, <3>1, Zenon DEF StartCallback
    <2>5. curr' # None /\ e # "response" => curr # None
      BY <2>1, StartedResult
    <2>6. CASE ~Mapped(e)
      <3>1. e \in {"other", "ignore"} /\ open' = open
        BY <2>1, <2>6 DEF Mapped
      <3>2. ASSUME open # <<>>, Last(open).elem = "status", curr' # None,
                   handler = "search", searchall, startProp'
            PROVE  curr'.named # "none"
        <4>1. startProp /\ curr # None /\ (curr' = curr \/ curr'.named = e)
          BY <2>1, <2>4, <2>5, <3>1, <3>2, StartedResult
        <4>2. curr.named # "none"
          BY <1>2, <3>2, <4>1 DEF NullInv
        <4> QED BY <3>1, <4>1, <4>2
      <3> QED BY <1>2, <2>1, <2>2, <3>1, <3>2 DEF NullInv
    <2>7. CASE Mapped(e)
      <3> DEFINE x == [elem |-> e, resp |-> RespOf(e)]
      <3>1. x \in Open /\ x.elem = e
        BY <2>1, RespTypes
      <3>2. /\ Len(open') = Len(open) + 1
            /\ \A i \in 1 .. Len(open) : open'[i] = open[i]
            /\ open'[Len(open) + 1] = x /\ Last(open') = x
        BY <1>0, <2>1, <2>7, <3>1, Pushed
      <3> HIDE DEF x
      <3>3. e # "other"
        BY <2>7 DEF Mapped
      <3>4. open # <<>> => open[Len(open)].elem # "status" /\ e # "multistatus"
        BY <2>1, <2>3, <3>3 DEF DAVNesting
      <3>5. \A i \in 1 .. Len(open') : open'[i].elem # "other"
        BY <1>0, <1>2, <3>1, <3>2, <3>3 DEF NullInv
      <3>6. \A i \in 1 .. Len(open') - 1 : open'[i].elem # "status"
        <4> SUFFICES ASSUME NEW i \in 1 .. Len(open') - 1 PROVE open'[i].elem # "status"
          OBVIOUS
        <4>1. i \in 1 .. Len(open) /\ open'[i] = open[i] /\ open # <<>>
          BY <1>0, <3>2
        <4>2. CASE i = Len(open)
          BY <3>4, <4>1, <4>2
        <4>3. CASE i \in 1 .. Len(open) - 1
          BY <1>2, <4>1, <4>3 DEF NullInv
        <4> QED BY <1>0, <4>1, <4>2, <4>3
      <3>7. \A i \in 2 .. Len(open') : open'[i].elem # "multistatus"
        <4> SUFFICES ASSUME NEW i \in 2 .. Len(open') PROVE open'[i].elem # "multistatus"
          OBVIOUS
        <4>1. CASE i = Len(open) + 1
          <5>1. open # <<>>
            BY <1>0, <4>1
          <5> QED BY <3>1, <3>2, <3>4, <4>1, <5>1
        <4>2. CASE i \in 2 .. Len(open)
          BY <1>0, <1>2, <3>2, <4>2 DEF NullInv
        <4> QED BY <1>0, <3>2, <4>1, <4>2
      <3>8. ASSUME Last(open').elem = "status", curr' # None,
                   handler = "search", searchall, startProp'
            PROVE  curr'.named # "none"
        <4>1. e = "status"
          BY <3>1, <3>2, <3>8
        <4>2. startProp /\ curr # None
          BY <2>4, <2>5, <3>8, <4>1
        <4>3. curr'.named = e
          BY <2>1, <3>8, <4>1, <4>2, StartedResult
        <4> QED BY <4>1, <4>3
      <3> QED BY <2>1, <2>2, <3>5, <3>6, <3>7, <3>8 DEF NullInv
    <2> QED BY <2>6, <2>7
  <1> QED BY <1>1, <1>2

LEMMA EndNamed ==
  ASSUME TypeOK, ReadInv, NullInv, EndElement
  PROVE  NullInv'
  <1> USE EndedElement
  <1>1. CASE err /\ broken' /\ UNCHANGED <<open, context>>
    BY <1>1 DEF context, NullInv
  <1>2. CASE /\ ~err /\ open' = Front(open) /\ broken' = broken
             /\ Ended(Parent) /\ cdata' = cdata
    <2>1. /\ Len(open) \in Nat \ {0} /\ Len(open') = Len(open) - 1
          /\ \A i \in 1 .. Len(open) - 1 : open'[i] = open[i]
          /\ Last(open) = open[Len(open)] /\ Last(open).elem = Parent
          /\ open' # <<>> => Last(open') = open[Len(open) - 1] /\ Len(open) > 1
      BY <1>2, Popped
    <2>2. /\ \A i \in 1 .. Len(open) : open[i].elem # "other"
          /\ \A i \in 1 .. Len(open) - 1 : open[i].elem # "status"
          /\ \A i \in 2 .. Len(open) : open[i].elem # "multistatus"
      BY <1>2 DEF NullInv
    <2>3. open' # <<>> => Last(open').elem # "status"
      BY <2>1, <2>2
    <2>4. ~crashed'
      <3>1. ~crashed
        BY DEF NullInv
      <3>2. CASE crashed' # crashed
        <4>1. EndOther /\ Parent \in {"multistatus", "status", "other"}
          BY <1>2, <3>2, Zenon DEF Ended, EndResponse, EndCopied, EndProp
        <4>2. ~(/\ handler = "search" /\ searchall /\ startProp /\ curr # None
                /\ curr.named = "none")
          <5> SUFFICES ASSUME handler = "search", searchall, startProp, curr # None,
                              curr.named = "none"
                       PROVE  FALSE
            OBVIOUS
          <5>1. Parent # "other"
            BY <2>1, <2>2
          <5>2. Parent # "status"
            BY <1>2, <2>1 DEF NullInv
          <5>3. Parent # "multistatus"
            <6> SUFFICES ASSUME Parent = "multistatus" PROVE FALSE
              OBVIOUS
            <6>1. Len(open) = 1 /\ open[1].elem = "multistatus" /\ Last(open) = open[1]
              BY <2>1, <2>2
            <6>2. open[1].resp = 0
              BY <1>2, <6>1 DEF ReadInv, Chain
            <6>3. Last(open).resp = curr.id /\ curr.id > 0
              BY <1>2 DEF ReadInv, CurrInv, ListInv
            <6> QED BY <6>1, <6>2, <6>3
          <5> QED BY <4>1, <5>1, <5>2, <5>3
        <4>3. ~crashed'
          BY <3>1, <4>1, <4>2, Zenon DEF EndOther
        <4> QED BY <4>3
      <3> QED BY <3>1, <3>2
    <2>5. /\ \A i \in 1 .. Len(open') : open'[i].elem # "other"
          /\ \A i \in 1 .. Len(open') - 1 : open'[i].elem # "status"
          /\ \A i \in 2 .. Len(open') : open'[i].elem # "multistatus"
      BY <2>1, <2>2
    <2> QED BY <2>3, <2>4, <2>5 DEF NullInv
  <1> QED BY <1>1, <1>2

LEMMA StepNamed ==
  ASSUME DAVNesting
  PROVE  TypeOK /\ ReadInv /\ NullInv /\ [Next]_vars => NullInv'
  <1> SUFFICES ASSUME TypeOK, ReadInv, NullInv, [Next]_vars PROVE NullInv'
    OBVIOUS
  <1>1. CASE \E e \in Elements : StartElement(e)
    BY <1>1, StartNamed
  <1>2. CASE EndElement
    BY <1>2, EndNamed
  <1>3. CASE UNCHANGED <<open, curr, err, startProp, crashed, handler, searchall>>
    BY <1>3 DEF NullInv
  <1>4. \/ \E e \in Elements : StartElement(e)
        \/ EndElement
        \/ UNCHANGED <<open, curr, err, startProp, crashed, handler, searchall>>
    BY DEF Next, vars, Dispatch, PrunedElement, EndPruned, CharacterData, Breaks, EndOfBody,
           Show, ShowRow, EndOfRows, More, parser, context
  <1> QED BY <1>1, <1>2, <1>3, <1>4

---------------------------------------------------------------------------
(* What the user is told. *)

LEMMA Multiples ==
  ASSUME NEW p \in Nat, NEW a \in Int, NEW b \in Int, a < b, p > 0
  PROVE  p * a + p <= p * b
  <1>1. PICK d \in Nat : b = a + 1 + d
    <2>1. b - a - 1 \in Nat /\ b = a + 1 + (b - a - 1)
      OBVIOUS
    <2> QED BY <2>1
  <1>2. p * b = p * a + p + p * d
    BY <1>1
  <1>3. p * d >= 0
    BY <1>1
  <1> QED BY <1>2, <1>3

\* Division with rest has one outcome.
LEMMA OneQuotient ==
  ASSUME NEW p \in Nat, NEW a \in Int, NEW b \in Int,
         NEW m \in 0 .. p - 1, NEW n \in 0 .. p - 1,
         p * a + m = p * b + n
  PROVE  a = b /\ m = n
  <1>1. p > 0 /\ p * a \in Int /\ p * b \in Int
    OBVIOUS
  <1>2. CASE a < b
    <2>1. p * a + p <= p * b
      BY Multiples, <1>1, <1>2
    <2> QED BY <1>1, <2>1
  <1>3. CASE b < a
    <2>1. p * b + p <= p * a
      BY Multiples, <1>1, <1>3
    <2> QED BY <1>1, <2>1
  <1> QED BY <1>1, <1>2, <1>3

LEMMA Quotient ==
  ASSUME NEW r \in Nat, NEW p \in Nat, p > 1
  PROVE  /\ (r \div p) \in Nat /\ (r % p) \in 0 .. p - 1
         /\ r = p * (r \div p) + (r % p)
  <1>1. (r % p) \in 0 .. p - 1
    OBVIOUS
  <1>2. r = p * (r \div p) + (r % p)
    OBVIOUS
  <1>3. (r \div p) \in Nat
    OBVIOUS
  <1> QED BY <1>1, <1>2, <1>3

\* A row that begins a page is its first, one that begins none is on the page
\* of the row before it, and the first row begins a page.
LEMMA PageOf ==
  ASSUME NEW r \in Nat, NEW p \in Nat, p > 1
  PROVE  /\ (r + 1) % p = 1 => r + 1 = p * (r \div p) + 1
         /\ (r + 1) % p # 1 /\ r > 0 => r \div p = (r - 1) \div p
         /\ r = 0 => (r + 1) % p = 1
  <1> DEFINE q == r \div p
             m == r % p
             q2 == (r + 1) \div p
             n == (r + 1) % p
  <1>1. q \in Nat /\ m \in 0 .. p - 1 /\ r = p * q + m
    BY Quotient
  <1>2. q2 \in Nat /\ n \in 0 .. p - 1 /\ r + 1 = p * q2 + n
    <2>1. r + 1 \in Nat
      OBVIOUS
    <2> QED BY <2>1, Quotient
  <1>3. p * q \in Int /\ p * q2 \in Int /\ 0 \in 0 .. p - 1 /\ 1 \in 0 .. p - 1
    BY <1>1, <1>2
  <1> HIDE DEF q, m, q2, n
  <1>4. ASSUME n = 1 PROVE r + 1 = p * q + 1
    <2>1. p * q + m = p * q2 + 0
      BY <1>1, <1>2, <1>3, <1>4
    <2>2. m = 0
      BY <1>1, <1>2, <1>3, <2>1, OneQuotient
    <2> QED BY <1>1, <1>3, <2>2
  <1>5. ASSUME n # 1, r > 0 PROVE q = (r - 1) \div p
    <2> DEFINE q3 == (r - 1) \div p
               k == (r - 1) % p
    <2>1. q3 \in Nat /\ k \in 0 .. p - 1 /\ r - 1 = p * q3 + k
      <3>1. r - 1 \in Nat
        BY <1>5
      <3> QED BY <3>1, Quotient
    <2>2. p * q3 \in Int
      BY <2>1
    <2> HIDE DEF q3, k
    <2>3. CASE n > 1
      <3>1. n - 1 \in 0 .. p - 1 /\ n - 2 \in 0 .. p - 1
        BY <1>2, <2>3
      <3>2. p * q + m = p * q2 + (n - 1) /\ p * q3 + k = p * q2 + (n - 2)
        BY <1>1, <1>2, <1>3, <2>1, <2>2
      <3>3. q = q2 /\ q3 = q2
        BY <1>1, <1>2, <2>1, <3>1, <3>2, OneQuotient
      <3> QED BY <3>3 DEF q3
    <2>4. CASE n = 0
      <3>1. p - 1 \in 0 .. p - 1 /\ p - 2 \in 0 .. p - 1 /\ q2 - 1 \in Int
        BY <1>2
      <3>2. p * (q2 - 1) = p * q2 - p
        BY <1>2
      <3>3. p * q + m = p * (q2 - 1) + (p - 1) /\ p * q3 + k = p * (q2 - 1) + (p - 2)
        BY <1>1, <1>2, <1>3, <2>1, <2>2, <2>4, <3>2
      <3>4. q = q2 - 1 /\ q3 = q2 - 1
        BY <1>1, <2>1, <3>1, <3>3, OneQuotient
      <3> QED BY <3>4 DEF q3
    <2> QED BY <1>2, <1>5, <2>3, <2>4
  <1>6. ASSUME r = 0 PROVE n = 1
    <2>1. p * q2 + n = p * 0 + 1
      BY <1>2, <1>6
    <2> QED BY <1>2, <1>3, <2>1, OneQuotient
  <1> QED BY <1>4, <1>5, <1>6 DEF q, n

\* An answer is read from its dispatch until it is checked, and told then.
StageInv ==
  /\ pc = "request" => ~broken
  /\ pc = "request" \/ (pc = "checked" /\ ~Accepts(code)) =>
       open = <<>> /\ root = <<>> /\ num = 0 /\ ~err
  /\ pc = "body" => Accepts(code)
  /\ pc \in {"request", "body", "checked"} => said = "nothing" /\ row = 0
  /\ pc = "checked" /\ ~broken => open = <<>>
  /\ pc \in {"rows", "more"} => handler = "search" /\ said = "results"

ToldInv == StageInv /\ ShownWhenAnswered /\ CountMatches /\ Paging

LEMMA InitTold == Init => ToldInv
  BY DEF Init, ToldInv, StageInv, ShownWhenAnswered, CountMatches, Paging

LEMMA ShowTold ==
  ASSUME TypeOK, ReadInv, ToldInv, Show
  PROVE  ToldInv'
  <1>1. /\ pc = "checked" /\ said = "nothing" /\ row = 0
        /\ UNCHANGED <<handler, searchall, code, open, broken, root, num, err>>
        /\ ~broken => open = <<>>
        /\ ~Accepts(code) => open = <<>> /\ root = <<>> /\ num = 0 /\ ~err
    BY DEF Show, ToldInv, StageInv, parser, context
  <1>2. ASSUME ~err, open = <<>> PROVE num = Len(root)
    <2>1. num = Len(root) + Cardinality(Responses(<<>>)) /\ Len(root) \in Nat
      BY <1>2, LenProperties DEF ReadInv, TypeOK
    <2> QED BY <2>1, NoResponses
  <1>3. CASE handler = "search"
    <2>1. /\ row' = row /\ heading' = heading
          /\ \/ SearchOK /\ pc' = "rows" /\ said' = "results"
             \/ pc' = "done" /\ said' = "failed"
      BY <1>3 DEF Show
    <2>2. CASE SearchOK /\ pc' = "rows" /\ said' = "results"
      <3>1. code = 207 /\ ~broken /\ ~err /\ open = <<>> /\ num = Len(root)
        BY <1>1, <1>2, <2>2 DEF SearchOK, Dispatched
      <3> QED BY <1>1, <1>3, <2>1, <2>2, <3>1
              DEF ToldInv, StageInv, ShownWhenAnswered, CountMatches, Paging
    <2>3. CASE pc' = "done" /\ said' = "failed"
      BY <1>1, <1>3, <2>1, <2>3
         DEF ToldInv, StageInv, ShownWhenAnswered, CountMatches, Paging
    <2> QED BY <2>1, <2>2, <2>3
  <1>4. CASE handler # "search"
    <2>1. /\ handler = "history" /\ pc' = "done"
          /\ said' = IF ReportOK THEN IF err THEN "nothing" ELSE "results" ELSE "failed"
      BY <1>4 DEF Show, TypeOK
    <2>2. ASSUME said' = "results"
          PROVE  /\ num = Len(root)
                 /\ \/ code \in {200, 207} /\ ~broken /\ ~err /\ open = <<>>
                    \/ code = 0 /\ root = <<>>
      <3>1. ReportOK /\ ~err
        BY <2>1, <2>2
      <3>2. CASE code \in {200, 207}
        <4>1. ~broken /\ open = <<>>
          BY <1>1, <3>1, <3>2 DEF ReportOK, Dispatched
        <4> QED BY <1>2, <3>1, <3>2, <4>1
      <3>3. CASE code \notin {200, 207}
        <4>1. code = 0 /\ ~Accepts(code)
          BY <3>1, <3>3 DEF ReportOK, Accepts
        <4> QED BY <1>1, <1>2, <4>1
      <3> QED BY <3>2, <3>3
    <2>3. said' # "end"
      BY <2>1
    <2> QED BY <1>1, <2>1, <2>2, <2>3
            DEF ToldInv, StageInv, ShownWhenAnswered, CountMatches, Paging
  <1> QED BY <1>3, <1>4

LEMMA RowTold ==
  ASSUME TypeOK, ToldInv, ShowRow
  PROVE  ToldInv'
  <1>1. /\ handler = "search" /\ said = "results" /\ num = Len(root)
        /\ row < Len(root) /\ row' = row + 1 /\ pc' \in {"rows", "more"}
        /\ UNCHANGED <<handler, code, open, broken, root, num, err, said>>
    BY DEF ShowRow, ToldInv, StageInv, CountMatches, parser, context
  <1>2. row \in Nat /\ Len(root) \in Nat /\ PerPage \in Nat /\ PerPage > 1 /\ Ahead \in Nat
    BY Bounds, LenProperties DEF TypeOK
  <1>3. /\ (row + 1) % PerPage = 1 => row + 1 = PerPage * (row \div PerPage) + 1
        /\ (row + 1) % PerPage # 1 /\ row > 0 =>
             row \div PerPage = (row - 1) \div PerPage
        /\ row = 0 => (row + 1) % PerPage = 1
    BY <1>2, PageOf
  <1>4. row' - 1 = row /\ row + 1 \in Nat
    BY <1>1, <1>2
  <1>5. /\ heading'[1] = PerPage * ((row' - 1) \div PerPage) + 1
        /\ heading'[2] <= Len(root)
    <2>1. CASE (row + 1) % PerPage = 1
      <3>1. heading' = <<row + 1, Smaller(num, (row + 1) + Ahead)>>
        BY <1>1, <2>1 DEF ShowRow
      <3>2. Smaller(num, (row + 1) + Ahead) <= num
        BY <1>1, <1>2, <1>4, SmallerOne
      <3>3. heading'[1] = row + 1 /\ heading'[2] = Smaller(num, (row + 1) + Ahead)
        BY <3>1
      <3> QED BY <1>1, <1>3, <1>4, <2>1, <3>2, <3>3
    <2>2. CASE (row + 1) % PerPage # 1
      <3>1. heading' = heading
        BY <1>1, <2>2 DEF ShowRow
      <3>2. row > 0
        BY <1>2, <1>3, <2>2
      <3>3. /\ heading[1] = PerPage * ((row - 1) \div PerPage) + 1
            /\ heading[2] <= Len(root)
        BY <1>1, <3>2 DEF ToldInv, Paging
      <3> QED BY <1>3, <1>4, <2>2, <3>1, <3>2, <3>3
    <2> QED BY <2>1, <2>2
  <1> QED BY <1>1, <1>5 DEF ToldInv, StageInv, ShownWhenAnswered, CountMatches, Paging

LEMMA StepTold == TypeOK /\ ReadInv /\ ToldInv /\ [Next]_vars => ToldInv'
  <1> SUFFICES ASSUME TypeOK, ReadInv, ToldInv, [Next]_vars PROVE ToldInv'
    OBVIOUS
  <1> USE DEF ToldInv, StageInv, ShownWhenAnswered, CountMatches, Paging
  <1>1. CASE \E c \in {0, 200, 207, 404} : Dispatch(c)
    <2>1. /\ pc = "request" /\ pc' \in {"body", "checked"}
          /\ pc' = "body" => Accepts(code')
          /\ UNCHANGED <<handler, open, broken, root, num, err, said, row, heading>>
      BY <1>1 DEF Dispatch, parser, context, display
    <2>2. said = "nothing" /\ row = 0 /\ open = <<>> /\ root = <<>> /\ num = 0 /\ ~err
      BY <2>1
    <2> QED BY <2>1, <2>2 DEF Accepts
  <1>2. CASE /\ pc = "body"
             /\ UNCHANGED <<pc, handler, code, said, row, heading>>
    <2>1. said = "nothing" /\ row = 0 /\ Accepts(code)
      BY <1>2
    <2> QED BY <1>2, <2>1 DEF Accepts
  <1>3. CASE EndOfBody
    <2>1. /\ pc = "body" /\ pc' = "checked" /\ (broken \/ open = <<>>)
          /\ UNCHANGED <<handler, code, open, broken, root, num, err, said, row, heading>>
      BY <1>3 DEF EndOfBody, parser, context, display
    <2>2. said = "nothing" /\ row = 0 /\ Accepts(code)
      BY <2>1
    <2> QED BY <2>1, <2>2 DEF Accepts
  <1>4. CASE Show
    BY <1>4, ShowTold
  <1>5. CASE ShowRow
    BY <1>5, RowTold
  <1>6. CASE EndOfRows
    BY <1>6 DEF EndOfRows, parser, context
  <1>7. CASE \E ch \in {"q", "enter"} : More(ch)
    BY <1>7 DEF More, parser, context, display
  <1>8. CASE UNCHANGED vars
    BY <1>8 DEF vars, parser, context, display, Accepts
  <1>9. ASSUME \/ \E e \in Elements : StartElement(e)
               \/ \E e \in Elements : PrunedElement(e)
               \/ EndPruned \/ CharacterData \/ EndElement \/ Breaks
        PROVE  pc = "body" /\ UNCHANGED <<pc, handler, code, said, row, heading>>
    BY <1>9 DEF StartElement, PrunedElement, EndPruned, CharacterData, EndElement, Breaks,
                Reading, display
  <1> QED BY <1>1, <1>2, <1>3, <1>4, <1>5, <1>6, <1>7, <1>8, <1>9 DEF Next

---------------------------------------------------------------------------
(* The theorems. *)

LEMMA ReadIsOwn == ReadInv => OwnText
  <1> SUFFICES ASSUME ReadInv, NEW i \in 1 .. Len(root),
                      NEW t \in {root[i].href, root[i].live}
                                  \cup {root[i].dead[d].text : d \in 1 .. Len(root[i].dead)},
                      NEW k \in 1 .. Len(t)
               PROVE  t[k].resp = root[i].id
    BY DEF OwnText
  <1>1. Own(root[i])
    BY DEF ReadInv, ListInv
  <1> QED BY <1>1 DEF Own, Of

LEMMA Inductive ==
  Spec => [](TypeOK /\ SentInv /\ ReadInv /\ ToldInv)
  <1>1. Init => TypeOK /\ SentInv /\ ReadInv /\ ToldInv
    BY InitTypes, InitReads, InitTold
  <1>2. TypeOK /\ SentInv /\ ReadInv /\ ToldInv /\ [Next]_vars
          => (TypeOK /\ SentInv /\ ReadInv /\ ToldInv)'
    BY StepTypes, StepReads, StepTold
  <1> QED BY <1>1, <1>2, PTL DEF Spec

\* Whatever the server nests, the list that is announced is the list that is
\* there, each result made of the text of its own response, the last response
\* first (end_element of search.c and version.c).
THEOREM ListIsSound == Spec => []Listed
  <1>1. TypeOK /\ SentInv /\ ReadInv /\ ToldInv => Listed
    BY ReadIsOwn DEF ToldInv, ReadInv, ListInv, Listed
  <1> QED BY <1>1, Inductive, PTL

\* From a server that nests its elements as DAV: does, the callbacks never fill
\* in a dead property they did not create (the default case of end_element in
\* search.c), and keep the types and the list sound.
THEOREM ReadersKeepTheirState ==
  ASSUME DAVNesting
  PROVE  Spec => []WellFormed
  <1>1. Init => NullInv
    <2>1. Init => open = <<>> /\ Len(open) = 0 /\ ~crashed
      BY DEF Init
    <2> QED BY <2>1 DEF NullInv
  <1>2. TypeOK /\ ReadInv /\ NullInv /\ [Next]_vars => NullInv'
    BY StepNamed
  <1>3. Spec => []NullInv
    BY <1>1, <1>2, Inductive, PTL DEF Spec
  <1>4. TypeOK /\ NullInv /\ Listed => WellFormed
    BY DEF WellFormed, NoNullUse, NullInv
  <1> QED BY <1>3, <1>4, Inductive, ListIsSound, PTL

\* Results are shown only of a complete answer without errors, but for the
\* history of 0 versions when no answer came (run_search, do_report).
THEOREM ShownIsAnswered == Spec => []ShownWhenAnswered
  <1>1. ToldInv => ShownWhenAnswered
    BY DEF ToldInv
  <1> QED BY <1>1, Inductive, PTL

\* The heading over the current row is that of its page and announces no row
\* that is not there, for pages of any size, and who never quits sees every
\* result (display_results).
THEOREM PagesAreRight == Spec => []Paging
  <1>1. ToldInv => Paging
    BY DEF ToldInv
  <1> QED BY <1>1, Inductive, PTL

LEMMA LeastOf ==
  ASSUME NEW S \in SUBSET Nat, S # {}
  PROVE  \E n \in S : \A m \in S : ~(m < n)
  <1>1. PICK n \in S : \A m \in S : ~(<<m, n>> \in OpToRel(<, Nat))
    BY WFMin, NatLessThanWellFounded, Zenon
  <1>2. \A m \in S : ~(m < n)
    BY <1>1, Zenon DEF OpToRel
  <1> QED BY <1>2

-----------------------------------------------------------------------------
(* The XML reader: sequences of anything. *)

IsSeq(s) == \E S : s \in Seq(S)

LEMMA AnyAppend ==
  ASSUME NEW s, IsSeq(s), NEW x
  PROVE  /\ IsSeq(Append(s, x)) /\ Append(s, x) # <<>>
         /\ Len(s) \in Nat /\ Len(Append(s, x)) = Len(s) + 1
         /\ \A i \in 1 .. Len(s) : Append(s, x)[i] = s[i]
         /\ Append(s, x)[Len(s) + 1] = x
         /\ Last(Append(s, x)) = x
         /\ Front(Append(s, x)) = s
  <1>1. PICK S : s \in Seq(S)
    BY DEF IsSeq
  <1> DEFINE U == S \cup {x}
  <1>2. s \in Seq(U) /\ x \in U
    BY <1>1, SeqMonotonic
  <1> HIDE DEF U
  <1>3. /\ Append(s, x) \in Seq(U) /\ Append(s, x) # <<>>
        /\ Len(s) \in Nat /\ Len(Append(s, x)) = Len(s) + 1
        /\ \A i \in 1 .. Len(s) : Append(s, x)[i] = s[i]
        /\ Append(s, x)[Len(s) + 1] = x
        /\ Last(Append(s, x)) = x
    BY <1>2, Pushed
  <1>4. /\ Front(Append(s, x)) \in Seq(U) /\ Len(Front(Append(s, x))) = Len(s)
        /\ \A i \in 1 .. Len(s) : Front(Append(s, x))[i] = s[i]
    <2>1. PICK t : t = Append(s, x)
      OBVIOUS
    <2>2. /\ Front(t) \in Seq(U) /\ Len(Front(t)) = Len(t) - 1
          /\ \A i \in 1 .. Len(t) - 1 : Front(t)[i] = t[i]
      BY <1>3, <2>1, Popped
    <2>3. Len(t) - 1 = Len(s) /\ \A i \in 1 .. Len(s) : t[i] = s[i]
      BY <1>3, <2>1
    <2>4. \A i \in 1 .. Len(s) : Front(t)[i] = s[i]
      BY <2>2, <2>3
    <2> QED BY <2>1, <2>2, <2>3, <2>4
  <1>5. Front(Append(s, x)) = s
    BY <1>2, <1>4, SeqEqual
  <1> QED BY <1>3, <1>5 DEF IsSeq

LEMMA AnyFront ==
  ASSUME NEW s, IsSeq(s), s # <<>>
  PROVE  /\ IsSeq(Front(s)) /\ Len(s) \in Nat \ {0} /\ Len(Front(s)) = Len(s) - 1
         /\ \A i \in 1 .. Len(s) - 1 : Front(s)[i] = s[i]
         /\ Last(s) = s[Len(s)]
         /\ Len(s) > 1 => Front(s) # <<>> /\ Last(Front(s)) = s[Len(s) - 1]
         /\ Len(s) = 1 => Front(s) = <<>>
  <1>1. PICK S : s \in Seq(S)
    BY DEF IsSeq
  <1> QED BY <1>1, Popped DEF IsSeq

LEMMA AnyExcept ==
  ASSUME NEW s, IsSeq(s), NEW i \in 1 .. Len(s), NEW x, NEW d, d = [s EXCEPT ![i] = x]
  PROVE  IsSeq(d) /\ Len(d) = Len(s) /\ \A j \in 1 .. Len(s) : d[j] = IF j = i THEN x ELSE s[j]
  <1>1. PICK S : s \in Seq(S)
    BY DEF IsSeq
  <1> DEFINE U == S \cup {x}
  <1>2. s \in Seq(U) /\ x \in U
    BY <1>1, SeqMonotonic
  <1> HIDE DEF U
  <1> QED BY <1>2, ExceptSeq DEF IsSeq

LEMMA AnyEmpty == IsSeq(<<>>) /\ Len(<<>>) = 0
  <1>1. <<>> \in Seq({})
    OBVIOUS
  <1> QED BY <1>1, EmptySeq DEF IsSeq

LEMMA AnyLen ==
  ASSUME NEW s, IsSeq(s)
  PROVE  Len(s) \in Nat /\ (s = <<>> <=> Len(s) = 0)
  <1>1. PICK S : s \in Seq(S)
    BY DEF IsSeq
  <1> QED BY <1>1, LenProperties, EmptySeq

LEMMA TwoAppended ==
  ASSUME NEW s, IsSeq(s), NEW x, NEW y
  PROVE  s \o <<x, y>> = Append(Append(s, x), y)
  <1>1. PICK S : s \in Seq(S)
    BY DEF IsSeq
  <1> DEFINE U == S \cup {x, y}
  <1>2. s \in Seq(U) /\ x \in U /\ y \in U
    BY <1>1, SeqMonotonic
  <1>3. <<x, y>> \in Seq(U) /\ Len(<<x, y>>) = 2 /\ <<x, y>>[1] = x /\ <<x, y>>[2] = y
    BY <1>2
  <1> HIDE DEF U
  <1>4. Len(s) \in Nat
    BY <1>2, LenProperties
  <1>5. /\ s \o <<x, y>> \in Seq(U) /\ Len(s \o <<x, y>>) = Len(s) + 2
        /\ \A i \in 1 .. Len(s) + 2 :
             (s \o <<x, y>>)[i] = IF i <= Len(s) THEN s[i] ELSE <<x, y>>[i - Len(s)]
    BY <1>2, <1>3, ConcatProperties
  <1>6. /\ Append(s, x) \in Seq(U) /\ Len(Append(s, x)) = Len(s) + 1
        /\ \A i \in 1 .. Len(s) : Append(s, x)[i] = s[i]
        /\ Append(s, x)[Len(s) + 1] = x
    BY <1>2, AppendProperties
  <1>7. /\ Append(Append(s, x), y) \in Seq(U) /\ Len(Append(Append(s, x), y)) = Len(s) + 2
        /\ \A i \in 1 .. Len(s) + 1 : Append(Append(s, x), y)[i] = Append(s, x)[i]
        /\ Append(Append(s, x), y)[Len(s) + 2] = y
    BY <1>2, <1>4, <1>6, AppendProperties
  <1>8. ASSUME NEW i \in 1 .. Len(s) + 2
        PROVE  (s \o <<x, y>>)[i] = Append(Append(s, x), y)[i]
    <2>1. CASE i <= Len(s)
      BY <1>4, <1>5, <1>6, <1>7, <2>1
    <2>2. CASE i = Len(s) + 1
      BY <1>3, <1>4, <1>5, <1>6, <1>7, <2>2
    <2>3. CASE i = Len(s) + 2
      BY <1>3, <1>4, <1>5, <1>7, <2>3
    <2> QED BY <1>4, <2>1, <2>2, <2>3
  <1> QED BY <1>4, <1>5, <1>7, <1>8, SeqEqual

-----------------------------------------------------------------------------
(* Tokens: the machines that read a text, one after each atom. *)

Reads(run, st, text, n) ==
  run = [i \in 0 .. n |-> IF i = 0 THEN Machine(st) ELSE ReadAtom(run[i - 1], text[i])]

LEMMA Readable ==
  ASSUME NEW st, NEW text, NEW n \in Nat
  PROVE  \E run : Reads(run, st, text, n)
  <1> DEFINE Bad == {k \in Nat : ~\E run : Reads(run, st, text, k)}
  <1>1. SUFFICES ASSUME Bad # {} PROVE FALSE
    OBVIOUS
  <1>2. Bad \in SUBSET Nat
    OBVIOUS
  <1>3. PICK k \in Bad : \A m \in Bad : ~(m < k)
    <2> HIDE DEF Bad
    <2> QED BY <1>1, <1>2, LeastOf
  <1>4. k \in Nat /\ ~\E run : Reads(run, st, text, k)
    OBVIOUS
  <1>5. k # 0
    <2>1. Reads([i \in 0 .. 0 |-> Machine(st)], st, text, 0)
      BY DEF Reads
    <2> QED BY <1>4, <2>1
  <1>6. PICK m \in Nat : k = m + 1
    BY <1>4, <1>5
  <1>7. m \notin Bad
    <2>1. m < k
      BY <1>6
    <2> HIDE DEF Bad
    <2> QED BY <1>3, <2>1
  <1>8. PICK f : Reads(f, st, text, m)
    BY <1>7
  <1> DEFINE g == [i \in 0 .. k |-> IF i = k THEN ReadAtom(f[m], text[k]) ELSE f[i]]
  <1>9. \A i \in 0 .. k : g[i] = IF i = k THEN ReadAtom(f[m], text[k]) ELSE f[i]
    OBVIOUS
  <1>10. /\ f = [i \in 0 .. m |-> IF i = 0 THEN Machine(st) ELSE ReadAtom(f[i - 1], text[i])]
         /\ \A i \in 0 .. m : f[i] = IF i = 0 THEN Machine(st) ELSE ReadAtom(f[i - 1], text[i])
    <2>1. f = [i \in 0 .. m |-> IF i = 0 THEN Machine(st) ELSE ReadAtom(f[i - 1], text[i])]
      BY <1>8, Zenon DEF Reads
    <2>2. ASSUME NEW i \in 0 .. m
          PROVE  f[i] = IF i = 0 THEN Machine(st) ELSE ReadAtom(f[i - 1], text[i])
      BY <2>1
    <2> QED BY <2>1, <2>2
  <1>11. ASSUME NEW i \in 0 .. k
         PROVE  g[i] = IF i = 0 THEN Machine(st) ELSE ReadAtom(g[i - 1], text[i])
    <2>1. CASE i = 0
      <3>1. g[i] = f[i]
        BY <1>5, <2>1
      <3>2. i \in 0 .. m
        BY <1>6, <2>1
      <3> HIDE DEF g
      <3> QED BY <1>10, <2>1, <3>1, <3>2
    <2>2. CASE i # 0 /\ i # k
      <3>1. i \in 0 .. m /\ i - 1 \in 0 .. k /\ i - 1 # k
        BY <1>6, <2>2
      <3>2. g[i] = f[i] /\ g[i - 1] = f[i - 1]
        BY <2>2, <3>1
      <3> HIDE DEF g
      <3> QED BY <1>10, <2>2, <3>1, <3>2
    <2>3. CASE i # 0 /\ i = k
      <3>1. i - 1 = m /\ m \in 0 .. k /\ m # k
        BY <1>6, <2>3
      <3>2. g[i] = ReadAtom(f[m], text[i]) /\ g[m] = f[m]
        BY <2>3, <3>1
      <3> HIDE DEF g
      <3> QED BY <2>3, <3>1, <3>2
    <2> QED BY <2>1, <2>2, <2>3
  <1>12. g = [i \in 0 .. k |-> IF i = 0 THEN Machine(st) ELSE ReadAtom(g[i - 1], text[i])]
    <2>1. g = [i \in 0 .. k |-> g[i]]
      OBVIOUS
    <2> HIDE DEF g
    <2>2. [i \in 0 .. k |-> g[i]]
            = [i \in 0 .. k |-> IF i = 0 THEN Machine(st) ELSE ReadAtom(g[i - 1], text[i])]
      BY <1>11
    <2> QED BY <2>1, <2>2, Zenon
  <1>13. Reads(g, st, text, k)
    <2> HIDE DEF g
    <2> QED BY <1>12, Zenon DEF Reads
  <1> QED BY <1>4, <1>13

\* The machines that make a token.
LEMMA TokenRun ==
  ASSUME NEW st, NEW text, Len(text) \in Nat
  PROVE  \E run : /\ run[0] = Machine(st)
                  /\ \A i \in 1 .. Len(text) : run[i] = ReadAtom(run[i - 1], text[i])
                  /\ Token(st, text) = AtEnd(run[Len(text)])
  <1> DEFINE Is(run) == run = [i \in 0 .. Len(text) |->
                                 IF i = 0 THEN Machine(st) ELSE ReadAtom(run[i - 1], text[i])]
             it == CHOOSE run : Is(run)
  <1>1. \E run : Is(run)
    <2>1. PICK n \in Nat : n = Len(text)
      OBVIOUS
    <2>2. \E run : Reads(run, st, text, n)
      BY Readable
    <2> QED BY <2>1, <2>2 DEF Reads
  <1>2. Is(it)
    <2> HIDE DEF Is
    <2> QED BY <1>1, Zenon
  <1>3. Token(st, text) = AtEnd(it[Len(text)])
    BY Zenon DEF Token
  <1> HIDE DEF it
  <1>4. it[0] = Machine(st)
    BY <1>2
  <1>5. ASSUME NEW i \in 1 .. Len(text) PROVE it[i] = ReadAtom(it[i - 1], text[i])
    <2>1. i \in 0 .. Len(text) /\ i # 0
      OBVIOUS
    <2> QED BY <1>2, <2>1
  <1> QED BY <1>3, <1>4, <1>5

-----------------------------------------------------------------------------
(* The token of a start tag. *)

IsMachine(m) == m = [x \in {"st", "quote", "word", "tok", "n", "lead"} |-> m[x]]

LEMMA MachineIs ==
  ASSUME NEW st
  PROVE  /\ IsMachine(Machine(st)) /\ Machine(st).st = st /\ Machine(st).quote = ""
         /\ Machine(st).tok = "" /\ Machine(st).n = 0 /\ Machine(st).lead = FALSE
  BY DEF IsMachine, Machine

LEMMA ToIs ==
  ASSUME NEW m, IsMachine(m), NEW st
  PROVE  /\ IsMachine(To(m, st)) /\ To(m, st).st = st /\ To(m, st).quote = m.quote
         /\ To(m, st).tok = m.tok /\ To(m, st).n = m.n + 1 /\ To(m, st).lead = m.lead
  BY DEF IsMachine, To

LEMMA GotIs ==
  ASSUME NEW m, IsMachine(m), NEW tok
  PROVE  /\ IsMachine(Got(m, tok)) /\ Got(m, tok).st = m.st /\ Got(m, tok).quote = m.quote
         /\ Got(m, tok).tok = tok /\ Got(m, tok).n = m.n + 1 /\ Got(m, tok).lead = m.lead
  BY DEF IsMachine, Got

LEMMA BeforeIs ==
  ASSUME NEW m, IsMachine(m), NEW tok, NEW back
  PROVE  /\ IsMachine(Before(m, tok, back)) /\ Before(m, tok, back).st = m.st
         /\ Before(m, tok, back).quote = m.quote /\ Before(m, tok, back).tok = tok
         /\ Before(m, tok, back).n = m.n - back /\ Before(m, tok, back).lead = m.lead
  BY DEF IsMachine, Before

LEMMA InvalidIs ==
  ASSUME NEW m, IsMachine(m)
  PROVE  /\ IsMachine(Invalid(m)) /\ Invalid(m).st = m.st /\ Invalid(m).tok = "INVALID"
         /\ Invalid(m).n = m.n - 0 /\ Invalid(m).lead = m.lead
  <1>1. Invalid(m) = Before(m, "INVALID", 0)
    BY DEF Invalid
  <1>2. PICK b : b = Before(m, "INVALID", 0)
    OBVIOUS
  <1>3. /\ IsMachine(b) /\ b.st = m.st /\ b.tok = "INVALID" /\ b.n = m.n - 0 /\ b.lead = m.lead
    BY <1>2, BeforeIs
  <1> QED BY <1>1, <1>2, <1>3

LEMMA QuoteIs ==
  ASSUME NEW m, IsMachine(m), NEW c
  PROVE  LET q == [m EXCEPT !.quote = c]
         IN /\ IsMachine(q) /\ q.st = m.st /\ q.quote = c
            /\ q.tok = m.tok /\ q.n = m.n /\ q.lead = m.lead
  BY DEF IsMachine

LEMMA LeadIs ==
  ASSUME NEW m, IsMachine(m), NEW lead
  PROVE  LET q == [m EXCEPT !.lead = lead]
         IN /\ IsMachine(q) /\ q.st = m.st /\ q.quote = m.quote
            /\ q.tok = m.tok /\ q.n = m.n /\ q.lead = lead
  BY DEF IsMachine

LEMMA LeadReadIs ==
  ASSUME NEW m, IsMachine(m)
  PROVE  LET q == [m EXCEPT !.lead = FALSE, !.n = @ + 1]
         IN /\ IsMachine(q) /\ q.st = m.st /\ q.quote = m.quote
            /\ q.tok = m.tok /\ q.n = m.n + 1 /\ q.lead = FALSE
  BY DEF IsMachine

TagTokens == {"START_TAG_NO_ATTS", "START_TAG_WITH_ATTS", "EMPTY_ELEMENT_NO_ATTS",
              "EMPTY_ELEMENT_WITH_ATTS", "INVALID"}
RefStates == {"&", "&name", "&#", "&#9", "&#x", "&#x9"}
AttStates == {"att", "att_", "att=", "value", "value.", "value._", "value./"}
TagStates == {"tag", "tag_", "tag/"} \cup AttStates \cup RefStates

\* A start tag is being read, or has been.
InTag(m) ==
  /\ IsMachine(m)
  /\ \/ m.tok \in TagTokens
     \/ /\ m.tok = "" /\ m.st \in TagStates
        /\ m.st \in {"value"} \cup RefStates => m.quote # ""

LEMMA RefInTag ==
  ASSUME NEW m, InTag(m), m.tok = "", m.st \in RefStates, NEW c
  PROVE  InTag(ScanRef(m, c))
  <1>1. IsMachine(m) /\ m.quote # ""
    BY DEF InTag, TagTokens, TagStates, RefStates
  <1>2. InTag(Invalid(m))
    BY <1>1, InvalidIs DEF InTag, TagTokens
  <1>3. ASSUME NEW st \in {"value"} \cup RefStates PROVE InTag(To(m, st))
    BY <1>1, <1>3, ToIs DEF InTag, TagStates, RefStates, AttStates
  <1>4. ASSUME NEW tok PROVE InTag(Referred(m, tok))
    BY <1>1, <1>3 DEF Referred
  <1>5. InTag(ScanHexCharRef(m, c))
    BY <1>2, <1>3, <1>4 DEF ScanHexCharRef, RefStates
  <1>6. InTag(ScanCharRef(m, c))
    BY <1>2, <1>3, <1>4 DEF ScanCharRef, RefStates
  <1> QED BY <1>2, <1>3, <1>4, <1>5, <1>6 DEF ScanRef, RefStates

LEMMA AttsInTag ==
  ASSUME NEW m, InTag(m), m.tok = "", m.st \in AttStates, NEW c
  PROVE  InTag(ScanAtts(m, c))
  <1>1. IsMachine(m) /\ (m.st = "value" => m.quote # "")
    BY DEF InTag, TagTokens
  <1>2. InTag(Invalid(m))
    BY <1>1, InvalidIs DEF InTag, TagTokens
  <1>3. ASSUME NEW st \in AttStates \ {"value"} PROVE InTag(To(m, st))
    BY <1>1, <1>3, ToIs DEF InTag, TagStates, RefStates, AttStates
  <1>4. ASSUME m.st = "value", NEW st \in {"value", "&"} PROVE InTag(To(m, st))
    BY <1>1, <1>4, ToIs DEF InTag, TagStates, RefStates, AttStates
  <1>5. ASSUME c \in Quotes PROVE InTag([To(m, "value") EXCEPT !.quote = c])
    <2>1. c # ""
      BY <1>5 DEF Quotes
    <2>2. PICK q : q = To(m, "value")
      OBVIOUS
    <2>3. IsMachine(q) /\ q.st = "value" /\ q.tok = ""
      BY <1>1, <2>2, ToIs
    <2>4. PICK r : r = [q EXCEPT !.quote = c]
      OBVIOUS
    <2>5. IsMachine(r) /\ r.st = "value" /\ r.tok = "" /\ r.quote = c
      BY <2>3, <2>4, QuoteIs
    <2>6. InTag(r)
      BY <1>1, <2>1, <2>5 DEF InTag, TagStates, AttStates
    <2> QED BY <2>2, <2>4, <2>6
  <1>6. InTag([To(m, "value.") EXCEPT !.quote = ""])
    <2>2. PICK q : q = To(m, "value.")
      OBVIOUS
    <2>3. IsMachine(q) /\ q.st = "value." /\ q.tok = ""
      BY <1>1, <2>2, ToIs
    <2>4. PICK r : r = [q EXCEPT !.quote = ""]
      OBVIOUS
    <2>5. IsMachine(r) /\ r.st = "value." /\ r.tok = ""
      BY <2>3, <2>4, QuoteIs
    <2>6. InTag(r)
      BY <1>1, <2>5 DEF InTag, TagStates, AttStates, RefStates
    <2> QED BY <2>2, <2>4, <2>6
  <1>7. ASSUME NEW tok \in TagTokens PROVE InTag(Got(m, tok))
    BY <1>1, <1>7, GotIs DEF InTag
  <1> QED BY <1>2, <1>3, <1>4, <1>5, <1>6, <1>7 DEF ScanAtts, AttStates, TagTokens

LEMMA LtInTag ==
  ASSUME NEW m, InTag(m), m.tok = "", m.st \in {"tag", "tag_", "tag/"}, NEW c
  PROVE  InTag(ScanLt(m, c))
  <1>1. IsMachine(m)
    BY DEF InTag
  <1>2. InTag(Invalid(m))
    BY <1>1, InvalidIs DEF InTag, TagTokens
  <1>3. ASSUME NEW st \in {"tag", "tag_", "tag/", "att"} PROVE InTag(To(m, st))
    BY <1>1, <1>3, ToIs DEF InTag, TagStates, RefStates, AttStates
  <1>4. ASSUME NEW tok \in TagTokens PROVE InTag(Got(m, tok))
    BY <1>1, <1>4, GotIs DEF InTag
  <1> QED BY <1>2, <1>3, <1>4 DEF ScanLt, TagTokens

LEMMA ReadInTag ==
  ASSUME NEW m, InTag(m), NEW c
  PROVE  InTag(ReadAtom(m, c))
  <1>1. CASE m.tok # ""
    BY <1>1 DEF ReadAtom
  <1>2. CASE m.tok = "" /\ m.lead
    <2>1. PICK r : r = [m EXCEPT !.lead = FALSE, !.n = @ + 1]
      OBVIOUS
    <2>2. IsMachine(r) /\ r.st = m.st /\ r.quote = m.quote /\ r.tok = m.tok
      BY <2>1, LeadReadIs DEF InTag
    <2>3. InTag(r)
      BY <2>2 DEF InTag
    <2> QED BY <1>2, <2>1, <2>3 DEF ReadAtom
  <1>3. CASE m.tok = "" /\ ~m.lead
    <2>1. m.st \in TagStates
      BY <1>3 DEF InTag, TagTokens
    <2>2. InTag(Scan(m, c))
      <3>1. CASE m.st \in RefStates
        BY <1>3, <3>1, RefInTag DEF Scan, RefStates
      <3>2. CASE m.st \in AttStates
        BY <1>3, <3>2, AttsInTag DEF Scan, AttStates
      <3>3. CASE m.st \in {"tag", "tag_", "tag/"}
        BY <1>3, <3>3, LtInTag DEF Scan
      <3> QED BY <2>1, <3>1, <3>2, <3>3 DEF TagStates
    <2>3. PICK q : q = Scan(m, c)
      OBVIOUS
    <2>4. PICK r : r = [q EXCEPT !.lead = (c = Lead)]
      OBVIOUS
    <2>7. IsMachine(q)
      BY <2>2, <2>3 DEF InTag
    <2>5. IsMachine(r) /\ r.st = q.st /\ r.quote = q.quote /\ r.tok = q.tok
      BY <2>4, <2>7, LeadIs
    <2>6. InTag(r)
      BY <2>2, <2>3, <2>5 DEF InTag
    <2> QED BY <1>3, <2>3, <2>4, <2>6 DEF ReadAtom
  <1> QED BY <1>1, <1>2, <1>3

LEMMA EndInTag ==
  ASSUME NEW m, InTag(m)
  PROVE  AtEnd(m).tok \in TagTokens \cup {"PARTIAL", "PARTIAL_CHAR", "NONE"}
  <1>1. CASE m.tok # ""
    <2>1. AtEnd(m) = m
      BY <1>1 DEF AtEnd
    <2> QED BY <1>1, <2>1 DEF InTag
  <1>2. CASE m.tok = ""
    <2>1. m.st \in TagStates
      BY <1>2 DEF InTag, TagTokens
    <2>2. AtEnd(m) \in {[m EXCEPT !.tok = "NONE"], [m EXCEPT !.tok = "PARTIAL_CHAR"],
                        [m EXCEPT !.tok = "PARTIAL"]}
      BY <1>2, <2>1 DEF AtEnd, Ends, EndsWithin, TagStates, AttStates, RefStates
    <2>3. ASSUME NEW tok PROVE [m EXCEPT !.tok = tok].tok = tok
      BY DEF InTag, IsMachine
    <2> QED BY <2>2, <2>3
  <1> QED BY <1>1, <1>2

\* What begins with < and a letter is a start tag, or one that is not whole yet or
\* never will be: no reference, no section, no text.
LEMMA StartTagToken ==
  ASSUME NEW text, Len(text) \in Nat, Len(text) >= 2, text[1] = "<", text[2] \in NameStart
  PROVE  Token("content", text).tok \in TagTokens \cup {"PARTIAL", "PARTIAL_CHAR", "NONE"}
  <1>1. PICK run : /\ run[0] = Machine("content")
                   /\ \A i \in 1 .. Len(text) : run[i] = ReadAtom(run[i - 1], text[i])
                   /\ Token("content", text) = AtEnd(run[Len(text)])
    BY TokenRun
  <1>2. IsMachine(run[1]) /\ run[1].st = "<" /\ run[1].tok = "" /\ ~run[1].lead
    <2>1. PICK m : m = Machine("content")
      OBVIOUS
    <2>2. IsMachine(m) /\ m.st = "content" /\ m.tok = "" /\ ~m.lead
      BY <2>1, MachineIs
    <2>3. run[1] = ReadAtom(m, "<")
      BY <1>1, <2>1
    <2>4. Scan(m, "<") = To(m, "<")
      <3>1. Scan(m, "<") = ContentTok(m, "<")
        BY <2>2 DEF Scan
      <3>2. ContentTok(m, "<") = To(m, "<")
        BY <2>2 DEF ContentTok, Trail
      <3> QED BY <3>1, <3>2
    <2>5. PICK q : q = To(m, "<")
      OBVIOUS
    <2>6. IsMachine(q) /\ q.st = "<" /\ q.tok = ""
      BY <2>2, <2>5, ToIs
    <2>7. run[1] = [q EXCEPT !.lead = ("<" = Lead)]
      BY <2>2, <2>3, <2>4, <2>5 DEF ReadAtom
    <2>8. ~("<" = Lead)
      BY DEF Lead
    <2>9. run[1] = [q EXCEPT !.lead = FALSE]
      BY <2>7, <2>8
    <2>10. PICK r : r = [q EXCEPT !.lead = FALSE]
      OBVIOUS
    <2>11. IsMachine(r) /\ r.st = "<" /\ r.tok = "" /\ r.lead = FALSE
      BY <2>6, <2>10, LeadIs
    <2> QED BY <2>9, <2>10, <2>11
  <1>3. InTag(run[2])
    <2>1. PICK m : m = run[1]
      OBVIOUS
    <2>2. IsMachine(m) /\ m.st = "<" /\ m.tok = "" /\ ~m.lead
      BY <1>2, <2>1
    <2>3. run[2] = ReadAtom(m, text[2])
      BY <1>1, <2>1
    <2>4. Scan(m, text[2]) = To(m, "tag")
      <3>1. Scan(m, text[2]) = ScanLt(m, text[2])
        BY <2>2 DEF Scan
      <3>2. text[2] \notin {"!", "?", "/"}
        BY DEF NameStart, Letters, Upper, Lead
      <3>3. ScanLt(m, text[2]) = To(m, "tag")
        BY <2>2, <3>2 DEF ScanLt, AfterLt
      <3> QED BY <3>1, <3>3
    <2>5. PICK q : q = To(m, "tag")
      OBVIOUS
    <2>6. IsMachine(q) /\ q.st = "tag" /\ q.tok = ""
      BY <2>2, <2>5, ToIs
    <2>12. PICK lead : lead = (text[2] = Lead)
      OBVIOUS
    <2>7. run[2] = [q EXCEPT !.lead = lead]
      BY <2>2, <2>3, <2>4, <2>5, <2>12 DEF ReadAtom
    <2>8. PICK r : r = [q EXCEPT !.lead = lead]
      OBVIOUS
    <2>9. IsMachine(r) /\ r.st = "tag" /\ r.tok = ""
      BY <2>6, <2>8, LeadIs
    <2>10. InTag(r)
      BY <2>9 DEF InTag, TagStates, RefStates, AttStates
    <2> QED BY <2>7, <2>8, <2>10
  <1> DEFINE Bad == {i \in Nat : 2 <= i /\ i <= Len(text) /\ ~InTag(run[i])}
  <1>4. ASSUME Bad # {} PROVE FALSE
    <2>1. Bad \in SUBSET Nat
      OBVIOUS
    <2>2. PICK k \in Bad : \A m \in Bad : ~(m < k)
      <3> HIDE DEF Bad
      <3> QED BY <1>4, <2>1, LeastOf
    <2>3. k \in Nat /\ 2 <= k /\ k <= Len(text) /\ ~InTag(run[k])
      OBVIOUS
    <2>4. k # 2
      BY <1>3, <2>3
    <2>5. PICK j \in Nat : k = j + 1
      BY <2>3
    <2>6. 2 <= j /\ j <= Len(text) /\ j < k /\ k \in 1 .. Len(text) /\ k - 1 = j
      BY <2>3, <2>4, <2>5
    <2>7. j \notin Bad
      <3> HIDE DEF Bad
      <3> QED BY <2>2, <2>6
    <2>8. InTag(run[j])
      BY <2>6, <2>7
    <2>9. run[k] = ReadAtom(run[j], text[k])
      BY <1>1, <2>6
    <2> QED BY <2>3, <2>8, <2>9, ReadInTag
  <1>5. InTag(run[Len(text)])
    BY <1>4
  <1> QED BY <1>1, <1>5, EndInTag

-----------------------------------------------------------------------------
(* The tokens of the prolog. *)

PrologStates ==
  {"prolog<", "decl!", "decl", "decl%", "<?", "target", "target?", "pi", "pi?", "<!-",
   "comment", "comment-", "comment--", "lit", "lit.", "first CR", "space", "space CR", "%", "%name",
   "#", "#name", "prolog]", "prolog]]", "prolog)", "NAME", "NMTOKEN"}

\* A token of the prolog is being read, after its first character, or has been, and
\* is no start of the document element.
InProlog(m) ==
  /\ IsMachine(m)
  /\ \/ m.tok = "" /\ m.st \in PrologStates \ {"prolog<"}
     \/ m.tok \notin {"", "INSTANCE_START"}

\* Its length is a number.
Counts(m) == m.n \in Int

LEMMA CountsOn ==
  ASSUME NEW m, Counts(m), NEW q, q.n = m.n + 1 \/ q.n = m.n - 1 \/ q.n = m.n - 0 \/ q.n = m.n
  PROVE  Counts(q)
  BY DEF Counts

LEMMA ToProlog ==
  ASSUME NEW m, IsMachine(m), m.tok = "", Counts(m), NEW st \in PrologStates \ {"prolog<"}
  PROVE  InProlog(To(m, st)) /\ Counts(To(m, st))
  <1>1. PICK q : q = To(m, st)
    OBVIOUS
  <1>2. IsMachine(q) /\ q.st = st /\ q.tok = "" /\ q.n = m.n + 1
    BY <1>1, ToIs
  <1>3. Counts(q)
    BY <1>2, CountsOn, Zenon
  <1>4. InProlog(q)
    BY <1>2 DEF InProlog
  <1> QED BY <1>1, <1>3, <1>4

LEMMA GotProlog ==
  ASSUME NEW m, IsMachine(m), Counts(m), NEW tok, tok \notin {"", "INSTANCE_START"}
  PROVE  InProlog(Got(m, tok)) /\ Counts(Got(m, tok))
  <1>1. PICK q : q = Got(m, tok)
    OBVIOUS
  <1>2. IsMachine(q) /\ q.tok = tok /\ q.n = m.n + 1
    BY <1>1, GotIs
  <1>3. Counts(q)
    BY <1>2, CountsOn, Zenon
  <1>4. InProlog(q)
    BY <1>2 DEF InProlog
  <1> QED BY <1>1, <1>3, <1>4

LEMMA BeforeCounts ==
  ASSUME NEW m, IsMachine(m), Counts(m), NEW tok, NEW back, back = 0 \/ back = 1
  PROVE  Counts(Before(m, tok, back))
  <1>1. Before(m, tok, back).n = m.n - back
    BY BeforeIs
  <1>2. CASE back = 0
    BY <1>1, <1>2, CountsOn
  <1>3. CASE back = 1
    BY <1>1, <1>3, CountsOn
  <1> QED BY <1>2, <1>3

LEMMA BeforeProlog ==
  ASSUME NEW m, IsMachine(m), Counts(m), NEW tok, tok \notin {"", "INSTANCE_START"},
         NEW back, back = 0 \/ back = 1
  PROVE  InProlog(Before(m, tok, back)) /\ Counts(Before(m, tok, back))
  <1>1. InProlog(Before(m, tok, back))
    BY DEF InProlog, IsMachine, Before
  <1> QED BY <1>1, BeforeCounts

LEMMA InvalidProlog ==
  ASSUME NEW m, IsMachine(m), Counts(m)
  PROVE  InProlog(Invalid(m)) /\ Counts(Invalid(m))
  <1>1. Invalid(m) = Before(m, "INVALID", 0)
    BY DEF Invalid
  <1> QED BY <1>1, BeforeProlog

\* The word of an instruction, the quote of a literal.
LEMMA WordProlog ==
  ASSUME NEW m, InProlog(m), Counts(m), NEW w
  PROVE  /\ InProlog([m EXCEPT !.word = w]) /\ Counts([m EXCEPT !.word = w])
         /\ InProlog([m EXCEPT !.quote = w]) /\ Counts([m EXCEPT !.quote = w])
         /\ InProlog([m EXCEPT !.lead = w]) /\ Counts([m EXCEPT !.lead = w])
  <1>1. IsMachine(m)
    BY DEF InProlog
  <1>2. ASSUME NEW q, q = [m EXCEPT !.word = w]
        PROVE  IsMachine(q) /\ q.st = m.st /\ q.tok = m.tok /\ q.n = m.n
    BY <1>1, <1>2 DEF IsMachine
  <1>3. ASSUME NEW q, q = [m EXCEPT !.quote = w]
        PROVE  IsMachine(q) /\ q.st = m.st /\ q.tok = m.tok /\ q.n = m.n
    BY <1>1, <1>3 DEF IsMachine
  <1>4. ASSUME NEW q, q = [m EXCEPT !.lead = w]
        PROVE  IsMachine(q) /\ q.st = m.st /\ q.tok = m.tok /\ q.n = m.n
    BY <1>1, <1>4 DEF IsMachine
  <1>5. ASSUME NEW q, IsMachine(q), q.st = m.st, q.tok = m.tok, q.n = m.n
        PROVE  InProlog(q) /\ Counts(q)
    BY <1>5 DEF InProlog, Counts
  <1> QED BY <1>2, <1>3, <1>4, <1>5

LEMMA CommentInProlog ==
  ASSUME NEW m, IsMachine(m), m.tok = "", Counts(m), NEW c
  PROVE  InProlog(ScanComment(m, c)) /\ Counts(ScanComment(m, c))
  BY ToProlog, GotProlog, InvalidProlog DEF ScanComment, PrologStates

LEMMA DeclInProlog ==
  ASSUME NEW m, IsMachine(m), m.tok = "", Counts(m), NEW c
  PROVE  InProlog(ScanDecl(m, c)) /\ Counts(ScanDecl(m, c))
  BY ToProlog, GotProlog, BeforeProlog, InvalidProlog DEF ScanDecl, PrologStates

LEMMA PiInProlog ==
  ASSUME NEW m, IsMachine(m), m.tok = "", Counts(m), NEW c
  PROVE  InProlog(ScanPi(m, c)) /\ Counts(ScanPi(m, c))
  <1>1. ASSUME NEW st \in PrologStates \ {"prolog<"}
        PROVE  InProlog(CheckPiTarget(m, st)) /\ Counts(CheckPiTarget(m, st))
    BY <1>1, ToProlog, InvalidProlog DEF CheckPiTarget
  <1>2. InProlog(Got(m, PiToken(m))) /\ Counts(Got(m, PiToken(m)))
    BY GotProlog DEF PiToken
  <1>3. ASSUME NEW w
        PROVE  /\ InProlog([To(m, "target") EXCEPT !.word = w])
               /\ Counts([To(m, "target") EXCEPT !.word = w])
    BY ToProlog, WordProlog DEF PrologStates
  <1> QED BY <1>1, <1>2, <1>3, ToProlog, InvalidProlog DEF ScanPi, PrologStates

LEMMA LitInProlog ==
  ASSUME NEW m, IsMachine(m), m.tok = "", Counts(m), NEW c
  PROVE  InProlog(ScanLit(m, c)) /\ Counts(ScanLit(m, c))
  BY ToProlog, BeforeProlog, InvalidProlog DEF ScanLit, PrologStates

LEMMA NamesInProlog ==
  ASSUME NEW m, IsMachine(m), m.tok = "", Counts(m), NEW c
  PROVE  /\ InProlog(ScanPercent(m, c)) /\ Counts(ScanPercent(m, c))
         /\ InProlog(ScanPoundName(m, c)) /\ Counts(ScanPoundName(m, c))
         /\ m.st \in {"NAME", "NMTOKEN"} => InProlog(PrologName(m, c)) /\ Counts(PrologName(m, c))
  <1>1. InProlog(ScanPercent(m, c)) /\ Counts(ScanPercent(m, c))
    BY ToProlog, GotProlog, BeforeProlog, InvalidProlog DEF ScanPercent, PrologStates
  <1>2. InProlog(ScanPoundName(m, c)) /\ Counts(ScanPoundName(m, c))
    BY ToProlog, BeforeProlog, InvalidProlog DEF ScanPoundName, PrologStates
  <1>3. ASSUME m.st \in {"NAME", "NMTOKEN"}
        PROVE  InProlog(PrologName(m, c)) /\ Counts(PrologName(m, c))
    <2>1. InProlog(To(m, m.st)) /\ Counts(To(m, m.st))
      BY <1>3, ToProlog DEF PrologStates
    <2>2. InProlog(Before(m, m.st, 0)) /\ Counts(Before(m, m.st, 0))
      BY <1>3, BeforeProlog
    <2>3. ASSUME c \in Repeats
          PROVE  InProlog(Got(m, RepeatedName(c))) /\ Counts(Got(m, RepeatedName(c)))
      BY <2>3, GotProlog DEF Repeats, RepeatedName
    <2> QED BY <2>1, <2>2, <2>3, InvalidProlog DEF PrologName
  <1> QED BY <1>1, <1>2, <1>3

LEMMA SignsInProlog ==
  ASSUME NEW m, IsMachine(m), m.tok = "", Counts(m), NEW c
  PROVE  /\ InProlog(PrologSpace(m, c)) /\ Counts(PrologSpace(m, c))
         /\ InProlog(CloseBracket(m, c)) /\ Counts(CloseBracket(m, c))
         /\ InProlog(CloseParen(m, c)) /\ Counts(CloseParen(m, c))
  <1>1. InProlog(PrologSpace(m, c)) /\ Counts(PrologSpace(m, c))
    BY ToProlog, BeforeProlog DEF PrologSpace, PrologStates
  <1>2. InProlog(CloseBracket(m, c)) /\ Counts(CloseBracket(m, c))
    BY ToProlog, GotProlog, BeforeProlog DEF CloseBracket, PrologStates
  <1>3. ASSUME c \in Repeats
        PROVE  InProlog(Got(m, RepeatedGroup(c))) /\ Counts(Got(m, RepeatedGroup(c)))
    BY <1>3, GotProlog DEF Repeats, RepeatedGroup
  <1>4. InProlog(CloseParen(m, c)) /\ Counts(CloseParen(m, c))
    BY <1>3, BeforeProlog, InvalidProlog DEF CloseParen
  <1> QED BY <1>1, <1>2, <1>4

LEMMA FirstInProlog ==
  ASSUME NEW m, IsMachine(m), m.tok = "", Counts(m), NEW c, c # "<"
  PROVE  InProlog(PrologTok(m, c)) /\ Counts(PrologTok(m, c))
  <1>1. /\ InProlog([To(m, "lit") EXCEPT !.quote = c])
        /\ Counts([To(m, "lit") EXCEPT !.quote = c])
    BY ToProlog, WordProlog DEF PrologStates
  <1>2. ASSUME c \in DOMAIN OneCharacter
        PROVE  InProlog(Got(m, OneCharacter[c])) /\ Counts(Got(m, OneCharacter[c]))
    <2>1. OneCharacter[c] \in {"COMMA", "OPEN_BRACKET", "OPEN_PAREN", "OR", "DECL_CLOSE"}
      BY <1>2 DEF OneCharacter
    <2> QED BY <2>1, GotProlog
  <1>3. ASSUME c \in {"%", "#"} PROVE InProlog(To(m, c)) /\ Counts(To(m, c))
    BY <1>3, ToProlog DEF PrologStates
  <1>4. ASSUME NEW st \in {"first CR", "space", "prolog]", "prolog)", "NAME", "NMTOKEN"}
        PROVE  InProlog(To(m, st)) /\ Counts(To(m, st))
    BY <1>4, ToProlog DEF PrologStates
  <1> QED BY <1>1, <1>2, <1>3, <1>4, InvalidProlog DEF PrologTok

LEMMA LtInProlog ==
  ASSUME NEW m, IsMachine(m), m.tok = "", Counts(m), NEW c
  PROVE  /\ Counts(PrologLt(m, c))
         /\ c \notin NameStart => InProlog(PrologLt(m, c))
         /\ c \in NameStart => IsMachine(PrologLt(m, c)) /\ PrologLt(m, c).tok = "INSTANCE_START"
  <1>1. CASE c \notin NameStart
    <2>1. ASSUME NEW st \in {"decl!", "<?"} PROVE InProlog(To(m, st)) /\ Counts(To(m, st))
      BY <2>1, ToProlog DEF PrologStates
    <2> QED BY <1>1, <2>1, InvalidProlog DEF PrologLt
  <1>2. CASE c \in NameStart
    <2>1. c \notin {"!", "?"}
      BY <1>2 DEF NameStart, Letters, Upper, Lead
    <2>2. PrologLt(m, c) = Before(m, "INSTANCE_START", 1)
      BY <1>2, <2>1 DEF PrologLt
    <2>3. Counts(Before(m, "INSTANCE_START", 1))
      BY BeforeCounts
    <2>4. /\ IsMachine(Before(m, "INSTANCE_START", 1))
          /\ Before(m, "INSTANCE_START", 1).tok = "INSTANCE_START"
      BY DEF IsMachine, Before
    <2> QED BY <1>2, <2>2, <2>3, <2>4
  <1> QED BY <1>1, <1>2

\* < and the beginning of a name: the document element.
StartsTag(text) == Len(text) >= 2 /\ text[1] = "<" /\ text[2] \in NameStart

\* What reads a text of the prolog, once it knows whether the document element begins.
Begun(m, text) ==
  /\ Counts(m)
  /\ \/ InProlog(m)
     \/ IsMachine(m) /\ m.tok = "INSTANCE_START" /\ StartsTag(text)

LEMMA ScanInProlog ==
  ASSUME NEW m, IsMachine(m), m.tok = "", m.st \in PrologStates \ {"prolog<"}, Counts(m), NEW c
  PROVE  InProlog(Scan(m, c)) /\ Counts(Scan(m, c))
  <1>1. CASE m.st \in {"decl!", "decl", "decl%"}
    BY <1>1, DeclInProlog DEF Scan
  <1>2. CASE m.st \in {"<?", "target", "target?", "pi", "pi?"}
    BY <1>2, PiInProlog DEF Scan
  <1>3. CASE m.st \in {"<!-", "comment", "comment-", "comment--"}
    BY <1>3, CommentInProlog DEF Scan
  <1>4. CASE m.st \in {"lit", "lit."}
    BY <1>4, LitInProlog DEF Scan
  <1>5. CASE m.st \in {"first CR", "space", "space CR"}
    BY <1>5, SignsInProlog DEF Scan
  <1>6. CASE m.st \in {"%", "%name"}
    BY <1>6, NamesInProlog DEF Scan
  <1>7. CASE m.st \in {"#", "#name"}
    BY <1>7, NamesInProlog DEF Scan
  <1>8. CASE m.st \in {"prolog]", "prolog]]"}
    BY <1>8, SignsInProlog DEF Scan
  <1>9. CASE m.st = "prolog)"
    BY <1>9, SignsInProlog DEF Scan
  <1>10. CASE m.st \in {"NAME", "NMTOKEN"}
    BY <1>10, NamesInProlog DEF Scan
  <1> QED BY <1>1, <1>2, <1>3, <1>4, <1>5, <1>6, <1>7, <1>8, <1>9, <1>10 DEF PrologStates

LEMMA ReadBegun ==
  ASSUME NEW text, NEW m, Begun(m, text), NEW c
  PROVE  Begun(ReadAtom(m, c), text)
  <1>1. CASE m.tok # ""
    BY <1>1 DEF ReadAtom
  <1>2. CASE m.tok = "" /\ m.lead
    <2>1. InProlog(m) /\ Counts(m) /\ IsMachine(m)
      BY <1>2 DEF Begun, InProlog
    <2>2. PICK r : r = [m EXCEPT !.lead = FALSE, !.n = @ + 1]
      OBVIOUS
    <2>3. IsMachine(r) /\ r.st = m.st /\ r.tok = m.tok /\ r.n = m.n + 1
      BY <2>1, <2>2, LeadReadIs
    <2>4. Counts(r)
      <3>1. r.n = m.n + 1
        BY <2>3
      <3> QED BY <2>1, <3>1, CountsOn, Zenon
    <2>5. InProlog(r)
      BY <2>1, <2>3 DEF InProlog
    <2>6. ReadAtom(m, c) = r
      BY <1>2, <2>2 DEF ReadAtom
    <2> QED BY <2>4, <2>5, <2>6 DEF Begun
  <1>3. CASE m.tok = "" /\ ~m.lead
    <2>1. IsMachine(m) /\ Counts(m) /\ m.st \in PrologStates \ {"prolog<"}
      BY <1>3 DEF Begun, InProlog
    <2>2. InProlog(Scan(m, c)) /\ Counts(Scan(m, c))
      BY <1>3, <2>1, ScanInProlog
    <2>3. PICK q : q = Scan(m, c)
      OBVIOUS
    <2>4. InProlog([q EXCEPT !.lead = (c = Lead)]) /\ Counts([q EXCEPT !.lead = (c = Lead)])
      BY <2>2, <2>3, WordProlog
    <2>5. ReadAtom(m, c) = [q EXCEPT !.lead = (c = Lead)]
      BY <1>3, <2>3 DEF ReadAtom
    <2> QED BY <2>4, <2>5 DEF Begun
  <1> QED BY <1>1, <1>2, <1>3

LEMMA EndBegun ==
  ASSUME NEW text, NEW m, Begun(m, text)
  PROVE  Counts(AtEnd(m)) /\ (AtEnd(m).tok = "INSTANCE_START" => StartsTag(text))
  <1>1. CASE m.tok # ""
    <2>1. AtEnd(m) = m
      BY <1>1 DEF AtEnd
    <2> QED BY <2>1 DEF Begun, InProlog
  <1>2. CASE m.tok = ""
    <2>1. IsMachine(m) /\ Counts(m) /\ m.st \in PrologStates
      BY <1>2 DEF Begun, InProlog
    <2>2. ASSUME NEW tok, tok # "INSTANCE_START", NEW q, q = [m EXCEPT !.tok = tok]
          PROVE  Counts(q) /\ q.tok # "INSTANCE_START"
      <3>1. q.n = m.n /\ q.tok = tok
        BY <2>1, <2>2 DEF IsMachine
      <3>2. Counts(q)
        BY <2>1, <3>1, CountsOn, Zenon
      <3> QED BY <2>2, <3>1, <3>2
    <2>3. ASSUME NEW q, q = Before(m, "PROLOG_S", 1)
          PROVE  Counts(q) /\ q.tok # "INSTANCE_START"
      <3>1. InProlog(q) /\ Counts(q)
        BY <2>1, <2>3, BeforeProlog
      <3>2. q.tok = "PROLOG_S"
        BY <2>1, <2>3 DEF IsMachine, Before
      <3> QED BY <3>1, <3>2
    <2>4. \/ AtEnd(m) = Before(m, "PROLOG_S", 1)
          \/ \E tok \in {"NONE", "PARTIAL_CHAR", "PROLOG_S", "-PROLOG_S", "-CLOSE_BRACKET", "-CLOSE_PAREN",
                         "-LITERAL", "-POUND_NAME", "-NAME", "-NMTOKEN", "PARTIAL"} :
               AtEnd(m) = [m EXCEPT !.tok = tok]
      BY <1>2, <2>1 DEF AtEnd, Ends, EndsWithin, PrologStates
    <2> QED BY <2>2, <2>3, <2>4
  <1> QED BY <1>1, <1>2

\* The token of the prolog: it has a length, and INSTANCE_START is before < and a letter.
LEMMA PrologToken ==
  ASSUME NEW text, Len(text) \in Nat
  PROVE  /\ Counts(Token("prolog", text))
         /\ Token("prolog", text).tok = "INSTANCE_START" => StartsTag(text)
  <1>1. PICK run : /\ run[0] = Machine("prolog")
                   /\ \A i \in 1 .. Len(text) : run[i] = ReadAtom(run[i - 1], text[i])
                   /\ Token("prolog", text) = AtEnd(run[Len(text)])
    BY TokenRun
  <1>2. PICK m0 : m0 = Machine("prolog")
    OBVIOUS
  <1>3. IsMachine(m0) /\ m0.st = "prolog" /\ m0.tok = "" /\ ~m0.lead /\ m0.n = 0
    BY <1>2, MachineIs
  <1>4. Counts(m0)
    <2>1. m0.n = 0
      BY <1>3
    <2> QED BY <2>1 DEF Counts
  <1>5. CASE Len(text) = 0
    <2>1. Token("prolog", text) = [m0 EXCEPT !.tok = "NONE"]
      BY <1>1, <1>2, <1>3, <1>5 DEF AtEnd
    <2>2. PICK q : q = [m0 EXCEPT !.tok = "NONE"]
      OBVIOUS
    <2>3. q.n = m0.n /\ q.tok = "NONE"
      BY <1>3, <2>2 DEF IsMachine
    <2>4. Counts(q)
      BY <1>4, <2>3, CountsOn, Zenon
    <2> QED BY <2>1, <2>2, <2>3, <2>4
  <1>6. ASSUME Len(text) > 0 PROVE run[1] = [PrologTok(m0, text[1]) EXCEPT !.lead = (text[1] = Lead)]
    <2>1. run[1] = ReadAtom(m0, text[1])
      BY <1>1, <1>2, <1>6
    <2>2. Scan(m0, text[1]) = PrologTok(m0, text[1])
      BY <1>3 DEF Scan
    <2> QED BY <1>3, <2>1, <2>2 DEF ReadAtom
  <1>7. CASE Len(text) = 1 /\ text[1] = "<"
    <2>1. PICK q : q = To(m0, "prolog<")
      OBVIOUS
    <2>2. PrologTok(m0, text[1]) = q
      BY <1>7, <2>1 DEF PrologTok, Quotes, OneCharacter, NameStart, NameChars, Letters, Upper, Lead, Digits
    <2>3. IsMachine(q) /\ q.st = "prolog<" /\ q.tok = "" /\ q.n = m0.n + 1
      BY <1>3, <2>1, ToIs
    <2>4. Counts(q)
      BY <1>4, <2>3, CountsOn, Zenon
    <2>5. PICK r : r = [q EXCEPT !.lead = (text[1] = Lead)]
      OBVIOUS
    <2>6. IsMachine(r) /\ r.st = "prolog<" /\ r.tok = "" /\ r.n = q.n
      BY <2>3, <2>5, LeadIs
    <2>7. Counts(r)
      BY <2>4, <2>6, CountsOn, Zenon
    <2>8. \E tok \in {"NONE", "PARTIAL_CHAR", "PARTIAL"} : AtEnd(r) = [r EXCEPT !.tok = tok]
      BY <2>6 DEF AtEnd, Ends, EndsWithin
    <2>9. ASSUME NEW tok, tok # "INSTANCE_START", NEW p, p = [r EXCEPT !.tok = tok]
          PROVE  Counts(p) /\ p.tok # "INSTANCE_START"
      <3>1. p.n = r.n /\ p.tok = tok
        BY <2>6, <2>9 DEF IsMachine
      <3>2. Counts(p)
        BY <2>7, <3>1, CountsOn, Zenon
      <3> QED BY <2>9, <3>1, <3>2
    <2>10. Token("prolog", text) = AtEnd(r)
      BY <1>1, <1>6, <1>7, <2>2, <2>5
    <2> QED BY <2>8, <2>9, <2>10
  <1>8. CASE Len(text) > 0 /\ ~(Len(text) = 1 /\ text[1] = "<")
    <2> DEFINE base == IF text[1] = "<" THEN 2 ELSE 1
    <2>1. base \in 1 .. Len(text)
      BY <1>8
    <2>2. Begun(run[base], text)
      <3>1. CASE text[1] # "<"
        <4>1. InProlog(PrologTok(m0, text[1])) /\ Counts(PrologTok(m0, text[1]))
          BY <1>3, <1>4, <3>1, FirstInProlog
        <4>2. PICK q : q = PrologTok(m0, text[1])
          OBVIOUS
        <4>3. /\ InProlog([q EXCEPT !.lead = (text[1] = Lead)])
              /\ Counts([q EXCEPT !.lead = (text[1] = Lead)])
          BY <4>1, <4>2, WordProlog
        <4>4. run[1] = [q EXCEPT !.lead = (text[1] = Lead)]
          BY <1>6, <1>8, <4>2
        <4> QED BY <3>1, <4>3, <4>4 DEF Begun
      <3>2. CASE text[1] = "<"
        <4>1. PICK q : q = To(m0, "prolog<")
          OBVIOUS
        <4>2. PrologTok(m0, text[1]) = q
          BY <3>2, <4>1 DEF PrologTok, Quotes, OneCharacter, NameStart, NameChars, Letters, Upper, Lead, Digits
        <4>3. IsMachine(q) /\ q.st = "prolog<" /\ q.tok = "" /\ q.n = m0.n + 1
          BY <1>3, <4>1, ToIs
        <4>4. Counts(q)
          BY <1>4, <4>3, CountsOn, Zenon
        <4>5. ~(text[1] = Lead)
          BY <3>2 DEF Lead
        <4>6. PICK r : r = [q EXCEPT !.lead = FALSE]
          OBVIOUS
        <4>7. IsMachine(r) /\ r.st = "prolog<" /\ r.tok = "" /\ r.n = q.n /\ ~r.lead
          BY <4>3, <4>6, LeadIs
        <4>8. Counts(r)
          BY <4>4, <4>7, CountsOn, Zenon
        <4>9. run[1] = r
          BY <1>6, <1>8, <4>2, <4>5, <4>6
        <4>17. Len(text) > 0 /\ Len(text) # 1
          BY <1>8, <3>2
        <4>18. Len(text) >= 2 /\ 2 \in 1 .. Len(text) /\ 2 - 1 = 1
          BY <4>17
        <4>10. run[2] = ReadAtom(r, text[2])
          BY <1>1, <4>9, <4>18
        <4>11. Scan(r, text[2]) = PrologLt(r, text[2])
          BY <4>7 DEF Scan
        <4>12. PICK p : p = PrologLt(r, text[2])
          OBVIOUS
        <4>13. /\ Counts(p)
               /\ text[2] \notin NameStart => InProlog(p)
               /\ text[2] \in NameStart => IsMachine(p) /\ p.tok = "INSTANCE_START"
          BY <4>7, <4>8, <4>12, LtInProlog
        <4>14. run[2] = [p EXCEPT !.lead = (text[2] = Lead)]
          BY <4>7, <4>10, <4>11, <4>12 DEF ReadAtom
        <4>15. CASE text[2] \notin NameStart
          <5>1. /\ InProlog([p EXCEPT !.lead = (text[2] = Lead)])
                /\ Counts([p EXCEPT !.lead = (text[2] = Lead)])
            BY <4>13, <4>15, WordProlog
          <5> QED BY <3>2, <4>14, <5>1 DEF Begun
        <4>16. CASE text[2] \in NameStart
          <5>1. PICK o : o = [p EXCEPT !.lead = (text[2] = Lead)]
            OBVIOUS
          <5>2. IsMachine(o) /\ o.tok = "INSTANCE_START" /\ o.n = p.n
            BY <4>13, <4>16, <5>1, LeadIs
          <5>3. Counts(o)
            BY <4>13, <5>2, CountsOn, Zenon
          <5>4. StartsTag(text)
            BY <3>2, <4>16, <4>18 DEF StartsTag
          <5> QED BY <3>2, <4>14, <5>1, <5>2, <5>3, <5>4 DEF Begun
        <4> QED BY <4>15, <4>16
      <3> QED BY <3>1, <3>2
    <2> HIDE DEF base
    <2> DEFINE Bad == {i \in Nat : base <= i /\ i <= Len(text) /\ ~Begun(run[i], text)}
    <2>3. ASSUME Bad # {} PROVE FALSE
      <3>1. Bad \in SUBSET Nat
        OBVIOUS
      <3>2. PICK k \in Bad : \A m \in Bad : ~(m < k)
        <4> HIDE DEF Bad
        <4> QED BY <2>3, <3>1, LeastOf
      <3>3. k \in Nat /\ base <= k /\ k <= Len(text) /\ ~Begun(run[k], text)
        OBVIOUS
      <3>4. k # base
        BY <2>2, <3>3
      <3>5. PICK j \in Nat : k = j + 1
        BY <2>1, <3>3
      <3>6. base <= j /\ j <= Len(text) /\ j < k /\ k \in 1 .. Len(text) /\ k - 1 = j
        BY <2>1, <3>3, <3>4, <3>5
      <3>7. j \notin Bad
        <4> HIDE DEF Bad
        <4> QED BY <3>2, <3>6
      <3>8. Begun(run[j], text)
        BY <3>6, <3>7
      <3>9. run[k] = ReadAtom(run[j], text[k])
        BY <1>1, <3>6
      <3> QED BY <3>3, <3>8, <3>9, ReadBegun
    <2>4. Begun(run[Len(text)], text)
      BY <2>1, <2>3
    <2> QED BY <1>1, <2>4, EndBegun
  <1> QED BY <1>5, <1>7, <1>8

-----------------------------------------------------------------------------
(* What a step of the reader does to the text, the stack and the events. *)

LEMMA Blocks ==
  ASSUME NEW s, NEW a \in Int, NEW b \in Int
  PROVE  /\ Len(SubSeq(s, a + 1, b)) \in Nat
         /\ StartsTag(SubSeq(s, a + 1, b))
              => b - a >= 2 /\ s[a + 1] = "<" /\ s[a + 2] \in NameStart
         /\ b - a >= 2 /\ s[a + 1] = "<" /\ s[a + 2] \in NameStart
              => StartsTag(SubSeq(s, a + 1, b))
  <1> DEFINE S == {s[i] : i \in a + 1 .. b}
  <1>1. a + 1 \in Int /\ \A i \in a + 1 .. b : s[i] \in S
    OBVIOUS
  <1> HIDE DEF S
  <1>2. PICK m \in Int : m = a + 1
    BY <1>1
  <1>3. \A i \in m .. b : s[i] \in S
    BY <1>1, <1>2
  <1>4. /\ SubSeq(s, m, b) \in Seq(S)
        /\ Len(SubSeq(s, m, b)) = IF m <= b THEN b - m + 1 ELSE 0
        /\ \A i \in 1 .. b - m + 1 : SubSeq(s, m, b)[i] = s[m + i - 1]
    BY <1>3, SubSeqProperties
  <1>5. PICK t : t = SubSeq(s, a + 1, b)
    OBVIOUS
  <1>6. /\ Len(t) = IF m <= b THEN b - m + 1 ELSE 0
        /\ \A i \in 1 .. b - m + 1 : t[i] = s[m + i - 1]
    BY <1>2, <1>4, <1>5
  <1>7. Len(t) \in Nat /\ (Len(t) >= 2 <=> b - a >= 2)
    BY <1>2, <1>6
  <1>8. ASSUME b - a >= 2 PROVE t[1] = s[a + 1] /\ t[2] = s[a + 2]
    <2>1. 1 \in 1 .. b - m + 1 /\ 2 \in 1 .. b - m + 1 /\ m + 1 - 1 = a + 1 /\ m + 2 - 1 = a + 2
      BY <1>2, <1>8
    <2>2. t[1] = s[m + 1 - 1] /\ t[2] = s[m + 2 - 1]
      BY <1>6, <2>1
    <2> QED BY <2>1, <2>2
  <1>9. StartsTag(t) <=> b - a >= 2 /\ s[a + 1] = "<" /\ s[a + 2] \in NameStart
    <2>1. ASSUME b - a >= 2
          PROVE  StartsTag(t) <=> s[a + 1] = "<" /\ s[a + 2] \in NameStart
      <3>1. Len(t) >= 2 /\ t[1] = s[a + 1] /\ t[2] = s[a + 2]
        BY <1>7, <1>8, <2>1
      <3> QED BY <3>1 DEF StartsTag
    <2>2. ASSUME ~(b - a >= 2) PROVE ~StartsTag(t)
      <3>1. ~(Len(t) >= 2)
        BY <1>7, <2>2
      <3> QED BY <3>1 DEF StartsTag
    <2> QED BY <2>1, <2>2
  <1> QED BY <1>5, <1>7, <1>9

\* A case of the prolog that starts the document element is one of that token.
Fine(arm) == arm[4] = "INSTANCE_START" => arm[2] = "INSTANCE_START"

LEMMA FineTuple ==
  ASSUME NEW h, NEW t, NEW w, NEW r, NEW n, r = "INSTANCE_START" => t = "INSTANCE_START"
  PROVE  Fine(<<h, t, w, r, n>>)
  BY DEF Fine

\* The document element begins with a token that says so.
LEMMA RoleOfStart ==
  ASSUME NEW state, NEW tok, NEW word, XmlTokenRole(state, tok, word).role = "INSTANCE_START"
  PROVE  tok = "INSTANCE_START"
  <1>1. ASSUME NEW role, NEW machine, NEW level PROVE Answer(role, machine, level).role = role
    BY DEF Answer
  <1>2. \A arm \in Rows : Fine(arm)
    <2>1. \A arm \in PrologRows \cup DoctypeRows : Fine(arm)
      BY FineTuple DEF PrologRows, DoctypeRows
    <2>2. \A arm \in SubsetRows \cup NotationRows \cup CloseRows : Fine(arm)
      BY FineTuple DEF SubsetRows, NotationRows, CloseRows
    <2>3. \A arm \in EntityNameRows \cup EntityRestRows : Fine(arm)
      BY FineTuple DEF EntityNameRows, EntityRestRows
    <2>4. \A arm \in AttlistTypeRows \cup AttlistDefaultRows : Fine(arm)
      BY FineTuple DEF AttlistTypeRows, AttlistDefaultRows
    <2>5. \A arm \in ElementRows \cup GroupRows : Fine(arm)
      BY FineTuple DEF ElementRows, GroupRows
    <2> QED BY <2>1, <2>2, <2>3, <2>4, <2>5 DEF Rows
  <1>3. state.handler # "error" /\ tok # "PROLOG_S"
    BY <1>1 DEF XmlTokenRole
  <1>4. PICK level : XmlTokenRole(state, tok, word) = Choose(Cases(state.handler, tok, word), level)
    BY <1>3 DEF XmlTokenRole
  <1>5. Cases(state.handler, tok, word) # {}
    BY <1>1, <1>4 DEF Choose
  <1>6. PICK arm \in Cases(state.handler, tok, word) :
          XmlTokenRole(state, tok, word) = Answer(arm[4], arm[5], level)
    BY <1>4, <1>5 DEF Choose
  <1>7. arm \in Rows /\ arm[2] = tok
    BY <1>6, Zenon DEF Cases
  <1>8. XmlTokenRole(state, tok, word).role = arm[4]
    <2>1. Answer(arm[4], arm[5], level).role = arm[4]
      BY DEF Answer
    <2> QED BY <1>6, <2>1, Zenon
  <1>9. Fine(arm)
    BY <1>2, <1>7, Zenon
  <1> QED BY <1>7, <1>8, <1>9, Zenon DEF Fine

LEMMA WholeIs ==
  ASSUME NEW t, Counts(t), Len(Text) \in Int
  PROVE  Counts(Whole(t)) /\ (Whole(t).tok = "INSTANCE_START" => t.tok = "INSTANCE_START")
  <1>1. CASE final /\ t.tok \in Unfinished
    <2> DEFINE it == CHOOSE tok \in Endable : t.tok = "-" \o tok
    <2>1. \E tok \in Endable : t.tok = "-" \o tok
      BY <1>1, Zenon DEF Unfinished
    <2>2. it \in Endable
      BY <2>1, Zenon
    <2>3. Whole(t) = [tok |-> it, n |-> Len(Text)]
      BY <1>1, Zenon DEF Whole
    <2> HIDE DEF it
    <2>4. Whole(t).tok = it /\ Whole(t).n = Len(Text)
      BY <2>3
    <2>5. it # "INSTANCE_START"
      BY <2>2 DEF Endable
    <2>6. Counts(Whole(t))
      BY <2>4, Zenon DEF Counts
    <2> QED BY <2>4, <2>5, <2>6
  <1>2. CASE ~(final /\ t.tok \in Unfinished)
    BY <1>2, Zenon DEF Whole
  <1> QED BY <1>1, <1>2, Zenon

\* A step of the prolog refuses or waits, reads on, or stops before a start tag.
LEMMA PrologStep ==
  ASSUME DoProlog, frames = <<>>, at \in Int, fed \in Int
  PROVE  /\ processor = "prolog" /\ running
         /\ UNCHANGED <<input, body>>
         /\ \/ at' = at /\ \E flaw : Return(flaw)
            \/ at' \in Int /\ UNCHANGED <<error, processor>>
            \/ /\ at' = at /\ processor' = "content" /\ UNCHANGED error
               /\ StartsTag(SubSeq(doc.text, at + 1, fed))
  <1>1. Text = SubSeq(doc.text, at + 1, fed)
    BY DEF Text
  <1>2. Len(Text) \in Nat
    BY <1>1, Blocks
  <1>3. PICK k : k = Token("prolog", Text)
    OBVIOUS
  <1>4. Counts(k) /\ (k.tok = "INSTANCE_START" => StartsTag(Text))
    BY <1>2, <1>3, PrologToken
  <1>5. PICK t : /\ t = Whole(k)
                 /\ \/ \E flaw : Refuse(flaw)
                    \/ Means(t)
    BY <1>3 DEF DoProlog
  <1>6. Counts(t) /\ (t.tok = "INSTANCE_START" => StartsTag(Text))
    BY <1>2, <1>4, <1>5, WholeIs
  <1>7. processor = "prolog" /\ running /\ UNCHANGED <<input, body>>
    BY DEF DoProlog
  <1>8. ASSUME NEW flaw, Refuse(flaw) PROVE at' = at /\ Return(flaw)
    BY <1>8 DEF Refuse
  <1>9. ASSUME Read(t) PROVE at' \in Int /\ UNCHANGED <<error, processor>>
    <2>1. t.n \in Int
      BY <1>6 DEF Counts
    <2>2. at' = at + t.n /\ UNCHANGED <<error, processor>>
      BY <1>9 DEF Read, GoOn
    <2> QED BY <2>1, <2>2
  <1>10. ASSUME Means(t)
         PROVE  \/ \E flaw : Refuse(flaw)
                \/ Read(t)
                \/ /\ at' = at /\ processor' = "content" /\ UNCHANGED error
                   /\ t.tok = "INSTANCE_START"
    <2>1. PICK a : /\ a = XmlTokenRole(prolog, t.tok, Keyword(t))
                   /\ \/ ProcessXmlDecl(t, a.role) \/ PublicId(t, a.role) \/ Doctype(t, a.role)
                      \/ InstanceStart(t, a.role) \/ EntityName(t, a.role) \/ EntityDeclared(t, a.role)
                      \/ AttributeName(t, a.role) \/ AttributeDefault(t, a.role)
                      \/ Group(t, a.role, a.state.level) \/ ParamEntityRef(t, a.role)
                      \/ PrologRefuses(t, a.role) \/ Plain(t, a.role)
      BY <1>10 DEF Means
    <2>2. CASE InstanceStart(t, a.role)
      BY <2>1, <2>2, RoleOfStart DEF InstanceStart, GoOn
    <2>3. CASE ProcessXmlDecl(t, a.role) \/ PublicId(t, a.role) \/ Doctype(t, a.role)
      BY <2>3 DEF ProcessXmlDecl, PublicId, Doctype
    <2>4. CASE EntityName(t, a.role) \/ EntityDeclared(t, a.role) \/ AttributeName(t, a.role)
      BY <2>4 DEF EntityName, EntityDeclared, AttributeName
    <2>5. CASE AttributeDefault(t, a.role) \/ Group(t, a.role, a.state.level)
      BY <2>5 DEF AttributeDefault, Group
    <2>6. CASE ParamEntityRef(t, a.role) \/ PrologRefuses(t, a.role) \/ Plain(t, a.role)
      BY <2>6 DEF ParamEntityRef, PrologRefuses, Plain
    <2> QED BY <2>1, <2>2, <2>3, <2>4, <2>5, <2>6
  <1> QED BY <1>1, <1>5, <1>6, <1>7, <1>8, <1>9, <1>10

-----------------------------------------------------------------------------
(* The elements open after some callbacks. *)

Stacks(run, evs, n) ==
  run = [i \in 0 .. n |-> IF i = 0 THEN <<>> ELSE After(run[i - 1], evs[i])]

LEMMA Stackable ==
  ASSUME NEW evs, NEW n \in Nat
  PROVE  \E run : Stacks(run, evs, n)
  <1> DEFINE Bad == {k \in Nat : ~\E run : Stacks(run, evs, k)}
  <1>1. SUFFICES ASSUME Bad # {} PROVE FALSE
    OBVIOUS
  <1>2. Bad \in SUBSET Nat
    OBVIOUS
  <1>3. PICK k \in Bad : \A m \in Bad : ~(m < k)
    <2> HIDE DEF Bad
    <2> QED BY <1>1, <1>2, LeastOf
  <1>4. k \in Nat /\ ~\E run : Stacks(run, evs, k)
    OBVIOUS
  <1>5. k # 0
    <2>1. Stacks([i \in 0 .. 0 |-> <<>>], evs, 0)
      BY DEF Stacks
    <2> QED BY <1>4, <2>1
  <1>6. PICK m \in Nat : k = m + 1
    BY <1>4, <1>5
  <1>7. m \notin Bad
    <2>1. m < k
      BY <1>6
    <2> HIDE DEF Bad
    <2> QED BY <1>3, <2>1
  <1>8. PICK f : Stacks(f, evs, m)
    BY <1>7
  <1> DEFINE g == [i \in 0 .. k |-> IF i = k THEN After(f[m], evs[k]) ELSE f[i]]
  <1>9. \A i \in 0 .. k : g[i] = IF i = k THEN After(f[m], evs[k]) ELSE f[i]
    OBVIOUS
  <1>10. /\ f = [i \in 0 .. m |-> IF i = 0 THEN <<>> ELSE After(f[i - 1], evs[i])]
         /\ \A i \in 0 .. m : f[i] = IF i = 0 THEN <<>> ELSE After(f[i - 1], evs[i])
    <2>1. f = [i \in 0 .. m |-> IF i = 0 THEN <<>> ELSE After(f[i - 1], evs[i])]
      BY <1>8, Zenon DEF Stacks
    <2>2. ASSUME NEW i \in 0 .. m
          PROVE  f[i] = IF i = 0 THEN <<>> ELSE After(f[i - 1], evs[i])
      BY <2>1
    <2> QED BY <2>1, <2>2
  <1>11. ASSUME NEW i \in 0 .. k
         PROVE  g[i] = IF i = 0 THEN <<>> ELSE After(g[i - 1], evs[i])
    <2>1. CASE i = 0
      <3>1. g[i] = f[i]
        BY <1>5, <2>1
      <3>2. i \in 0 .. m
        BY <1>6, <2>1
      <3> HIDE DEF g
      <3> QED BY <1>10, <2>1, <3>1, <3>2
    <2>2. CASE i # 0 /\ i # k
      <3>1. i \in 0 .. m /\ i - 1 \in 0 .. k /\ i - 1 # k
        BY <1>6, <2>2
      <3>2. g[i] = f[i] /\ g[i - 1] = f[i - 1]
        BY <2>2, <3>1
      <3> HIDE DEF g
      <3> QED BY <1>10, <2>2, <3>1, <3>2
    <2>3. CASE i # 0 /\ i = k
      <3>1. i - 1 = m /\ m \in 0 .. k /\ m # k
        BY <1>6, <2>3
      <3>2. g[i] = After(f[m], evs[i]) /\ g[m] = f[m]
        BY <2>3, <3>1
      <3> HIDE DEF g
      <3> QED BY <2>3, <3>1, <3>2
    <2> QED BY <2>1, <2>2, <2>3
  <1>12. g = [i \in 0 .. k |-> IF i = 0 THEN <<>> ELSE After(g[i - 1], evs[i])]
    <2>1. g = [i \in 0 .. k |-> g[i]]
      OBVIOUS
    <2> HIDE DEF g
    <2>2. [i \in 0 .. k |-> g[i]]
            = [i \in 0 .. k |-> IF i = 0 THEN <<>> ELSE After(g[i - 1], evs[i])]
      BY <1>11
    <2> QED BY <2>1, <2>2, Zenon
  <1>13. Stacks(g, evs, k)
    <2> HIDE DEF g
    <2> QED BY <1>12, Zenon DEF Stacks
  <1> QED BY <1>4, <1>13

LEMMA OpenRun ==
  ASSUME NEW evs, Len(evs) \in Nat
  PROVE  \E run : /\ run[0] = <<>>
                  /\ \A i \in 1 .. Len(evs) : run[i] = After(run[i - 1], evs[i])
                  /\ OpenElements(evs) = run[Len(evs)]
  <1> DEFINE Is(run) == run = [i \in 0 .. Len(evs) |->
                                 IF i = 0 THEN <<>> ELSE After(run[i - 1], evs[i])]
             it == CHOOSE run : Is(run)
  <1>1. \E run : Is(run)
    <2>1. PICK n \in Nat : n = Len(evs)
      OBVIOUS
    <2>2. \E run : Stacks(run, evs, n)
      BY Stackable
    <2> QED BY <2>1, <2>2 DEF Stacks
  <1>2. Is(it)
    <2> HIDE DEF Is
    <2> QED BY <1>1, Zenon
  <1>3. OpenElements(evs) = it[Len(evs)]
    BY Zenon DEF OpenElements
  <1> HIDE DEF it
  <1>4. it[0] = <<>>
    BY <1>2
  <1>5. ASSUME NEW i \in 1 .. Len(evs) PROVE it[i] = After(it[i - 1], evs[i])
    <2>1. i \in 0 .. Len(evs) /\ i # 0
      OBVIOUS
    <2> QED BY <1>2, <2>1
  <1> QED BY <1>3, <1>4, <1>5

LEMMA OpenedNone == OpenElements(<<>>) = <<>>
  <1>1. PICK e : e = <<>>
    OBVIOUS
  <1>2. Len(e) = 0
    BY <1>1, AnyEmpty
  <1>3. \E run : run[0] = <<>> /\ OpenElements(e) = run[Len(e)]
    BY <1>2, OpenRun
  <1> QED BY <1>1, <1>2, <1>3

\* Only the kinds and the names of the events matter.
LEMMA OpenedAlike ==
  ASSUME NEW e, IsSeq(e), NEW d, IsSeq(d), Len(e) <= Len(d),
         \A i \in 1 .. Len(e) : e[i].kind = d[i].kind /\ e[i].name = d[i].name,
         NEW run, run[0] = <<>>, \A i \in 1 .. Len(d) : run[i] = After(run[i - 1], d[i])
  PROVE  OpenElements(e) = run[Len(e)]
  <1>1. Len(e) \in Nat /\ Len(d) \in Nat
    BY AnyLen
  <1>2. PICK f : /\ f[0] = <<>> /\ \A i \in 1 .. Len(e) : f[i] = After(f[i - 1], e[i])
                 /\ OpenElements(e) = f[Len(e)]
    BY <1>1, OpenRun
  <1> DEFINE Bad == {i \in Nat : i <= Len(e) /\ f[i] # run[i]}
  <1>3. ASSUME Bad # {} PROVE FALSE
    <2>1. Bad \in SUBSET Nat
      OBVIOUS
    <2>2. PICK k \in Bad : \A m \in Bad : ~(m < k)
      <3> HIDE DEF Bad
      <3> QED BY <1>3, <2>1, LeastOf
    <2>3. k \in Nat /\ k <= Len(e) /\ f[k] # run[k]
      OBVIOUS
    <2>4. k # 0
      BY <1>2, <2>3
    <2>5. PICK j \in Nat : k = j + 1
      BY <2>3, <2>4
    <2>6. j <= Len(e) /\ j < k /\ k \in 1 .. Len(e) /\ k \in 1 .. Len(d) /\ k - 1 = j
      BY <1>1, <2>3, <2>4, <2>5
    <2>7. j \notin Bad
      <3> HIDE DEF Bad
      <3> QED BY <2>2, <2>6
    <2>8. f[j] = run[j]
      BY <2>6, <2>7
    <2>9. f[k] = After(f[j], e[k]) /\ run[k] = After(run[j], d[k])
      BY <1>2, <2>6
    <2>10. e[k].kind = d[k].kind /\ e[k].name = d[k].name
      BY <2>6
    <2>11. After(f[j], e[k]) = After(run[j], d[k])
      <3> HIDE DEF Bad
      <3> QED BY <2>8, <2>10 DEF After
    <2> QED BY <2>3, <2>9, <2>11
  <1>4. f[Len(e)] = run[Len(e)]
    BY <1>1, <1>3
  <1> QED BY <1>2, <1>4

LEMMA OpenedSame ==
  ASSUME NEW e, IsSeq(e), NEW d, IsSeq(d), Len(e) = Len(d),
         \A i \in 1 .. Len(e) : e[i].kind = d[i].kind /\ e[i].name = d[i].name
  PROVE  OpenElements(e) = OpenElements(d)
  <1>1. Len(e) \in Nat /\ Len(d) \in Nat /\ Len(e) <= Len(d)
    BY AnyLen
  <1>2. PICK f : /\ f[0] = <<>> /\ \A i \in 1 .. Len(d) : f[i] = After(f[i - 1], d[i])
                 /\ OpenElements(d) = f[Len(d)]
    BY <1>1, OpenRun
  <1>3. OpenElements(e) = f[Len(e)]
    BY <1>1, <1>2, OpenedAlike
  <1> QED BY <1>2, <1>3

LEMMA OpenedMore ==
  ASSUME NEW e, IsSeq(e), NEW x
  PROVE  OpenElements(Append(e, x)) = After(OpenElements(e), x)
  <1>1. PICK d : d = Append(e, x)
    OBVIOUS
  <1>2. /\ IsSeq(d) /\ Len(e) \in Nat /\ Len(d) = Len(e) + 1
        /\ \A i \in 1 .. Len(e) : d[i] = e[i]
        /\ d[Len(e) + 1] = x
    BY <1>1, AnyAppend
  <1>3. PICK f : /\ f[0] = <<>> /\ \A i \in 1 .. Len(d) : f[i] = After(f[i - 1], d[i])
                 /\ OpenElements(d) = f[Len(d)]
    BY <1>2, OpenRun
  <1>4. OpenElements(e) = f[Len(e)]
    BY <1>2, <1>3, OpenedAlike
  <1>5. Len(d) \in 1 .. Len(d) /\ Len(d) - 1 = Len(e)
    BY <1>2
  <1>6. f[Len(d)] = After(f[Len(d) - 1], d[Len(d)])
    BY <1>3, <1>5
  <1>7. d[Len(d)] = x
    BY <1>2
  <1> QED BY <1>1, <1>3, <1>4, <1>5, <1>6, <1>7

-----------------------------------------------------------------------------
(* The events, and the texts being read. *)

IsEvent(e) == e = [x \in {"kind", "name", "what"} |-> e[x]]
IsFrame(f) == f = [x \in {"of", "text", "level"} |-> f[x]]

\* Callbacks, in their order.
Callbacks(evs) == IsSeq(evs) /\ \A i \in 1 .. Len(evs) : IsEvent(evs[i])

\* Entities being read, each in the one before it.
Entities(fs) ==
  /\ IsSeq(fs)
  /\ \A i \in 1 .. Len(fs) : IsFrame(fs[i]) /\ fs[i].level \in Nat \ {0}
  /\ \A i, j \in 1 .. Len(fs) : i < j => fs[i].of # fs[j].of /\ fs[i].level <= fs[j].level

\* The level of tags the innermost of them began at.
Level(fs) == IF fs = <<>> THEN 0 ELSE Last(fs).level

LEMMA EventsAre ==
  ASSUME NEW k, NEW n, NEW w, NEW e, e = [kind |-> k, name |-> n, what |-> w]
  PROVE  IsEvent(e) /\ e.kind = k /\ e.name = n
  BY DEF IsEvent

LEMMA TextEvents ==
  ASSUME NEW held, NEW e, e.kind = "text"
  PROVE  After(held, e) = held
  BY DEF After

LEMMA MoreCallbacks ==
  ASSUME NEW evs, Callbacks(evs), NEW e, IsEvent(e)
  PROVE  Callbacks(Append(evs, e))
  <1>1. PICK d : d = Append(evs, e)
    OBVIOUS
  <1>2. /\ IsSeq(d) /\ Len(evs) \in Nat /\ Len(d) = Len(evs) + 1
        /\ \A i \in 1 .. Len(evs) : d[i] = evs[i]
        /\ d[Len(evs) + 1] = e
    BY <1>1, AnyAppend DEF Callbacks
  <1>3. ASSUME NEW i \in 1 .. Len(d) PROVE IsEvent(d[i])
    <2>1. CASE i \in 1 .. Len(evs)
      BY <1>2, <2>1 DEF Callbacks
    <2>2. CASE i = Len(evs) + 1
      BY <1>2, <2>2
    <2> QED BY <1>2, <2>1, <2>2
  <1> QED BY <1>1, <1>2, <1>3 DEF Callbacks

\* Character data opens and closes nothing, whether it is an event or more of the last.
LEMMA TextAdded ==
  ASSUME Callbacks(events), NEW text
  PROVE  Callbacks(WithText(text)) /\ OpenElements(WithText(text)) = OpenElements(events)
  <1>1. CASE events # <<>> /\ Last(events).kind = "text"
    <2>1. PICK n : n = Len(events)
      OBVIOUS
    <2>2. n \in 1 .. Len(events) /\ Last(events) = events[n] /\ IsSeq(events)
      <3>1. IsSeq(events) /\ Len(events) \in Nat \ {0} /\ Last(events) = events[Len(events)]
        BY <1>1, AnyFront DEF Callbacks
      <3> QED BY <2>1, <3>1
    <2>3. PICK e : e = [events[n] EXCEPT !.what = @ \o text]
      OBVIOUS
    <2>4. IsEvent(events[n])
      BY <2>2 DEF Callbacks
    <2>5. IsEvent(e) /\ e.kind = events[n].kind /\ e.name = events[n].name
      BY <2>3, <2>4 DEF IsEvent
    <2>6. PICK d : d = [events EXCEPT ![n] = e]
      OBVIOUS
    <2>7. WithText(text) = d
      BY <1>1, <2>1, <2>3, <2>6 DEF WithText
    <2>8. /\ IsSeq(d) /\ Len(d) = Len(events)
          /\ \A i \in 1 .. Len(events) : d[i] = IF i = n THEN e ELSE events[i]
      <3>1. IsSeq(d) /\ Len(d) = Len(events)
        <4>1. IsSeq(d)
          BY <2>2, <2>6, AnyExcept
        <4>2. Len(d) = Len(events)
          BY <2>2, <2>6, AnyExcept
        <4> QED BY <4>1, <4>2
      <3>2. ASSUME NEW i \in 1 .. Len(events) PROVE d[i] = IF i = n THEN e ELSE events[i]
        BY <2>2, <2>6, AnyExcept
      <3> QED BY <3>1, <3>2
    <2>9. Callbacks(d)
      BY <2>5, <2>8 DEF Callbacks
    <2>10. \A i \in 1 .. Len(d) : d[i].kind = events[i].kind /\ d[i].name = events[i].name
      BY <2>5, <2>8
    <2>11. OpenElements(d) = OpenElements(events)
      BY <2>2, <2>8, <2>10, OpenedSame
    <2> QED BY <2>7, <2>9, <2>11
  <1>2. CASE ~(events # <<>> /\ Last(events).kind = "text")
    <2>1. PICK e : e = [kind |-> "text", name |-> <<>>, what |-> text]
      OBVIOUS
    <2>2. IsEvent(e) /\ e.kind = "text"
      BY <2>1, EventsAre
    <2>3. WithText(text) = Append(events, e)
      BY <1>2, <2>1 DEF WithText
    <2>4. Callbacks(Append(events, e))
      BY <2>2, MoreCallbacks
    <2>5. OpenElements(Append(events, e)) = OpenElements(events)
      BY <2>2, OpenedMore, TextEvents DEF Callbacks
    <2> QED BY <2>3, <2>4, <2>5
  <1> QED BY <1>1, <1>2

LEMMA StartAdded ==
  ASSUME NEW evs, Callbacks(evs), NEW name, NEW atts
  PROVE  /\ Callbacks(Append(evs, StartEvent(name, atts)))
         /\ OpenElements(Append(evs, StartEvent(name, atts))) = Append(OpenElements(evs), name)
  <1>1. PICK e : e = StartEvent(name, atts)
    OBVIOUS
  <1>2. IsEvent(e) /\ e.kind = "start" /\ e.name = name
    BY <1>1, EventsAre DEF StartEvent
  <1>3. Callbacks(Append(evs, e))
    BY <1>2, MoreCallbacks
  <1>4. After(OpenElements(evs), e) = Append(OpenElements(evs), name)
    BY <1>2 DEF After
  <1>5. OpenElements(Append(evs, e)) = Append(OpenElements(evs), name)
    BY <1>4, OpenedMore DEF Callbacks
  <1> QED BY <1>1, <1>3, <1>5

LEMMA EndAdded ==
  ASSUME NEW evs, Callbacks(evs), OpenElements(evs) # <<>>, NEW name, name = Last(OpenElements(evs))
  PROVE  /\ Callbacks(Append(evs, EndEvent(name)))
         /\ OpenElements(Append(evs, EndEvent(name))) = Front(OpenElements(evs))
  <1>1. PICK e : e = EndEvent(name)
    OBVIOUS
  <1>2. IsEvent(e) /\ e.kind = "end" /\ e.name = name
    BY <1>1, EventsAre DEF EndEvent
  <1>3. Callbacks(Append(evs, e))
    BY <1>2, MoreCallbacks
  <1>4. After(OpenElements(evs), e) = Front(OpenElements(evs))
    BY <1>2 DEF After
  <1>5. OpenElements(Append(evs, e)) = Front(OpenElements(evs))
    BY <1>4, OpenedMore DEF Callbacks
  <1> QED BY <1>1, <1>3, <1>5

LEMMA EntityRead ==
  ASSUME NEW fs, Entities(fs), fs # <<>>, NEW k,
         NEW q, q = [fs EXCEPT ![Len(fs)].text = From(@, k)]
  PROVE  /\ Entities(q) /\ q # <<>> /\ Len(q) = Len(fs) /\ Level(q) = Level(fs)
         /\ \A i \in 1 .. Len(fs) : q[i].of = fs[i].of
  <1>1. IsSeq(fs) /\ Len(fs) \in Nat \ {0} /\ Last(fs) = fs[Len(fs)]
    BY AnyFront DEF Entities
  <1>2. PICK n : n = Len(fs)
    OBVIOUS
  <1>3. n \in 1 .. Len(fs)
    BY <1>1, <1>2
  <1>4. PICK f : f = [fs[n] EXCEPT !.text = From(@, k)]
    OBVIOUS
  <1>5. IsFrame(fs[n]) /\ fs[n].level \in Nat \ {0}
    BY <1>3 DEF Entities
  <1>6. IsFrame(f) /\ f.of = fs[n].of /\ f.level = fs[n].level
    BY <1>4, <1>5 DEF IsFrame
  <1>7. q = [fs EXCEPT ![n] = f]
    BY <1>2, <1>4
  <1>8. /\ IsSeq(q) /\ Len(q) = Len(fs)
        /\ \A i \in 1 .. Len(fs) : q[i] = IF i = n THEN f ELSE fs[i]
    <2>1. IsSeq(q)
      BY <1>1, <1>3, <1>7, AnyExcept
    <2>2. Len(q) = Len(fs)
      BY <1>1, <1>3, <1>7, AnyExcept
    <2>3. ASSUME NEW i \in 1 .. Len(fs) PROVE q[i] = IF i = n THEN f ELSE fs[i]
      BY <1>1, <1>3, <1>7, AnyExcept
    <2> QED BY <2>1, <2>2, <2>3
  <1>9. \A i \in 1 .. Len(fs) : IsFrame(q[i]) /\ q[i].of = fs[i].of /\ q[i].level = fs[i].level
    BY <1>5, <1>6, <1>8 DEF Entities
  <1>10. Entities(q)
    BY <1>8, <1>9 DEF Entities
  <1>11. q # <<>>
    BY <1>1, <1>8, AnyLen
  <1>12. Last(q) = q[n]
    BY <1>2, <1>8, <1>11, AnyFront
  <1>13. Level(q) = Level(fs)
    BY <1>1, <1>2, <1>3, <1>9, <1>11, <1>12 DEF Level
  <1> QED BY <1>8, <1>9, <1>10, <1>11, <1>13

LEMMA EntityClosed ==
  ASSUME NEW fs, Entities(fs), fs # <<>>
  PROVE  /\ Entities(Front(fs))
         /\ Level(Front(fs)) \in Nat /\ Level(fs) \in Nat \ {0} /\ Level(Front(fs)) <= Level(fs)
  <1>1. /\ IsSeq(Front(fs)) /\ Len(fs) \in Nat \ {0} /\ Len(Front(fs)) = Len(fs) - 1
        /\ \A i \in 1 .. Len(fs) - 1 : Front(fs)[i] = fs[i]
        /\ Last(fs) = fs[Len(fs)]
        /\ Len(fs) > 1 => Front(fs) # <<>> /\ Last(Front(fs)) = fs[Len(fs) - 1]
        /\ Len(fs) = 1 => Front(fs) = <<>>
    BY AnyFront DEF Entities
  <1>2. PICK d : d = Front(fs)
    OBVIOUS
  <1>3. IsSeq(d) /\ Len(d) = Len(fs) - 1 /\ \A i \in 1 .. Len(d) : d[i] = fs[i] /\ i \in 1 .. Len(fs)
    BY <1>1, <1>2
  <1>4. Entities(d)
    BY <1>3 DEF Entities
  <1>5. Level(fs) = fs[Len(fs)].level /\ Level(fs) \in Nat \ {0}
    BY <1>1 DEF Level, Entities
  <1>6. CASE Len(fs) = 1
    BY <1>1, <1>2, <1>4, <1>5, <1>6 DEF Level
  <1>7. CASE Len(fs) > 1
    <2>1. Level(d) = fs[Len(fs) - 1].level
      BY <1>1, <1>2, <1>7 DEF Level
    <2>2. Len(fs) - 1 \in 1 .. Len(fs) /\ Len(fs) \in 1 .. Len(fs) /\ Len(fs) - 1 < Len(fs)
      BY <1>1, <1>7
    <2>3. fs[Len(fs) - 1].level <= fs[Len(fs)].level /\ fs[Len(fs) - 1].level \in Nat
      BY <2>2 DEF Entities
    <2> QED BY <1>2, <1>4, <1>5, <2>1, <2>3
  <1> QED BY <1>1, <1>6, <1>7

LEMMA EntityOpened ==
  ASSUME NEW fs, Entities(fs), NEW name, \A i \in 1 .. Len(fs) : fs[i].of # name,
         NEW text, NEW level \in Nat \ {0}, Level(fs) <= level,
         NEW f, f = [of |-> name, text |-> text, level |-> level]
  PROVE  Entities(Append(fs, f)) /\ Level(Append(fs, f)) = level
  <1>1. IsFrame(f) /\ f.of = name /\ f.level = level
    BY DEF IsFrame
  <1>2. PICK d : d = Append(fs, f)
    OBVIOUS
  <1>3. /\ IsSeq(d) /\ d # <<>> /\ Len(fs) \in Nat /\ Len(d) = Len(fs) + 1
        /\ \A i \in 1 .. Len(fs) : d[i] = fs[i]
        /\ d[Len(fs) + 1] = f /\ Last(d) = f
    BY <1>2, AnyAppend DEF Entities
  <1>4. ASSUME NEW i \in 1 .. Len(fs) PROVE fs[i].level \in Nat \ {0} /\ fs[i].level <= level
    <2>1. fs # <<>>
      BY <1>3, AnyLen DEF Entities
    <2>2. Level(fs) = fs[Len(fs)].level
      BY <2>1, AnyFront DEF Level, Entities
    <2>3. i <= Len(fs) /\ Len(fs) \in 1 .. Len(fs)
      BY <1>3
    <2>4. fs[i].level \in Nat \ {0} /\ fs[Len(fs)].level \in Nat
      BY <2>3 DEF Entities
    <2>5. i < Len(fs) => fs[i].level <= fs[Len(fs)].level
      BY <2>3 DEF Entities
    <2> QED BY <1>3, <2>2, <2>3, <2>4, <2>5
  <1>5. ASSUME NEW i \in 1 .. Len(d) PROVE IsFrame(d[i]) /\ d[i].level \in Nat \ {0}
    <2>1. CASE i \in 1 .. Len(fs)
      BY <1>3, <2>1 DEF Entities
    <2>2. CASE i = Len(fs) + 1
      BY <1>1, <1>3, <2>2
    <2> QED BY <1>3, <2>1, <2>2
  <1>6. ASSUME NEW i \in 1 .. Len(d), NEW j \in 1 .. Len(d), i < j
        PROVE  d[i].of # d[j].of /\ d[i].level <= d[j].level
    <2>1. i \in 1 .. Len(fs) /\ d[i] = fs[i]
      BY <1>3, <1>6
    <2>2. CASE j \in 1 .. Len(fs)
      BY <1>3, <1>6, <2>1, <2>2 DEF Entities
    <2>3. CASE j = Len(fs) + 1
      BY <1>1, <1>3, <1>4, <2>1, <2>3
    <2> QED BY <1>3, <2>2, <2>3
  <1>7. Entities(d)
    BY <1>3, <1>5, <1>6 DEF Entities
  <1> QED BY <1>1, <1>2, <1>3, <1>7 DEF Level

-----------------------------------------------------------------------------
(* The inductive invariant of the reader. *)

EventsInv ==
  /\ Callbacks(events) /\ IsSeq(tags)
  /\ error = "" => OpenElements(events) = tags

EntitiesInv ==
  /\ Entities(frames)
  /\ error = "" => Level(frames) <= Len(tags)

\* Content outside all elements is what the prolog stopped before: the start tag of the
\* document element, which nothing has been read of yet.
PhaseInv ==
  /\ fed \in Int
  /\ error # "" => processor = "error"
  /\ processor = "prolog" => frames = <<>> /\ tags = <<>> /\ at \in Int
  /\ processor = "content" /\ tags = <<>> =>
       frames = <<>> /\ at \in Int /\ StartsTag(SubSeq(doc.text, at + 1, fed))
  /\ processor = "cdata" => tags # <<>>
  /\ processor = "epilog" => tags = <<>> /\ frames = <<>>

ReaderInv == EventsInv /\ EntitiesInv /\ PhaseInv

LEMMA LevelIs ==
  ASSUME Entities(frames)
  PROVE  StartLevel = Level(frames) /\ Level(frames) \in Nat /\ (Level(frames) = 0 <=> frames = <<>>)
  BY EntityClosed DEF StartLevel, Level

\* Where the reader stops, nothing more is claimed unless it is called again.
LEMMA ReturnKeeps ==
  ASSUME ReaderInv, error = "", NEW flaw, Return(flaw), fed' = fed,
         Callbacks(events'), IsSeq(tags'), Entities(frames'),
         flaw = "" => /\ UNCHANGED <<doc, frames, tags>> /\ OpenElements(events') = OpenElements(events)
                      /\ at' = at \/ processor = "epilog"
  PROVE  ReaderInv'
  <1>1. CASE flaw = ""
    <2>1. EventsInv'
      BY <1>1 DEF ReaderInv, EventsInv, Return
    <2>2. EntitiesInv'
      BY <1>1 DEF ReaderInv, EntitiesInv, Return
    <2>3. PhaseInv'
      BY <1>1 DEF ReaderInv, PhaseInv, Return
    <2> QED BY <2>1, <2>2, <2>3 DEF ReaderInv
  <1>2. CASE flaw # ""
    <2>1. error' # "" /\ processor' = "error"
      BY <1>2 DEF Return
    <2>2. EventsInv' /\ EntitiesInv'
      BY <2>1 DEF EventsInv, EntitiesInv
    <2>3. PhaseInv'
      BY <2>1 DEF ReaderInv, PhaseInv
    <2> QED BY <2>2, <2>3 DEF ReaderInv
  <1> QED BY <1>1, <1>2

\* Where it reads on inside an element.
LEMMA ReadKeeps ==
  ASSUME ReaderInv, error = "", error' = error, fed' = fed,
         tags' # <<>>, processor' \in {"content", "cdata"},
         Callbacks(events'), IsSeq(tags'), OpenElements(events') = tags',
         Entities(frames'), Level(frames') <= Len(tags')
  PROVE  ReaderInv'
  <1>1. EventsInv' /\ EntitiesInv'
    BY DEF EventsInv, EntitiesInv
  <1>2. PhaseInv'
    BY DEF ReaderInv, PhaseInv
  <1> QED BY <1>1, <1>2 DEF ReaderInv

LEMMA ConsumeKeeps ==
  ASSUME Entities(frames), NEW n, Consume(n)
  PROVE  Entities(frames') /\ Level(frames') = Level(frames) /\ (frames' = <<>> <=> frames = <<>>)
  <1>1. CASE frames = <<>>
    BY <1>1 DEF Consume
  <1>2. CASE frames # <<>>
    <2>1. frames' = [frames EXCEPT ![Len(frames)].text = From(@, n + 1)]
      BY <1>2 DEF Consume
    <2> QED BY <1>2, <2>1, EntityRead
  <1> QED BY <1>1, <1>2

\* What a step that reads in content or in a section finds.
AtToken(t) ==
  /\ ReaderInv /\ running /\ error = ""
  /\ processor \in {"content", "cdata"}
  /\ UNCHANGED <<input, declared>>
  /\ tags = <<>> => t.tok \in TagTokens \cup {"PARTIAL", "PARTIAL_CHAR", "NONE"}

LEMMA AtTokenIs ==
  ASSUME NEW t, AtToken(t)
  PROVE  /\ ReaderInv /\ error = "" /\ fed' = fed /\ doc' = doc
         /\ Callbacks(events) /\ IsSeq(tags) /\ Entities(frames)
         /\ OpenElements(events) = tags
         /\ Len(tags) \in Nat /\ (tags = <<>> <=> Len(tags) = 0)
         /\ StartLevel = Level(frames) /\ Level(frames) \in Nat /\ Level(frames) <= Len(tags)
         /\ (Level(frames) = 0 <=> frames = <<>>)
         /\ tags = <<>> => frames = <<>>
  <1>1. ReaderInv /\ error = "" /\ fed' = fed /\ doc' = doc
    BY DEF AtToken, input
  <1>2. Callbacks(events) /\ IsSeq(tags) /\ Entities(frames) /\ OpenElements(events) = tags
    BY <1>1 DEF ReaderInv, EventsInv, EntitiesInv
  <1>3. Len(tags) \in Nat /\ (tags = <<>> <=> Len(tags) = 0)
    BY <1>2, AnyLen
  <1>4. StartLevel = Level(frames) /\ Level(frames) \in Nat /\ (Level(frames) = 0 <=> frames = <<>>)
    BY <1>2, LevelIs
  <1>5. Level(frames) <= Len(tags)
    BY <1>1 DEF ReaderInv, EntitiesInv
  <1>6. tags = <<>> => frames = <<>>
    BY <1>3, <1>4, <1>5
  <1> QED BY <1>1, <1>2, <1>3, <1>4, <1>5, <1>6

LEMMA WaitsKeeps ==
  ASSUME NEW t, AtToken(t), ContentWaits(t) \/ ContentRefuses(t)
  PROVE  ReaderInv'
  <1>1. PICK flaw : Return(flaw) /\ UNCHANGED <<at, frames, tags, events>>
    BY DEF ContentWaits, ContentRefuses, body
  <1> QED BY <1>1, AtTokenIs, ReturnKeeps

LEMMA EndsKeeps ==
  ASSUME NEW t, AtToken(t), ContentEnds(t), processor = "content"
  PROVE  ReaderInv'
  <1>1. UNCHANGED tags /\ Callbacks(events') /\ OpenElements(events') = OpenElements(events)
    BY AtTokenIs, TextAdded DEF ContentEnds
  <1>2. CASE \E flaw : flaw # "" /\ Return(flaw) /\ UNCHANGED <<at, frames>>
    BY <1>1, <1>2, AtTokenIs, ReturnKeeps
  <1>3. CASE EndsText
    <2>1. CASE frames # <<>> /\ Len(tags) = StartLevel /\ frames' = Front(frames) /\ GoOn /\ UNCHANGED processor
      <3>1. Entities(frames') /\ Level(frames') \in Nat /\ Level(frames') <= Level(frames)
        BY <2>1, EntityClosed, AtTokenIs
      <3>2. Level(frames') <= Len(tags) /\ tags # <<>>
        BY <2>1, <3>1, AtTokenIs
      <3>3. error' = error /\ processor' \in {"content", "cdata"}
        BY <2>1 DEF GoOn
      <3> QED BY <1>1, <3>1, <3>2, <3>3, AtTokenIs, ReadKeeps
    <2>2. CASE \E flaw : flaw # "" /\ Return(flaw) /\ UNCHANGED <<at, frames>>
      BY <1>2, <2>2
    <2> QED BY <1>3, <2>1, <2>2 DEF EndsText
  <1> QED BY <1>2, <1>3 DEF ContentEnds

LEMMA StartKeeps ==
  ASSUME NEW t, AtToken(t), StartTag(t), processor = "content"
  PROVE  ReaderInv'
  <1>1. PICK name, atts :
          /\ tags' = Append(tags, name)
          /\ \/ /\ events' = Append(events, StartEvent(name, atts))
                /\ Consume(t.n) /\ GoOn /\ UNCHANGED processor
             \/ \E flaw : flaw # "" /\ Return(flaw) /\ UNCHANGED <<at, frames, events>>
    BY DEF StartTag
  <1>2. IsSeq(tags') /\ tags' # <<>> /\ Len(tags') = Len(tags) + 1
    BY <1>1, AtTokenIs, AnyAppend
  <1>3. CASE \E flaw : flaw # "" /\ Return(flaw) /\ UNCHANGED <<at, frames, events>>
    BY <1>2, <1>3, AtTokenIs, ReturnKeeps
  <1>4. CASE /\ events' = Append(events, StartEvent(name, atts))
             /\ Consume(t.n) /\ GoOn /\ UNCHANGED processor
    <2>1. Callbacks(events') /\ OpenElements(events') = Append(OpenElements(events), name)
      BY <1>4, AtTokenIs, StartAdded
    <2>2. OpenElements(events') = tags'
      BY <1>1, <2>1, AtTokenIs
    <2>3. Entities(frames') /\ Level(frames') = Level(frames)
      BY <1>4, AtTokenIs, ConsumeKeeps
    <2>4. Level(frames') <= Len(tags')
      <3>1. Level(frames) <= Len(tags) /\ Len(tags) \in Nat /\ Level(frames) \in Nat
        BY AtTokenIs
      <3> QED BY <1>2, <2>3, <3>1
    <2>5. error' = error /\ processor' \in {"content", "cdata"}
      BY <1>4 DEF GoOn
    <2> QED BY <1>2, <2>1, <2>2, <2>3, <2>4, <2>5, AtTokenIs, ReadKeeps
  <1> QED BY <1>1, <1>3, <1>4

LEMMA NothingOpen == Entities(<<>>) /\ Level(<<>>) <= Len(<<>>)
  <1>1. PICK e : e = <<>>
    OBVIOUS
  <1>2. IsSeq(e) /\ Len(e) = 0
    BY <1>1, AnyEmpty
  <1>3. 1 .. Len(e) = {}
    BY <1>2
  <1>4. Entities(e)
    BY <1>2, <1>3, Zenon DEF Entities
  <1>5. Level(e) = 0
    BY <1>1, Zenon DEF Level
  <1>6. Level(e) <= Len(e)
    BY <1>2, <1>5
  <1> QED BY <1>1, <1>4, <1>6

\* After the document element: nothing is open.
LEMMA EpilogKeeps ==
  ASSUME ReaderInv, error = "", error' = error, fed' = fed, processor' = "epilog",
         Callbacks(events'), OpenElements(events') = <<>>, tags' = <<>>, frames' = <<>>
  PROVE  ReaderInv'
  <1>1. EventsInv'
    BY AnyEmpty DEF EventsInv
  <1>2. EntitiesInv'
    <2>1. Entities(<<>>) /\ Level(<<>>) <= Len(<<>>)
      BY NothingOpen
    <2>2. Entities(frames') /\ Level(frames') <= Len(tags')
      BY <2>1, Zenon
    <2> QED BY <2>2, Zenon DEF EntitiesInv
  <1>3. PhaseInv'
    BY DEF ReaderInv, PhaseInv
  <1> QED BY <1>1, <1>2, <1>3 DEF ReaderInv

LEMMA EmptyKeeps ==
  ASSUME NEW t, AtToken(t), EmptyElement(t), processor = "content"
  PROVE  ReaderInv'
  <1>1. PICK name, atts :
          /\ tags' = tags
          /\ \/ /\ events' = events \o <<StartEvent(name, atts), EndEvent(name)>>
                /\ Consume(t.n) /\ Closed(Len(tags)) /\ GoOn
             \/ \E flaw : flaw # "" /\ Return(flaw) /\ UNCHANGED <<at, frames, events>>
    BY DEF EmptyElement
  <1>2. IsSeq(tags')
    BY <1>1, AtTokenIs
  <1>3. CASE \E flaw : flaw # "" /\ Return(flaw) /\ UNCHANGED <<at, frames, events>>
    BY <1>2, <1>3, AtTokenIs, ReturnKeeps
  <1>4. CASE /\ events' = events \o <<StartEvent(name, atts), EndEvent(name)>>
             /\ Consume(t.n) /\ Closed(Len(tags)) /\ GoOn
    <2>1. PICK e : e = Append(events, StartEvent(name, atts))
      OBVIOUS
    <2>2. Callbacks(e) /\ OpenElements(e) = Append(OpenElements(events), name)
      BY <2>1, AtTokenIs, StartAdded
    <2>3. PICK held : held = OpenElements(e)
      OBVIOUS
    <2>4. held # <<>> /\ name = Last(held) /\ Front(held) = tags
      <3>1. held = Append(tags, name)
        BY <2>2, <2>3, AtTokenIs
      <3> QED BY <3>1, AtTokenIs, AnyAppend
    <2>5. Callbacks(Append(e, EndEvent(name))) /\ OpenElements(Append(e, EndEvent(name))) = tags
      BY <2>2, <2>3, <2>4, EndAdded
    <2>6. events \o <<StartEvent(name, atts), EndEvent(name)>> = Append(e, EndEvent(name))
      <3>1. IsSeq(events)
        BY AtTokenIs DEF Callbacks
      <3>2. events \o <<StartEvent(name, atts), EndEvent(name)>>
              = Append(Append(events, StartEvent(name, atts)), EndEvent(name))
        <4>1. PICK x : x = StartEvent(name, atts)
          OBVIOUS
        <4>2. PICK y : y = EndEvent(name)
          OBVIOUS
        <4>3. PICK evs : evs = events
          OBVIOUS
        <4>4. evs \o <<x, y>> = Append(Append(evs, x), y)
          <5>1. IsSeq(evs)
            BY <3>1, <4>3
          <5> QED BY <5>1, TwoAppended
        <4> QED BY <4>1, <4>2, <4>3, <4>4, Zenon
      <3> QED BY <2>1, <3>2, Zenon
    <2>7. events' = Append(e, EndEvent(name))
      BY <1>4, <2>6, Zenon
    <2>8. Callbacks(events') /\ OpenElements(events') = tags
      BY <2>5, <2>7, Zenon
    <2>9. /\ Entities(frames') /\ Level(frames') = Level(frames)
          /\ frames' = <<>> <=> frames = <<>>
      <3>1. Consume(t.n) /\ Entities(frames)
        BY <1>4, AtTokenIs
      <3> QED BY <3>1, ConsumeKeeps
    <2>10. error' = error /\ Closed(Len(tags))
      BY <1>4 DEF GoOn
    <2>11. CASE tags = <<>>
      <3>1. Len(tags) = 0 /\ frames = <<>>
        BY <2>11, AtTokenIs
      <3>2. processor' = "epilog" /\ frames' = <<>>
        BY <2>9, <2>10, <3>1 DEF Closed
      <3> QED BY <1>1, <2>8, <2>10, <2>11, <3>2, AtTokenIs, EpilogKeeps
    <2>12. CASE tags # <<>>
      <3>1. processor' = "content"
        BY <2>10, <2>12, AtTokenIs DEF Closed
      <3>2. Level(frames') <= Len(tags')
        BY <1>1, <2>9, AtTokenIs
      <3> QED BY <1>1, <1>2, <2>8, <2>9, <2>10, <2>12, <3>1, <3>2, AtTokenIs, ReadKeeps
    <2> QED BY <2>11, <2>12
  <1> QED BY <1>1, <1>3, <1>4

LEMMA EndKeeps ==
  ASSUME NEW t, AtToken(t), EndTag(t), processor = "content"
  PROVE  ReaderInv'
  <1>0. /\ Len(tags) \in Nat /\ (tags = <<>> <=> Len(tags) = 0)
        /\ StartLevel = Level(frames) /\ Level(frames) \in Nat
        /\ Level(frames) = 0 <=> frames = <<>>
    BY AtTokenIs
  <1>1. CASE Return("ASYNC_ENTITY") /\ UNCHANGED <<at, body>>
    BY <1>1, AtTokenIs, ReturnKeeps DEF body
  <1>2. CASE /\ Len(tags) > StartLevel
             /\ tags' = Front(tags)
             /\ Return("TAG_MISMATCH") /\ UNCHANGED <<at, frames, events>>
    <2>1. tags # <<>>
      BY <1>0, <1>2
    <2>2. IsSeq(tags')
      BY <1>2, <2>1, AtTokenIs, AnyFront
    <2> QED BY <1>2, <2>2, AtTokenIs, ReturnKeeps
  <1>3. CASE /\ Len(tags) > StartLevel
             /\ tags' = Front(tags)
             /\ events' = Append(events, EndEvent(Last(tags)))
             /\ Consume(t.n) /\ Closed(Len(tags) - 1) /\ GoOn
    <2>1. tags # <<>>
      BY <1>0, <1>3
    <2>2. IsSeq(tags') /\ Len(tags') = Len(tags) - 1
      BY <1>3, <2>1, AtTokenIs, AnyFront
    <2>3. PICK held : held = OpenElements(events)
      OBVIOUS
    <2>4. held = tags
      BY <2>3, AtTokenIs
    <2>5. Callbacks(events') /\ OpenElements(events') = Front(tags)
      <3>1. PICK name : name = Last(tags)
        OBVIOUS
      <3>2. /\ Callbacks(Append(events, EndEvent(name)))
            /\ OpenElements(Append(events, EndEvent(name))) = Front(OpenElements(events))
        BY <2>1, <3>1, AtTokenIs, EndAdded
      <3> QED BY <1>3, <2>3, <2>4, <3>1, <3>2
    <2>6. OpenElements(events') = tags'
      BY <1>3, <2>5
    <2>7. /\ Entities(frames') /\ Level(frames') = Level(frames)
          /\ frames' = <<>> <=> frames = <<>>
      <3>1. Consume(t.n) /\ Entities(frames)
        BY <1>3, AtTokenIs
      <3> QED BY <3>1, ConsumeKeeps
    <2>8. error' = error /\ Closed(Len(tags) - 1)
      BY <1>3 DEF GoOn
    <2>9. Level(frames') <= Len(tags')
      BY <1>0, <1>3, <2>2, <2>7
    <2>10. tags' = <<>> <=> Len(tags') = 0
      BY <2>2, AnyLen
    <2>11. CASE Len(tags) = 1
      <3>1. processor' = "epilog"
        BY <2>8, <2>11 DEF Closed
      <3>2. tags' = <<>>
        BY <2>2, <2>10, <2>11
      <3>3. frames' = <<>>
        BY <1>0, <1>3, <2>7, <2>11
      <3> QED BY <2>5, <2>6, <2>8, <3>1, <3>2, <3>3, AtTokenIs, EpilogKeeps
    <2>12. CASE Len(tags) # 1
      <3>1. processor' = "content"
        <4>1. Len(tags) - 1 # 0
          BY <1>0, <2>12
        <4> QED BY <2>8, <4>1 DEF Closed
      <3>2. tags' # <<>>
        BY <1>0, <2>1, <2>2, <2>10, <2>12
      <3> QED BY <2>2, <2>5, <2>6, <2>7, <2>8, <2>9, <3>1, <3>2, AtTokenIs, ReadKeeps
    <2> QED BY <2>11, <2>12
  <1> QED BY <1>1, <1>2, <1>3 DEF EndTag

\* A step inside an element that reads on and adds at most text.
LEMMA InsideKeeps ==
  ASSUME NEW t, AtToken(t), t.tok \notin TagTokens \cup {"PARTIAL", "PARTIAL_CHAR", "NONE"},
         NEW n, Consume(n), GoOn, UNCHANGED tags, processor' \in {"content", "cdata"},
         events' = events \/ \E text : events' = WithText(text)
  PROVE  ReaderInv'
  <1>1. tags # <<>>
    BY DEF AtToken
  <1>2. Callbacks(events') /\ OpenElements(events') = tags'
    BY AtTokenIs, TextAdded
  <1>3. Entities(frames') /\ Level(frames') = Level(frames)
    BY AtTokenIs, ConsumeKeeps
  <1>4. tags' # <<>> /\ IsSeq(tags') /\ Level(frames') <= Len(tags')
    BY <1>1, <1>3, AtTokenIs
  <1>5. error' = error
    BY DEF GoOn
  <1> QED BY <1>2, <1>3, <1>4, <1>5, AtTokenIs, ReadKeeps

\* A step that stops with an error and leaves everything else.
LEMMA RefusesKeeps ==
  ASSUME NEW t, AtToken(t), NEW flaw, Return(flaw), UNCHANGED <<at, frames, tags, events>>
  PROVE  ReaderInv'
  BY AtTokenIs, ReturnKeeps

LEMMA ReferenceKeeps ==
  ASSUME NEW t, AtToken(t), CharRef(t) \/ EntityRef(t), processor = "content"
  PROVE  ReaderInv'
  <1>1. UNCHANGED tags /\ t.tok \notin TagTokens \cup {"PARTIAL", "PARTIAL_CHAR", "NONE"}
    BY DEF CharRef, EntityRef, TagTokens
  <1>2. CASE \E flaw : Return(flaw) /\ UNCHANGED <<at, frames, tags, events>>
    BY <1>2, RefusesKeeps
  <1>3. CASE /\ events' = events \/ \E text : events' = WithText(text)
             /\ Consume(t.n) /\ GoOn /\ UNCHANGED processor
    BY <1>1, <1>3, InsideKeeps
  <1>4. CASE \E name : /\ RefusedEntity(name) = "" /\ IsInternal(name) /\ OpenEntity(t, name)
                       /\ GoOn /\ UNCHANGED <<processor, events>>
    <2>1. PICK name : /\ RefusedEntity(name) = "" /\ IsInternal(name) /\ OpenEntity(t, name)
                      /\ GoOn /\ UNCHANGED <<processor, events>>
      BY <1>4
    <2>2. name \in DOMAIN dtd.entities /\ name \notin OpenEntities
      BY <2>1 DEF RefusedEntity, IsInternal
    <2>3. PICK fs : fs = IF frames = <<>> THEN frames
                         ELSE [frames EXCEPT ![Len(frames)].text = From(@, t.n + 1)]
      OBVIOUS
    <2>4. PICK f : f = [of |-> name, text |-> dtd.entities[name].text, level |-> Len(tags)]
      OBVIOUS
    <2>5. frames' = Append(fs, f)
      BY <2>1, <2>3, <2>4 DEF OpenEntity
    <2>6. /\ Entities(fs) /\ Len(fs) = Len(frames) /\ Level(fs) = Level(frames)
          /\ \A i \in 1 .. Len(frames) : fs[i].of = frames[i].of
      <3>1. CASE frames = <<>>
        BY <2>3, <3>1, AtTokenIs
      <3>2. CASE frames # <<>>
        <4>1. PICK k : k = t.n + 1
          OBVIOUS
        <4>2. fs = [frames EXCEPT ![Len(frames)].text = From(@, k)] /\ Entities(frames)
          BY <2>3, <3>2, <4>1, AtTokenIs
        <4>3. Entities(fs) /\ Len(fs) = Len(frames) /\ Level(fs) = Level(frames)
          BY <3>2, <4>2, EntityRead
        <4>4. ASSUME NEW i \in 1 .. Len(frames) PROVE fs[i].of = frames[i].of
          BY <3>2, <4>2, EntityRead
        <4> QED BY <4>3, <4>4
      <3> QED BY <3>1, <3>2
    <2>7. \A i \in 1 .. Len(fs) : fs[i].of # name
      BY <2>2, <2>6 DEF OpenEntities
    <2>8. tags # <<>>
      BY <1>1 DEF AtToken
    <2>9. PICK level : level = Len(tags)
      OBVIOUS
    <2>10. level \in Nat \ {0} /\ Level(fs) <= level
      <3>1. Len(tags) \in Nat /\ (tags = <<>> <=> Len(tags) = 0) /\ Level(frames) <= Len(tags)
        BY AtTokenIs
      <3> QED BY <2>6, <2>8, <2>9, <3>1
    <2>11. Entities(frames') /\ Level(frames') = level
      <3>1. Entities(Append(fs, f)) /\ Level(Append(fs, f)) = level
        <4>1. PICK text : text = dtd.entities[name].text
          OBVIOUS
        <4>2. f = [of |-> name, text |-> text, level |-> level]
          BY <2>4, <2>9, <4>1
        <4> QED BY <2>6, <2>7, <2>10, <4>2, EntityOpened
      <3> QED BY <2>5, <3>1
    <2>12. Level(frames') <= Len(tags')
      BY <1>1, <2>9, <2>10, <2>11
    <2>13. error' = error /\ processor' = "content" /\ events' = events /\ tags' = tags
      BY <1>1, <2>1 DEF GoOn
    <2> QED BY <2>8, <2>11, <2>12, <2>13, AtTokenIs, ReadKeeps
  <1>5. CASE CharRef(t)
    BY <1>2, <1>3, <1>5 DEF CharRef
  <1>6. CASE EntityRef(t)
    BY <1>2, <1>3, <1>4, <1>6 DEF EntityRef
  <1> QED BY <1>5, <1>6

LEMMA DataKeeps ==
  ASSUME NEW t, AtToken(t), Data(t)
  PROVE  ReaderInv'
  <1>1. t.tok \notin TagTokens \cup {"PARTIAL", "PARTIAL_CHAR", "NONE"}
    BY DEF Data, TagTokens
  <1>2. /\ Consume(t.n) /\ GoOn /\ UNCHANGED tags /\ processor' \in {"content", "cdata"}
        /\ \E text : events' = WithText(text)
    BY DEF Data, AtToken
  <1> QED BY <1>1, <1>2, InsideKeeps

LEMMA PassesKeeps ==
  ASSUME NEW t, AtToken(t), Passes(t)
  PROVE  ReaderInv'
  <1>1. t.tok \notin TagTokens \cup {"PARTIAL", "PARTIAL_CHAR", "NONE"}
    BY DEF Passes, TagTokens
  <1>2. /\ Consume(t.n) /\ GoOn /\ UNCHANGED tags /\ processor' \in {"content", "cdata"}
        /\ events' = events
    BY DEF Passes, AtToken
  <1> QED BY <1>1, <1>2, InsideKeeps

LEMMA ContentStep ==
  ASSUME ReaderInv, DoContent
  PROVE  ReaderInv'
  <1>1. running /\ processor = "content" /\ UNCHANGED <<input, declared>>
    BY DEF DoContent
  <1>2. error = ""
    BY <1>1 DEF ReaderInv, PhaseInv
  <1>3. PICK t : /\ t = Token("content", Text)
                 /\ \/ ContentWaits(t) \/ ContentEnds(t) \/ ContentRefuses(t)
                    \/ StartTag(t) \/ EmptyElement(t) \/ EndTag(t)
                    \/ CharRef(t) \/ EntityRef(t) \/ Data(t) \/ Passes(t)
    BY DEF DoContent
  <1>4. ASSUME tags = <<>> PROVE t.tok \in TagTokens \cup {"PARTIAL", "PARTIAL_CHAR", "NONE"}
    <2>1. frames = <<>> /\ at \in Int /\ fed \in Int /\ StartsTag(SubSeq(doc.text, at + 1, fed))
      BY <1>1, <1>4 DEF ReaderInv, PhaseInv
    <2>2. PICK text : text = SubSeq(doc.text, at + 1, fed)
      OBVIOUS
    <2>3. Text = text
      BY <2>1, <2>2 DEF Text
    <2>4. Len(text) \in Nat /\ StartsTag(text)
      BY <2>1, <2>2, Blocks
    <2> QED BY <1>3, <2>3, <2>4, StartTagToken DEF StartsTag
  <1>5. AtToken(t)
    BY <1>1, <1>2, <1>4 DEF AtToken
  <1> QED BY <1>1, <1>3, <1>5, WaitsKeeps, EndsKeeps, StartKeeps, EmptyKeeps, EndKeeps,
             ReferenceKeeps, DataKeeps, PassesKeeps

LEMMA CdataStep ==
  ASSUME ReaderInv, DoCdataSection
  PROVE  ReaderInv'
  <1>1. running /\ processor = "cdata" /\ UNCHANGED <<input, declared>>
    BY DEF DoCdataSection
  <1>2. error = "" /\ tags # <<>>
    BY <1>1 DEF ReaderInv, PhaseInv
  <1>3. PICK t :
          \/ Data(t)
          \/ /\ t.tok = "CDATA_SECT_CLOSE"
             /\ Consume(t.n) /\ processor' = "content" /\ GoOn /\ UNCHANGED <<tags, events>>
          \/ \E flaw : Return(flaw) /\ UNCHANGED <<at, body>>
    BY DEF DoCdataSection
  <1>4. AtToken(t)
    BY <1>1, <1>2 DEF AtToken
  <1>5. CASE Data(t)
    BY <1>4, <1>5, DataKeeps
  <1>6. CASE /\ t.tok = "CDATA_SECT_CLOSE"
             /\ Consume(t.n) /\ processor' = "content" /\ GoOn /\ UNCHANGED <<tags, events>>
    BY <1>4, <1>6, InsideKeeps DEF TagTokens
  <1>7. CASE \E flaw : Return(flaw) /\ UNCHANGED <<at, body>>
    BY <1>4, <1>7, RefusesKeeps DEF body
  <1> QED BY <1>3, <1>5, <1>6, <1>7

LEMMA EpilogStep ==
  ASSUME ReaderInv, EpilogProcessor
  PROVE  ReaderInv'
  <1>1. processor = "epilog" /\ UNCHANGED <<input, body>>
    BY DEF EpilogProcessor
  <1>2. error = "" /\ tags = <<>> /\ frames = <<>>
    BY <1>1 DEF ReaderInv, PhaseInv
  <1>3. Callbacks(events) /\ IsSeq(tags) /\ Entities(frames) /\ OpenElements(events) = tags
    BY <1>2 DEF ReaderInv, EventsInv, EntitiesInv
  <1>4. CASE \E flaw : Return(flaw)
    BY <1>1, <1>2, <1>3, <1>4, ReturnKeeps DEF input, body
  <1>5. CASE GoOn /\ UNCHANGED processor
    BY <1>1, <1>2, <1>3, <1>5, EpilogKeeps DEF GoOn, input, body
  <1> QED BY <1>4, <1>5 DEF EpilogProcessor

LEMMA PrologKeeps ==
  ASSUME ReaderInv, DoProlog
  PROVE  ReaderInv'
  <1>1. processor = "prolog"
    BY DEF DoProlog
  <1>2. error = "" /\ tags = <<>> /\ frames = <<>> /\ at \in Int /\ fed \in Int
    BY <1>1 DEF ReaderInv, PhaseInv
  <1>3. /\ UNCHANGED <<input, body>>
        /\ \/ at' = at /\ \E flaw : Return(flaw)
           \/ at' \in Int /\ UNCHANGED <<error, processor>>
           \/ /\ at' = at /\ processor' = "content" /\ UNCHANGED error
              /\ StartsTag(SubSeq(doc.text, at + 1, fed))
    BY <1>2, PrologStep
  <1>4. UNCHANGED <<doc, fed, frames, tags, events>>
    BY <1>3 DEF input, body
  <1>5. Callbacks(events) /\ IsSeq(tags) /\ Entities(frames)
    BY DEF ReaderInv, EventsInv, EntitiesInv
  <1>6. CASE at' = at /\ \E flaw : Return(flaw)
    BY <1>2, <1>4, <1>5, <1>6, ReturnKeeps
  <1>7. CASE at' \in Int /\ UNCHANGED <<error, processor>>
    <2>1. EventsInv' /\ EntitiesInv'
      BY <1>4, <1>7 DEF ReaderInv, EventsInv, EntitiesInv
    <2>2. PhaseInv'
      BY <1>1, <1>2, <1>4, <1>7 DEF PhaseInv
    <2> QED BY <2>1, <2>2 DEF ReaderInv
  <1>8. CASE /\ at' = at /\ processor' = "content" /\ UNCHANGED error
             /\ StartsTag(SubSeq(doc.text, at + 1, fed))
    <2>1. EventsInv' /\ EntitiesInv'
      BY <1>4, <1>8 DEF ReaderInv, EventsInv, EntitiesInv
    <2>2. PhaseInv'
      BY <1>1, <1>2, <1>4, <1>8 DEF PhaseInv
    <2> QED BY <2>1, <2>2 DEF ReaderInv
  <1> QED BY <1>3, <1>6, <1>7, <1>8

LEMMA ParseKeeps ==
  ASSUME ReaderInv, Parse
  PROVE  ReaderInv'
  <1>1. /\ fed' \in fed + 1 .. Len(doc.text)
        /\ UNCHANGED <<doc, processor, error, at, frames, tags, events>>
    BY DEF Parse, body
  <1>2. fed \in Int
    BY DEF ReaderInv, PhaseInv
  <1>3. fed' \in Int /\ fed <= fed'
    BY <1>1, <1>2
  <1>4. ASSUME at \in Int, StartsTag(SubSeq(doc.text, at + 1, fed))
        PROVE  StartsTag(SubSeq(doc.text, at + 1, fed'))
    <2>1. fed - at >= 2 /\ doc.text[at + 1] = "<" /\ doc.text[at + 2] \in NameStart
      BY <1>2, <1>4, Blocks
    <2>2. fed' - at >= 2
      BY <1>2, <1>3, <1>4, <2>1
    <2> QED BY <1>3, <1>4, <2>1, <2>2, Blocks
  <1>5. EventsInv' /\ EntitiesInv'
    BY <1>1 DEF ReaderInv, EventsInv, EntitiesInv
  <1>6. PhaseInv'
    BY <1>1, <1>3, <1>4 DEF ReaderInv, PhaseInv
  <1> QED BY <1>5, <1>6 DEF ReaderInv

LEMMA ReaderStep ==
  ASSUME ReaderInv, [XmlNext]_xmlVars
  PROVE  ReaderInv'
  <1>1. ASSUME UNCHANGED <<doc, fed, processor, error, at, frames, tags, events>> PROVE ReaderInv'
    BY <1>1 DEF ReaderInv, EventsInv, EntitiesInv, PhaseInv
  <1>2. CASE Finish \/ Stopped \/ UNCHANGED xmlVars
    BY <1>1, <1>2 DEF Finish, Stopped, xmlVars, body
  <1> QED BY <1>2, ParseKeeps, ContentStep, CdataStep, EpilogStep, PrologKeeps DEF XmlNext

LEMMA ReaderStarts ==
  ASSUME XmlInit
  PROVE  ReaderInv
  <1>1. EventsInv
    <2>1. PICK e : e = <<>>
      OBVIOUS
    <2>2. IsSeq(e) /\ 1 .. Len(e) = {}
      BY <2>1, AnyEmpty
    <2>3. Callbacks(e)
      BY <2>2, Zenon DEF Callbacks
    <2> QED BY <2>1, <2>2, <2>3, OpenedNone DEF XmlInit, EventsInv
  <1>2. EntitiesInv
    <2>1. frames = <<>> /\ tags = <<>>
      BY DEF XmlInit
    <2>2. Entities(frames) /\ Level(frames) <= Len(tags)
      BY <2>1, NothingOpen, Zenon
    <2> QED BY <2>2 DEF EntitiesInv
  <1>3. PhaseInv
    <2>1. fed \in Int /\ at \in Int
      <3>1. fed = 0 /\ at = 0
        BY Zenon DEF XmlInit
      <3> QED BY <3>1
    <2>2. processor = "prolog" /\ error = "" /\ frames = <<>> /\ tags = <<>>
      BY DEF XmlInit
    <2> QED BY <2>1, <2>2 DEF PhaseInv
  <1> QED BY <1>1, <1>2, <1>3 DEF ReaderInv

LEMMA ReaderNests ==
  ASSUME ReaderInv
  PROVE  Nested
  <1>1. Entities(frames) /\ StartLevel = Level(frames)
    BY LevelIs DEF ReaderInv, EntitiesInv
  <1>2. error = "" => OpenElements(events) = tags
    BY DEF ReaderInv, EventsInv
  <1>3. \A i, j \in 1 .. Len(frames) :
          i < j => frames[i].of # frames[j].of /\ frames[i].level <= frames[j].level
    BY <1>1 DEF Entities
  <1>4. error = "" => StartLevel <= Len(tags)
    BY <1>1 DEF ReaderInv, EntitiesInv
  <1>5. processor = "epilog" => tags = <<>> /\ frames = <<>>
    BY DEF ReaderInv, PhaseInv
  <1> QED BY <1>2, <1>3, <1>4, <1>5 DEF Nested

\* The callbacks are those of nested elements, the stack of tags is what they leave open,
\* and no entity is open inside itself, for every document: its text may be any sequence,
\* well formed or not, and may arrive in any blocks (doContent, tagStack, entity->open).
THEOREM CallbacksNest == XmlSpec => []Nested
  <1>1. XmlInit => ReaderInv
    BY ReaderStarts
  <1>2. ReaderInv /\ [XmlNext]_xmlVars => ReaderInv'
    BY ReaderStep
  <1>3. ReaderInv => Nested
    BY ReaderNests
  <1> QED BY <1>1, <1>2, <1>3, PTL DEF XmlSpec

================================================================================
