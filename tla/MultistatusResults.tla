--------------------------- MODULE MultistatusResults ---------------------------
(***************************************************************************)
(* The search and history commands once their request is written           *)
(* (run_search and display_results of src/src/search.c, do_report and      *)
(* execute_history of src/src/version.c): the answer is read as a stream   *)
(* of XML events that build a list of results, and the list is shown.      *)
(*                                                                         *)
(* The server may send any nesting of elements that Children allows, with  *)
(* text between any two tags, and the answer may stop anywhere.            *)
(***************************************************************************)
EXTENDS Naturals, SequencesExt

CONSTANTS Children,    \* which elements the server puts in which
          PerPage,     \* RESULT_PER_PAGE
          Ahead,       \* rows the heading of a page announces after its first
          MaxElements, \* bound: elements in an answer
          MaxDepth     \* bound: elements open at once

Elements == {"multistatus", "response", "href", "propstat", "prop", "status",
             "live", "ignore", "other"}

ASSUME ResultsAssumption ==
  /\ Children \in [Elements -> SUBSET Elements]
  /\ {PerPage, Ahead, MaxElements, MaxDepth} \subseteq Nat /\ PerPage > 1

VARIABLES pc,        \* "request", "body", "checked", "rows", "more" or "done"
          handler,   \* whose callbacks read the answer: "search" or "history"
          searchall, \* get_bool_option(opt_searchall)
          code,      \* status code of the answer, 0 without an answer
          open,      \* neon: the elements open and not pruned, outermost first
          prune,     \* neon: open elements a callback declined, and theirs
          broken,    \* the parse failed, or the answer broke off
          root,      \* the list of results, last first
          curr,      \* the result being read, or None
          num,       \* result_num
          startProp, \* start_prop
          err,       \* err_code # NE_OK
          cdata,     \* the text since the last start tag
          crashed,   \* a NULL pointer was written through
          sent,      \* elements the server has sent
          said,      \* "nothing", "failed", "results" or "end"
          row,       \* i: rows shown
          heading    \* the range of rows the last heading announced

context == <<root, curr, num, startProp, err, cdata, crashed>>
parser == <<open, prune, broken>>
display == <<said, row, heading>>

vars == <<pc, handler, searchall, code, parser, context, sent, display>>

\* A piece of text: the element it is in and the response around it (0 when
\* there is none).
Piece == [in : Elements, resp : 0 .. MaxElements]

None == [id |-> 0, href |-> <<>>, live |-> <<>>, dead |-> <<>>, named |-> "none",
         hasHref |-> FALSE]
\* A dead property that is linked: the name given to it and its text.
DeadProp == [name : Elements, text : Seq(Piece)]
Result == [id : 0 .. MaxElements, href : Seq(Piece), hasHref : BOOLEAN,
           live : Seq(Piece), dead : Seq(DeadProp),
           named : Elements \cup {"none"}]

TypeOK ==
  /\ pc \in {"request", "body", "checked", "rows", "more", "done"}
  /\ handler \in {"search", "history"} /\ searchall \in BOOLEAN
  /\ code \in {0, 200, 207, 404}
  /\ open \in Seq([elem : Elements, resp : 0 .. MaxElements])
  /\ {prune, num, sent} \subseteq 0 .. MaxElements
  /\ {broken, startProp, err, crashed} \subseteq BOOLEAN
  /\ root \in Seq(Result) /\ curr \in Result
  /\ cdata \in Seq(Piece)
  /\ said \in {"nothing", "failed", "results", "end"}
  /\ row \in 0 .. Len(root)
  /\ heading \in Seq(Nat) /\ Len(heading) = 2

Init ==
  /\ pc = "request" /\ handler \in {"search", "history"} /\ searchall \in BOOLEAN
  /\ (handler = "history" => ~searchall)  \* the option is for searches only
  /\ code = 0 /\ open = <<>> /\ prune = 0 /\ broken = FALSE
  /\ root = <<>> /\ curr = None /\ num = 0 /\ startProp = FALSE /\ err = FALSE
  /\ cdata = <<>> /\ crashed = FALSE
  /\ sent = 0 /\ said = "nothing" /\ row = 0 /\ heading = <<0, 0>>

-----------------------------------------------------------------------------
(* The answer *)

\* Which bodies the readers accept: ne_accept_207 and ne_accept_2xx.
Accepts(c) == c = 207 \/ (c = 200 /\ handler = "history")

\* The request is dispatched; code 0 when no answer comes (no connection,
\* time out).
Dispatch(c) ==
  /\ pc = "request"
  /\ code' = c
  /\ pc' = IF Accepts(c) THEN "body" ELSE "checked"
  /\ UNCHANGED <<handler, searchall, parser, context, sent, display>>

Parent == IF open = <<>> THEN "none" ELSE Last(open).elem

\* The response an element of the current element is in: a response is
\* numbered by its place in the answer.
RespOf(e) == IF e = "response" THEN sent + 1
             ELSE IF open = <<>> THEN 0 ELSE Last(open).resp

\* Mutant: unknown elements are accepted.
MappedAll(e) == e = e

\* ne_xml_mapid: the elements the callbacks know.
Mapped(e) == e # "other" /\ (handler = "search" \/ e # "ignore")

\* Reading goes on: nothing broke so far.
Reading == pc = "body" /\ ~broken /\ ~crashed

\* Elements the server may send next: one root, then what Children allows.
Sendable(e) ==
  /\ sent < MaxElements
  /\ IF open = <<>> THEN sent = 0 /\ e \in {"multistatus", "response"}
                    ELSE Len(open) + prune < MaxDepth

\* Mutant: the text collected so far is kept.
StartCallbackKeepsText(e) ==
  /\ cdata' = cdata
  /\ num' = IF e = "response" THEN num + 1 ELSE num
  /\ err' = (e = "prop" /\ curr = None)
  /\ startProp' = (startProp \/ (e = "prop" /\ curr # None))
  /\ curr' = CASE e = "response" -> [None EXCEPT !.id = sent + 1]
               [] /\ handler = "search" /\ searchall /\ startProp /\ curr # None
                  /\ e \in {"multistatus", "status", "live", "other"}
                  -> [curr EXCEPT !.named = e]
               [] OTHER -> curr
  /\ UNCHANGED <<root, crashed>>

\* start_element, before an error.
StartCallback(e) ==
  /\ cdata' = <<>>
  /\ num' = IF e = "response" THEN num + 1 ELSE num
  /\ err' = (e = "prop" /\ curr = None)
  /\ startProp' = (startProp \/ (e = "prop" /\ curr # None))
  /\ curr' = CASE e = "response" -> [None EXCEPT !.id = sent + 1]
               [] /\ handler = "search" /\ searchall /\ startProp /\ curr # None
                  /\ e \in {"multistatus", "status", "live", "other"}
                  -> [curr EXCEPT !.named = e]
               [] OTHER -> curr
  /\ UNCHANGED <<root, crashed>>

\* After an error the callback accepts every element and does nothing.
StartElement(e) ==
  /\ Reading /\ prune = 0 /\ Sendable(e)
  /\ open # <<>> => e \in Children[Parent]
  /\ sent' = sent + 1
  /\ IF err
     THEN /\ open' = Append(open, [elem |-> "multistatus", resp |-> RespOf(e)])
          /\ UNCHANGED <<prune, context>>
     ELSE /\ IF Mapped(e)
             THEN open' = Append(open, [elem |-> e, resp |-> RespOf(e)]) /\ prune' = prune
             ELSE open' = open /\ prune' = 1
          /\ StartCallback(e)
  /\ UNCHANGED <<pc, handler, searchall, code, broken, display>>

\* neon passes nothing on inside an element that was declined.
PrunedElement(e) ==
  /\ Reading /\ prune > 0 /\ Sendable(e)
  /\ sent' = sent + 1 /\ prune' = prune + 1
  /\ UNCHANGED <<pc, handler, searchall, code, open, broken, context, display>>

EndPruned ==
  /\ Reading /\ prune > 0
  /\ prune' = prune - 1
  /\ UNCHANGED <<pc, handler, searchall, code, open, broken, context, sent, display>>

\* cdata_search and cdata_report, one piece for the text between two tags.
CharacterData ==
  /\ Reading /\ prune = 0 /\ open # <<>> /\ ~err
  /\ LET piece == [in |-> Parent, resp |-> Last(open).resp]
     IN /\ Parent \in {"response", "href", "live", "status"}
        /\ (cdata # <<>> => Last(cdata) # piece)
        /\ cdata' = Append(cdata, piece)
  /\ UNCHANGED <<pc, handler, searchall, code, parser, root, curr, num, startProp,
                 err, crashed, sent, display>>

\* Mutant: a response that is gone is no error.
EndResponseForgives ==
  /\ err' = (curr # None /\ ~curr.hasHref)
  /\ root' = IF err' \/ curr = None THEN root ELSE <<curr>> \o root
  /\ curr' = IF err' THEN curr ELSE None
  /\ UNCHANGED <<num, startProp, crashed>>

\* Mutant: curr stays after the result is linked.
EndResponseKeepsCurr ==
  /\ err' = (curr = None \/ ~curr.hasHref)
  /\ root' = IF err' THEN root ELSE <<curr>> \o root
  /\ UNCHANGED <<curr, num, startProp, crashed>>

\* </response> without a result, or without its href, is an error.
EndResponse ==
  /\ err' = (curr = None \/ ~curr.hasHref)
  /\ root' = IF err' THEN root ELSE <<curr>> \o root
  /\ curr' = IF err' THEN curr ELSE None
  /\ UNCHANGED <<num, startProp, crashed>>

\* SEARCH_CP_ELEM and REPORT_CP_ELEM.
EndCopied(e) ==
  /\ err' = (curr = None)
  /\ curr' = IF curr = None THEN curr
             ELSE IF e = "href" THEN [curr EXCEPT !.href = cdata, !.hasHref = TRUE]
             ELSE [curr EXCEPT !.live = cdata]
  /\ UNCHANGED <<root, num, startProp, crashed>>

EndProp ==
  /\ err' = (curr = None)
  /\ startProp' = (startProp /\ curr = None)
  /\ UNCHANGED <<root, curr, num, crashed>>

\* The default case of the search: the dead property start_element created is
\* filled in and linked, whether or not there is one.
EndOther ==
  /\ IF handler = "search" /\ searchall /\ startProp /\ curr # None
     THEN /\ crashed' = (curr.named = "none")
          /\ curr' = IF curr.named = "none" THEN curr
                     ELSE [curr EXCEPT
                             !.dead = <<[name |-> curr.named, text |-> cdata]>> \o @,
                             !.named = "none"]
     ELSE UNCHANGED <<crashed, curr>>
  /\ UNCHANGED <<root, num, startProp, err>>

\* end_element: after an error it stops the parse.
EndElement ==
  /\ Reading /\ prune = 0 /\ open # <<>>
  /\ LET e == Parent
     IN IF err
        THEN broken' = TRUE /\ UNCHANGED <<open, context>>
        ELSE /\ open' = Front(open) /\ broken' = broken
             /\ \/ e = "response" /\ EndResponse
                \/ e \in {"href", "live"} /\ EndCopied(e)
                \/ e = "prop" /\ EndProp
                \/ e \in {"multistatus", "status", "other"} /\ EndOther
                \/ /\ e \in {"propstat", "ignore"}
                   /\ UNCHANGED <<root, curr, num, startProp, err, crashed>>
             /\ cdata' = cdata
  /\ UNCHANGED <<pc, handler, searchall, code, prune, sent, display>>

\* The connection closes, the answer is not well-formed, or it is cut short.
Breaks ==
  /\ Reading
  /\ broken' = TRUE
  /\ UNCHANGED <<pc, handler, searchall, code, open, prune, context, sent, display>>

EndOfBody ==
  /\ pc = "body" /\ ~crashed
  /\ broken \/ (open = <<>> /\ prune = 0 /\ sent > 0)
  /\ pc' = "checked"
  /\ UNCHANGED <<handler, searchall, code, parser, context, sent, display>>

-----------------------------------------------------------------------------
(* What the user is told *)

\* ne_request_dispatch: an answer with an error code is a success to it.
Dispatched == code # 0 /\ ~broken

\* run_search returns NE_OK.
SearchOK == Dispatched /\ ~err /\ code = 207

\* Mutant: the status code of the answer is not looked at.
ReportOKAnyStatus == Dispatched

\* do_report returns NE_OK: the code of an answer that is not 2xx replaces the
\* result of the dispatch, and without an answer that code is 0, NE_OK.
ReportOK == IF code \in {200, 207} THEN Dispatched ELSE code = 0

\* display_results and display_report_results show nothing after an error.
Show ==
  /\ pc = "checked"
  /\ IF handler = "search"
     THEN /\ pc' = IF SearchOK THEN "rows" ELSE "done"
          /\ said' = IF SearchOK THEN "results" ELSE "failed"
          /\ UNCHANGED <<row, heading>>
     ELSE /\ pc' = "done"
          /\ said' = IF ReportOK THEN IF err THEN "nothing" ELSE "results" ELSE "failed"
          /\ row' = IF ReportOK /\ ~err THEN Len(root) ELSE 0
          /\ heading' = IF ReportOK /\ ~err THEN <<1, num>> ELSE heading
  /\ UNCHANGED <<handler, searchall, code, parser, context, sent>>

Smaller(m, n) == IF m < n THEN m ELSE n

\* Mutant: one row too many.
ShowRowPastEnd ==
  /\ pc = "rows" /\ row <= Len(root)
  /\ row' = row + 1 /\ pc' = "rows"
  /\ UNCHANGED <<handler, searchall, code, parser, context, sent, said, heading>>

\* Mutant: the heading comes at the last row of a page.
ShowRowLateHeading ==
  /\ pc = "rows" /\ row < Len(root)
  /\ row' = row + 1
  /\ heading' = IF row' % PerPage = 0 THEN <<row', Smaller(num, row' + Ahead)>>
                                      ELSE heading
  /\ pc' = IF row' % PerPage = 0 THEN "more" ELSE "rows"
  /\ UNCHANGED <<handler, searchall, code, parser, context, sent, said>>

\* One row of display_results, with the heading of a new page before it.
ShowRow ==
  /\ pc = "rows" /\ row < Len(root)
  /\ row' = row + 1
  /\ heading' = IF row' % PerPage = 1 THEN <<row', Smaller(num, row' + Ahead)>>
                                      ELSE heading
  /\ pc' = IF row' % PerPage = 0 THEN "more" ELSE "rows"
  /\ UNCHANGED <<handler, searchall, code, parser, context, sent, said>>

\* "-- Enter to More, 'q' to QUIT --"
More(ch) ==
  /\ pc = "more"
  /\ pc' = IF ch = "q" THEN "done" ELSE "rows"
  /\ UNCHANGED <<handler, searchall, code, parser, context, sent, display>>

EndOfRows ==
  /\ pc = "rows" /\ row = Len(root)
  /\ pc' = "done" /\ said' = "end"
  /\ UNCHANGED <<handler, searchall, code, parser, context, sent, row, heading>>

Next ==
  \/ \E c \in {0, 200, 207, 404} : Dispatch(c)
  \/ \E e \in Elements : StartElement(e)
  \/ \E e \in Elements : PrunedElement(e)
  \/ EndPruned \/ CharacterData \/ EndElement \/ Breaks \/ EndOfBody
  \/ Show \/ ShowRow \/ EndOfRows
  \/ \E ch \in {"q", "enter"} : More(ch)

Spec == Init /\ [][Next]_vars

-----------------------------------------------------------------------------
(* Properties *)

\* The number the heading and the history announce is the number of results in
\* the list, whatever nesting of responses the server sent: a response that
\* was lost on the way has made the whole answer an error.
CountMatches == said \in {"results", "end"} => num = Len(root)

\* The name, the properties and the dead properties of a result are made of
\* text inside its own response, never of what came before it or of another's.
OwnText ==
  \A i \in 1 .. Len(root) :
    LET r == root[i]
        texts == {r.href, r.live} \cup {r.dead[d].text : d \in 1 .. Len(r.dead)}
    IN \A t \in texts : \A k \in 1 .. Len(t) : t[k].resp = r.id

\* Results come out last response first, each once.
LastFirst ==
  \A i, j \in 1 .. Len(root) : i < j => root[i].id > root[j].id

\* Results are shown only of a complete answer without errors, but for a
\* history of 0 versions when no answer came at all.
ShownWhenAnswered ==
  said \in {"results", "end"} =>
    \/ code \in {200, 207} /\ ~broken /\ ~err /\ open = <<>>
    \/ handler = "history" /\ code = 0 /\ root = <<>>

\* The callbacks never fill in a dead property they did not create.
NoNullUse == ~crashed

\* The list holds what was announced, each result with what was said of it, the
\* last one first.
Listed == CountMatches /\ OwnText /\ LastFirst

\* The callbacks keep the parser's types and never use what is not there, and
\* the list they leave is sound.
WellFormed == TypeOK /\ NoNullUse /\ Listed

\* Pages of search results: the last heading is that of the current row's page, the
\* heading announces no row that is not there, and the user who never quits is
\* shown every result.
Paging ==
  /\ handler = "search" /\ row > 0 =>
       /\ heading[1] = PerPage * ((row - 1) \div PerPage) + 1
       /\ heading[2] <= Len(root)
  /\ said = "end" => row = Len(root)
=============================================================================
