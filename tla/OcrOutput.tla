----------------------------- MODULE OcrOutput -----------------------------
(***************************************************************************)
(* The structure parse_ocr_result finds in generated text, and the views   *)
(* the page of a job makes of it.                                          *)
(*                                                                         *)
(* Text is a sequence of tokens, all strings: the markers and tags below,  *)
(* the coordinates of a box, entities, and words (any other string).       *)
(* Whitespace carries nothing and is left out.                             *)
(***************************************************************************)
EXTENDS Naturals, Sequences, SequencesExt

Det == "<|det|>"
DetEnd == "<|/det|>"

Boxes    == {"[1, 2, 3, 4]", "[5, 6, 7, 8]"}
BadBoxes == {"[1, 2]", "[a, b, c, d]"}

(* Every form of a tag the inputs use. *)
OpenForms  == [table |-> {"<table>", "<table border=1>"}, tr |-> {"<tr>"},
               td |-> {"<td>", "<td rowspan=2>", "<td rowspan=0>"}, th |-> {"<th>"}]
CloseForm  == [table |-> "</table>", tr |-> "</tr>", td |-> "</td>", th |-> "</th>"]
LineBreaks == {"<br>", "<br/>"}
Tags       == (UNION {OpenForms[t] : t \in DOMAIN OpenForms})
              \cup {CloseForm[t] : t \in DOMAIN CloseForm}
              \cup LineBreaks \cup {DetEnd, "<thead>", "</thead>", "<b>", "</b>"}

Decoded == [t \in {"&amp;", "&lt;", "&gt;", "&#65;"} |->
                CASE t = "&amp;" -> "&" [] t = "&lt;" -> "<" [] t = "&gt;" -> ">" [] OTHER -> "A"]
Entities == DOMAIN Decoded \cup {"&unknown;"}

None == 0

(* The first position of s from i on whose token is in S. *)
FirstIn(s, S, i) ==
    LET at == {k \in i..Len(s) : s[k] \in S}
    IN  IF at = {} THEN None ELSE CHOOSE k \in at : \A l \in at : k <= l

From(s, i) == SubSeq(s, i, Len(s))

-----------------------------------------------------------------------------
(***************************************************************************)
(* Detections                                                              *)
(***************************************************************************)
(* Coordinates that are not four integers make the header malformed, and   *)
(* so does a missing label; what follows the last box is ignored.          *)
DetectionHeader(header) ==
    LET at == {k \in DOMAIN header : header[k] \in Boxes \cup BadBoxes}
        last == CHOOSE k \in at : \A l \in at : l <= k
    IN  IF at = {} \/ last = 1 \/ header[last] \in BadBoxes
        THEN {}
        ELSE {[label |-> SubSeq(header, 1, last - 1), bbox |-> header[last]]}

Detections(s) ==
    LET from[i \in 1..(Len(s) + 1)] ==
          LET start == FirstIn(s, {Det}, i)
              end   == FirstIn(s, {DetEnd}, start + 1)
              next  == FirstIn(s, {Det}, end + 1)
              upTo  == IF next = None THEN Len(s) ELSE next - 1
              head  == DetectionHeader(SubSeq(s, start + 1, end - 1))
          IN  IF start = None \/ end = None THEN <<>>
              ELSE IF head = {} THEN from[end + 1]
              ELSE LET h == CHOOSE x \in head : TRUE
                   IN  <<[label |-> h.label, bbox |-> h.bbox, text |-> SubSeq(s, end + 1, upTo)]>>
                       \o from[upTo + 1]
    IN  from[1]

-----------------------------------------------------------------------------
(***************************************************************************)
(* The text of a cell: tags are stripped, then entities decoded            *)
(***************************************************************************)
(* A bare "<" opens a tag as well, which ends where the next one does. *)
StripTags(s) ==
    LET from[i \in 1..(Len(s) + 1)] ==
          LET start == FirstIn(s, Tags \cup {"<"}, i)
              end   == IF s[start] = "<" THEN FirstIn(s, Tags \cup {">"}, start + 1) ELSE start
          IN  IF start = None \/ end = None THEN From(s, i)
              ELSE SubSeq(s, i, start - 1)
                   \o (IF s[start] \in LineBreaks THEN <<"newline">> ELSE <<>>)
                   \o from[end + 1]
    IN  from[1]

(* A bare "&" takes everything up to the next ";" for an unknown entity. *)
DecodeEntities(s) ==
    LET from[i \in 1..(Len(s) + 1)] ==
          LET start == FirstIn(s, Entities \cup {"&"}, i)
              end   == IF s[start] = "&" THEN FirstIn(s, Entities, start + 1) ELSE start
          IN  IF start = None \/ end = None THEN From(s, i)
              ELSE SubSeq(s, i, start - 1)
                   \o (IF s[start] \in DOMAIN Decoded THEN <<Decoded[s[start]]>>
                                                       ELSE SubSeq(s, start, end))
                   \o from[end + 1]
    IN  from[1]

(* Mutant: entities are decoded first *)
CellTextDecodedFirst(s) == StripTags(DecodeEntities(s))

CellText(s) == DecodeEntities(StripTags(s))

-----------------------------------------------------------------------------
(***************************************************************************)
(* Tables                                                                  *)
(***************************************************************************)
(* "<thead>" begins like "<th>" but is no form of it. *)
FindOpen(html, tag, i)  == FirstIn(html, OpenForms[tag], i)

FindClose(html, tag, i) == FirstIn(html, {CloseForm[tag]}, i)

NextCellTag(html, i) ==
    LET td == FindOpen(html, "td", i)
        th == FindOpen(html, "th", i)
    IN  IF td # None /\ (th = None \/ td <= th) THEN <<"td", td>> ELSE <<"th", th>>

(* A span of 0 counts as none; colspan is read in the same way and left out. *)
RowSpan(tag) == IF tag = "<td rowspan=2>" THEN 2 ELSE 1

(* A cell without its closing tag ends the row. *)
Cells(row) ==
    LET from[i \in 1..(Len(row) + 1)] ==
          LET tag   == NextCellTag(row, i)
              start == tag[2]
              end   == FindClose(row, tag[1], start + 1)
          IN  IF start = None \/ end = None THEN <<>>
              ELSE <<[text |-> CellText(SubSeq(row, start + 1, end - 1)),
                      rowSpan |-> RowSpan(row[start])]>>
                   \o from[end + 1]
    IN  from[1]

(* Mutant: a row without its closing tag loses the table *)
RowsOrNone(html, first, tableEnd) ==
    LET from[i \in 1..(Len(html) + 1)] ==
          LET start == FindOpen(html, "tr", i)
              end   == FindClose(html, "tr", start + 1)
              cells == Cells(SubSeq(html, start + 1, end - 1))
              rest  == from[end + 1]
          IN  IF start = None \/ start >= tableEnd \/ end = None \/ end > tableEnd THEN <<>>
              ELSE IF rest = <<>> /\ FindOpen(html, "tr", end + 1) # None THEN <<>>
              ELSE (IF cells = <<>> THEN <<>> ELSE <<cells>>) \o rest
    IN  from[first]

(* A row without a cell is left out; one that is not closed ends the table. *)
RowsFrom(html, first, tableEnd) ==
    LET from[i \in 1..(Len(html) + 1)] ==
          LET start == FindOpen(html, "tr", i)
              end   == FindClose(html, "tr", start + 1)
              cells == Cells(SubSeq(html, start + 1, end - 1))
          IN  IF start = None \/ start >= tableEnd \/ end = None \/ end > tableEnd THEN <<>>
              ELSE (IF cells = <<>> THEN <<>> ELSE <<cells>>) \o from[end + 1]
    IN  from[first]

(* Mutant: a table that was cut off ends with the text *)
TableRowsOfRest(html) ==
    LET start == FindOpen(html, "table", 1)
        end   == FindClose(html, "table", start + 1)
    IN  IF start = None THEN <<>>
        ELSE RowsFrom(html, start + 1, IF end = None THEN Len(html) + 1 ELSE end)

TableRows(html) ==
    LET start == FindOpen(html, "table", 1)
        end   == FindClose(html, "table", start + 1)
    IN  IF start = None \/ end = None THEN <<>> ELSE RowsFrom(html, start + 1, end)

IsTable(d) == d.label \in {<<"table">>, <<"Table">>}

Tables(ds) ==
    LET rows(d) == IF IsTable(d) THEN TableRows(d.text) ELSE <<>>
    IN  FlattenSeq([i \in DOMAIN ds |->
            IF rows(ds[i]) = <<>> THEN <<>>
            ELSE <<[bbox |-> ds[i].bbox, html |-> ds[i].text, rows |-> rows(ds[i])]>>])

ParseOcrResult(text) ==
    LET ds == Detections(text) IN [text |-> text, detections |-> ds, tables |-> Tables(ds)]

-----------------------------------------------------------------------------
(***************************************************************************)
(* The page of a job: each detection with the table found for it           *)
(***************************************************************************)
(* Mutant: the text is not compared *)
MatchingTablesByBox(d, tables, used) ==
    {i \in DOMAIN tables : i \notin used /\ tables[i].bbox = d.bbox}

MatchingTables(d, tables, used) ==
    {i \in DOMAIN tables : i \notin used /\ tables[i].bbox = d.bbox /\ tables[i].html = d.text}

DetectionViews(result) ==
    LET ds     == result.detections
        tables == result.tables
        upTo[n \in 0..Len(ds)] ==
          IF n = 0 THEN [views |-> <<>>, used |-> {}]
          ELSE LET d     == ds[n]
                   past  == upTo[n - 1]
                   found == IF IsTable(d) THEN MatchingTables(d, tables, past.used) ELSE {}
                   first == {i \in found : \A k \in found : i <= k}
               IN  [views |-> Append(past.views,
                                [label |-> d.label, bbox |-> d.bbox, text |-> d.text,
                                 rows |-> IF first = {} THEN <<>>
                                          ELSE tables[CHOOSE i \in first : TRUE].rows]),
                    used  |-> past.used \cup first]
    IN  upTo[Len(ds)].views
=============================================================================
