------------------------------ MODULE JobViews ------------------------------
(***************************************************************************)
(* The pages for people: the list of jobs (JobListing) and the page of one *)
(* job, which shows what was parsed out of the text the model generated    *)
(* (OcrOutput).  A generation follows the format of its training more or   *)
(* less: it ends in the middle when the token limit cuts it off, writes    *)
(* headers no parser can read, repeats itself and forgets or doubles tags. *)
(***************************************************************************)
EXTENDS JobListing, OcrOutput

CONSTANTS
    Pages,      \* pages as the model means them: sequences of blocks
    TableRowsMeant,   \* rows of the table that is damaged
    Damages,    \* tokens a damage puts in the place of one: sequences
    CellTexts   \* texts of a cell, as sequences of characters

(* A word is no markup, a character neither a tag nor an entity. *)
Words      == STRING \ (Tags \cup Entities \cup Boxes \cup BadBoxes \cup {Det, "<", "&"})
Characters == STRING \ (Tags \cup Entities)
CellsMeant == [open : OpenForms.td \cup OpenForms.th, words : Seq(Words)]
Blocks     == [label : Seq(Words), boxes : Seq(Boxes \cup BadBoxes),
               words : Seq(Words), rows : Seq(Seq(CellsMeant))]

ASSUME ViewsAssumption ==
    /\ Pages \subseteq Seq(Blocks)
    /\ TableRowsMeant \in Seq(Seq(CellsMeant)) /\ TableRowsMeant # <<>>
    /\ Damages \subseteq Seq(Tags)
    /\ CellTexts \subseteq Seq(Characters)

VARIABLES answer   \* the page of a job last opened, with what it was meant to show

viewVars == <<vars, answer>>

NoAnswer == [kind |-> "none"]

-----------------------------------------------------------------------------
(***************************************************************************)
(* What the model writes.  A block is a label, boxes (one when it keeps to *)
(* the format) and either words or the rows of a table; a cell is its tag  *)
(* and its words.                                                          *)
(***************************************************************************)
Element(open, inner, close) == <<open>> \o inner \o <<close>>

WrittenCell(c) == Element(c.open, c.words, IF c.open = "<th>" THEN "</th>" ELSE "</td>")
WrittenRow(r)  == Element("<tr>", FlattenSeq([i \in DOMAIN r |-> WrittenCell(r[i])]), "</tr>")

(* The first row is the head of the table. *)
WrittenTable(rs) ==
    Element("<table border=1>",
        Element("<thead>", WrittenRow(Head(rs)), "</thead>")
            \o FlattenSeq([i \in 1..(Len(rs) - 1) |-> WrittenRow(rs[i + 1])]), "</table>")

WrittenBody(b)  == IF b.rows = <<>> THEN b.words ELSE WrittenTable(b.rows)
WrittenBlock(b) == Element(Det, b.label \o b.boxes, DetEnd) \o WrittenBody(b)

Written(bs) == <<"preface">> \o FlattenSeq([i \in DOMAIN bs |-> WrittenBlock(bs[i])])

(* The last box is the one of the block; the words before it are its label. *)
Label(b) == b.label \o Front(b.boxes)

WellFormed(b) == b.boxes # <<>> /\ Last(b.boxes) \in Boxes /\ Label(b) # <<>>

(* Every cell with its span, rows without a cell left out. *)
MeantRow(r) == [i \in DOMAIN r |-> [text |-> r[i].words, rowSpan |-> RowSpan(r[i].open)]]

MeantRows(rs) ==
    FlattenSeq([i \in DOMAIN rs |-> IF rs[i] = <<>> THEN <<>> ELSE <<MeantRow(rs[i])>>])

MeantView(b) ==
    [label |-> Label(b), bbox |-> Last(b.boxes), text |-> WrittenBody(b),
     rows |-> IF Label(b) \in {<<"table">>, <<"Table">>} THEN MeantRows(b.rows) ELSE <<>>]

MeantViews(bs) ==
    FlattenSeq([i \in DOMAIN bs |-> IF WellFormed(bs[i]) THEN <<MeantView(bs[i])>> ELSE <<>>])

(* No word stands in the damaged table twice, so that one that is shown is  *)
(* known by its place.                                                      *)
ToldApart(html) == \A i, k \in DOMAIN html : i # k /\ html[i] = html[k] => html[i] \in Tags

ASSUME TableAssumption == ToldApart(WrittenTable(TableRowsMeant))

Damaged(html, at, tokens) == SubSeq(html, 1, at - 1) \o tokens \o From(html, at + 1)

Escaped(c) == CASE c = "<" -> "&lt;" [] c = ">" -> "&gt;" [] c = "&" -> "&amp;" [] OTHER -> c

(* A text with a tag in front of the characters at the positions in tagged. *)
WrittenText(t, tagged) ==
    FlattenSeq([i \in DOMAIN t |->
        (IF i \in tagged THEN <<"<b>">> ELSE <<>>) \o <<Escaped(t[i])>>])

-----------------------------------------------------------------------------
(* get_job_html: the client opens a row it was shown, of a job whose output *)
(* was parsed when it finished; this changes nothing of the store.  Bound:  *)
(* one page is opened, from a list of one record that is not changed.       *)
OpensJob ==
    /\ walk = "done"
    /\ Len(list) = 1 /\ seen = list /\ perPage = MaxPerPage /\ changes = 0
    /\ answer = NoAnswer

GetJobHtml(a) == answer' = a /\ UNCHANGED vars

(* A page, generated up to its end or up to the token limit. *)
OpenPage ==
    /\ OpensJob
    /\ \E bs \in Pages : \E cut \in 1..Len(Written(bs)) :
          GetJobHtml([kind |-> "page", blocks |-> bs, cut |-> cut])

(* A table damaged at one place or two; at is the first of them. *)
OpenDamagedTable ==
    /\ OpensJob
    /\ LET html == WrittenTable(TableRowsMeant)
       IN  \E at \in DOMAIN html : \E d, e \in Damages, later \in at..Len(html) :
             LET after == IF later = at THEN html ELSE Damaged(html, later, e)
             IN  GetJobHtml([kind |-> "damaged", html |-> Damaged(after, at, d), at |-> at])

OpenCell ==
    /\ OpensJob
    /\ \E t \in CellTexts : \E tagged \in SUBSET DOMAIN t :
          GetJobHtml([kind |-> "cell", meant |-> t, written |-> WrittenText(t, tagged)])

Read == OpenPage \/ OpenDamagedTable \/ OpenCell

ViewsInit == Init /\ answer = NoAnswer

ViewsNext == Read \/ (Next /\ UNCHANGED answer)

ViewsSpec == ViewsInit /\ [][ViewsNext]_viewVars /\ WF_viewVars(Client /\ UNCHANGED answer)

-----------------------------------------------------------------------------
Result == ParseOcrResult(SubSeq(Written(answer.blocks), 1, answer.cut))

(* A page whose generation ended is shown as it was meant: every block with *)
(* a readable header, in order, with its own text and the rows and spans of *)
(* its own table; a block with a malformed header takes none of the others  *)
(* with it.                                                                 *)
PageShownAsMeant ==
    answer.kind = "page" =>
        (answer.cut = Len(Written(answer.blocks)) =>
            DetectionViews(Result) = MeantViews(answer.blocks))

TableRowsOf(result) == [i \in DOMAIN result.tables |-> result.tables[i].rows]

(* The last detection may miss the end of its text. *)
BeginsAs(part, whole) ==
    /\ part.label = whole.label /\ part.bbox = whole.bbox
    /\ IsPrefix(part.text, whole.text)

DetectionsBeginAs(part, whole) ==
    part # <<>> =>
        /\ Len(part) <= Len(whole)
        /\ IsPrefix(Front(part), whole)
        /\ BeginsAs(Last(part), whole[Len(part)])

KeepsPrefix(part, whole) ==
    /\ DetectionsBeginAs(part.detections, whole.detections)
    /\ IsPrefix(TableRowsOf(part), TableRowsOf(whole))

(* A generation that was cut off shows what the whole one would have shown  *)
(* first: the same detections but for the text of the last, and the same    *)
(* tables as far as they are complete.                                      *)
CutOffKeepsPrefix ==
    answer.kind = "page" => KeepsPrefix(Result, ParseOcrResult(Written(answer.blocks)))

WordsOf(text) ==
    FlattenSeq([i \in DOMAIN text |-> IF text[i] = "newline" THEN <<>> ELSE <<text[i]>>])

CellWords(rs) ==
    FlattenSeq([i \in DOMAIN rs |-> FlattenSeq([k \in DOMAIN rs[i] |-> WordsOf(rs[i][k].text)])])

(* However its tags are damaged, the words of a table are shown in their    *)
(* order and none of them twice.                                            *)
WordsShownOnce ==
    answer.kind = "damaged" =>
        LET shown == CellWords(TableRows(answer.html))
            at(w) == FirstIn(answer.html, {w}, 1)
        IN  \A i, k \in DOMAIN shown : i < k => at(shown[i]) < at(shown[k])

(* The rows that end before the first damaged token are shown as if there   *)
(* was no damage, as long as the table is closed at all.                    *)
DamageIsLocal ==
    answer.kind = "damaged" /\ FirstIn(answer.html, {"</table>"}, 2) # None =>
        LET whole  == WrittenTable(TableRowsMeant)
            before == Cardinality({k \in 1..(answer.at - 1) : whole[k] = "</tr>"})
        IN  IsPrefix(MeantRows(SubSeq(TableRowsMeant, 1, before)), TableRows(answer.html))

(* Damaged tags neither repeat nor reorder words, nor reach back.           *)
DamageContained == WordsShownOnce /\ DamageIsLocal

(* A cell shows the text that was meant, whatever of it had to be escaped   *)
(* and with a tag, <b>, in front of any of its characters.                  *)
CellTextFaithful ==
    answer.kind = "cell" =>
        TableRows(Element("<table>",
                    Element("<tr>", Element("<td>", answer.written, "</td>"), "</tr>"), "</table>"))
            = <<<<[text |-> answer.meant, rowSpan |-> 1]>>>>
=============================================================================
