---- MODULE MCJobViews ----
(* Model values for JobViews: blocks that follow the format and blocks that do not. *)
EXTENDS JobViews

Cell(open, words) == [open |-> open, words |-> words]

MCRows == <<<<Cell("<th>", <<"A">>), Cell("<td>", <<"B", "C">>)>>,
            <<Cell("<td rowspan=2>", <<"D">>), Cell("<td rowspan=0>", <<"E">>)>>>>

Block(label, boxes, words, rows) == [label |-> label, boxes |-> boxes, words |-> words, rows |-> rows]

MCBlocks == {
    Block(<<"table">>, <<"[1, 2, 3, 4]">>, <<>>, MCRows),
    Block(<<"Table">>, <<"[1, 2, 3, 4]">>, <<>>, <<<<>>>>),
    Block(<<"table">>, <<"[a, b, c, d]", "[5, 6, 7, 8]">>, <<"x">>, <<>>),
    Block(<<"text">>, <<"[1, 2, 3, 4]">>, <<"x", "y">>, <<>>),
    Block(<<"text">>, <<"[1, 2, 3, 4]">>, <<>>, MCRows),
    Block(<<"table">>, <<"[5, 6, 7, 8]", "[1, 2]">>, <<>>, MCRows),
    Block(<<>>, <<"[5, 6, 7, 8]">>, <<"z">>, <<>>),
    Block(<<"title">>, <<>>, <<>>, <<>>)}

(* Every two blocks, and each of them twice with another in between. *)
MCPages == {<<b, c>> : b, c \in MCBlocks} \cup {<<b, c, b>> : b, c \in MCBlocks}

MCTableRows == <<<<Cell("<td>", <<"A">>)>>, <<Cell("<th>", <<"B">>), Cell("<td>", <<"C">>)>>,
                 <<Cell("<td>", <<"D">>)>>>>

MCDamages == {<<>>, <<"</td>">>, <<"<td>">>, <<"</tr>">>, <<"<tr>">>, <<"</table>">>,
              <<"</tr>", "</tr>">>}

MCCellTexts == UNION {[1..n -> {"a", "<", ">", "&"}] : n \in 0..3}
====
