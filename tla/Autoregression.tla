--------------------------- MODULE Autoregression ---------------------------
(***************************************************************************)
(* What generating an answer promises: each token is drawn by the model    *)
(* from all of the text so far and nothing else, every token with its      *)
(* position, and is then part of the text.  It ends no later than at the   *)
(* end-of-sequence token or after MaxNewTokens tokens, and may end earlier *)
(* or fail.                                                                *)
(***************************************************************************)
EXTENDS Naturals, Sequences

CONSTANTS
    Vocabulary,   \* what the model can answer
    Eos,          \* the token that ends a text
    MaxNewTokens

VARIABLES
    text,     \* rows <<token, position, is an image slot>>
    drawn,    \* number of tokens drawn
    context,  \* the rows the last token was drawn from
    status

vars == <<text, drawn, context, status>>

Init == drawn = 0 /\ context = <<>> /\ status = "reading"

Read ==
    /\ status = "reading"
    /\ status' = "drawing"
    /\ text' # <<>> /\ \A i \in DOMAIN text' : text'[i][2] = i - 1
    /\ UNCHANGED <<drawn, context>>

Draw(t) ==
    /\ status = "drawing"
    /\ context' = text
    /\ text' = Append(text, <<t, Len(text), FALSE>>)
    /\ drawn' = drawn + 1
    /\ status' \in {"drawing", "done"}
    /\ status' = "drawing" => t # Eos /\ drawn' < MaxNewTokens

Fail ==
    /\ status \in {"reading", "drawing"}
    /\ status' = "failed"
    /\ UNCHANGED <<text, drawn, context>>

Next == Read \/ (\E t \in Vocabulary : Draw(t)) \/ Fail

Spec == Init /\ [][Next]_vars
=============================================================================
