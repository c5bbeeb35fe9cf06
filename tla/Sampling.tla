------------------------------ MODULE Sampling ------------------------------
(***************************************************************************)
(* How the token after a row of logits is drawn.  Logits are integers and  *)
(* the weights exp((logit - max) / temperature) whole numbers, positive    *)
(* until they underflow to 0, so sums and differences are exact and the    *)
(* rounding of floating point is left out.                                 *)
(***************************************************************************)
EXTENDS KvCacheTensors

CONSTANTS
    TokenOrder,   \* Vocabulary in the order of token ids
    Finite,       \* finite logits
    Weights       \* of a logit by how much it is below the greatest, from 0 on

(* As f32::total_cmp orders them *)
NegInf == -100
PosInf == 100
NaN    == 101

Logits == Finite \cup {NegInf, PosInf, NaN}

ASSUME SamplingAssumption ==
    /\ TokenOrder \in Seq(Vocabulary)
    /\ Vocabulary = {TokenOrder[i] : i \in DOMAIN TokenOrder}
    /\ Finite \subseteq (NegInf + 1)..(PosInf - 1)
    /\ Weights \in Seq(Nat \ {0}) /\ Weights # <<>>

VARIABLES draw   \* the row, the temperature and the sample of the last draw

samplingVars == <<tensorVars, draw>>

NoDraw == [kind |-> "none"]

-----------------------------------------------------------------------------
Indices(row, S) == {i \in DOMAIN row : row[i] \in S}

Greatest(S) == CHOOSE x \in S : \A y \in S : y <= x

(* The element of I that has n others before it *)
Nth(I, n) == CHOOSE i \in I : Cardinality({k \in I : k < i}) = n

(* argmax_token_from_logits_row: the last of the greatest, and NaN is *)
Argmax(row) ==
    LET top == Greatest({row[i] : i \in DOMAIN row})
    IN  Greatest(Indices(row, {top}))

Weight(row, i) ==
    LET below == Greatest({row[k] : k \in Indices(row, Finite)}) - row[i]
    IN  IF row[i] \notin Finite \/ below >= Len(Weights) THEN 0 ELSE Weights[below + 1]

(* The sum of the weights before i, as the number of their units *)
UnitsBefore(row, i) == UNION {{k} \X (1..Weight(row, k)) : k \in 1..(i - 1)}

WeightBefore(row, i) == Cardinality(UnitsBefore(row, i))

TotalWeight(row) == WeightBefore(row, Len(row) + 1)

(* Mutant: a sample on the border belongs to both *)
ByWeightInclusive(row, remaining) ==
    LET heavy == {i \in DOMAIN row : Weight(row, i) > 0}
        hit   == {i \in heavy : remaining <= WeightBefore(row, i) + Weight(row, i)}
    IN  IF hit = {} THEN Greatest(heavy) ELSE Nth(hit, 0)

(* remaining is sample * total_weight: the first token whose weight, added  *)
(* to those before it, exceeds it; else the last with a weight.             *)
ByWeight(row, remaining) ==
    LET heavy == {i \in DOMAIN row : Weight(row, i) > 0}
        hit   == {i \in heavy : remaining < WeightBefore(row, i) + Weight(row, i)}
    IN  IF hit = {} THEN Greatest(heavy) ELSE Nth(hit, 0)

(* The samples to tell apart: shares of the infinities, or of the weight,   *)
(* up to 1.                                                                 *)
Samples(row) ==
    LET infinite == Indices(row, {PosInf})
    IN  IF infinite # {} THEN 0..Cardinality(infinite) ELSE 0..TotalWeight(row)

Drawable(row, greedy) == greedy \/ Indices(row, Finite \cup {PosInf}) # {}

SelectToken(row, greedy, sample) ==
    LET infinite == Indices(row, {PosInf})
        last     == Cardinality(infinite) - 1
    IN  IF greedy THEN Argmax(row)
        ELSE IF infinite # {} THEN Nth(infinite, IF sample < last THEN sample ELSE last)
        ELSE ByWeight(row, sample)

(* Bound: the row is looked at for the first token of a full sequence only. *)
Observed ==
    /\ pc = "full" /\ generated = <<>>
    /\ graph = [fixedLength |-> 0, fixedImageSize |-> 0, decode |-> FALSE,
                prefillPresent |-> 0, decodePast |-> 0, decodePresent |-> 0]
    /\ Len(inputIds) = ImageTokenCount + 1

RunModelAndSample ==
    /\ Observed
    /\ RunModel /\ UNCHANGED <<namesVars, values>>
    /\ \E row \in [DOMAIN TokenOrder -> Logits], greedy \in BOOLEAN :
        /\ Drawable(row, greedy)
        /\ \E sample \in IF greedy THEN {0} ELSE Samples(row) :
            LET chosen == SelectToken(row, greedy, sample)
            IN  /\ generated' = <<TokenOrder[chosen]>>
                /\ draw' = [kind |-> "drawn", row |-> row, greedy |-> greedy, chosen |-> chosen]

SamplingInit == TensorInit /\ draw = NoDraw

SamplingNext ==
    \/ RunModelAndSample
    \/ ~Observed /\ TensorNext /\ draw' = NoDraw
    \/ Observed /\ InferenceFails /\ UNCHANGED <<namesVars, values, draw>>

SamplingSpec == SamplingInit /\ [][SamplingNext]_samplingVars

-----------------------------------------------------------------------------
(* No token is answered that the row rules out: at temperature 0 none has a *)
(* greater logit, above it an infinite logit wins over all others, and else *)
(* the token has a weight, also for a sample at the very end and for rows   *)
(* with NaN, infinities and logits far below the greatest.                  *)
PossibleTokenDrawn ==
    draw.kind = "drawn" =>
        LET row == draw.row
            x   == row[draw.chosen]
        IN  IF draw.greedy THEN \A i \in DOMAIN row : row[i] <= x
            ELSE IF Indices(row, {PosInf}) # {} THEN x = PosInf
            ELSE Weight(row, draw.chosen) > 0

(* Of samples spread evenly each token gets its share: of infinite logits   *)
(* one each, else as many as its weight.                                    *)
SharesFollowWeights ==
    draw.kind = "drawn" /\ ~draw.greedy =>
        LET row      == draw.row
            infinite == Indices(row, {PosInf})
            even     == {s \in Samples(row) : s + 1 \in Samples(row)}
            share(i) == IF infinite # {} THEN (IF i \in infinite THEN 1 ELSE 0) ELSE Weight(row, i)
        IN  \A i \in DOMAIN row :
                Cardinality({s \in even : SelectToken(row, FALSE, s) = i}) = share(i)

(* A drawn token is one the row allows, and as likely as its weight says.   *)
SampledByWeight == PossibleTokenDrawn /\ SharesFollowWeights
=============================================================================
