--------------------------- MODULE KvCacheTensors ---------------------------
(***************************************************************************)
(* What Generation calls the cache, tensor by tensor: the prefill graph    *)
(* gives one value per present output, flattened over batch, heads, places *)
(* and head dimension; the values are cut to the length of the text by     *)
(* index arithmetic and handed to the past inputs of another graph, which  *)
(* names its tensors differently and lists them in an order of its own.    *)
(*                                                                         *)
(* The names of both graphs end in the same suffixes (layer and key or     *)
(* value), which is what NameOrder is made of: the suffixes in the order   *)
(* of strings.                                                             *)
(***************************************************************************)
EXTENDS Generation

CONSTANTS
    NameOrder,   \* the suffixes of the names of cache tensors, sorted
    BatchSize, Heads, HeadDim

ASSUME TensorsAssumption ==
    /\ NameOrder \in Seq(STRING)
    /\ \A i, k \in DOMAIN NameOrder : NameOrder[i] = NameOrder[k] => i = k
    /\ \A g \in Graphs :
          {g.prefillPresent, g.decodePast, g.decodePresent} \subseteq 0..Len(NameOrder)
    /\ BatchSize \in Nat \ {0} /\ Heads \in Nat \ {0} /\ HeadDim \in Nat \ {0}

VARIABLES
    presentNames,   \* present outputs of the prefill graph, as it lists them
    pastNames,      \* past inputs of the decode graph
    decodeNames,    \* present outputs of the decode graph
    values          \* KvCache.values

namesVars  == <<presentNames, pastNames, decodeNames>>
tensorVars == <<vars, namesVars, values>>

(* Every order in which a graph may list its first n tensors *)
Listings(n) ==
    {l \in [1..n -> {NameOrder[i] : i \in 1..n}] : \A i, k \in 1..n : l[i] = l[k] => i = k}

TensorInit ==
    /\ Init
    /\ presentNames \in Listings(graph.prefillPresent)
    /\ pastNames \in Listings(graph.decodePast)
    /\ decodeNames \in Listings(graph.decodePresent)
    /\ values = <<>>

-----------------------------------------------------------------------------
(* Mutant: names stay as the graph lists them *)
AsListed(names) == names

Position(n) == CHOOSE i \in DOMAIN NameOrder : NameOrder[i] = n

(* KvCacheMetadata::new: the same names in the order of strings *)
Sorted(names) ==
    LET N == {names[i] : i \in DOMAIN names}
    IN  CHOOSE s \in [DOMAIN names -> N] :
            /\ \A n \in N : \E i \in DOMAIN s : s[i] = n
            /\ \A i, k \in DOMAIN s : i < k => Position(s[i]) < Position(s[k])

(* The tensor a graph computes from rows: for each batch and head the rows, *)
(* and for each row its dimensions.                                         *)
Flat(name, rows) ==
    LET stride == Len(rows) * HeadDim
    IN  [i \in 1..(BatchSize * Heads * stride) |->
            LET inHead == (i - 1) % stride
            IN  [name |-> name, head |-> (i - 1) \div stride,
                 row |-> rows[(inHead \div HeadDim) + 1], dim |-> inHead % HeadDim]]

(* trim_typed_cache_tensor: the first sequenceLen rows of every head *)
Trimmed(data, totalSequence, sequenceLen) ==
    LET stride        == totalSequence * HeadDim
        trimmedStride == sequenceLen * HeadDim
    IN  [i \in 1..(BatchSize * Heads * trimmedStride) |->
            data[((i - 1) \div trimmedStride) * stride + ((i - 1) % trimmedStride) + 1]]

(* The value fed to the decode graph under a name: make_decode_feeds pairs  *)
(* the sorted names with the values in their order.                         *)
FedAs(name) ==
    LET past == Sorted(pastNames)
    IN  values[CHOOSE k \in DOMAIN past : past[k] = name]

(* The decode graph appends a row to every head of what it was fed; a       *)
(* tensor it was fed nothing for has only that row.                         *)
Grown(name, row) ==
    LET old == IF \E i \in DOMAIN pastNames : pastNames[i] = name THEN FedAs(name) ELSE <<>>
        oldStride == Len(old) \div (BatchSize * Heads)
        stride    == oldStride + HeadDim
    IN  [i \in 1..(BatchSize * Heads * stride) |->
            LET head   == (i - 1) \div stride
                inHead == (i - 1) % stride
            IN  IF inHead < oldStride THEN old[head * oldStride + inHead + 1]
                ELSE [name |-> name, head |-> head, row |-> row, dim |-> inHead - oldStride]]

(* collect_present_cache_trimmed *)
Prefill ==
    /\ RunPrefillModel
    /\ \E rows \in {Fed} :
         values' = LET names == Sorted(presentNames)
                   IN  [k \in DOMAIN names |->
                          Trimmed(Flat(names[k], rows), Len(rows), Len(inputIds))]
    /\ UNCHANGED namesVars

(* make_decode_feeds and collect_present_cache *)
Decode ==
    /\ RunDecodeModel
    /\ values' = LET names == Sorted(decodeNames)
                 IN  [k \in DOMAIN names |-> Grown(names[k], Extended[Len(Extended)])]
    /\ UNCHANGED namesVars

Elsewhere ==
    /\ Load \/ BuildImagePrompt \/ StartFullSequence \/ RunModel \/ InferenceFails
    /\ UNCHANGED <<namesVars, values>>

TensorNext == Prefill \/ Decode \/ Elsewhere

TensorSpec == TensorInit /\ [][TensorNext]_tensorVars

-----------------------------------------------------------------------------
(* Whatever order the two graphs list and name their tensors in, and after  *)
(* any number of steps, the value at hand for each past input is the tensor *)
(* of that layer, and each of its heads holds its own rows of the text, all *)
(* of them, in order and none of another head or of the padding             *)
(* (KvCacheMetadata::new, make_decode_feeds, trim_typed_cache_tensor).      *)
LayersHoldText ==
    pc = "decode" /\ tensors = graph.decodePast =>
        LET past == Sorted(pastNames)
        IN  values = [k \in DOMAIN past |->
                        Flat(past[k], SubSeq(Rows, 1, Len(inputIds) - 1))]

(* The tensors a decode graph is fed are as many as it takes, each for its  *)
(* own layer, and each the text so far, head by head.                       *)
TensorsHoldText == FirstDecodeFits /\ LayersHoldText
=============================================================================
