----------------------------- MODULE Generation -----------------------------
(***************************************************************************)
(* One inference of UnlimitedOcrWorker: the graphs are loaded, the prompt  *)
(* is built around the image slots, and tokens are generated either by     *)
(* feeding the whole sequence to one graph for every token, or by a        *)
(* prefill graph whose key/value cache a decode graph extends by one row   *)
(* per token.                                                              *)
(*                                                                         *)
(* A row <<token, position, is an image slot>> is what the model knows of  *)
(* a place in the text; a cache tensor is the sequence of rows it was      *)
(* computed from.  All tensors of a cache have the same rows, so `cache`   *)
(* stands for each of them and `tensors` counts them.  Logits are not      *)
(* modelled: `context` is the rows the last token was sampled from, and    *)
(* the token itself is any of Vocabulary.                                  *)
(***************************************************************************)
EXTENDS Integers, Sequences, FiniteSets

CONSTANTS
    Texts,         \* what the tokenizer may give for a part of the prompt
    Vocabulary,    \* tokens the model may answer
    Bos, Image, Eos,
    Graphs,        \* the pairs of ONNX graphs that may be configured
    ImageSize,     \* config.model_image_size
    MaxNewTokens   \* config.max_new_tokens

Tokens == Vocabulary \cup {Bos, Image, Eos}

(* What inspect_input_metadata and inspect_decode_input_metadata find; 0    *)
(* stands for an axis that is not fixed.                                    *)
GraphShapes ==
    [fixedLength : Nat, fixedImageSize : Nat, decode : BOOLEAN,
     prefillPresent : Nat, decodePast : Nat, decodePresent : Nat]

ASSUME TokensAssumption == Texts \subseteq Seq(Tokens) /\ Eos \in Vocabulary
ASSUME GraphsAssumption == Graphs \subseteq GraphShapes
ASSUME LimitsAssumption == ImageSize \in Nat /\ MaxNewTokens \in Nat \ {0}

VARIABLES
    graph,          \* InputMetadata and DecodeInputMetadata
    pc,             \* where the worker is
    inputIds,       \* GenerationState.input_ids
    imagesSeqMask,  \* GenerationState.images_seq_mask
    steps,          \* iterations the full-sequence loop has left
    generated,      \* the token ids returned
    cache,          \* KvCache: the rows of every tensor
    tensors,        \* KvCache: the number of tensors
    context         \* the rows the last token was sampled from

stateVars == <<inputIds, imagesSeqMask, generated>>
cacheVars == <<cache, tensors>>
vars      == <<graph, pc, stateVars, steps, cacheVars, context>>

Init ==
    /\ graph \in Graphs
    /\ pc = "load"
    /\ inputIds = <<>> /\ imagesSeqMask = <<>> /\ generated = <<>>
    /\ steps = 0
    /\ cache = <<>> /\ tensors = 0
    /\ context = <<>>

-----------------------------------------------------------------------------

CanSeedDecodeCache ==
    graph.prefillPresent # 0 /\ graph.prefillPresent = graph.decodePast

CanGenerateWithKvCache == graph.decode /\ CanSeedDecodeCache

(* UnlimitedOcrWorker::new: an image size the graph cannot take or a decode *)
(* graph that does not fit the prefill graph fails the worker.              *)
Load ==
    /\ pc = "load"
    /\ pc' = IF /\ graph.fixedImageSize \in {0, ImageSize}
                /\ graph.decode => CanSeedDecodeCache
             THEN "ready" ELSE "refused"
    /\ UNCHANGED <<graph, stateVars, steps, cacheVars, context>>

(* PATCH_SIZE 16, DOWNSAMPLE_RATIO 4; a query row ends in a separator and   *)
(* the image in one more.                                                   *)
ImageTokenCount ==
    LET queries == ((ImageSize \div 16) + 3) \div 4
    IN  (queries + 1) * queries + 1

Repeat(x, n) == [i \in 1..n |-> x]

(* Mutant: the leading BOS token has no mask entry *)
MaskWithoutBos(before, after) ==
    Repeat(FALSE, Len(before)) \o Repeat(TRUE, ImageTokenCount)
        \o Repeat(FALSE, Len(after))

PromptMask(before, after) ==
    Repeat(FALSE, 1 + Len(before)) \o Repeat(TRUE, ImageTokenCount)
        \o Repeat(FALSE, Len(after))

(* The prompt is split at its first <image>, or has it put in front. *)
BuildImagePrompt ==
    /\ pc = "ready"
    /\ pc' = "generate"
    /\ \E before, after \in Texts :
        /\ \A i \in DOMAIN before : before[i] # Image
        /\ inputIds' = <<Bos>> \o before \o Repeat(Image, ImageTokenCount) \o after
        /\ imagesSeqMask' = PromptMask(before, after)
    /\ UNCHANGED <<graph, steps, generated, cacheVars, context>>

-----------------------------------------------------------------------------
Row(i) == <<inputIds[i], i - 1, imagesSeqMask[i]>>

(* The text so far *)
Rows == [i \in 1..Len(inputIds) |-> Row(i)]

(* make_feeds pads every input to the fixed length with 0, the id of BOS. *)
Fed ==
    Rows \o [i \in 1..(graph.fixedLength - Len(inputIds)) |->
                <<Bos, Len(inputIds) + i - 1, FALSE>>]

FeedsFit == graph.fixedLength = 0 \/ Len(inputIds) <= graph.fixedLength

(* The logits at a position are computed from the rows up to it. *)
LogitsAt(rows, position) == SubSeq(rows, 1, position + 1)

(* Mutant: the rows of the padding stay in the cache *)
KeepPadding(rows, sequenceLength) == rows

(* trim_cache_tensor *)
TrimCache(rows, sequenceLength) == SubSeq(rows, 1, sequenceLength)

Push(t) ==
    /\ inputIds' = Append(inputIds, t)
    /\ imagesSeqMask' = Append(imagesSeqMask, FALSE)
    /\ generated' = Append(generated, t)

GenerationStepLimit ==
    LET room == graph.fixedLength - Len(inputIds) + 1
    IN  IF graph.fixedLength = 0 \/ MaxNewTokens < room THEN MaxNewTokens ELSE room

(* Mutant: a prompt longer than the graph is not refused *)
StartUnchecked ==
    /\ pc = "generate" /\ ~CanGenerateWithKvCache
    /\ pc' = "full"
    /\ steps' = GenerationStepLimit
    /\ UNCHANGED <<graph, stateVars, cacheVars, context>>

StartFullSequence ==
    /\ pc = "generate" /\ ~CanGenerateWithKvCache
    /\ FeedsFit
    /\ pc' = "full"
    /\ steps' = GenerationStepLimit
    /\ UNCHANGED <<graph, stateVars, cacheVars, context>>

(* run_model and one iteration of the loop in generate *)
RunModel ==
    /\ pc = "full" /\ FeedsFit
    /\ \E t \in Vocabulary :
        /\ context' = LogitsAt(Fed, Len(inputIds) - 1)
        /\ Push(t)
        /\ steps' = steps - 1
        /\ pc' = IF t = Eos \/ steps = 1 THEN "done" ELSE "full"
    /\ UNCHANGED <<graph, cacheVars>>

(* Mutant: the token at hand is counted twice *)
StopOneEarly(t) == t # Eos /\ Len(generated) + 2 < MaxNewTokens

WantsMore(t) == t # Eos /\ Len(generated) + 1 < MaxNewTokens

RunPrefillModel ==
    /\ pc = "generate" /\ CanGenerateWithKvCache
    /\ FeedsFit
    /\ \E t \in Vocabulary :
        /\ context' = LogitsAt(Fed, Len(inputIds) - 1)
        /\ Push(t)
        /\ pc' = IF WantsMore(t) THEN "decode" ELSE "done"
    /\ cache' = TrimCache(Fed, Len(inputIds))
    /\ tensors' = graph.prefillPresent
    /\ UNCHANGED <<graph, steps>>

(* Mutant: the position is taken after the token that is fed *)
NextPosition == Len(inputIds)

(* The position of the token that was pushed last *)
DecodePosition == Len(inputIds) - 1

(* The decode graph appends a row for its one input token to the cache. *)
Extended ==
    Append(cache, <<inputIds[Len(inputIds)], DecodePosition, FALSE>>)

RunDecodeModel ==
    /\ pc = "decode"
    /\ tensors = graph.decodePast
    /\ \E t \in Vocabulary :
        /\ context' = Extended
        /\ Push(t)
        /\ pc' = IF WantsMore(t) THEN "decode" ELSE "done"
    /\ cache' = Extended
    /\ tensors' = graph.decodePresent
    /\ UNCHANGED <<graph, steps>>

(* Inputs that do not fit, a cache of the wrong size, or a session or a     *)
(* sampling that fails: infer returns the error and no token.               *)
InferenceFails ==
    /\ pc \in {"ready", "generate", "full", "decode"}
    /\ pc' = "failed"
    /\ UNCHANGED <<graph, stateVars, steps, cacheVars, context>>

Next ==
    \/ Load
    \/ BuildImagePrompt
    \/ StartFullSequence
    \/ RunModel
    \/ RunPrefillModel
    \/ RunDecodeModel
    \/ InferenceFails

Spec == Init /\ [][Next]_vars

-----------------------------------------------------------------------------
TypeOK ==
    /\ graph \in Graphs
    /\ pc \in {"load", "ready", "generate", "full", "decode", "done", "failed", "refused"}
    /\ inputIds \in Seq(Tokens)
    /\ imagesSeqMask \in Seq(BOOLEAN)
    /\ generated \in Seq(Vocabulary)
    /\ steps \in 0..MaxNewTokens
    /\ tensors \in Nat
    /\ cache \in Seq(Tokens \X Nat \X BOOLEAN)
    /\ context \in Seq(Tokens \X Nat \X BOOLEAN)

(* Both inputs of the graph speak of the same places: a mask entry for each *)
(* token, and as many image slots as the image encoder fills, each at an    *)
(* image token, also when the text holds <image> again and the model        *)
(* answers with one (build_image_prompt, generate).                         *)
MaskMatchesText ==
    /\ Len(imagesSeqMask) = Len(inputIds)
    /\ \A i \in DOMAIN imagesSeqMask : imagesSeqMask[i] => inputIds[i] = Image
    /\ pc \notin {"load", "ready", "refused", "failed"} =>
        Cardinality({i \in DOMAIN imagesSeqMask : imagesSeqMask[i]}) = ImageTokenCount

(* The cache holds the text without its last token, each row at its own     *)
(* position and none of the padding, whatever the fixed length of the       *)
(* prefill graph is (run_prefill_model, trim_cache_tensor).                 *)
CacheFollowsText ==
    pc = "decode" =>
        /\ Len(inputIds) = Len(cache) + 1
        /\ \A i \in DOMAIN cache : cache[i] = Row(i)

(* Once the full-sequence loop has started the text never outgrows a graph  *)
(* of fixed length, so no answer is lost to a feed that does not fit        *)
(* (generation_step_limit).                                                 *)
LoopFits == pc = "full" => FeedsFit

(* An answer is cut off only by the end-of-sequence token, by               *)
(* max_new_tokens, or by a full graph of fixed length.                      *)
StopsForAReason ==
    pc = "done" =>
        \/ generated[Len(generated)] = Eos
        \/ Len(generated) = MaxNewTokens
        \/ ~CanGenerateWithKvCache /\ Len(inputIds) = graph.fixedLength + 1

(* The limit of an answer is exact: the loop neither goes on when a feed no *)
(* longer fits nor stops while another token could be drawn.                *)
LimitExact == LoopFits /\ StopsForAReason

(* A decode graph that was loaded is used, and what the prefill graph gives *)
(* it is what it takes: no first decode step fails for the cache            *)
(* (load_decode_session, can_generate_with_kv_cache).                       *)
FirstDecodeFits ==
    /\ graph.decode => pc # "full"
    /\ pc = "decode" /\ Len(generated) = 1 => tensors = graph.decodePast

(* Both modes generate token by token from the whole text. *)
Status ==
    CASE pc \in {"load", "ready", "refused"} -> "reading"
      [] pc \in {"generate", "full", "decode"} -> "drawing"
      [] OTHER -> pc

Abstract == INSTANCE Autoregression WITH
    text   <- Rows,
    drawn  <- Len(generated),
    status <- Status

(* Neither padding, trimming, cache nor positions make a token depend on    *)
(* anything but the text before it.                                         *)
ImplementsAutoregression == Abstract!Spec
=============================================================================
