------------------------- MODULE Generation_proofs -------------------------
(***************************************************************************)
(* Proofs about Generation, for any prompt, any pair of graphs, any image  *)
(* size and any number of tokens: the inductive invariant behind the       *)
(* cache, that both ways of generating implement Autoregression, that the  *)
(* mask marks the image and nothing else, and that the tensors of          *)
(* KvCacheTensors hold the text, for any number of layers and any shape,   *)
(* and that Sampling draws a token as often as its weight says.            *)
(***************************************************************************)
EXTENDS Sampling, TLAPS, SequenceTheorems, FiniteSetTheorems

RowSet == Tokens \X Nat \X BOOLEAN

(* The tokens and their mask speak of the same places. *)
Aligned == Len(imagesSeqMask) = Len(inputIds)

(* Where the loops are: what they need of the text, the count and the cache *)
InLoop ==
    /\ pc \in {"generate", "full", "decode"} => inputIds # <<>>
    /\ pc \in {"load", "ready", "generate"} => generated = <<>>
    /\ pc = "full" => /\ steps >= 1
                      /\ Len(generated) + steps <= MaxNewTokens
                      /\ \/ graph.fixedLength = 0
                         \/ Len(inputIds) + steps <= graph.fixedLength + 1
    /\ pc = "decode" => /\ Len(generated) \in 1..(MaxNewTokens - 1)
                        /\ imagesSeqMask[Len(inputIds)] = FALSE

GenInv == TypeOK /\ Aligned /\ InLoop /\ CacheFollowsText

-----------------------------------------------------------------------------
(* Sequences over any set, appended to and built entry by entry. *)
LEMMA AppendFacts ==
    ASSUME NEW S, NEW s \in Seq(S), NEW e \in S
    PROVE  /\ Append(s, e) \in Seq(S)
           /\ Len(Append(s, e)) = Len(s) + 1
           /\ Append(s, e)[Len(s) + 1] = e
           /\ \A i \in 1..Len(s) : Append(s, e)[i] = s[i]
           /\ Len(s) \in Nat
  OBVIOUS

LEMMA EntriesMakeASeq ==
    ASSUME NEW S, NEW n \in Int, NEW f \in [1..n -> S]
    PROVE  /\ f \in Seq(S)
           /\ n \in Nat => Len(f) = n
<1>1. CASE n \in Nat
  BY <1>1, SeqDef
<1>2. CASE n \notin Nat
  <2>1. 1..n = 1..0
    BY <1>2
  <2>2. f \in [1..0 -> S] /\ 0 \in Nat
    BY <2>1
  <2> QED
    BY <1>2, <2>2, SeqDef
<1> QED
  BY <1>1, <1>2

(* The text is a sequence with a row for every token. *)
LEMMA RowsAreText ==
    ASSUME TypeOK, Aligned
    PROVE  /\ Rows \in Seq(RowSet)
           /\ Len(Rows) = Len(inputIds)
           /\ \A i \in 1..Len(inputIds) : Rows[i] = Row(i)
           /\ Len(inputIds) \in Nat
<1>1. \A i \in 1..Len(inputIds) : Row(i) \in RowSet
  BY DEF TypeOK, Aligned, Row, RowSet
<1>2. Len(inputIds) \in Nat
  BY DEF TypeOK
<1>3. Rows \in [1..Len(inputIds) -> RowSet]
  BY <1>1 DEF Rows
<1> QED
  BY <1>2, <1>3, EntriesMakeASeq DEF Rows

(* What is fed is the text and then the padding. *)
LEMMA FedIsPadded ==
    ASSUME TypeOK, Aligned, inputIds # <<>>
    PROVE  /\ Fed \in Seq(RowSet)
           /\ Len(inputIds) \in 1..Len(Fed)
           /\ SubSeq(Fed, 1, Len(inputIds)) = Rows
<1> DEFINE n == Len(inputIds)
           missing == graph.fixedLength - n
           padding == [i \in 1..missing |-> <<Bos, n + i - 1, FALSE>>]
<1>1. n \in Nat \ {0}
  BY EmptySeq DEF TypeOK
<1>2. missing \in Int
  BY <1>1, GraphsAssumption DEF TypeOK, GraphShapes
<1>3. padding \in [1..missing -> RowSet]
  <2>1. ASSUME NEW i \in 1..missing
        PROVE  <<Bos, n + i - 1, FALSE>> \in RowSet
    <3>1. i \in Int /\ i >= 1
      BY <1>2
    <3>2. n + i - 1 \in Nat
      BY <1>1, <3>1
    <3>3. Bos \in Tokens
      BY DEF Tokens
    <3> QED
      BY <3>2, <3>3 DEF RowSet
  <2> QED
    BY <2>1
<1>4. Fed = Rows \o padding
  BY DEF Fed
<1> HIDE DEF missing, padding
<1>5. padding \in Seq(RowSet)
  BY <1>2, <1>3, EntriesMakeASeq
<1> HIDE DEF n
<1>6. Rows \in Seq(RowSet) /\ Len(Rows) = n
  BY RowsAreText DEF n
<1>7. 1 \in 1..Len(Rows) /\ n \in 1..Len(Rows)
  BY <1>1, <1>6
<1>8. SubSeq(Rows \o padding, 1, n) = SubSeq(Rows, 1, n)
  BY <1>5, <1>6, <1>7, SubSeqOfConcat1
<1>9. SubSeq(Rows, 1, n) = Rows
  BY <1>6, SubSeqFull
<1>10. Rows \o padding \in Seq(RowSet) /\ Len(Rows \o padding) = n + Len(padding)
  BY <1>5, <1>6, ConcatProperties
<1>11. n \in 1..Len(Rows \o padding)
  BY <1>1, <1>5, <1>10
<1> QED
  BY <1>4, <1>8, <1>9, <1>10, <1>11 DEF n

(* The padding does not reach the position logits are taken from, and       *)
(* trimming takes it off the cache.                                         *)
LEMMA PaddingIsCutOff ==
    ASSUME TypeOK, Aligned, inputIds # <<>>
    PROVE  /\ LogitsAt(Fed, Len(inputIds) - 1) = Rows
           /\ TrimCache(Fed, Len(inputIds)) = Rows
<1>1. (Len(inputIds) - 1) + 1 = Len(inputIds)
  BY DEF TypeOK
<1> QED
  BY <1>1, FedIsPadded DEF LogitsAt, TrimCache

(* A pushed token is one more row at the end, and the others stay. *)
LEMMA PushAppendsRow ==
    ASSUME TypeOK, Aligned, NEW t \in Vocabulary, Push(t)
    PROVE  /\ inputIds' \in Seq(Tokens)
           /\ imagesSeqMask' \in Seq(BOOLEAN)
           /\ generated' \in Seq(Vocabulary)
           /\ Aligned'
           /\ Len(inputIds') = Len(inputIds) + 1
           /\ Len(generated') = Len(generated) + 1
           /\ imagesSeqMask'[Len(inputIds')] = FALSE
           /\ inputIds' # <<>>
           /\ \A i \in 1..Len(inputIds) : Row(i)' = Row(i)
           /\ Rows' = Append(Rows, <<t, Len(Rows), FALSE>>)
<1>1. /\ inputIds' \in Seq(Tokens)
      /\ imagesSeqMask' \in Seq(BOOLEAN)
      /\ generated' \in Seq(Vocabulary)
      /\ Len(inputIds') = Len(inputIds) + 1
      /\ Len(imagesSeqMask') = Len(imagesSeqMask) + 1
      /\ Len(generated') = Len(generated) + 1
      /\ Len(inputIds) \in Nat
  BY DEF TypeOK, Push, Tokens
<1>2. Aligned'
  BY <1>1 DEF Aligned
<1>3. \A i \in 1..Len(inputIds) : inputIds'[i] = inputIds[i] /\ imagesSeqMask'[i] = imagesSeqMask[i]
  <2>1. inputIds \in Seq(Tokens) /\ imagesSeqMask \in Seq(BOOLEAN) /\ t \in Tokens
    BY DEF TypeOK, Tokens
  <2>2. Len(imagesSeqMask) = Len(inputIds)
    BY DEF Aligned
  <2>3. \A i \in 1..Len(inputIds) : Append(inputIds, t)[i] = inputIds[i]
    BY <2>1, AppendFacts
  <2>4. \A i \in 1..Len(inputIds) : Append(imagesSeqMask, FALSE)[i] = imagesSeqMask[i]
    <3>1. ASSUME NEW e \in BOOLEAN
          PROVE  \A i \in 1..Len(imagesSeqMask) : Append(imagesSeqMask, e)[i] = imagesSeqMask[i]
      BY <2>1, AppendFacts
    <3> QED
      BY <2>2, <3>1
  <2> QED
    BY <2>3, <2>4 DEF Push
<1>4. inputIds'[Len(inputIds) + 1] = t /\ imagesSeqMask'[Len(inputIds) + 1] = FALSE
  BY DEF TypeOK, Push, Aligned
<1>5. \A i \in 1..Len(inputIds) : Row(i)' = Row(i)
  BY <1>3 DEF Row
<1>6. Rows' = Append(Rows, <<t, Len(Rows), FALSE>>)
  <2> DEFINE n == Len(inputIds)
             last == <<t, n, FALSE>>
             longer == Append(Rows, last)
             newRow(i) == <<inputIds'[i], i - 1, imagesSeqMask'[i]>>
  <2>1. n \in Nat /\ (n + 1) - 1 = n
    BY <1>1
  <2>2. last \in RowSet
    BY <2>1 DEF RowSet, Tokens
  <2>3. newRow(n + 1) = last
    BY <1>4, <2>1
  <2>4. \A i \in 1..n : newRow(i) = Rows[i]
    BY <1>3, RowsAreText DEF Row
  <2>5. Rows' = [i \in 1..(n + 1) |-> newRow(i)]
    BY <1>1 DEF Rows, Row
  <2> HIDE DEF last, newRow, n
  <2>6. /\ longer \in Seq(RowSet)
        /\ Len(longer) = n + 1
        /\ longer[n + 1] = last
        /\ \A i \in 1..n : longer[i] = Rows[i]
    BY <2>2, RowsAreText, AppendFacts DEF n
  <2> HIDE DEF longer
  <2>7. \A i \in 1..(n + 1) : longer[i] = newRow(i)
    BY <2>1, <2>3, <2>4, <2>6
  <2>8. longer = [i \in 1..(n + 1) |-> longer[i]]
    <3>1. longer \in [1..(n + 1) -> RowSet]
      BY <2>6, LenProperties
    <3> QED
      BY <3>1
  <2>9. longer = [i \in 1..(n + 1) |-> newRow(i)]
    BY <2>7, <2>8
  <2> QED
    BY <2>5, <2>9, RowsAreText DEF longer, last, n
<1>7. inputIds' # <<>>
  BY <1>1, EmptySeq
<1> QED
  BY <1>1, <1>2, <1>4, <1>5, <1>6, <1>7
-----------------------------------------------------------------------------
(* What the decode graph answers from is the whole text. *)
LEMMA ExtendedIsText ==
    ASSUME GenInv, pc = "decode"
    PROVE  Extended = Rows
<1> DEFINE n == Len(inputIds)
           last == <<inputIds[n], n - 1, FALSE>>
<1>1. TypeOK /\ Aligned /\ inputIds # <<>> /\ imagesSeqMask[n] = FALSE
  BY DEF GenInv, InLoop
<1>2. /\ n \in Nat \ {0}
      /\ n = Len(cache) + 1
      /\ cache \in Seq(RowSet)
      /\ Len(cache) \in Nat
      /\ \A i \in 1..Len(cache) : cache[i] = Row(i)
  BY <1>1, EmptySeq, LenProperties DEF GenInv, TypeOK, CacheFollowsText, RowSet
<1>3. Row(n) = last
  BY <1>1 DEF Row
<1>4. Row(n) \in RowSet
  BY <1>1, <1>2 DEF Row, RowSet, TypeOK, Aligned
<1> HIDE DEF n, last
<1>5. Append(cache, last) \in Seq(RowSet) /\ Len(Append(cache, last)) = n
  BY <1>2, <1>3, <1>4, AppendFacts
<1>6. \A i \in 1..n : Append(cache, last)[i] = Row(i)
  <2>1. /\ Append(cache, last)[n] = last
        /\ \A i \in 1..Len(cache) : Append(cache, last)[i] = cache[i]
    BY <1>2, <1>3, <1>4, AppendFacts
  <2> QED
    BY <1>2, <1>3, <2>1
<1>7. Rows \in Seq(RowSet) /\ Len(Rows) = n /\ \A i \in 1..n : Rows[i] = Row(i)
  BY <1>1, RowsAreText DEF n
<1>8. Append(cache, last) = Rows
  BY <1>5, <1>6, <1>7, SeqEqual
<1> QED
  BY <1>8 DEF Extended, DecodePosition, n, last

(* A cache of the whole text follows the text once a token is pushed. *)
LEMMA CacheAfterPush ==
    ASSUME TypeOK, Aligned, NEW t \in Vocabulary, Push(t), cache' = Rows
    PROVE  CacheFollowsText'
<1>1. /\ Rows \in Seq(RowSet)
      /\ Len(Rows) = Len(inputIds)
      /\ \A i \in 1..Len(inputIds) : Rows[i] = Row(i)
  BY RowsAreText
<1>2. Len(inputIds') = Len(cache') + 1
  BY <1>1, PushAppendsRow
<1>3. DOMAIN cache' = 1..Len(inputIds)
  BY <1>1, LenProperties
<1>4. \A i \in 1..Len(inputIds) : cache'[i] = Row(i)'
  BY <1>1, PushAppendsRow
<1> QED
  BY <1>2, <1>3, <1>4 DEF CacheFollowsText

(* The count of slots is a number for any size of the image. *)
LEMMA SlotsAreCounted == ImageTokenCount \in Nat
<1> DEFINE queries == ((ImageSize \div 16) + 3) \div 4
<1>1. queries \in Nat
  BY LimitsAssumption
<1> HIDE DEF queries
<1>2. (queries + 1) * queries + 1 \in Nat
  BY <1>1
<1> QED
  BY <1>2 DEF ImageTokenCount, queries

(* One entry over and over *)
LEMMA RepeatFacts ==
    ASSUME NEW S, NEW x \in S, NEW n \in Nat
    PROVE  /\ Repeat(x, n) \in Seq(S)
           /\ Len(Repeat(x, n)) = n
           /\ \A i \in 1..n : Repeat(x, n)[i] = x
<1>1. Repeat(x, n) \in [1..n -> S]
  BY DEF Repeat
<1> QED
  BY <1>1, EntriesMakeASeq DEF Repeat

(* A prompt is a text with a mask, whatever is asked and however large the  *)
(* image is.                                                                *)
LEMMA PromptIsText ==
    ASSUME NEW before \in Texts, NEW after \in Texts,
           inputIds' = <<Bos>> \o before \o Repeat(Image, ImageTokenCount) \o after,
           imagesSeqMask' = PromptMask(before, after)
    PROVE  /\ inputIds' \in Seq(Tokens)
           /\ imagesSeqMask' \in Seq(BOOLEAN)
           /\ Aligned'
           /\ inputIds' # <<>>
<1> DEFINE b == Len(before)
           a == Len(after)
           m == ImageTokenCount
<1>1. m \in Nat
  BY SlotsAreCounted
<1>2. before \in Seq(Tokens) /\ after \in Seq(Tokens) /\ b \in Nat /\ a \in Nat
  BY TokensAssumption
<1>3. Image \in Tokens /\ <<Bos>> \in Seq(Tokens) /\ Len(<<Bos>>) = 1
  BY DEF Tokens
<1> HIDE DEF a, b, m
<1>4. inputIds' \in Seq(Tokens) /\ Len(inputIds') = 1 + b + m + a
  <2> DEFINE head == <<Bos>> \o before
             image == Repeat(Image, m)
  <2>1. head \in Seq(Tokens) /\ Len(head) = 1 + b
    BY <1>2, <1>3, ConcatProperties DEF b
  <2>2. image \in Seq(Tokens) /\ Len(image) = m
    BY <1>1, <1>3, RepeatFacts
  <2>3. inputIds' = head \o image \o after
    BY DEF m
  <2> HIDE DEF head, image
  <2>4. /\ head \o image \o after \in Seq(Tokens)
        /\ Len(head \o image \o after) = Len(head) + Len(image) + Len(after)
    <3>1. head \in Seq(Tokens) /\ image \in Seq(Tokens) /\ after \in Seq(Tokens)
      BY <1>2, <2>1, <2>2
    <3>2. head \o image \in Seq(Tokens) /\ Len(head \o image) = Len(head) + Len(image)
      BY <3>1, ConcatProperties
    <3> QED
      BY <3>1, <3>2, ConcatProperties
  <2> QED
    BY <2>1, <2>2, <2>3, <2>4 DEF a
<1>5. imagesSeqMask' \in Seq(BOOLEAN) /\ Len(imagesSeqMask') = 1 + b + m + a
  <2> DEFINE s1 == Repeat(FALSE, 1 + b)
             s2 == Repeat(TRUE, m)
             s3 == Repeat(FALSE, a)
  <2>1. /\ s1 \in Seq(BOOLEAN) /\ Len(s1) = 1 + b
        /\ s2 \in Seq(BOOLEAN) /\ Len(s2) = m
        /\ s3 \in Seq(BOOLEAN) /\ Len(s3) = a
    <3>1. 1 + b \in Nat
      BY <1>2
    <3>2. ASSUME NEW x \in BOOLEAN, NEW n \in Nat
          PROVE  Repeat(x, n) \in Seq(BOOLEAN) /\ Len(Repeat(x, n)) = n
      BY RepeatFacts
    <3> QED
      BY <1>1, <1>2, <3>1, <3>2
  <2>2. imagesSeqMask' = s1 \o s2 \o s3
    BY DEF PromptMask, a, b, m
  <2> HIDE DEF s1, s2, s3
  <2>3. /\ s1 \o s2 \o s3 \in Seq(BOOLEAN)
        /\ Len(s1 \o s2 \o s3) = Len(s1) + Len(s2) + Len(s3)
    <3>1. s1 \in Seq(BOOLEAN) /\ s2 \in Seq(BOOLEAN) /\ s3 \in Seq(BOOLEAN)
      BY <2>1
    <3>2. s1 \o s2 \in Seq(BOOLEAN) /\ Len(s1 \o s2) = Len(s1) + Len(s2)
      BY <3>1, ConcatProperties
    <3> QED
      BY <3>1, <3>2, ConcatProperties
  <2> QED
    BY <2>1, <2>2, <2>3
<1>6. inputIds' # <<>>
  BY <1>1, <1>2, <1>4, EmptySeq
<1> QED
  BY <1>4, <1>5, <1>6 DEF Aligned

-----------------------------------------------------------------------------
LEMMA InitInv == Init => GenInv
<1> SUFFICES ASSUME Init PROVE GenInv
  OBVIOUS
<1>1. TypeOK
  <2>1. <<>> \in Seq(Tokens) /\ <<>> \in Seq(BOOLEAN) /\ <<>> \in Seq(Vocabulary)
        /\ <<>> \in Seq(RowSet)
    BY EmptySeq
  <2> QED
    BY <2>1, LimitsAssumption DEF Init, TypeOK, RowSet
<1> QED
  BY <1>1 DEF Init, GenInv, Aligned, InLoop, CacheFollowsText

(* The steps before the first token *)
LEMMA LoadInv == GenInv /\ Load => GenInv'
<1> SUFFICES ASSUME GenInv, Load PROVE GenInv'
  OBVIOUS
<1>1. pc = "load" /\ pc' \in {"ready", "refused"}
  BY DEF Load
<1>2. UNCHANGED <<graph, inputIds, imagesSeqMask, generated, steps, cache, tensors, context>>
  BY DEF Load, stateVars, cacheVars
<1> QED
  BY <1>1, <1>2 DEF GenInv, TypeOK, Aligned, InLoop, CacheFollowsText

LEMMA BuildImagePromptInv == GenInv /\ BuildImagePrompt => GenInv'
<1> SUFFICES ASSUME GenInv, BuildImagePrompt PROVE GenInv'
  OBVIOUS
<1>1. /\ pc = "ready" /\ pc' = "generate"
      /\ UNCHANGED <<graph, generated, steps, cache, tensors, context>>
  BY DEF BuildImagePrompt, cacheVars
<1>2. /\ inputIds' \in Seq(Tokens)
      /\ imagesSeqMask' \in Seq(BOOLEAN)
      /\ Aligned'
      /\ inputIds' # <<>>
  BY PromptIsText DEF BuildImagePrompt
<1> QED
  BY <1>1, <1>2 DEF GenInv, TypeOK, InLoop, CacheFollowsText

LEMMA StartFullSequenceInv == GenInv /\ StartFullSequence => GenInv'
<1> SUFFICES ASSUME GenInv, StartFullSequence PROVE GenInv'
  OBVIOUS
<1>1. /\ pc = "generate" /\ pc' = "full"
      /\ FeedsFit
      /\ steps' = GenerationStepLimit
      /\ UNCHANGED <<graph, inputIds, imagesSeqMask, generated, cache, tensors, context>>
  BY DEF StartFullSequence, stateVars, cacheVars
<1>2. /\ graph.fixedLength \in Nat
      /\ Len(inputIds) \in Nat
      /\ MaxNewTokens \in Nat \ {0}
      /\ Len(generated) = 0
      /\ inputIds # <<>>
  BY <1>1, GraphsAssumption, LimitsAssumption, EmptySeq DEF GenInv, TypeOK, InLoop, GraphShapes
<1>3. /\ steps' \in 1..MaxNewTokens
      /\ (graph.fixedLength = 0) \/ (Len(inputIds) + steps' <= graph.fixedLength + 1)
  BY <1>1, <1>2 DEF FeedsFit, GenerationStepLimit
<1> QED
  BY <1>1, <1>2, <1>3 DEF GenInv, TypeOK, Aligned, InLoop, CacheFollowsText

(* The steps that add a token *)
LEMMA RunModelInv == GenInv /\ RunModel => GenInv'
<1> SUFFICES ASSUME GenInv, RunModel PROVE GenInv'
  OBVIOUS
<1>1. PICK t \in Vocabulary :
        /\ context' = LogitsAt(Fed, Len(inputIds) - 1)
        /\ Push(t)
        /\ steps' = steps - 1
        /\ pc' = IF t = Eos \/ steps = 1 THEN "done" ELSE "full"
  BY DEF RunModel
<1>2. pc = "full" /\ UNCHANGED <<graph, cache, tensors>>
  BY DEF RunModel, cacheVars
<1>3. /\ inputIds # <<>> /\ TypeOK /\ Aligned
      /\ steps >= 1 /\ Len(generated) + steps <= MaxNewTokens
      /\ (graph.fixedLength = 0) \/ (Len(inputIds) + steps <= graph.fixedLength + 1)
  BY <1>2 DEF GenInv, InLoop
<1>4. /\ inputIds' \in Seq(Tokens) /\ imagesSeqMask' \in Seq(BOOLEAN)
      /\ generated' \in Seq(Vocabulary)
      /\ Aligned'
      /\ Len(inputIds') = Len(inputIds) + 1
      /\ Len(generated') = Len(generated) + 1
      /\ inputIds' # <<>>
  BY <1>1, <1>3, PushAppendsRow
<1>5. /\ steps \in 0..MaxNewTokens /\ MaxNewTokens \in Nat
      /\ Len(inputIds) \in Nat /\ Len(generated) \in Nat
      /\ graph.fixedLength \in Nat
  BY <1>3, GraphsAssumption, LimitsAssumption DEF TypeOK, GraphShapes
<1>6. context' \in Seq(RowSet)
  BY <1>1, <1>3, PaddingIsCutOff, RowsAreText
<1>7. TypeOK'
  <2>1. steps' \in 0..MaxNewTokens
    BY <1>1, <1>3, <1>5
  <2>2. pc' \in {"full", "done"}
    BY <1>1
  <2> QED
    BY <1>2, <1>3, <1>4, <1>6, <2>1, <2>2 DEF TypeOK, RowSet
<1>8. InLoop'
  <2>1. CASE pc' = "full"
    <3>1. steps # 1 /\ steps' = steps - 1
      BY <1>1, <2>1
    <3> QED
      BY <1>2, <1>3, <1>4, <1>5, <2>1, <3>1 DEF InLoop
  <2>2. CASE pc' = "done"
    BY <2>2 DEF InLoop
  <2> QED
    BY <1>1, <2>1, <2>2
<1>9. CacheFollowsText'
  BY <1>1 DEF CacheFollowsText
<1> QED
  BY <1>4, <1>7, <1>8, <1>9 DEF GenInv

(* What both steps with a cache do: the cache becomes the text and a token *)
(* follows it.                                                             *)
LEMMA CachedTokenInv ==
    ASSUME GenInv, inputIds # <<>>, NEW t \in Vocabulary, Push(t),
           pc' = IF WantsMore(t) THEN "decode" ELSE "done",
           cache' = Rows, context' = Rows, tensors' \in Nat,
           UNCHANGED <<graph, steps>>
    PROVE  GenInv'
<1>1. TypeOK /\ Aligned
  BY DEF GenInv
<1>2. /\ inputIds' \in Seq(Tokens) /\ imagesSeqMask' \in Seq(BOOLEAN)
      /\ generated' \in Seq(Vocabulary)
      /\ Aligned'
      /\ Len(generated') = Len(generated) + 1
      /\ imagesSeqMask'[Len(inputIds')] = FALSE
      /\ inputIds' # <<>>
  BY <1>1, PushAppendsRow
<1>3. TypeOK'
  <2>1. Rows \in Seq(RowSet)
    BY <1>1, RowsAreText
  <2>2. pc' \in {"decode", "done"}
    OBVIOUS
  <2> QED
    BY <1>1, <1>2, <2>1, <2>2 DEF TypeOK, RowSet
<1>4. InLoop'
  <2>1. Len(generated) \in Nat /\ MaxNewTokens \in Nat
    BY <1>1, LimitsAssumption DEF TypeOK
  <2>2. pc' = "decode" => Len(generated') \in 1..(MaxNewTokens - 1)
    BY <1>2, <2>1 DEF WantsMore
  <2> QED
    BY <1>2, <2>2 DEF InLoop
<1>5. CacheFollowsText'
  BY <1>1, CacheAfterPush
<1> QED
  BY <1>2, <1>3, <1>4, <1>5 DEF GenInv

LEMMA RunPrefillModelInv == GenInv /\ RunPrefillModel => GenInv'
<1> SUFFICES ASSUME GenInv, RunPrefillModel PROVE GenInv'
  OBVIOUS
<1>1. PICK t \in Vocabulary :
        /\ context' = LogitsAt(Fed, Len(inputIds) - 1)
        /\ Push(t)
        /\ pc' = IF WantsMore(t) THEN "decode" ELSE "done"
  BY DEF RunPrefillModel
<1>2. /\ pc = "generate"
      /\ cache' = TrimCache(Fed, Len(inputIds))
      /\ tensors' = graph.prefillPresent
      /\ UNCHANGED <<graph, steps>>
  BY DEF RunPrefillModel
<1>3. TypeOK /\ Aligned /\ inputIds # <<>>
  BY <1>2 DEF GenInv, InLoop
<1>4. context' = Rows /\ cache' = Rows
  BY <1>1, <1>2, <1>3, PaddingIsCutOff
<1>5. tensors' \in Nat
  BY <1>2, <1>3, GraphsAssumption DEF TypeOK, GraphShapes
<1> QED
  BY <1>1, <1>2, <1>3, <1>4, <1>5, CachedTokenInv

LEMMA RunDecodeModelInv == GenInv /\ RunDecodeModel => GenInv'
<1> SUFFICES ASSUME GenInv, RunDecodeModel PROVE GenInv'
  OBVIOUS
<1>1. PICK t \in Vocabulary :
        /\ context' = Extended
        /\ Push(t)
        /\ pc' = IF WantsMore(t) THEN "decode" ELSE "done"
  BY DEF RunDecodeModel
<1>2. /\ pc = "decode"
      /\ cache' = Extended
      /\ tensors' = graph.decodePresent
      /\ UNCHANGED <<graph, steps>>
  BY DEF RunDecodeModel
<1>3. TypeOK /\ inputIds # <<>>
  BY <1>2 DEF GenInv, InLoop
<1>4. Extended = Rows
  BY <1>2, ExtendedIsText
<1>5. tensors' \in Nat
  BY <1>2, <1>3, GraphsAssumption DEF TypeOK, GraphShapes
<1> QED
  BY <1>1, <1>2, <1>3, <1>4, <1>5, CachedTokenInv

LEMMA InferenceFailsInv == GenInv /\ InferenceFails => GenInv'
<1> SUFFICES ASSUME GenInv, InferenceFails PROVE GenInv'
  OBVIOUS
<1>1. pc' = "failed"
  BY DEF InferenceFails
<1>2. UNCHANGED <<graph, inputIds, imagesSeqMask, generated, steps, cache, tensors, context>>
  BY DEF InferenceFails, stateVars, cacheVars
<1> QED
  BY <1>1, <1>2 DEF GenInv, TypeOK, Aligned, InLoop, CacheFollowsText

LEMMA NextInv == GenInv /\ [Next]_vars => GenInv'
<1> SUFFICES ASSUME GenInv, [Next]_vars PROVE GenInv'
  OBVIOUS
<1>1. CASE UNCHANGED vars
  BY <1>1 DEF vars, stateVars, cacheVars, GenInv, TypeOK, Aligned, InLoop, CacheFollowsText, Row
<1>2. CASE Next
  BY <1>2, LoadInv, BuildImagePromptInv, StartFullSequenceInv, RunModelInv,
     RunPrefillModelInv, RunDecodeModelInv, InferenceFailsInv DEF Next
<1> QED
  BY <1>1, <1>2

LEMMA AlwaysGenInv == Spec => []GenInv
  BY InitInv, NextInv, PTL DEF Spec

(* Every variable stays in its type, whatever the graphs are. *)
THEOREM GenerationTypeCorrect == Spec => []TypeOK
<1>1. GenInv => TypeOK
  BY DEF GenInv
<1> QED
  BY <1>1, AlwaysGenInv, PTL

(* The cache a decode graph extends is the text without its last token: no *)
(* padding of a prefill graph, whatever its length, is left in it and no    *)
(* row is lost or taken twice (run_prefill_model, run_decode_model).        *)
THEOREM CacheIsText == Spec => []CacheFollowsText
<1>1. GenInv => CacheFollowsText
  BY DEF GenInv
<1> QED
  BY <1>1, AlwaysGenInv, PTL

(* generation_step_limit lets no full-sequence loop outgrow its graph, for  *)
(* any length of graph and of prompt.                                       *)
THEOREM TextFitsGraph == Spec => []LoopFits
<1>1. GenInv => LoopFits
  <2> SUFFICES ASSUME GenInv, pc = "full" PROVE FeedsFit
    BY DEF LoopFits
  <2>1. /\ graph.fixedLength \in Nat /\ Len(inputIds) \in Nat /\ steps \in Nat
        /\ steps >= 1
        /\ (graph.fixedLength = 0) \/ (Len(inputIds) + steps <= graph.fixedLength + 1)
    BY GraphsAssumption DEF GenInv, InLoop, TypeOK, GraphShapes
  <2> QED
    BY <2>1 DEF FeedsFit
<1> QED
  BY <1>1, AlwaysGenInv, PTL

-----------------------------------------------------------------------------
(* Each step draws a token from the whole text, or is none of the reader's  *)
(* business.                                                                *)
LEMMA TokenIsDrawn ==
    ASSUME GenInv, pc \in {"generate", "full", "decode"},
           NEW t \in Vocabulary, Push(t), context' = Rows,
           pc' \in {"full", "decode", "done"},
           pc' # "done" => t # Eos /\ Len(generated) + 1 < MaxNewTokens
    PROVE  Abstract!Draw(t)
<1>1. /\ Rows' = Append(Rows, <<t, Len(Rows), FALSE>>)
      /\ Len(generated') = Len(generated) + 1
  BY PushAppendsRow DEF GenInv
<1>2. Status = "drawing"
  BY DEF Status
<1>3. Status' = IF pc' = "done" THEN "done" ELSE "drawing"
  BY DEF Status
<1> QED
  BY <1>1, <1>2, <1>3 DEF Abstract!Draw

LEMMA StepIsAbstract == GenInv /\ [Next]_vars => [Abstract!Next]_Abstract!vars
<1> SUFFICES ASSUME GenInv, [Next]_vars
             PROVE  Abstract!Next \/ UNCHANGED Abstract!vars
  OBVIOUS
<1> USE DEF Abstract!vars
<1>0. TypeOK /\ Aligned
  BY DEF GenInv
<1>1. CASE UNCHANGED vars
  BY <1>1 DEF vars, stateVars, cacheVars, Rows, Row, Status
<1>2. CASE Load
  <2>1. pc = "load" /\ pc' \in {"ready", "refused"}
    BY <1>2 DEF Load
  <2>2. UNCHANGED <<inputIds, imagesSeqMask, generated, context>>
    BY <1>2 DEF Load, stateVars
  <2>3. Status = "reading" /\ Status' = "reading"
    BY <2>1 DEF Status
  <2> QED
    BY <2>2, <2>3 DEF Rows, Row
<1>3. CASE BuildImagePrompt
  <2>1. /\ pc = "ready" /\ pc' = "generate"
        /\ UNCHANGED <<generated, context>>
    BY <1>3 DEF BuildImagePrompt, cacheVars
  <2>2. Status = "reading" /\ Status' = "drawing"
    BY <2>1 DEF Status
  <2>3. inputIds' \in Seq(Tokens) /\ inputIds' # <<>>
    BY <1>3, PromptIsText DEF BuildImagePrompt
  <2>4. Len(inputIds') \in Nat \ {0}
    BY <2>3, EmptySeq
  <2>5. Rows' = [i \in 1..Len(inputIds') |-> <<inputIds'[i], i - 1, imagesSeqMask'[i]>>]
    BY DEF Rows, Row
  <2>6. DOMAIN Rows' = 1..Len(inputIds') /\ \A i \in DOMAIN Rows' : Rows'[i][2] = i - 1
    BY <2>5
  <2>7. Rows' # <<>>
    BY <2>4, <2>6
  <2> QED
    BY <2>1, <2>2, <2>6, <2>7 DEF Abstract!Next, Abstract!Read
<1>4. CASE StartFullSequence
  <2>1. /\ pc = "generate" /\ pc' = "full"
        /\ UNCHANGED <<inputIds, imagesSeqMask, generated, context>>
    BY <1>4 DEF StartFullSequence, stateVars
  <2>2. Status = "drawing" /\ Status' = "drawing"
    BY <2>1 DEF Status
  <2> QED
    BY <2>1, <2>2 DEF Rows, Row
<1>5. CASE RunModel
  <2>1. PICK t \in Vocabulary :
          /\ context' = LogitsAt(Fed, Len(inputIds) - 1)
          /\ Push(t)
          /\ pc' = IF t = Eos \/ steps = 1 THEN "done" ELSE "full"
    BY <1>5 DEF RunModel
  <2>2. /\ pc = "full" /\ inputIds # <<>>
        /\ steps >= 1 /\ Len(generated) + steps <= MaxNewTokens
    BY <1>5 DEF RunModel, GenInv, InLoop
  <2>3. context' = Rows
    BY <1>0, <2>1, <2>2, PaddingIsCutOff
  <2>4. steps \in Nat /\ Len(generated) \in Nat /\ MaxNewTokens \in Nat
    BY <1>0, LimitsAssumption DEF TypeOK
  <2>5. pc' # "done" => t # Eos /\ Len(generated) + 1 < MaxNewTokens
    BY <2>1, <2>2, <2>4
  <2>6. Abstract!Draw(t)
    BY <2>1, <2>2, <2>3, <2>5, TokenIsDrawn
  <2> QED
    BY <2>6 DEF Abstract!Next
<1>6. CASE RunPrefillModel
  <2>1. PICK t \in Vocabulary :
          /\ context' = LogitsAt(Fed, Len(inputIds) - 1)
          /\ Push(t)
          /\ pc' = IF WantsMore(t) THEN "decode" ELSE "done"
    BY <1>6 DEF RunPrefillModel
  <2>2. pc = "generate" /\ inputIds # <<>>
    BY <1>6 DEF RunPrefillModel, GenInv, InLoop
  <2>3. context' = Rows
    BY <1>0, <2>1, <2>2, PaddingIsCutOff
  <2>4. Abstract!Draw(t)
    BY <2>1, <2>2, <2>3, TokenIsDrawn DEF WantsMore
  <2> QED
    BY <2>4 DEF Abstract!Next
<1>7. CASE RunDecodeModel
  <2>1. PICK t \in Vocabulary :
          /\ context' = Extended
          /\ Push(t)
          /\ pc' = IF WantsMore(t) THEN "decode" ELSE "done"
    BY <1>7 DEF RunDecodeModel
  <2>2. pc = "decode"
    BY <1>7 DEF RunDecodeModel
  <2>3. Abstract!Draw(t)
    BY <2>1, <2>2, ExtendedIsText, TokenIsDrawn DEF WantsMore
  <2> QED
    BY <2>3 DEF Abstract!Next
<1>8. CASE InferenceFails
  <2>1. /\ pc \in {"ready", "generate", "full", "decode"} /\ pc' = "failed"
        /\ UNCHANGED <<inputIds, imagesSeqMask, generated, context>>
    BY <1>8 DEF InferenceFails, stateVars
  <2>2. Status \in {"reading", "drawing"} /\ Status' = "failed"
    BY <2>1 DEF Status
  <2>3. Rows' = Rows
    BY <2>1 DEF Rows, Row
  <2> QED
    BY <2>1, <2>2, <2>3 DEF Abstract!Next, Abstract!Fail
<1> QED
  BY <1>1, <1>2, <1>3, <1>4, <1>5, <1>6, <1>7, <1>8 DEF Next

(* With or without a cache, and for any prompt and pair of graphs, every    *)
(* token is drawn from the text before it and nothing else.                 *)
THEOREM GenerationRefines == Spec => ImplementsAutoregression
<1>1. Init => Abstract!Init
  BY EmptySeq DEF Init, Abstract!Init, Status
<1> QED
  BY <1>1, AlwaysGenInv, StepIsAbstract, PTL DEF Spec, ImplementsAutoregression, Abstract!Spec

-----------------------------------------------------------------------------
(* Why a loop runs: the mode it is in, and how its count came about *)
LoopReason ==
    /\ pc \notin {"load", "refused"} => (graph.decode => CanSeedDecodeCache)
    /\ pc = "full" =>
        /\ ~CanGenerateWithKvCache
        /\ \/ Len(generated) + steps = MaxNewTokens
           \/ Len(inputIds) + steps = graph.fixedLength + 1
    /\ pc = "decode" => (Len(generated) = 1 => tensors = graph.decodePast)

StopInv == LoopReason /\ StopsForAReason

(* Pushing a token: what the reasons to stop are about *)
LEMMA PushedLast ==
    ASSUME TypeOK, Aligned, NEW t \in Vocabulary, Push(t)
    PROVE  /\ generated'[Len(generated')] = t
           /\ Len(generated') = Len(generated) + 1
           /\ Len(inputIds') = Len(inputIds) + 1
           /\ Len(generated) \in Nat /\ Len(inputIds) \in Nat
<1>1. generated \in Seq(Vocabulary) /\ inputIds \in Seq(Tokens)
  BY DEF TypeOK
<1>2. generated' = Append(generated, t)
  BY DEF Push
<1>3. generated'[Len(generated) + 1] = t /\ Len(generated) \in Nat
  BY <1>1, <1>2, AppendFacts
<1>4. Len(generated') = Len(generated) + 1 /\ Len(inputIds') = Len(inputIds) + 1
  BY PushAppendsRow
<1> QED
  BY <1>1, <1>3, <1>4

LEMMA StopStep == GenInv /\ StopInv /\ [Next]_vars => StopInv'
<1> SUFFICES ASSUME GenInv, StopInv, [Next]_vars PROVE StopInv'
  OBVIOUS
<1> USE DEF StopInv, LoopReason, StopsForAReason, CanGenerateWithKvCache, CanSeedDecodeCache
<1>0. TypeOK /\ Aligned /\ Len(inputIds) \in Nat /\ Len(generated) \in Nat
      /\ graph.fixedLength \in Nat /\ MaxNewTokens \in Nat \ {0}
  BY GraphsAssumption, LimitsAssumption, SMTT(30) DEF GenInv, TypeOK, GraphShapes
<1>1. CASE UNCHANGED vars
  BY <1>1 DEF vars, stateVars, cacheVars
<1>2. CASE Load
  BY <1>2 DEF Load, stateVars
<1>3. CASE BuildImagePrompt
  BY <1>3 DEF BuildImagePrompt
<1>4. CASE StartFullSequence
  <2>1. /\ pc = "generate" /\ pc' = "full" /\ ~CanGenerateWithKvCache
        /\ steps' = GenerationStepLimit
        /\ UNCHANGED <<graph, inputIds, generated>>
    BY <1>4 DEF StartFullSequence, stateVars
  <2>2. Len(generated) = 0
    BY <2>1, EmptySeq DEF GenInv, InLoop
  <2>3. \/ Len(generated') + steps' = MaxNewTokens
        \/ Len(inputIds') + steps' = graph.fixedLength + 1
    BY <1>0, <2>1, <2>2 DEF GenerationStepLimit
  <2> QED
    BY <2>1, <2>3
<1>5. CASE RunModel
  <2>1. PICK t \in Vocabulary :
          /\ Push(t)
          /\ steps' = steps - 1
          /\ pc' = IF t = Eos \/ steps = 1 THEN "done" ELSE "full"
    BY <1>5 DEF RunModel
  <2>2. pc = "full" /\ graph' = graph /\ steps \in Nat
    BY <1>5 DEF RunModel, GenInv, TypeOK
  <2>3. /\ generated'[Len(generated')] = t
        /\ Len(generated') = Len(generated) + 1
        /\ Len(inputIds') = Len(inputIds) + 1
    BY <1>0, <2>1, PushedLast
  <2>4. CASE pc' = "full"
    <3>1. \/ Len(generated') + steps' = MaxNewTokens
          \/ Len(inputIds') + steps' = graph.fixedLength + 1
      BY <1>0, <2>1, <2>2, <2>3
    <3> QED
      BY <2>2, <2>4, <3>1
  <2>5. CASE pc' = "done"
    <3>1. t = Eos \/ steps = 1
      BY <2>1, <2>5
    <3>2. steps = 1 => \/ Len(generated') = MaxNewTokens
                       \/ Len(inputIds') = graph.fixedLength + 1
      BY <1>0, <2>2, <2>3
    <3> QED
      BY <2>2, <2>3, <2>5, <3>1, <3>2
  <2> QED
    BY <2>1, <2>4, <2>5
<1>6. ASSUME NEW t \in Vocabulary, Push(t), graph' = graph,
             pc \in {"generate", "decode"},
             pc' = IF WantsMore(t) THEN "decode" ELSE "done",
             Len(generated) < MaxNewTokens,
             Len(generated) = 0 => tensors' = graph.decodePast
      PROVE  StopInv'
  <2>1. /\ generated'[Len(generated')] = t
        /\ Len(generated') = Len(generated) + 1
    BY <1>0, <1>6, PushedLast
  <2>2. CASE pc' = "decode"
    <3>1. Len(generated') = 1 => tensors' = graph.decodePast
      BY <1>0, <1>6, <2>1
    <3> QED
      BY <1>6, <2>2, <3>1
  <2>3. CASE pc' = "done"
    <3>1. t = Eos \/ Len(generated') = MaxNewTokens
      BY <1>0, <1>6, <2>1, <2>3 DEF WantsMore
    <3> QED
      BY <1>6, <2>1, <2>3, <3>1
  <2> QED
    BY <1>6, <2>2, <2>3
<1>7. CASE RunPrefillModel
  <2>1. /\ pc = "generate" /\ graph' = graph /\ tensors' = graph.decodePast
    BY <1>7 DEF RunPrefillModel
  <2>2. Len(generated) < MaxNewTokens
    BY <1>0, <2>1, EmptySeq DEF GenInv, InLoop
  <2> QED
    BY <1>6, <1>7, <2>1, <2>2 DEF RunPrefillModel
<1>8. CASE RunDecodeModel
  <2>1. pc = "decode" /\ graph' = graph
    BY <1>8 DEF RunDecodeModel
  <2>2. Len(generated) < MaxNewTokens /\ Len(generated) # 0
    BY <1>0, <2>1 DEF GenInv, InLoop
  <2> QED
    BY <1>6, <1>8, <2>1, <2>2 DEF RunDecodeModel
<1>9. CASE InferenceFails
  BY <1>9 DEF InferenceFails
<1> QED
  BY <1>1, <1>2, <1>3, <1>4, <1>5, <1>7, <1>8, <1>9 DEF Next

LEMMA AlwaysStopInv == Spec => []StopInv
<1>1. Init => StopInv
  BY DEF Init, StopInv, LoopReason, StopsForAReason
<1> QED
  BY <1>1, StopStep, AlwaysGenInv, PTL DEF Spec

(* An answer ends at the end-of-sequence token, at max_new_tokens or with a *)
(* full graph, never short of all three.                                    *)
THEOREM StopsOnlyForAReason == Spec => []StopsForAReason
<1>1. StopInv => StopsForAReason
  BY DEF StopInv
<1> QED
  BY <1>1, AlwaysStopInv, PTL

(* The limit of an answer is exact: the loop neither outgrows the graph nor *)
(* stops while another token could be drawn (generation_step_limit).        *)
THEOREM LimitIsExact == Spec => []LimitExact
  BY TextFitsGraph, StopsOnlyForAReason, PTL DEF LimitExact

(* A decode graph that was loaded takes what the prefill graph gives it.    *)
THEOREM DecodeGraphFits == Spec => []FirstDecodeFits
<1>1. GenInv /\ StopInv => FirstDecodeFits
  BY DEF StopInv, LoopReason, FirstDecodeFits, CanGenerateWithKvCache
<1> QED
  BY <1>1, AlwaysGenInv, AlwaysStopInv, PTL

-----------------------------------------------------------------------------
(* The places of the image encoder's rows *)
Slots == {i \in DOMAIN imagesSeqMask : imagesSeqMask[i]}

(* Three parts put in a row, looked at from the middle one: what is in the *)
(* middle is there, and what is beside it is in the first or the last.     *)
LEMMA MiddlePart ==
    ASSUME NEW S, NEW s1 \in Seq(S), NEW s2 \in Seq(S), NEW s3 \in Seq(S)
    PROVE  LET whole == s1 \o s2 \o s3
               first == Len(s1) + 1
               last  == Len(s1) + Len(s2)
           IN  /\ Len(whole) = last + Len(s3)
               /\ DOMAIN whole = 1..Len(whole)
               /\ \A i \in first..last : i - Len(s1) \in 1..Len(s2) /\ whole[i] = s2[i - Len(s1)]
               /\ \A i \in 1..Len(s1) : whole[i] = s1[i]
               /\ \A i \in (last + 1)..Len(whole) :
                     i - last \in 1..Len(s3) /\ whole[i] = s3[i - last]
<1> DEFINE head == s1 \o s2
           whole == head \o s3
           n1 == Len(s1)
           n2 == Len(s2)
           n3 == Len(s3)
<1>1. n1 \in Nat /\ n2 \in Nat /\ n3 \in Nat
  OBVIOUS
<1>2. /\ head \in Seq(S) /\ Len(head) = n1 + n2
      /\ \A i \in 1..(n1 + n2) : head[i] = IF i <= n1 THEN s1[i] ELSE s2[i - n1]
  BY ConcatProperties
<1> HIDE DEF head
<1>3. /\ whole \in Seq(S) /\ Len(whole) = Len(head) + n3
      /\ \A i \in 1..(Len(head) + n3) :
            whole[i] = IF i <= Len(head) THEN head[i] ELSE s3[i - Len(head)]
  <2>1. head \in Seq(S) /\ s3 \in Seq(S)
    BY <1>2
  <2>2. \A p, q \in Seq(S) :
          /\ p \o q \in Seq(S) /\ Len(p \o q) = Len(p) + Len(q)
          /\ \A i \in 1..(Len(p) + Len(q)) :
                (p \o q)[i] = IF i <= Len(p) THEN p[i] ELSE q[i - Len(p)]
    BY ConcatProperties
  <2> QED
    BY <2>1, <2>2, Zenon
<1>4. DOMAIN whole = 1..Len(whole)
  BY <1>3, LenProperties
<1> HIDE DEF whole, n1, n2, n3
<1>5. Len(whole) = n1 + n2 + n3
  BY <1>1, <1>2, <1>3
<1>6. \A i \in (n1 + 1)..(n1 + n2) : i - n1 \in 1..n2 /\ whole[i] = s2[i - n1]
  BY <1>1, <1>2, <1>3
<1>7. \A i \in 1..n1 : whole[i] = s1[i]
  BY <1>1, <1>2, <1>3
<1>8. \A i \in (n1 + n2 + 1)..Len(whole) :
         i - (n1 + n2) \in 1..n3 /\ whole[i] = s3[i - (n1 + n2)]
  BY <1>1, <1>2, <1>3, <1>5
<1> QED
  BY <1>4, <1>5, <1>6, <1>7, <1>8 DEF whole, head, n1, n2, n3

(* The mask of a prompt marks the image tokens put between the two parts of *)
(* the text and no other place, so it marks as many as the encoder fills.   *)
LEMMA PromptMarksItsImage ==
    ASSUME NEW before \in Texts, NEW after \in Texts,
           inputIds' = <<Bos>> \o before \o Repeat(Image, ImageTokenCount) \o after,
           imagesSeqMask' = PromptMask(before, after)
    PROVE  /\ \A i \in DOMAIN imagesSeqMask' : imagesSeqMask'[i] => inputIds'[i] = Image
           /\ Cardinality(Slots') = ImageTokenCount
<1> DEFINE b == Len(before)
           a == Len(after)
           m == ImageTokenCount
           first == b + 2
           last == b + 1 + m
           head == <<Bos>> \o before
           image == Repeat(Image, m)
           none1 == Repeat(FALSE, 1 + b)
           all == Repeat(TRUE, m)
           none2 == Repeat(FALSE, a)
<1>1. m \in Nat
  BY SlotsAreCounted
<1>2. before \in Seq(Tokens) /\ after \in Seq(Tokens) /\ b \in Nat /\ a \in Nat /\ 1 + b \in Nat
  BY TokensAssumption
<1>3. Image \in Tokens /\ <<Bos>> \in Seq(Tokens) /\ Len(<<Bos>>) = 1
  BY DEF Tokens
<1>4. inputIds' = head \o image \o after
  OBVIOUS
<1>5. imagesSeqMask' = none1 \o all \o none2
  BY DEF PromptMask
<1>6. head \in Seq(Tokens) /\ Len(head) = 1 + b
  BY <1>2, <1>3, ConcatProperties
<1>7. /\ image \in Seq(Tokens) /\ Len(image) = m
      /\ \A i \in 1..m : image[i] = Image
  BY <1>1, <1>3, RepeatFacts
<1>8. /\ none1 \in Seq(BOOLEAN) /\ Len(none1) = 1 + b
      /\ \A i \in 1..(1 + b) : none1[i] = FALSE
  <2> HIDE DEF b
  <2>1. FALSE \in BOOLEAN
    OBVIOUS
  <2> QED
    BY <1>2, <2>1, RepeatFacts
<1>9. /\ all \in Seq(BOOLEAN) /\ Len(all) = m
      /\ \A i \in 1..m : all[i] = TRUE
  <2> HIDE DEF m
  <2>1. TRUE \in BOOLEAN
    OBVIOUS
  <2> QED
    BY <1>1, <2>1, RepeatFacts
<1>10. /\ none2 \in Seq(BOOLEAN) /\ Len(none2) = a
       /\ \A i \in 1..a : none2[i] = FALSE
  <2> HIDE DEF a
  <2>1. FALSE \in BOOLEAN
    OBVIOUS
  <2> QED
    BY <1>2, <2>1, RepeatFacts
<1> HIDE DEF b, a, m, head, image, none1, all, none2
<1>11. \A i \in first..last : inputIds'[i] = Image
  <2>1. \A i \in (Len(head) + 1)..(Len(head) + Len(image)) :
           /\ i - Len(head) \in 1..Len(image)
           /\ (head \o image \o after)[i] = image[i - Len(head)]
    BY <1>2, <1>6, <1>7, MiddlePart
  <2>2. \A i \in first..last : i \in (Len(head) + 1)..(Len(head) + Len(image))
    BY <1>1, <1>2, <1>6, <1>7
  <2> QED
    BY <1>4, <1>7, <2>1, <2>2
<1>12. /\ DOMAIN imagesSeqMask' = 1..(last + a)
       /\ \A i \in first..last : imagesSeqMask'[i] = TRUE
       /\ \A i \in 1..(1 + b) : imagesSeqMask'[i] = FALSE
       /\ \A i \in (last + 1)..(last + a) : imagesSeqMask'[i] = FALSE
  <2> DEFINE whole == none1 \o all \o none2
             n1 == Len(none1)
             n2 == Len(all)
  <2>1. /\ Len(whole) = n1 + n2 + Len(none2)
        /\ DOMAIN whole = 1..Len(whole)
        /\ \A i \in (n1 + 1)..(n1 + n2) : i - n1 \in 1..n2 /\ whole[i] = all[i - n1]
        /\ \A i \in 1..n1 : whole[i] = none1[i]
        /\ \A i \in (n1 + n2 + 1)..Len(whole) :
              i - (n1 + n2) \in 1..Len(none2) /\ whole[i] = none2[i - (n1 + n2)]
    BY <1>8, <1>9, <1>10, MiddlePart
  <2>2. whole = imagesSeqMask'
    BY <1>5
  <2> HIDE DEF whole
  <2>3. n1 = 1 + b /\ n2 = m /\ Len(none2) = a
    BY <1>8, <1>9, <1>10
  <2> HIDE DEF n1, n2
  <2>4. n1 + n2 = last /\ n1 + 1 = first /\ Len(whole) = last + a
    BY <1>1, <1>2, <2>1, <2>3
  <2> HIDE DEF first, last
  <2>5. \A i \in first..last : whole[i] = TRUE
    BY <1>9, <2>1, <2>3, <2>4
  <2>6. \A i \in 1..(1 + b) : whole[i] = FALSE
    BY <1>8, <2>1, <2>3
  <2>7. \A i \in (last + 1)..(last + a) : whole[i] = FALSE
    BY <1>10, <2>1, <2>3, <2>4
  <2> QED
    BY <2>1, <2>2, <2>4, <2>5, <2>6, <2>7
<1>13. Slots' = first..last
  <2>1. \A i \in 1..(last + a) : i \in 1..(1 + b) \/ i \in first..last \/ i \in (last + 1)..(last + a)
    BY <1>1, <1>2
  <2>2. first..last \subseteq 1..(last + a)
    BY <1>1, <1>2
  <2>3. Slots' = {i \in DOMAIN imagesSeqMask' : imagesSeqMask'[i]}
    BY DEF Slots
  <2> HIDE DEF first, last
  <2> QED
    BY <1>12, <2>1, <2>2, <2>3
<1>14. Cardinality(first..last) = m
  <2>1. first \in Int /\ last \in Int /\ last - first + 1 = m /\ (first > last => m = 0)
    BY <1>1, <1>2
  <2> HIDE DEF first, last
  <2> QED
    BY <2>1, FS_Interval
<1> QED
  BY <1>11, <1>13, <1>14 DEF Slots, m

(* A pushed token is no slot, and the slots stay where they are. *)
LEMMA PushKeepsSlots ==
    ASSUME TypeOK, MaskMatchesText, NEW t \in Vocabulary, Push(t)
    PROVE  /\ Len(imagesSeqMask') = Len(inputIds')
           /\ \A i \in DOMAIN imagesSeqMask' : imagesSeqMask'[i] => inputIds'[i] = Image
           /\ Slots' = Slots
<1> DEFINE n == Len(inputIds)
<1>1. Len(imagesSeqMask) = n /\ n \in Nat /\ Aligned
  BY DEF MaskMatchesText, Aligned, TypeOK
<1>2. Aligned' /\ Len(inputIds') = n + 1 /\ imagesSeqMask' \in Seq(BOOLEAN)
      /\ imagesSeqMask'[n + 1] = FALSE
  BY <1>1, PushAppendsRow
<1>3. DOMAIN imagesSeqMask = 1..n /\ DOMAIN imagesSeqMask' = 1..(n + 1)
  BY <1>1, <1>2, LenProperties DEF TypeOK, Aligned
<1>4. \A i \in 1..n : inputIds'[i] = inputIds[i] /\ imagesSeqMask'[i] = imagesSeqMask[i]
  <2>1. \A i \in 1..n : Row(i)' = Row(i)
    BY <1>1, PushAppendsRow
  <2> QED
    BY <2>1 DEF Row
<1> HIDE DEF n
<1>5. 1..(n + 1) = (1..n) \cup {n + 1}
  BY <1>1
<1>6. Slots' = Slots
  BY <1>2, <1>3, <1>4, <1>5 DEF Slots
<1>7. \A i \in DOMAIN imagesSeqMask' : imagesSeqMask'[i] => inputIds'[i] = Image
  BY <1>2, <1>3, <1>4, <1>5 DEF MaskMatchesText
<1> QED
  BY <1>2, <1>6, <1>7 DEF Aligned

LEMMA MaskInit == Init => MaskMatchesText
  BY DEF Init, MaskMatchesText

LEMMA MaskStep == GenInv /\ MaskMatchesText /\ [Next]_vars => MaskMatchesText'
<1> SUFFICES ASSUME GenInv, MaskMatchesText, [Next]_vars PROVE MaskMatchesText'
  OBVIOUS
<1>0. TypeOK
  BY DEF GenInv
<1>1. MaskMatchesText <=>
        /\ Len(imagesSeqMask) = Len(inputIds)
        /\ \A i \in DOMAIN imagesSeqMask : imagesSeqMask[i] => inputIds[i] = Image
        /\ pc \notin {"load", "ready", "refused", "failed"} => Cardinality(Slots) = ImageTokenCount
  BY DEF MaskMatchesText, Slots
<1>2. ASSUME UNCHANGED <<inputIds, imagesSeqMask>>,
             pc' = pc \/ pc' \in {"ready", "refused", "failed"} \/ (pc = "generate" /\ pc' = "full")
      PROVE  MaskMatchesText'
  BY <1>2 DEF MaskMatchesText
<1>3. ASSUME NEW t \in Vocabulary, Push(t), pc \in {"generate", "full", "decode"}
      PROVE  MaskMatchesText'
  <2>1. Cardinality(Slots) = ImageTokenCount
    BY <1>1, <1>3
  <2> QED
    BY <1>0, <1>3, <2>1, PushKeepsSlots DEF MaskMatchesText, Slots
<1>4. CASE UNCHANGED vars
  BY <1>2, <1>4 DEF vars, stateVars
<1>5. CASE Load
  BY <1>2, <1>5 DEF Load, stateVars
<1>6. CASE BuildImagePrompt
  <2>1. PICK before \in Texts, after \in Texts :
          /\ inputIds' = <<Bos>> \o before \o Repeat(Image, ImageTokenCount) \o after
          /\ imagesSeqMask' = PromptMask(before, after)
    BY <1>6 DEF BuildImagePrompt
  <2>2. Aligned'
    BY <2>1, PromptIsText
  <2> QED
    BY <2>1, <2>2, PromptMarksItsImage DEF MaskMatchesText, Aligned, Slots
<1>7. CASE StartFullSequence
  BY <1>2, <1>7 DEF StartFullSequence, stateVars
<1>8. CASE RunModel
  BY <1>3, <1>8 DEF RunModel
<1>9. CASE RunPrefillModel
  BY <1>3, <1>9 DEF RunPrefillModel
<1>10. CASE RunDecodeModel
  BY <1>3, <1>10 DEF RunDecodeModel
<1>11. CASE InferenceFails
  BY <1>2, <1>11 DEF InferenceFails, stateVars
<1> QED
  BY <1>4, <1>5, <1>6, <1>7, <1>8, <1>9, <1>10, <1>11 DEF Next

(* The mask marks as many places as the image encoder fills, each at an     *)
(* image token, for any image size and any text: also when the prompt holds *)
(* <image> again behind the one it is split at, or the model answers with   *)
(* one (build_image_prompt, generate).                                      *)
THEOREM SlotsMatchImage == Spec => []MaskMatchesText
  BY MaskInit, MaskStep, AlwaysGenInv, PTL DEF Spec

-----------------------------------------------------------------------------
(***************************************************************************)
(* KvCacheTensors: the cache tensor by tensor                              *)
(***************************************************************************)

(* The names of the first n tensors in the order of strings, whatever order *)
(* a graph lists them in                                                    *)
FirstNames(n) == {NameOrder[i] : i \in 1..n}

InStringOrder(n) == Sorted([i \in 1..n |-> NameOrder[i]])

(* The whole and the rest of a division are what they are made of. *)
LEMMA DivisionUndone ==
    ASSUME NEW q \in Nat, NEW d \in Nat \ {0}, NEW r \in 0..(d - 1)
    PROVE  (q * d + r) \div d = q /\ (q * d + r) % d = r
  OBVIOUS

LEMMA DivisionParts ==
    ASSUME NEW x \in Nat, NEW d \in Nat \ {0}
    PROVE  /\ x = (x \div d) * d + (x % d)
           /\ x % d \in 0..(d - 1)
           /\ x \div d \in Nat
           /\ \A n \in Nat : x < n * d => x \div d < n
  OBVIOUS

LEMMA PlaceInBlocks ==
    ASSUME NEW n \in Nat, NEW d \in Nat, NEW q \in Nat, NEW r \in Nat, q < n, r < d
    PROVE  q * d + r \in Nat /\ q * d + r < n * d
  OBVIOUS

(* A graph that has n tensors lists each of the first n names. *)
LEMMA ListingNamesAll ==
    ASSUME NEW n \in 0..Len(NameOrder), NEW l \in Listings(n)
    PROVE  /\ DOMAIN l = 1..n
           /\ {l[i] : i \in DOMAIN l} = FirstNames(n)
<1> DEFINE N == FirstNames(n)
           inOrder == [i \in 1..n |-> NameOrder[i]]
<1>1. n \in Nat /\ DOMAIN NameOrder = 1..Len(NameOrder) /\ Len(NameOrder) \in Nat
  BY TensorsAssumption, LenProperties
<1>2. IsFiniteSet(1..n) /\ Cardinality(1..n) = n
  BY <1>1, FS_Interval
<1>3. inOrder \in Bijection(1..n, N)
  <2>1. inOrder \in [1..n -> N]
    BY DEF FirstNames
  <2>2. \A i, k \in 1..n : inOrder[i] = inOrder[k] => i = k
    BY <1>1, TensorsAssumption
  <2>3. \A x \in N : \E i \in 1..n : inOrder[i] = x
    BY DEF FirstNames
  <2> QED
    BY <2>1, <2>2, <2>3 DEF Bijection, Injection, Surjection, IsInjective
<1>4. IsFiniteSet(N) /\ Cardinality(N) = n
  BY <1>2, <1>3, FS_Bijection DEF ExistsBijection
<1>5. l \in [1..n -> N] /\ \A i, k \in 1..n : l[i] = l[k] => i = k
  BY DEF Listings, FirstNames
<1>6. l \in Injection(1..n, N)
  BY <1>5 DEF Injection, IsInjective
<1>7. l \in Surjection(1..n, N)
  BY <1>2, <1>4, <1>6, FS_Injection
<1>8. {l[i] : i \in 1..n} = N
  BY <1>5, <1>7 DEF Surjection
<1> QED
  BY <1>5, <1>8

(* Sorting a listing of n names gives those names in one order, whichever   *)
(* way they were listed (KvCacheMetadata::new).                             *)
LEMMA SortedListing ==
    ASSUME NEW n \in 0..Len(NameOrder), NEW l \in Listings(n)
    PROVE  /\ Sorted(l) = InStringOrder(n)
           /\ DOMAIN Sorted(l) = 1..n
           /\ Sorted(l) \in [1..n -> FirstNames(n)]
           /\ \A name \in FirstNames(n) : \E k \in 1..n : Sorted(l)[k] = name
<1> DEFINE N == FirstNames(n)
           inOrder == [i \in 1..n |-> NameOrder[i]]
           Ordered(s) == /\ \A name \in N : \E i \in DOMAIN s : s[i] = name
                         /\ \A i, k \in DOMAIN s : i < k => Position(s[i]) < Position(s[k])
<1>1. n \in Nat /\ DOMAIN NameOrder = 1..Len(NameOrder) /\ Len(NameOrder) \in Nat
  BY TensorsAssumption, LenProperties
<1>2. DOMAIN l = 1..n /\ {l[i] : i \in DOMAIN l} = N
  BY ListingNamesAll
<1>3. Sorted(l) = CHOOSE s \in [1..n -> N] : Ordered(s)
  BY <1>2 DEF Sorted
<1>4. DOMAIN inOrder = 1..n /\ {inOrder[i] : i \in DOMAIN inOrder} = N
  BY DEF FirstNames
<1>5. Sorted(inOrder) = CHOOSE s \in [1..n -> N] : Ordered(s)
  BY <1>4 DEF Sorted
<1>6. \A i \in 1..n : Position(NameOrder[i]) = i
  <2> SUFFICES ASSUME NEW i \in 1..n PROVE Position(NameOrder[i]) = i
    OBVIOUS
  <2>1. i \in DOMAIN NameOrder
    BY <1>1
  <2>2. \A k \in DOMAIN NameOrder : NameOrder[k] = NameOrder[i] => k = i
    BY <2>1, TensorsAssumption
  <2> QED
    BY <2>1, <2>2 DEF Position
<1>7. inOrder \in [1..n -> N] /\ Ordered(inOrder)
  <2>1. inOrder \in [1..n -> N]
    BY DEF FirstNames
  <2>2. \A name \in N : \E i \in 1..n : inOrder[i] = name
    BY DEF FirstNames
  <2>3. \A i, k \in 1..n : i < k => Position(inOrder[i]) < Position(inOrder[k])
    BY <1>6
  <2> QED
    BY <2>1, <2>2, <2>3
<1> HIDE DEF Ordered, inOrder
<1>8. Sorted(l) \in [1..n -> N] /\ Ordered(Sorted(l))
  BY <1>3, <1>7
<1>9. Sorted(l) = InStringOrder(n)
  BY <1>3, <1>5 DEF InStringOrder, inOrder
<1> QED
  BY <1>8, <1>9 DEF Ordered

(* One head of a tensor holds this many rows; a tensor has this many heads. *)
HeadsOfAll == BatchSize * Heads

LEMMA SizesAreNumbers ==
    /\ HeadsOfAll \in Nat \ {0}
    /\ HeadDim \in Nat \ {0}
    /\ \A n \in Nat : n * HeadDim \in Nat /\ HeadsOfAll * (n * HeadDim) \in Nat
<1>1. BatchSize \in Nat \ {0} /\ Heads \in Nat \ {0} /\ HeadDim \in Nat \ {0}
  BY TensorsAssumption
<1>2. \A n \in Nat : n * HeadDim \in Nat
  BY <1>1
<1>3. BatchSize * Heads \in Nat \ {0}
  BY <1>1
<1> DEFINE all == BatchSize * Heads
<1>4. \A m \in Nat : all * m \in Nat
  <2> HIDE DEF all
  <2> QED
    BY <1>3 DEF all
<1> QED
  BY <1>1, <1>2, <1>3, <1>4 DEF HeadsOfAll

(* A place of a tensor, counted from 0: the head, the row and the dimension *)
LEMMA TensorEntry ==
    ASSUME NEW S, NEW rows \in Seq(S), NEW name,
           NEW h \in 0..(HeadsOfAll - 1), NEW q \in 0..(Len(rows) * HeadDim - 1)
    PROVE  LET x == h * (Len(rows) * HeadDim) + q
           IN  /\ x + 1 \in 1..(HeadsOfAll * (Len(rows) * HeadDim))
               /\ Flat(name, rows)[x + 1] =
                    [name |-> name, head |-> h,
                     row |-> rows[(q \div HeadDim) + 1], dim |-> q % HeadDim]
<1> DEFINE stride == Len(rows) * HeadDim
           x == h * stride + q
           n == HeadsOfAll * stride
<1>1. stride \in Nat \ {0} /\ HeadsOfAll \in Nat \ {0}
  <2>1. stride \in Nat
    BY SizesAreNumbers, LenProperties
  <2> HIDE DEF stride
  <2>2. q \in 0..(stride - 1)
    BY DEF stride
  <2> QED
    BY <2>1, <2>2, SizesAreNumbers
<1>2. h \in Nat /\ h < HeadsOfAll
  BY <1>1
<1>3. q \in Nat /\ q < stride /\ q \in 0..(stride - 1)
  <2>1. q \in 0..(stride - 1)
    OBVIOUS
  <2> HIDE DEF stride
  <2> QED
    BY <1>1, <2>1
<1>4. Flat(name, rows) =
        [i \in 1..n |->
            [name |-> name, head |-> (i - 1) \div stride,
             row |-> rows[(((i - 1) % stride) \div HeadDim) + 1],
             dim |-> ((i - 1) % stride) % HeadDim]]
  BY DEF Flat, HeadsOfAll
<1> HIDE DEF stride
<1>5. x \in Nat /\ x < n
  BY <1>1, <1>2, <1>3, PlaceInBlocks
<1>6. n \in Nat
  BY <1>1
<1>7. x \div stride = h /\ x % stride = q
  BY <1>1, <1>2, <1>3, DivisionUndone
<1> HIDE DEF x, n
<1>8. x + 1 \in 1..n /\ (x + 1) - 1 = x
  BY <1>5, <1>6
<1>9. Flat(name, rows)[x + 1] =
        [name |-> name, head |-> h, row |-> rows[(q \div HeadDim) + 1], dim |-> q % HeadDim]
  BY <1>4, <1>7, <1>8
<1> QED
  BY <1>8, <1>9 DEF x, n, stride

(* Every place of a tensor of n rows is such a place.                       *)
LEMMA TensorPlaces ==
    ASSUME NEW n \in Nat, NEW i \in 1..(HeadsOfAll * (n * HeadDim))
    PROVE  LET h == (i - 1) \div (n * HeadDim)
               q == (i - 1) % (n * HeadDim)
           IN  /\ n * HeadDim \in Nat \ {0}
               /\ h \in 0..(HeadsOfAll - 1)
               /\ q \in 0..(n * HeadDim - 1)
               /\ i = h * (n * HeadDim) + q + 1
               /\ q \div HeadDim \in 0..(n - 1)
               /\ q % HeadDim \in 0..(HeadDim - 1)
<1> DEFINE stride == n * HeadDim
           x == i - 1
           h == x \div stride
           q == x % stride
<1>1. stride \in Nat /\ HeadsOfAll \in Nat \ {0} /\ HeadDim \in Nat \ {0}
      /\ HeadsOfAll * stride \in Nat
  BY SizesAreNumbers
<1> HIDE DEF stride
<1>2. x \in Nat /\ x < HeadsOfAll * stride /\ i = x + 1
  BY <1>1 DEF stride
<1> HIDE DEF x
<1>3. stride # 0
  BY <1>1, <1>2
<1>4. x = h * stride + q /\ q \in 0..(stride - 1) /\ h \in Nat /\ h < HeadsOfAll
  BY <1>1, <1>2, <1>3, DivisionParts
<1> HIDE DEF h, q
<1>5. q \in Nat /\ q < n * HeadDim
  BY <1>1, <1>4 DEF stride
<1>6. q \div HeadDim \in Nat /\ q \div HeadDim < n /\ q % HeadDim \in 0..(HeadDim - 1)
  BY <1>1, <1>5, DivisionParts
<1>7. h \in 0..(HeadsOfAll - 1) /\ q \div HeadDim \in 0..(n - 1)
  BY <1>1, <1>4, <1>6
<1> QED
  BY <1>1, <1>2, <1>3, <1>4, <1>6, <1>7 DEF x, h, q, stride

LEMMA TensorDomain ==
    ASSUME NEW name, NEW rows
    PROVE  /\ Flat(name, rows) = [i \in 1..(HeadsOfAll * (Len(rows) * HeadDim)) |-> Flat(name, rows)[i]]
           /\ DOMAIN Flat(name, rows) = 1..(HeadsOfAll * (Len(rows) * HeadDim))
  BY DEF Flat, HeadsOfAll

(* trim_typed_cache_tensor keeps of every head its own first rows: cutting  *)
(* the tensor is computing it from the cut text.                            *)
LEMMA TrimmedTensor ==
    ASSUME NEW S, NEW rows \in Seq(S), NEW n \in 1..Len(rows), NEW name
    PROVE  Trimmed(Flat(name, rows), Len(rows), n) = Flat(name, SubSeq(rows, 1, n))
<1> DEFINE total == Len(rows)
           cut == SubSeq(rows, 1, n)
           size == HeadsOfAll * (n * HeadDim)
           h(i) == (i - 1) \div (n * HeadDim)
           q(i) == (i - 1) % (n * HeadDim)
<1>1. n \in Nat /\ total \in Nat /\ n <= total
  BY LenProperties
<1>2. cut \in Seq(S) /\ Len(cut) = n /\ \A j \in 1..n : cut[j] = rows[j]
  BY <1>1, SubSeqProperties
<1>3. Trimmed(Flat(name, rows), total, n) =
        [i \in 1..size |-> Flat(name, rows)[h(i) * (total * HeadDim) + q(i) + 1]]
  BY DEF Trimmed, HeadsOfAll
<1> HIDE DEF total, cut
<1>4. ASSUME NEW i \in 1..size
      PROVE  Flat(name, rows)[h(i) * (total * HeadDim) + q(i) + 1] = Flat(name, cut)[i]
  <2>1. /\ n * HeadDim \in Nat \ {0}
        /\ h(i) \in 0..(HeadsOfAll - 1)
        /\ q(i) \in 0..(n * HeadDim - 1)
        /\ i = h(i) * (n * HeadDim) + q(i) + 1
        /\ q(i) \div HeadDim \in 0..(n - 1)
    BY <1>1, TensorPlaces
  <2> HIDE DEF h, q
  <2>2. q(i) \in 0..(total * HeadDim - 1)
    <3>1. n * HeadDim <= total * HeadDim /\ total * HeadDim \in Nat
      BY <1>1, SizesAreNumbers
    <3> QED
      BY <2>1, <3>1
  <2>3. Flat(name, rows)[h(i) * (total * HeadDim) + q(i) + 1] =
          [name |-> name, head |-> h(i), row |-> rows[(q(i) \div HeadDim) + 1], dim |-> q(i) % HeadDim]
    BY <2>1, <2>2, TensorEntry DEF total
  <2>4. Flat(name, cut)[h(i) * (n * HeadDim) + q(i) + 1] =
          [name |-> name, head |-> h(i), row |-> cut[(q(i) \div HeadDim) + 1], dim |-> q(i) % HeadDim]
    <3>1. q(i) \in 0..(Len(cut) * HeadDim - 1)
      BY <1>2, <2>1
    <3> QED
      BY <1>2, <2>1, <3>1, TensorEntry
  <2>5. (q(i) \div HeadDim) + 1 \in 1..n
    BY <1>1, <2>1
  <2>6. Flat(name, cut)[i] = Flat(name, cut)[h(i) * (n * HeadDim) + q(i) + 1]
    BY <2>1
  <2> QED
    BY <1>2, <2>3, <2>4, <2>5, <2>6
<1>5. Flat(name, cut) = [i \in 1..size |-> Flat(name, cut)[i]]
  BY <1>2, TensorDomain
<1> QED
  BY <1>3, <1>4, <1>5 DEF total, cut

(* The graph's own concatenation: a row more for every head is the tensor   *)
(* of the longer text.                                                      *)
LEMMA GrownTensor ==
    ASSUME NEW S, NEW rows \in Seq(S), NEW row \in S, NEW name, rows # <<>>,
           \E i \in DOMAIN pastNames : pastNames[i] = name,
           FedAs(name) = Flat(name, rows)
    PROVE  Grown(name, row) = Flat(name, Append(rows, row))
<1> DEFINE n == Len(rows)
           longer == Append(rows, row)
           old == Flat(name, rows)
           size == HeadsOfAll * ((n + 1) * HeadDim)
           stride == (n + 1) * HeadDim
           h(i) == (i - 1) \div stride
           q(i) == (i - 1) % stride
<1>1. n \in Nat \ {0} /\ HeadsOfAll \in Nat \ {0} /\ HeadDim \in Nat \ {0}
  BY EmptySeq, LenProperties, SizesAreNumbers
<1>2. /\ longer \in Seq(S) /\ Len(longer) = n + 1
      /\ longer[n + 1] = row /\ \A j \in 1..n : longer[j] = rows[j]
  BY AppendFacts
<1> HIDE DEF n
<1>3. Len(old) \div (BatchSize * Heads) = n * HeadDim
  <2>1. n * HeadDim \in Nat /\ HeadsOfAll * (n * HeadDim) \in Nat
    BY <1>1, SizesAreNumbers
  <2>2. old \in [1..(HeadsOfAll * (n * HeadDim)) -> {old[i] : i \in DOMAIN old}]
    BY TensorDomain DEF n
  <2>3. Len(old) = HeadsOfAll * (n * HeadDim)
    BY <2>1, <2>2, EntriesMakeASeq
  <2> DEFINE s == n * HeadDim
  <2> HIDE DEF s
  <2>4. HeadsOfAll * s = s * HeadsOfAll + 0
    BY <1>1, <2>1 DEF s
  <2>5. (s * HeadsOfAll + 0) \div HeadsOfAll = s
    BY <1>1, <2>1, DivisionUndone DEF s
  <2> QED
    BY <2>3, <2>4, <2>5 DEF s, HeadsOfAll
<1>4. n * HeadDim + HeadDim = stride
  BY <1>1
<1> DEFINE grown(i) == IF q(i) < n * HeadDim THEN old[h(i) * (n * HeadDim) + q(i) + 1]
                       ELSE [name |-> name, head |-> h(i), row |-> row, dim |-> q(i) - n * HeadDim]
<1>5. Grown(name, row) = [i \in 1..size |-> grown(i)]
  <2> HIDE DEF stride
  <2>1. (IF \E i \in DOMAIN pastNames : pastNames[i] = name THEN FedAs(name) ELSE <<>>) = old
    OBVIOUS
  <2> HIDE DEF old
  <2> QED
    BY <1>3, <1>4, <2>1 DEF Grown, HeadsOfAll, stride
<1>6. ASSUME NEW i \in 1..size PROVE grown(i) = Flat(name, longer)[i]
  <2>1. /\ stride \in Nat \ {0}
        /\ h(i) \in 0..(HeadsOfAll - 1)
        /\ q(i) \in 0..(stride - 1)
        /\ i = h(i) * stride + q(i) + 1
        /\ q(i) \div HeadDim \in 0..n
        /\ q(i) % HeadDim \in 0..(HeadDim - 1)
    <3>1. n + 1 \in Nat /\ (n + 1) - 1 = n
      BY <1>1
    <3> QED
      BY <3>1, TensorPlaces
  <2> HIDE DEF h, q, old, longer
  <2>2. Flat(name, longer)[i] =
          [name |-> name, head |-> h(i), row |-> longer[(q(i) \div HeadDim) + 1], dim |-> q(i) % HeadDim]
    BY <1>2, <2>1, TensorEntry, SMTT(30)
  <2>3. n * HeadDim \in Nat /\ q(i) \in Nat
    BY <1>1, <2>1, SizesAreNumbers
  <2>4. CASE q(i) < n * HeadDim
    <3>1. q(i) \in 0..(Len(rows) * HeadDim - 1)
      BY <2>3, <2>4 DEF n
    <3>2. old[h(i) * (n * HeadDim) + q(i) + 1] =
            [name |-> name, head |-> h(i), row |-> rows[(q(i) \div HeadDim) + 1], dim |-> q(i) % HeadDim]
      BY <2>1, <3>1, TensorEntry DEF n, old
    <3>3. q(i) \div HeadDim < n /\ q(i) \div HeadDim \in Nat
      BY <1>1, <2>3, <2>4, DivisionParts
    <3>4. (q(i) \div HeadDim) + 1 \in 1..n
      BY <1>1, <3>3
    <3> QED
      BY <1>2, <2>2, <2>4, <3>2, <3>4
  <2>5. CASE ~(q(i) < n * HeadDim)
    <3> DEFINE d == q(i) - n * HeadDim
    <3>1. d \in 0..(HeadDim - 1) /\ q(i) = n * HeadDim + d
      <4>1. n * HeadDim + HeadDim = stride
        BY <1>4
      <4> HIDE DEF stride
      <4> DEFINE s == n * HeadDim
      <4>2. s \in Nat /\ s + HeadDim = stride /\ q(i) >= s
        BY <2>3, <2>5, <4>1
      <4> HIDE DEF s
      <4>3. q(i) - s \in 0..(HeadDim - 1) /\ q(i) = s + (q(i) - s)
        BY <1>1, <2>1, <2>3, <4>2, SMTT(30)
      <4> QED
        BY <4>3 DEF s
    <3> HIDE DEF d
    <3>2. q(i) \div HeadDim = n /\ q(i) % HeadDim = d
      BY <1>1, <3>1, DivisionUndone
    <3> QED
      BY <1>2, <2>2, <2>5, <3>2 DEF d
  <2> QED
    BY <2>4, <2>5
<1>7. Flat(name, longer) = [i \in 1..size |-> Flat(name, longer)[i]]
  BY <1>2, TensorDomain
<1> HIDE DEF grown, size, longer
<1> QED
  BY <1>5, <1>6, <1>7 DEF longer

(* The names a graph lists never change, and what the values at hand are:   *)
(* for each of the tensors, in the order of their names, the tensor that    *)
(* was computed from the text without its last token.  A decode graph that  *)
(* gives another number of tensors than it takes is not run again.          *)
NamesListed ==
    /\ presentNames \in Listings(graph.prefillPresent)
    /\ pastNames \in Listings(graph.decodePast)
    /\ decodeNames \in Listings(graph.decodePresent)

ValuesHoldCache ==
    pc = "decode" /\ tensors = graph.decodePast =>
        /\ cache # <<>>
        /\ values = [k \in 1..tensors |-> Flat(InStringOrder(tensors)[k], cache)]

TensorInv == NamesListed /\ ValuesHoldCache

LEMMA CountsOfTensors ==
    ASSUME TypeOK
    PROVE  /\ graph.prefillPresent \in 0..Len(NameOrder)
           /\ graph.decodePast \in 0..Len(NameOrder)
           /\ graph.decodePresent \in 0..Len(NameOrder)
  BY TensorsAssumption DEF TypeOK

(* KvCacheTensors takes the steps of Generation. *)
LEMMA TensorStepIsStep == [TensorNext]_tensorVars => [Next]_vars
  BY DEF TensorNext, tensorVars, Prefill, Decode, Elsewhere, Next

LEMMA TensorSpecIsSpec == TensorSpec => Spec
<1>1. TensorInit => Init
  BY DEF TensorInit
<1> QED
  BY <1>1, TensorStepIsStep, PTL DEF TensorSpec, Spec

LEMMA PrefillTensors == GenInv /\ TensorInv /\ Prefill => TensorInv'
<1> SUFFICES ASSUME GenInv, TensorInv, Prefill PROVE TensorInv'
  OBVIOUS
<1> DEFINE n == graph.prefillPresent
           names == Sorted(presentNames)
<1>1. /\ pc = "generate"
      /\ cache' = TrimCache(Fed, Len(inputIds))
      /\ tensors' = n
      /\ graph' = graph
      /\ UNCHANGED <<presentNames, pastNames, decodeNames>>
      /\ values' = [k \in DOMAIN names |->
                      Trimmed(Flat(names[k], Fed), Len(Fed), Len(inputIds))]
  BY DEF Prefill, RunPrefillModel, namesVars
<1>2. TypeOK /\ Aligned /\ inputIds # <<>>
  BY <1>1 DEF GenInv, InLoop
<1>3. cache' = Rows /\ Rows # <<>> /\ Len(inputIds) \in Nat \ {0}
  <2>1. Len(Rows) = Len(inputIds) /\ Len(inputIds) \in Nat \ {0}
    BY <1>2, RowsAreText, EmptySeq DEF TypeOK
  <2>2. Rows # <<>>
    BY <2>1
  <2> QED
    BY <1>1, <1>2, <2>1, <2>2, PaddingIsCutOff
<1>4. names = InStringOrder(n) /\ DOMAIN names = 1..n
  BY <1>2, CountsOfTensors, SortedListing DEF TensorInv, NamesListed
<1>5. Fed \in Seq(RowSet) /\ Len(inputIds) \in 1..Len(Fed)
  BY <1>2, <1>3, FedIsPadded
<1> HIDE DEF names, n
<1>6. \A k \in 1..n : Trimmed(Flat(names[k], Fed), Len(Fed), Len(inputIds)) = Flat(names[k], cache')
  <2> SUFFICES ASSUME NEW k \in 1..n
               PROVE  Trimmed(Flat(names[k], Fed), Len(Fed), Len(inputIds)) = Flat(names[k], cache')
    OBVIOUS
  <2>1. Trimmed(Flat(names[k], Fed), Len(Fed), Len(inputIds))
          = Flat(names[k], SubSeq(Fed, 1, Len(inputIds)))
    BY <1>5, TrimmedTensor
  <2> QED
    BY <1>1, <2>1 DEF TrimCache
<1>7. values' = [k \in 1..n |-> Flat(InStringOrder(n)[k], cache')]
  BY <1>1, <1>4, <1>6
<1>8. ValuesHoldCache'
  BY <1>1, <1>3, <1>7 DEF ValuesHoldCache
<1>9. NamesListed'
  BY <1>1 DEF TensorInv, NamesListed, Listings
<1> QED
  BY <1>8, <1>9 DEF TensorInv

LEMMA DecodeTensors == GenInv /\ TensorInv /\ Decode => TensorInv'
<1> SUFFICES ASSUME GenInv, TensorInv, Decode PROVE TensorInv'
  OBVIOUS
<1> DEFINE n == graph.decodePast
           names == Sorted(decodeNames)
           row == Extended[Len(Extended)]
<1>1. /\ pc = "decode" /\ tensors = n
      /\ cache' = Extended
      /\ tensors' = graph.decodePresent
      /\ graph' = graph
      /\ UNCHANGED <<presentNames, pastNames, decodeNames>>
      /\ values' = [k \in DOMAIN names |-> Grown(names[k], row)]
  BY DEF Decode, RunDecodeModel, namesVars
<1>2. TypeOK /\ Aligned
  BY DEF GenInv
<1>3. /\ cache # <<>>
      /\ values = [k \in 1..n |-> Flat(InStringOrder(n)[k], cache)]
  BY <1>1 DEF TensorInv, ValuesHoldCache
<1>4. NamesListed'
  BY <1>1 DEF TensorInv, NamesListed, Listings
<1>5. row \in RowSet /\ Extended = Append(cache, row) /\ cache \in Seq(RowSet) /\ Extended # <<>>
  <2> DEFINE last == <<inputIds[Len(inputIds)], DecodePosition, FALSE>>
  <2>1. Extended = Append(cache, last)
    BY DEF Extended
  <2>2. cache \in Seq(RowSet)
    BY <1>2 DEF TypeOK, RowSet
  <2>3. inputIds # <<>> /\ inputIds \in Seq(Tokens)
    BY <1>1, <1>2 DEF GenInv, InLoop, TypeOK
  <2>4. last \in RowSet
    <3>1. Len(inputIds) \in Nat \ {0}
      BY <2>3, EmptySeq
    <3>2. Len(inputIds) - 1 \in Nat /\ inputIds[Len(inputIds)] \in Tokens
      BY <2>3, <3>1
    <3> QED
      BY <3>2 DEF DecodePosition, RowSet
  <2> HIDE DEF last
  <2>5. Len(Extended) = Len(cache) + 1 /\ Extended[Len(cache) + 1] = last /\ Len(cache) \in Nat
    BY <2>1, <2>2, <2>4, AppendFacts
  <2>6. Extended # <<>>
    BY <2>5
  <2> QED
    BY <2>1, <2>2, <2>4, <2>5, <2>6
<1>6. CASE graph.decodePresent = n
  <2>1. /\ names = InStringOrder(n) /\ DOMAIN names = 1..n
        /\ names \in [1..n -> FirstNames(n)]
    BY <1>2, <1>6, CountsOfTensors, SortedListing DEF TensorInv, NamesListed
  <2>2. /\ Sorted(pastNames) = InStringOrder(n) /\ DOMAIN Sorted(pastNames) = 1..n
        /\ \A name \in FirstNames(n) : \E k \in 1..n : Sorted(pastNames)[k] = name
        /\ DOMAIN pastNames = 1..n
        /\ {pastNames[i] : i \in DOMAIN pastNames} = FirstNames(n)
    BY <1>2, CountsOfTensors, SortedListing, ListingNamesAll DEF TensorInv, NamesListed
  <2> HIDE DEF names, n, row
  <2>3. \A k \in 1..n : Grown(names[k], row) = Flat(names[k], Extended)
    <3> SUFFICES ASSUME NEW k \in 1..n PROVE Grown(names[k], row) = Flat(names[k], Extended)
      OBVIOUS
    <3>1. names[k] \in FirstNames(n)
      BY <2>1
    <3>2. \E i \in DOMAIN pastNames : pastNames[i] = names[k]
      BY <2>2, <3>1
    <3>3. FedAs(names[k]) = Flat(names[k], cache)
      <4>1. PICK c \in 1..n : /\ Sorted(pastNames)[c] = names[k]
                              /\ FedAs(names[k]) = values[c]
        <5> DEFINE c == CHOOSE place \in DOMAIN Sorted(pastNames) : Sorted(pastNames)[place] = names[k]
        <5>1. c \in DOMAIN Sorted(pastNames) /\ Sorted(pastNames)[c] = names[k]
          BY <2>2, <3>1
        <5>2. FedAs(names[k]) = values[c]
          BY DEF FedAs
        <5> QED
          BY <2>2, <5>1, <5>2
      <4> QED
        BY <1>3, <2>2, <4>1
    <3> QED
      BY <1>3, <1>5, <3>2, <3>3, GrownTensor
  <2>4. values' = [k \in 1..n |-> Flat(InStringOrder(n)[k], cache')]
    BY <1>1, <2>1, <2>3
  <2>5. tensors' = n
    BY <1>1, <1>6
  <2>6. ValuesHoldCache'
    BY <1>1, <1>5, <2>4, <2>5 DEF ValuesHoldCache
  <2> QED
    BY <1>4, <2>6 DEF TensorInv
<1>7. CASE graph.decodePresent # n
  BY <1>1, <1>4, <1>7 DEF TensorInv, ValuesHoldCache
<1> QED
  BY <1>6, <1>7

LEMMA TensorStep == GenInv /\ TensorInv /\ [TensorNext]_tensorVars => TensorInv'
<1> SUFFICES ASSUME GenInv, TensorInv, [TensorNext]_tensorVars PROVE TensorInv'
  OBVIOUS
<1>1. CASE UNCHANGED tensorVars
  BY <1>1 DEF tensorVars, vars, stateVars, cacheVars, namesVars, TensorInv, NamesListed, ValuesHoldCache
<1>2. CASE Elsewhere
  <2>1. pc' # "decode" /\ graph' = graph
    BY <1>2 DEF Elsewhere, Load, BuildImagePrompt, StartFullSequence, RunModel, InferenceFails
  <2>2. UNCHANGED <<presentNames, pastNames, decodeNames>>
    BY <1>2 DEF Elsewhere, namesVars
  <2> QED
    BY <2>1, <2>2 DEF TensorInv, NamesListed, ValuesHoldCache, Listings
<1>3. CASE Prefill
  BY <1>3, PrefillTensors
<1>4. CASE Decode
  BY <1>4, DecodeTensors
<1> QED
  BY <1>1, <1>2, <1>3, <1>4 DEF TensorNext

LEMMA AlwaysTensorInv == TensorSpec => [](GenInv /\ TensorInv)
<1>1. TensorInit => TensorInv
  BY DEF TensorInit, Init, TensorInv, NamesListed, ValuesHoldCache
<1> QED
  BY <1>1, TensorStep, TensorSpecIsSpec, AlwaysGenInv, PTL DEF TensorSpec

(* The cache is the text without its last token as one sequence. *)
LEMMA CacheIsPrefix ==
    ASSUME GenInv, pc = "decode"
    PROVE  cache = SubSeq(Rows, 1, Len(inputIds) - 1)
<1> DEFINE n == Len(cache)
           prefix == SubSeq(Rows, 1, n)
<1>1. TypeOK /\ Aligned
  BY DEF GenInv
<1>2. cache \in Seq(RowSet) /\ n \in Nat
  BY <1>1 DEF TypeOK, RowSet
<1>3. Len(inputIds) = n + 1 /\ \A i \in 1..n : cache[i] = Row(i)
  BY <1>2, LenProperties DEF GenInv, CacheFollowsText
<1>4. Rows \in Seq(RowSet) /\ Len(Rows) = n + 1 /\ \A i \in 1..(n + 1) : Rows[i] = Row(i)
  BY <1>1, <1>3, RowsAreText
<1>5. Len(inputIds) - 1 = n
  BY <1>2, <1>3
<1> HIDE DEF n
<1>6. prefix \in Seq(RowSet) /\ Len(prefix) = n /\ \A i \in 1..n : prefix[i] = Rows[i]
  BY <1>2, <1>4, SubSeqProperties
<1>7. \A i \in 1..n : prefix[i] = cache[i]
  BY <1>2, <1>3, <1>4, <1>6
<1>8. cache = prefix
  BY <1>2, <1>6, <1>7, SeqEqual DEF n
<1> QED
  BY <1>5, <1>8

LEMMA TensorsFollow == GenInv /\ TensorInv => LayersHoldText
<1> SUFFICES ASSUME GenInv, TensorInv, pc = "decode", tensors = graph.decodePast
             PROVE  LayersHoldText
  BY DEF LayersHoldText
<1>1. values = [k \in 1..tensors |-> Flat(InStringOrder(tensors)[k], cache)]
  BY DEF TensorInv, ValuesHoldCache
<1>2. TypeOK
  BY DEF GenInv
<1>3. Sorted(pastNames) = InStringOrder(tensors) /\ DOMAIN Sorted(pastNames) = 1..tensors
  BY <1>2, CountsOfTensors, SortedListing DEF TensorInv, NamesListed
<1>4. cache = SubSeq(Rows, 1, Len(inputIds) - 1)
  BY CacheIsPrefix
<1> QED
  BY <1>1, <1>3, <1>4 DEF LayersHoldText

(* For any number of layers, batches, heads and dimensions, any order the   *)
(* graphs list their tensors in, any padding and any number of steps: each  *)
(* value fed to the decode graph belongs to the layer it is fed for, and    *)
(* each of its heads holds its own rows of the text and nothing else        *)
(* (collect_present_cache_trimmed, trim_typed_cache_tensor,                 *)
(* make_decode_feeds).                                                      *)
THEOREM TensorsAreText == TensorSpec => []TensorsHoldText
<1>1. TensorSpec => []FirstDecodeFits
  BY TensorSpecIsSpec, DecodeGraphFits
<1> QED
  BY <1>1, AlwaysTensorInv, TensorsFollow, PTL DEF TensorsHoldText

-----------------------------------------------------------------------------
(***************************************************************************)
(* Drawing a token                                                         *)
(***************************************************************************)
Below(I, i) == {k \in I : k < i}

(* The elements of a finite set of integers, counted from the least: every *)
(* rank is taken, by one element.                                           *)
LEMMA RankFacts ==
    ASSUME NEW I \in SUBSET Int, IsFiniteSet(I)
    PROVE  /\ Cardinality(I) \in Nat
           /\ \A i \in I : Cardinality(Below(I, i)) \in 0..(Cardinality(I) - 1)
           /\ \A i, j \in I : i < j => Cardinality(Below(I, i)) < Cardinality(Below(I, j))
           /\ \A n \in 0..(Cardinality(I) - 1) : \E i \in I : Cardinality(Below(I, i)) = n
<1> DEFINE n == Cardinality(I)
           rank == [i \in I |-> Cardinality(Below(I, i))]
<1>1. n \in Nat
  BY FS_CardinalityType
<1>2. ASSUME NEW i \in I
      PROVE  IsFiniteSet(Below(I, i)) /\ rank[i] \in Nat /\ rank[i] < n
  <2>1. Below(I, i) \subseteq I \ {i}
    BY DEF Below
  <2>2. IsFiniteSet(I \ {i}) /\ Cardinality(I \ {i}) = n - 1
    BY FS_RemoveElement
  <2>3. IsFiniteSet(Below(I, i)) /\ Cardinality(Below(I, i)) <= n - 1
    BY <2>1, <2>2, FS_Subset
  <2>4. Cardinality(Below(I, i)) \in Nat
    BY <2>3, FS_CardinalityType
  <2> QED
    BY <1>1, <2>3, <2>4
<1>3. ASSUME NEW i \in I, NEW j \in I, i < j
      PROVE  rank[i] < rank[j]
  <2>1. Below(I, i) \cup {i} \subseteq Below(I, j) /\ i \notin Below(I, i)
    <3>1. ASSUME NEW k \in I, k < i PROVE k < j
      BY <1>3, <3>1
    <3>2. ~(i < i)
      OBVIOUS
    <3> QED
      BY <1>3, <3>1, <3>2 DEF Below
  <2>2. Cardinality(Below(I, i) \cup {i}) = Cardinality(Below(I, i)) + 1
    BY <1>2, <2>1, FS_AddElement
  <2>3. IsFiniteSet(Below(I, j))
    BY <1>2
  <2>4. Cardinality(Below(I, i) \cup {i}) <= Cardinality(Below(I, j))
    BY <2>1, <2>3, FS_Subset
  <2>5. rank[i] \in Nat /\ rank[j] \in Nat /\ rank[i] + 1 <= rank[j]
    BY <1>2, <2>2, <2>4
  <2> HIDE DEF rank
  <2> QED
    BY <2>5
<1>4. rank \in Surjection(I, 0..(n - 1))
  <2>1. rank \in [I -> 0..(n - 1)]
    BY <1>1, <1>2
  <2>2. \A i, j \in I : rank[i] = rank[j] => i = j
    <3> SUFFICES ASSUME NEW i \in I, NEW j \in I, rank[i] = rank[j], i # j PROVE FALSE
      OBVIOUS
    <3>1. i < j \/ j < i
      OBVIOUS
    <3>2. rank[i] < rank[j] \/ rank[j] < rank[i]
      BY <1>3, <3>1
    <3>3. rank[i] \in Nat /\ rank[j] \in Nat
      BY <1>2
    <3> HIDE DEF rank
    <3> QED
      BY <3>2, <3>3
  <2>3. rank \in Injection(I, 0..(n - 1))
    BY <2>1, <2>2 DEF Injection, IsInjective
  <2>4. IsFiniteSet(0..(n - 1)) /\ Cardinality(0..(n - 1)) = n
    <3>1. 0 \in Int /\ n - 1 \in Int /\ (IF 0 > n - 1 THEN 0 ELSE n - 1 - 0 + 1) = n
      BY <1>1
    <3> QED
      BY <3>1, FS_Interval
  <2> QED
    BY <2>3, <2>4, FS_Injection
<1>5. \A m \in 0..(n - 1) : \E i \in I : rank[i] = m
  BY <1>4 DEF Surjection
<1> QED
  BY <1>1, <1>2, <1>3, <1>5

(* The element with n others before it is one, and the only one.            *)
LEMMA NthFacts ==
    ASSUME NEW I \in SUBSET Int, IsFiniteSet(I), NEW n \in 0..(Cardinality(I) - 1)
    PROVE  /\ Nth(I, n) \in I
           /\ Cardinality(Below(I, Nth(I, n))) = n
           /\ \A i \in I : Cardinality(Below(I, i)) = n => Nth(I, n) = i
<1>1. \E i \in I : Cardinality(Below(I, i)) = n
  BY RankFacts
<1>2. Nth(I, n) = CHOOSE i \in I : Cardinality(Below(I, i)) = n
  BY DEF Nth, Below
<1>3. Nth(I, n) \in I /\ Cardinality(Below(I, Nth(I, n))) = n
  BY <1>1, <1>2
<1>4. ASSUME NEW i \in I, Cardinality(Below(I, i)) = n, Nth(I, n) # i PROVE FALSE
  <2>0. PICK m \in I : m = Nth(I, n) /\ Cardinality(Below(I, m)) = n /\ m # i
    BY <1>3, <1>4
  <2>1. i < m \/ m < i
    BY <2>0
  <2>2. Cardinality(Below(I, i)) < Cardinality(Below(I, m)) \/ Cardinality(Below(I, m)) < Cardinality(Below(I, i))
    BY <2>1, RankFacts
  <2> QED
    BY <1>4, <2>0, <2>2
<1> QED
  BY <1>3, <1>4

LEMMA GreatestFacts ==
    ASSUME NEW I \in SUBSET Int, IsFiniteSet(I), I # {}
    PROVE  /\ Greatest(I) \in I
           /\ \A i \in I : i <= Greatest(I)
<1>1. Cardinality(I) \in Nat /\ Cardinality(I) # 0
  BY FS_CardinalityType, FS_EmptySet
<1>2. PICK m \in I : Cardinality(Below(I, m)) = Cardinality(I) - 1
  BY <1>1, RankFacts
<1>3. ASSUME NEW i \in I PROVE i <= m
  <2>1. Cardinality(Below(I, i)) \in 0..(Cardinality(I) - 1)
    BY RankFacts
  <2>2. ~(m < i)
    BY <1>1, <1>2, <2>1, RankFacts
  <2> QED
    BY <2>2
<1> QED
  BY <1>2, <1>3 DEF Greatest

LEMMA LeastExists ==
    ASSUME NEW I \in SUBSET Int, IsFiniteSet(I), I # {}
    PROVE  \E m \in I : \A i \in I : m <= i
<1>1. Cardinality(I) \in Nat /\ Cardinality(I) # 0
  BY FS_CardinalityType, FS_EmptySet
<1>2. PICK m \in I : Cardinality(Below(I, m)) = 0
  BY <1>1, RankFacts
<1>3. ASSUME NEW i \in I PROVE m <= i
  <2>1. Cardinality(Below(I, i)) \in 0..(Cardinality(I) - 1)
    BY RankFacts
  <2>2. ~(i < m)
    BY <1>1, <1>2, <2>1, RankFacts
  <2> QED
    BY <2>2
<1> QED
  BY <1>3

-----------------------------------------------------------------------------
RowsOfLogits == [DOMAIN TokenOrder -> Logits]

(* A row has one logit for each token, and any part of it is finite.        *)
LEMMA RowFacts ==
    ASSUME NEW row \in RowsOfLogits
    PROVE  /\ Len(TokenOrder) \in Nat
           /\ DOMAIN row = 1..Len(TokenOrder) /\ Len(row) = Len(TokenOrder)
           /\ \A i \in DOMAIN row : row[i] \in Int
           /\ \A I \in SUBSET DOMAIN row : I \in SUBSET Int /\ IsFiniteSet(I)
           /\ \A I \in SUBSET DOMAIN row :
                {row[i] : i \in I} \in SUBSET Int /\ IsFiniteSet({row[i] : i \in I})
<1>1. Len(TokenOrder) \in Nat /\ DOMAIN TokenOrder = 1..Len(TokenOrder)
  BY SamplingAssumption
<1>2. DOMAIN row = 1..Len(TokenOrder)
  BY <1>1 DEF RowsOfLogits
<1>3. row \in Seq(Logits) /\ Len(row) = Len(TokenOrder)
  BY <1>1, <1>2, LenProperties, SeqDef DEF RowsOfLogits
<1>4. Logits \subseteq (-100)..101 /\ (-100)..101 \subseteq Int /\ 1..Len(TokenOrder) \subseteq Int
  <2>1. \A x \in Finite : x \in (-99)..99
    BY SamplingAssumption DEF NegInf, PosInf
  <2> QED
    BY <1>1, <2>1 DEF Logits, NegInf, PosInf, NaN
<1>5. IsFiniteSet(1..Len(TokenOrder)) /\ IsFiniteSet((-100)..101)
  <2>1. 1 \in Int /\ Len(TokenOrder) \in Int /\ -100 \in Int /\ 101 \in Int
    BY <1>1
  <2> QED
    BY <2>1, FS_Interval
<1>6. ASSUME NEW I \in SUBSET DOMAIN row
      PROVE  /\ I \in SUBSET Int /\ IsFiniteSet(I)
             /\ {row[i] : i \in I} \in SUBSET Int /\ IsFiniteSet({row[i] : i \in I})
  <2>1. I \in SUBSET (1..Len(TokenOrder)) /\ {row[i] : i \in I} \in SUBSET ((-100)..101)
    BY <1>2, <1>4 DEF RowsOfLogits
  <2> DEFINE V == {row[i] : i \in I}
  <2> HIDE DEF V
  <2>2. IsFiniteSet(I) /\ IsFiniteSet(V)
    <3>1. V \in SUBSET ((-100)..101)
      BY <2>1 DEF V
    <3> QED
      BY <1>5, <2>1, <3>1, FS_Subset
  <2>3. I \subseteq Int /\ V \subseteq Int
    BY <1>4, <2>1 DEF V
  <2> QED
    BY <2>2, <2>3 DEF V
<1>7. \A i \in DOMAIN row : row[i] \in Int
  <2>1. \A i \in DOMAIN row : row[i] \in Logits
    BY DEF RowsOfLogits
  <2> QED
    BY <1>4, <2>1
<1> QED
  BY <1>1, <1>2, <1>3, <1>6, <1>7

(* At temperature 0, NaN and the infinities included                        *)
LEMMA ArgmaxIsGreatest ==
    ASSUME NEW row \in RowsOfLogits, NEW i \in DOMAIN row
    PROVE  row[i] <= row[Argmax(row)]
<1> DEFINE V == {row[k] : k \in DOMAIN row}
           top == Greatest(V)
           T == Indices(row, {top})
<1>1. V \in SUBSET Int /\ IsFiniteSet(V) /\ row[i] \in V
  BY RowFacts
<1>2. top \in V /\ row[i] <= top
  BY <1>1, GreatestFacts
<1>3. T \in SUBSET DOMAIN row /\ T # {} /\ \A k \in T : row[k] = top
  BY <1>2 DEF Indices
<1>4. Greatest(T) \in T
  BY <1>3, RowFacts, GreatestFacts
<1> QED
  BY <1>2, <1>3, <1>4 DEF Argmax

-----------------------------------------------------------------------------
LEMMA MostWeight ==
    LET W == {Weights[n] : n \in DOMAIN Weights}
    IN  Greatest(W) \in Nat \ {0} /\ \A w \in W : w <= Greatest(W)
<1> DEFINE W == {Weights[n] : n \in DOMAIN Weights}
<1>1. /\ Weights \in Seq(Nat \ {0}) /\ Len(Weights) \in Nat \ {0}
      /\ DOMAIN Weights = 1..Len(Weights)
  BY SamplingAssumption, EmptySeq, LenProperties
<1>2. /\ W \in SUBSET (Nat \ {0}) /\ W # {} /\ W \in SUBSET Int
  BY <1>1
<1>3. IsFiniteSet(W)
  <2>1. Weights \in Surjection(DOMAIN Weights, W)
    BY <1>1 DEF Surjection
  <2>2. IsFiniteSet(1..Len(Weights))
    BY <1>1, FS_Interval
  <2> QED
    BY <1>1, <2>1, <2>2, FS_Surjection
<1> HIDE DEF W
<1>4. Greatest(W) \in W /\ \A w \in W : w <= Greatest(W)
  BY <1>2, <1>3, GreatestFacts
<1> QED
  BY <1>2, <1>4 DEF W

(* A weight is a whole number within the greatest there is, and 0 but for   *)
(* finite logits.                                                           *)
LEMMA WeightFacts ==
    ASSUME NEW row \in RowsOfLogits, NEW i \in DOMAIN row
    PROVE  /\ Weight(row, i) \in Nat
           /\ Weight(row, i) <= Greatest({Weights[n] : n \in DOMAIN Weights})
           /\ Weight(row, i) > 0 => row[i] \in Finite
<1> DEFINE I == Indices(row, Finite)
           V == {row[k] : k \in I}
           W == {Weights[n] : n \in DOMAIN Weights}
           below == Greatest(V) - row[i]
<1>1. /\ Weights \in Seq(Nat \ {0}) /\ Len(Weights) \in Nat \ {0}
      /\ DOMAIN Weights = 1..Len(Weights)
  BY SamplingAssumption, EmptySeq, LenProperties
<1>2. W \in SUBSET (Nat \ {0})
  BY <1>1
<1>4. Greatest(W) \in Nat \ {0} /\ \A w \in W : w <= Greatest(W)
  BY MostWeight
<1>5. CASE row[i] \notin Finite
  <2>1. Weight(row, i) = 0
    BY <1>5 DEF Weight
  <2> QED
    BY <1>2, <1>4, <2>1
<1>6. CASE row[i] \in Finite
  <2>1. I \in SUBSET DOMAIN row /\ row[i] \in V
    BY <1>6 DEF Indices
  <2>2. V \in SUBSET Int /\ IsFiniteSet(V)
    BY <2>1, RowFacts
  <2>3. Greatest(V) \in V /\ row[i] <= Greatest(V)
    BY <2>1, <2>2, GreatestFacts
  <2>4. below \in Nat
    <3>1. Greatest(V) \in Int /\ row[i] \in Int
      BY <2>1, <2>2, <2>3
    <3> QED
      BY <2>3, <3>1
  <2>5. Weight(row, i) = IF below >= Len(Weights) THEN 0 ELSE Weights[below + 1]
    BY <1>6 DEF Weight
  <2> HIDE DEF below
  <2>6. CASE below >= Len(Weights)
    BY <1>2, <1>4, <1>6, <2>5, <2>6
  <2>7. CASE ~(below >= Len(Weights))
    <3>1. below + 1 \in DOMAIN Weights
      BY <1>1, <2>4, <2>7
    <3>2. Weight(row, i) = Weights[below + 1] /\ Weights[below + 1] \in W
      BY <2>5, <2>7, <3>1
    <3> QED
      BY <1>2, <1>4, <1>6, <3>2
  <2> QED
    BY <2>6, <2>7
<1> QED
  BY <1>5, <1>6

(* Some token of a row with a finite logit has a weight: a greatest one.    *)
LEMMA GreatestHasWeight ==
    ASSUME NEW row \in RowsOfLogits, Indices(row, Finite) # {}
    PROVE  \E i \in DOMAIN row : Weight(row, i) > 0
<1> DEFINE I == Indices(row, Finite)
           V == {row[k] : k \in I}
<1>1. I \in SUBSET DOMAIN row /\ V # {}
  BY DEF Indices
<1>2. V \in SUBSET Int /\ IsFiniteSet(V)
  BY <1>1, RowFacts
<1>3. PICK i \in I : row[i] = Greatest(V)
  BY <1>1, <1>2, GreatestFacts
<1>4. i \in DOMAIN row /\ row[i] \in Finite /\ row[i] \in Int
  BY <1>1, <1>3, RowFacts DEF Indices
<1>5. Greatest(V) - row[i] = 0
  BY <1>3, <1>4
<1>6. Weights \in Seq(Nat \ {0}) /\ Len(Weights) \in Nat \ {0}
  BY SamplingAssumption, EmptySeq, LenProperties
<1>7. Weights[1] \in Nat \ {0}
  BY <1>6, ElementOfSeq
<1>8. Weight(row, i) = IF 0 >= Len(Weights) THEN 0 ELSE Weights[0 + 1]
  BY <1>4, <1>5 DEF Weight
<1>9. Weight(row, i) > 0
  BY <1>6, <1>7, <1>8
<1> QED
  BY <1>4, <1>9

(* The weights before a token add up, one token after the other.            *)
LEMMA WeightsAddUp ==
    ASSUME NEW row \in RowsOfLogits
    PROVE  /\ WeightBefore(row, 1) = 0
           /\ \A i \in 1..(Len(row) + 1) : WeightBefore(row, i) \in Nat
           /\ \A i \in 1..Len(row) : WeightBefore(row, i + 1) = WeightBefore(row, i) + Weight(row, i)
           /\ \A i, k \in 1..(Len(row) + 1) : i <= k => WeightBefore(row, i) <= WeightBefore(row, k)
<1> DEFINE n == Len(row)
           m == Greatest({Weights[k] : k \in DOMAIN Weights})
<1>1. n \in Nat /\ DOMAIN row = 1..n
  BY RowFacts
<1>2. ASSUME NEW i \in 1..(n + 1)
      PROVE  IsFiniteSet(UnitsBefore(row, i)) /\ WeightBefore(row, i) \in Nat
  <2>1. CASE n = 0
    <3>1. 1..(i - 1) = {}
      BY <1>1, <2>1
    <3>2. UnitsBefore(row, i) = {}
      BY <3>1 DEF UnitsBefore
    <3> QED
      BY <3>2, FS_EmptySet, FS_CardinalityType DEF WeightBefore
  <2>2. CASE n # 0
    <3>1. \A k \in 1..n : Weight(row, k) \in Nat /\ Weight(row, k) <= m
      BY <1>1, WeightFacts
    <3>2. m \in Int
      BY MostWeight
    <3>3. UnitsBefore(row, i) \subseteq (1..n) \X (1..m)
      <4> HIDE DEF m
      <4>1. \A k \in 1..(i - 1) : k \in 1..n /\ 1..Weight(row, k) \subseteq 1..m
        BY <1>1, <3>1, <3>2
      <4> QED
        BY <4>1 DEF UnitsBefore
    <3>4. IsFiniteSet((1..n) \X (1..m))
      <4> HIDE DEF m
      <4>1. 1 \in Int /\ n \in Int
        BY <1>1
      <4>2. IsFiniteSet(1..n) /\ IsFiniteSet(1..m)
        BY <3>2, <4>1, FS_Interval
      <4> QED
        BY <4>2, FS_Product
    <3> QED
      BY <3>3, <3>4, FS_Subset, FS_CardinalityType DEF WeightBefore
  <2> QED
    BY <2>1, <2>2
<1>3. UnitsBefore(row, 1) = {}
  <2>1. 1..(1 - 1) = {}
    OBVIOUS
  <2> QED
    BY <2>1 DEF UnitsBefore
<1>4. ASSUME NEW i \in 1..n
      PROVE  WeightBefore(row, i + 1) = WeightBefore(row, i) + Weight(row, i)
  <2> DEFINE U == {i} \X (1..Weight(row, i))
  <2>1. i \in Nat /\ i \in 1..(n + 1) /\ i + 1 \in 1..(n + 1) /\ Weight(row, i) \in Nat
    <3>1. Weight(row, i) \in Nat
      BY <1>1, WeightFacts
    <3>2. i \in Nat /\ i \in 1..(n + 1) /\ i + 1 \in 1..(n + 1)
      BY <1>1
    <3> QED
      BY <3>1, <3>2
  <2>2. 1..((i + 1) - 1) = 1..(i - 1) \cup {i}
    BY <2>1
  <2>3. UnitsBefore(row, i + 1) = UnitsBefore(row, i) \cup U
    BY <2>2 DEF UnitsBefore
  <2>4. UnitsBefore(row, i) \cap U = {}
    <3>1. i \notin 1..(i - 1)
      BY <2>1
    <3> QED
      BY <3>1 DEF UnitsBefore
  <2>5. IsFiniteSet(U) /\ Cardinality(U) = Weight(row, i)
    <3>1. /\ IsFiniteSet(1..Weight(row, i))
          /\ Cardinality(1..Weight(row, i)) = Weight(row, i)
      BY <2>1, FS_Interval
    <3>2. IsFiniteSet(U) /\ Cardinality(U) = Cardinality({i}) * Cardinality(1..Weight(row, i))
      BY <3>1, FS_Singleton, FS_Product
    <3>3. Cardinality({i}) = 1
      BY FS_Singleton
    <3> QED
      BY <2>1, <3>1, <3>2, <3>3
  <2>6. IsFiniteSet(UnitsBefore(row, i)) /\ WeightBefore(row, i) \in Nat
    BY <1>2, <2>1
  <2>7. Cardinality(UnitsBefore(row, i) \cup U) = Cardinality(UnitsBefore(row, i)) + Cardinality(U) - Cardinality({})
    BY <2>4, <2>5, <2>6, FS_Union
  <2>8. Cardinality({}) = 0
    BY FS_EmptySet
  <2>9. WeightBefore(row, i + 1) = Cardinality(UnitsBefore(row, i) \cup U)
    BY <2>3 DEF WeightBefore
  <2>10. WeightBefore(row, i + 1) = WeightBefore(row, i) + Weight(row, i) - 0
    BY <2>5, <2>7, <2>8, <2>9 DEF WeightBefore
  <2> QED
    BY <2>1, <2>6, <2>10
<1>5. ASSUME NEW i \in 1..(n + 1), NEW k \in 1..(n + 1), i <= k
      PROVE  WeightBefore(row, i) <= WeightBefore(row, k)
  <2>1. 1..(i - 1) \subseteq 1..(k - 1)
    BY <1>1, <1>5
  <2>2. UnitsBefore(row, i) \subseteq UnitsBefore(row, k)
    BY <2>1 DEF UnitsBefore
  <2>3. IsFiniteSet(UnitsBefore(row, k))
    BY <1>2
  <2> QED
    BY <2>2, <2>3, FS_Subset DEF WeightBefore
<1> QED
  BY <1>2, <1>3, <1>4, <1>5, FS_EmptySet DEF WeightBefore

(* A sample within the weight of a token draws that token.                  *)
LEMMA SampleDraws ==
    ASSUME NEW row \in RowsOfLogits, NEW i \in DOMAIN row, NEW s \in Nat,
           WeightBefore(row, i) <= s, s < WeightBefore(row, i) + Weight(row, i)
    PROVE  ByWeight(row, s) = i
<1> DEFINE heavy == {k \in DOMAIN row : Weight(row, k) > 0}
           hit == {k \in heavy : s < WeightBefore(row, k) + Weight(row, k)}
<1>1. Len(row) \in Nat /\ DOMAIN row = 1..Len(row)
  BY RowFacts
<1>2. WeightBefore(row, i) \in Nat /\ Weight(row, i) \in Nat
  <2>1. i \in 1..(Len(row) + 1)
    BY <1>1
  <2> QED
    BY <2>1, WeightFacts, WeightsAddUp
<1>3. i \in hit /\ hit \in SUBSET DOMAIN row
  BY <1>2
<1>4. ASSUME NEW k \in hit, k < i PROVE FALSE
  <2>1. k \in DOMAIN row /\ s < WeightBefore(row, k) + Weight(row, k)
    BY <1>4
  <2>2. k + 1 \in 1..(Len(row) + 1) /\ i \in 1..(Len(row) + 1) /\ k + 1 <= i
    BY <1>1, <1>4, <2>1
  <2>3. WeightBefore(row, k + 1) = WeightBefore(row, k) + Weight(row, k)
    BY <1>1, <2>1, WeightsAddUp
  <2>4. WeightBefore(row, k + 1) <= WeightBefore(row, i)
    BY <2>2, WeightsAddUp
  <2>5. WeightBefore(row, k + 1) \in Nat
    BY <2>2, WeightsAddUp
  <2> QED
    BY <1>2, <2>1, <2>3, <2>4, <2>5
<1>5. Below(hit, i) = {}
  BY <1>4 DEF Below
<1>6. hit \in SUBSET Int /\ IsFiniteSet(hit)
  BY <1>3, RowFacts
<1>7. Cardinality(hit) \in Nat /\ Cardinality(hit) # 0
  BY <1>3, <1>6, FS_EmptySet, FS_CardinalityType
<1>8. 0 \in 0..(Cardinality(hit) - 1) /\ Cardinality(Below(hit, i)) = 0
  BY <1>5, <1>7, FS_EmptySet
<1>9. Nth(hit, 0) = i
  <2> HIDE DEF hit
  <2> QED
    BY <1>3, <1>6, <1>8, NthFacts
<1> QED
  BY <1>3, <1>9 DEF ByWeight

(* Every sample below the total weight is within the weight of a token.     *)
LEMMA SampleHasToken ==
    ASSUME NEW row \in RowsOfLogits, NEW s \in Nat, s < TotalWeight(row)
    PROVE  \E i \in DOMAIN row :
              WeightBefore(row, i) <= s /\ s < WeightBefore(row, i) + Weight(row, i)
<1> DEFINE n == Len(row)
           P == {k \in 1..(n + 1) : s < WeightBefore(row, k)}
<1>1. n \in Nat /\ DOMAIN row = 1..n
  BY RowFacts
<1>2. P # {} /\ P \in SUBSET Int
  <2>1. n + 1 \in P
    BY <1>1 DEF TotalWeight
  <2> QED
    BY <2>1
<1>3. IsFiniteSet(P)
  <2>1. 1 \in Int /\ n + 1 \in Int
    BY <1>1
  <2>2. IsFiniteSet(1..(n + 1)) /\ P \in SUBSET (1..(n + 1))
    BY <2>1, FS_Interval
  <2> QED
    BY <2>2, FS_Subset
<1>4. PICK k \in P : \A p \in P : k <= p
  <2> HIDE DEF P
  <2> QED
    BY <1>2, <1>3, LeastExists
<1>5. k # 1
  BY WeightsAddUp
<1>6. k - 1 \in 1..n /\ k - 1 \in 1..(n + 1) /\ k - 1 \notin P
  BY <1>1, <1>4, <1>5
<1>7. WeightBefore(row, k - 1) \in Nat /\ ~(s < WeightBefore(row, k - 1))
  BY <1>6, WeightsAddUp
<1>8. WeightBefore(row, (k - 1) + 1) = WeightBefore(row, k - 1) + Weight(row, k - 1)
  BY <1>6, WeightsAddUp
<1>9. (k - 1) + 1 = k
  OBVIOUS
<1> QED
  BY <1>1, <1>6, <1>7, <1>8, <1>9

-----------------------------------------------------------------------------
InfiniteIn(row) == Indices(row, {PosInf})

(* Samples are numbered up to their end, and the evenly spread ones are all *)
(* but the last.                                                            *)
LEMMA SamplesAre ==
    ASSUME NEW row \in RowsOfLogits
    PROVE  LET n == IF InfiniteIn(row) # {} THEN Cardinality(InfiniteIn(row)) ELSE TotalWeight(row)
           IN  /\ n \in Nat /\ Samples(row) = 0..n
               /\ {s \in Samples(row) : s + 1 \in Samples(row)} = 0..(n - 1)
               /\ IsFiniteSet(InfiniteIn(row)) /\ InfiniteIn(row) \in SUBSET Int
               /\ InfiniteIn(row) # {} => Cardinality(InfiniteIn(row)) # 0
<1> DEFINE I == InfiniteIn(row)
           n == IF I # {} THEN Cardinality(I) ELSE TotalWeight(row)
<1>1. I \in SUBSET DOMAIN row
  BY DEF InfiniteIn, Indices
<1>2. I \in SUBSET Int /\ IsFiniteSet(I)
  BY <1>1, RowFacts
<1>3. Cardinality(I) \in Nat /\ (I # {} => Cardinality(I) # 0)
  <2> HIDE DEF I
  <2> QED
    BY <1>2, FS_CardinalityType, FS_EmptySet
<1>4. TotalWeight(row) \in Nat
  <2>1. Len(row) + 1 \in 1..(Len(row) + 1)
    BY RowFacts
  <2> QED
    BY <2>1, WeightsAddUp DEF TotalWeight
<1>5. n \in Nat
  BY <1>3, <1>4
<1>6. Samples(row) = 0..n
  BY DEF Samples, InfiniteIn
<1>7. {s \in Samples(row) : s + 1 \in Samples(row)} = 0..(n - 1)
  <2> HIDE DEF n
  <2> QED
    BY <1>5, <1>6
<1> QED
  BY <1>2, <1>3, <1>5, <1>6, <1>7

(* With infinite logits sample s takes the token after s others.            *)
LEMMA InfiniteDrawn ==
    ASSUME NEW row \in RowsOfLogits, InfiniteIn(row) # {}, NEW s \in Samples(row)
    PROVE  /\ SelectToken(row, FALSE, s) \in InfiniteIn(row)
           /\ s < Cardinality(InfiniteIn(row)) =>
                 SelectToken(row, FALSE, s) = Nth(InfiniteIn(row), s)
<1> DEFINE I == InfiniteIn(row)
           last == Cardinality(I) - 1
           n == IF s < last THEN s ELSE last
<1>1. /\ Cardinality(I) \in Nat \ {0} /\ s \in 0..Cardinality(I)
      /\ IsFiniteSet(I) /\ I \in SUBSET Int
  BY SamplesAre, FS_CardinalityType
<1>2. n \in 0..last /\ (s < Cardinality(I) => n = s)
  <2> HIDE DEF I
  <2> QED
    BY <1>1
<1>3. SelectToken(row, FALSE, s) = Nth(I, n)
  BY DEF SelectToken, InfiniteIn
<1>4. Nth(I, n) \in I
  <2> HIDE DEF I, n
  <2> QED
    BY <1>1, <1>2, NthFacts
<1> QED
  BY <1>2, <1>3, <1>4

(* Each infinite logit gets one sample.                                     *)
LEMMA InfiniteShares ==
    ASSUME NEW row \in RowsOfLogits, InfiniteIn(row) # {}, NEW i \in DOMAIN row
    PROVE  Cardinality({s \in 0..(Cardinality(InfiniteIn(row)) - 1) : SelectToken(row, FALSE, s) = i})
              = IF i \in InfiniteIn(row) THEN 1 ELSE 0
<1> DEFINE I == InfiniteIn(row)
           n == Cardinality(I)
           S == {s \in 0..(n - 1) : SelectToken(row, FALSE, s) = i}
<1>1. /\ n \in Nat \ {0} /\ Samples(row) = 0..n
      /\ IsFiniteSet(I) /\ I \in SUBSET Int
  BY SamplesAre, FS_CardinalityType
<1>2. ASSUME NEW s \in 0..(n - 1)
      PROVE  SelectToken(row, FALSE, s) = Nth(I, s) /\ Nth(I, s) \in I
  <2>1. s \in Samples(row) /\ s < n
    BY <1>1
  <2> QED
    BY <2>1, InfiniteDrawn
<1>3. CASE i \notin I
  <2>1. S = {}
    BY <1>2, <1>3
  <2> QED
    BY <1>3, <2>1, FS_EmptySet
<1>4. CASE i \in I
  <2> DEFINE r == Cardinality(Below(I, i))
  <2> HIDE DEF I
  <2>1. r \in 0..(n - 1)
    BY <1>1, <1>4, RankFacts
  <2>2. ASSUME NEW s \in 0..(n - 1) PROVE Nth(I, s) = i <=> s = r
    <3>1. /\ Nth(I, s) \in I /\ Cardinality(Below(I, Nth(I, s))) = s
          /\ \A k \in I : Cardinality(Below(I, k)) = s => Nth(I, s) = k
      BY <1>1, NthFacts
    <3> QED
      BY <1>4, <3>1
  <2>3. S = {r}
    BY <1>2, <2>1, <2>2
  <2>4. Cardinality(S) = 1
    BY <2>3, FS_Singleton
  <2> QED
    BY <1>4, <2>4 DEF I
<1> QED
  BY <1>3, <1>4

(* Each token gets the samples from the weight before it to the weight      *)
(* with it.                                                                 *)
LEMMA WeightShares ==
    ASSUME NEW row \in RowsOfLogits, InfiniteIn(row) = {}, NEW i \in DOMAIN row
    PROVE  Cardinality({s \in 0..(TotalWeight(row) - 1) : SelectToken(row, FALSE, s) = i})
              = Weight(row, i)
<1> DEFINE n == TotalWeight(row)
           S == {s \in 0..(n - 1) : SelectToken(row, FALSE, s) = i}
           from == WeightBefore(row, i)
           w == Weight(row, i)
<1>1. Len(row) \in Nat /\ DOMAIN row = 1..Len(row)
  BY RowFacts
<1>2. from \in Nat /\ w \in Nat /\ n \in Nat /\ from + w <= n
  <2>1. i \in 1..(Len(row) + 1) /\ i + 1 \in 1..(Len(row) + 1) /\ i + 1 <= Len(row) + 1
        /\ Len(row) + 1 \in 1..(Len(row) + 1) /\ i \in 1..Len(row)
    BY <1>1
  <2>2. from \in Nat /\ n \in Nat /\ WeightBefore(row, i + 1) <= n
    BY <2>1, WeightsAddUp DEF TotalWeight
  <2>3. WeightBefore(row, i + 1) = from + w
    BY <2>1, WeightsAddUp
  <2>4. w \in Nat
    BY WeightFacts
  <2> QED
    BY <2>2, <2>3, <2>4
<1>3. \A s : SelectToken(row, FALSE, s) = ByWeight(row, s)
  BY DEF SelectToken, InfiniteIn
<1>4. ASSUME NEW s \in 0..(n - 1)
      PROVE  SelectToken(row, FALSE, s) = i <=> from <= s /\ s < from + w
  <2>1. s \in Nat /\ s < n
    BY <1>2
  <2>2. PICK k \in DOMAIN row : WeightBefore(row, k) <= s /\ s < WeightBefore(row, k) + Weight(row, k)
    BY <2>1, SampleHasToken
  <2>3. ByWeight(row, s) = k
    BY <2>1, <2>2, SampleDraws
  <2>4. from <= s /\ s < from + w => ByWeight(row, s) = i
    BY <2>1, SampleDraws
  <2> QED
    BY <1>3, <2>2, <2>3, <2>4
<1>5. S = from..(from + w - 1)
  <2> HIDE DEF from, w, n
  <2>1. ASSUME NEW s \in from..(from + w - 1)
        PROVE  s \in 0..(n - 1) /\ from <= s /\ s < from + w
    BY <1>2
  <2>2. ASSUME NEW s \in 0..(n - 1), from <= s, s < from + w
        PROVE  s \in from..(from + w - 1)
    BY <1>2, <2>2
  <2> QED
    BY <1>4, <2>1, <2>2
<1>6. Cardinality(from..(from + w - 1)) = w
  <2> HIDE DEF from, w
  <2> DEFINE to == from + w - 1
  <2>1. from \in Int /\ to \in Int /\ (IF from > to THEN 0 ELSE to - from + 1) = w
    BY <1>2
  <2> HIDE DEF to
  <2>2. Cardinality(from..to) = IF from > to THEN 0 ELSE to - from + 1
    BY <2>1, FS_Interval
  <2> QED
    BY <2>1, <2>2 DEF to
<1> QED
  BY <1>5, <1>6

(* A sample at the very end draws the last token with a weight, any other   *)
(* one that it falls on.                                                    *)
LEMMA DrawnHasWeight ==
    ASSUME NEW row \in RowsOfLogits, InfiniteIn(row) = {}, Drawable(row, FALSE), NEW s \in Samples(row)
    PROVE  Weight(row, SelectToken(row, FALSE, s)) > 0
<1> DEFINE heavy == {k \in DOMAIN row : Weight(row, k) > 0}
           hit == {k \in heavy : s < WeightBefore(row, k) + Weight(row, k)}
<1>1. SelectToken(row, FALSE, s) = IF hit = {} THEN Greatest(heavy) ELSE Nth(hit, 0)
  BY DEF SelectToken, ByWeight, InfiniteIn
<1>2. Indices(row, Finite) # {}
  BY DEF Drawable, InfiniteIn, Indices
<1>3. heavy # {} /\ heavy \in SUBSET DOMAIN row /\ hit \in SUBSET heavy
  BY <1>2, GreatestHasWeight
<1>4. /\ heavy \in SUBSET Int /\ IsFiniteSet(heavy)
      /\ hit \in SUBSET Int /\ IsFiniteSet(hit)
  <2> HIDE DEF heavy, hit
  <2> QED
    BY <1>3, RowFacts
<1>5. Greatest(heavy) \in heavy
  <2> HIDE DEF heavy
  <2> QED
    BY <1>3, <1>4, GreatestFacts
<1>6. ASSUME hit # {} PROVE Nth(hit, 0) \in heavy
  <2> HIDE DEF heavy, hit
  <2>1. Cardinality(hit) \in Nat /\ Cardinality(hit) # 0
    BY <1>4, <1>6, FS_EmptySet, FS_CardinalityType
  <2>2. 0 \in 0..(Cardinality(hit) - 1)
    BY <2>1
  <2> QED
    BY <1>3, <1>4, <2>2, NthFacts
<1>7. SelectToken(row, FALSE, s) \in heavy
  BY <1>1, <1>5, <1>6
<1> QED
  BY <1>7

(* A draw, from whatever row and with whatever sample                       *)
LEMMA DrawIsByWeight ==
    RunModelAndSample => SampledByWeight'
<1> SUFFICES ASSUME RunModelAndSample PROVE SampledByWeight'
  OBVIOUS
<1>1. PICK row \in RowsOfLogits, greedy \in BOOLEAN :
        /\ Drawable(row, greedy)
        /\ \E sample \in IF greedy THEN {0} ELSE Samples(row) :
              draw' = [kind |-> "drawn", row |-> row, greedy |-> greedy,
                       chosen |-> SelectToken(row, greedy, sample)]
  BY DEF RunModelAndSample, RowsOfLogits
<1>2. PICK sample \in IF greedy THEN {0} ELSE Samples(row) :
        draw' = [kind |-> "drawn", row |-> row, greedy |-> greedy,
                 chosen |-> SelectToken(row, greedy, sample)]
  BY <1>1
<1>3. /\ draw'.row = row /\ draw'.greedy = greedy
      /\ draw'.chosen = SelectToken(row, greedy, sample)
  BY <1>2
<1>4. PossibleTokenDrawn'
  <2>1. CASE greedy
    <3>1. draw'.chosen = Argmax(row)
      BY <1>3, <2>1 DEF SelectToken
    <3> QED
      BY <1>3, <2>1, <3>1, ArgmaxIsGreatest DEF PossibleTokenDrawn
  <2>2. CASE ~greedy /\ InfiniteIn(row) # {}
    <3>1. sample \in Samples(row) /\ draw'.chosen = SelectToken(row, FALSE, sample) /\ greedy = FALSE
      BY <1>2, <1>3, <2>2
    <3>2. draw'.chosen \in InfiniteIn(row)
      BY <2>2, <3>1, InfiniteDrawn
    <3>3. row[draw'.chosen] = PosInf
      BY <3>2 DEF InfiniteIn, Indices
    <3> QED
      BY <1>3, <2>2, <3>1, <3>3 DEF PossibleTokenDrawn, InfiniteIn
  <2>3. CASE ~greedy /\ InfiniteIn(row) = {}
    <3>1. sample \in Samples(row) /\ draw'.chosen = SelectToken(row, FALSE, sample) /\ greedy = FALSE
      BY <1>2, <1>3, <2>3
    <3>2. Weight(row, draw'.chosen) > 0
      BY <1>1, <2>3, <3>1, DrawnHasWeight
    <3> QED
      BY <1>3, <2>3, <3>1, <3>2 DEF PossibleTokenDrawn, InfiniteIn
  <2> QED
    BY <2>1, <2>2, <2>3
<1>5. SharesFollowWeights'
  <2> DEFINE even == {s \in Samples(row) : s + 1 \in Samples(row)}
             share(i) == IF InfiniteIn(row) # {} THEN (IF i \in InfiniteIn(row) THEN 1 ELSE 0)
                         ELSE Weight(row, i)
             shared(i) == Cardinality({s \in even : SelectToken(row, FALSE, s) = i})
  <2>1. ASSUME NEW i \in DOMAIN row PROVE shared(i) = share(i)
    <3>1. CASE InfiniteIn(row) # {}
      <4>1. even = 0..(Cardinality(InfiniteIn(row)) - 1)
        BY <3>1, SamplesAre
      <4> QED
        BY <3>1, <4>1, InfiniteShares
    <3>2. CASE InfiniteIn(row) = {}
      <4>1. even = 0..(TotalWeight(row) - 1)
        BY <3>2, SamplesAre
      <4> QED
        BY <3>2, <4>1, WeightShares
    <3> QED
      BY <3>1, <3>2
  <2> QED
    BY <1>3, <2>1 DEF SharesFollowWeights, InfiniteIn
<1> QED
  BY <1>4, <1>5 DEF SampledByWeight

(* Whatever the row, the vocabulary and the weights, a drawn token is one   *)
(* the row allows, at temperature 0 a greatest, and of evenly spread        *)
(* samples each token gets as many as its weight, or one each when logits   *)
(* are infinite (select_token_from_logits_row).                             *)
THEOREM DrawnByWeight == SamplingSpec => []SampledByWeight
<1>1. SamplingInit => SampledByWeight
  BY DEF SamplingInit, NoDraw, SampledByWeight, PossibleTokenDrawn, SharesFollowWeights
<1>2. ASSUME SampledByWeight, [SamplingNext]_samplingVars PROVE SampledByWeight'
  <2>1. CASE RunModelAndSample
    BY <2>1, DrawIsByWeight
  <2>2. CASE draw' = NoDraw
    BY <2>2 DEF NoDraw, SampledByWeight, PossibleTokenDrawn, SharesFollowWeights
  <2>3. CASE draw' = draw
    BY <1>2, <2>3 DEF SampledByWeight, PossibleTokenDrawn, SharesFollowWeights
  <2> QED
    BY <1>2, <2>1, <2>2, <2>3 DEF SamplingNext, samplingVars
<1> QED
  BY <1>1, <1>2, PTL DEF SamplingSpec

(* A draw is a step of the model, so what is proved of TensorSpec and Spec  *)
(* holds whatever row a token is drawn from.                                *)
LEMMA DrawingIsAStep == SamplingSpec => TensorSpec
<1>1. SamplingInit => TensorInit
  BY DEF SamplingInit
<1>2. [SamplingNext]_samplingVars => [TensorNext]_tensorVars
  BY DEF SamplingNext, samplingVars, RunModelAndSample, TensorNext, Elsewhere
<1> QED
  BY <1>1, <1>2, PTL DEF SamplingSpec, TensorSpec
=============================================================================
