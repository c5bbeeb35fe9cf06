---------------------------- MODULE MCGeneration ----------------------------
(* A small instance of Sampling, KvCacheTensors and Generation: the image   *)
(* takes three slots (image_size 16), so prompts have 4 to 8 tokens.        *)
EXTENDS Sampling

CONSTANT word

(* Sorted as strings: layer 10 comes before layer 2. *)
SmallNames == <<"10.key", "2.key">>

SmallOrder == <<word, Image, Eos>>

SmallWeights == <<4, 2>>

ShortTexts == {<<>>, <<word>>, <<word, Image>>}

(* Without a decode graph, and with every combination of cache tensors *)
SmallGraphs ==
    [fixedLength : {0, 4, 6}, fixedImageSize : {0, 16, 32}, decode : {FALSE},
     prefillPresent : {0, 2}, decodePast : {0}, decodePresent : {0}]
    \cup
    [fixedLength : {0, 4, 6}, fixedImageSize : {0}, decode : {TRUE},
     prefillPresent : {0, 1, 2}, decodePast : {0, 1, 2}, decodePresent : {0, 1, 2}]
=============================================================================
