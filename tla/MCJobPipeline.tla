--------------------------- MODULE MCJobPipeline ---------------------------
(* Small instances of JobPipeline: `doc` is a two-page PDF, `img` an image  *)
(* upload, `loc` an image submitted by path.                                *)
EXTENDS JobPipelineRefinement, TLC

CONSTANTS doc, img, loc, d1, d2, i1, l1

PdfAndImage   == (doc :> <<d1, d2>>) @@ (img :> <<i1>>)
ImageAndLocal == (img :> <<i1>>) @@ (loc :> <<l1>>)

WorkerSymmetry == Permutations(Workers)
=============================================================================
