-------------------------- MODULE MCCorpusIngestion --------------------------
(* Two documents of at most two pieces: a corpus that grows, one that loses   *)
(* its first piece (and renumbers the others), one with an empty document,    *)
(* which has the chunks of another, and one without any chunks.               *)
EXTENDS CorpusIngestion, TLC

CONSTANTS a, b   \* pieces of text

SmallCorpora ==
    { "returns" :> <<a>>,
      "returns" :> <<a, b>>,
      "returns" :> <<b>>,
      ("returns" :> <<a>>) @@ ("warranty" :> <<>>),
      ("returns" :> <<a>>) @@ ("warranty" :> <<b>>),
      "returns" :> <<>> }

\* The two values of AQG_RAG_EMBEDDINGS_PROVIDER; the second calls the OpenAI API.
BothEmbedders == {"deterministic", "openai"}
OnlyOpenAI == {"openai"}
=============================================================================
