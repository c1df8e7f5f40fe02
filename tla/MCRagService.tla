----------------------------- MODULE MCRagService -----------------------------
(***************************************************************************)
(* The corpora of MCCorpusIngestion but the two that only renumber and     *)
(* repeat chunks, and four states of the dataset directory: versions 1.10  *)
(* and 1.9 of the dataset, in the order of their paths, with a dataset of  *)
(* another name and a malformed file around them; two files of one id; a   *)
(* file that stops every start, with fixtures that cannot be decoded       *)
(* either; and no dataset of the name.                                     *)
(***************************************************************************)
EXTENDS RagService, TLC

CONSTANTS a, b   \* pieces of text

\* The same ids with other texts, a document more, and no chunks at all.
MCCorpora ==
    { "returns" :> <<a>>,
      "returns" :> <<b>>,
      ("returns" :> <<a, b>>) @@ ("warranty" :> <<b>>),
      "returns" :> <<>> }

V1_9 == << <<1>>, <<9>>, <<0>> >>
V1_10 == << <<1>>, <<1, 0>>, <<0>> >>

Both == ("c1" :> "q1") @@ ("c2" :> "q2")
Reworded == "c1" :> "q2"

MCDirectories ==
    [latest |->
       [files |-> << Dataset("bot", V1_10, Reworded),
                     Dataset("rag", V1_10, Both),
                     Unreadable("malformed"),
                     Dataset("rag", V1_9, Reworded) >>,
        fixtures |-> (<<"rag", V1_10>> :> Answers({"c1"}))
                       @@ (<<"rag", V1_9>> :> Answers({"c1", "c2"}))],
     twice |->
       [files |-> << Dataset("rag", V1_9, Both), Dataset("rag", V1_9, Reworded) >>,
        fixtures |-> <<"rag", V1_9>> :> Unreadable("malformed")],
     fatal |->
       [files |-> << Unreadable("undecodable"), Dataset("rag", V1_9, Both) >>,
        fixtures |-> <<"rag", V1_10>> :> Unreadable("undecodable")],
     other |->
       [files |-> << Dataset("bot", V1_9, Both) >>,
        fixtures |-> NoDatasets]]

\* The first query is closer to a; b is just relevant to both.
MCSimilarity ==
    [q1 |-> (a :> 2) @@ (b :> 1), q2 |-> (a :> 0) @@ (b :> 1)]

\* Live answers are told apart by their error only.
MCSDKOutcomes ==
    [openai |-> {P!Raised("call", P!Exception("APITimeoutError")),
                 P!Raised("call", P!Exception("AuthenticationError")),
                 P!Raised("read", P!Exception("TypeError")),
                 P!Completed(P!LiveAnswer(None, 0, None))},
     gemini |-> {}]

BothEmbedders == {"deterministic", "openai"}
OnlyOpenAI == {"openai"}
=============================================================================
