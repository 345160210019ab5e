------------------------------- MODULE MCLlm -------------------------------
(***************************************************************************)
(* The instance for TLC of the language model: its runtime (Inference) and *)
(* the conclusions made with it (Reasoning).  A pass of a conclusion is    *)
(* one question to the runtime, answered or not, and the two share no      *)
(* other state: a behaviour is of one of them (part).                      *)
(***************************************************************************)
EXTENDS Inference, Reasoning

CONSTANTS a1, a2, warmup, reloader, k1, g1, g2, x1, p1, p2, p3

VARIABLE part

llmVars == <<part, inferenceVars, reasoningVars>>

MCAskers == {a1, a2}
MCInputs == {k1}
MCModels == {g1, g2}
MCPercents == {p1, p2, p3}
MCQuestions == {"period", "cards"}
MCData == [q \in MCQuestions |-> IF q = "period" THEN {p1} ELSE {p2}]
\* A period of one system with everything but cards and history, and the cards of all of them.
MCGiven == [q \in MCQuestions |->
  IF q = "period" THEN {"judgments", "risks", "metrics"} ELSE {"measures"}]
MCFingerprint == [q \in MCQuestions |-> q]

LlmInit ==
  /\ part \in {"inference", "reasoning"} /\ InferenceInit /\ ReasoningInit
  /\ file # g2   \* the models differ in nothing
  /\ part = "reasoning" => file = NONE /\ At("idle") = Threads

LlmNext ==
  /\ UNCHANGED part
  /\ \/ part = "inference" /\ InferenceNext /\ UNCHANGED reasoningVars
     \/ part = "reasoning" /\ ReasoningNext /\ UNCHANGED inferenceVars

LlmSpec ==
  /\ LlmInit /\ [][LlmNext]_llmVars
  /\ InferenceFairness

LlmTypeOK ==
  /\ part = "inference" => InferenceTypeOK
  /\ part = "reasoning" => ReasoningTypeOK

=============================================================================
