----------------------------- MODULE Reasoning -----------------------------
(***************************************************************************)
(* A conclusion for the management (llm/reasoning.py, decisions.py) and    *)
(* the "reserve brain" it is kept in (llm/brain.py).  A request recalls    *)
(* what was concluded before, lets the model write the sections in four    *)
(* passes, has every pass checked against the data, decides by a table     *)
(* whether the conclusion may go to the board, and remembers it for the    *)
(* requests after it.  Of a text only the percents in it are told apart.   *)
(***************************************************************************)
EXTENDS Absent, Naturals, Sequences, FiniteSets

CONSTANTS
  Requests,             \* slots of requests, each in a thread of the pool
  Questions,            \* the inputs a conclusion is asked for: the keys of _cache
  Percents,
  Data,                 \* the percents in the blocks of an input
  Given,                \* the blocks of an input that are not empty
  Fingerprint,          \* brain.fingerprint of an input
  RECALL_MAX,           \* recall: k
  MaxConclusions, MaxVerdicts, MaxRestarts  \* bounds

Blocks == {"judgments", "risks", "measures", "metrics", "history"}

ASSUME ReasoningAssumption ==
  /\ Data \in [Questions -> SUBSET Percents] /\ Given \in [Questions -> SUBSET Blocks]
  /\ NONE \notin Questions /\ DOMAIN Fingerprint = Questions
  /\ {RECALL_MAX, MaxConclusions, MaxVerdicts, MaxRestarts} \subseteq Nat
  /\ IsFiniteSet(Requests)

Fingerprints == {Fingerprint[q] : q \in Questions}

VARIABLES
  memory,    \* memory.jsonl
  rejected,  \* feedback.jsonl: the fingerprints whose last verdict is reject
  results,   \* _cache
  request,   \* the local state of each request
  asked,     \* history: what has been asked
  verdicts, restarts

reasoningVars == <<memory, rejected, results, request, asked, verdicts, restarts>>

\* The sections; E0 (facts), E4 (control) and E6 (reflection) are never written by the model.
Stages == {"E0", "E1", "E2", "E2Q", "E3", "E4", "E5", "E6", "E7"}

\* recalled: the percents of what was recalled; history: whether there was any.
\* root: the percents of E1 and E2; said: those of all sections.  fell_back: how
\* many sections the rules have made.
Trace ==
  [question : Questions \cup {NONE}, recalled : SUBSET Percents, history : BOOLEAN,
   root : SUBSET Percents, said : SUBSET Percents, fell_back : 0 .. Cardinality(Stages),
   may_go_to_board : BOOLEAN]

Result == [said : SUBSET Percents, may_go_to_board : BOOLEAN]

Steps == {"idle", "recall", "passes", "remember", "cache"}

Request == [at : Steps, trace : Trace]

Record == [fingerprint : Fingerprints, root : SUBSET Percents]

NoTrace ==
  [question |-> NONE, recalled |-> {}, history |-> FALSE, root |-> {}, said |-> {},
   fell_back |-> 0, may_go_to_board |-> FALSE]

Resting == [at |-> "idle", trace |-> NoTrace]

ReasoningTypeOK ==
  /\ memory \in Seq(Record) /\ Len(memory) <= MaxConclusions
  /\ rejected \subseteq Fingerprints
  /\ results \in [Questions -> Result \cup {NONE}] /\ request \in [Requests -> Request]
  /\ asked \subseteq Questions
  /\ verdicts \in 0 .. MaxVerdicts /\ restarts \in 0 .. MaxRestarts

ReasoningInit ==
  /\ memory = <<>> /\ rejected = {}
  /\ results = [q \in Questions |-> NONE] /\ request = [r \in Requests |-> Resting]
  /\ asked = {} /\ verdicts = 0 /\ restarts = 0

-----------------------------------------------------------------------------
Becomes(r, step, trace) ==
  request' = [request EXCEPT ![r] = [at |-> step, trace |-> trace]]

\* generate_reasoned_conclusion: what has been concluded on this input is given
\* out again (no step); otherwise the request begins.
Begin(r, q) ==
  /\ request[r].at = "idle" /\ results[q] = NONE
  /\ Cardinality({s \in Requests : request[s].at # "idle"}) + Len(memory) < MaxConclusions
  /\ Becomes(r, "recall", [NoTrace EXCEPT !.question = q]) /\ asked' = asked \cup {q}
  /\ UNCHANGED <<memory, rejected, results, verdicts, restarts>>

\* The blocks of the facts (E0) repeat every percent of the data and of what is recalled.
WithFacts(trace) == [trace EXCEPT !.said = Data[trace.question] \cup trace.recalled]

(***************************************************************************)
(* recall: the memory is read, then the verdicts.  Whatever is relevant    *)
(* and was not rejected is drawn on, up to RECALL_MAX records, of this     *)
(* system or of another.  What is relevant is a score over words; here it  *)
(* is any choice, none included, and with it the moment the memory was     *)
(* read at.                                                                *)
(***************************************************************************)
Recall(r) ==
  /\ request[r].at = "recall"
  /\ \E chosen \in SUBSET {i \in DOMAIN memory : memory[i].fingerprint \notin rejected} :
       /\ Cardinality(chosen) <= RECALL_MAX
       /\ Becomes(r, "passes",
            WithFacts([request[r].trace EXCEPT !.recalled = UNION {memory[i].root : i \in chosen},
                                               !.history = chosen # {}]))
  /\ UNCHANGED <<memory, rejected, results, asked, verdicts, restarts>>

-----------------------------------------------------------------------------
\* The blocks that are there for this request, memory included.
Sources(trace) == Given[trace.question] \cup (IF trace.history THEN {"history"} ELSE {})

\* _allowed_pcts, of the input with what was recalled.
Allowed(trace) == Data[trace.question] \cup trace.recalled

\* Mutant: the pass is not checked against the data.
KeptUnchecked(trace, sections, text) == sections

(***************************************************************************)
(* _llm_pass: of a text with a percent that is not allowed nothing is      *)
(* kept.  A text that is degenerate, not anchored in the facts, or that    *)
(* the runtime did not give at all, is one without sections.               *)
(***************************************************************************)
Kept(trace, sections, text) == IF text \subseteq Allowed(trace) THEN sections ELSE {}

\* A pass for the sections wanted: those the text lacks are made by the rules, from the data.
Written(trace, wanted, sections, text) ==
  LET kept == Kept(trace, sections, text)
  IN [trace EXCEPT !.fell_back = @ + Cardinality(wanted \ kept),
                   !.said = @ \cup (IF kept = {} THEN {} ELSE text)]

\* E1 and E2: problem and root cause, which are what will be recalled.
Analysed(trace, sections, text) ==
  LET kept == Kept(trace, sections, text)
  IN [Written(trace, {"E1", "E2"}, sections, text) EXCEPT
        !.root = (IF kept = {} THEN {} ELSE text)
                 \cup (IF kept = {"E1", "E2"} THEN {} ELSE Data[trace.question])]

\* E2Q: questions about measures, risks and history; others (contradictions,
\* coverage) an input may call for or not.  No question is no failure.
Questioned(trace, sections, text) ==
  (IF Sources(trace) \cap {"measures", "risks", "history"} = {} THEN {trace} ELSE {})
  \cup (IF Sources(trace) = {} THEN {} ELSE {Written(trace, {"E2Q"}, sections, text)})

-----------------------------------------------------------------------------
Primary(question) == {"judgments", "measures"} \cap Given[question] # {}

\* _confidence
Confidence(trace) ==
  IF Sources(trace) = Blocks /\ trace.fell_back = 0 THEN "high"
  ELSE IF Primary(trace.question) THEN "medium" ELSE "low"

\* Mutant: the bounds of the buckets are a step too wide.
WiderBucket(fell_back, total) ==
  IF 3 * fell_back <= 2 * total THEN "low" ELSE "high"

\* _fallback_bucket
FallbackBucket(fell_back, total) ==
  IF 3 * fell_back <= total THEN "low" ELSE IF 3 * fell_back <= 2 * total THEN "medium" ELSE "high"

\* TRUST_MATRIX: the cells with may_go_to_board.
BoardCells == {<<"high", "low">>, <<"high", "medium">>, <<"medium", "low">>}

(***************************************************************************)
(* E5 and E7.  Without measures or risks there is nothing to make measures *)
(* of, and E5 falls back whatever the model says.  The table is asked when *)
(* seven sections are there (E0 to E5); that E7 may fall back comes after. *)
(***************************************************************************)
Concluded(trace, sections, text) ==
  LET possible == IF Given[trace.question] \cap {"measures", "risks"} = {} THEN {} ELSE {"E5"}
      judged == Written(trace, {"E5"}, sections \cap possible, text)
  IN [Written(judged, {"E7"}, sections \cap {"E7"}, text) EXCEPT
        !.may_go_to_board = <<Confidence(judged), FallbackBucket(judged.fell_back, 7)>> \in BoardCells]

\* Each pass gives any of the sections asked for, in any text.
Analyses(trace) ==
  {Analysed(trace, sections, text) : sections \in SUBSET {"E1", "E2"}, text \in SUBSET Percents}

Interrogations(trace) ==
  UNION {Questioned(trace, sections, text) : sections \in SUBSET {"E2Q"}, text \in SUBSET Percents}

Views(trace) ==
  {Written(trace, {"E3"}, sections, text) : sections \in SUBSET {"E3"}, text \in SUBSET Percents}

Conclusions(trace) ==
  {Concluded(trace, sections, text) : sections \in SUBSET {"E5", "E7"}, text \in SUBSET Percents}

\* run_reasoning: four passes, which touch nothing that is shared; what was
\* recalled is not looked at again.
Reason(r) ==
  /\ request[r].at = "passes"
  /\ \E analysed \in Analyses(request[r].trace) : \E questioned \in Interrogations(analysed) :
     \E viewed \in Views(questioned) : \E concluded \in Conclusions(viewed) :
       Becomes(r, "remember", [concluded EXCEPT !.recalled = {}, !.history = FALSE])
  /\ UNCHANGED <<memory, rejected, results, asked, verdicts, restarts>>

\* remember: one line more, or none when the file cannot be written.
Remember(r) ==
  LET trace == request[r].trace
  IN /\ request[r].at = "remember"
     /\ \/ memory' = Append(memory, [fingerprint |-> Fingerprint[trace.question], root |-> trace.root])
        \/ UNCHANGED memory
     /\ Becomes(r, "cache", trace)
     /\ UNCHANGED <<rejected, results, asked, verdicts, restarts>>

\* The result is kept for good: nothing is ever taken out of this cache.
Cache(r) ==
  /\ request[r].at = "cache"
  /\ LET trace == request[r].trace
     IN results' = [results EXCEPT ![trace.question] =
          [said |-> trace.said, may_go_to_board |-> trace.may_go_to_board]]
  /\ request' = [request EXCEPT ![r] = Resting]
  /\ UNCHANGED <<memory, rejected, asked, verdicts, restarts>>

-----------------------------------------------------------------------------
\* record_feedback: of any fingerprint, known or not; the last verdict counts.
RecordFeedback(f, reject) ==
  /\ verdicts < MaxVerdicts /\ verdicts' = verdicts + 1
  /\ rejected' = IF reject THEN rejected \cup {f} ELSE rejected \ {f}
  /\ UNCHANGED <<memory, results, request, asked, restarts>>

\* The server starts anew: the files of the brain are what is left.
Restart ==
  /\ restarts < MaxRestarts /\ restarts' = restarts + 1
  /\ results' = [q \in Questions |-> NONE] /\ request' = [r \in Requests |-> Resting]
  /\ UNCHANGED <<memory, rejected, asked, verdicts>>

RequestStep(r) ==
  Recall(r) \/ Reason(r) \/ Remember(r) \/ Cache(r)

ReasoningNext ==
  \/ \E r \in Requests : RequestStep(r) \/ \E q \in Questions : Begin(r, q)
  \/ \E f \in Fingerprints, reject \in BOOLEAN : RecordFeedback(f, reject)
  \/ Restart

ReasoningSpec == ReasoningInit /\ [][ReasoningNext]_reasoningVars

-----------------------------------------------------------------------------
(***************************************************************************)
(* No percent is invented: each one in a conclusion, or in the memory the  *)
(* next ones draw on, was in the data somebody gave, however many          *)
(* conclusions it has passed through ("чисел вне входа нет",               *)
(* tests/test_reasoning.py; _llm_pass, recall, remember).                  *)
(***************************************************************************)
NothingInvented ==
  LET known == UNION {Data[q] : q \in asked}
  IN /\ \A i \in DOMAIN memory : memory[i].root \subseteq known
     /\ \A q \in Questions : results[q] # NONE => results[q].said \subseteq known

(***************************************************************************)
(* A conclusion the board may decide on rests on judgments or on cards of  *)
(* measures, and the rules have made no more than a third of its nine      *)
(* sections, although the table is asked before the last one is there      *)
(* (trust, _fallback_bucket: "низкая" <= 1/3).                             *)
(***************************************************************************)
BoardOnGrounds ==
  \A r \in Requests :
    LET trace == request[r].trace
    IN trace.may_go_to_board =>
         Primary(trace.question) /\ 3 * trace.fell_back <= Cardinality(Stages)

=============================================================================
