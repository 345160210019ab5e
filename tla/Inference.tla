----------------------------- MODULE Inference -----------------------------
(***************************************************************************)
(* The language model inside the server (llm/service.py): its loading, the *)
(* queue to it, the cache of its answers and the hot reload.  A question   *)
(* is asked from a thread of the pool (asyncio.to_thread), the weights are *)
(* loaded by a thread of their own at start or by the first who asks, and  *)
(* POST /reports/llm-reload runs on the event loop, one at a time.  What   *)
(* is shared is guarded by three locks (_lock, _infer_lock, _cache_lock),  *)
(* except that reload clears the cache without the last one.               *)
(***************************************************************************)
EXTENDS Absent, Naturals, SequencesExt, FiniteSets

CONSTANTS
  Askers,                \* threads that ask
  Warmup,                \* the thread of warmup()
  Reloader,              \* the handler of llm-reload
  Inputs,                \* what is asked: the keys of _cache
  Models,                \* *.gguf in the directory of models
  FALLBACK,              \* a text made by the rules, without the model
  LLM_MAX_WAITING, CACHE_MAX_ENTRIES,
  MaxSwaps, MaxReloads   \* bounds

Threads == Askers \cup {Warmup, Reloader}

ASSUME InferenceAssumption ==
  /\ Warmup # Reloader /\ Warmup \notin Askers /\ Reloader \notin Askers
  /\ NONE \notin Models \cup Inputs \cup Threads /\ FALLBACK \notin Models \cup {NONE}
  /\ {LLM_MAX_WAITING, CACHE_MAX_ENTRIES, MaxSwaps, MaxReloads} \subseteq Nat
  /\ IsFiniteSet(Askers)

VARIABLES
  file,        \* what discover_model_path finds
  llm,         \* _llm
  attempted,   \* _load_attempted
  loader,      \* who holds _lock while it loads
  inferring,   \* who holds _infer_lock
  waiting,     \* _waiting
  answers,     \* _cache, the least recently used first
  thread,      \* the local state of each thread
  swaps, reloads

inferenceVars == <<file, llm, attempted, loader, inferring, waiting, answers, thread, swaps, reloads>>

Places ==
  {"idle", "load", "lock", "loading", "slot", "queue", "acquired", "late", "infer", "answered",
   "reset", "clear"}

\* crossed (history): a reload has cleared the cache while this thread held the model it asks.
Thread ==
  [at : Places, input : Inputs \cup {NONE}, model : Models \cup {NONE},
   text : Models \cup {FALLBACK, NONE}, again : BOOLEAN, crossed : BOOLEAN]

Entry == [input : Inputs, by : Models \cup {FALLBACK}, crossed : BOOLEAN]

Idle == [at |-> "idle", input |-> NONE, model |-> NONE, text |-> NONE, again |-> FALSE, crossed |-> FALSE]

At(stage) == {t \in Threads : thread[t].at = stage}

\* The cache is a dictionary of bounded size, the counter of the queue counts who
\* waits, and one thread at most is in the model.
InferenceTypeOK ==
  /\ file \in Models \cup {NONE} /\ llm \in Models \cup {NONE} /\ attempted \in BOOLEAN
  /\ loader \in Threads \cup {NONE} /\ inferring \in Threads \cup {NONE}
  /\ thread \in [Threads -> Thread]
  /\ answers \in Seq(Entry) /\ Len(answers) <= CACHE_MAX_ENTRIES
  /\ \A i, k \in DOMAIN answers : answers[i].input = answers[k].input => i = k
  /\ swaps \in 0 .. MaxSwaps /\ reloads \in 0 .. MaxReloads
  /\ At("loading") \subseteq {loader} /\ (llm # NONE => attempted)
  /\ At("acquired") \cup At("infer") = {inferring} \ {NONE}
  /\ waiting = Cardinality(At("queue") \cup At("acquired") \cup At("late"))
  /\ waiting <= LLM_MAX_WAITING

\* Some file or none; warmup() is on, or it is not (LLM_WARMUP).
InferenceInit ==
  /\ file \in Models \cup {NONE} /\ llm = NONE /\ attempted = FALSE
  /\ loader = NONE /\ inferring = NONE /\ waiting = 0 /\ answers = <<>>
  /\ \E warm \in BOOLEAN :
       thread = [t \in Threads |-> IF t = Warmup /\ warm THEN [Idle EXCEPT !.at = "load"] ELSE Idle]
  /\ swaps = 0 /\ reloads = 0

-----------------------------------------------------------------------------
Goes(t, stage) == thread' = [thread EXCEPT ![t].at = stage]

\* is_loading
IsLoading == thread[Warmup].at # "idle"

(***************************************************************************)
(* _cache_get and _cache_put hold _cache_lock, and are one step each.  The *)
(* clear of a reload does not take the lock: one that falls between the    *)
(* lookup and move_to_end makes the request fail (KeyError) and leaves the *)
(* same empty cache as one that comes after.                               *)
(***************************************************************************)
Holds(input) == \E i \in DOMAIN answers : answers[i].input = input
Position(input) == CHOOSE i \in DOMAIN answers : answers[i].input = input
Others(input) == IF Holds(input) THEN RemoveAt(answers, Position(input)) ELSE answers
MovedToEnd(input) == Append(Others(input), answers[Position(input)])

\* complete() has no text to give, and its caller has made one by the rules.
ByTheRules(t) ==
  thread' = [thread EXCEPT ![t] =
    [Idle EXCEPT !.at = "answered", !.input = thread[t].input, !.text = FALLBACK]]

(***************************************************************************)
(* generate_*: the cache is asked first; then complete() looks whether the *)
(* weights are being loaded.  complete() has callers without the cache too *)
(* (an insight of the cockpit, a pass of the reasoning): input NONE.       *)
(***************************************************************************)
Hit(t, input) ==
  /\ thread[t].at = "idle" /\ Holds(input) /\ answers' = MovedToEnd(input)
  /\ UNCHANGED <<file, llm, attempted, loader, inferring, waiting, thread, swaps, reloads>>

Ask(t, input) ==
  /\ thread[t].at = "idle" /\ ~ Holds(input)
  /\ thread' = [thread EXCEPT ![t] =
       IF IsLoading THEN [Idle EXCEPT !.at = "answered", !.input = input, !.text = FALLBACK]
       ELSE [Idle EXCEPT !.at = "load", !.input = input]]
  /\ UNCHANGED <<file, llm, attempted, loader, inferring, waiting, answers, swaps, reloads>>

(***************************************************************************)
(* _load_llm.  Whoever finds _load_attempted goes on with what there is,   *)
(* be it nothing yet; who does not waits for _lock and looks again.        *)
(***************************************************************************)
Loaded(t, model) ==
  thread' = [thread EXCEPT ![t] =
    IF t \notin Askers THEN Idle
    ELSE IF model = NONE THEN [@ EXCEPT !.at = "answered", !.text = FALLBACK]
    ELSE [@ EXCEPT !.at = "slot", !.model = model]]

LoadCheck(t) ==
  /\ thread[t].at = "load"
  /\ IF attempted THEN Loaded(t, llm) ELSE Goes(t, "lock")
  /\ UNCHANGED <<file, llm, attempted, loader, inferring, waiting, answers, swaps, reloads>>

LoadEnter(t) ==
  /\ thread[t].at = "lock" /\ loader = NONE
  /\ IF attempted THEN Loaded(t, llm) /\ UNCHANGED <<attempted, loader>>
     ELSE attempted' = TRUE /\ loader' = t /\ Goes(t, "loading")
  /\ UNCHANGED <<file, llm, inferring, waiting, answers, swaps, reloads>>

\* The file found is loaded, or fails to.
LoadEnd(t) ==
  /\ thread[t].at = "loading" /\ loader' = NONE
  /\ \E model \in {file, NONE} : llm' = model /\ Loaded(t, model)
  /\ UNCHANGED <<file, attempted, inferring, waiting, answers, swaps, reloads>>

-----------------------------------------------------------------------------
\* _InferSlot.__enter__: a full queue refuses.
Queue(t) ==
  /\ thread[t].at = "slot"
  /\ IF waiting >= LLM_MAX_WAITING THEN ByTheRules(t) /\ UNCHANGED waiting
     ELSE waiting' = waiting + 1 /\ Goes(t, "queue")
  /\ UNCHANGED <<file, llm, attempted, loader, inferring, answers, swaps, reloads>>

Acquire(t) ==
  /\ thread[t].at = "queue" /\ inferring = NONE
  /\ inferring' = t /\ Goes(t, "acquired")
  /\ UNCHANGED <<file, llm, attempted, loader, waiting, answers, swaps, reloads>>

\* LLM_QUEUE_TIMEOUT_S has passed, and another thread has the model.
TimeOut(t) ==
  /\ thread[t].at = "queue" /\ inferring # NONE /\ Goes(t, "late")
  /\ UNCHANGED <<file, llm, attempted, loader, inferring, waiting, answers, swaps, reloads>>

\* Mutant: whoever has not acquired the lock is counted for ever.
LeaveUncounted(t) ==
  /\ thread[t].at \in {"acquired", "late"}
  /\ IF thread[t].at = "late" THEN ByTheRules(t) /\ UNCHANGED waiting
     ELSE waiting' = waiting - 1 /\ Goes(t, "infer")
  /\ UNCHANGED <<file, llm, attempted, loader, inferring, answers, swaps, reloads>>

\* The finally of __enter__: out of the queue, with the lock or without it (LlmBusyError).
Leave(t) ==
  /\ thread[t].at \in {"acquired", "late"} /\ waiting' = waiting - 1
  /\ IF thread[t].at = "late" THEN ByTheRules(t) ELSE Goes(t, "infer")
  /\ UNCHANGED <<file, llm, attempted, loader, inferring, answers, swaps, reloads>>

(***************************************************************************)
(* The model has ended, and the lock is released.  A text that is grounded *)
(* in the input is kept; one that is not gives way to the rules.  No text, *)
(* or an exception: the question is put again as plain text (a second turn *)
(* in the queue), and then there is none.                                  *)
(***************************************************************************)
Infer(t) ==
  /\ thread[t].at = "infer" /\ inferring' = NONE
  /\ \/ thread' = [thread EXCEPT ![t].at = "answered", ![t].text = thread[t].model, ![t].again = FALSE]
     \/ ByTheRules(t)
     \/ ~ thread[t].again /\ thread' = [thread EXCEPT ![t].at = "slot", ![t].again = TRUE]
  /\ UNCHANGED <<file, llm, attempted, loader, waiting, answers, swaps, reloads>>

\* _cache_put, of a text by the rules as well; the least recently used entry gives way.
Store(t) ==
  /\ thread[t].at = "answered"
  /\ LET entry == [input |-> thread[t].input, by |-> thread[t].text, crossed |-> thread[t].crossed]
         put == Append(Others(entry.input), entry)
     IN answers' = IF entry.input = NONE THEN answers
                   ELSE IF Len(put) > CACHE_MAX_ENTRIES THEN Tail(put) ELSE put
  /\ thread' = [thread EXCEPT ![t] = Idle]
  /\ UNCHANGED <<file, llm, attempted, loader, inferring, waiting, swaps, reloads>>

-----------------------------------------------------------------------------
\* Somebody puts another model into the directory, or takes the last one out.
Swap(model) ==
  /\ swaps < MaxSwaps /\ swaps' = swaps + 1 /\ file # model /\ file' = model
  /\ UNCHANGED <<llm, attempted, loader, inferring, waiting, answers, thread, reloads>>

ReloadStart ==
  /\ thread[Reloader].at = "idle" /\ reloads < MaxReloads /\ reloads' = reloads + 1
  /\ Goes(Reloader, "reset")
  /\ UNCHANGED <<file, llm, attempted, loader, inferring, waiting, answers, swaps>>

\* Mutant: the old answers stay.
ReloadResetOnly ==
  /\ thread[Reloader].at = "reset" /\ loader = NONE
  /\ llm' = NONE /\ attempted' = FALSE /\ Goes(Reloader, "load")
  /\ UNCHANGED <<file, loader, inferring, waiting, answers, swaps, reloads>>

\* Mutant: the new model is loaded with _lock in hand.
ReloadResetHolding ==
  /\ thread[Reloader].at = "reset" /\ loader = NONE
  /\ llm' = NONE /\ attempted' = FALSE /\ loader' = Reloader /\ Goes(Reloader, "clear")
  /\ UNCHANGED <<file, inferring, waiting, answers, swaps, reloads>>

ReloadReset ==
  /\ thread[Reloader].at = "reset" /\ loader = NONE
  /\ llm' = NONE /\ attempted' = FALSE /\ Goes(Reloader, "clear")
  /\ UNCHANGED <<file, loader, inferring, waiting, answers, swaps, reloads>>

\* _cache.clear(), whoever holds _cache_lock; then _load_llm.
ReloadClear ==
  /\ thread[Reloader].at = "clear" /\ answers' = <<>>
  /\ thread' = [t \in Threads |->
       IF t = Reloader THEN [thread[t] EXCEPT !.at = "load"]
       ELSE [thread[t] EXCEPT !.crossed = @ \/ thread[t].model # NONE]]
  /\ UNCHANGED <<file, llm, attempted, loader, inferring, waiting, swaps, reloads>>

-----------------------------------------------------------------------------
LoadStep(t) == LoadCheck(t) \/ LoadEnter(t) \/ LoadEnd(t)
AskStep(t) ==
  Queue(t) \/ Acquire(t) \/ TimeOut(t) \/ Leave(t) \/ Infer(t) \/ Store(t)

ThreadStep(t) == LoadStep(t) \/ (t \in Askers /\ AskStep(t))
ReloadStep == ReloadReset \/ ReloadClear

InferenceNext ==
  \/ \E t \in Askers, input \in Inputs \cup {NONE} : Hit(t, input) \/ Ask(t, input)
  \/ \E t \in Threads : ThreadStep(t)
  \/ \E model \in Models \cup {NONE} : Swap(model)
  \/ ReloadStart \/ ReloadStep

(***************************************************************************)
(* A thread that can go on does: an inference and a load end, and a wait   *)
(* for the model ends with the lock or with the time.  A wait for _lock    *)
(* has no time of its own.                                                 *)
(***************************************************************************)
InferenceFairness ==
  /\ \A t \in Threads : WF_inferenceVars(ThreadStep(t))
  /\ WF_inferenceVars(ReloadStep)

InferenceSpec == InferenceInit /\ [][InferenceNext]_inferenceVars /\ InferenceFairness

-----------------------------------------------------------------------------
(***************************************************************************)
(* After a reload no answer of the model before it is given out of the     *)
(* cache, unless it was being made when the reload cleared it ("Сбрасывает *)
(* загруженный экземпляр и кэш ответов", reload).                          *)
(***************************************************************************)
CacheOfTheModel ==
  thread[Reloader].at # "clear" =>
    \A i \in DOMAIN answers : answers[i].by \in {FALLBACK, llm} \/ answers[i].crossed

(***************************************************************************)
(* Whoever asks is answered, and a reload ends: no question waits for ever *)
(* behind another, behind a load or behind a reload (_InferSlot, "не       *)
(* висеть").                                                               *)
(***************************************************************************)
EveryoneAnswered == \A t \in Threads : thread[t].at # "idle" ~> thread[t].at = "idle"

=============================================================================
