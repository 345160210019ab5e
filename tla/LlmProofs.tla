----------------------------- MODULE LlmProofs -----------------------------
(***************************************************************************)
(* Proofs about the language model.  Inference, for every number of        *)
(* threads, models, questions and every size of queue and cache: however   *)
(* answers, loads and reloads overlap, the cache gives no answer of a      *)
(* model that has been taken away.  Reasoning, for every number of         *)
(* requests and every input: no percent is invented, and what may go to    *)
(* the board has grounds.                                                  *)
(***************************************************************************)
EXTENDS MCLlm, TLAPS, FiniteSetTheorems, SequenceTheorems

(***************************************************************************)
(* Threads at some of the places, in a given assignment of local states.   *)
(***************************************************************************)
Placed(thr, places) == {t \in Threads : thr[t].at \in places}

Queued == {"queue", "acquired", "late"}
Inside == {"acquired", "infer"}
Asking == {"slot", "queue", "acquired", "late", "infer"}

\* What a thread holds fits the place it is at.
ThreadFits(th) ==
  /\ th.at \in Asking => th.model \in Models
  /\ th.at = "answered" => th.text # NONE
  /\ th.at \notin Asking \cup {"answered"} => th.text = NONE /\ th.model = NONE
  /\ th.text \in {NONE, FALLBACK, th.model}

ThreadsFit == \A t \in Threads : ThreadFits(thread[t])

\* Whoever loads, loads into an empty place.
LoadsIntoNone == loader # NONE => llm = NONE /\ attempted

\* The model a thread asks is the one that is loaded, or a reload has crossed it.
Holding(th, m) == th.model \in {NONE, m} \/ th.crossed

HoldsTheModel == thread[Reloader].at # "clear" => \A t \in Threads : Holding(thread[t], llm)

InferenceInv ==
  InferenceTypeOK /\ ThreadsFit /\ LoadsIntoNone /\ HoldsTheModel /\ CacheOfTheModel

-----------------------------------------------------------------------------
LEMMA ThreadsFinite == IsFiniteSet(Threads) /\ Warmup \in Threads /\ Reloader \in Threads
<1>1. {Warmup, Reloader} = {Warmup} \cup {Reloader}
  OBVIOUS
<1>2. IsFiniteSet({Warmup, Reloader})
  <2>1. IsFiniteSet({Warmup})
    BY FS_Singleton
  <2> QED
    BY <1>1, <2>1, FS_AddElement
<1> QED
  BY <1>2, FS_Union, InferenceAssumption DEF Threads

LEMMA NoneApart ==
  /\ NONE \notin Threads /\ NONE \notin Models /\ NONE \notin Inputs
  /\ FALLBACK \notin Models /\ FALLBACK # NONE
BY InferenceAssumption

\* A thread that goes from a place to another.
LEMMA PlacedMove ==
  ASSUME NEW thr \in [Threads -> Thread], NEW t \in Threads, NEW v \in Thread, NEW places
  PROVE  Placed([thr EXCEPT ![t] = v], places) =
           IF v.at \in places THEN Placed(thr, places) \cup {t} ELSE Placed(thr, places) \ {t}
BY DEF Placed

LEMMA PlacedCount ==
  ASSUME NEW thr, NEW places
  PROVE  /\ IsFiniteSet(Placed(thr, places)) /\ Cardinality(Placed(thr, places)) \in Nat
         /\ \A t \in Threads \ Placed(thr, places) :
              Cardinality(Placed(thr, places) \cup {t}) = Cardinality(Placed(thr, places)) + 1
         /\ \A t \in Placed(thr, places) :
              Cardinality(Placed(thr, places) \ {t}) = Cardinality(Placed(thr, places)) - 1
<1>1. Placed(thr, places) \subseteq Threads
  BY DEF Placed
<1>2. IsFiniteSet(Placed(thr, places))
  BY <1>1, ThreadsFinite, FS_Subset
<1> QED
  BY <1>2, FS_CardinalityType, FS_AddElement, FS_RemoveElement

\* The type invariant, with the places by name.
LEMMA TypeByPlaces ==
  ASSUME thread \in [Threads -> Thread]
  PROVE  /\ At("loading") = Placed(thread, {"loading"})
         /\ At("acquired") \cup At("infer") = Placed(thread, Inside)
         /\ At("queue") \cup At("acquired") \cup At("late") = Placed(thread, Queued)
BY DEF At, Placed, Inside, Queued

LEMMA IdleFits == Idle \in Thread /\ ThreadFits(Idle) /\ (\A m : Holding(Idle, m))
BY DEF Idle, Thread, Places, ThreadFits, Asking, Holding

LEMMA RulesFit ==
  ASSUME NEW i \in Inputs \cup {NONE}
  PROVE  LET v == [Idle EXCEPT !.at = "answered", !.input = i, !.text = FALLBACK]
         IN v \in Thread /\ ThreadFits(v) /\ (\A m : Holding(v, m)) /\ v.at = "answered"
<1> DEFINE v == [Idle EXCEPT !.at = "answered", !.input = i, !.text = FALLBACK]
<1>1. Idle \in Thread /\ Idle.model = NONE
  BY IdleFits DEF Idle
<1>2. v \in Thread
  BY <1>1 DEF Thread, Places
<1>3. v.at = "answered" /\ v.text = FALLBACK /\ v.model = NONE
  BY <1>1 DEF Thread
<1> HIDE DEF v
<1>4. ThreadFits(v) /\ (\A m : Holding(v, m))
  BY <1>3, NoneApart DEF ThreadFits, Asking, Holding
<1> QED
  BY <1>2, <1>3, <1>4 DEF v

LEMMA StageFits ==
  ASSUME NEW th \in Thread, ThreadFits(th), NEW stage \in Places,
         stage \in Asking <=> th.at \in Asking, "answered" \notin {stage, th.at}
  PROVE  LET v == [th EXCEPT !.at = stage]
         IN v \in Thread /\ ThreadFits(v) /\ (\A m : Holding(th, m) => Holding(v, m)) /\ v.at = stage
<1> DEFINE v == [th EXCEPT !.at = stage]
<1>1. /\ v \in Thread /\ v.at = stage /\ v.text = th.text /\ v.model = th.model
      /\ v.crossed = th.crossed
  BY DEF Thread
<1> HIDE DEF v
<1>2. ThreadFits(v)
  BY <1>1 DEF ThreadFits
<1>3. \A m : Holding(th, m) => Holding(v, m)
  BY <1>1 DEF Holding
<1> QED
  BY <1>1, <1>2, <1>3 DEF v

\* What a thread that has the weights, or has found none, does next.
LEMMA LoadedFits ==
  ASSUME NEW th \in Thread, ThreadFits(th), th.at \in {"load", "lock", "loading"},
         NEW t \in Threads, NEW m \in Models \cup {NONE}
  PROVE  LET v == IF t \notin Askers THEN Idle
                  ELSE IF m = NONE THEN [th EXCEPT !.at = "answered", !.text = FALLBACK]
                  ELSE [th EXCEPT !.at = "slot", !.model = m]
         IN /\ v \in Thread /\ v.at \in {"idle", "answered", "slot"} /\ ThreadFits(v)
            /\ \A n : Holding(th, n) /\ (n = m \/ m = NONE) => Holding(v, n)
<1>1. CASE t \notin Askers
  BY <1>1, IdleFits DEF Idle
<1>2. CASE t \in Askers /\ m = NONE
  <2> DEFINE v == [th EXCEPT !.at = "answered", !.text = FALLBACK]
  <2>1. v \in Thread /\ v.at = "answered" /\ v.text = FALLBACK /\ v.model = th.model
           /\ v.crossed = th.crossed
    BY DEF Thread, Places
  <2> HIDE DEF v
  <2>2. ThreadFits(v) /\ (\A n : Holding(th, n) => Holding(v, n))
    BY <2>1, NoneApart DEF ThreadFits, Asking, Holding
  <2> QED
    BY <1>2, <2>1, <2>2 DEF v
<1>3. CASE t \in Askers /\ m # NONE
  <2> DEFINE v == [th EXCEPT !.at = "slot", !.model = m]
  <2>1. v \in Thread /\ v.at = "slot" /\ v.text = th.text /\ v.model = m
    BY <1>3 DEF Thread, Places
  <2>2. th.text = NONE
    BY DEF ThreadFits, Asking
  <2> HIDE DEF v
  <2>3. ThreadFits(v) /\ Holding(v, m)
    BY <1>3, <2>1, <2>2, NoneApart DEF ThreadFits, Asking, Holding
  <2> QED
    BY <1>3, <2>1, <2>3 DEF v
<1> QED
  BY <1>1, <1>2, <1>3

-----------------------------------------------------------------------------
(***************************************************************************)
(* The cache, a sequence with one entry for each input in it.              *)
(***************************************************************************)
LEMMA RemoveAtFacts ==
  ASSUME NEW S, NEW s \in Seq(S), NEW p \in 1 .. Len(s)
  PROVE  /\ RemoveAt(s, p) \in Seq(S) /\ Len(RemoveAt(s, p)) = Len(s) - 1
         /\ \A i \in 1 .. Len(s) - 1 : RemoveAt(s, p)[i] = IF i < p THEN s[i] ELSE s[i + 1]
<1> DEFINE before == SubSeq(s, 1, p - 1)
           after == SubSeq(s, p + 1, Len(s))
<1>1. Len(s) \in Nat /\ \A i \in 1 .. Len(s) : s[i] \in S
  BY LenProperties, ElementOfSeq
<1>2. /\ before \in Seq(S) /\ Len(before) = p - 1
      /\ \A i \in 1 .. p - 1 : before[i] = s[i]
  <2>1. \A i \in 1 .. p - 1 : s[i] \in S
    BY <1>1
  <2> QED
    BY <1>1, <2>1, SubSeqProperties
<1>3. /\ after \in Seq(S) /\ Len(after) = Len(s) - p
      /\ \A i \in 1 .. Len(s) - p : after[i] = s[p + i]
  <2>1. \A i \in p + 1 .. Len(s) : s[i] \in S
    BY <1>1
  <2> QED
    BY <1>1, <2>1, SubSeqProperties
<1>4. RemoveAt(s, p) = before \o after
  BY DEF RemoveAt
<1> HIDE DEF before, after
<1>5. /\ before \o after \in Seq(S) /\ Len(before \o after) = Len(before) + Len(after)
      /\ \A i \in 1 .. Len(before) + Len(after) :
           (before \o after)[i] = IF i <= Len(before) THEN before[i] ELSE after[i - Len(before)]
  BY <1>2, <1>3, ConcatProperties
<1> QED
  BY <1>1, <1>2, <1>3, <1>4, <1>5

Dictionary(s) ==
  s \in Seq(Entry) /\ \A i, k \in DOMAIN s : s[i].input = s[k].input => i = k

\* Every entry of one is an entry of another.
Within(s, z) == \A i \in DOMAIN s : \E k \in DOMAIN z : s[i] = z[k]

LEMMA OthersFacts ==
  ASSUME Dictionary(answers), NEW input
  PROVE  /\ Dictionary(Others(input)) /\ Within(Others(input), answers)
         /\ Len(Others(input)) \in Nat /\ Len(Others(input)) <= Len(answers)
         /\ Holds(input) => Len(Others(input)) = Len(answers) - 1
         /\ \A i \in DOMAIN Others(input) : Others(input)[i].input # input
<1>1. Len(answers) \in Nat /\ DOMAIN answers = 1 .. Len(answers) /\ answers \in Seq(Entry)
  BY LenProperties DEF Dictionary
<1>2. CASE ~ Holds(input)
  <2>1. Others(input) = answers
    BY <1>2 DEF Others
  <2>2. \A i \in DOMAIN answers : answers[i].input # input
    BY <1>2 DEF Holds
  <2>3. Within(answers, answers)
    BY DEF Within
  <2>4. /\ Dictionary(Others(input)) /\ Within(Others(input), answers)
        /\ \A i \in DOMAIN Others(input) : Others(input)[i].input # input
    BY <2>1, <2>2, <2>3, Zenon
  <2>5. Len(Others(input)) = Len(answers)
    BY <2>1
  <2>6. Len(Others(input)) \in Nat /\ Len(Others(input)) <= Len(answers)
    BY <1>1, <2>5
  <2> QED
    BY <1>2, <2>4, <2>6, Zenon
<1>3. CASE Holds(input)
  <2> DEFINE p == Position(input)
             o == Others(input)
  <2>1. p \in 1 .. Len(answers) /\ answers[p].input = input
    BY <1>1, <1>3 DEF Holds, Position
  <2>2. o = RemoveAt(answers, p)
    BY <1>3 DEF Others
  <2> HIDE DEF p, o
  <2>3. /\ o \in Seq(Entry) /\ Len(o) = Len(answers) - 1
        /\ \A i \in 1 .. Len(answers) - 1 : o[i] = IF i < p THEN answers[i] ELSE answers[i + 1]
    BY <1>1, <2>1, <2>2, RemoveAtFacts
  <2>4. DOMAIN o = 1 .. Len(answers) - 1
    BY <2>3, LenProperties
  <2>5. Within(o, answers)
    BY <1>1, <2>1, <2>3, <2>4 DEF Within
  <2>6. \A i \in DOMAIN o : o[i].input # input
    BY <1>1, <2>1, <2>3, <2>4 DEF Dictionary
  <2>7. ASSUME NEW i \in DOMAIN o, NEW k \in DOMAIN o, o[i].input = o[k].input
        PROVE  i = k
    <3> DEFINE ii == IF i < p THEN i ELSE i + 1
               kk == IF k < p THEN k ELSE k + 1
    <3>1. ii \in DOMAIN answers /\ kk \in DOMAIN answers
      BY <1>1, <2>1, <2>4
    <3>2. o[i] = answers[ii] /\ o[k] = answers[kk]
      BY <2>3, <2>4
    <3>3. ii = kk => i = k
      BY <1>1, <2>1, <2>4
    <3> HIDE DEF ii, kk
    <3> QED
      BY <2>7, <3>1, <3>2, <3>3 DEF Dictionary
  <2> QED
    BY <1>1, <1>3, <2>3, <2>4, <2>5, <2>6, <2>7 DEF o, Dictionary
<1> QED
  BY <1>2, <1>3

LEMMA PutFacts ==
  ASSUME Dictionary(answers), NEW e \in Entry
  PROVE  LET put == Append(Others(e.input), e)
         IN /\ Dictionary(put) /\ Len(put) = Len(Others(e.input)) + 1
            /\ \A i \in DOMAIN put : put[i] = e \/ \E k \in DOMAIN answers : put[i] = answers[k]
            /\ Dictionary(Tail(put)) /\ Len(Tail(put)) = Len(put) - 1 /\ Within(Tail(put), put)
<1> DEFINE o == Others(e.input)
           put == Append(o, e)
<1>1. /\ Dictionary(o) /\ Within(o, answers) /\ Len(o) \in Nat
      /\ \A i \in DOMAIN o : o[i].input # e.input
  BY OthersFacts
<1> HIDE DEF o
<1>2. o \in Seq(Entry) /\ DOMAIN o = 1 .. Len(o)
  BY <1>1, LenProperties DEF Dictionary
<1>3. /\ put \in Seq(Entry) /\ put # <<>> /\ Len(put) = Len(o) + 1
      /\ \A i \in 1 .. Len(o) : put[i] = o[i]
      /\ put[Len(o) + 1] = e
  BY <1>2, AppendProperties
<1> HIDE DEF put
<1>4. DOMAIN put = 1 .. Len(o) + 1
  BY <1>3, LenProperties
<1>5. \A i \in DOMAIN put : put[i] = e \/ \E k \in DOMAIN answers : put[i] = answers[k]
  <2> TAKE i \in DOMAIN put
  <2>1. CASE i = Len(o) + 1
    BY <1>3, <2>1
  <2>2. CASE i \in 1 .. Len(o)
    BY <1>1, <1>2, <1>3, <2>2 DEF Within
  <2> QED
    BY <1>1, <1>4, <2>1, <2>2
<1>6. \A i, k \in DOMAIN put : put[i].input = put[k].input => i = k
  BY <1>1, <1>2, <1>3, <1>4 DEF Dictionary
<1>7. /\ Tail(put) \in Seq(Entry) /\ Len(Tail(put)) = Len(put) - 1
      /\ \A i \in 1 .. Len(Tail(put)) : Tail(put)[i] = put[i + 1]
  BY <1>3, HeadTailProperties
<1>8. DOMAIN Tail(put) = 1 .. Len(o)
  BY <1>1, <1>3, <1>7, LenProperties
<1>9. Within(Tail(put), put)
  BY <1>1, <1>3, <1>4, <1>7, <1>8 DEF Within
<1>10. \A i, k \in DOMAIN Tail(put) : Tail(put)[i].input = Tail(put)[k].input => i = k
  BY <1>1, <1>3, <1>4, <1>6, <1>7, <1>8
<1> QED
  BY <1>3, <1>5, <1>6, <1>7, <1>9, <1>10 DEF put, o, Dictionary

-----------------------------------------------------------------------------
(***************************************************************************)
(* The types, the counter of the queue and what the threads hold, step by  *)
(* step.                                                                   *)
(***************************************************************************)
InferenceBase == InferenceTypeOK /\ ThreadsFit /\ LoadsIntoNone

LEMMA BaseFacts ==
  ASSUME InferenceBase
  PROVE  /\ thread \in [Threads -> Thread] /\ Dictionary(answers)
         /\ Placed(thread, {"loading"}) \subseteq {loader}
         /\ Placed(thread, Inside) = {inferring} \ {NONE}
         /\ waiting = Cardinality(Placed(thread, Queued)) /\ waiting <= LLM_MAX_WAITING
         /\ waiting \in Nat /\ LLM_MAX_WAITING \in Nat /\ CACHE_MAX_ENTRIES \in Nat
         /\ Len(answers) \in Nat /\ Len(answers) <= CACHE_MAX_ENTRIES
<1>1. thread \in [Threads -> Thread]
  BY DEF InferenceBase, InferenceTypeOK
<1>2. waiting = Cardinality(Placed(thread, Queued))
  BY <1>1, TypeByPlaces DEF InferenceBase, InferenceTypeOK
<1>3. waiting \in Nat
  BY <1>2, PlacedCount
<1>4. Dictionary(answers) /\ Len(answers) \in Nat
  BY LenProperties DEF InferenceBase, InferenceTypeOK, Dictionary
<1>5. LLM_MAX_WAITING \in Nat /\ CACHE_MAX_ENTRIES \in Nat
  BY InferenceAssumption
<1>6. At("loading") = Placed(thread, {"loading"}) /\ At("acquired") \cup At("infer") = Placed(thread, Inside)
  BY <1>1, TypeByPlaces
<1> QED
  BY <1>1, <1>2, <1>3, <1>4, <1>5, <1>6 DEF InferenceBase, InferenceTypeOK

\* What the invariant asks for of what a thread's step changes.
LEMMA BaseNext ==
  ASSUME /\ file' \in Models \cup {NONE} /\ llm' \in Models \cup {NONE} /\ attempted' \in BOOLEAN
         /\ loader' \in Threads \cup {NONE} /\ inferring' \in Threads \cup {NONE}
         /\ swaps' \in 0 .. MaxSwaps /\ reloads' \in 0 .. MaxReloads,
         llm' # NONE => attempted', loader' # NONE => llm' = NONE /\ attempted',
         thread' \in [Threads -> Thread], \A t \in Threads : ThreadFits(thread'[t]),
         Dictionary(answers'), Len(answers') <= CACHE_MAX_ENTRIES,
         Placed(thread', {"loading"}) \subseteq {loader'},
         Placed(thread', Inside) = {inferring'} \ {NONE},
         waiting' = Cardinality(Placed(thread', Queued)), waiting' <= LLM_MAX_WAITING
  PROVE  InferenceBase'
<1>1. /\ At("loading")' = Placed(thread', {"loading"})
      /\ At("acquired")' \cup At("infer")' = Placed(thread', Inside)
      /\ At("queue")' \cup At("acquired")' \cup At("late")' = Placed(thread', Queued)
  BY DEF At, Placed, Inside, Queued
<1>2. InferenceTypeOK'
  BY <1>1 DEF InferenceTypeOK, Dictionary
<1> QED
  BY <1>2 DEF InferenceBase, ThreadsFit, LoadsIntoNone

\* A step of one thread, and what it does to the sets the invariant counts.
LEMMA OneMoves ==
  ASSUME InferenceBase, NEW t \in Threads, NEW v \in Thread, ThreadFits(v),
         thread' = [thread EXCEPT ![t] = v]
  PROVE  /\ thread' \in [Threads -> Thread] /\ \A u \in Threads : ThreadFits(thread'[u])
         /\ \A places : Placed(thread', places) =
              IF v.at \in places THEN Placed(thread, places) \cup {t} ELSE Placed(thread, places) \ {t}
         /\ \A places : t \in Placed(thread, places) <=> thread[t].at \in places
<1>1. thread \in [Threads -> Thread]
  BY BaseFacts
<1>2. thread' \in [Threads -> Thread]
  BY <1>1
<1>3. \A u \in Threads : ThreadFits(thread'[u])
  BY <1>1 DEF InferenceBase, ThreadsFit
<1>4. \A places : Placed(thread', places) =
        IF v.at \in places THEN Placed(thread, places) \cup {t} ELSE Placed(thread, places) \ {t}
  <2> TAKE places
  <2> QED
    BY <1>1 DEF Placed
<1>5. \A places : t \in Placed(thread, places) <=> thread[t].at \in places
  BY DEF Placed
<1> QED
  BY <1>2, <1>3, <1>4, <1>5

LEMMA HitTypes ==
  ASSUME InferenceBase, NEW t \in Askers, NEW input \in Inputs \cup {NONE}, Hit(t, input)
  PROVE  InferenceBase'
<1> DEFINE e == answers[Position(input)]
<1>1. Position(input) \in DOMAIN answers /\ e.input = input
  BY DEF Hit, Holds, Position
<1>2. e \in Entry
  BY <1>1, BaseFacts, ElementOfSeq, LenProperties DEF Dictionary
<1>3. Len(Others(e.input)) = Len(answers) - 1
  BY <1>1, BaseFacts, OthersFacts DEF Hit
<1>4. answers' = Append(Others(e.input), e)
  BY <1>1 DEF Hit, MovedToEnd
<1> HIDE DEF e
<1>5. Dictionary(answers') /\ Len(answers') <= CACHE_MAX_ENTRIES
  BY <1>2, <1>3, <1>4, BaseFacts, PutFacts
<1>6. UNCHANGED <<file, llm, attempted, loader, inferring, waiting, thread, swaps, reloads>>
  BY DEF Hit
<1>7. \A places : Placed(thread', places) = Placed(thread, places)
  BY <1>6
<1> QED
  BY <1>5, <1>6, <1>7, BaseFacts, BaseNext DEF InferenceBase, InferenceTypeOK, ThreadsFit, LoadsIntoNone

\* A step of one thread from and to places the invariant does not count.
LEMMA QuietMove ==
  ASSUME InferenceBase, NEW t \in Threads, NEW v \in Thread, ThreadFits(v),
         thread' = [thread EXCEPT ![t] = v],
         {thread[t].at, v.at} \cap (Queued \cup Inside \cup {"loading"}) = {},
         Dictionary(answers'), Len(answers') <= CACHE_MAX_ENTRIES,
         /\ file' \in Models \cup {NONE} /\ llm' \in Models \cup {NONE} /\ attempted' \in BOOLEAN
         /\ swaps' \in 0 .. MaxSwaps /\ reloads' \in 0 .. MaxReloads,
         llm' # NONE => attempted', loader # NONE => llm' = NONE /\ attempted',
         UNCHANGED <<loader, inferring, waiting>>
  PROVE  InferenceBase'
<1>1. /\ Placed(thread', {"loading"}) = Placed(thread, {"loading"})
      /\ Placed(thread', Inside) = Placed(thread, Inside)
      /\ Placed(thread', Queued) = Placed(thread, Queued)
  <2> SUFFICES ASSUME NEW places, {thread[t].at, v.at} \cap places = {}
               PROVE  Placed(thread', places) = Placed(thread, places)
    BY Zenon
  <2>1. thread[t].at \notin places /\ v.at \notin places
    OBVIOUS
  <2>2. t \notin Placed(thread, places)
    BY <2>1 DEF Placed
  <2>3. Placed(thread', places) = Placed(thread, places) \ {t}
    BY <2>1, OneMoves, Zenon
  <2> QED
    BY <2>2, <2>3
<1>2. loader \in Threads \cup {NONE} /\ inferring \in Threads \cup {NONE}
  BY DEF InferenceBase, InferenceTypeOK
<1> QED
  BY <1>1, <1>2, OneMoves, BaseFacts, BaseNext

LEMMA AskTypes ==
  ASSUME InferenceBase, NEW t \in Askers, NEW input \in Inputs \cup {NONE}, Ask(t, input)
  PROVE  InferenceBase'
<1> DEFINE v == IF IsLoading THEN [Idle EXCEPT !.at = "answered", !.input = input, !.text = FALLBACK]
                ELSE [Idle EXCEPT !.at = "load", !.input = input]
<1>1. v \in Thread /\ ThreadFits(v) /\ v.at \in {"answered", "load"}
  <2>1. CASE IsLoading
    BY <2>1, RulesFit
  <2>2. CASE ~ IsLoading
    <3> DEFINE w == [Idle EXCEPT !.at = "load", !.input = input]
    <3>1. Idle \in Thread /\ Idle.text = NONE /\ Idle.model = NONE
      BY IdleFits DEF Idle
    <3>2. w \in Thread /\ w.at = "load" /\ w.text = NONE /\ w.model = NONE
      BY <3>1 DEF Thread, Places
    <3>3. v = w
      BY <2>2
    <3> HIDE DEF w, v
    <3> QED
      BY <3>2, <3>3 DEF ThreadFits, Asking
  <2> QED
    BY <2>1, <2>2
<1>2. thread' = [thread EXCEPT ![t] = v] /\ thread[t].at = "idle"
  BY DEF Ask
<1> HIDE DEF v
<1>3. {thread[t].at, v.at} \cap (Queued \cup Inside \cup {"loading"}) = {}
  BY <1>1, <1>2 DEF Queued, Inside
<1>4. t \in Threads
  BY DEF Threads
<1> QED
  BY <1>1, <1>2, <1>3, <1>4, QuietMove, BaseFacts
     DEF Ask, InferenceBase, InferenceTypeOK, LoadsIntoNone

LEMMA LoadCheckTypes ==
  ASSUME InferenceBase, NEW t \in Threads, LoadCheck(t)
  PROVE  InferenceBase'
<1>1. thread[t] \in Thread /\ ThreadFits(thread[t]) /\ thread[t].at = "load" /\ llm \in Models \cup {NONE}
  BY BaseFacts DEF LoadCheck, InferenceBase, InferenceTypeOK, ThreadsFit
<1>2. PICK v \in Thread :
        ThreadFits(v) /\ v.at \in {"idle", "answered", "slot", "lock"} /\ thread' = [thread EXCEPT ![t] = v]
  <2>1. CASE attempted
    BY <1>1, <2>1, LoadedFits DEF LoadCheck, Loaded
  <2>2. CASE ~ attempted
    <3> DEFINE v == [thread[t] EXCEPT !.at = "lock"]
    <3>1. v \in Thread /\ ThreadFits(v) /\ v.at = "lock"
      BY <1>1, StageFits DEF Places, Asking
    <3>2. thread' = [thread EXCEPT ![t] = v]
      BY <2>2 DEF LoadCheck, Goes
    <3> QED
      BY <3>1, <3>2
  <2> QED
    BY <2>1, <2>2
<1>3. {thread[t].at, v.at} \cap (Queued \cup Inside \cup {"loading"}) = {}
  BY <1>1, <1>2 DEF Queued, Inside
<1> QED
  BY <1>2, <1>3, QuietMove, BaseFacts DEF LoadCheck, InferenceBase, InferenceTypeOK, LoadsIntoNone

LEMMA LoadEnterTypes ==
  ASSUME InferenceBase, NEW t \in Threads, LoadEnter(t)
  PROVE  InferenceBase'
<1>1. thread[t] \in Thread /\ ThreadFits(thread[t]) /\ thread[t].at = "lock" /\ llm \in Models \cup {NONE}
  BY BaseFacts DEF LoadEnter, InferenceBase, InferenceTypeOK, ThreadsFit
<1>2. CASE attempted
  <2>1. PICK v \in Thread :
          ThreadFits(v) /\ v.at \in {"idle", "answered", "slot"} /\ thread' = [thread EXCEPT ![t] = v]
    BY <1>1, <1>2, LoadedFits DEF LoadEnter, Loaded
  <2>2. {thread[t].at, v.at} \cap (Queued \cup Inside \cup {"loading"}) = {}
    BY <1>1, <2>1 DEF Queued, Inside
  <2> QED
    BY <1>2, <2>1, <2>2, QuietMove, BaseFacts DEF LoadEnter, InferenceBase, InferenceTypeOK, LoadsIntoNone
<1>3. CASE ~ attempted
  <2> DEFINE v == [thread[t] EXCEPT !.at = "loading"]
  <2>1. v \in Thread /\ ThreadFits(v) /\ v.at = "loading"
    BY <1>1, StageFits DEF Places, Asking
  <2>2. thread' = [thread EXCEPT ![t] = v] /\ loader = NONE /\ loader' = t /\ attempted' = TRUE
    BY <1>3 DEF LoadEnter, Goes
  <2> HIDE DEF v
  <2>3. Placed(thread, {"loading"}) = {}
    BY <2>2, BaseFacts, NoneApart DEF Placed
  <2>4. Placed(thread', {"loading"}) = {t}
    <3>1. v.at \in {"loading"}
      BY <2>1
    <3>2. Placed(thread', {"loading"}) = Placed(thread, {"loading"}) \cup {t}
      BY <2>1, <2>2, <3>1, OneMoves, Zenon
    <3> QED
      BY <2>3, <3>2
  <2>5. Placed(thread', Inside) = Placed(thread, Inside) /\ Placed(thread', Queued) = Placed(thread, Queued)
    <3> SUFFICES ASSUME NEW places, {thread[t].at, v.at} \cap places = {}
                 PROVE  Placed(thread', places) = Placed(thread, places)
      BY <1>1, <2>1 DEF Inside, Queued
    <3>1. t \notin Placed(thread, places) /\ v.at \notin places
      BY DEF Placed
    <3>2. Placed(thread', places) = Placed(thread, places) \ {t}
      BY <2>1, <2>2, <3>1, OneMoves, Zenon
    <3> QED
      BY <3>1, <3>2
  <2>6. llm = NONE
    BY <1>3 DEF InferenceBase, InferenceTypeOK
  <2>7. thread' \in [Threads -> Thread] /\ \A u \in Threads : ThreadFits(thread'[u])
    BY <2>1, <2>2, OneMoves
  <2>8. UNCHANGED <<file, llm, inferring, waiting, answers, swaps, reloads>>
    BY DEF LoadEnter
  <2> QED
    BY <2>2, <2>4, <2>5, <2>6, <2>7, <2>8, BaseFacts, BaseNext DEF InferenceBase, InferenceTypeOK
<1> QED
  BY <1>2, <1>3

LEMMA LoadEndTypes ==
  ASSUME InferenceBase, NEW t \in Threads, LoadEnd(t)
  PROVE  InferenceBase' /\ llm = NONE
<1>1. thread[t] \in Thread /\ ThreadFits(thread[t]) /\ thread[t].at = "loading" /\ file \in Models \cup {NONE}
  BY BaseFacts DEF LoadEnd, InferenceBase, InferenceTypeOK, ThreadsFit
<1>2. PICK m \in {file, NONE} : llm' = m /\ Loaded(t, m)
  BY DEF LoadEnd
<1>3. PICK v \in Thread :
        ThreadFits(v) /\ v.at \in {"idle", "answered", "slot"} /\ thread' = [thread EXCEPT ![t] = v]
  <2>1. m \in Models \cup {NONE}
    BY <1>1
  <2> QED
    BY <1>1, <1>2, <2>1, LoadedFits DEF Loaded
<1>4. t \in Placed(thread, {"loading"}) /\ Placed(thread, {"loading"}) \subseteq {loader}
  BY <1>1, BaseFacts DEF Placed
<1>5. loader = t /\ loader # NONE /\ llm = NONE /\ attempted
  BY <1>4, NoneApart DEF InferenceBase, InferenceTypeOK, LoadsIntoNone
<1>6. Placed(thread', {"loading"}) \subseteq {loader'}
  <2>1. Placed(thread', {"loading"}) = Placed(thread, {"loading"}) \ {t}
    BY <1>3, OneMoves
  <2> QED
    BY <1>4, <1>5, <2>1
<1>7. Placed(thread', Inside) = Placed(thread, Inside) /\ Placed(thread', Queued) = Placed(thread, Queued)
  <2> SUFFICES ASSUME NEW places, {thread[t].at, v.at} \cap places = {}
               PROVE  Placed(thread', places) = Placed(thread, places)
    BY <1>1, <1>3 DEF Inside, Queued
  <2>1. t \notin Placed(thread, places) /\ v.at \notin places
    BY DEF Placed
  <2>2. Placed(thread', places) = Placed(thread, places) \ {t}
    BY <1>3, <2>1, OneMoves, Zenon
  <2> QED
    BY <2>1, <2>2
<1>8. thread' \in [Threads -> Thread] /\ \A u \in Threads : ThreadFits(thread'[u])
  BY <1>3, OneMoves
<1>9. loader' = NONE /\ UNCHANGED <<file, attempted, inferring, waiting, answers, swaps, reloads>>
  BY DEF LoadEnd
<1>10. llm' \in Models \cup {NONE}
  BY <1>1, <1>2
<1> QED
  BY <1>5, <1>6, <1>7, <1>8, <1>9, <1>10, BaseFacts, BaseNext DEF InferenceBase, InferenceTypeOK

-----------------------------------------------------------------------------
(***************************************************************************)
(* The queue: a step of a thread through the places the invariant counts.  *)
(***************************************************************************)
LEMMA QueueMove ==
  ASSUME InferenceBase, NEW t \in Threads, NEW v \in Thread, ThreadFits(v),
         thread' = [thread EXCEPT ![t] = v], "loading" \notin {thread[t].at, v.at},
         inferring' \in Threads \cup {NONE}, waiting' <= LLM_MAX_WAITING,
         Placed(thread', Inside) = {inferring'} \ {NONE},
         waiting' = waiting + (IF v.at \in Queued THEN 1 ELSE 0)
                            - (IF thread[t].at \in Queued THEN 1 ELSE 0),
         UNCHANGED <<file, llm, attempted, loader, answers, swaps, reloads>>
  PROVE  InferenceBase'
<1> DEFINE Q == Placed(thread, Queued)
<1>1. Placed(thread', {"loading"}) = Placed(thread, {"loading"})
  <2>1. t \notin Placed(thread, {"loading"})
    BY DEF Placed
  <2>2. v.at \notin {"loading"}
    OBVIOUS
  <2>3. Placed(thread', {"loading"}) = Placed(thread, {"loading"}) \ {t}
    <3>1. thread \in [Threads -> Thread]
      BY BaseFacts
    <3> QED
      BY <2>2, <3>1 DEF Placed
  <2> QED
    BY <2>1, <2>3
<1>2. Placed(thread', Queued) = IF v.at \in Queued THEN Q \cup {t} ELSE Q \ {t}
  BY OneMoves
<1>3. t \in Q <=> thread[t].at \in Queued
  BY DEF Placed
<1>4. /\ Cardinality(Q) \in Nat
      /\ t \notin Q => Cardinality(Q \cup {t}) = Cardinality(Q) + 1
      /\ t \in Q => Cardinality(Q \ {t}) = Cardinality(Q) - 1
  BY PlacedCount
<1>5. waiting = Cardinality(Q)
  BY BaseFacts
<1>6. waiting \in Nat
  BY BaseFacts
<1> HIDE DEF Q
<1>7. waiting' = Cardinality(Placed(thread', Queued))
  <2>1. CASE v.at \in Queued /\ thread[t].at \in Queued
    <3>1. waiting' = waiting
      BY <1>6, <2>1
    <3>2. Placed(thread', Queued) = Q
      BY <1>2, <1>3, <2>1
    <3> QED
      BY <1>5, <3>1, <3>2
  <2>2. CASE v.at \in Queued /\ thread[t].at \notin Queued
    <3>1. waiting' = waiting + 1
      BY <1>6, <2>2
    <3>2. Placed(thread', Queued) = Q \cup {t} /\ t \notin Q
      BY <1>2, <1>3, <2>2
    <3> QED
      BY <1>4, <1>5, <3>1, <3>2
  <2>3. CASE v.at \notin Queued /\ thread[t].at \in Queued
    <3>1. waiting' = waiting - 1
      BY <1>6, <2>3
    <3>2. Placed(thread', Queued) = Q \ {t} /\ t \in Q
      BY <1>2, <1>3, <2>3
    <3> QED
      BY <1>4, <1>5, <3>1, <3>2
  <2>4. CASE v.at \notin Queued /\ thread[t].at \notin Queued
    <3>1. waiting' = waiting
      BY <1>6, <2>4
    <3>2. Placed(thread', Queued) = Q
      BY <1>2, <1>3, <2>4
    <3> QED
      BY <1>5, <3>1, <3>2
  <2> QED
    BY <2>1, <2>2, <2>3, <2>4
<1>8. thread' \in [Threads -> Thread] /\ \A u \in Threads : ThreadFits(thread'[u])
  BY OneMoves
<1> QED
  BY <1>1, <1>7, <1>8, BaseFacts, BaseNext DEF InferenceBase, InferenceTypeOK, LoadsIntoNone

\* Whether a thread holds the lock of the model is the place it is at.
LEMMA InsideOne ==
  ASSUME InferenceBase, NEW t \in Threads
  PROVE  /\ thread[t].at \in Inside => inferring = t
         /\ thread[t].at \notin Inside => inferring # t
BY BaseFacts, NoneApart DEF Placed

\* A step that stays inside or outside leaves the lock where it is.
LEMMA InsideStays ==
  ASSUME InferenceBase, NEW t \in Threads, NEW v \in Thread, ThreadFits(v),
         thread' = [thread EXCEPT ![t] = v], thread[t].at \in Inside <=> v.at \in Inside
  PROVE  Placed(thread', Inside) = {inferring} \ {NONE}
<1>1. Placed(thread', Inside) = Placed(thread, Inside)
  <2>1. t \in Placed(thread, Inside) <=> thread[t].at \in Inside
    BY DEF Placed
  <2>2. Placed(thread', Inside) = IF v.at \in Inside THEN Placed(thread, Inside) \cup {t}
                                  ELSE Placed(thread, Inside) \ {t}
    BY OneMoves
  <2> QED
    BY <2>1, <2>2
<1> QED
  BY <1>1, BaseFacts

LEMMA QueueTypes ==
  ASSUME InferenceBase, NEW t \in Askers,
         Queue(t) \/ Acquire(t) \/ TimeOut(t) \/ Leave(t)
  PROVE  InferenceBase'
<1>1. t \in Threads /\ thread[t] \in Thread /\ ThreadFits(thread[t]) /\ waiting \in Nat
      /\ waiting <= LLM_MAX_WAITING /\ LLM_MAX_WAITING \in Nat
      /\ inferring \in Threads \cup {NONE}
  BY BaseFacts DEF Threads, InferenceBase, InferenceTypeOK, ThreadsFit
<1> DEFINE rules == [Idle EXCEPT !.at = "answered", !.input = thread[t].input, !.text = FALLBACK]
<1>2. rules \in Thread /\ ThreadFits(rules) /\ rules.at = "answered"
  <2>1. thread[t].input \in Inputs \cup {NONE}
    BY <1>1 DEF Thread
  <2> QED
    BY <2>1, RulesFit
<1>3. ASSUME NEW stage \in Places, stage \in Asking, thread[t].at \in Asking
      PROVE  LET v == [thread[t] EXCEPT !.at = stage]
             IN v \in Thread /\ ThreadFits(v) /\ v.at = stage
  <2>1. "answered" \notin {stage, thread[t].at}
    BY <1>3 DEF Asking
  <2> QED
    BY <1>1, <1>3, <2>1, StageFits
<1> HIDE DEF rules
<1>4. CASE Queue(t) /\ waiting >= LLM_MAX_WAITING
  <2>1. thread' = [thread EXCEPT ![t] = rules] /\ thread[t].at = "slot" /\ waiting' = waiting
    BY <1>4 DEF Queue, ByTheRules, rules
  <2>2. Placed(thread', Inside) = {inferring} \ {NONE}
    BY <1>1, <1>2, <2>1, InsideStays DEF Inside
  <2>3. thread[t].at \notin Queued /\ rules.at \notin Queued /\ "loading" \notin {thread[t].at, rules.at}
    BY <1>2, <1>4, <2>1 DEF Queued, Queue
  <2>4. waiting' = waiting /\ waiting' <= LLM_MAX_WAITING
    BY <1>1, <1>4 DEF Queue
  <2>5. waiting' = waiting + (IF rules.at \in Queued THEN 1 ELSE 0) - (IF thread[t].at \in Queued THEN 1 ELSE 0)
    BY <1>1, <2>3, <2>4
  <2>6. UNCHANGED <<file, llm, attempted, loader, answers, swaps, reloads>> /\ inferring' \in Threads \cup {NONE}
    BY <1>1, <1>4 DEF Queue
  <2>7. Placed(thread', Inside) = {inferring'} \ {NONE}
    BY <1>4, <2>2 DEF Queue
  <2> QED
    BY <1>1, <1>2, <2>1, <2>2, <2>3, <2>4, <2>5, <2>6, <2>7, QueueMove
<1>5. CASE Queue(t) /\ ~ (waiting >= LLM_MAX_WAITING)
  <2> DEFINE v == [thread[t] EXCEPT !.at = "queue"]
  <2>1. thread' = [thread EXCEPT ![t] = v] /\ thread[t].at = "slot" /\ waiting' = waiting + 1
    BY <1>5 DEF Queue, Goes
  <2>2. v \in Thread /\ ThreadFits(v) /\ v.at = "queue"
    BY <1>3, <2>1 DEF Asking, Places
  <2> HIDE DEF v
  <2>3. Placed(thread', Inside) = {inferring} \ {NONE}
    BY <1>1, <2>1, <2>2, InsideStays DEF Inside
  <2>4. thread[t].at \notin Queued /\ v.at \in Queued /\ "loading" \notin {thread[t].at, v.at}
    BY <1>5, <2>1, <2>2 DEF Queued, Queue
  <2>5. waiting' = waiting + 1 /\ waiting' <= LLM_MAX_WAITING
    BY <1>1, <1>5 DEF Queue
  <2>6. waiting' = waiting + (IF v.at \in Queued THEN 1 ELSE 0) - (IF thread[t].at \in Queued THEN 1 ELSE 0)
    BY <1>1, <2>4, <2>5
  <2>7. UNCHANGED <<file, llm, attempted, loader, answers, swaps, reloads>> /\ inferring' \in Threads \cup {NONE}
    BY <1>1, <1>5 DEF Queue
  <2>8. Placed(thread', Inside) = {inferring'} \ {NONE}
    BY <1>5, <2>3 DEF Queue
  <2> QED
    BY <1>1, <2>1, <2>2, <2>3, <2>4, <2>5, <2>6, <2>7, <2>8, QueueMove
<1>6. CASE Acquire(t)
  <2> DEFINE v == [thread[t] EXCEPT !.at = "acquired"]
  <2>1. /\ thread' = [thread EXCEPT ![t] = v] /\ thread[t].at = "queue"
        /\ inferring = NONE /\ inferring' = t
    BY <1>6 DEF Acquire, Goes
  <2>2. v \in Thread /\ ThreadFits(v) /\ v.at = "acquired"
    BY <1>3, <2>1 DEF Asking, Places
  <2> HIDE DEF v
  <2>3. Placed(thread, Inside) = {}
    BY <2>1, BaseFacts
  <2>4. Placed(thread', Inside) = Placed(thread, Inside) \cup {t}
    <3>1. v.at \in Inside
      BY <2>2 DEF Inside
    <3> QED
      BY <1>1, <2>1, <2>2, <3>1, BaseFacts DEF Placed
  <2>5. Placed(thread', Inside) = {inferring'} \ {NONE}
    BY <1>1, <2>1, <2>3, <2>4, NoneApart
  <2>6. thread[t].at \in Queued /\ v.at \in Queued /\ "loading" \notin {thread[t].at, v.at}
    BY <1>6, <2>1, <2>2 DEF Queued, Acquire
  <2>7. waiting' = waiting /\ waiting' <= LLM_MAX_WAITING
    BY <1>1, <1>6 DEF Acquire
  <2>8. waiting' = waiting + (IF v.at \in Queued THEN 1 ELSE 0) - (IF thread[t].at \in Queued THEN 1 ELSE 0)
    BY <1>1, <2>6, <2>7
  <2>9. UNCHANGED <<file, llm, attempted, loader, answers, swaps, reloads>> /\ inferring' \in Threads \cup {NONE}
    BY <1>1, <1>6 DEF Acquire
  <2>10. Placed(thread', Inside) = {inferring'} \ {NONE}
    BY <1>6, <2>5 DEF Acquire
  <2> QED
    BY <1>1, <2>1, <2>2, <2>5, <2>6, <2>7, <2>8, <2>9, <2>10, QueueMove
<1>7. CASE TimeOut(t)
  <2> DEFINE v == [thread[t] EXCEPT !.at = "late"]
  <2>1. thread' = [thread EXCEPT ![t] = v] /\ thread[t].at = "queue"
    BY <1>7 DEF TimeOut, Goes
  <2>2. v \in Thread /\ ThreadFits(v) /\ v.at = "late"
    BY <1>3, <2>1 DEF Asking, Places
  <2> HIDE DEF v
  <2>3. Placed(thread', Inside) = {inferring} \ {NONE}
    BY <1>1, <2>1, <2>2, InsideStays DEF Inside
  <2>4. thread[t].at \in Queued /\ v.at \in Queued /\ "loading" \notin {thread[t].at, v.at}
    BY <1>7, <2>1, <2>2 DEF Queued, TimeOut
  <2>5. waiting' = waiting /\ waiting' <= LLM_MAX_WAITING
    BY <1>1, <1>7 DEF TimeOut
  <2>6. waiting' = waiting + (IF v.at \in Queued THEN 1 ELSE 0) - (IF thread[t].at \in Queued THEN 1 ELSE 0)
    BY <1>1, <2>4, <2>5
  <2>7. UNCHANGED <<file, llm, attempted, loader, answers, swaps, reloads>> /\ inferring' \in Threads \cup {NONE}
    BY <1>1, <1>7 DEF TimeOut
  <2>8. Placed(thread', Inside) = {inferring'} \ {NONE}
    BY <1>7, <2>3 DEF TimeOut
  <2> QED
    BY <1>1, <2>1, <2>2, <2>3, <2>4, <2>5, <2>6, <2>7, <2>8, QueueMove
<1>8. CASE Leave(t) /\ thread[t].at = "late"
  <2>1. thread' = [thread EXCEPT ![t] = rules] /\ waiting' = waiting - 1
    BY <1>8 DEF Leave, ByTheRules, rules
  <2>2. Placed(thread', Inside) = {inferring} \ {NONE}
    BY <1>1, <1>2, <1>8, <2>1, InsideStays DEF Inside
  <2>3. thread[t].at \in Queued /\ rules.at \notin Queued /\ "loading" \notin {thread[t].at, rules.at}
    BY <1>2, <1>8, <2>1 DEF Queued, Leave
  <2>4. waiting' = waiting - 1 /\ waiting' <= LLM_MAX_WAITING
    BY <1>1, <1>8 DEF Leave
  <2>5. waiting' = waiting + (IF rules.at \in Queued THEN 1 ELSE 0) - (IF thread[t].at \in Queued THEN 1 ELSE 0)
    BY <1>1, <2>3, <2>4
  <2>6. UNCHANGED <<file, llm, attempted, loader, answers, swaps, reloads>> /\ inferring' \in Threads \cup {NONE}
    BY <1>1, <1>8 DEF Leave
  <2>7. Placed(thread', Inside) = {inferring'} \ {NONE}
    BY <1>8, <2>2 DEF Leave
  <2> QED
    BY <1>1, <1>2, <2>1, <2>2, <2>3, <2>4, <2>5, <2>6, <2>7, QueueMove
<1>9. CASE Leave(t) /\ thread[t].at # "late"
  <2> DEFINE v == [thread[t] EXCEPT !.at = "infer"]
  <2>1. thread' = [thread EXCEPT ![t] = v] /\ thread[t].at = "acquired" /\ waiting' = waiting - 1
    BY <1>9 DEF Leave, Goes
  <2>2. v \in Thread /\ ThreadFits(v) /\ v.at = "infer"
    BY <1>3, <2>1 DEF Asking, Places
  <2> HIDE DEF v
  <2>3. Placed(thread', Inside) = {inferring} \ {NONE}
    BY <1>1, <2>1, <2>2, InsideStays DEF Inside
  <2>4. thread[t].at \in Queued /\ v.at \notin Queued /\ "loading" \notin {thread[t].at, v.at}
    BY <1>9, <2>1, <2>2 DEF Queued, Leave
  <2>5. waiting' = waiting - 1 /\ waiting' <= LLM_MAX_WAITING
    BY <1>1, <1>9 DEF Leave
  <2>6. waiting' = waiting + (IF v.at \in Queued THEN 1 ELSE 0) - (IF thread[t].at \in Queued THEN 1 ELSE 0)
    BY <1>1, <2>4, <2>5
  <2>7. UNCHANGED <<file, llm, attempted, loader, answers, swaps, reloads>> /\ inferring' \in Threads \cup {NONE}
    BY <1>1, <1>9 DEF Leave
  <2>8. Placed(thread', Inside) = {inferring'} \ {NONE}
    BY <1>9, <2>3 DEF Leave
  <2> QED
    BY <1>1, <2>1, <2>2, <2>3, <2>4, <2>5, <2>6, <2>7, <2>8, QueueMove
<1> QED
  BY <1>4, <1>5, <1>6, <1>7, <1>8, <1>9

\* The three ways an inference may end.
LEMMA InferFits ==
  ASSUME InferenceBase, NEW t \in Askers, Infer(t)
  PROVE  \E v \in Thread :
           /\ ThreadFits(v) /\ v.at \in {"answered", "slot"} /\ thread' = [thread EXCEPT ![t] = v]
           /\ \A m : Holding(thread[t], m) => Holding(v, m)
<1> DEFINE th == thread[t]
<1>1. th \in Thread /\ ThreadFits(th) /\ th.at = "infer"
  BY BaseFacts DEF Threads, InferenceBase, ThreadsFit, Infer
<1>2. th.model \in Models
  BY <1>1 DEF ThreadFits, Asking
<1>3. CASE thread' = [thread EXCEPT ![t].at = "answered", ![t].text = thread[t].model, ![t].again = FALSE]
  <2> DEFINE v == [th EXCEPT !.at = "answered", !.text = th.model, !.again = FALSE]
  <2>1. thread' = [thread EXCEPT ![t] = v]
    BY <1>3, BaseFacts DEF Threads
  <2>2. v \in Thread /\ v.at = "answered" /\ v.text = th.model /\ v.model = th.model /\ v.crossed = th.crossed
    BY <1>1, <1>2 DEF Thread, Places
  <2> HIDE DEF v, th
  <2>3. ThreadFits(v) /\ \A m : Holding(th, m) => Holding(v, m)
    BY <1>2, <2>2, NoneApart DEF ThreadFits, Asking, Holding
  <2> QED
    BY <2>1, <2>2, <2>3 DEF th
<1>4. CASE ByTheRules(t)
  <2>1. th.input \in Inputs \cup {NONE}
    BY <1>1 DEF Thread
  <2> QED
    BY <1>4, <2>1, RulesFit DEF ByTheRules
<1>5. CASE thread' = [thread EXCEPT ![t].at = "slot", ![t].again = TRUE]
  <2> DEFINE v == [th EXCEPT !.at = "slot", !.again = TRUE]
  <2>1. thread' = [thread EXCEPT ![t] = v]
    BY <1>5, BaseFacts DEF Threads
  <2>2. v \in Thread /\ v.at = "slot" /\ v.text = th.text /\ v.model = th.model /\ v.crossed = th.crossed
    BY <1>1, <1>2 DEF Thread, Places
  <2> HIDE DEF v, th
  <2>3. ThreadFits(v) /\ \A m : Holding(th, m) => Holding(v, m)
    BY <1>1, <1>2, <2>2, NoneApart DEF ThreadFits, Asking, Holding
  <2> QED
    BY <2>1, <2>2, <2>3 DEF th
<1> QED
  BY <1>3, <1>4, <1>5 DEF Infer

LEMMA InferTypes ==
  ASSUME InferenceBase, NEW t \in Askers, Infer(t)
  PROVE  InferenceBase'
<1>1. PICK v \in Thread :
        ThreadFits(v) /\ v.at \in {"answered", "slot"} /\ thread' = [thread EXCEPT ![t] = v]
  BY InferFits
<1>2. t \in Threads /\ thread[t].at = "infer" /\ inferring' = NONE
  BY DEF Infer, Threads
<1>3. Placed(thread, Inside) = {t}
  BY <1>2, BaseFacts, InsideOne, NoneApart DEF Inside
<1>4. Placed(thread', Inside) = Placed(thread, Inside) \ {t}
  <2>1. v.at \notin Inside
    BY <1>1 DEF Inside
  <2> QED
    BY <1>1, <1>2, <2>1, BaseFacts DEF Placed
<1>5. Placed(thread', Inside) = {inferring'} \ {NONE}
  BY <1>2, <1>3, <1>4
<1>6. waiting \in Nat /\ waiting <= LLM_MAX_WAITING /\ waiting' = waiting
  BY BaseFacts DEF Infer
<1>7. v.at \notin Queued /\ thread[t].at \notin Queued /\ "loading" \notin {thread[t].at, v.at}
  BY <1>1, <1>2 DEF Queued
<1>8. waiting' = waiting + (IF v.at \in Queued THEN 1 ELSE 0) - (IF thread[t].at \in Queued THEN 1 ELSE 0)
  BY <1>6, <1>7
<1>9. UNCHANGED <<file, llm, attempted, loader, answers, swaps, reloads>>
  BY DEF Infer
<1> QED
  BY <1>1, <1>2, <1>5, <1>6, <1>7, <1>8, <1>9, QueueMove

\* Every entry after a Store was there before, or is the thread's text.
LEMMA StoreFacts ==
  ASSUME InferenceBase, NEW t \in Askers, Store(t)
  PROVE  LET e == [input |-> thread[t].input, by |-> thread[t].text, crossed |-> thread[t].crossed]
         IN /\ Dictionary(answers') /\ Len(answers') <= CACHE_MAX_ENTRIES
            /\ \A i \in DOMAIN answers' : \/ answers'[i] = e /\ e \in Entry
                                          \/ \E k \in DOMAIN answers : answers'[i] = answers[k]
<1> DEFINE e == [input |-> thread[t].input, by |-> thread[t].text, crossed |-> thread[t].crossed]
           put == Append(Others(e.input), e)
<1>1. thread[t] \in Thread /\ ThreadFits(thread[t]) /\ thread[t].at = "answered"
  BY BaseFacts DEF Threads, InferenceBase, ThreadsFit, Store
<1>2. answers' = IF e.input = NONE THEN answers
                 ELSE IF Len(put) > CACHE_MAX_ENTRIES THEN Tail(put) ELSE put
  BY DEF Store
<1>3. e.input # NONE => e \in Entry
  BY <1>1, NoneApart DEF ThreadFits, Thread, Entry
<1>4. /\ Dictionary(answers) /\ Len(answers) \in Nat /\ Len(answers) <= CACHE_MAX_ENTRIES
      /\ CACHE_MAX_ENTRIES \in Nat
  BY BaseFacts
<1>5. CASE e.input = NONE
  BY <1>2, <1>4, <1>5
<1>6. CASE e.input # NONE
  <2> HIDE DEF e
  <2>1. e \in Entry
    BY <1>3, <1>6
  <2>2. /\ Dictionary(put) /\ Len(put) = Len(Others(e.input)) + 1
        /\ \A i \in DOMAIN put : put[i] = e \/ \E k \in DOMAIN answers : put[i] = answers[k]
        /\ Dictionary(Tail(put)) /\ Len(Tail(put)) = Len(put) - 1 /\ Within(Tail(put), put)
    BY <1>4, <2>1, PutFacts
  <2>3. Len(Others(e.input)) \in Nat /\ Len(Others(e.input)) <= Len(answers)
    BY <1>4, OthersFacts
  <2> HIDE DEF put
  <2>4. CASE Len(put) > CACHE_MAX_ENTRIES
    <3>1. answers' = Tail(put)
      BY <1>2, <1>6, <2>4
    <3>2. Len(Tail(put)) <= CACHE_MAX_ENTRIES
      BY <1>4, <2>2, <2>3
    <3>3. \A i \in DOMAIN Tail(put) : Tail(put)[i] = e \/ \E k \in DOMAIN answers : Tail(put)[i] = answers[k]
      BY <2>2 DEF Within
    <3> QED
      BY <2>1, <2>2, <3>1, <3>2, <3>3 DEF e
  <2>5. CASE ~ (Len(put) > CACHE_MAX_ENTRIES)
    <3>1. answers' = put
      BY <1>2, <1>6, <2>5
    <3>2. Len(put) <= CACHE_MAX_ENTRIES
      BY <1>4, <2>2, <2>3, <2>5
    <3> QED
      BY <2>1, <2>2, <3>1, <3>2 DEF e
  <2> QED
    BY <2>4, <2>5
<1> QED
  BY <1>5, <1>6

LEMMA StoreTypes ==
  ASSUME InferenceBase, NEW t \in Askers, Store(t)
  PROVE  InferenceBase'
<1>1. thread' = [thread EXCEPT ![t] = Idle] /\ thread[t].at = "answered" /\ Idle.at = "idle"
  BY DEF Store, Idle
<1>2. {thread[t].at, Idle.at} \cap (Queued \cup Inside \cup {"loading"}) = {}
  BY <1>1 DEF Queued, Inside
<1>3. t \in Threads /\ Idle \in Thread /\ ThreadFits(Idle)
  BY IdleFits DEF Threads
<1>4. Dictionary(answers') /\ Len(answers') <= CACHE_MAX_ENTRIES
  BY StoreFacts
<1> QED
  BY <1>1, <1>2, <1>3, <1>4, QuietMove DEF Store, InferenceBase, InferenceTypeOK, LoadsIntoNone

LEMMA SwapTypes ==
  ASSUME InferenceBase, NEW m \in Models \cup {NONE}, Swap(m)
  PROVE  InferenceBase'
<1>1. swaps' \in 0 .. MaxSwaps
  BY InferenceAssumption DEF Swap, InferenceBase, InferenceTypeOK
<1>2. UNCHANGED <<llm, attempted, loader, inferring, waiting, answers, thread, reloads>> /\ file' = m
  BY DEF Swap
<1> QED
  BY <1>1, <1>2, BaseFacts, BaseNext DEF InferenceBase, InferenceTypeOK, ThreadsFit, LoadsIntoNone

\* The Reloader goes from one of its own places to another.
LEMMA ReloaderMoves ==
  ASSUME InferenceBase, thread[Reloader].at \in {"idle", "reset"},
         NEW stage \in {"reset", "clear"}, Goes(Reloader, stage)
  PROVE  \E v \in Thread :
           /\ ThreadFits(v) /\ v.at = stage /\ thread' = [thread EXCEPT ![Reloader] = v]
           /\ {thread[Reloader].at, v.at} \cap (Queued \cup Inside \cup {"loading"}) = {}
           /\ \A m : Holding(thread[Reloader], m) => Holding(v, m)
<1> DEFINE v == [thread[Reloader] EXCEPT !.at = stage]
<1>1. thread[Reloader] \in Thread /\ ThreadFits(thread[Reloader])
  BY BaseFacts, ThreadsFinite DEF InferenceBase, ThreadsFit
<1>2. v \in Thread /\ ThreadFits(v) /\ v.at = stage /\ (\A m : Holding(thread[Reloader], m) => Holding(v, m))
  <2>1. stage \in Places /\ "answered" \notin {stage, thread[Reloader].at}
    BY DEF Places
  <2>2. stage \notin Asking /\ thread[Reloader].at \notin Asking
    BY DEF Asking
  <2> QED
    BY <1>1, <2>1, <2>2, StageFits
<1>3. thread' = [thread EXCEPT ![Reloader] = v]
  BY DEF Goes
<1> HIDE DEF v
<1>4. {thread[Reloader].at, v.at} \cap (Queued \cup Inside \cup {"loading"}) = {}
  BY <1>2 DEF Queued, Inside
<1> QED
  BY <1>2, <1>3, <1>4

LEMMA ReloadTypes ==
  ASSUME InferenceBase, ReloadStart \/ ReloadReset
  PROVE  InferenceBase'
<1>1. CASE ReloadStart
  <2>1. reloads' \in 0 .. MaxReloads
    BY <1>1, InferenceAssumption DEF ReloadStart, InferenceBase, InferenceTypeOK
  <2>2. PICK v \in Thread :
          /\ ThreadFits(v) /\ thread' = [thread EXCEPT ![Reloader] = v]
          /\ {thread[Reloader].at, v.at} \cap (Queued \cup Inside \cup {"loading"}) = {}
    BY <1>1, ReloaderMoves DEF ReloadStart
  <2> QED
    BY <1>1, <2>1, <2>2, QuietMove, BaseFacts, ThreadsFinite
       DEF ReloadStart, InferenceBase, InferenceTypeOK, LoadsIntoNone
<1>2. CASE ReloadReset
  <2>1. PICK v \in Thread :
          /\ ThreadFits(v) /\ thread' = [thread EXCEPT ![Reloader] = v]
          /\ {thread[Reloader].at, v.at} \cap (Queued \cup Inside \cup {"loading"}) = {}
    BY <1>2, ReloaderMoves DEF ReloadReset
  <2> QED
    BY <1>2, <2>1, QuietMove, BaseFacts, ThreadsFinite
       DEF ReloadReset, InferenceBase, InferenceTypeOK, LoadsIntoNone
<1> QED
  BY <1>1, <1>2

\* A reload marks every thread that holds a model, and goes on to load.
LEMMA ClearFacts ==
  ASSUME InferenceBase, ReloadClear
  PROVE  /\ thread' \in [Threads -> Thread]
         /\ \A u \in Threads : ThreadFits(thread'[u]) /\ (\A m : Holding(thread'[u], m))
         /\ \A u \in Threads : u # Reloader => thread'[u].at = thread[u].at
         /\ thread[Reloader].at = "clear" /\ thread'[Reloader].at = "load"
<1>1. thread \in [Threads -> Thread] /\ Reloader \in Threads
  BY BaseFacts, ThreadsFinite
<1>2. thread[Reloader].at = "clear" /\ ThreadFits(thread[Reloader])
  BY <1>1 DEF ReloadClear, InferenceBase, ThreadsFit
<1>3. thread' = [u \in Threads |->
        IF u = Reloader THEN [thread[u] EXCEPT !.at = "load"]
        ELSE [thread[u] EXCEPT !.crossed = @ \/ thread[u].model # NONE]]
  BY DEF ReloadClear
<1>4. ASSUME NEW u \in Threads, u # Reloader
      PROVE  /\ thread'[u] \in Thread /\ ThreadFits(thread'[u]) /\ (\A m : Holding(thread'[u], m))
             /\ thread'[u].at = thread[u].at
  <2> DEFINE th == thread[u]
             v == [th EXCEPT !.crossed = @ \/ th.model # NONE]
  <2>1. th \in Thread /\ ThreadFits(th)
    BY <1>1 DEF InferenceBase, ThreadsFit
  <2>2. thread'[u] = v
    BY <1>3, <1>4
  <2>3. (th.crossed \/ th.model # NONE) \in BOOLEAN
    BY <2>1 DEF Thread
  <2> HIDE DEF th
  <2>4. /\ v \in Thread /\ v.at = th.at /\ v.text = th.text /\ v.model = th.model
        /\ v.crossed = (th.crossed \/ th.model # NONE)
    BY <2>1, <2>3 DEF Thread
  <2> HIDE DEF v
  <2>5. ThreadFits(v) /\ (\A m : Holding(v, m))
    BY <2>1, <2>4 DEF ThreadFits, Holding
  <2> QED
    BY <2>2, <2>4, <2>5 DEF th
<1>5. /\ thread'[Reloader] \in Thread /\ ThreadFits(thread'[Reloader])
      /\ (\A m : Holding(thread'[Reloader], m)) /\ thread'[Reloader].at = "load"
  <2> DEFINE th == thread[Reloader]
             v == [th EXCEPT !.at = "load"]
  <2>1. th \in Thread /\ th.text = NONE /\ th.model = NONE
    BY <1>1, <1>2 DEF ThreadFits, Asking
  <2>2. thread'[Reloader] = v
    BY <1>1, <1>3
  <2> HIDE DEF th
  <2>3. v \in Thread /\ v.at = "load" /\ v.text = NONE /\ v.model = NONE
    BY <2>1 DEF Thread, Places
  <2> HIDE DEF v
  <2>4. ThreadFits(v) /\ (\A m : Holding(v, m))
    BY <2>3 DEF ThreadFits, Asking, Holding
  <2> QED
    BY <2>2, <2>3, <2>4
<1>6. \A u \in Threads : thread'[u] \in Thread
  BY <1>4, <1>5
<1>7. thread' \in [Threads -> Thread]
  <2>1. thread' = [u \in Threads |-> thread'[u]]
    BY <1>3
  <2> QED
    BY <1>6, <2>1
<1> QED
  BY <1>2, <1>4, <1>5, <1>7

LEMMA ClearTypes ==
  ASSUME InferenceBase, ReloadClear
  PROVE  InferenceBase'
<1>1. /\ Placed(thread', {"loading"}) = Placed(thread, {"loading"})
      /\ Placed(thread', Inside) = Placed(thread, Inside)
      /\ Placed(thread', Queued) = Placed(thread, Queued)
  BY ClearFacts DEF Placed, Inside, Queued
<1>2. Dictionary(answers') /\ Len(answers') = 0
  BY EmptySeq DEF ReloadClear, Dictionary
<1>3. Len(answers') <= CACHE_MAX_ENTRIES
  BY <1>2, BaseFacts
<1>4. thread' \in [Threads -> Thread] /\ \A u \in Threads : ThreadFits(thread'[u])
  BY ClearFacts
<1>5. UNCHANGED <<file, llm, attempted, loader, inferring, waiting, swaps, reloads>>
  BY DEF ReloadClear
<1> QED
  BY <1>1, <1>2, <1>3, <1>4, <1>5, BaseFacts, BaseNext DEF InferenceBase, InferenceTypeOK, LoadsIntoNone

LEMMA InferenceTypes ==
  ASSUME InferenceBase, InferenceNext
  PROVE  InferenceBase'
<1>1. ASSUME NEW t \in Askers, NEW input \in Inputs \cup {NONE}, Hit(t, input) \/ Ask(t, input)
      PROVE  InferenceBase'
  BY <1>1, HitTypes, AskTypes
<1>2. ASSUME NEW t \in Threads, LoadStep(t) PROVE InferenceBase'
  BY <1>2, LoadCheckTypes, LoadEnterTypes, LoadEndTypes DEF LoadStep
<1>3. ASSUME NEW t \in Askers, AskStep(t) PROVE InferenceBase'
  BY <1>3, QueueTypes, InferTypes, StoreTypes DEF AskStep
<1>4. ASSUME NEW m \in Models \cup {NONE}, Swap(m) PROVE InferenceBase'
  BY <1>4, SwapTypes
<1>5. CASE ReloadStart \/ ReloadStep
  BY <1>5, ReloadTypes, ClearTypes DEF ReloadStep
<1> QED
  BY <1>1, <1>2, <1>3, <1>4, <1>5 DEF InferenceNext, ThreadStep

-----------------------------------------------------------------------------
(***************************************************************************)
(* Which model a thread and an entry of the cache are of.  The one way to  *)
(* another model leads through a reload: it empties _llm, and nothing is   *)
(* loaded into the place of a model.                                       *)
(***************************************************************************)
LEMMA HeldMove ==
  ASSUME InferenceInv, NEW t \in Threads, NEW v \in Thread, thread' = [thread EXCEPT ![t] = v],
         Holding(thread[t], llm) => Holding(v, llm), t = Reloader => thread[t].at # "clear",
         llm' = llm,
         \A i \in DOMAIN answers' :
           \/ \E k \in DOMAIN answers : answers'[i] = answers[k]
           \/ Holding(thread[t], llm) => answers'[i].by \in {FALLBACK, llm} \/ answers'[i].crossed
  PROVE  HoldsTheModel' /\ CacheOfTheModel'
<1>1. thread \in [Threads -> Thread]
  BY DEF InferenceInv, InferenceTypeOK
<1>2. SUFFICES ASSUME thread'[Reloader].at # "clear"
               PROVE  /\ \A u \in Threads : Holding(thread'[u], llm)
                      /\ \A i \in DOMAIN answers' : answers'[i].by \in {FALLBACK, llm} \/ answers'[i].crossed
  BY DEF HoldsTheModel, CacheOfTheModel
<1>3. thread[Reloader].at # "clear"
  BY <1>1, <1>2, ThreadsFinite
<1>4. /\ \A u \in Threads : Holding(thread[u], llm)
      /\ \A k \in DOMAIN answers : answers[k].by \in {FALLBACK, llm} \/ answers[k].crossed
  BY <1>3 DEF InferenceInv, HoldsTheModel, CacheOfTheModel
<1>5. \A u \in Threads : Holding(thread'[u], llm)
  BY <1>1, <1>4
<1> QED
  BY <1>4, <1>5

LEMMA InferenceInvBase == InferenceInv <=> InferenceBase /\ HoldsTheModel /\ CacheOfTheModel
BY DEF InferenceInv, InferenceBase

LEMMA AskHeld ==
  ASSUME InferenceInv, NEW t \in Askers, NEW input \in Inputs \cup {NONE}, Hit(t, input) \/ Ask(t, input)
  PROVE  HoldsTheModel' /\ CacheOfTheModel'
<1>1. InferenceBase /\ t \in Threads /\ t # Reloader /\ llm' = llm
  BY InferenceInvBase, InferenceAssumption DEF Threads, Hit, Ask
<1>2. CASE Hit(t, input)
  <2>1. thread[t] \in Thread /\ thread' = [thread EXCEPT ![t] = thread[t]]
    BY <1>1, <1>2, BaseFacts DEF Hit
  <2>2. \A i \in DOMAIN answers' : \E k \in DOMAIN answers : answers'[i] = answers[k]
    <3> DEFINE e == answers[Position(input)]
    <3>1. Position(input) \in DOMAIN answers /\ e.input = input
      BY <1>2 DEF Hit, Holds, Position
    <3>2. e \in Entry
      BY <1>1, <3>1, BaseFacts, ElementOfSeq, LenProperties DEF Dictionary
    <3>3. answers' = Append(Others(e.input), e)
      BY <1>2, <3>1 DEF Hit, MovedToEnd
    <3>4. Dictionary(answers)
      BY <1>1, BaseFacts
    <3>5. \A i \in DOMAIN answers' : answers'[i] = e \/ \E k \in DOMAIN answers : answers'[i] = answers[k]
      BY <3>2, <3>3, <3>4, PutFacts
    <3> QED
      BY <3>1, <3>5
  <2> QED
    BY <1>1, <2>1, <2>2, HeldMove
<1>3. CASE Ask(t, input)
  <2> DEFINE v == IF IsLoading THEN [Idle EXCEPT !.at = "answered", !.input = input, !.text = FALLBACK]
                  ELSE [Idle EXCEPT !.at = "load", !.input = input]
  <2>1. thread' = [thread EXCEPT ![t] = v] /\ answers' = answers
    BY <1>3 DEF Ask
  <2>2. v \in Thread /\ Holding(v, llm)
    <3>1. CASE IsLoading
      BY <3>1, RulesFit
    <3>2. CASE ~ IsLoading
      <4> DEFINE w == [Idle EXCEPT !.at = "load", !.input = input]
      <4>1. Idle \in Thread /\ Idle.model = NONE
        BY IdleFits DEF Idle
      <4>2. w \in Thread /\ w.model = NONE
        BY <4>1 DEF Thread, Places
      <4>3. v = w
        BY <3>2
      <4> HIDE DEF w, v
      <4> QED
        BY <4>2, <4>3 DEF Holding
    <3> QED
      BY <3>1, <3>2
  <2> HIDE DEF v
  <2> QED
    BY <1>1, <2>1, <2>2, HeldMove
<1> QED
  BY <1>2, <1>3

\* Loading without changing what is loaded.
LEMMA LoadHeld ==
  ASSUME InferenceInv, NEW t \in Threads, LoadCheck(t) \/ LoadEnter(t)
  PROVE  HoldsTheModel' /\ CacheOfTheModel'
<1> DEFINE th == thread[t]
<1>1. /\ th \in Thread /\ ThreadFits(th) /\ th.at \in {"load", "lock"} /\ llm \in Models \cup {NONE}
      /\ llm' = llm /\ answers' = answers
  BY InferenceInvBase, BaseFacts DEF LoadCheck, LoadEnter, InferenceBase, InferenceTypeOK, ThreadsFit
<1>2. CASE Loaded(t, llm)
  <2>1. PICK v \in Thread : (Holding(th, llm) => Holding(v, llm)) /\ thread' = [thread EXCEPT ![t] = v]
    BY <1>1, <1>2, LoadedFits DEF Loaded
  <2> QED
    BY <1>1, <2>1, HeldMove
<1>3. ASSUME NEW stage \in {"lock", "loading"}, Goes(t, stage)
      PROVE  HoldsTheModel' /\ CacheOfTheModel'
  <2> DEFINE v == [th EXCEPT !.at = stage]
  <2>1. v \in Thread /\ (\A m : Holding(th, m) => Holding(v, m))
    BY <1>1, StageFits DEF Places, Asking
  <2>2. thread' = [thread EXCEPT ![t] = v]
    BY <1>3 DEF Goes
  <2> QED
    BY <1>1, <2>1, <2>2, HeldMove
<1> QED
  BY <1>2, <1>3 DEF LoadCheck, LoadEnter

\* The load that ends puts a model where there was none.
LEMMA LoadEndHeld ==
  ASSUME InferenceInv, NEW t \in Threads, LoadEnd(t)
  PROVE  HoldsTheModel' /\ CacheOfTheModel'
<1>1. /\ thread \in [Threads -> Thread] /\ thread[t] \in Thread /\ ThreadFits(thread[t])
      /\ thread[t].at = "loading" /\ file \in Models \cup {NONE} /\ llm = NONE /\ Dictionary(answers)
      /\ answers' = answers
  BY InferenceInvBase, LoadEndTypes, BaseFacts DEF LoadEnd, InferenceBase, InferenceTypeOK, ThreadsFit
<1>2. PICK m \in {file, NONE} : llm' = m /\ Loaded(t, m)
  BY DEF LoadEnd
<1>3. PICK v \in Thread :
        /\ v.at \in {"idle", "answered", "slot"} /\ thread' = [thread EXCEPT ![t] = v]
        /\ Holding(thread[t], m) => Holding(v, m)
  <2>1. m \in Models \cup {NONE}
    BY <1>1
  <2> QED
    BY <1>1, <1>2, <2>1, LoadedFits DEF Loaded
<1>4. SUFFICES ASSUME thread'[Reloader].at # "clear"
               PROVE  /\ \A u \in Threads : Holding(thread'[u], m)
                      /\ \A i \in DOMAIN answers : answers[i].by \in {FALLBACK, m} \/ answers[i].crossed
  BY <1>1, <1>2 DEF HoldsTheModel, CacheOfTheModel
<1>5. thread[Reloader].at # "clear"
  BY <1>1, <1>3, <1>4, ThreadsFinite
<1>6. /\ \A u \in Threads : Holding(thread[u], NONE)
      /\ \A k \in DOMAIN answers : answers[k].by \in {FALLBACK, NONE} \/ answers[k].crossed
  BY <1>1, <1>5 DEF InferenceInv, HoldsTheModel, CacheOfTheModel
<1>7. \A u \in Threads : Holding(thread[u], m)
  BY <1>6 DEF Holding
<1>8. \A u \in Threads : Holding(thread'[u], m)
  BY <1>1, <1>3, <1>7
<1>9. \A k \in DOMAIN answers : answers[k].by \in {FALLBACK, m} \/ answers[k].crossed
  <2> TAKE k \in DOMAIN answers
  <2>1. answers[k] \in Entry
    BY <1>1, ElementOfSeq, LenProperties DEF Dictionary
  <2>2. answers[k].by # NONE
    BY <2>1, NoneApart DEF Entry
  <2> QED
    BY <1>6, <2>2
<1> QED
  BY <1>8, <1>9

\* A thread keeps the model it asks while it waits, and its text is the model's or the rules'.
LEMMA AskStepHeld ==
  ASSUME InferenceInv, NEW t \in Askers, AskStep(t)
  PROVE  HoldsTheModel' /\ CacheOfTheModel'
<1> DEFINE th == thread[t]
<1>1. /\ InferenceBase /\ t \in Threads /\ t # Reloader
      /\ th \in Thread /\ ThreadFits(th) /\ llm' = llm
  BY InferenceInvBase, BaseFacts, InferenceAssumption
     DEF Threads, InferenceBase, ThreadsFit, AskStep, Queue, Acquire, TimeOut, Leave, Infer, Store
<1>2. CASE Store(t)
  <2>1. thread' = [thread EXCEPT ![t] = Idle] /\ Idle \in Thread /\ Holding(Idle, llm) /\ th.at = "answered"
    BY <1>2, IdleFits DEF Store
  <2> DEFINE e == [input |-> th.input, by |-> th.text, crossed |-> th.crossed]
  <2>2. \A i \in DOMAIN answers' : answers'[i] = e \/ \E k \in DOMAIN answers : answers'[i] = answers[k]
    BY <1>1, <1>2, StoreFacts
  <2>3. Holding(th, llm) => e.by \in {FALLBACK, llm} \/ e.crossed
    BY <1>1, <2>1 DEF ThreadFits, Holding
  <2> HIDE DEF e
  <2>4. \A i \in DOMAIN answers' :
          \/ \E k \in DOMAIN answers : answers'[i] = answers[k]
          \/ Holding(th, llm) => answers'[i].by \in {FALLBACK, llm} \/ answers'[i].crossed
    BY <2>2, <2>3
  <2> QED
    BY <1>1, <2>1, <2>4, HeldMove
<1>3. CASE Infer(t)
  <2>1. PICK v \in Thread :
          thread' = [thread EXCEPT ![t] = v] /\ \A m : Holding(th, m) => Holding(v, m)
    BY <1>1, <1>3, InferFits
  <2>2. answers' = answers
    BY <1>3 DEF Infer
  <2> QED
    BY <1>1, <2>1, <2>2, HeldMove
<1>4. ASSUME answers' = answers, ByTheRules(t)
      PROVE  HoldsTheModel' /\ CacheOfTheModel'
  <2> DEFINE v == [Idle EXCEPT !.at = "answered", !.input = th.input, !.text = FALLBACK]
  <2>1. th.input \in Inputs \cup {NONE}
    BY <1>1 DEF Thread
  <2>2. v \in Thread /\ Holding(v, llm)
    BY <2>1, RulesFit
  <2>3. thread' = [thread EXCEPT ![t] = v]
    BY <1>4 DEF ByTheRules
  <2> HIDE DEF v
  <2> QED
    BY <1>1, <1>4, <2>2, <2>3, HeldMove
<1>5. ASSUME NEW stage \in {"queue", "acquired", "late", "infer"}, Goes(t, stage), answers' = answers,
             th.at \in Asking
      PROVE  HoldsTheModel' /\ CacheOfTheModel'
  <2> DEFINE v == [th EXCEPT !.at = stage]
  <2>1. stage \in Places /\ stage \in Asking /\ "answered" \notin {stage, th.at}
    BY <1>5 DEF Places, Asking
  <2>2. v \in Thread /\ (\A m : Holding(th, m) => Holding(v, m))
    BY <1>1, <1>5, <2>1, StageFits
  <2>3. thread' = [thread EXCEPT ![t] = v]
    BY <1>5 DEF Goes
  <2> HIDE DEF v
  <2> QED
    BY <1>1, <1>5, <2>2, <2>3, HeldMove
<1>6. CASE Queue(t)
  BY <1>4, <1>5, <1>6 DEF Queue, Asking
<1>7. CASE Acquire(t)
  BY <1>5, <1>7 DEF Acquire, Asking
<1>8. CASE TimeOut(t)
  BY <1>5, <1>8 DEF TimeOut, Asking
<1>9. CASE Leave(t)
  BY <1>4, <1>5, <1>9 DEF Leave, Asking
<1> QED
  BY <1>2, <1>3, <1>6, <1>7, <1>8, <1>9 DEF AskStep

LEMMA ReloadHeld ==
  ASSUME InferenceInv, ReloadStart \/ ReloadStep
  PROVE  HoldsTheModel' /\ CacheOfTheModel'
<1>1. InferenceBase /\ Reloader \in Threads /\ thread \in [Threads -> Thread]
  BY InferenceInvBase, BaseFacts, ThreadsFinite
<1>2. CASE ReloadStart
  <2>1. PICK v \in Thread :
          thread' = [thread EXCEPT ![Reloader] = v] /\ \A m : Holding(thread[Reloader], m) => Holding(v, m)
    BY <1>1, <1>2, ReloaderMoves DEF ReloadStart
  <2> QED
    BY <1>1, <1>2, <2>1, HeldMove DEF ReloadStart
<1>3. CASE ReloadReset
  <2>1. thread'[Reloader].at = "clear"
    BY <1>1, <1>3 DEF ReloadReset, Goes, Thread
  <2> QED
    BY <2>1 DEF HoldsTheModel, CacheOfTheModel
<1>4. CASE ReloadClear
  <2>1. \A u \in Threads : \A m : Holding(thread'[u], m)
    BY <1>1, <1>4, ClearFacts
  <2>2. answers' = <<>>
    BY <1>4 DEF ReloadClear
  <2> QED
    BY <2>1, <2>2 DEF HoldsTheModel, CacheOfTheModel
<1> QED
  BY <1>2, <1>3, <1>4 DEF ReloadStep

LEMMA InferenceInitInv == InferenceInit => InferenceInv
<1> SUFFICES ASSUME InferenceInit PROVE InferenceInv
  OBVIOUS
<1>1. PICK warm \in BOOLEAN :
        thread = [t \in Threads |-> IF t = Warmup /\ warm THEN [Idle EXCEPT !.at = "load"] ELSE Idle]
  BY DEF InferenceInit
<1> DEFINE w == [Idle EXCEPT !.at = "load"]
<1>2. Idle \in Thread /\ Idle.at = "idle" /\ Idle.model = NONE /\ Idle.text = NONE
  BY IdleFits DEF Idle
<1>3. w \in Thread /\ w.at = "load" /\ w.model = NONE /\ w.text = NONE
  BY <1>2 DEF Thread, Places
<1> HIDE DEF w
<1>4. \A t \in Threads : thread[t] \in {w, Idle}
  BY <1>1 DEF w
<1>5. thread \in [Threads -> Thread]
  <2>1. thread = [t \in Threads |-> IF t = Warmup /\ warm THEN w ELSE Idle]
    BY <1>1 DEF w
  <2> QED
    BY <1>2, <1>3, <2>1
<1>6. ThreadFits(w) /\ ThreadFits(Idle) /\ (\A m : Holding(w, m)) /\ (\A m : Holding(Idle, m))
  BY <1>2, <1>3 DEF ThreadFits, Asking, Holding
<1>7. ThreadsFit /\ LoadsIntoNone /\ HoldsTheModel
  BY <1>4, <1>6 DEF InferenceInit, ThreadsFit, LoadsIntoNone, HoldsTheModel
<1>8. /\ Placed(thread, {"loading"}) = {} /\ Placed(thread, Inside) = {} /\ Placed(thread, Queued) = {}
  BY <1>2, <1>3, <1>4 DEF Placed, Inside, Queued
<1>9. InferenceTypeOK
  <2>1. /\ At("loading") = {} /\ At("acquired") \cup At("infer") = {}
        /\ At("queue") \cup At("acquired") \cup At("late") = {}
    BY <1>5, <1>8, TypeByPlaces
  <2>2. Cardinality({}) = 0
    BY FS_EmptySet
  <2>3. answers = <<>> /\ answers \in Seq(Entry) /\ Len(answers) = 0
    BY EmptySeq DEF InferenceInit
  <2>4. 0 <= CACHE_MAX_ENTRIES /\ 0 <= LLM_MAX_WAITING /\ 0 \in 0 .. MaxSwaps /\ 0 \in 0 .. MaxReloads
    BY InferenceAssumption
  <2>5. /\ file \in Models \cup {NONE} /\ llm \in Models \cup {NONE} /\ attempted \in BOOLEAN
        /\ loader \in Threads \cup {NONE} /\ inferring \in Threads \cup {NONE}
        /\ swaps \in 0 .. MaxSwaps /\ reloads \in 0 .. MaxReloads /\ (llm # NONE => attempted)
    BY <2>4 DEF InferenceInit
  <2>6. At("loading") \subseteq {loader} /\ {inferring} \ {NONE} = {}
    BY <2>1 DEF InferenceInit
  <2>7. waiting = Cardinality(At("queue") \cup At("acquired") \cup At("late")) /\ waiting <= LLM_MAX_WAITING
    BY <2>1, <2>2, <2>4 DEF InferenceInit
  <2>8. \A i, k \in DOMAIN answers : answers[i].input = answers[k].input => i = k
    BY <2>3
  <2>9. Len(answers) <= CACHE_MAX_ENTRIES
    BY <2>3, <2>4
  <2> QED
    BY <1>5, <2>1, <2>3, <2>5, <2>6, <2>7, <2>8, <2>9 DEF InferenceTypeOK
<1>10. CacheOfTheModel
  BY DEF InferenceInit, CacheOfTheModel
<1> QED
  BY <1>7, <1>9, <1>10 DEF InferenceInv

LEMMA InferenceNextInv == InferenceInv /\ [InferenceNext]_inferenceVars => InferenceInv'
<1> SUFFICES ASSUME InferenceInv, [InferenceNext]_inferenceVars PROVE InferenceInv'
  OBVIOUS
<1>1. CASE InferenceNext
  <2>1. InferenceBase'
    BY <1>1, InferenceTypes, InferenceInvBase
  <2>2. HoldsTheModel' /\ CacheOfTheModel'
    <3>1. ASSUME NEW t \in Askers, NEW input \in Inputs \cup {NONE}, Hit(t, input) \/ Ask(t, input)
          PROVE  HoldsTheModel' /\ CacheOfTheModel'
      BY <3>1, AskHeld
    <3>2. ASSUME NEW t \in Threads, LoadStep(t) PROVE HoldsTheModel' /\ CacheOfTheModel'
      BY <3>2, LoadHeld, LoadEndHeld DEF LoadStep
    <3>3. ASSUME NEW t \in Askers, AskStep(t) PROVE HoldsTheModel' /\ CacheOfTheModel'
      BY <3>3, AskStepHeld
    <3>4. ASSUME NEW m \in Models \cup {NONE}, Swap(m) PROVE HoldsTheModel' /\ CacheOfTheModel'
      BY <3>4 DEF Swap, InferenceInv, HoldsTheModel, CacheOfTheModel
    <3>5. CASE ReloadStart \/ ReloadStep
      BY <3>5, ReloadHeld
    <3> QED
      BY <1>1, <3>1, <3>2, <3>3, <3>4, <3>5 DEF InferenceNext, ThreadStep
  <2> QED
    BY <2>1, <2>2 DEF InferenceInv, InferenceBase
<1>2. CASE UNCHANGED inferenceVars
  BY <1>2 DEF inferenceVars, InferenceInv, InferenceTypeOK, At, ThreadsFit, LoadsIntoNone, HoldsTheModel,
              CacheOfTheModel
<1> QED
  BY <1>1, <1>2

(***************************************************************************)
(* The counter of the queue is the number of threads that wait, never more *)
(* than LLM_MAX_WAITING, one thread at most is in the model, and the cache *)
(* holds one answer for an input and no more than CACHE_MAX_ENTRIES        *)
(* (_InferSlot, _cache_put).                                               *)
(***************************************************************************)
THEOREM InferenceTypeCorrect == InferenceSpec => []InferenceTypeOK
<1>1. InferenceInv => InferenceTypeOK
  BY DEF InferenceInv
<1> QED
  BY <1>1, InferenceInitInv, InferenceNextInv, PTL DEF InferenceSpec

(***************************************************************************)
(* However many threads ask while the model is swapped and reloaded, the   *)
(* cache holds no answer of a model that is gone, but those that were      *)
(* being made when the reload cleared it (reload, _cache_put).             *)
(***************************************************************************)
THEOREM CacheOfTheModelAlways == InferenceSpec => []CacheOfTheModel
<1>1. InferenceInv => CacheOfTheModel
  BY DEF InferenceInv
<1> QED
  BY <1>1, InferenceInitInv, InferenceNextInv, PTL DEF InferenceSpec

-----------------------------------------------------------------------------
(***************************************************************************)
(* Reasoning.  The percents of the data given for some questions.          *)
(***************************************************************************)
KnownOf(S) == UNION {Data[q] : q \in S}

\* BoardOnGrounds of one trace.
Grounded(trace) ==
  trace.may_go_to_board => Primary(trace.question) /\ 3 * trace.fell_back <= Cardinality(Stages)

\* The percents a trace carries are known, and what is not begun has no trace.
RequestFits(rq, S) ==
  /\ rq.at = "idle" => rq.trace = NoTrace
  /\ rq.at # "idle" => rq.trace.question \in S
  /\ rq.at \in {"recall", "passes"} => rq.trace.fell_back = 0 /\ ~ rq.trace.may_go_to_board
  /\ rq.trace.recalled \cup rq.trace.root \cup rq.trace.said \subseteq KnownOf(S)
  /\ Grounded(rq.trace)

RequestsFit == \A r \in Requests : RequestFits(request[r], asked)

\* Requests that may still add to the memory.
Pending(req) == {r \in Requests : req[r].at \notin {"idle", "cache"}}

RoomForMemory == Cardinality(Pending(request)) + Len(memory) <= MaxConclusions

ReasoningInv == ReasoningTypeOK /\ RequestsFit /\ RoomForMemory /\ NothingInvented

-----------------------------------------------------------------------------
LEMMA StagesCount == IsFiniteSet(Stages) /\ Cardinality(Stages) = 9
<1>1. ASSUME NEW S, IsFiniteSet(S), NEW n \in Nat, Cardinality(S) = n, NEW x, x \notin S
      PROVE  IsFiniteSet(S \cup {x}) /\ Cardinality(S \cup {x}) = n + 1
  BY <1>1, FS_AddElement
<1>2. IsFiniteSet({}) /\ Cardinality({}) = 0
  BY FS_EmptySet
<1>3. IsFiniteSet({} \cup {"E0"}) /\ Cardinality({} \cup {"E0"}) = 1
  BY <1>1, <1>2
<1>4. IsFiniteSet({} \cup {"E0"} \cup {"E1"}) /\ Cardinality({} \cup {"E0"} \cup {"E1"}) = 2
  BY <1>1, <1>3
<1> DEFINE S2 == {"E0", "E1"} S4 == {"E0", "E1", "E2", "E2Q"}
           S6 == {"E0", "E1", "E2", "E2Q", "E3", "E4"}
           S8 == {"E0", "E1", "E2", "E2Q", "E3", "E4", "E5", "E6"}
<1>5. ASSUME NEW S, IsFiniteSet(S), NEW n \in Nat, Cardinality(S) = n,
             NEW x, NEW y, x \notin S, y \notin S, x # y
      PROVE  IsFiniteSet(S \cup {x, y}) /\ Cardinality(S \cup {x, y}) = n + 2
  <2>1. IsFiniteSet(S \cup {x}) /\ Cardinality(S \cup {x}) = n + 1 /\ y \notin S \cup {x}
    BY <1>1, <1>5
  <2>2. IsFiniteSet(S \cup {x} \cup {y}) /\ Cardinality(S \cup {x} \cup {y}) = (n + 1) + 1
    BY <1>1, <2>1
  <2>3. S \cup {x} \cup {y} = S \cup {x, y}
    OBVIOUS
  <2> QED
    BY <2>2, <2>3
<1>6. {} \cup {"E0"} \cup {"E1"} = S2
  OBVIOUS
<1>7. S2 \cup {"E2", "E2Q"} = S4 /\ "E2" \notin S2 /\ "E2Q" \notin S2 /\ "E2" # "E2Q"
  OBVIOUS
<1>8. S4 \cup {"E3", "E4"} = S6 /\ "E3" \notin S4 /\ "E4" \notin S4 /\ "E3" # "E4"
  OBVIOUS
<1>9. S6 \cup {"E5", "E6"} = S8 /\ "E5" \notin S6 /\ "E6" \notin S6 /\ "E5" # "E6"
  OBVIOUS
<1>10. S8 \cup {"E7"} = Stages /\ "E7" \notin S8
  BY DEF Stages
<1> HIDE DEF S2, S4, S6, S8
<1>11. IsFiniteSet(S2) /\ Cardinality(S2) = 2
  BY <1>4, <1>6
<1>12. IsFiniteSet(S4) /\ Cardinality(S4) = 4
  BY <1>5, <1>7, <1>11
<1>13. IsFiniteSet(S6) /\ Cardinality(S6) = 6
  BY <1>5, <1>8, <1>12
<1>14. IsFiniteSet(S8) /\ Cardinality(S8) = 8
  BY <1>5, <1>9, <1>13
<1> QED
  BY <1>1, <1>10, <1>14

LEMMA FewSections ==
  /\ \A x : Cardinality({x}) = 1 /\ IsFiniteSet({x})
  /\ Cardinality({"E1", "E2"}) = 2 /\ IsFiniteSet({"E1", "E2"})
<1>1. \A x : Cardinality({x}) = 1 /\ IsFiniteSet({x})
  BY FS_Singleton
<1> DEFINE one == {"E1"}
<1>2. {"E1", "E2"} = one \cup {"E2"} /\ "E2" \notin one
  OBVIOUS
<1>3. IsFiniteSet(one) /\ Cardinality(one) = 1
  BY <1>1
<1> HIDE DEF one
<1>4. IsFiniteSet(one \cup {"E2"})
  BY <1>3, FS_AddElement
<1>5. Cardinality(one \cup {"E2"}) = Cardinality(one) + 1
  BY <1>2, <1>3, FS_AddElement
<1>6. IsFiniteSet({"E1", "E2"})
  BY <1>2, <1>4
<1>7. Cardinality({"E1", "E2"}) = 2
  BY <1>2, <1>3, <1>5
<1> QED
  BY <1>1, <1>6, <1>7

-----------------------------------------------------------------------------
(***************************************************************************)
(* A trace while it is written: its percents are known, and no more than n *)
(* of its sections have been made by the rules.                            *)
(***************************************************************************)
Draft ==
  [question : Questions, recalled : SUBSET Percents, history : BOOLEAN, root : SUBSET Percents,
   said : SUBSET Percents, fell_back : Nat, may_go_to_board : BOOLEAN]

Drafted(trace, S, q, n) ==
  /\ trace \in Draft /\ trace.question = q /\ trace.fell_back <= n
  /\ trace.recalled \cup trace.root \cup trace.said \subseteq KnownOf(S)

LEMMA WrittenDraft ==
  ASSUME NEW S \in SUBSET Questions, NEW q \in S, NEW n \in Nat, NEW trace, Drafted(trace, S, q, n),
         NEW wanted, IsFiniteSet(wanted), NEW sections, NEW text \in SUBSET Percents
  PROVE  /\ Drafted(Written(trace, wanted, sections, text), S, q, n + Cardinality(wanted))
         /\ Written(trace, wanted, sections, text).fell_back <= trace.fell_back + Cardinality(wanted)
         /\ Kept(trace, sections, text) # {} => text \subseteq KnownOf(S)
<1> DEFINE kept == Kept(trace, sections, text)
           w == Written(trace, wanted, sections, text)
           more == Cardinality(wanted \ kept)
           said == trace.said \cup (IF kept = {} THEN {} ELSE text)
<1>1. more \in Nat /\ Cardinality(wanted) \in Nat /\ more <= Cardinality(wanted)
  <2>1. IsFiniteSet(wanted \ kept) /\ Cardinality(wanted \ kept) <= Cardinality(wanted)
    BY FS_Subset
  <2> QED
    BY <2>1, FS_CardinalityType
<1>2. Data[q] \subseteq KnownOf(S) /\ trace.recalled \subseteq KnownOf(S)
  BY DEF KnownOf, Drafted
<1>3. kept # {} => text \subseteq KnownOf(S)
  BY <1>2 DEF Kept, Allowed, Drafted
<1>4. said \subseteq KnownOf(S) /\ said \in SUBSET Percents
  BY <1>3 DEF Drafted, Draft
<1>5. w = [trace EXCEPT !.fell_back = @ + more, !.said = said]
  BY DEF Written
<1> HIDE DEF kept, more, said, w
<1>6. trace \in Draft /\ trace.fell_back \in Nat
  BY DEF Drafted, Draft
<1>7. trace.fell_back + more \in Nat
  BY <1>1, <1>6
<1>8. /\ w \in Draft /\ w.question = trace.question /\ w.fell_back = trace.fell_back + more
      /\ w.recalled = trace.recalled /\ w.root = trace.root /\ w.said = said
  BY <1>4, <1>5, <1>6, <1>7 DEF Draft
<1>9. w.fell_back <= trace.fell_back + Cardinality(wanted) /\ w.fell_back <= n + Cardinality(wanted)
  <2>1. trace.fell_back <= n
    BY DEF Drafted
  <2> QED
    BY <1>1, <1>6, <1>8, <2>1
<1>10. w.recalled \cup w.root \cup w.said \subseteq KnownOf(S) /\ w.question = q
  BY <1>4, <1>8 DEF Drafted
<1> QED
  BY <1>3, <1>8, <1>9, <1>10 DEF w, kept, Drafted

LEMMA AnalysedDraft ==
  ASSUME NEW S \in SUBSET Questions, NEW q \in S, NEW n \in Nat, NEW trace, Drafted(trace, S, q, n),
         NEW sections, NEW text \in SUBSET Percents
  PROVE  Drafted(Analysed(trace, sections, text), S, q, n + 2)
<1> DEFINE w == Written(trace, {"E1", "E2"}, sections, text)
           kept == Kept(trace, sections, text)
           root == (IF kept = {} THEN {} ELSE text)
                   \cup (IF kept = {"E1", "E2"} THEN {} ELSE Data[trace.question])
<1>1. Drafted(w, S, q, n + 2) /\ (kept # {} => text \subseteq KnownOf(S))
  BY WrittenDraft, FewSections
<1>2. Data[q] \subseteq KnownOf(S) /\ Data[q] \in SUBSET Percents /\ trace.question = q
  BY ReasoningAssumption DEF KnownOf, Drafted
<1>3. root \subseteq KnownOf(S) /\ root \in SUBSET Percents
  BY <1>1, <1>2
<1>4. Analysed(trace, sections, text) = [w EXCEPT !.root = root]
  BY DEF Analysed
<1> HIDE DEF w, kept, root
<1> QED
  BY <1>1, <1>3, <1>4 DEF Drafted, Draft

(***************************************************************************)
(* The table is asked before E7: what the rules have made by then is known *)
(* to be little where it says the conclusion may go to the board.          *)
(***************************************************************************)
LEMMA BoardCell ==
  ASSUME NEW S \in SUBSET Questions, NEW q \in S, NEW n, NEW judged, Drafted(judged, S, q, n),
         <<Confidence(judged), FallbackBucket(judged.fell_back, 7)>> \in BoardCells
  PROVE  Primary(q) /\ judged.fell_back <= 2
<1>1. judged.fell_back \in Nat /\ judged.question = q
  BY DEF Drafted, Draft
<1>2. Confidence(judged) \in {"high", "medium"}
  BY DEF BoardCells
<1>3. CASE Confidence(judged) = "high"
  <2>1. Sources(judged) = Blocks /\ judged.fell_back = 0
    BY <1>3 DEF Confidence
  <2>2. "judgments" \in Given[q]
    BY <1>1, <2>1 DEF Sources, Blocks
  <2> QED
    BY <1>1, <2>1, <2>2 DEF Primary
<1>4. CASE Confidence(judged) = "medium"
  <2>1. Primary(q)
    BY <1>1, <1>4 DEF Confidence
  <2>2. FallbackBucket(judged.fell_back, 7) = "low"
    BY <1>4 DEF BoardCells
  <2>3. 3 * judged.fell_back <= 7
    BY <2>2 DEF FallbackBucket
  <2> QED
    BY <1>1, <2>1, <2>3
<1> QED
  BY <1>2, <1>3, <1>4

LEMMA ConcludedDraft ==
  ASSUME NEW S \in SUBSET Questions, NEW q \in S, NEW n \in Nat, NEW trace, Drafted(trace, S, q, n),
         NEW sections, NEW text \in SUBSET Percents
  PROVE  LET c == Concluded(trace, sections, text)
         IN /\ Drafted(c, S, q, n + 2)
            /\ c.may_go_to_board => Primary(q) /\ c.fell_back <= 3
<1> DEFINE possible == IF Given[trace.question] \cap {"measures", "risks"} = {} THEN {} ELSE {"E5"}
           judged == Written(trace, {"E5"}, sections \cap possible, text)
           last == Written(judged, {"E7"}, sections \cap {"E7"}, text)
           may == <<Confidence(judged), FallbackBucket(judged.fell_back, 7)>> \in BoardCells
           c == Concluded(trace, sections, text)
<1>1. Drafted(judged, S, q, n + 1)
  BY WrittenDraft, FewSections
<1>2. c = [last EXCEPT !.may_go_to_board = may]
  BY DEF Concluded
<1>3. may => Primary(q) /\ judged.fell_back <= 2
  BY <1>1, BoardCell
<1> HIDE DEF judged, may, c
<1>4. Drafted(last, S, q, n + 2) /\ last.fell_back <= judged.fell_back + 1
  <2>1. n + 1 \in Nat /\ IsFiniteSet({"E7"}) /\ (n + 1) + Cardinality({"E7"}) = n + 2
        /\ Cardinality({"E7"}) = 1
    <3>1. IsFiniteSet({"E7"}) /\ Cardinality({"E7"}) = 1
      BY FewSections
    <3>2. n + 1 \in Nat /\ (n + 1) + 1 = n + 2
      OBVIOUS
    <3> QED
      BY <3>1, <3>2
  <2>2. /\ Drafted(last, S, q, (n + 1) + Cardinality({"E7"}))
        /\ last.fell_back <= judged.fell_back + Cardinality({"E7"})
    BY <1>1, <2>1, WrittenDraft
  <2> QED
    BY <2>1, <2>2, Zenon
<1>5. may \in BOOLEAN
  BY DEF may
<1> HIDE DEF last
<1>6. last \in Draft /\ judged.fell_back \in Nat /\ last.fell_back \in Nat
  BY <1>1, <1>4 DEF Drafted, Draft
<1>7. /\ c \in Draft /\ c.question = last.question /\ c.fell_back = last.fell_back
      /\ c.recalled = last.recalled /\ c.root = last.root /\ c.said = last.said
      /\ c.may_go_to_board = may
  BY <1>2, <1>5, <1>6 DEF Draft
<1>8. Drafted(c, S, q, n + 2)
  BY <1>4, <1>7 DEF Drafted
<1>9. c.may_go_to_board => Primary(q) /\ c.fell_back <= 3
  BY <1>3, <1>4, <1>6, <1>7
<1> QED
  BY <1>8, <1>9 DEF c

LEMMA DraftedMore ==
  ASSUME NEW S, NEW q, NEW m \in Nat, NEW n \in Nat, m <= n, NEW trace, Drafted(trace, S, q, m)
  PROVE  Drafted(trace, S, q, n)
<1>1. trace.fell_back \in Nat /\ trace.fell_back <= m
  BY DEF Drafted, Draft
<1>2. trace.fell_back <= n
  BY <1>1
<1> QED
  BY <1>2 DEF Drafted

\* What each pass makes of the trace before it.
LEMMA AnalysedPass ==
  ASSUME NEW S \in SUBSET Questions, NEW q \in S, NEW trace, Drafted(trace, S, q, 0),
         NEW analysed \in Analyses(trace)
  PROVE  Drafted(analysed, S, q, 2)
<1>1. PICK of \in SUBSET {"E1", "E2"}, text \in SUBSET Percents : analysed = Analysed(trace, of, text)
  BY DEF Analyses
<1>2. Drafted(Analysed(trace, of, text), S, q, 0 + 2)
  BY AnalysedDraft
<1>3. 0 + 2 = 2
  OBVIOUS
<1> QED
  BY <1>1, <1>2, <1>3, Zenon

LEMMA QuestionedPass ==
  ASSUME NEW S \in SUBSET Questions, NEW q \in S, NEW trace, Drafted(trace, S, q, 2),
         NEW questioned \in Interrogations(trace)
  PROVE  Drafted(questioned, S, q, 3)
<1>1. PICK of \in SUBSET {"E2Q"}, text \in SUBSET Percents : questioned \in Questioned(trace, of, text)
  BY DEF Interrogations
<1>2. questioned = trace \/ questioned = Written(trace, {"E2Q"}, of, text)
  BY <1>1 DEF Questioned
<1>3. Drafted(Written(trace, {"E2Q"}, of, text), S, q, 2 + Cardinality({"E2Q"}))
  BY WrittenDraft, FewSections
<1>4. 2 + Cardinality({"E2Q"}) = 3
  <2>1. Cardinality({"E2Q"}) = 1
    BY FewSections
  <2> QED
    BY <2>1
<1>5. Drafted(trace, S, q, 3)
  <2>1. 2 \in Nat /\ 3 \in Nat /\ 2 <= 3
    OBVIOUS
  <2> QED
    BY <2>1, DraftedMore
<1> QED
  BY <1>2, <1>3, <1>4, <1>5, Zenon

LEMMA ViewedPass ==
  ASSUME NEW S \in SUBSET Questions, NEW q \in S, NEW trace, Drafted(trace, S, q, 3),
         NEW viewed \in Views(trace)
  PROVE  Drafted(viewed, S, q, 4)
<1>1. PICK of \in SUBSET {"E3"}, text \in SUBSET Percents : viewed = Written(trace, {"E3"}, of, text)
  BY DEF Views
<1>2. Drafted(Written(trace, {"E3"}, of, text), S, q, 3 + Cardinality({"E3"}))
  BY WrittenDraft, FewSections
<1>3. 3 + Cardinality({"E3"}) = 4
  <2>1. Cardinality({"E3"}) = 1
    BY FewSections
  <2> QED
    BY <2>1
<1> QED
  BY <1>1, <1>2, <1>3, Zenon

LEMMA ConcludedPass ==
  ASSUME NEW S \in SUBSET Questions, NEW q \in S, NEW trace, Drafted(trace, S, q, 4),
         NEW concluded \in Conclusions(trace)
  PROVE  /\ Drafted(concluded, S, q, 6)
         /\ concluded.may_go_to_board => Primary(q) /\ concluded.fell_back <= 3
<1>1. PICK of \in SUBSET {"E5", "E7"}, text \in SUBSET Percents : concluded = Concluded(trace, of, text)
  BY DEF Conclusions
<1>2. /\ Drafted(Concluded(trace, of, text), S, q, 4 + 2)
      /\ Concluded(trace, of, text).may_go_to_board =>
           Primary(q) /\ Concluded(trace, of, text).fell_back <= 3
  BY ConcludedDraft
<1>3. 4 + 2 = 6
  OBVIOUS
<1> QED
  BY <1>1, <1>2, <1>3, Zenon

\* The four passes, from a trace no section of which has been written.
LEMMA ReasonDraft ==
  ASSUME NEW S \in SUBSET Questions, NEW q \in S, NEW r \in Requests,
         Drafted(request[r].trace, S, q, 0), Reason(r)
  PROVE  \E c : /\ Becomes(r, "remember", [c EXCEPT !.recalled = {}, !.history = FALSE])
                /\ Drafted(c, S, q, 6)
                /\ c.may_go_to_board => Primary(q) /\ c.fell_back <= 3
<1>1. PICK analysed, questioned, viewed, concluded :
        /\ analysed \in Analyses(request[r].trace)
        /\ questioned \in Interrogations(analysed) /\ viewed \in Views(questioned)
        /\ concluded \in Conclusions(viewed)
        /\ Becomes(r, "remember", [concluded EXCEPT !.recalled = {}, !.history = FALSE])
  BY Zenon DEF Reason
<1>2. Drafted(analysed, S, q, 2)
  BY <1>1, AnalysedPass
<1>3. Drafted(questioned, S, q, 3)
  BY <1>1, <1>2, QuestionedPass
<1>4. Drafted(viewed, S, q, 4)
  BY <1>1, <1>3, ViewedPass
<1>5. Drafted(concluded, S, q, 6) /\ (concluded.may_go_to_board => Primary(q) /\ concluded.fell_back <= 3)
  BY <1>1, <1>4, ConcludedPass
<1> QED
  BY <1>1, <1>5

-----------------------------------------------------------------------------
\* The next state of the requests.
LEMMA BecomesStep ==
  ASSUME ReasoningTypeOK, NEW r \in Requests, NEW step \in Steps, NEW trace \in Trace,
         request' = [request EXCEPT ![r] = [at |-> step, trace |-> trace]]
  PROVE  /\ request' \in [Requests -> Request]
         /\ request'[r].at = step /\ request'[r].trace = trace
         /\ \A s \in Requests : s # r => request'[s] = request[s]
<1>1. [at |-> step, trace |-> trace] \in Request
  BY DEF Request
<1> QED
  BY <1>1 DEF ReasoningTypeOK

LEMMA KnownGrows ==
  ASSUME NEW S, NEW T, S \subseteq T
  PROVE  KnownOf(S) \subseteq KnownOf(T)
BY DEF KnownOf

LEMMA OthersFit ==
  ASSUME RequestsFit, asked \subseteq asked', NEW r \in Requests,
         \A s \in Requests : s # r => request'[s] = request[s],
         RequestFits(request'[r], asked')
  PROVE  RequestsFit'
<1>1. \A s \in Requests : RequestFits(request'[s], asked')
  <2>1. KnownOf(asked) \subseteq KnownOf(asked')
    BY KnownGrows
  <2> SUFFICES ASSUME NEW s \in Requests PROVE RequestFits(request'[s], asked')
    OBVIOUS
  <2>2. CASE s # r
    <3>1. request'[s] = request[s] /\ RequestFits(request[s], asked)
      BY <2>2 DEF RequestsFit
    <3>2. RequestFits(request[s], asked')
      BY <2>1, <3>1 DEF RequestFits
    <3> QED
      BY <3>1, <3>2
  <2>3. CASE s = r
    BY <2>3
  <2> QED
    BY <2>2, <2>3
<1> QED
  BY <1>1 DEF RequestsFit

LEMMA PendingCount ==
  ASSUME NEW req
  PROVE  IsFiniteSet(Pending(req)) /\ Cardinality(Pending(req)) \in Nat
<1>1. Pending(req) \subseteq Requests /\ IsFiniteSet(Requests)
  BY ReasoningAssumption DEF Pending
<1> QED
  BY <1>1, FS_Subset, FS_CardinalityType

\* A step of a pending request leaves no other pending that was not.
LEMMA StillRoom ==
  ASSUME RoomForMemory, Len(memory) \in Nat, memory' = memory, NEW r \in Requests, r \in Pending(request),
         \A s \in Requests : s # r => request'[s] = request[s]
  PROVE  RoomForMemory'
<1>1. Pending(request') \subseteq Pending(request)
  BY DEF Pending
<1>2. Cardinality(Pending(request')) <= Cardinality(Pending(request))
  BY <1>1, PendingCount, FS_Subset
<1>3. Cardinality(Pending(request')) \in Nat /\ Cardinality(Pending(request)) \in Nat
  BY PendingCount
<1>4. MaxConclusions \in Nat
  BY ReasoningAssumption
<1>5. Cardinality(Pending(request')) + Len(memory') <= MaxConclusions
  BY <1>2, <1>3, <1>4 DEF RoomForMemory
<1> QED
  BY <1>5 DEF RoomForMemory

LEMMA MemoryCount == ASSUME ReasoningTypeOK PROVE Len(memory) \in Nat
BY DEF ReasoningTypeOK

-----------------------------------------------------------------------------
LEMMA ReasoningStarts == ASSUME ReasoningInit PROVE ReasoningInv
<1>1. NoTrace \in Trace /\ Resting \in Request
  <2>1. 0 \in 0 .. Cardinality(Stages)
    BY StagesCount
  <2> QED
    BY <2>1 DEF NoTrace, Trace, Resting, Request, Steps
<1>2. ReasoningTypeOK
  <2>1. memory \in Seq(Record) /\ Len(memory) = 0 /\ MaxConclusions \in Nat
    BY ReasoningAssumption DEF ReasoningInit
  <2>2. verdicts \in 0 .. MaxVerdicts /\ restarts \in 0 .. MaxRestarts
    BY ReasoningAssumption DEF ReasoningInit
  <2> QED
    BY <1>1, <2>1, <2>2 DEF ReasoningInit, ReasoningTypeOK
<1>3. RequestsFit
  <2>1. RequestFits(Resting, asked)
    BY DEF RequestFits, Resting, NoTrace, Grounded
  <2> QED
    BY <2>1 DEF RequestsFit, ReasoningInit
<1>4. RoomForMemory
  <2>1. Pending(request) = {}
    BY DEF Pending, ReasoningInit, Resting
  <2>2. Len(memory) = 0 /\ MaxConclusions \in Nat /\ Cardinality({}) = 0
    BY ReasoningAssumption, FS_EmptySet DEF ReasoningInit
  <2> QED
    BY <2>1, <2>2 DEF RoomForMemory
<1>5. NothingInvented
  BY DEF NothingInvented, ReasoningInit
<1> QED
  BY <1>2, <1>3, <1>4, <1>5 DEF ReasoningInv

LEMMA BeginKeeps ==
  ASSUME ReasoningInv, NEW r \in Requests, NEW q \in Questions, Begin(r, q)
  PROVE  ReasoningInv'
<1> DEFINE trace == [NoTrace EXCEPT !.question = q]
           busy == {s \in Requests : request[s].at # "idle"}
<1> USE DEF ReasoningInv
<1>1. /\ trace \in Trace /\ trace.question = q /\ trace.recalled = {} /\ trace.root = {}
      /\ trace.said = {} /\ trace.fell_back = 0 /\ ~ trace.may_go_to_board
  <2>1. 0 \in 0 .. Cardinality(Stages)
    BY StagesCount
  <2> QED
    BY <2>1 DEF NoTrace, Trace
<1>2. request' = [request EXCEPT ![r] = [at |-> "recall", trace |-> trace]] /\ "recall" \in Steps
  BY DEF Begin, Becomes, Steps
<1> HIDE DEF trace
<1>3. /\ request' \in [Requests -> Request]
      /\ request'[r].at = "recall" /\ request'[r].trace = trace
      /\ \A s \in Requests : s # r => request'[s] = request[s]
  BY <1>1, <1>2, BecomesStep
<1>4. /\ asked' = asked \cup {q} /\ memory' = memory /\ rejected' = rejected /\ results' = results
      /\ verdicts' = verdicts /\ restarts' = restarts
  BY DEF Begin
<1>5. ReasoningTypeOK'
  BY <1>3, <1>4 DEF ReasoningTypeOK
<1>6. RequestsFit'
  <2>1. RequestFits(request'[r], asked')
    BY <1>1, <1>3, <1>4 DEF RequestFits, Grounded
  <2> QED
    BY <1>3, <1>4, <2>1, OthersFit
<1>7. RoomForMemory'
  <2>1. Pending(request') \subseteq busy \cup {r}
    BY <1>3 DEF Pending
  <2>2. IsFiniteSet(busy) /\ Cardinality(busy) \in Nat
    <3>1. busy \subseteq Requests /\ IsFiniteSet(Requests)
      BY ReasoningAssumption
    <3> QED
      BY <3>1, FS_Subset, FS_CardinalityType
  <2>3. Cardinality(busy) + Len(memory) < MaxConclusions
    BY DEF Begin
  <2> HIDE DEF busy
  <2>4. IsFiniteSet(busy \cup {r}) /\ Cardinality(busy \cup {r}) <= Cardinality(busy) + 1
    <3>1. IsFiniteSet(busy \cup {r})
          /\ Cardinality(busy \cup {r}) = IF r \in busy THEN Cardinality(busy) ELSE Cardinality(busy) + 1
      BY <2>2, FS_AddElement
    <3> QED
      BY <2>2, <3>1
  <2>5. Cardinality(Pending(request')) <= Cardinality(busy \cup {r}) /\ Cardinality(busy \cup {r}) \in Nat
    BY <2>1, <2>4, FS_Subset, FS_CardinalityType
  <2>6. Cardinality(Pending(request')) \in Nat /\ Len(memory) \in Nat /\ MaxConclusions \in Nat
    BY PendingCount, MemoryCount, ReasoningAssumption
  <2>7. Cardinality(Pending(request')) + Len(memory) <= MaxConclusions
    BY <2>2, <2>3, <2>4, <2>5, <2>6
  <2> QED
    BY <1>4, <2>7 DEF RoomForMemory
<1>8. NothingInvented'
  <2>1. KnownOf(asked) \subseteq KnownOf(asked')
    BY <1>4, KnownGrows
  <2> QED
    BY <1>4, <2>1 DEF NothingInvented, KnownOf
<1> QED
  BY <1>5, <1>6, <1>7, <1>8

LEMMA RecallKeeps ==
  ASSUME ReasoningInv, NEW r \in Requests, Recall(r)
  PROVE  ReasoningInv'
<1> USE DEF ReasoningInv
<1> DEFINE old == request[r].trace
           q == old.question
<1>1. /\ request[r].at = "recall" /\ asked' = asked /\ memory' = memory /\ rejected' = rejected
      /\ results' = results /\ verdicts' = verdicts /\ restarts' = restarts
  BY DEF Recall
<1>2. old \in Trace /\ RequestFits(request[r], asked) /\ request[r].at # "idle"
  BY <1>1 DEF ReasoningTypeOK, Request, RequestsFit
<1>3. PICK chosen \in SUBSET DOMAIN memory :
        request' = [request EXCEPT ![r] = [at |-> "passes",
          trace |-> WithFacts([old EXCEPT !.recalled = UNION {memory[i].root : i \in chosen},
                                          !.history = chosen # {}])]]
  BY DEF Recall, Becomes
<1> DEFINE recalled == UNION {memory[i].root : i \in chosen}
           trace == WithFacts([old EXCEPT !.recalled = recalled, !.history = chosen # {}])
<1>4. recalled \subseteq KnownOf(asked) /\ recalled \in SUBSET Percents
  <2>1. \A i \in DOMAIN memory : memory[i].root \subseteq KnownOf(asked)
    BY DEF NothingInvented, KnownOf
  <2>2. \A i \in DOMAIN memory : memory[i] \in Record
    BY DEF ReasoningTypeOK
  <2>3. \A i \in DOMAIN memory : memory[i].root \in SUBSET Percents
    BY <2>2 DEF Record
  <2> QED
    BY <2>1, <2>3
<1>5. q \in asked /\ q \in Questions /\ Data[q] \subseteq KnownOf(asked) /\ Data[q] \in SUBSET Percents
  <2>1. q \in asked /\ asked \subseteq Questions
    BY <1>2 DEF RequestFits, ReasoningTypeOK
  <2> QED
    BY <2>1, ReasoningAssumption DEF KnownOf
<1>6. old.root \subseteq KnownOf(asked) /\ old.fell_back = 0 /\ ~ old.may_go_to_board
  BY <1>1, <1>2 DEF RequestFits
<1> HIDE DEF recalled, old
<1>7. /\ trace \in Trace /\ trace.question = q /\ trace.recalled = recalled /\ trace.root = old.root
      /\ trace.said = Data[q] \cup recalled /\ trace.fell_back = 0 /\ ~ trace.may_go_to_board
  <2> DEFINE with == [old EXCEPT !.recalled = recalled, !.history = chosen # {}]
  <2>1. (chosen # {}) \in BOOLEAN
    OBVIOUS
  <2>2. /\ with \in Trace /\ with.question = q /\ with.recalled = recalled /\ with.root = old.root
        /\ with.fell_back = 0 /\ ~ with.may_go_to_board
    BY <1>2, <1>4, <1>6, <2>1 DEF Trace
  <2>3. trace = [with EXCEPT !.said = Data[with.question] \cup with.recalled]
    BY DEF WithFacts
  <2> HIDE DEF with
  <2>4. Data[q] \cup recalled \in SUBSET Percents
    BY <1>4, <1>5
  <2> QED
    BY <2>2, <2>3, <2>4 DEF Trace
<1>8. request' = [request EXCEPT ![r] = [at |-> "passes", trace |-> trace]] /\ "passes" \in Steps
  BY <1>3 DEF Steps, recalled, old
<1> HIDE DEF trace
<1>9. /\ request' \in [Requests -> Request]
      /\ request'[r].at = "passes" /\ request'[r].trace = trace
      /\ \A s \in Requests : s # r => request'[s] = request[s]
  BY <1>7, <1>8, BecomesStep
<1>10. ReasoningTypeOK'
  BY <1>1, <1>9 DEF ReasoningTypeOK
<1>11. RequestsFit'
  <2>1. RequestFits(request'[r], asked')
    BY <1>1, <1>4, <1>5, <1>6, <1>7, <1>9 DEF RequestFits, Grounded
  <2> QED
    BY <1>1, <1>9, <2>1, OthersFit
<1>12. RoomForMemory'
  <2>1. r \in Pending(request)
    BY <1>1 DEF Pending
  <2> QED
    BY <1>1, <1>9, <2>1, MemoryCount, StillRoom
<1>13. NothingInvented'
  BY <1>1 DEF NothingInvented
<1> QED
  BY <1>10, <1>11, <1>12, <1>13

LEMMA ReasonKeeps ==
  ASSUME ReasoningInv, NEW r \in Requests, Reason(r)
  PROVE  ReasoningInv'
<1> USE DEF ReasoningInv
<1> DEFINE q == request[r].trace.question
<1>1. /\ request[r].at = "passes" /\ asked' = asked /\ memory' = memory /\ rejected' = rejected
      /\ results' = results /\ verdicts' = verdicts /\ restarts' = restarts
  BY DEF Reason
<1>2. request[r].trace \in Trace /\ RequestFits(request[r], asked)
  BY <1>1 DEF ReasoningTypeOK, Request, RequestsFit
<1>3. q \in asked /\ asked \in SUBSET Questions
  BY <1>1, <1>2 DEF RequestFits, ReasoningTypeOK
<1>4. Drafted(request[r].trace, asked, q, 0)
  <2>1. request[r].trace.fell_back = 0 /\ request[r].trace.question \in Questions
    BY <1>1, <1>2, <1>3 DEF RequestFits
  <2>2. request[r].trace \in Draft
    BY <1>2, <2>1 DEF Trace, Draft
  <2> QED
    BY <1>2, <2>1, <2>2 DEF Drafted, RequestFits
<1>5. PICK c : /\ Becomes(r, "remember", [c EXCEPT !.recalled = {}, !.history = FALSE])
               /\ Drafted(c, asked, q, 6)
               /\ c.may_go_to_board => Primary(q) /\ c.fell_back <= 3
  BY <1>3, <1>4, ReasonDraft
<1> DEFINE trace == [c EXCEPT !.recalled = {}, !.history = FALSE]
<1>6. /\ c \in Draft /\ c.question = q /\ c.fell_back \in Nat /\ c.fell_back <= 6
      /\ c.root \subseteq KnownOf(asked) /\ c.said \subseteq KnownOf(asked)
  BY <1>5 DEF Drafted, Draft
<1>7. c.fell_back \in 0 .. Cardinality(Stages)
  BY <1>6, StagesCount
<1>8. /\ trace \in Trace /\ trace.question = q /\ trace.recalled = {} /\ trace.root = c.root
      /\ trace.said = c.said /\ trace.fell_back = c.fell_back
      /\ trace.may_go_to_board = c.may_go_to_board
  BY <1>6, <1>7 DEF Draft, Trace
<1>9. Grounded(trace)
  <2>1. c.may_go_to_board => 3 * c.fell_back <= Cardinality(Stages)
    <3>1. c.fell_back <= 3 => 3 * c.fell_back <= 9
      BY <1>6
    <3> QED
      BY <1>5, <3>1, StagesCount
  <2> QED
    BY <1>5, <1>8, <2>1 DEF Grounded
<1>10. request' = [request EXCEPT ![r] = [at |-> "remember", trace |-> trace]] /\ "remember" \in Steps
  BY <1>5 DEF Becomes, Steps
<1> HIDE DEF trace, q
<1>11. /\ request' \in [Requests -> Request]
       /\ request'[r].at = "remember" /\ request'[r].trace = trace
       /\ \A s \in Requests : s # r => request'[s] = request[s]
  BY <1>8, <1>10, BecomesStep
<1>12. ReasoningTypeOK'
  BY <1>1, <1>11 DEF ReasoningTypeOK
<1>13. RequestsFit'
  <2>1. RequestFits(request'[r], asked')
    BY <1>1, <1>3, <1>6, <1>8, <1>9, <1>11 DEF RequestFits
  <2> QED
    BY <1>1, <1>11, <2>1, OthersFit
<1>14. RoomForMemory'
  <2>1. r \in Pending(request)
    BY <1>1 DEF Pending
  <2> QED
    BY <1>1, <1>11, <2>1, MemoryCount, StillRoom
<1>15. NothingInvented'
  BY <1>1 DEF NothingInvented
<1> QED
  BY <1>12, <1>13, <1>14, <1>15

LEMMA RememberKeeps ==
  ASSUME ReasoningInv, NEW r \in Requests, Remember(r)
  PROVE  ReasoningInv'
<1> USE DEF ReasoningInv
<1> DEFINE trace == request[r].trace
           record == [fingerprint |-> Fingerprint[trace.question], root |-> trace.root]
<1>1. /\ request[r].at = "remember" /\ asked' = asked /\ rejected' = rejected
      /\ results' = results /\ verdicts' = verdicts /\ restarts' = restarts
      /\ memory' = Append(memory, record) \/ memory' = memory
  BY DEF Remember
<1>2. trace \in Trace /\ RequestFits(request[r], asked)
  BY <1>1 DEF ReasoningTypeOK, Request, RequestsFit
<1>3. /\ trace.question \in asked /\ trace.question \in Questions
      /\ trace.root \subseteq KnownOf(asked) /\ trace.root \in SUBSET Percents
  BY <1>1, <1>2 DEF RequestFits, ReasoningTypeOK, Trace
<1>4. request' = [request EXCEPT ![r] = [at |-> "cache", trace |-> trace]] /\ "cache" \in Steps
  BY DEF Remember, Becomes, Steps
<1>5. record \in Record /\ record.root \subseteq KnownOf(asked)
  BY <1>3 DEF Record, Fingerprints
<1>6. RequestFits([at |-> "cache", trace |-> trace], asked)
  BY <1>1, <1>2, <1>3 DEF RequestFits
<1> HIDE DEF trace, record
<1>7. /\ request' \in [Requests -> Request]
      /\ request'[r].at = "cache" /\ request'[r].trace = trace
      /\ \A s \in Requests : s # r => request'[s] = request[s]
  BY <1>2, <1>4, BecomesStep
<1>8. /\ Len(memory) \in Nat /\ Len(memory') \in Nat /\ Len(memory') <= Len(memory) + 1
      /\ memory' \in Seq(Record)
  BY <1>1, <1>5 DEF ReasoningTypeOK
<1>9. Cardinality(Pending(request')) + Len(memory') <= MaxConclusions
  <2>1. r \in Pending(request) /\ Pending(request') = Pending(request) \ {r}
    BY <1>1, <1>7 DEF Pending
  <2>2. Cardinality(Pending(request) \ {r}) = Cardinality(Pending(request)) - 1
    BY <2>1, PendingCount, FS_RemoveElement
  <2>3. /\ Cardinality(Pending(request)) \in Nat /\ Cardinality(Pending(request')) \in Nat
        /\ MaxConclusions \in Nat
    BY PendingCount, ReasoningAssumption
  <2>4. Cardinality(Pending(request)) + Len(memory) <= MaxConclusions
    BY DEF RoomForMemory
  <2>5. Cardinality(Pending(request')) = Cardinality(Pending(request)) - 1
    BY <2>1, <2>2
  <2> QED
    BY <1>8, <2>3, <2>4, <2>5
<1>10. Len(memory') <= MaxConclusions
  <2>1. Cardinality(Pending(request')) \in Nat /\ MaxConclusions \in Nat
    BY PendingCount, ReasoningAssumption
  <2> QED
    BY <1>8, <1>9, <2>1
<1>11. ReasoningTypeOK'
  BY <1>1, <1>7, <1>8, <1>10 DEF ReasoningTypeOK
<1>12. RequestsFit'
  <2>1. RequestFits(request'[r], asked')
    BY <1>1, <1>6, <1>7 DEF RequestFits
  <2> QED
    BY <1>1, <1>7, <2>1, OthersFit
<1>13. RoomForMemory'
  BY <1>9 DEF RoomForMemory
<1>14. NothingInvented'
  <2>1. \A i \in DOMAIN memory : memory[i].root \subseteq KnownOf(asked)
    BY DEF NothingInvented, KnownOf
  <2>2. memory \in Seq(Record)
    BY DEF ReasoningTypeOK
  <2>3. \A i \in DOMAIN memory' : memory'[i].root \subseteq KnownOf(asked)
    BY <1>1, <1>5, <2>1, <2>2
  <2> QED
    BY <1>1, <2>3 DEF NothingInvented, KnownOf
<1> QED
  BY <1>11, <1>12, <1>13, <1>14

LEMMA CacheKeeps ==
  ASSUME ReasoningInv, NEW r \in Requests, Cache(r)
  PROVE  ReasoningInv'
<1> USE DEF ReasoningInv
<1> DEFINE trace == request[r].trace
           result == [said |-> trace.said, may_go_to_board |-> trace.may_go_to_board]
<1>1. /\ request[r].at = "cache" /\ asked' = asked /\ rejected' = rejected /\ memory' = memory
      /\ verdicts' = verdicts /\ restarts' = restarts
      /\ results' = [results EXCEPT ![trace.question] = result]
      /\ request' = [request EXCEPT ![r] = Resting]
  BY DEF Cache
<1>2. trace \in Trace /\ RequestFits(request[r], asked)
  BY <1>1 DEF ReasoningTypeOK, Request, RequestsFit
<1>3. /\ trace.question \in Questions /\ trace.said \subseteq KnownOf(asked)
      /\ result \in Result /\ result.said = trace.said
  BY <1>1, <1>2 DEF RequestFits, ReasoningTypeOK, Trace, Result
<1> HIDE DEF trace, result
<1>4. NoTrace \in Trace /\ "idle" \in Steps /\ Resting = [at |-> "idle", trace |-> NoTrace]
  <2>1. 0 \in 0 .. Cardinality(Stages)
    BY StagesCount
  <2> QED
    BY <2>1 DEF NoTrace, Trace, Steps, Resting
<1>5. /\ request' \in [Requests -> Request]
      /\ request'[r].at = "idle" /\ request'[r].trace = NoTrace
      /\ \A s \in Requests : s # r => request'[s] = request[s]
  BY <1>1, <1>4, BecomesStep
<1>6. results' \in [Questions -> Result \cup {NONE}]
  BY <1>1, <1>3 DEF ReasoningTypeOK
<1>7. ReasoningTypeOK'
  BY <1>1, <1>5, <1>6 DEF ReasoningTypeOK
<1>8. RequestsFit'
  <2>1. RequestFits(request'[r], asked')
    BY <1>5 DEF RequestFits, NoTrace, Grounded
  <2> QED
    BY <1>1, <1>5, <2>1, OthersFit
<1>9. RoomForMemory'
  <2>1. Pending(request') \subseteq Pending(request)
    BY <1>5 DEF Pending
  <2>2. Cardinality(Pending(request')) <= Cardinality(Pending(request))
    BY <2>1, PendingCount, FS_Subset
  <2>3. /\ Cardinality(Pending(request)) \in Nat /\ Cardinality(Pending(request')) \in Nat
        /\ MaxConclusions \in Nat /\ Len(memory) \in Nat
    BY PendingCount, ReasoningAssumption, MemoryCount
  <2>4. Cardinality(Pending(request')) + Len(memory) <= MaxConclusions
    BY <2>2, <2>3 DEF RoomForMemory
  <2> QED
    BY <1>1, <2>4 DEF RoomForMemory
<1>10. NothingInvented'
  <2>1. /\ \A i \in DOMAIN memory : memory[i].root \subseteq KnownOf(asked)
        /\ \A p \in Questions : results[p] # NONE => results[p].said \subseteq KnownOf(asked)
    BY DEF NothingInvented, KnownOf
  <2>2. \A p \in Questions : results'[p] # NONE => results'[p].said \subseteq KnownOf(asked)
    <3>1. results \in [Questions -> Result \cup {NONE}]
      BY DEF ReasoningTypeOK
    <3> QED
      BY <1>1, <1>3, <2>1, <3>1
  <2> QED
    BY <1>1, <2>1, <2>2 DEF NothingInvented, KnownOf
<1> QED
  BY <1>7, <1>8, <1>9, <1>10

\* A verdict touches what will be recalled, never what was concluded.
LEMMA RecordFeedbackKeeps ==
  ASSUME ReasoningInv, NEW f \in Fingerprints, NEW reject \in BOOLEAN, RecordFeedback(f, reject)
  PROVE  ReasoningInv'
<1> USE DEF ReasoningInv
<1>1. /\ asked' = asked /\ memory' = memory /\ results' = results /\ request' = request
      /\ restarts' = restarts /\ verdicts' = verdicts + 1 /\ verdicts < MaxVerdicts
      /\ rejected' \subseteq rejected \cup {f}
  BY DEF RecordFeedback
<1>2. verdicts' \in 0 .. MaxVerdicts /\ rejected' \subseteq Fingerprints
  BY <1>1, ReasoningAssumption DEF ReasoningTypeOK
<1>3. ReasoningTypeOK'
  BY <1>1, <1>2 DEF ReasoningTypeOK
<1>4. RequestsFit'
  BY <1>1 DEF RequestsFit
<1>5. RoomForMemory'
  BY <1>1 DEF RoomForMemory
<1>6. NothingInvented'
  BY <1>1 DEF NothingInvented
<1> QED
  BY <1>3, <1>4, <1>5, <1>6

LEMMA RestartKeeps ==
  ASSUME ReasoningInv, Restart
  PROVE  ReasoningInv'
<1> USE DEF ReasoningInv
<1>1. /\ asked' = asked /\ memory' = memory /\ rejected' = rejected /\ verdicts' = verdicts
      /\ restarts' = restarts + 1 /\ restarts < MaxRestarts
      /\ results' = [q \in Questions |-> NONE] /\ request' = [r \in Requests |-> Resting]
  BY DEF Restart
<1>2. Resting \in Request
  <2>1. 0 \in 0 .. Cardinality(Stages)
    BY StagesCount
  <2> QED
    BY <2>1 DEF NoTrace, Trace, Resting, Request, Steps
<1>3. restarts' \in 0 .. MaxRestarts
  BY <1>1, ReasoningAssumption DEF ReasoningTypeOK
<1>4. ReasoningTypeOK'
  BY <1>1, <1>2, <1>3 DEF ReasoningTypeOK
<1>5. RequestsFit'
  <2>1. RequestFits(Resting, asked')
    BY DEF RequestFits, Resting, NoTrace, Grounded
  <2>2. \A r \in Requests : request'[r] = Resting
    BY <1>1
  <2>3. \A r \in Requests : RequestFits(request'[r], asked')
    BY <2>1, <2>2
  <2> QED
    BY <2>3 DEF RequestsFit
<1>6. RoomForMemory'
  <2>1. Pending(request') = {}
    BY <1>1 DEF Pending, Resting
  <2>2. Len(memory) \in Nat /\ Len(memory) <= MaxConclusions /\ Cardinality({}) = 0
    BY FS_EmptySet DEF ReasoningTypeOK
  <2>3. Cardinality(Pending(request')) + Len(memory') <= MaxConclusions
    BY <1>1, <2>1, <2>2
  <2> QED
    BY <2>3 DEF RoomForMemory
<1>7. NothingInvented'
  BY <1>1 DEF NothingInvented
<1> QED
  BY <1>4, <1>5, <1>6, <1>7

LEMMA ReasoningSteps == ASSUME ReasoningInv, [ReasoningNext]_reasoningVars PROVE ReasoningInv'
<1>1. CASE ReasoningNext
  <2>1. ASSUME NEW r \in Requests, RequestStep(r) PROVE ReasoningInv'
    BY <2>1, RecallKeeps, ReasonKeeps, RememberKeeps, CacheKeeps DEF RequestStep
  <2> QED
    BY <1>1, <2>1, BeginKeeps, RecordFeedbackKeeps, RestartKeeps DEF ReasoningNext
<1>2. CASE UNCHANGED reasoningVars
  BY <1>2 DEF reasoningVars, ReasoningInv, ReasoningTypeOK, RequestsFit, RoomForMemory, NothingInvented
<1> QED
  BY <1>1, <1>2

LEMMA ReasoningInvariant == ReasoningSpec => []ReasoningInv
BY ReasoningStarts, ReasoningSteps, PTL DEF ReasoningSpec

\* The files of the brain, the cache of conclusions and every request keep their
\* shape, whatever order requests, verdicts and restarts come in (brain.py, reasoning.py).
THEOREM ReasoningTypeCorrect == ReasoningSpec => []ReasoningTypeOK
<1>1. ReasoningInv => ReasoningTypeOK
  BY DEF ReasoningInv
<1> QED
  BY <1>1, ReasoningInvariant, PTL

(***************************************************************************)
(* No conclusion and no record of the memory states a percent that is not  *)
(* in the data of some input that was asked about, through any chain of    *)
(* recalls (_llm_pass, recall, remember).                                  *)
(***************************************************************************)
THEOREM NothingInventedAlways == ReasoningSpec => []NothingInvented
<1>1. ReasoningInv => NothingInvented
  BY DEF ReasoningInv
<1> QED
  BY <1>1, ReasoningInvariant, PTL

(***************************************************************************)
(* What may go to the board rests on judgments or cards of measures, and   *)
(* the rules made at most a third of it, although TRUST_MATRIX is asked    *)
(* before the last section is there.                                       *)
(***************************************************************************)
THEOREM BoardOnGroundsAlways == ReasoningSpec => []BoardOnGrounds
<1>1. ReasoningInv => BoardOnGrounds
  BY DEF ReasoningInv, RequestsFit, RequestFits, Grounded, BoardOnGrounds
<1> QED
  BY <1>1, ReasoningInvariant, PTL

-----------------------------------------------------------------------------
(***************************************************************************)
(* The two together, as MCLlm composes them: the runtime and the           *)
(* conclusions share no state, so the invariants of both hold at once, and *)
(* with them the type invariant of the run.                                *)
(***************************************************************************)
THEOREM LlmTypeCorrect == LlmSpec => []LlmTypeOK
<1>1. LlmInit => InferenceInv /\ ReasoningInv
  BY InferenceInitInv, ReasoningStarts DEF LlmInit
<1>2. InferenceInv /\ ReasoningInv /\ [LlmNext]_llmVars => (InferenceInv /\ ReasoningInv)'
  <2> SUFFICES ASSUME InferenceInv, ReasoningInv, [LlmNext]_llmVars
               PROVE  InferenceInv' /\ ReasoningInv'
    OBVIOUS
  <2>1. [InferenceNext]_inferenceVars /\ [ReasoningNext]_reasoningVars
    BY DEF LlmNext, llmVars
  <2> QED
    BY <2>1, InferenceNextInv, ReasoningSteps
<1>3. InferenceInv /\ ReasoningInv => LlmTypeOK
  BY DEF InferenceInv, ReasoningInv, LlmTypeOK
<1> QED
  BY <1>1, <1>2, <1>3, PTL DEF LlmSpec

=============================================================================
