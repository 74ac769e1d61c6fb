--------------------------- MODULE ServicesProofs ---------------------------
(***************************************************************************)
(* Theorems about SessionTitle, ResponseCache, MicroBatcher, FactMemory    *)
(* and ResumeBuffer, for any values of their constants, and about the      *)
(* composition of all ten services.                                        *)
(***************************************************************************)
EXTENDS MCServices, ConversationMemoryProofs, ExecutorProofs, EvidenceProofs,
        FiniteSetTheorems, WellFoundedInduction, TLAPS

-----------------------------------------------------------------------------
(* The title. *)

\* As long as nobody wrote since a task asked, the title is its question.
TInv ==
    /\ written \in Nat /\ titleQueue \subseteq Questions
    /\ asking \in [Workers -> Questions \cup {NoTitle}]
    /\ askedAt \in [Workers -> Nat]
    /\ \A w \in Workers :
          /\ askedAt[w] <= written
          /\ asking[w] # NoTitle /\ askedAt[w] = written => title = asking[w]

LEMMA WriteKeeps ==
    ASSUME TInv, NEW new, NEW by, WriteTitle(new, by),
           UNCHANGED <<titleQueue, asking, askedAt>>
    PROVE  TInv'
BY DEF TInv, WriteTitle

\* A worker that has its answer, or drops it, asks nothing any more.
LEMMA ForgetKeeps ==
    ASSUME TInv, NEW w \in Workers, TakeTitle(w)
    PROVE  TInv'
<1>1. /\ asking' = [asking EXCEPT ![w] = NoTitle]
      /\ askedAt' = [askedAt EXCEPT ![w] = 0]
      /\ UNCHANGED titleQueue
  BY DEF TakeTitle
<1>2. CASE UNCHANGED <<title, givenBy, written>>
  BY <1>1, <1>2 DEF TInv
<1>3. CASE \E new \in Names : WriteTitle(new, "model")
  <2>1. written \in Nat /\ written' = written + 1
    BY <1>3 DEF WriteTitle, TInv
  <2>2. asking' \in [Workers -> Questions \cup {NoTitle}] /\ askedAt' \in [Workers -> Nat]
    BY <1>1 DEF TInv
  <2>3. \A v \in Workers : askedAt'[v] <= written /\ askedAt'[v] \in Nat
    BY <1>1, <2>1 DEF TInv
  <2> QED
    BY <1>1, <2>1, <2>2, <2>3 DEF TInv
<1> QED
  BY <1>2, <1>3 DEF TakeTitle

LEMMA TInvInvariant == TitleSpec => []TInv
<1>1. TitleInit => TInv
  BY DEF TitleInit, TInv
<1>2. ASSUME TInv, [TitleNext]_titleVars PROVE TInv'
  <2>1. CASE BeginSession \/ RenameSession
    BY <1>2, <2>1, WriteKeeps DEF BeginSession, RenameSession
  <2>2. CASE FinishTurn
    BY <1>2, <2>2 DEF FinishTurn, TInv
  <2>3. ASSUME NEW w \in Workers, AskForTitle(w) PROVE TInv'
    <3>1. PICK q \in titleQueue :
             /\ titleQueue' = titleQueue \ {q}
             /\ IF title = q
                THEN /\ asking' = [asking EXCEPT ![w] = q]
                     /\ askedAt' = [askedAt EXCEPT ![w] = written]
                ELSE UNCHANGED <<asking, askedAt>>
      BY <2>3 DEF AskForTitle
    <3>2. q \in Questions /\ titleQueue' \subseteq Questions /\ UNCHANGED <<title, written>>
      BY <1>2, <2>3, <3>1 DEF TInv, AskForTitle
    <3> QED
      BY <1>2, <3>1, <3>2 DEF TInv
  <2>4. ASSUME NEW w \in Workers, TakeTitle(w) PROVE TInv'
    BY <1>2, <2>4, ForgetKeeps
  <2>5. CASE UNCHANGED titleVars
    BY <1>2, <2>5 DEF TInv, titleVars
  <2> QED
    BY <1>2, <2>1, <2>2, <2>3, <2>4, <2>5 DEF TitleNext
<1> QED
  BY <1>1, <1>2, PTL DEF TitleSpec

\* A name the user chose is overwritten by the model's only when the user
\* chose it while the task waited for the model.
THEOREM RenameKept == TitleSpec => RenameLostOnlyInTheCall
<1> DEFINE Remains == givenBy = "user" /\ title \in Names /\ givenBy' = "model"
                   => \E w \in Workers : asking[w] # NoTitle /\ askedAt[w] < written
<1>1. ASSUME TInv, [TitleNext]_titleVars PROVE [Remains]_titleVars
  <2> SUFFICES ASSUME TitleNext, givenBy = "user", title \in Names, givenBy' = "model"
               PROVE  \E w \in Workers : asking[w] # NoTitle /\ askedAt[w] < written
    BY <1>1
  <2>1. PICK w \in Workers : TakeTitle(w)
    BY DEF TitleNext, BeginSession, FinishTurn, RenameSession, AskForTitle, WriteTitle
  <2>2. asking[w] \in Questions /\ asking[w] # NoTitle
    BY <1>1, <2>1 DEF TInv, TakeTitle
  <2>3. title # asking[w]
    BY <2>2, TitleAssumption DEF TitleAssumption, Questions
  <2>4. askedAt[w] <= written /\ askedAt[w] # written /\ askedAt[w] \in Nat /\ written \in Nat
    BY <1>1, <2>2, <2>3 DEF TInv
  <2> QED
    BY <2>2, <2>4
<1> QED
  BY <1>1, TInvInvariant, PTL DEF TitleSpec, RenameLostOnlyInTheCall

\* The title, the queue and the tasks keep their types; a session gets its
\* first title once, so the writes stay within their bound.
THEOREM TitleTypeCorrect == TitleSpec => []TitleTypeOK
<1> DEFINE Once == title = NoTitle => written = 0
<1>1. TitleInit => TitleTypeOK /\ Once
  BY TitleAssumption DEF TitleInit, TitleTypeOK, Titles, TitleAssumption
<1>2. ASSUME TInv, TInv', TitleTypeOK /\ Once, [TitleNext]_titleVars PROVE (TitleTypeOK /\ Once)'
  <2>1. /\ titleQueue' \subseteq Questions /\ askedAt' \in [Workers -> Nat]
        /\ asking' \in [Workers -> Questions \cup {NoTitle}]
    BY <1>2 DEF TInv
  <2>2. MaxWrites \in Nat /\ written \in 0 .. MaxWrites + 1
    BY <1>2, TitleAssumption DEF TitleTypeOK, TitleAssumption
  <2>3. CASE BeginSession
    <3>1. PICK q \in Questions : WriteTitle(TitleOf(q), "question")
      BY <2>3 DEF BeginSession
    <3>2. TitleOf(q) \in Titles /\ TitleOf(q) # NoTitle
      BY TitleAssumption DEF TitleOf, Titles, Questions, TitleAssumption
    <3> QED
      BY <1>2, <2>1, <2>2, <2>3, <3>1, <3>2 DEF BeginSession, WriteTitle, TitleTypeOK
  <2>4. CASE RenameSession
    <3>1. PICK new \in Names \cup Short : WriteTitle(new, "user")
      BY <2>4 DEF RenameSession
    <3>2. new \in Titles /\ new # NoTitle
      BY TitleAssumption DEF Titles, TitleAssumption
    <3> QED
      BY <2>1, <2>2, <2>4, <3>1, <3>2 DEF RenameSession, WriteTitle, TitleTypeOK
  <2>5. ASSUME NEW w \in Workers, TakeTitle(w), NEW new \in Names, written < MaxWrites,
               WriteTitle(new, "model")
        PROVE  (TitleTypeOK /\ Once)'
    <3>1. new \in Titles /\ new # NoTitle
      BY TitleAssumption DEF Titles, TitleAssumption
    <3> QED
      BY <2>1, <2>2, <2>5, <3>1 DEF WriteTitle, TitleTypeOK
  <2>6. CASE UNCHANGED <<title, givenBy, written>>
    BY <1>2, <2>1, <2>6 DEF TitleTypeOK
  <2> QED
    BY <1>2, <2>3, <2>4, <2>5, <2>6 DEF TitleNext, FinishTurn, AskForTitle, TakeTitle, titleVars
<1>3. TitleSpec => [](TitleTypeOK /\ Once)
  BY <1>1, <1>2, TInvInvariant, PTL DEF TitleSpec
<1> QED
  BY <1>3, PTL

-----------------------------------------------------------------------------
(* The cache of answers. *)

\* A turn that runs has written its exchange.
CInv ==
    /\ NothingIsEverCached
    /\ docKeys \in [IndexSets -> SUBSET CacheKeys]
    /\ exchangesOf \in [Chats -> Nat]
    /\ runStep \in [Chats -> {"idle", "asked", "prepare", "run"}]
    /\ \A c \in Chats : runStep[c] = "run" => exchangesOf[c] > 0

LEMMA CacheUntouched ==
    ASSUME CInv, UNCHANGED <<cache, docKeys>>
    PROVE  NothingIsEverCached' /\ (docKeys \in [IndexSets -> SUBSET CacheKeys])'
BY DEF CInv, NothingIsEverCached

LEMMA CInvInvariant == CacheSpec => []CInv
<1>1. CacheInit => CInv
  BY DEF CacheInit, CInv, NothingIsEverCached
<1>2. ASSUME CInv, [CacheNext]_cacheVars PROVE CInv'
  <2>1. ASSUME NEW c \in Chats, AskTurn(c) \/ FailTurn(c) PROVE CInv'
    BY <1>2, <2>1, CacheUntouched DEF CInv, AskTurn, FailTurn
  <2>2. ASSUME NEW c \in Chats, StartExchange(c) PROVE CInv'
    BY <1>2, <2>2, CacheUntouched DEF CInv, StartExchange
  <2>3. ASSUME NEW c \in Chats, LookUp(c) PROVE CInv'
    <3>1. /\ UNCHANGED <<cache, docKeys>>
          /\ exchangesOf' \in {exchangesOf, [exchangesOf EXCEPT ![c] = @ + 1]}
          /\ runStep' \in {[runStep EXCEPT ![c] = "idle"], [runStep EXCEPT ![c] = "prepare"]}
      BY <2>3 DEF LookUp
    <3>2. exchangesOf' \in [Chats -> Nat] /\ \A k \in Chats : exchangesOf'[k] >= exchangesOf[k]
      BY <1>2, <3>1 DEF CInv
    <3>3. /\ runStep' \in [Chats -> {"idle", "asked", "prepare", "run"}]
          /\ \A k \in Chats : runStep'[k] = "run" => runStep[k] = "run"
      BY <1>2, <3>1 DEF CInv
    <3> QED
      BY <1>2, <3>1, <3>2, <3>3, CacheUntouched DEF CInv
  <2>4. ASSUME NEW c \in Chats, StoreAnswer(c) PROVE CInv'
    <3>1. ~IsCacheable(c)
      BY <1>2, <2>4 DEF CInv, StoreAnswer, IsCacheable, HasHistory
    <3> QED
      BY <1>2, <2>4, <3>1, CacheUntouched DEF CInv, StoreAnswer
  <2>5. ASSUME NEW d \in Docs, ReadIndex(d) PROVE CInv'
    BY <1>2, <2>5, CacheUntouched DEF CInv, ReadIndex
  <2>6. CASE DropAnswers \/ PurgeAnswers
    BY <1>2, <2>6 DEF CInv, DropAnswers, PurgeAnswers, NothingIsEverCached
  <2>7. CASE UNCHANGED cacheVars
    BY <1>2, <2>7, CacheUntouched DEF CInv, cacheVars
  <2> QED
    BY <1>2, <2>1, <2>2, <2>3, <2>4, <2>5, <2>6, <2>7 DEF CacheNext
<1> QED
  BY <1>1, <1>2, PTL DEF CacheSpec

\* The cache never holds an answer, for any number of conversations, turns
\* and documents.
THEOREM CacheStaysEmpty == CacheSpec => []NothingIsEverCached
<1>1. CInv => NothingIsEverCached
  BY DEF CInv
<1> QED
  BY <1>1, CInvInvariant, PTL

\* The keys, the index and the running turns keep their types.
THEOREM CacheTypeCorrect == CacheSpec => []CacheTypeOK
<1>1. CacheInit => CacheTypeOK
  <2>1. NoKey \in CacheKeys
    BY CacheAssumption DEF NoKey, CacheKeys, CacheAssumption
  <2> QED
    BY <2>1 DEF CacheInit, CacheTypeOK, Nothing, IndexSets
<1>2. ASSUME CInv, CInv', CacheTypeOK, [CacheNext]_cacheVars PROVE CacheTypeOK'
  <2>1. /\ cache' \subseteq CacheKeys
        /\ docKeys' \in [IndexSets -> SUBSET CacheKeys]
        /\ exchangesOf' \in [Chats -> Nat]
        /\ runStep' \in [Chats -> {"idle", "asked", "prepare", "run"}]
    BY <1>2 DEF CInv, NothingIsEverCached
  <2>2. ASSUME NEW c \in Chats, AskTurn(c) PROVE CacheTypeOK'
    BY <1>2, <2>1, <2>2 DEF AskTurn, CacheTypeOK
  <2>3. ASSUME NEW d \in Docs, ReadIndex(d) PROVE CacheTypeOK'
    <3>1. d \in IndexSets /\ AllDocs \in IndexSets
      BY DEF IndexSets
    <3>2. invalidating'.doc = d /\ invalidating'.keys = docKeys[d] \cup docKeys[AllDocs]
      BY <2>3 DEF ReadIndex
    <3>3. invalidating'.keys \subseteq CacheKeys
      BY <1>2, <3>1, <3>2 DEF CacheTypeOK
    <3> QED
      BY <1>2, <2>1, <2>3, <3>1, <3>2, <3>3 DEF ReadIndex, CacheTypeOK
  <2>4. CASE DropAnswers
    <3>1. invalidating'.doc \in IndexSets /\ invalidating'.keys \subseteq CacheKeys
      BY <2>4 DEF DropAnswers, Nothing, IndexSets
    <3> QED
      BY <1>2, <2>1, <2>4, <3>1 DEF DropAnswers, CacheTypeOK
  <2>5. CASE UNCHANGED <<askedKey, invalidating>>
    BY <1>2, <2>1, <2>5 DEF CacheTypeOK
  <2> QED
    BY <1>2, <2>2, <2>3, <2>4, <2>5
       DEF CacheNext, LookUp, StartExchange, FailTurn, StoreAnswer, PurgeAnswers, cacheVars
<1> QED
  BY <1>1, <1>2, CInvInvariant, PTL DEF CacheSpec

-----------------------------------------------------------------------------
(* The batches of the JEV model. *)

\* What the steps of a worker say about its batch, and which worker is current.
LoopInv ==
    /\ \A l \in Loops : loopBatch[l] # <<>> => loopStep[l] \in {"collect", "run"}
    /\ currentLoop # NoLoop => loopStep[currentLoop] # "none"

\* Before the first close() the worker that submit() started is there.
UnclosedInv ==
    closes = 0 => /\ closing = NoLoop
                  /\ \A l \in Loops : loopStep[l] # "dead"
                  /\ jobQueue # <<>> => currentLoop # NoLoop

\* Where the job of a waiting request is.
Placed(c) == \/ c \in ToSet(jobQueue)
             \/ \E l \in Loops : c \in ToSet(loopBatch[l])
             \/ c \in dropped

BInv ==
    /\ BatchTypeOK
    /\ LoopInv
    /\ UnclosedInv
    /\ \A c \in Callers : future[c] = "pending" => Placed(c)
    /\ \A c \in Callers : future[c] = "answered" => replyOf[c] = {c}

LEMMA QueueFacts ==
    ASSUME NEW S, NEW s \in Seq(S)
    PROVE  /\ ToSet(<<>>) = {}
           /\ \A x \in S : /\ Append(s, x) \in Seq(S) /\ Append(s, x) # <<>>
                           /\ ToSet(Append(s, x)) = ToSet(s) \cup {x}
           /\ s # <<>> => /\ Head(s) \in S /\ Tail(s) \in Seq(S)
                          /\ ToSet(s) = {Head(s)} \cup ToSet(Tail(s))
           /\ ToSet(s) \subseteq S
<1>1. ToSet(<<>>) = {}
  BY DEF ToSet
<1>2. ASSUME NEW x \in S
      PROVE  /\ Append(s, x) \in Seq(S) /\ Append(s, x) # <<>>
             /\ ToSet(Append(s, x)) = ToSet(s) \cup {x}
  <2>1. Append(s, x) \in Seq(S) /\ Len(Append(s, x)) = Len(s) + 1
    OBVIOUS
  <2>2. \A i \in 1 .. Len(s) : Append(s, x)[i] = s[i]
    OBVIOUS
  <2>3. Append(s, x)[Len(s) + 1] = x
    OBVIOUS
  <2>4. Len(s) \in Nat /\ DOMAIN s = 1 .. Len(s) /\ DOMAIN Append(s, x) = 1 .. Len(s) + 1
    BY <2>1
  <2> QED
    BY <2>1, <2>2, <2>3, <2>4 DEF ToSet
<1>3. ASSUME s # <<>>
      PROVE  /\ Head(s) \in S /\ Tail(s) \in Seq(S)
             /\ ToSet(s) = {Head(s)} \cup ToSet(Tail(s))
  <2>1. /\ Head(s) = s[1] /\ Tail(s) \in Seq(S) /\ Len(Tail(s)) = Len(s) - 1
        /\ Len(s) \in Nat /\ Len(s) > 0
    BY <1>3
  <2>2. \A i \in 1 .. Len(s) - 1 : Tail(s)[i] = s[i + 1]
    BY <1>3
  <2>3. \A i \in 1 .. Len(s) : i = 1 \/ i - 1 \in 1 .. Len(s) - 1
    BY <2>1
  <2>4. DOMAIN s = 1 .. Len(s) /\ DOMAIN Tail(s) = 1 .. Len(s) - 1
    BY <2>1
  <2>5. ToSet(s) \subseteq {Head(s)} \cup ToSet(Tail(s))
    <3> SUFFICES ASSUME NEW i \in 1 .. Len(s), s[i] # s[1] PROVE s[i] \in ToSet(Tail(s))
      BY <2>1, <2>4 DEF ToSet
    <3>1. i - 1 \in 1 .. Len(s) - 1 /\ Tail(s)[i - 1] = s[i]
      BY <2>2, <2>3
    <3> QED
      BY <3>1, <2>4 DEF ToSet
  <2>6. {Head(s)} \cup ToSet(Tail(s)) \subseteq ToSet(s)
    BY <2>1, <2>2, <2>4 DEF ToSet
  <2> QED
    BY <2>1, <2>5, <2>6
<1>4. ToSet(s) \subseteq S
  BY DEF ToSet
<1> QED
  BY <1>1, <1>2, <1>3, <1>4

LEMMA BInitInv == BatchInit => BInv
BY BatcherAssumption, QueueFacts
   DEF BatchInit, BInv, BatchTypeOK, LoopInv, UnclosedInv, BatcherAssumption

LEMMA SubmitStep == ASSUME NEW c \in Callers PROVE BInv /\ Submit(c) => BInv'
<1> SUFFICES ASSUME BInv, Submit(c) PROVE BInv'
  OBVIOUS
<1>1. /\ jobQueue' \in Seq(Callers) /\ jobQueue' # <<>>
      /\ ToSet(jobQueue') = ToSet(jobQueue) \cup {c}
  BY QueueFacts DEF Submit, BInv, BatchTypeOK
<1>2. future' = [future EXCEPT ![c] = "pending"] /\ future[c] = "none"
      /\ UNCHANGED <<replyOf, loopBatch, closing, closes, dropped>>
  BY DEF Submit
<1>3. /\ loopStep' \in [Loops -> {"none", "wait", "collect", "run", "dead"}]
      /\ currentLoop' \in Loops /\ loopStep'[currentLoop'] # "none"
      /\ \A l \in Loops : loopStep'[l] = loopStep[l] \/ (loopStep[l] = "none" /\ loopStep'[l] = "wait")
  BY DEF Submit, StartLoop, BInv, BatchTypeOK, LoopInv
<1>4. BatchTypeOK' /\ LoopInv' /\ UnclosedInv'
  BY <1>1, <1>2, <1>3, BatcherAssumption DEF BInv, BatchTypeOK, LoopInv, UnclosedInv, BatcherAssumption
<1>5. \A d \in Callers : future'[d] = "pending" => Placed(d)'
  BY <1>1, <1>2 DEF BInv, BatchTypeOK, Placed
<1>6. \A d \in Callers : future'[d] = "answered" => replyOf'[d] = {d}
  BY <1>2 DEF BInv, BatchTypeOK
<1> QED
  BY <1>4, <1>5, <1>6 DEF BInv

LEMMA AbandonStep == ASSUME NEW c \in Callers PROVE BInv /\ Abandon(c) => BInv'
BY DEF Abandon, BInv, BatchTypeOK, LoopInv, UnclosedInv, Placed

LEMMA TakeJobStep == ASSUME NEW l \in Loops PROVE BInv /\ TakeJob(l) => BInv'
<1> SUFFICES ASSUME BInv, TakeJob(l) PROVE BInv'
  OBVIOUS
<1> DEFINE job == Head(jobQueue)
<1>1. /\ job \in Callers /\ jobQueue' \in Seq(Callers)
      /\ ToSet(jobQueue) = {job} \cup ToSet(jobQueue')
      /\ jobQueue # <<>>
  BY QueueFacts DEF TakeJob, BInv, BatchTypeOK
<1>2. /\ Append(loopBatch[l], job) \in Seq(Callers)
      /\ ToSet(Append(loopBatch[l], job)) = ToSet(loopBatch[l]) \cup {job}
  BY <1>1, QueueFacts DEF BInv, BatchTypeOK
<1>3. /\ loopBatch' = [loopBatch EXCEPT ![l] = Append(loopBatch[l], job)]
      /\ loopStep' = [loopStep EXCEPT ![l] = "collect"]
      /\ UNCHANGED <<future, replyOf, currentLoop, closing, closes, dropped>>
  BY DEF TakeJob
<1>4. BatchTypeOK' /\ LoopInv' /\ UnclosedInv'
  BY <1>1, <1>2, <1>3, BatcherAssumption DEF BInv, BatchTypeOK, LoopInv, UnclosedInv, BatcherAssumption
<1>5. ASSUME NEW d \in Callers, future'[d] = "pending" PROVE Placed(d)'
  <2>1. Placed(d)
    BY <1>3, <1>5 DEF BInv
  <2>2. \A k \in Loops : ToSet(loopBatch[k]) \subseteq ToSet(loopBatch'[k])
    BY <1>2, <1>3 DEF BInv, BatchTypeOK
  <2>3. job \in ToSet(loopBatch'[l])
    BY <1>2, <1>3 DEF BInv, BatchTypeOK
  <2> QED
    BY <2>1, <2>2, <2>3, <1>1, <1>3 DEF Placed
<1> QED
  BY <1>3, <1>4, <1>5 DEF BInv

LEMMA RunBatchStep == ASSUME NEW l \in Loops PROVE BInv /\ RunBatch(l) => BInv'
BY DEF RunBatch, Runnable, BInv, BatchTypeOK, LoopInv, UnclosedInv, Placed

\* The place of a request in the batch is the place of its result.
LEMMA ReplyIsOwn ==
    ASSUME NEW c, NEW batch
    PROVE  /\ ReplyTo(c, batch) \subseteq {c}
           /\ c \in ToSet(batch) => ReplyTo(c, batch) = {c}
BY DEF ReplyTo, JobsRun, ToSet

LEMMA AnswerBatchStep == ASSUME NEW l \in Loops PROVE BInv /\ AnswerBatch(l) => BInv'
<1> SUFFICES ASSUME BInv, AnswerBatch(l) PROVE BInv'
  OBVIOUS
<1> DEFINE waiting == {c \in ToSet(loopBatch[l]) : future[c] = "pending"}
<1>1. PICK failing \in SUBSET waiting :
         /\ replyOf' = [c \in Callers |->
               IF c \in waiting \ failing THEN ReplyTo(c, loopBatch[l])
               ELSE replyOf[c]]
         /\ future' = [c \in Callers |->
               IF c \in failing THEN "failed"
               ELSE IF c \in waiting /\ replyOf'[c] # {} THEN "answered"
               ELSE future[c]]
  BY DEF AnswerBatch, Waiting
<1>2. /\ loopStep' = [loopStep EXCEPT ![l] = "wait"]
      /\ loopBatch' = [loopBatch EXCEPT ![l] = <<>>]
      /\ UNCHANGED <<jobQueue, currentLoop, closing, closes, dropped>>
      /\ loopStep[l] = "run"
  BY DEF AnswerBatch, Runnable
<1>3. waiting \subseteq Callers
  BY QueueFacts DEF BInv, BatchTypeOK
<1>4. \A c \in Callers : c \in waiting \ failing => replyOf'[c] = {c}
  BY <1>1, ReplyIsOwn
<1>5. \A c \in Callers : c \in waiting => future'[c] \in {"failed", "answered"}
  BY <1>1, <1>4
<1>6. \A c \in Callers \ waiting : future'[c] = future[c] /\ replyOf'[c] = replyOf[c]
  BY <1>1
<1>7. replyOf' \in [Callers -> SUBSET Callers]
  BY <1>1, <1>4, <1>6 DEF BInv, BatchTypeOK
<1>8. future' \in [Callers -> {"none", "pending", "answered", "failed", "cancelled"}]
  BY <1>1, <1>5, <1>6 DEF BInv, BatchTypeOK
<1>9. BatchTypeOK' /\ LoopInv' /\ UnclosedInv'
  <2>1. <<>> \in Seq(Callers)
    OBVIOUS
  <2> QED
    BY <1>2, <1>7, <1>8, <2>1, BatcherAssumption DEF BInv, BatchTypeOK, LoopInv, UnclosedInv, BatcherAssumption
<1>10. ASSUME NEW c \in Callers, future'[c] = "pending" PROVE Placed(c)'
  <2>1. c \notin waiting /\ future[c] = "pending"
    BY <1>5, <1>6, <1>10
  <2>2. c \notin ToSet(loopBatch[l]) /\ Placed(c)
    BY <2>1 DEF BInv
  <2> QED
    BY <2>2, <1>2 DEF Placed, BInv, BatchTypeOK
<1>11. ASSUME NEW c \in Callers, future'[c] = "answered" PROVE replyOf'[c] = {c}
  <2>1. CASE c \in waiting
    <3>1. c \notin failing
      BY <1>1, <1>11
    <3> QED
      BY <2>1, <3>1, <1>4
  <2> QED
    BY <2>1, <1>6, <1>11 DEF BInv
<1> QED
  BY <1>9, <1>10, <1>11 DEF BInv

LEMMA EndLoopStep == ASSUME NEW l \in Loops PROVE BInv /\ EndLoop(l) => BInv'
<1> SUFFICES ASSUME BInv, EndLoop(l) PROVE BInv'
  OBVIOUS
<1>1. /\ loopStep' = [loopStep EXCEPT ![l] = "dead"]
      /\ dropped' = dropped \cup ToSet(loopBatch[l])
      /\ loopBatch' = [loopBatch EXCEPT ![l] = <<>>]
      /\ UNCHANGED <<jobQueue, future, replyOf, currentLoop, closing, closes>>
      /\ closing = l
  BY DEF EndLoop
<1>2. ToSet(loopBatch[l]) \subseteq Callers /\ <<>> \in Seq(Callers)
  BY QueueFacts DEF BInv, BatchTypeOK
<1>3. BatchTypeOK' /\ LoopInv' /\ UnclosedInv'
  BY <1>1, <1>2, BatcherAssumption DEF BInv, BatchTypeOK, LoopInv, UnclosedInv, BatcherAssumption
<1>4. \A c \in Callers : Placed(c) => Placed(c)'
  BY <1>1 DEF Placed, BInv, BatchTypeOK
<1> QED
  BY <1>1, <1>3, <1>4 DEF BInv

LEMMA CloseStep == BInv /\ (Close \/ EndClose \/ UNCHANGED batchVars) => BInv'
<1> SUFFICES ASSUME BInv, Close \/ EndClose \/ UNCHANGED batchVars PROVE BInv'
  OBVIOUS
<1>1. UNCHANGED <<jobQueue, future, replyOf, loopStep, loopBatch, dropped>>
  BY DEF Close, EndClose, batchVars
<1>2. (\A c \in Callers : future'[c] = "pending" => Placed(c)')
      /\ \A c \in Callers : future'[c] = "answered" => replyOf'[c] = {c}
  BY <1>1 DEF BInv, Placed
<1>3. BatchTypeOK' /\ LoopInv' /\ UnclosedInv'
  <2>1. CASE Close
    BY <1>1, <2>1, BatcherAssumption DEF Close, BInv, BatchTypeOK, LoopInv, UnclosedInv, BatcherAssumption
  <2>2. CASE EndClose
    BY <1>1, <2>2, BatcherAssumption DEF EndClose, BInv, BatchTypeOK, LoopInv, UnclosedInv, BatcherAssumption
  <2>3. CASE UNCHANGED batchVars
    BY <1>1, <2>3 DEF batchVars, BInv, BatchTypeOK, LoopInv, UnclosedInv
  <2> QED
    BY <2>1, <2>2, <2>3
<1> QED
  BY <1>2, <1>3 DEF BInv

LEMMA BInvInvariant == BatchSpec => []BInv
<1>1. BInv /\ [BatchNext]_batchVars => BInv'
  BY SubmitStep, AbandonStep, TakeJobStep, RunBatchStep, AnswerBatchStep, EndLoopStep, CloseStep
     DEF BatchNext
<1> QED
  BY BInitInv, <1>1, PTL DEF BatchSpec

\* The queue, the workers and the requests of the micro batcher keep their types.
THEOREM BatchTypeCorrect == BatchSpec => []BatchTypeOK
<1>1. BInv => BatchTypeOK
  BY DEF BInv
<1> QED
  BY <1>1, BInvInvariant, PTL

\* Until the first close() a request that waits has its job queued or in the
\* batch of a worker that lives, and an answer is the one to its own question.
THEOREM WaitersServed == BatchSpec => []WaitersAreServed
<1>1. BInv => WaitersAreServed
  <2> SUFFICES ASSUME BInv PROVE WaitersAreServed
    OBVIOUS
  <2>1. \A l \in Loops : \A c \in ToSet(loopBatch[l]) : Alive(l)
    BY QueueFacts DEF BInv, BatchTypeOK, LoopInv, Alive
  <2>2. jobQueue # <<>> => (\E l \in Loops : Alive(l)) \/ closes > 0
    BY DEF BInv, BatchTypeOK, LoopInv, UnclosedInv, Alive
  <2>3. \A c \in ToSet(jobQueue) : jobQueue # <<>>
    BY QueueFacts DEF BInv, BatchTypeOK
  <2> QED
    BY <2>1, <2>2, <2>3 DEF WaitersAreServed, BInv, Placed
<1> QED
  BY BInvInvariant, <1>1, PTL

\* The batcher implements JudgeService: whatever the workers, the timeouts and
\* close() do, a request has one outcome, which is final, and an answer is the one
\* to its own job (submit(), _dispatch()).
THEOREM JudgedOnce == BatchSpec => ImplementsJudgeService
<1>1. BatchInit => Judging!Init
  BY DEF BatchInit, Judging!Init
<1>2. BInv /\ BInv' /\ [BatchNext]_batchVars => [Judging!Next]_<<future, replyOf>>
  <2> SUFFICES ASSUME BInv, BInv', [BatchNext]_batchVars
               PROVE  [Judging!Next]_<<future, replyOf>>
    OBVIOUS
  <2>1. ASSUME NEW c \in Callers, Submit(c) PROVE Judging!Ask(c)
    BY <2>1 DEF Submit, Judging!Ask
  <2>2. ASSUME NEW c \in Callers, Abandon(c) PROVE Judging!GiveUp(c)
    BY <2>2 DEF Abandon, Judging!GiveUp
  <2>3. ASSUME NEW l \in Loops, AnswerBatch(l) PROVE Judging!Answer
    <3> DEFINE waiting == Waiting(loopBatch[l])
    <3>1. PICK failing \in SUBSET waiting :
             /\ replyOf' = [c \in Callers |->
                   IF c \in waiting \ failing THEN ReplyTo(c, loopBatch[l])
                   ELSE replyOf[c]]
             /\ future' = [c \in Callers |->
                   IF c \in failing THEN "failed"
                   ELSE IF c \in waiting /\ replyOf'[c] # {} THEN "answered"
                   ELSE future[c]]
      BY <2>3 DEF AnswerBatch
    <3>2. \A c \in waiting : future[c] = "pending" /\ ReplyTo(c, loopBatch[l]) = {c}
      BY ReplyIsOwn DEF Waiting
    <3> HIDE DEF waiting
    <3>3. DOMAIN future' = Callers /\ DOMAIN replyOf' = Callers
      BY <3>1
    <3>4. ASSUME NEW c \in Callers
          PROVE  \/ future[c] = "pending" /\ (Judging!Judged(c) \/ Judging!Failed(c))
                 \/ future'[c] = future[c] /\ replyOf'[c] = replyOf[c]
      <4>1. CASE c \in failing
        BY <3>1, <3>2, <4>1 DEF Judging!Failed
      <4>2. CASE c \in waiting \ failing
        BY <3>1, <3>2, <4>2 DEF Judging!Judged
      <4>3. CASE c \notin waiting
        BY <3>1, <4>3
      <4> QED
        BY <4>1, <4>2, <4>3
    <3> QED
      BY <3>3, <3>4 DEF Judging!Answer
  <2>4. ASSUME \/ Close \/ EndClose \/ UNCHANGED batchVars
               \/ \E l \in Loops : TakeJob(l) \/ RunBatch(l) \/ EndLoop(l)
        PROVE  UNCHANGED <<future, replyOf>>
    BY <2>4 DEF Close, EndClose, batchVars, TakeJob, RunBatch, EndLoop
  <2> QED
    BY <2>1, <2>2, <2>3, <2>4 DEF BatchNext, Judging!Next
<1> QED
  BY <1>1, <1>2, BInvInvariant, PTL
     DEF BatchSpec, ImplementsJudgeService, Judging!Spec, Judging!vars

-----------------------------------------------------------------------------
(* The facts. *)

\* A finite set of numbers has a greatest member.
LEMMA GreatestAmong ==
    ASSUME NEW N \in SUBSET Nat, IsFiniteSet(N), N # {}
    PROVE  \E n \in N : \A m \in N : m <= n
<1> DEFINE Above(n) == {m \in N : m > n}
<1>1. IsWellFoundedOn(StrictSubsetOrdering(N), SUBSET N)
  BY FS_StrictSubsetOrderingWellFounded, FS_FiniteSubsetsOfFinite
<1>2. PICK T \in {Above(n) : n \in N} :
          \A U \in {Above(n) : n \in N} : <<U, T>> \notin StrictSubsetOrdering(N)
  <2>1. {Above(n) : n \in N} \subseteq SUBSET N /\ {Above(n) : n \in N} # {}
    OBVIOUS
  <2> HIDE DEF Above
  <2> QED
    BY <1>1, <2>1, WFMin
<1>3. PICK n \in N : T = Above(n)
  BY <1>2
<1>4. ASSUME NEW m \in N, m > n PROVE FALSE
  <2>1. Above(m) \subseteq Above(n) /\ m \in Above(n) /\ m \notin Above(m)
    <3>1. \A z \in N : z > m => z > n
      BY <1>4
    <3>2. ~(m > m)
      OBVIOUS
    <3> QED
      BY <1>4, <3>1, <3>2, Zenon
  <2>2. <<Above(m), Above(n)>> \in StrictSubsetOrdering(N)
    BY <2>1 DEF StrictSubsetOrdering
  <2> QED
    BY <1>2, <1>3, <2>2
<1> QED
  BY <1>4

\* Of rows with different times, at most M have fewer than M before them.
LEMMA FirstOnes ==
    ASSUME NEW S, IsFiniteSet(S), NEW M \in Nat \ {0},
           \A r \in S : r.at \in Nat,
           \A q, r \in S : q.at = r.at => q = r
    PROVE  Cardinality({r \in S : ~(Cardinality({q \in S : q.at < r.at}) >= M)}) <= M
<1> DEFINE Before(r) == {q \in S : q.at < r.at}
           K == {r \in S : ~(Cardinality(Before(r)) >= M)}
           N == {r.at : r \in K}
<1>1. IsFiniteSet(K) /\ Cardinality(K) \in Nat
  BY FS_Subset, FS_CardinalityType
<1>2. CASE K = {}
  <2>1. Cardinality(K) = 0
    BY <1>2, FS_EmptySet
  <2> QED
    BY <2>1
<1>3. CASE K # {}
  <2>1. N \in SUBSET Nat /\ N # {} /\ IsFiniteSet(N)
    <3>1. IsFiniteSet(N)
      <4> DEFINE f == [r \in K |-> r.at]
      <4>1. f \in Surjection(K, N)
        BY DEF Surjection
      <4> QED
        BY <1>1, <4>1, FS_Surjection
    <3> QED
      BY <1>3, <3>1
  <2>2. PICK n \in N : \A m \in N : m <= n
    <3> HIDE DEF N
    <3> QED
      BY <2>1, GreatestAmong
  <2>3. PICK r \in K : n = r.at
    BY <2>2
  <2>4. \A q \in K \ {r} : q \in Before(r)
    <3> TAKE q \in K \ {r}
    <3>1. q.at \in Nat /\ r.at \in Nat /\ q.at <= r.at /\ q.at # r.at
      BY <2>2, <2>3
    <3> QED
      BY <3>1
  <2>5. Cardinality(K \ {r}) = Cardinality(K) - 1
    BY <1>1, <2>3, FS_RemoveElement
  <2>6. IsFiniteSet(Before(r)) /\ Cardinality(Before(r)) \in Nat
    BY FS_Subset, FS_CardinalityType
  <2>7. Cardinality(K \ {r}) <= Cardinality(Before(r))
    BY <2>4, <2>6, FS_Subset
  <2>8. ~(Cardinality(Before(r)) >= M)
    BY <2>3
  <2> QED
    BY <1>1, <2>5, <2>6, <2>7, <2>8
<1> QED
  BY <1>2, <1>3

-----------------------------------------------------------------------------
Storing(c) == \E t \in Tasks : taskConv[t] = c /\ taskStored[t]

\* Rows are told apart by their time, the number of the insertion.
RowsInv ==
    /\ IsFiniteSet(facts)
    /\ \A r \in facts : r.at < inserts
    /\ \A q, r \in facts : q.at = r.at => q = r

\* A task in the loop has a fact in hand.
HandInv ==
    \A t \in Tasks :
        /\ taskStep[t] \in {"search", "insert"} => taskTodo[t] # <<>>
        /\ taskStep[t] # "idle" => taskConv[t] \in Conversations
        /\ taskStep[t] = "trim" <=> taskStep[t] # "idle" /\ taskTodo[t] = <<>>

\* A task stores something only while it runs.
IdleInv == \A t \in Tasks : taskStored[t] => taskStep[t] # "idle"

\* Between its search and its insertion a task has seen all equal facts of
\* its scope but those inserted since.
SeenInv ==
    \A t \in Tasks : taskStep[t] = "insert" =>
        /\ taskSaw[t] <= inserts
        /\ \A q \in facts :
               (q.fact = Head(taskTodo[t]) /\ InScope(q, taskConv[t], taskKeyed[t]))
               => taskSaw[t] <= q.at

BoundInv ==
    \A c \in Conversations \ untrimmed :
        Storing(c) \/ Cardinality(Of(c)) <= MaxFacts

FInv == FactTypeOK /\ RowsInv /\ HandInv /\ IdleInv /\ SeenInv /\ DuplicatesOnlyFromRaces /\ BoundInv

TasksTyped ==
    /\ taskStep \in [Tasks -> TaskSteps]
    /\ taskConv \in [Tasks -> Conversations \cup {NoConv}]
    /\ taskKeyed \in [Tasks -> BOOLEAN]
    /\ taskTodo \in [Tasks -> Seq(Facts)]
    /\ taskStored \in [Tasks -> BOOLEAN]
    /\ taskSaw \in [Tasks -> Nat]

LEMMA FInitInv == FactInit => FInv
<1> SUFFICES ASSUME FactInit PROVE FInv
  OBVIOUS
<1>1. FactTypeOK
  BY DEF FactInit, FactTypeOK, TaskSteps
<1>2. RowsInv /\ \A c : Of(c) = {}
  BY FS_EmptySet DEF FactInit, RowsInv, Of
<1>3. Cardinality({}) = 0
  BY FS_EmptySet
<1>4. BoundInv
  BY <1>2, <1>3, FactAssumption DEF FactAssumption, BoundInv
<1>5. HandInv /\ IdleInv /\ SeenInv /\ DuplicatesOnlyFromRaces
  BY DEF FactInit, IdleInv, HandInv, SeenInv, DuplicatesOnlyFromRaces
<1> QED
  BY <1>1, <1>2, <1>4, <1>5 DEF FInv

\* Deleting rows.
LEMMA RowsGo ==
    ASSUME FInv, facts' \subseteq facts, inserts' = inserts
    PROVE  /\ RowsInv' /\ DuplicatesOnlyFromRaces'
           /\ \A c : /\ Cardinality(Of(c)) \in Nat /\ Cardinality(Of(c)') \in Nat
                     /\ Cardinality(Of(c)') <= Cardinality(Of(c))
<1>1. RowsInv'
  <2>1. IsFiniteSet(facts')
    BY FS_Subset DEF FInv, RowsInv
  <2> QED
    BY <2>1 DEF FInv, RowsInv
<1>2. DuplicatesOnlyFromRaces'
  BY DEF FInv, DuplicatesOnlyFromRaces
<1>3. ASSUME NEW c
      PROVE  /\ Cardinality(Of(c)) \in Nat /\ Cardinality(Of(c)') \in Nat
             /\ Cardinality(Of(c)') <= Cardinality(Of(c))
  <2>1. IsFiniteSet(facts) /\ Of(c) \subseteq facts /\ Of(c)' \subseteq Of(c)
    BY DEF FInv, RowsInv, Of
  <2>2. IsFiniteSet(Of(c))
    BY <2>1, FS_Subset
  <2> QED
    BY <2>1, <2>2, FS_Subset, FS_CardinalityType
<1> QED
  BY <1>1, <1>2, <1>3

\* A task that ends holds nothing any more; the others have not moved.
LEMMA EndTaskKeeps ==
    ASSUME FInv, NEW t \in Tasks, EndTask(t), facts' \subseteq facts, inserts' = inserts
    PROVE  TasksTyped' /\ HandInv' /\ SeenInv'
<1>1. TasksTyped'
  <2>1. <<>> \in Seq(Facts)
    OBVIOUS
  <2> QED
    BY <2>1 DEF FInv, FactTypeOK, EndTask, TasksTyped, TaskSteps
<1>2. HandInv'
  BY DEF FInv, FactTypeOK, HandInv, EndTask
<1>3. SeenInv'
  BY DEF FInv, FactTypeOK, SeenInv, EndTask
<1> QED
  BY <1>1, <1>2, <1>3

LEMMA NothingLeft ==
    ASSUME NEW S, NEW s \in Seq(S)
    PROVE  Len(s) = 0 <=> s = <<>>
OBVIOUS

\* So with a task that goes on to its next fact, or to the trim.
LEMMA NextFactKeeps ==
    ASSUME FInv, NEW t \in Tasks, NEW stored \in BOOLEAN,
           taskStep[t] \in {"search", "insert"}, NextFact(t, stored),
           inserts' \in Nat, inserts' >= inserts,
           \A q \in facts' \ facts : q.at = inserts
    PROVE  TasksTyped' /\ HandInv' /\ SeenInv'
<1>0. taskTodo[t] \in Seq(Facts) /\ taskTodo[t] # <<>> /\ taskConv[t] \in Conversations
  BY DEF FInv, FactTypeOK, HandInv
<1>1. CASE Len(taskTodo[t]) = 1 /\ ~stored
  <2>1. EndTask(t)
    BY <1>1 DEF NextFact
  <2>2. TasksTyped'
    <3>1. <<>> \in Seq(Facts)
      OBVIOUS
    <3> QED
      BY <2>1, <3>1 DEF FInv, FactTypeOK, EndTask, TasksTyped, TaskSteps
  <2>3. HandInv'
    BY <2>1 DEF FInv, FactTypeOK, HandInv, EndTask
  <2>4. SeenInv'
    <3>1. \A u \in Tasks : taskStep'[u] = "insert" =>
             /\ u # t /\ taskStep[u] = "insert"
             /\ taskTodo'[u] = taskTodo[u] /\ taskConv'[u] = taskConv[u]
             /\ taskKeyed'[u] = taskKeyed[u] /\ taskSaw'[u] = taskSaw[u]
      BY <2>1 DEF FInv, FactTypeOK, EndTask
    <3> QED
      BY <3>1 DEF FInv, FactTypeOK, SeenInv
  <2> QED
    BY <2>2, <2>3, <2>4
<1>2. CASE ~(Len(taskTodo[t]) = 1 /\ ~stored)
  <2>1. /\ taskStep' = [taskStep EXCEPT ![t] =
                            IF Len(taskTodo[t]) = 1 THEN "trim" ELSE "search"]
        /\ taskTodo' = [taskTodo EXCEPT ![t] = Tail(@)]
        /\ taskStored' = [taskStored EXCEPT ![t] = stored]
        /\ taskSaw' = [taskSaw EXCEPT ![t] = 0]
        /\ UNCHANGED <<taskConv, taskKeyed>>
    BY <1>2 DEF NextFact
  <2>2. /\ Tail(taskTodo[t]) \in Seq(Facts)
        /\ Len(taskTodo[t]) = 1 <=> Tail(taskTodo[t]) = <<>>
    <3>1. Tail(taskTodo[t]) \in Seq(Facts) /\ Len(Tail(taskTodo[t])) = Len(taskTodo[t]) - 1
      BY <1>0
    <3> DEFINE rest == Tail(taskTodo[t])
    <3>2. Len(taskTodo[t]) = 1 <=> Len(rest) = 0
      BY <3>1, <1>0
    <3>3. Len(rest) = 0 <=> rest = <<>>
      BY <3>1, NothingLeft
    <3> QED
      BY <3>1, <3>2, <3>3
  <2>3. TasksTyped'
    BY <2>1, <2>2 DEF FInv, FactTypeOK, TasksTyped, TaskSteps
  <2>4. HandInv'
    BY <1>0, <2>1, <2>2 DEF FInv, FactTypeOK, HandInv
  <2>5. SeenInv'
    BY <2>1 DEF FInv, FactTypeOK, SeenInv
  <2> QED
    BY <2>3, <2>4, <2>5
<1> QED
  BY <1>1, <1>2

\* Who stores for a conversation after a step of task t.
LEMMA StoringKept ==
    ASSUME NEW t \in Tasks,
           \A u \in Tasks \ {t} : taskConv'[u] = taskConv[u] /\ taskStored'[u] = taskStored[u],
           NEW c, Storing(c), ~(taskConv[t] = c /\ taskStored[t])
    PROVE  Storing(c)'
BY DEF Storing

LEMMA ExtractStep == ASSUME NEW t \in Tasks PROVE FInv /\ ExtractFacts(t) => FInv'
<1> SUFFICES ASSUME FInv, ExtractFacts(t) PROVE FInv'
  OBVIOUS
<1>1. PICK c \in Conversations, keyed \in BOOLEAN, f \in Facts, g \in Facts :
          /\ taskConv' = [taskConv EXCEPT ![t] = c]
          /\ taskKeyed' = [taskKeyed EXCEPT ![t] = keyed]
          /\ taskTodo' = [taskTodo EXCEPT ![t] =
                            IF f = g THEN <<f>> ELSE <<f, g>>]
  BY DEF ExtractFacts
<1>2. /\ taskStep' = [taskStep EXCEPT ![t] = "search"] /\ taskStep[t] = "idle"
      /\ UNCHANGED <<facts, taskStored, taskSaw, untrimmed, inserts, purges>>
  BY DEF ExtractFacts
<1>3. <<f>> \in Seq(Facts) /\ <<f, g>> \in Seq(Facts) /\ <<f>> # <<>> /\ <<f, g>> # <<>>
  OBVIOUS
<1>4. FactTypeOK'
  BY <1>1, <1>2, <1>3 DEF FInv, FactTypeOK, TaskSteps
<1>5. HandInv'
  BY <1>1, <1>2, <1>3 DEF FInv, FactTypeOK, HandInv
<1>6. SeenInv' /\ IdleInv'
  BY <1>1, <1>2 DEF FInv, FactTypeOK, SeenInv, IdleInv
<1>7. BoundInv'
  <2> SUFFICES ASSUME NEW d \in Conversations \ untrimmed PROVE Storing(d)' \/ Cardinality(Of(d)') <= MaxFacts
    BY <1>2 DEF BoundInv
  <2>1. Of(d)' = Of(d)
    BY <1>2 DEF Of
  <2>2. Storing(d) => Storing(d)'
    BY <1>1, <1>2 DEF Storing, FInv, IdleInv, FactTypeOK
  <2> QED
    BY <2>1, <2>2 DEF FInv, BoundInv
<1>8. RowsInv' /\ DuplicatesOnlyFromRaces'
  BY <1>2, RowsGo
<1> QED
  BY <1>4, <1>5, <1>6, <1>7, <1>8 DEF FInv

LEMMA SearchStep == ASSUME NEW t \in Tasks PROVE FInv /\ SearchFact(t) => FInv'
<1> SUFFICES ASSUME FInv, SearchFact(t) PROVE FInv'
  OBVIOUS
<1>1. taskStep[t] = "search" /\ UNCHANGED <<facts, untrimmed, inserts, purges>>
  BY DEF SearchFact
<1>2. RowsInv' /\ DuplicatesOnlyFromRaces'
  BY <1>1, RowsGo
<1>3. CASE Similar(Head(taskTodo[t]), taskConv[t], taskKeyed[t])
  <2>1. NextFact(t, taskStored[t]) /\ taskStored[t] \in BOOLEAN
    BY <1>3 DEF SearchFact, FInv, FactTypeOK
  <2>2. TasksTyped' /\ HandInv' /\ SeenInv'
    <3>1. inserts' \in Nat /\ inserts' >= inserts
      BY <1>1 DEF FInv, FactTypeOK
    <3> QED
      BY <1>1, <2>1, <3>1, NextFactKeeps
  <2>3. \A u \in Tasks : /\ taskStored'[u] = taskStored[u]
                         /\ taskStored[u] => taskConv'[u] = taskConv[u]
    BY <2>1 DEF NextFact, EndTask, FInv, FactTypeOK
  <2>4. BoundInv'
    BY <1>1, <2>3 DEF FInv, BoundInv, Storing, Of
  <2>5. IdleInv'
    BY <1>1, <2>1 DEF NextFact, EndTask, FInv, FactTypeOK, IdleInv
  <2> QED
    BY <1>1, <1>2, <2>2, <2>4, <2>5 DEF FInv, FactTypeOK, TasksTyped
<1>4. CASE ~Similar(Head(taskTodo[t]), taskConv[t], taskKeyed[t])
  <2>1. /\ taskStep' = [taskStep EXCEPT ![t] = "insert"]
        /\ taskSaw' = [taskSaw EXCEPT ![t] = inserts]
        /\ UNCHANGED <<taskConv, taskKeyed, taskTodo, taskStored>>
    BY <1>4 DEF SearchFact
  <2>2. FactTypeOK'
    BY <1>1, <2>1 DEF FInv, FactTypeOK, TaskSteps
  <2>3. HandInv' /\ IdleInv'
    BY <1>1, <2>1 DEF FInv, FactTypeOK, HandInv, IdleInv
  <2>4. SeenInv'
    BY <1>1, <1>4, <2>1 DEF FInv, FactTypeOK, SeenInv, Similar
  <2>5. BoundInv'
    BY <1>1, <2>1 DEF FInv, BoundInv, Storing, Of
  <2> QED
    BY <1>2, <2>2, <2>3, <2>4, <2>5 DEF FInv
<1> QED
  BY <1>3, <1>4

\* Once a task ends, or drops the rows behind the first ones, the bound holds
\* for the conversations that are not untrimmed.
LEMMA EndTaskBounds ==
    ASSUME FInv, NEW t \in Tasks, EndTask(t), facts' \subseteq facts, inserts' = inserts,
           NEW conv, conv = taskConv[t], untrimmed \ {conv} \subseteq untrimmed',
           (taskStored[t] \/ conv \in untrimmed) /\ conv \notin untrimmed'
               => Cardinality(Of(conv)') <= MaxFacts
    PROVE  BoundInv' /\ IdleInv'
<1>1. IdleInv'
  BY DEF EndTask, FInv, FactTypeOK, IdleInv
<1>2. \A u \in Tasks \ {t} : taskConv'[u] = taskConv[u] /\ taskStored'[u] = taskStored[u]
  BY DEF EndTask, FInv, FactTypeOK
<1>3. ASSUME NEW c \in Conversations \ untrimmed'
      PROVE  Storing(c)' \/ Cardinality(Of(c)') <= MaxFacts
  <2>1. /\ Cardinality(Of(c)) \in Nat /\ Cardinality(Of(c)') \in Nat
        /\ Cardinality(Of(c)') <= Cardinality(Of(c)) /\ MaxFacts \in Nat
    BY RowsGo, FactAssumption DEF FactAssumption
  <2>2. CASE taskConv[t] = c /\ taskStored[t]
    BY <2>2, <1>3
  <2>3. CASE ~(taskConv[t] = c /\ taskStored[t])
    <3>1. Storing(c) => Storing(c)'
      BY <1>2, <2>3, StoringKept
    <3>2. c \notin untrimmed \/ taskConv[t] = c
      BY <1>3
    <3> QED
      BY <2>1, <3>1, <3>2 DEF FInv, BoundInv
  <2> QED
    BY <2>2, <2>3
<1> QED
  BY <1>1, <1>3 DEF BoundInv

LEMMA FailStep == ASSUME NEW t \in Tasks PROVE FInv /\ FailEmbedding(t) => FInv'
<1> SUFFICES ASSUME FInv, FailEmbedding(t) PROVE FInv'
  OBVIOUS
<1>1. /\ taskStep[t] = "search" /\ EndTask(t) /\ UNCHANGED <<facts, inserts, purges>>
      /\ untrimmed' = IF taskStored[t] THEN untrimmed \cup {taskConv[t]} ELSE untrimmed
  BY DEF FailEmbedding
<1>2. TasksTyped' /\ HandInv' /\ SeenInv' /\ RowsInv' /\ DuplicatesOnlyFromRaces'
  BY <1>1, EndTaskKeeps, RowsGo
<1>3. untrimmed' \subseteq Conversations
  BY <1>1 DEF FInv, FactTypeOK, HandInv
<1>4. BoundInv' /\ IdleInv'
  BY <1>1, EndTaskBounds
<1> QED
  BY <1>1, <1>2, <1>3, <1>4 DEF FInv, FactTypeOK, TasksTyped

LEMMA InsertStep == ASSUME NEW t \in Tasks PROVE FInv /\ InsertFact(t) => FInv'
<1> SUFFICES ASSUME FInv, InsertFact(t) PROVE FInv'
  OBVIOUS
<1>1. taskStep[t] = "insert" /\ UNCHANGED <<untrimmed, purges>>
  BY DEF InsertFact
<1>2. inserts \in Nat /\ taskTodo[t] \in Seq(Facts) /\ taskTodo[t] # <<>> /\ taskConv[t] \in Conversations
  BY <1>1 DEF FInv, FactTypeOK, HandInv
<1>3. \A u \in Tasks \ {t} : taskConv'[u] = taskConv[u] /\ taskStored'[u] = taskStored[u]
  BY DEF InsertFact, NextFact, EndTask, FInv, FactTypeOK
<1> DEFINE row == [conv |-> taskConv[t], fact |-> Head(taskTodo[t]), keyed |-> taskKeyed[t],
                   at |-> inserts, checked |-> taskSaw[t]]
<1>4. CASE inserts' = inserts + 1 /\ facts' = facts \cup {row} /\ NextFact(t, TRUE)
  <2>1. TasksTyped' /\ HandInv' /\ SeenInv'
    <3>1. /\ \A q \in facts' \ facts : q.at = inserts
          /\ inserts' \in Nat /\ inserts' >= inserts /\ TRUE \in BOOLEAN
          /\ taskStep[t] \in {"search", "insert"}
      BY <1>1, <1>2, <1>4
    <3> QED
      BY <1>1, <1>2, <1>4, <3>1, NextFactKeeps
  <2>2. row \in FactRows
    BY <1>2 DEF FInv, FactTypeOK, FactRows
  <2>3. RowsInv'
    <3>1. IsFiniteSet(facts')
      BY <1>4, FS_AddElement DEF FInv, RowsInv
    <3>2. \A q \in facts : q.at \in Nat /\ q.at < inserts
      BY DEF FInv, RowsInv, FactTypeOK, FactRows
    <3> QED
      BY <1>2, <1>4, <3>1, <3>2 DEF FInv, RowsInv
  <2>4. DuplicatesOnlyFromRaces'
    <3> SUFFICES ASSUME NEW q \in facts', NEW r \in facts',
                        q.at < r.at, q.fact = r.fact, InScope(q, r.conv, r.keyed)
                 PROVE  r.checked <= q.at
      BY DEF DuplicatesOnlyFromRaces
    <3>1. \A p \in facts : p.at \in Nat /\ p.at < inserts
      BY DEF FInv, RowsInv, FactTypeOK, FactRows
    <3>2. q # row
      BY <1>2, <1>4, <3>1
    <3>3. CASE r = row
      BY <1>1, <1>4, <3>2, <3>3 DEF FInv, SeenInv
    <3>4. CASE r # row
      BY <1>4, <3>2, <3>4 DEF FInv, DuplicatesOnlyFromRaces
    <3> QED
      BY <3>3, <3>4
  <2>5. taskStored'[t] /\ taskConv'[t] = taskConv[t] /\ IdleInv'
    BY <1>4 DEF NextFact, FInv, FactTypeOK, IdleInv
  <2>6. BoundInv'
    <3> SUFFICES ASSUME NEW c \in Conversations \ untrimmed
                 PROVE  Storing(c)' \/ Cardinality(Of(c)') <= MaxFacts
      BY <1>1 DEF BoundInv
    <3>1. CASE c = taskConv[t]
      BY <2>5, <3>1 DEF Storing
    <3>2. CASE c # taskConv[t]
      <4>1. Of(c)' = Of(c)
        BY <1>4, <3>2 DEF Of
      <4>2. Storing(c) => Storing(c)'
        BY <1>3, <3>2, StoringKept
      <4> QED
        BY <4>1, <4>2 DEF FInv, BoundInv
    <3> QED
      BY <3>1, <3>2
  <2> QED
    BY <1>1, <1>2, <1>4, <2>1, <2>2, <2>3, <2>4, <2>5, <2>6 DEF FInv, FactTypeOK, TasksTyped
<1>5. CASE NextFact(t, taskStored[t]) /\ UNCHANGED <<facts, inserts>>
  <2>1. TasksTyped' /\ HandInv' /\ SeenInv' /\ RowsInv' /\ DuplicatesOnlyFromRaces'
    <3>1. taskStored[t] \in BOOLEAN
      BY DEF FInv, FactTypeOK
    <3> QED
      BY <1>1, <1>2, <1>5, <3>1, NextFactKeeps, RowsGo
  <2>2. \A u \in Tasks : /\ taskStored'[u] = taskStored[u]
                         /\ taskStored[u] => taskConv'[u] = taskConv[u]
    BY <1>5 DEF NextFact, EndTask, FInv, FactTypeOK
  <2>3. BoundInv'
    BY <1>1, <1>5, <2>2 DEF FInv, BoundInv, Storing, Of
  <2>4. IdleInv'
    BY <1>5 DEF NextFact, EndTask, FInv, FactTypeOK, IdleInv
  <2> QED
    BY <1>1, <1>5, <2>1, <2>3, <2>4 DEF FInv, FactTypeOK, TasksTyped
<1> QED
  BY <1>4, <1>5 DEF InsertFact

LEMMA TrimStep == ASSUME NEW t \in Tasks PROVE FInv /\ TrimFacts(t) => FInv'
<1> SUFFICES ASSUME FInv, TrimFacts(t) PROVE FInv'
  OBVIOUS
<1> DEFINE conv == taskConv[t]
<1>1. taskStep[t] = "trim" /\ EndTask(t) /\ UNCHANGED <<inserts, purges>>
      /\ \/ facts' = facts \ Evicted(conv) /\ untrimmed' = untrimmed \ {conv}
         \/ UNCHANGED facts /\ untrimmed' = untrimmed \cup {conv}
  BY DEF TrimFacts
<1>2. facts' \subseteq facts /\ untrimmed' \subseteq Conversations
  BY <1>1 DEF FInv, FactTypeOK, HandInv
<1>3. TasksTyped' /\ HandInv' /\ SeenInv' /\ RowsInv' /\ DuplicatesOnlyFromRaces'
  BY <1>1, <1>2, EndTaskKeeps, RowsGo
<1>4. facts' = facts \ Evicted(conv) => Cardinality({r \in facts' : r.conv = conv}) <= MaxFacts
  <2> DEFINE S == Of(conv)
  <2>1. /\ IsFiniteSet(S) /\ MaxFacts \in Nat \ {0}
        /\ \A r \in S : r.at \in Nat
        /\ \A q, r \in S : q.at = r.at => q = r
    BY FS_Subset, FactAssumption DEF FactAssumption, FInv, RowsInv, FactTypeOK, FactRows, Of
  <2>2. Cardinality({r \in S : ~(Cardinality({q \in S : q.at < r.at}) >= MaxFacts)}) <= MaxFacts
    <3> HIDE DEF S
    <3> QED
      BY <2>1, FirstOnes
  <2>3. {r \in facts \ Evicted(conv) : r.conv = conv}
           = {r \in S : ~(Cardinality({q \in S : q.at < r.at}) >= MaxFacts)}
    BY DEF Evicted, Of
  <2> QED
    BY <2>2, <2>3
<1>5. BoundInv' /\ IdleInv'
  <2>1. untrimmed \ {conv} \subseteq untrimmed'
    BY <1>1
  <2>2. conv \notin untrimmed' => Cardinality({r \in facts' : r.conv = conv}) <= MaxFacts
    BY <1>1, <1>4
  <2>3. \E c : c = conv
    OBVIOUS
  <2>4. PICK c : c = conv
    BY <2>3
  <2>5. c \notin untrimmed' => Cardinality(Of(c)') <= MaxFacts
    BY <2>2, <2>4 DEF Of
  <2> QED
    BY <1>1, <1>2, <2>1, <2>4, <2>5, EndTaskBounds
<1> QED
  BY <1>1, <1>2, <1>3, <1>5 DEF FInv, FactTypeOK, TasksTyped

LEMMA PurgeStep == FInv /\ (ResetFacts \/ PruneFacts \/ UNCHANGED factVars) => FInv'
<1> SUFFICES ASSUME FInv, ResetFacts \/ PruneFacts \/ UNCHANGED factVars PROVE FInv'
  OBVIOUS
<1>1. /\ facts' \subseteq facts /\ UNCHANGED <<taskVars, untrimmed, inserts>>
      /\ purges' \in Nat
  BY DEF ResetFacts, PruneFacts, factVars, FInv, FactTypeOK
<1>2. RowsInv' /\ DuplicatesOnlyFromRaces'
  BY <1>1, RowsGo
<1>3. FactTypeOK' /\ HandInv' /\ SeenInv' /\ IdleInv'
  BY <1>1 DEF taskVars, FInv, FactTypeOK, HandInv, SeenInv, IdleInv
<1>4. BoundInv'
  <2> SUFFICES ASSUME NEW c \in Conversations \ untrimmed
               PROVE  Storing(c)' \/ Cardinality(Of(c)') <= MaxFacts
    BY <1>1 DEF BoundInv
  <2>1. /\ Cardinality(Of(c)) \in Nat /\ Cardinality(Of(c)') \in Nat
        /\ Cardinality(Of(c)') <= Cardinality(Of(c)) /\ MaxFacts \in Nat
    BY <1>1, RowsGo, FactAssumption DEF FactAssumption
  <2>2. Storing(c) => Storing(c)'
    BY <1>1 DEF Storing, taskVars
  <2> QED
    BY <2>1, <2>2 DEF FInv, BoundInv
<1> QED
  BY <1>2, <1>3, <1>4 DEF FInv

LEMMA FInvInvariant == FactSpec => []FInv
<1>1. FInv /\ [FactNext]_factVars => FInv'
  BY ExtractStep, SearchStep, FailStep, InsertStep, TrimStep, PurgeStep DEF FactNext
<1> QED
  BY FInitInv, <1>1, PTL DEF FactSpec

\* The facts and the tasks that store them keep their types.
THEOREM FactTypeCorrect == FactSpec => []FactTypeOK
<1>1. FInv => FactTypeOK
  BY DEF FInv
<1> QED
  BY <1>1, FInvInvariant, PTL

\* A fact is twice in one scope only when the later one was checked before the
\* earlier one was there, and a conversation whose tasks have stored nothing
\* untrimmed keeps no more than MaxFacts, for any number of tasks and facts.
THEOREM FactsHold == FactSpec => []FactsOnceAndBounded
<1>1. FInv => FactsOnceAndBounded
  <2> SUFFICES ASSUME FInv PROVE CapacityRestored
    BY DEF FInv, FactsOnceAndBounded
  <2> QED
    BY DEF FInv, BoundInv, CapacityRestored, Storing
<1> QED
  BY FInvInvariant, <1>1, PTL

-----------------------------------------------------------------------------
(* The events of a question. *)

\* The list of a question the history vouches for: an event's place is its
\* number among its stream's, every stream's events are there, and what the
\* client shows and is being sent is the beginning of the list.
Listed ==
    \A i \in DOMAIN sseBuffer : sseBuffer[i].place = CountOf(sseBuffer[i].stream, sseBuffer, i)
Counted ==
    \A s \in StreamIds : streamState[s] # "over" =>
        sent[s] = CountOf(s, sseBuffer, Len(sseBuffer))
Prefix ==
    /\ Len(shown) + Len(wire) <= Len(sseBuffer)
    /\ \A i \in DOMAIN shown : shown[i] = sseBuffer[i]
    /\ \A i \in DOMAIN wire : wire[i] = sseBuffer[Len(shown) + i]
    /\ reads # 0 => Len(shown) + Len(wire) = Len(sseBuffer)
ClientInv ==
    /\ client \in {"idle", "broken"} => wire = <<>>
    /\ client # "reading" => reads = 0
    /\ reads <= streams
StreamInv ==
    \A s \in StreamIds :
      /\ (streamState[s] = "none" <=> s > streams)
      /\ streamState[s] = "none" => sent[s] = 0 /\ ~pastError[s]
      /\ streamState[s] # "over" => sent[s] <= MaxEvents + 1
      /\ streamState[s] # "over" /\ ~pastError[s] => sent[s] <= MaxEvents
BreaksInv == client = "broken" => breaks < MaxBreaks
RInv == ResTypeOK /\ BreaksInv /\ ClientInv /\ StreamInv /\ (own => Listed /\ Counted /\ Prefix)

\* Counting in a sequence that grows at its end.
LEMMA CountFacts ==
    ASSUME NEW S, NEW events \in Seq(S), NEW s
    PROVE  /\ CountOf(s, events, 0) = 0
           /\ \A n \in Nat : CountOf(s, events, n) \in Nat
           /\ \A e \in S :
                 /\ \A n \in 0 .. Len(events) :
                       CountOf(s, Append(events, e), n) = CountOf(s, events, n)
                 /\ CountOf(s, Append(events, e), Len(events) + 1)
                       = CountOf(s, events, Len(events)) + (IF e.stream = s THEN 1 ELSE 0)
<1> DEFINE At(q, n) == {k \in 1 .. n : q[k].stream = s}
<1>1. At(events, 0) = {}
  OBVIOUS
<1>2. \A q, n : n \in Nat => IsFiniteSet(At(q, n)) /\ Cardinality(At(q, n)) \in Nat
  <2> TAKE q, n
  <2>1. n \in Nat => IsFiniteSet(1 .. n)
    BY FS_Interval
  <2> QED
    BY <2>1, FS_Subset, FS_CardinalityType
<1>3. ASSUME NEW e \in S
      PROVE  /\ \A n \in 0 .. Len(events) : At(Append(events, e), n) = At(events, n)
             /\ At(Append(events, e), Len(events) + 1)
                   = At(events, Len(events)) \cup (IF e.stream = s THEN {Len(events) + 1} ELSE {})
             /\ Len(events) + 1 \notin At(events, Len(events)) /\ Len(events) \in Nat
  <2>1. /\ Len(events) \in Nat /\ \A k \in 1 .. Len(events) : Append(events, e)[k] = events[k]
        /\ Append(events, e)[Len(events) + 1] = e
    OBVIOUS
  <2> QED
    BY <2>1
<1>4. ASSUME NEW e \in S
      PROVE  Cardinality(At(Append(events, e), Len(events) + 1))
                = Cardinality(At(events, Len(events))) + (IF e.stream = s THEN 1 ELSE 0)
  <2>1. IsFiniteSet(At(events, Len(events))) /\ Cardinality(At(events, Len(events))) \in Nat
    BY <1>2, <1>3
  <2>2. CASE e.stream = s
    <3>1. Cardinality(At(events, Len(events)) \cup {Len(events) + 1})
             = Cardinality(At(events, Len(events))) + 1
      BY <1>3, <2>1, FS_AddElement
    <3> QED
      BY <1>3, <2>2, <3>1
  <2>3. CASE e.stream # s
    <3>1. At(Append(events, e), Len(events) + 1) = At(events, Len(events))
      BY <1>3, <2>3
    <3>2. ASSUME NEW c \in Nat PROVE c = c + (IF e.stream = s THEN 1 ELSE 0)
      BY <2>3
    <3> QED
      BY <2>1, <3>1, <3>2
  <2> QED
    BY <2>2, <2>3
<1>5. Cardinality({}) = 0
  BY FS_EmptySet
<1>6. \A q, n : CountOf(s, q, n) = Cardinality(At(q, n))
  BY DEF CountOf
<1> HIDE DEF At
<1>7. CountOf(s, events, 0) = 0
  BY <1>1, <1>5, <1>6
<1>8. \A n \in Nat : CountOf(s, events, n) \in Nat
  BY <1>2, <1>6
<1>9. ASSUME NEW e \in S
      PROVE  /\ \A n \in 0 .. Len(events) :
                    CountOf(s, Append(events, e), n) = CountOf(s, events, n)
             /\ CountOf(s, Append(events, e), Len(events) + 1)
                    = CountOf(s, events, Len(events)) + (IF e.stream = s THEN 1 ELSE 0)
  BY <1>3, <1>4, <1>6
<1> QED
  BY <1>7, <1>8, <1>9

-----------------------------------------------------------------------------
LEMMA RInitInv == ResInit => RInv
<1> SUFFICES ASSUME ResInit PROVE RInv
  OBVIOUS
<1>1. <<>> \in Seq(SseEvents) /\ Len(<<>>) = 0
  OBVIOUS
<1>7. /\ MaxStreams \in Nat /\ MaxEvents \in Nat /\ MaxBuffer \in Nat /\ MaxBreaks \in Nat
  BY ResumeAssumption DEF ResumeAssumption
<1>8. /\ [s \in StreamIds |-> "none"] \in [StreamIds -> {"none", "open", "busy", "over"}]
      /\ [s \in StreamIds |-> 0] \in [StreamIds -> 0 .. MaxEvents + 2]
      /\ [s \in StreamIds |-> FALSE] \in [StreamIds -> BOOLEAN]
  BY <1>7
<1>2. ResTypeOK
  <2>1. <<>> \in Seq(SseEvents) /\ Len(<<>>) <= MaxBuffer
    BY <1>1, <1>7
  <2>2. 0 \in 0 .. MaxStreams /\ 0 \in 0 .. MaxBreaks
    BY <1>7
  <2> QED
    BY <1>8, <2>1, <2>2 DEF ResInit, ResTypeOK
<1>5. BreaksInv /\ ClientInv
  BY ResumeAssumption DEF ResInit, BreaksInv, ClientInv, ResumeAssumption
<1>6. StreamInv
  BY ResumeAssumption DEF ResInit, StreamInv, ResumeAssumption, StreamIds
<1>3. Listed /\ Prefix
  BY <1>1 DEF ResInit, Listed, Prefix
<1>4. Counted
  BY <1>1, CountFacts DEF ResInit, Counted
<1> QED
  BY <1>2, <1>3, <1>4, <1>5, <1>6 DEF RInv

\* The list and the streams decide what is listed and counted.
LEMMA ListKept ==
    ASSUME RInv, UNCHANGED <<sseBuffer, sent>>,
           \A s \in StreamIds : streamState'[s] # "over" => streamState[s] # "over"
    PROVE  own => Listed' /\ Counted'
BY DEF RInv, Listed, Counted, CountOf

LEMMA AskStep == RInv /\ AskQuestion => RInv'
<1> SUFFICES ASSUME RInv, AskQuestion PROVE RInv'
  OBVIOUS
<1>1. /\ client = "idle" /\ client' = "asking" /\ shown' = <<>> /\ breaks' = 0
      /\ sawEnd' = FALSE /\ UNCHANGED <<sseBuffer, streams, streamState, sent, pastError, reads, wire>>
      /\ own' \in BOOLEAN
      /\ own' => sseBuffer = <<>> /\ \A s \in StreamIds : streamState[s] \in {"none", "over"}
  BY DEF AskQuestion, streamVars
<1>2. ResTypeOK'
  <2>1. <<>> \in Seq(SseEvents) /\ 0 \in 0 .. MaxBreaks
    BY ResumeAssumption DEF ResumeAssumption
  <2> QED
    BY <1>1, <2>1 DEF RInv, ResTypeOK
<1>3. BreaksInv' /\ ClientInv'
  BY <1>1 DEF RInv, BreaksInv, ClientInv
<1>4. StreamInv'
  BY <1>1 DEF RInv, StreamInv
<1>5. ASSUME own' PROVE Listed' /\ Counted' /\ Prefix'
  <2>1. sseBuffer' = <<>> /\ wire' = <<>> /\ Len(<<>>) = 0 /\ <<>> \in Seq(SseEvents)
        /\ reads' = 0
    BY <1>1, <1>5 DEF RInv, ClientInv
  <2>2. Listed' /\ Prefix'
    BY <1>1, <2>1 DEF Listed, Prefix
  <2>3. Counted'
    <3>1. ASSUME NEW s \in StreamIds, streamState'[s] # "over" PROVE sent'[s] = 0
      BY <1>1, <1>5, <3>1 DEF RInv, StreamInv
    <3> QED
      BY <2>1, <3>1, CountFacts DEF Counted
  <2> QED
    BY <2>2, <2>3
<1> QED
  BY <1>2, <1>3, <1>4, <1>5 DEF RInv

LEMMA ReadStep == RInv /\ ReadEvent => RInv'
<1> SUFFICES ASSUME RInv, ReadEvent PROVE RInv'
  OBVIOUS
<1>1. /\ client \in {"asking", "reading"} /\ wire # <<>>
      /\ shown' = Append(shown, Head(wire)) /\ wire' = Tail(wire)
      /\ sawEnd' = (sawEnd \/ Head(wire).type # "text")
      /\ UNCHANGED <<sseBuffer, streams, streamState, sent, pastError, client, breaks, reads, own>>
  BY DEF ReadEvent, streamVars
<1>2. wire \in Seq(SseEvents) /\ shown \in Seq(SseEvents)
  BY DEF RInv, ResTypeOK
<1>3. /\ Head(wire) \in SseEvents /\ Head(wire) = wire[1] /\ Tail(wire) \in Seq(SseEvents)
      /\ Len(wire) \in Nat /\ Len(wire) > 0 /\ Len(Tail(wire)) = Len(wire) - 1
      /\ \A i \in 1 .. Len(wire) - 1 : Tail(wire)[i] = wire[i + 1]
  BY <1>1, <1>2
<1>4. /\ shown' \in Seq(SseEvents) /\ Len(shown) \in Nat /\ Len(shown') = Len(shown) + 1
      /\ shown'[Len(shown) + 1] = wire[1]
      /\ \A i \in 1 .. Len(shown) : shown'[i] = shown[i]
  BY <1>1, <1>2, <1>3
<1>5. ResTypeOK' /\ BreaksInv' /\ ClientInv' /\ StreamInv'
  BY <1>1, <1>3, <1>4 DEF RInv, ResTypeOK, BreaksInv, ClientInv, StreamInv
<1>6. ASSUME own' PROVE Listed' /\ Counted' /\ Prefix'
  <2>1. Listed' /\ Counted'
    BY <1>1, <1>6, ListKept
  <2>2. Prefix
    BY <1>1, <1>6 DEF RInv
  <2>3. DOMAIN shown = 1 .. Len(shown) /\ DOMAIN shown' = 1 .. Len(shown) + 1
        /\ DOMAIN wire = 1 .. Len(wire) /\ DOMAIN wire' = 1 .. Len(wire) - 1
    BY <1>1, <1>2, <1>3, <1>4
  <2>4. \A i \in DOMAIN shown' : shown'[i] = sseBuffer[i]
    BY <2>2, <2>3, <1>3, <1>4 DEF Prefix
  <2>5. ASSUME NEW i \in DOMAIN wire' PROVE wire'[i] = sseBuffer[Len(shown') + i]
    <3>1. i + 1 \in DOMAIN wire /\ wire'[i] = wire[i + 1] /\ i \in Nat
      BY <1>1, <1>3, <2>3
    <3>2. wire[i + 1] = sseBuffer[Len(shown) + (i + 1)]
      BY <3>1, <2>2 DEF Prefix
    <3>3. Len(shown) + (i + 1) = Len(shown') + i
      BY <3>1, <1>4
    <3> QED
      BY <3>1, <3>2, <3>3
  <2>6. Len(shown') + Len(wire') = Len(shown) + Len(wire)
    BY <1>1, <1>3, <1>4
  <2> QED
    BY <1>1, <2>1, <2>2, <2>4, <2>5, <2>6 DEF Prefix
<1> QED
  BY <1>5, <1>6 DEF RInv

\* The client stops reading: what was on its way is lost.
LEMMA StopStep == RInv /\ (FinishReading \/ BreakConnection) => RInv'
<1> SUFFICES ASSUME RInv, FinishReading \/ BreakConnection PROVE RInv'
  OBVIOUS
<1>1. /\ wire' = <<>> /\ reads' = 0 /\ client' \in {"idle", "broken"}
      /\ client' = "broken" => breaks < MaxBreaks
      /\ UNCHANGED <<sseBuffer, streams, streamState, sent, pastError, breaks, sawEnd, shown, own>>
  BY DEF FinishReading, BreakConnection, streamVars
<1>2. <<>> \in Seq(SseEvents) /\ Len(<<>>) = 0
  OBVIOUS
<1>3. ResTypeOK' /\ BreaksInv' /\ ClientInv' /\ StreamInv'
  BY <1>1, <1>2, ResumeAssumption DEF RInv, ResTypeOK, BreaksInv, ClientInv, StreamInv, ResumeAssumption
<1>4. ASSUME own' PROVE Prefix'
  <2>1. Len(shown) \in Nat /\ Len(wire) \in Nat /\ Len(sseBuffer) \in Nat
    BY DEF RInv, ResTypeOK
  <2> QED
    BY <1>1, <1>2, <1>4, <2>1 DEF RInv, Prefix
<1>5. own' => Listed' /\ Counted'
  BY <1>1, ListKept
<1> QED
  BY <1>3, <1>4, <1>5 DEF RInv

LEMMA ReconnectStep == RInv /\ Reconnect => RInv'
<1> SUFFICES ASSUME RInv, Reconnect PROVE RInv'
  OBVIOUS
<1> DEFINE n == Len(shown)
           m == Len(sseBuffer)
<1>1. /\ client = "broken" /\ client' = "asking" /\ breaks' = breaks + 1
      /\ UNCHANGED <<sseBuffer, streams, streamState, sent, pastError, reads, sawEnd, shown>>
  BY DEF Reconnect, streamVars
<1>2. n \in Nat /\ m \in Nat /\ sseBuffer \in Seq(SseEvents)
  BY DEF RInv, ResTypeOK
<1>5. breaks' \in 0 .. MaxBreaks
  BY <1>1, ResumeAssumption DEF RInv, ResTypeOK, BreaksInv, ResumeAssumption
<1>6. ASSUME wire' \in Seq(SseEvents), own' \in BOOLEAN
      PROVE  ResTypeOK' /\ BreaksInv' /\ ClientInv' /\ StreamInv'
  <2>1. ResTypeOK'
    BY <1>1, <1>5, <1>6 DEF RInv, ResTypeOK
  <2>2. BreaksInv' /\ ClientInv'
    BY <1>1 DEF RInv, BreaksInv, ClientInv
  <2>3. StreamInv'
    BY <1>1 DEF RInv, StreamInv
  <2> QED
    BY <2>1, <2>2, <2>3
<1>7. own \in BOOLEAN /\ <<>> \in Seq(SseEvents)
  BY DEF RInv, ResTypeOK
<1>3. CASE wire' = <<>> /\ own' = FALSE
  BY <1>3, <1>6, <1>7 DEF RInv
<1>4. CASE wire' = Unconsumed(n) /\ own' = own
  <2>1. CASE n = 0
    <3>1. wire' = <<>> /\ <<>> \in Seq(SseEvents) /\ Len(<<>>) = 0
      BY <1>4, <2>1 DEF Unconsumed
    <3>2. ResTypeOK' /\ BreaksInv' /\ ClientInv' /\ StreamInv'
      BY <1>4, <1>6, <1>7, <3>1
    <3>3. own' => Listed' /\ Counted'
      BY <1>1, <1>4, ListKept
    <3>4. own' => Prefix'
      BY <1>1, <1>2, <1>4, <2>1, <3>1 DEF RInv, Prefix, ClientInv
    <3> QED
      BY <3>2, <3>3, <3>4 DEF RInv
  <2>2. CASE n > 0
    <3>1. wire' = SubSeq(sseBuffer, n + 1, m)
      BY <1>4, <2>2 DEF Unconsumed
    <3>2. /\ wire' \in Seq(SseEvents)
          /\ n <= m => Len(wire') = m - n /\ \A i \in 1 .. m - n : wire'[i] = sseBuffer[n + i]
      BY <3>1, <1>2
    <3>3. ResTypeOK' /\ BreaksInv' /\ ClientInv' /\ StreamInv'
      BY <1>4, <1>6, <1>7, <3>2
    <3>4. own' => Listed' /\ Counted'
      BY <1>1, <1>4, ListKept
    <3>5. ASSUME own' PROVE Prefix'
      <4>1. Prefix /\ n <= m /\ reads = 0
        <5>1. Prefix /\ reads = 0 /\ wire = <<>>
          BY <1>1, <1>4, <3>5 DEF RInv, ClientInv
        <5>2. Len(<<>>) = 0
          OBVIOUS
        <5> QED
          BY <5>1, <5>2, <1>2 DEF Prefix
      <4>2. n + Len(wire') = m
        BY <3>2, <4>1, <1>2
      <4>3. \A i \in DOMAIN wire' : wire'[i] = sseBuffer[n + i]
        BY <3>2, <4>1
      <4> QED
        BY <1>1, <1>2, <4>1, <4>2, <4>3 DEF Prefix
    <3> QED
      BY <3>3, <3>4, <3>5 DEF RInv
  <2> QED
    BY <1>2, <2>1, <2>2
<1> QED
  BY <1>3, <1>4 DEF Reconnect

LEMMA ServerStep == RInv /\ (BeginStream \/ EndReplay) => RInv'
<1> SUFFICES ASSUME RInv, BeginStream \/ EndReplay PROVE RInv'
  OBVIOUS
<1>1. CASE BeginStream
  <2>1. /\ client = "asking" /\ client' = "reading" /\ streams < MaxStreams
        /\ streams' = streams + 1 /\ reads' = streams + 1
        /\ streamState' = [streamState EXCEPT ![streams + 1] =
              IF \E s \in StreamIds : streamState[s] = "open" THEN "busy" ELSE "open"]
        /\ own' \in BOOLEAN /\ (own' => own /\ Len(sseBuffer) = Len(shown) + Len(wire))
        /\ UNCHANGED <<sseBuffer, sent, pastError, breaks, sawEnd, wire, shown>>
    BY <1>1 DEF BeginStream, RInv, ResTypeOK
  <2>2. streams \in Nat /\ MaxStreams \in Nat /\ streams + 1 \in StreamIds
        /\ streamState[streams + 1] = "none"
        /\ streamState \in [StreamIds -> {"none", "open", "busy", "over"}]
    <3>1. streams \in Nat /\ MaxStreams \in Nat /\ streams + 1 \in StreamIds
      BY <2>1, ResumeAssumption DEF RInv, ResTypeOK, ResumeAssumption, StreamIds
    <3> QED
      BY <3>1 DEF RInv, ResTypeOK, StreamInv
  <2>3. /\ streamState' \in [StreamIds -> {"none", "open", "busy", "over"}]
        /\ streamState'[streams + 1] \in {"open", "busy"}
        /\ \A s \in StreamIds : s # streams + 1 => streamState'[s] = streamState[s]
    BY <2>1, <2>2
  <2>4. ResTypeOK'
    BY <2>1, <2>2, <2>3 DEF RInv, ResTypeOK
  <2>5. BreaksInv' /\ ClientInv'
    BY <2>1, <2>2 DEF RInv, BreaksInv, ClientInv
  <2>6. StreamInv'
    <3>1. ASSUME NEW s \in StreamIds PROVE s \in Nat /\ (s > streams + 1 <=> s > streams /\ s # streams + 1)
      BY <2>2 DEF StreamIds
    <3> QED
      BY <2>1, <2>2, <2>3, <3>1 DEF RInv, StreamInv
  <2>7. ASSUME own' PROVE Listed' /\ Counted' /\ Prefix'
    <3>1. own /\ Len(sseBuffer) = Len(shown) + Len(wire)
      BY <2>1, <2>7
    <3>2. \A s \in StreamIds : streamState'[s] # "over" => streamState[s] # "over"
      BY <2>2, <2>3
    <3> QED
      BY <2>1, <3>1, <3>2, ListKept DEF RInv, Prefix
  <2> QED
    BY <2>4, <2>5, <2>6, <2>7 DEF RInv
<1>2. CASE EndReplay
  <2>1. /\ client = "asking" /\ client' = "reading"
        /\ UNCHANGED <<sseBuffer, streams, streamState, sent, pastError, breaks, reads, sawEnd, wire, shown, own>>
    BY <1>2 DEF EndReplay, streamVars
  <2>2. ResTypeOK' /\ BreaksInv' /\ ClientInv' /\ StreamInv'
    BY <2>1 DEF RInv, ResTypeOK, BreaksInv, ClientInv, StreamInv
  <2>3. own' => Listed' /\ Counted' /\ Prefix'
    BY <2>1, ListKept DEF RInv, Prefix
  <2> QED
    BY <2>2, <2>3 DEF RInv
<1> QED
  BY <1>1, <1>2

\* A stream that is closed, a list that expires.
LEMMA EndStreamStep == RInv /\ (ExpireBuffer \/ \E s \in StreamIds : CloseStream(s)) => RInv'
<1>1. ASSUME RInv, ExpireBuffer PROVE RInv'
  <2>1. sseBuffer' = <<>> /\ <<>> \in Seq(SseEvents) /\ Len(<<>>) <= MaxBuffer /\ own' = FALSE
    BY <1>1, ResumeAssumption DEF ExpireBuffer, ResumeAssumption
  <2> QED
    BY <1>1, <2>1 DEF ExpireBuffer, RInv, ResTypeOK, BreaksInv, ClientInv, StreamInv, streamVars, clientVars
<1>2. ASSUME RInv, NEW s \in StreamIds, CloseStream(s) PROVE RInv'
  <2>1. /\ streamState[s] \in {"open", "busy"}
        /\ streamState' = [streamState EXCEPT ![s] = "over"]
        /\ UNCHANGED <<sseBuffer, streams, sent, pastError, client, breaks, reads, sawEnd, wire, shown, own>>
    BY <1>2 DEF CloseStream, clientVars
  <2>2. streamState \in [StreamIds -> {"none", "open", "busy", "over"}]
    BY <1>2 DEF RInv, ResTypeOK
  <2>3. /\ streamState' \in [StreamIds -> {"none", "open", "busy", "over"}]
        /\ streamState'[s] = "over"
        /\ \A t \in StreamIds : t # s => streamState'[t] = streamState[t]
    BY <2>1, <2>2
  <2>4. ResTypeOK' /\ BreaksInv' /\ ClientInv'
    BY <1>2, <2>1, <2>3 DEF RInv, ResTypeOK, BreaksInv, ClientInv
  <2>5. StreamInv'
    BY <1>2, <2>1, <2>3 DEF RInv, StreamInv
  <2>6. own' => Listed' /\ Counted' /\ Prefix'
    BY <1>2, <2>1, <2>3, ListKept DEF RInv, Prefix
  <2> QED
    BY <2>4, <2>5, <2>6 DEF RInv
<1> QED
  BY <1>1, <1>2

\* One event of a stream that is not over: the type facts, and what is listed
\* while no event is trimmed away and the client reads this stream or none.
LEMMA AppendStep ==
    ASSUME RInv, NEW s \in StreamIds, NEW type \in {"text", "error", "done"},
           AppendAndSend(s, type), streamState[s] \in {"open", "busy"},
           sent[s] <= MaxEvents + 1,
           UNCHANGED <<streams, client, breaks, reads, sawEnd, shown>>,
           \A t \in StreamIds : streamState'[t] # "over" => streamState[t] # "over"
    PROVE  /\ sseBuffer' \in Seq(SseEvents) /\ Len(sseBuffer') <= MaxBuffer
           /\ wire' \in Seq(SseEvents) /\ own' \in BOOLEAN
           /\ sent' \in [StreamIds -> 0 .. MaxEvents + 2]
           /\ sent'[s] = sent[s] + 1 /\ \A t \in StreamIds : t # s => sent'[t] = sent[t]
           /\ client' \in {"idle", "broken"} => wire' = <<>>
           /\ own' => Listed' /\ Counted' /\ Prefix'
<1> DEFINE e == [stream |-> s, place |-> sent[s] + 1, type |-> type]
           n == Len(sseBuffer)
<1>0. /\ sseBuffer \in Seq(SseEvents) /\ wire \in Seq(SseEvents) /\ shown \in Seq(SseEvents)
      /\ n \in Nat /\ n <= MaxBuffer /\ sent \in [StreamIds -> 0 .. MaxEvents + 2]
      /\ Len(wire) \in Nat /\ Len(shown) \in Nat /\ own \in BOOLEAN /\ sent[s] \in Nat
  BY DEF RInv, ResTypeOK
<1>c. MaxEvents \in Nat /\ MaxBuffer \in Nat /\ MaxBuffer > 0 /\ 0 \notin StreamIds
  BY ResumeAssumption DEF ResumeAssumption, StreamIds
<1>1. e \in SseEvents /\ e.stream = s /\ e.place = sent[s] + 1
  BY <1>0, <1>c DEF SseEvents
<1>2. /\ sent' = [sent EXCEPT ![s] = @ + 1]
      /\ wire' = IF reads = s THEN Append(wire, e) ELSE wire
      /\ \/ sseBuffer' = KeepLast(Append(sseBuffer, e))
            /\ own' = (own /\ n < MaxBuffer /\ reads \in {0, s})
         \/ sseBuffer' = sseBuffer /\ own' = FALSE
  BY DEF AppendAndSend
<1>3. sent' \in [StreamIds -> 0 .. MaxEvents + 2]
      /\ sent'[s] = sent[s] + 1 /\ \A t \in StreamIds : t # s => sent'[t] = sent[t]
  BY <1>0, <1>2, <1>c
<1> HIDE DEF e
<1>4. LET q == Append(sseBuffer, e)
      IN  /\ q \in Seq(SseEvents) /\ Len(q) = n + 1 /\ q[n + 1] = e
          /\ \A i \in 1 .. n : q[i] = sseBuffer[i]
  BY <1>0, <1>1
<1>5. KeepLast(Append(sseBuffer, e)) \in Seq(SseEvents)
      /\ Len(KeepLast(Append(sseBuffer, e))) <= MaxBuffer
  <2>1. CASE n + 1 > MaxBuffer
    <3>1. KeepLast(Append(sseBuffer, e))
             = SubSeq(Append(sseBuffer, e), (n + 1) - MaxBuffer + 1, n + 1)
      BY <1>4, <2>1 DEF KeepLast
    <3>2. (n + 1) - MaxBuffer + 1 = 2 /\ n = MaxBuffer
      BY <1>0, <1>c, <2>1
    <3>3. ASSUME NEW q \in Seq(SseEvents), Len(q) = n + 1
          PROVE  SubSeq(q, 2, n + 1) \in Seq(SseEvents) /\ Len(SubSeq(q, 2, n + 1)) = n
      BY <1>0, <3>3
    <3> QED
      <4>1. Append(sseBuffer, e) \in Seq(SseEvents) /\ Len(Append(sseBuffer, e)) = n + 1
        BY <1>4
      <4>2. SubSeq(Append(sseBuffer, e), 2, n + 1) \in Seq(SseEvents)
            /\ Len(SubSeq(Append(sseBuffer, e), 2, n + 1)) = n
        BY <3>3, <4>1
      <4>3. KeepLast(Append(sseBuffer, e)) = SubSeq(Append(sseBuffer, e), 2, n + 1)
        BY <3>1, <3>2
      <4> QED
        BY <1>0, <4>2, <4>3
  <2>2. CASE ~(n + 1 > MaxBuffer)
    BY <1>0, <1>c, <1>4, <2>2 DEF KeepLast
  <2> QED
    BY <2>1, <2>2
<1>6. wire' \in Seq(SseEvents)
  BY <1>0, <1>1, <1>2
<1>7. client' \in {"idle", "broken"} => wire' = <<>>
  BY <1>2, <1>c DEF RInv, ClientInv
<1>8. sseBuffer' \in Seq(SseEvents) /\ Len(sseBuffer') <= MaxBuffer /\ own' \in BOOLEAN
  BY <1>0, <1>2, <1>5
<1>9. ASSUME own' PROVE Listed' /\ Counted' /\ Prefix'
  <2>1. own /\ n < MaxBuffer /\ reads \in {0, s} /\ sseBuffer' = KeepLast(Append(sseBuffer, e))
    BY <1>2, <1>9
  <2>2. sseBuffer' = Append(sseBuffer, e)
    BY <1>0, <1>c, <1>4, <2>1 DEF KeepLast
  <2>3. Listed /\ Counted /\ Prefix
    BY <2>1 DEF RInv
  <2>4. ASSUME NEW t
        PROVE  /\ \A i \in 0 .. n : CountOf(t, sseBuffer', i) = CountOf(t, sseBuffer, i)
               /\ CountOf(t, sseBuffer', n + 1)
                     = CountOf(t, sseBuffer, n) + (IF e.stream = t THEN 1 ELSE 0)
               /\ CountOf(t, sseBuffer, n) \in Nat
    <3>1. /\ \A i \in 0 .. n : CountOf(t, Append(sseBuffer, e), i) = CountOf(t, sseBuffer, i)
          /\ CountOf(t, Append(sseBuffer, e), n + 1)
                = CountOf(t, sseBuffer, n) + (IF e.stream = t THEN 1 ELSE 0)
      BY <1>0, <1>1, CountFacts
    <3>2. CountOf(t, sseBuffer, n) \in Nat
      BY <1>0, CountFacts
    <3> QED
      BY <2>2, <3>1, <3>2
  <2>5. /\ Len(sseBuffer') = n + 1 /\ sseBuffer'[n + 1] = e
        /\ DOMAIN sseBuffer' = 1 .. n + 1 /\ DOMAIN sseBuffer = 1 .. n
        /\ \A i \in 1 .. n : sseBuffer'[i] = sseBuffer[i]
    BY <1>0, <1>4, <1>8, <2>2
  <2>6. sent[s] = CountOf(s, sseBuffer, n)
    BY <2>3 DEF Counted
  <2>7. Listed'
    <3> SUFFICES ASSUME NEW i \in DOMAIN sseBuffer'
                 PROVE  sseBuffer'[i].place = CountOf(sseBuffer'[i].stream, sseBuffer', i)
      BY DEF Listed
    <3>1. CASE i = n + 1
      BY <1>1, <2>4, <2>5, <2>6, <3>1
    <3>2. CASE i # n + 1
      <4>1. i \in DOMAIN sseBuffer /\ i \in 0 .. n /\ sseBuffer'[i] = sseBuffer[i]
        BY <1>0, <2>5, <3>2
      <4>2. sseBuffer[i].place = CountOf(sseBuffer[i].stream, sseBuffer, i)
        BY <2>3, <4>1 DEF Listed
      <4>3. CountOf(sseBuffer[i].stream, sseBuffer', i) = CountOf(sseBuffer[i].stream, sseBuffer, i)
        BY <2>4, <4>1
      <4> QED
        BY <4>1, <4>2, <4>3
    <3> QED
      BY <3>1, <3>2
  <2>8. Counted'
    <3> SUFFICES ASSUME NEW t \in StreamIds, streamState'[t] # "over"
                 PROVE  sent'[t] = CountOf(t, sseBuffer', Len(sseBuffer'))
      BY DEF Counted
    <3>1. sent[t] = CountOf(t, sseBuffer, n)
      BY <2>3 DEF Counted
    <3>2. CASE t = s
      BY <1>1, <1>3, <2>4, <2>5, <2>6, <3>2
    <3>3. CASE t # s
      BY <1>1, <1>3, <2>4, <2>5, <3>1, <3>3
    <3> QED
      BY <3>2, <3>3
  <2>9. Prefix'
    <3>1. DOMAIN shown \subseteq 1 .. n /\ \A i \in DOMAIN shown : shown[i] = sseBuffer'[i]
      <4>1. DOMAIN shown = 1 .. Len(shown) /\ Len(shown) <= n
        BY <1>0, <2>3 DEF Prefix
      <4>2. DOMAIN shown \subseteq 1 .. n
        BY <1>0, <4>1
      <4>3. \A i \in DOMAIN shown : shown[i] = sseBuffer[i]
        BY <2>3 DEF Prefix
      <4> QED
        BY <2>5, <4>2, <4>3
    <3>2. CASE reads = 0
      <4>1. wire' = wire
        BY <1>2, <1>c, <3>2
      <4>2. ASSUME NEW i \in DOMAIN wire PROVE wire[i] = sseBuffer'[Len(shown) + i]
        <5>1. Len(shown) + i \in 1 .. n
          BY <1>0, <2>3 DEF Prefix
        <5> QED
          BY <2>3, <2>5, <5>1 DEF Prefix
      <4>3. Len(shown) + Len(wire) <= Len(sseBuffer')
        <5>1. Len(shown) + Len(wire) <= n
          BY <2>3 DEF Prefix
        <5> QED
          BY <1>0, <2>5, <5>1
      <4> QED
        BY <3>1, <3>2, <4>1, <4>2, <4>3 DEF Prefix
    <3>3. CASE reads = s
      <4>1. /\ wire' = Append(wire, e) /\ Len(wire') = Len(wire) + 1
            /\ DOMAIN wire' = 1 .. Len(wire) + 1 /\ wire'[Len(wire) + 1] = e
            /\ \A i \in 1 .. Len(wire) : wire'[i] = wire[i]
        BY <1>0, <1>1, <1>2, <3>3
      <4>2. Len(shown) + Len(wire) = n
        BY <1>c, <2>3, <3>3 DEF Prefix
      <4>3. ASSUME NEW i \in DOMAIN wire' PROVE wire'[i] = sseBuffer'[Len(shown) + i]
        <5>1. CASE i = Len(wire) + 1
          <6>1. Len(shown) + i = n + 1
            BY <1>0, <4>2, <5>1
          <6> QED
            BY <2>5, <4>1, <5>1, <6>1
        <5>2. CASE i # Len(wire) + 1
          <6>1. i \in DOMAIN wire /\ i \in 1 .. Len(wire) /\ Len(shown) + i \in 1 .. n
            BY <1>0, <4>1, <4>2, <5>2
          <6> QED
            BY <2>3, <2>5, <4>1, <6>1 DEF Prefix
        <5> QED
          BY <5>1, <5>2
      <4>4. Len(shown) + Len(wire') = Len(sseBuffer')
        BY <1>0, <2>5, <4>1, <4>2
      <4> QED
        BY <1>8, <2>5, <3>1, <4>3, <4>4 DEF Prefix
    <3> QED
      BY <2>1, <3>2, <3>3
  <2> QED
    BY <2>7, <2>8, <2>9
<1> QED
  BY <1>3, <1>6, <1>7, <1>8, <1>9

\* What the three events make of the rest of the state.
LEMMA SendStep ==
    ASSUME RInv, NEW s \in StreamIds, SendText(s) \/ SendError(s) \/ SendDone(s)
    PROVE  RInv'
<1>0. /\ streamState \in [StreamIds -> {"none", "open", "busy", "over"}]
      /\ sent \in [StreamIds -> 0 .. MaxEvents + 2] /\ MaxEvents \in Nat
      /\ pastError \in [StreamIds -> BOOLEAN]
      /\ UNCHANGED <<streams, client, breaks, reads, sawEnd, shown>>
  BY ResumeAssumption DEF RInv, ResTypeOK, SendText, SendError, SendDone, ResumeAssumption
<1>1. /\ streamState[s] \in {"open", "busy"}
      /\ sent[s] <= MaxEvents + 1
      /\ \E type \in {"text", "error", "done"} : AppendAndSend(s, type)
      /\ \A t \in StreamIds : t # s => streamState'[t] = streamState[t] /\ pastError'[t] = pastError[t]
      /\ streamState' \in [StreamIds -> {"none", "open", "busy", "over"}]
      /\ pastError' \in [StreamIds -> BOOLEAN]
      /\ streamState'[s] \in {streamState[s], "over"}
      /\ streamState'[s] # "over" =>
            \/ sent[s] + 1 <= MaxEvents
            \/ sent[s] <= MaxEvents /\ pastError'[s]
  <2>1. CASE SendText(s)
    BY <1>0, <2>1 DEF SendText
  <2>2. CASE SendError(s)
    BY <1>0, <2>2 DEF SendError, RInv, StreamInv
  <2>3. CASE SendDone(s)
    BY <1>0, <2>3 DEF SendDone, RInv, StreamInv
  <2> QED
    BY <2>1, <2>2, <2>3
<1>2. /\ sseBuffer' \in Seq(SseEvents) /\ Len(sseBuffer') <= MaxBuffer
      /\ wire' \in Seq(SseEvents) /\ own' \in BOOLEAN
      /\ sent' \in [StreamIds -> 0 .. MaxEvents + 2]
      /\ sent'[s] = sent[s] + 1 /\ \A t \in StreamIds : t # s => sent'[t] = sent[t]
      /\ client' \in {"idle", "broken"} => wire' = <<>>
      /\ own' => Listed' /\ Counted' /\ Prefix'
  <2>1. PICK type \in {"text", "error", "done"} : AppendAndSend(s, type)
    BY <1>1
  <2>2. \A t \in StreamIds : streamState'[t] # "over" => streamState[t] # "over"
    BY <1>1
  <2> QED
    BY <1>0, <1>1, <2>1, <2>2, AppendStep
<1>3. ResTypeOK'
  BY <1>0, <1>1, <1>2 DEF RInv, ResTypeOK
<1>4. BreaksInv' /\ ClientInv'
  BY <1>0, <1>2 DEF RInv, BreaksInv, ClientInv
<1>5. StreamInv'
  <2> SUFFICES ASSUME NEW t \in StreamIds
               PROVE  /\ (streamState'[t] = "none" <=> t > streams')
                      /\ streamState'[t] = "none" => sent'[t] = 0 /\ ~pastError'[t]
                      /\ streamState'[t] # "over" => sent'[t] <= MaxEvents + 1
                      /\ streamState'[t] # "over" /\ ~pastError'[t] => sent'[t] <= MaxEvents
    BY DEF StreamInv
  <2>1. CASE t # s
    BY <1>0, <1>1, <1>2, <2>1 DEF RInv, StreamInv
  <2>2. CASE t = s
    <3>1. streamState'[s] # "none" /\ ~(s > streams')
      BY <1>0, <1>1 DEF RInv, StreamInv
    <3>2. sent[s] \in Nat
      BY <1>0
    <3> QED
      BY <1>0, <1>1, <1>2, <2>2, <3>1, <3>2
  <2> QED
    BY <2>1, <2>2
<1> QED
  BY <1>2, <1>3, <1>4, <1>5 DEF RInv

LEMMA RInvInvariant == ResSpec => []RInv
<1>1. ASSUME RInv, UNCHANGED resVars PROVE RInv'
  BY <1>1 DEF RInv, ResTypeOK, BreaksInv, ClientInv, StreamInv, Listed, Counted, Prefix, CountOf,
     resVars, streamVars, clientVars
<1>2. RInv /\ [ResNext]_resVars => RInv'
  BY <1>1, AskStep, ReadStep, StopStep, ReconnectStep, ServerStep, EndStreamStep, SendStep DEF ResNext
<1> QED
  BY <1>2, RInitInv, PTL DEF ResSpec

\* The list, the streams and the client keep their types: the list never
\* grows past its limit.
THEOREM ResTypeCorrect == ResSpec => []ResTypeOK
<1>1. RInv => ResTypeOK
  BY DEF RInv
<1> QED
  BY <1>1, RInvInvariant, PTL

\* What a client shows has neither a gap nor a repetition as long as the list
\* holds its question alone, whatever the bounds on streams, events, breaks and
\* the length of the list.
THEOREM ShownInOrder == ResSpec => []ShownWithoutGapOrRepeat
<1>1. RInv => ShownWithoutGapOrRepeat
  <2> SUFFICES ASSUME RInv, own, NEW i \in DOMAIN shown
               PROVE  shown[i].place = CountOf(shown[i].stream, shown, i)
    BY DEF ShownWithoutGapOrRepeat
  <2>1. /\ Len(shown) \in Nat /\ DOMAIN shown = 1 .. Len(shown)
        /\ Len(sseBuffer) \in Nat /\ DOMAIN sseBuffer = 1 .. Len(sseBuffer) /\ Len(wire) \in Nat
    BY DEF RInv, ResTypeOK
  <2>5. Len(shown) + Len(wire) <= Len(sseBuffer) /\ \A k \in DOMAIN shown : shown[k] = sseBuffer[k]
    BY DEF RInv, Prefix
  <2>2. i \in DOMAIN sseBuffer /\ \A k \in 1 .. i : shown[k] = sseBuffer[k]
    BY <2>1, <2>5
  <2>3. i \in 1 .. i /\ shown[i] = sseBuffer[i]
    BY <2>1, <2>2
  <2>4. \A s : CountOf(s, shown, i) = CountOf(s, sseBuffer, i)
    BY <2>2 DEF CountOf
  <2> QED
    BY <2>2, <2>3, <2>4 DEF RInv, Listed
<1> QED
  BY <1>1, RInvInvariant, PTL
-----------------------------------------------------------------------------
(* The components in one run. *)

\* A run of one component, with the others at rest, is a run of each.
LEMMA ComponentsBehave == SuiteSpec =>
    /\ MemSpec /\ FactSpec /\ TitleSpec /\ AnsSpec /\ AgentSpec
    /\ RetSpec /\ OrchSpec /\ ResSpec /\ CacheSpec /\ BatchSpec
<1>1. SuiteInit => /\ MemInit /\ FactInit /\ TitleInit /\ AnsInit /\ AgentInit
                   /\ RetInit /\ OrchInit /\ ResInit /\ CacheInit /\ BatchInit
  BY DEF SuiteInit
<1>2. [SuiteNext]_suiteVars =>
          /\ [MemNext]_memVars /\ [FactNext]_factVars /\ [TitleNext]_titleVars
          /\ [AnsNext]_ansVars /\ [AgentNext]_agentVars /\ [RetNext]_retVars
          /\ [OrchNext]_orchVars /\ [ResNext]_resVars /\ [CacheNext]_cacheVars
          /\ [BatchNext]_batchVars
  BY DEF SuiteNext, suiteVars, CompressMemory, RememberFacts, NameSession,
         AnswerTurn, RunAgents, GatherEvidence,
         PlanQuestion, ServeStream, CacheAnswers, BatchJobs
<1> QED
  BY <1>1, <1>2, PTL DEF SuiteSpec, MemSpec, FactSpec, TitleSpec, AnsSpec, AgentSpec,
         RetSpec, OrchSpec, ResSpec, CacheSpec, BatchSpec

\* In every state of the composed run the columns, fields and locals of every
\* component have their types.
THEOREM SuiteTypeCorrect == SuiteSpec => []SuiteTypeOK
<1> DEFINE OneOfThem == component \in Components
<1>1. SuiteSpec => []OneOfThem
  <2>1. SuiteInit => OneOfThem
    BY DEF SuiteInit
  <2>2. OneOfThem /\ [SuiteNext]_suiteVars => OneOfThem'
    BY DEF SuiteNext, suiteVars, Components, CompressMemory, RememberFacts, NameSession,
         AnswerTurn, RunAgents, GatherEvidence,
         PlanQuestion, ServeStream, CacheAnswers, BatchJobs
  <2> QED
    BY <2>1, <2>2, PTL DEF SuiteSpec
<1> QED
  BY <1>1, ComponentsBehave, MemTypeCorrect, FactTypeCorrect, TitleTypeCorrect,
     AnsTypeCorrect, AgentTypeCorrect, RetTypeCorrect, OrchTypeCorrect, ResTypeCorrect,
     CacheTypeCorrect, BatchTypeCorrect, PTL DEF SuiteTypeOK
=============================================================================
