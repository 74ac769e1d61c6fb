---------------------------- MODULE ExecutorProofs ----------------------------
(***************************************************************************)
(* Theorems about the two executors of a plan, for any values of their     *)
(* constants.                                                              *)
(*                                                                         *)
(* RagAnswer, for drafts of any length and any number of review rounds:    *)
(* the generator and the loop hold the same text apart from the events     *)
(* that are on their way, and DInv says what they differ by, for each step *)
(* of the generator and each queue of events.                              *)
(*                                                                         *)
(* MultiAgent, for any finite set of sub-plans, any rounds and token       *)
(* counts: the validator and the executor sort the sub-plans by two        *)
(* different loops.  What the first has visited is founded (some sub-plan  *)
(* of any lot of them waits for none of the lot), and what is founded the  *)
(* second cannot leave without a layer.                                    *)
(***************************************************************************)
EXTENDS RagAnswer, MultiAgent, FiniteSetTheorems, TLAPS

-----------------------------------------------------------------------------
(* The answer from one retrieval. *)

Drafting == {"draft", "filter", "review"}
Tailing == {"tail", "verify", "await", "serial"}

Clear == Event("clear")
Review == Event("review")
Result == Event("result")
BlockedError == Emit("error", Blocked)

\* A draft is blocked, or an exception was met: the turn will fail.
Failing ==
    \/ ansFailed
    \/ ansEvents \in {<<Clear, BlockedError>>, <<Clear, BlockedError, Result>>,
                      <<BlockedError>>, <<BlockedError, Result>>}

OneDraft == \A i \in DOMAIN answerBuffer : answerBuffer[i] = reviewRound

\* While a draft is made, both hold it but for the piece on its way.
DraftShared ==
    /\ OneDraft
    /\ \/ ansEvents = <<>> /\ fullAnswer = answerBuffer
       \/ /\ ansStep = "draft"
          /\ ansEvents = <<Emit("text", reviewRound)>>
          /\ answerBuffer = Append(fullAnswer, reviewRound)

\* In the tail the answer is a draft that passed, or the executor's text.
AnswerReady ==
    \/ Failing
    \/ /\ answerBuffer = <<>>
       /\ \/ ansEvents = <<Emit("text", NoEvidence)>> /\ fullAnswer = <<>>
          \/ ansEvents = <<>> /\ fullAnswer = <<NoEvidence>>
    \/ /\ ansEvents \in {<<>>, <<Result>>}
       /\ fullAnswer = answerBuffer /\ OneDraft /\ reviewRound \in safeDrafts

DInv ==
    /\ AnsTypeOK
    /\ (ansEnd # "open") <=> (ansStep = "over")
    /\ ansStep = "retrieve" =>
           ansEvents = <<>> /\ fullAnswer = <<>> /\ answerBuffer = <<>>
    /\ ansStep \in Drafting => DraftShared
    /\ ansStep = "review" => reviewRound \in safeDrafts
    /\ ansStep = "redraft" =>
           \/ ansEvents = <<Review, Clear>>
           \/ ansEvents \in {<<Clear>>, <<>>} /\ fullAnswer = <<>>
    /\ ansStep \in Tailing => AnswerReady
    /\ ansStep = "over" => ansEvents = <<>>
    /\ StoresOneSafeDraft

-----------------------------------------------------------------------------
(* Events and sequences. *)

LEMMA EventFacts ==
    /\ \A x \in Texts : Emit("text", x) \in Events /\ Emit("text", x).type = "text"
                        /\ Emit("text", x).text = x
    /\ {Clear, Review, Result, BlockedError} \subseteq Events
    /\ Clear.type = "clear" /\ Review.type = "review" /\ Result.type = "result"
    /\ BlockedError.type = "error" /\ BlockedError.text = Blocked
    /\ {Note, NoEvidence, Blocked} \subseteq Texts
    /\ \A e \in Events : e.text \in Texts
<1>1. {Note, NoEvidence, Blocked} \subseteq Texts
  BY DEF Texts
<1>2. /\ Clear = [type |-> "clear", text |-> Note] /\ Review = [type |-> "review", text |-> Note]
      /\ Result = [type |-> "result", text |-> Note]
      /\ BlockedError = [type |-> "error", text |-> Blocked]
  BY DEF Clear, Review, Result, BlockedError, Event, Emit
<1>3. {Clear, Review, Result, BlockedError} \subseteq Events
  BY <1>1, <1>2 DEF Events
<1>4. \A x \in Texts : Emit("text", x) \in Events /\ Emit("text", x).type = "text"
                        /\ Emit("text", x).text = x
  BY DEF Emit, Events
<1>5. \A e \in Events : e.text \in Texts
  BY <1>1 DEF Events
<1> QED
  BY <1>1, <1>2, <1>3, <1>4, <1>5

LEMMA ShortQueuesTyped ==
    ASSUME NEW S, NEW a \in S, NEW b \in S, NEW c \in S
    PROVE  <<a>> \in Seq(S) /\ <<a, b>> \in Seq(S) /\ <<a, b, c>> \in Seq(S)
OBVIOUS

LEMMA OneQueued ==
    ASSUME NEW a PROVE Head(<<a>>) = a /\ Tail(<<a>>) = <<>> /\ <<a>> # <<>>
OBVIOUS

LEMMA TwoQueued ==
    ASSUME NEW a, NEW b PROVE Head(<<a, b>>) = a /\ Tail(<<a, b>>) = <<b>>
OBVIOUS

LEMMA ThreeQueued ==
    ASSUME NEW a, NEW b, NEW c PROVE Head(<<a, b, c>>) = a /\ Tail(<<a, b, c>>) = <<b, c>>
OBVIOUS

-----------------------------------------------------------------------------
(* Types. *)

LEMMA AnsInitTyped == AnsInit => AnsTypeOK
<1>1. 0 \in 0 .. MaxReviews
  BY AnswerAssumption DEF AnswerAssumption
<1>2. <<>> \in Seq(Events) /\ <<>> \in Seq(Texts)
  OBVIOUS
<1> QED
  BY <1>1, <1>2 DEF AnsInit, AnsTypeOK, Steps

LEMMA CancelTyped ==
    ASSUME AnsTypeOK, CancelCitation
    PROVE  /\ citation' \in {"none", "running", "done", "error", "cancelled"}
           /\ citationBase' \in Seq(Texts) /\ citationRef' \in BOOLEAN
           /\ citationLate' \in BOOLEAN /\ citation' # "running"
BY DEF AnsTypeOK, CancelCitation

LEMMA FinalizeTyped ==
    ASSUME AnsTypeOK, Finalize
    PROVE  /\ citation' \in {"none", "running", "done", "error", "cancelled"}
           /\ citationBase' \in Seq(Texts) /\ citationRef' \in BOOLEAN
           /\ citationLate' \in BOOLEAN /\ finalized' \in BOOLEAN
<1>1. CASE finalized
  BY <1>1 DEF AnsTypeOK, Finalize, citeVars
<1>2. CASE ~finalized
  BY <1>2, CancelTyped DEF Finalize
<1> QED
  BY <1>1, <1>2

LEMMA StartTyped ==
    ASSUME AnsTypeOK, NEW answer \in Seq(Texts), StartCitation(answer)
    PROVE  /\ citation' \in {"none", "running", "done", "error", "cancelled"}
           /\ citationBase' \in Seq(Texts) /\ citationRef' \in BOOLEAN
           /\ citationLate' \in BOOLEAN
BY DEF AnsTypeOK, StartCitation, citeVars

LEMMA AnsTypeStep == AnsTypeOK /\ [AnsNext]_ansVars => AnsTypeOK'
<1> SUFFICES ASSUME AnsTypeOK, [AnsNext]_ansVars PROVE AnsTypeOK'
  OBVIOUS
<1> USE DEF AnsTypeOK, Steps, citeVars, EndTurn, Runs
<1>0. reviewRound \in Texts /\ reviewRound \in Nat /\ MaxReviews \in Nat
  BY AnswerAssumption DEF AnswerAssumption, Texts
<1>1. CASE RetrieveEvidence
  <2>1. Emit("text", NoEvidence) \in Events
    BY EventFacts
  <2>2. <<Emit("text", NoEvidence)>> \in Seq(Events)
    BY <2>1, ShortQueuesTyped
  <2> QED
    BY <1>1, <2>2 DEF RetrieveEvidence
<1>2. CASE StreamChunk
  BY <1>0, <1>2, EventFacts, ShortQueuesTyped DEF StreamChunk
<1>3. CASE EndDraft
  BY <1>3 DEF EndDraft
<1>4. CASE PassFilter
  BY <1>4, StartTyped DEF PassFilter
<1>5. CASE BlockAnswer
  <2>1. <<Blocked>> \in Seq(Texts)
    BY EventFacts, ShortQueuesTyped
  <2>2. ansEvents' \in Seq(Events)
    <3>1. ansEvents' \in {<<Clear, BlockedError>>, <<Clear, BlockedError, Result>>}
      BY <1>5 DEF BlockAnswer, Clear, BlockedError, Result
    <3>2. Clear \in Events /\ BlockedError \in Events /\ Result \in Events
      BY EventFacts
    <3>3. <<Clear, BlockedError>> \in Seq(Events) /\ <<Clear, BlockedError, Result>> \in Seq(Events)
      BY <3>2, ShortQueuesTyped
    <3> QED
      BY <3>1, <3>3
  <2> QED
    BY <1>5, <2>1, <2>2, StartTyped DEF BlockAnswer
<1>6. CASE AcceptAnswer
  BY <1>6, EventFacts, ShortQueuesTyped DEF AcceptAnswer, Result
<1>7. CASE RejectAnswer
  <2>1. ansEvents' \in Seq(Events)
    BY <1>7, EventFacts, ShortQueuesTyped DEF RejectAnswer, Review, Clear
  <2>2. reviewRound' \in 0 .. MaxReviews
    BY <1>0, <1>7 DEF RejectAnswer
  <2> QED
    BY <1>7, <2>1, <2>2, CancelTyped DEF RejectAnswer
<1>8. CASE BeginRedraft
  BY <1>8 DEF BeginRedraft
<1>9. CASE RaiseError
  BY <1>9, FinalizeTyped DEF RaiseError
<1>10. CASE DeliverEvent
  <2>1. Head(ansEvents) \in Events /\ Tail(ansEvents) \in Seq(Events)
    BY <1>10 DEF DeliverEvent
  <2>2. Head(ansEvents).text \in Texts
    BY <2>1, EventFacts
  <2>3. CASE HandleEvent(Head(ansEvents)) /\ ansEvents' = Tail(ansEvents)
             /\ UNCHANGED <<ansStep, ansEnd, finalized, citeVars>>
    <3>1. fullAnswer' \in Seq(Texts) /\ ansFailed' \in BOOLEAN
      BY <2>2, <2>3, ShortQueuesTyped DEF HandleEvent
    <3> QED
      BY <1>10, <2>1, <2>3, <3>1 DEF DeliverEvent
  <2>4. CASE /\ EndTurn("stopped") /\ CancelCitation /\ finalized' = TRUE
             /\ UNCHANGED <<fullAnswer, ansFailed>>
    BY <1>10, <2>4, CancelTyped DEF DeliverEvent
  <2> QED
    BY <1>10, <2>3, <2>4 DEF DeliverEvent
<1>11. CASE BeginTail
  BY <1>11 DEF BeginTail
<1>12. CASE AwaitCitation
  BY <1>12 DEF AwaitCitation
<1>13. CASE SwallowCancel
  BY <1>13 DEF SwallowCancel
<1>14. CASE FinishAnswer
  <2>1. Append(fullAnswer, Note) \in Seq(Texts)
    BY EventFacts
  <2>2. fullAnswer' \in Seq(Texts)
    BY <1>14, <2>1 DEF FinishAnswer
  <2> QED
    BY <1>14, <2>2, FinalizeTyped DEF FinishAnswer
<1>15. CASE EndCitation
  BY <1>15 DEF EndCitation
<1>16. CASE Halt
  BY <1>16, CancelTyped DEF Halt
<1>17. CASE LoseClient
  <2>1. CASE Finalize /\ UNCHANGED hungUp
    BY <1>17, <2>1, FinalizeTyped DEF LoseClient
  <2>2. CASE hungUp' = TRUE /\ UNCHANGED <<finalized, citeVars>>
    BY <1>17, <2>2 DEF LoseClient
  <2> QED
    BY <1>17, <2>1, <2>2 DEF LoseClient
<1>18. CASE UNCHANGED ansVars
  BY <1>18 DEF ansVars
<1> QED
  BY <1>1, <1>2, <1>3, <1>4, <1>5, <1>6, <1>7, <1>8, <1>9, <1>10, <1>11, <1>12, <1>13,
     <1>14, <1>15, <1>16, <1>17, <1>18 DEF AnsNext

-----------------------------------------------------------------------------
(* The invariant, step by step; the types are AnsTypeStep's. *)

LEMMA DInitInv == AnsInit => DInv
<1> SUFFICES ASSUME AnsInit PROVE DInv
  OBVIOUS
<1>1. ansStep = "retrieve" /\ ansEnd = "open"
  BY DEF AnsInit
<1>2. ansEvents = <<>> /\ fullAnswer = <<>> /\ answerBuffer = <<>>
  BY DEF AnsInit
<1> QED
  BY <1>1, <1>2, AnsInitTyped DEF DInv, Drafting, Tailing, StoresOneSafeDraft

\* A turn that ends otherwise than completed owes nothing.
LEMMA EndsBadly ==
    ASSUME DInv, AnsTypeOK', NEW how \in {"failed", "stopped"}, EndTurn(how)
    PROVE  DInv'
BY DEF DInv, EndTurn, Drafting, Tailing, StoresOneSafeDraft

\* Nothing that DInv looks at changes.
LEMMA DKept ==
    ASSUME DInv, AnsTypeOK',
           UNCHANGED <<ansStep, ansEvents, answerBuffer, fullAnswer, reviewRound,
                       safeDrafts, ansFailed, ansEnd>>
    PROVE  DInv'
BY DEF DInv, DraftShared, AnswerReady, OneDraft, Failing, StoresOneSafeDraft

LEMMA RetrieveStep == DInv /\ AnsTypeOK' /\ RetrieveEvidence => DInv'
<1> SUFFICES ASSUME DInv, AnsTypeOK', RetrieveEvidence PROVE DInv'
  OBVIOUS
<1>1. /\ ansStep = "retrieve" /\ ansEnd = "open"
      /\ UNCHANGED <<answerBuffer, fullAnswer, reviewRound, safeDrafts, ansFailed, ansEnd>>
      /\ fullAnswer = <<>> /\ answerBuffer = <<>> /\ ansEvents = <<>>
  BY DEF DInv, RetrieveEvidence, Runs
<1>2. StoresOneSafeDraft'
  BY <1>1 DEF StoresOneSafeDraft
<1>3. CASE ansStep' = "draft" /\ UNCHANGED ansEvents
  <2>1. DraftShared'
    BY <1>1, <1>3 DEF DraftShared, OneDraft
  <2> QED
    BY <1>1, <1>2, <1>3, <2>1 DEF DInv, Drafting, Tailing
<1>4. CASE ansStep' = "tail" /\ ansEvents' = <<Emit("text", NoEvidence)>>
  <2>1. AnswerReady'
    BY <1>1, <1>4 DEF AnswerReady
  <2> QED
    BY <1>1, <1>2, <1>4, <2>1 DEF DInv, Drafting, Tailing
<1> QED
  BY <1>3, <1>4 DEF RetrieveEvidence

LEMMA ChunkStep == DInv /\ AnsTypeOK' /\ StreamChunk => DInv'
<1> SUFFICES ASSUME DInv, AnsTypeOK', StreamChunk PROVE DInv'
  OBVIOUS
<1>1. /\ ansStep = "draft" /\ ansEnd = "open" /\ ansEvents = <<>>
      /\ UNCHANGED <<ansStep, fullAnswer, reviewRound, safeDrafts, ansFailed, ansEnd>>
      /\ answerBuffer' = Append(answerBuffer, reviewRound)
      /\ ansEvents' = <<Emit("text", reviewRound)>>
  BY DEF DInv, StreamChunk, Runs
<1>2. OneDraft /\ fullAnswer = answerBuffer
  BY <1>1, OneQueued DEF DInv, DraftShared, Drafting
<1>3. OneDraft'
  BY <1>1, <1>2 DEF OneDraft, DInv, AnsTypeOK
<1>4. DraftShared'
  BY <1>1, <1>2, <1>3 DEF DraftShared
<1> QED
  BY <1>1, <1>4 DEF DInv, Drafting, Tailing, StoresOneSafeDraft

\* From the end of a draft to the verdict of the review, or past it.
LEMMA DraftEndStep ==
    DInv /\ AnsTypeOK' /\ (EndDraft \/ PassFilter \/ AcceptAnswer) => DInv'
<1> SUFFICES ASSUME DInv, AnsTypeOK', EndDraft \/ PassFilter \/ AcceptAnswer PROVE DInv'
  OBVIOUS
<1>1. /\ ansStep \in Drafting /\ ansEnd = "open" /\ ansEvents = <<>>
      /\ UNCHANGED <<answerBuffer, fullAnswer, reviewRound, ansFailed, ansEnd>>
  BY DEF DInv, EndDraft, PassFilter, AcceptAnswer, Runs, Drafting
<1>2. OneDraft /\ fullAnswer = answerBuffer
  BY <1>1, OneQueued DEF DInv, DraftShared
<1>3. OneDraft' /\ StoresOneSafeDraft'
  BY <1>1, <1>2 DEF OneDraft, StoresOneSafeDraft
<1>4. \/ ansStep' = "filter" /\ ansEvents' = <<>>
      \/ ansStep' = "review" /\ ansEvents' = <<>> /\ reviewRound' \in safeDrafts'
      \/ ansStep' = "tail" /\ ansEvents' \in {<<>>, <<Result>>} /\ reviewRound' \in safeDrafts'
  <2>1. CASE EndDraft
    BY <1>1, <2>1 DEF EndDraft
  <2>2. CASE PassFilter
    BY <1>1, <2>2 DEF PassFilter
  <2>3. CASE AcceptAnswer
    BY <1>1, <2>3 DEF AcceptAnswer, DInv, Runs, Result
  <2> QED
    BY <2>1, <2>2, <2>3
<1>5. CASE ansStep' = "filter" /\ ansEvents' = <<>>
  <2>1. DraftShared'
    BY <1>1, <1>2, <1>3, <1>5 DEF DraftShared
  <2> QED
    BY <1>1, <1>3, <1>5, <2>1 DEF DInv, Drafting, Tailing
<1>6. CASE ansStep' = "review" /\ ansEvents' = <<>> /\ reviewRound' \in safeDrafts'
  <2>1. DraftShared'
    BY <1>1, <1>2, <1>3, <1>6 DEF DraftShared
  <2> QED
    BY <1>1, <1>3, <1>6, <2>1 DEF DInv, Drafting, Tailing
<1>7. CASE ansStep' = "tail" /\ ansEvents' \in {<<>>, <<Result>>} /\ reviewRound' \in safeDrafts'
  <2>1. AnswerReady'
    BY <1>1, <1>2, <1>3, <1>7 DEF AnswerReady, Result, Event
  <2> QED
    BY <1>1, <1>3, <1>7, <2>1 DEF DInv, Drafting, Tailing
<1> QED
  BY <1>4, <1>5, <1>6, <1>7

LEMMA BlockStep == DInv /\ AnsTypeOK' /\ BlockAnswer => DInv'
<1> SUFFICES ASSUME DInv, AnsTypeOK', BlockAnswer PROVE DInv'
  OBVIOUS
<1>1. /\ ansStep' = "tail" /\ ansEnd' = ansEnd /\ ansEnd = "open"
      /\ ansEvents' \in {<<Clear, BlockedError>>, <<Clear, BlockedError, Result>>}
  BY DEF DInv, BlockAnswer, Runs, Clear, BlockedError, Result
<1>2. AnswerReady'
  <2>1. Failing'
    BY <1>1 DEF Failing, Clear, BlockedError, Result, Event, Emit
  <2> QED
    BY <2>1 DEF AnswerReady
<1> QED
  BY <1>1, <1>2 DEF DInv, Drafting, Tailing, StoresOneSafeDraft

LEMMA RedraftStep == DInv /\ AnsTypeOK' /\ (RejectAnswer \/ BeginRedraft) => DInv'
<1> SUFFICES ASSUME DInv, AnsTypeOK', RejectAnswer \/ BeginRedraft PROVE DInv'
  OBVIOUS
<1>1. CASE RejectAnswer
  <2>1. /\ ansStep' = "redraft" /\ ansEnd' = ansEnd /\ ansEnd = "open"
        /\ ansEvents' = <<Review, Clear>>
    BY <1>1 DEF DInv, RejectAnswer, Runs, Review, Clear
  <2>2. (ansEvents = <<Review, Clear>>)'
    BY <2>1 DEF Review, Clear, Event
  <2> QED
    BY <2>1, <2>2 DEF DInv, Drafting, Tailing, StoresOneSafeDraft
<1>2. CASE BeginRedraft
  <2>1. /\ ansStep = "redraft" /\ ansStep' = "draft" /\ ansEnd' = ansEnd /\ ansEnd = "open"
        /\ ansEvents = <<>> /\ ansEvents' = <<>> /\ answerBuffer' = <<>> /\ fullAnswer' = fullAnswer
    BY <1>2 DEF DInv, BeginRedraft, Runs
  <2>2. <<Review, Clear>> # <<>>
    OBVIOUS
  <2>3. fullAnswer = <<>>
    BY <2>1, <2>2 DEF DInv
  <2>4. DraftShared'
    BY <2>1, <2>3 DEF DraftShared, OneDraft
  <2> QED
    BY <2>1, <2>4 DEF DInv, Drafting, Tailing, StoresOneSafeDraft
<1> QED
  BY <1>1, <1>2

\* An event that is handled brings the answer to what the generator holds.
LEMMA DeliverStep == DInv /\ AnsTypeOK' /\ DeliverEvent => DInv'
<1> SUFFICES ASSUME DInv, AnsTypeOK', DeliverEvent PROVE DInv'
  OBVIOUS
<1>1. CASE EndTurn("stopped")
  BY <1>1, EndsBadly
<1>2. CASE HandleEvent(Head(ansEvents)) /\ ansEvents' = Tail(ansEvents)
           /\ UNCHANGED <<ansStep, ansEnd, citeVars>>
  <2>0. /\ ansEvents # <<>> /\ UNCHANGED <<answerBuffer, reviewRound, safeDrafts>>
        /\ ansStep # "over" /\ ansStep # "retrieve" /\ ansEnd = "open"
    BY DEF DeliverEvent, DInv
  <2>1. (ansEnd # "open") <=> (ansStep = "over")
    BY DEF DInv
  <2>2. StoresOneSafeDraft'
    BY <1>2, <2>0 DEF StoresOneSafeDraft
  <2>3. OneDraft => OneDraft'
    BY <2>0 DEF OneDraft
  <2>4. CASE ansStep \in Drafting
    <3>1. /\ ansStep = "draft" /\ ansEvents = <<Emit("text", reviewRound)>> /\ OneDraft
          /\ answerBuffer = Append(fullAnswer, reviewRound)
      BY <2>0, <2>4 DEF DInv, DraftShared
    <3>2. /\ Head(ansEvents) = Emit("text", reviewRound) /\ ansEvents' = <<>>
      BY <1>2, <3>1, OneQueued
    <3>3. fullAnswer' = answerBuffer
      BY <1>2, <3>1, <3>2 DEF HandleEvent, Emit
    <3>4. DraftShared'
      BY <2>0, <2>3, <3>1, <3>2, <3>3 DEF DraftShared
    <3> QED
      BY <1>2, <2>0, <2>2, <3>1, <3>4 DEF DInv, Drafting, Tailing
  <2>5. CASE ansStep = "redraft"
    <3>1. CASE ansEvents = <<Review, Clear>>
      <4>1. Head(ansEvents) = Review /\ ansEvents' = <<Clear>>
        BY <1>2, <3>1, TwoQueued
      <4>2. fullAnswer' = <<>>
        BY <1>2, <4>1, EventFacts DEF HandleEvent
      <4>3. (ansEvents = <<Clear>>)'
        BY <4>1 DEF Clear, Event
      <4> QED
        BY <1>2, <2>0, <2>2, <2>5, <4>2, <4>3 DEF DInv, Drafting, Tailing
    <3>2. CASE ansEvents = <<Clear>>
      <4>1. Head(ansEvents) = Clear /\ ansEvents' = <<>>
        BY <1>2, <3>2, OneQueued
      <4>2. fullAnswer' = <<>>
        BY <1>2, <4>1, EventFacts DEF HandleEvent
      <4> QED
        BY <1>2, <2>0, <2>2, <2>5, <4>1, <4>2 DEF DInv, Drafting, Tailing
    <3> QED
      BY <2>0, <2>5, <3>1, <3>2 DEF DInv
  <2>6. CASE ansStep \in Tailing
    <3>1. CASE Failing
      <4>0. ansFailed \/ Head(ansEvents).type = "error" => ansFailed'
        BY <1>2, Zenon DEF HandleEvent
      <4>1. Failing'
        <5>1. CASE ansFailed
          BY <4>0, <5>1, Zenon DEF Failing
        <5>2. CASE ansEvents = <<Clear, BlockedError>>
          <6>1. ansEvents' = <<BlockedError>>
            BY <1>2, <5>2, TwoQueued
          <6>2. (ansEvents = <<BlockedError>>)'
            BY <6>1 DEF BlockedError, Emit
          <6> QED
            BY <6>2 DEF Failing
        <5>3. CASE ansEvents = <<Clear, BlockedError, Result>>
          <6>1. ansEvents' = <<BlockedError, Result>>
            BY <1>2, <5>3, ThreeQueued
          <6>2. (ansEvents = <<BlockedError, Result>>)'
            BY <6>1 DEF BlockedError, Emit, Result, Event
          <6> QED
            BY <6>2 DEF Failing
        <5>4. CASE ansEvents \in {<<BlockedError>>, <<BlockedError, Result>>}
          <6>1. Head(ansEvents) = BlockedError
            BY <5>4, OneQueued, TwoQueued
          <6>2. Head(ansEvents).type = "error"
            BY <6>1, EventFacts
          <6> QED
            BY <4>0, <6>2, Zenon DEF Failing
        <5> QED
          BY <3>1, <5>1, <5>2, <5>3, <5>4 DEF Failing
      <4> QED
        BY <1>2, <2>0, <2>2, <2>6, <4>1 DEF DInv, Drafting, Tailing, AnswerReady
    <3>2. CASE /\ answerBuffer = <<>> /\ fullAnswer = <<>>
               /\ ansEvents = <<Emit("text", NoEvidence)>>
      <4>1. Head(ansEvents) = Emit("text", NoEvidence) /\ ansEvents' = <<>>
        BY <1>2, <3>2, OneQueued
      <4>2. fullAnswer' = Append(<<>>, NoEvidence)
        BY <1>2, <3>2, <4>1 DEF HandleEvent, Emit
      <4>3. AnswerReady'
        BY <2>0, <3>2, <4>1, <4>2 DEF AnswerReady
      <4> QED
        BY <1>2, <2>0, <2>2, <2>6, <4>3 DEF DInv, Drafting, Tailing
    <3>3. CASE /\ ansEvents = <<Result>>
               /\ fullAnswer = answerBuffer /\ OneDraft /\ reviewRound \in safeDrafts
      <4>1. Head(ansEvents) = Result /\ ansEvents' = <<>>
        BY <1>2, <3>3, OneQueued
      <4>2. fullAnswer' = fullAnswer
        BY <1>2, <4>1, EventFacts DEF HandleEvent
      <4>3. AnswerReady'
        BY <2>0, <2>3, <3>3, <4>1, <4>2 DEF AnswerReady
      <4> QED
        BY <1>2, <2>0, <2>2, <2>6, <4>3 DEF DInv, Drafting, Tailing
    <3> QED
      BY <2>0, <2>6, <3>1, <3>2, <3>3 DEF DInv, AnswerReady
  <2> QED
    BY <2>0, <2>4, <2>5, <2>6 DEF DInv, AnsTypeOK, Steps, Drafting, Tailing
<1> QED
  BY <1>1, <1>2 DEF DeliverEvent

LEMMA TailStep == DInv /\ AnsTypeOK' /\ (BeginTail \/ AwaitCitation \/ SwallowCancel) => DInv'
<1> SUFFICES ASSUME DInv, AnsTypeOK', BeginTail \/ AwaitCitation \/ SwallowCancel PROVE DInv'
  OBVIOUS
<1>1. /\ ansStep \in Tailing /\ ansStep' \in Tailing /\ ansEnd = "open"
      /\ UNCHANGED <<ansEvents, answerBuffer, fullAnswer, reviewRound, safeDrafts,
                     ansFailed, ansEnd>>
  BY DEF DInv, BeginTail, AwaitCitation, SwallowCancel, Runs, Tailing
<1>2. AnswerReady'
  BY <1>1 DEF DInv, AnswerReady, Failing, OneDraft
<1> QED
  BY <1>1, <1>2 DEF DInv, Drafting, Tailing, StoresOneSafeDraft

LEMMA FinishStep == DInv /\ AnsTypeOK' /\ FinishAnswer => DInv'
<1> SUFFICES ASSUME DInv, AnsTypeOK', FinishAnswer PROVE DInv'
  OBVIOUS
<1>1. CASE ansFailed
  BY <1>1, EndsBadly DEF FinishAnswer
<1>2. CASE ~ansFailed
  <2>1. /\ ansStep \in Tailing /\ ansEvents = <<>>
        /\ ansStep' = "over" /\ ansEnd' = "completed" /\ ansEvents' = <<>>
        /\ fullAnswer' \in {fullAnswer, Append(fullAnswer, Note)}
        /\ UNCHANGED <<answerBuffer, reviewRound, safeDrafts>>
    BY <1>2 DEF FinishAnswer, EndTurn, Tailing
  <2>2. ~Failing
    BY <1>2, <2>1, OneQueued DEF Failing
  <2>3. \/ answerBuffer = <<>> /\ fullAnswer = <<NoEvidence>>
        \/ fullAnswer = answerBuffer /\ OneDraft /\ reviewRound \in safeDrafts
    BY <2>1, <2>2, OneQueued DEF DInv, AnswerReady
  <2>4. OneDraft => ToSet(answerBuffer) \subseteq {reviewRound}
    BY DEF OneDraft, ToSet
  <2>5. fullAnswer' \in {fullAnswer, Append(fullAnswer, Note)} /\ fullAnswer \in {<<NoEvidence>>, answerBuffer}
    BY <2>1, <2>3
  <2>6. StoresOneSafeDraft'
    <3>1. CASE answerBuffer = <<>> /\ fullAnswer = <<NoEvidence>>
      BY <2>1, <3>1 DEF StoresOneSafeDraft
    <3>2. CASE fullAnswer = answerBuffer /\ OneDraft /\ reviewRound \in safeDrafts
      <4>1. answerBuffer # <<NoEvidence>>
        <5> SUFFICES ASSUME answerBuffer = <<NoEvidence>> PROVE FALSE
          OBVIOUS
        <5>1. 1 \in DOMAIN answerBuffer /\ answerBuffer[1] = NoEvidence
          OBVIOUS
        <5>2. reviewRound = NoEvidence /\ reviewRound \in Nat
          BY <3>2, <5>1, AnswerAssumption DEF OneDraft, DInv, AnsTypeOK, AnswerAssumption
        <5> QED
          BY <5>2, AnswerAssumption DEF AnswerAssumption
      <4>2. fullAnswer' \in {answerBuffer, Append(answerBuffer, Note)}
        BY <2>1, <3>2
      <4>3. \E d \in safeDrafts : ToSet(answerBuffer) \subseteq {d}
        BY <2>4, <3>2
      <4> QED
        BY <2>1, <4>1, <4>2, <4>3 DEF StoresOneSafeDraft, ToSet
    <3> QED
      BY <2>3, <3>1, <3>2
  <2> QED
    BY <2>1, <2>6 DEF DInv, Drafting, Tailing
<1> QED
  BY <1>1, <1>2

THEOREM DInvInvariant == AnsSpec => []DInv
<1>1. DInv /\ [AnsNext]_ansVars => DInv'
  <2> SUFFICES ASSUME DInv, [AnsNext]_ansVars PROVE DInv'
    OBVIOUS
  <2>1. AnsTypeOK'
    BY AnsTypeStep DEF DInv
  <2>2. CASE RaiseError \/ LoseClient
    BY <2>1, <2>2, EndsBadly DEF RaiseError, LoseClient
  <2>3. CASE EndCitation \/ Halt \/ UNCHANGED ansVars
    BY <2>1, <2>3, DKept DEF EndCitation, Halt, ansVars
  <2> QED
    BY <2>1, <2>2, <2>3, RetrieveStep, ChunkStep, DraftEndStep, BlockStep, RedraftStep,
       DeliverStep, TailStep, FinishStep DEF AnsNext
<1> QED
  BY <1>1, DInitInv, PTL DEF AnsSpec

-----------------------------------------------------------------------------
(* The theorems. *)

\* Every variable keeps its type.
THEOREM AnsTypeCorrect == AnsSpec => []AnsTypeOK
<1>1. DInv => AnsTypeOK
  BY DEF DInv
<1> QED
  BY <1>1, DInvInvariant, PTL

\* However often an answer is sent, cleared, reviewed and drafted again, a
\* completed turn stores the last draft, whole, and it passed the filter.
THEOREM OneSafeDraftStored == AnsSpec => []StoresOneSafeDraft
<1>1. DInv => StoresOneSafeDraft
  BY DEF DInv
<1> QED
  BY <1>1, DInvInvariant, PTL

\* A task that is finalized has no check left but one that was started after,
\* which only a stop makes possible.
VInv ==
    /\ finalized /\ citation = "running" => citationLate
    /\ ansStep # "over" /\ finalized => halted = "stop"
    /\ citationLate => halted = "stop"
    /\ ansStep = "over" => finalized \/ hungUp

LEMMA VInitInv == AnsInit => VInv
BY DEF AnsInit, VInv

\* Whoever is first to finalize the task cancels the check; the others leave
\* one that was started in between.
LEMMA FinalizeLeavesLate ==
    ASSUME VInv, Finalize
    PROVE  /\ finalized'
           /\ citation' = "running" => citationLate'
           /\ citationLate' = citationLate
<1>1. CASE finalized
  BY <1>1 DEF VInv, Finalize, citeVars
<1>2. CASE ~finalized
  BY <1>2 DEF Finalize, CancelCitation
<1> QED
  BY <1>1, <1>2

LEMMA VStep == VInv /\ [AnsNext]_ansVars => VInv'
<1> SUFFICES ASSUME VInv, [AnsNext]_ansVars PROVE VInv'
  OBVIOUS
<1>1. CASE RetrieveEvidence \/ StreamChunk \/ EndDraft \/ AcceptAnswer
           \/ BeginRedraft \/ BeginTail \/ AwaitCitation
  BY <1>1 DEF VInv, Runs, citeVars, RetrieveEvidence, StreamChunk, EndDraft,
     AcceptAnswer, BeginRedraft, BeginTail, AwaitCitation
<1>2. ASSUME NEW answer, StartCitation(answer), finalized' = finalized,
             ansStep \notin {"over"}, ansStep' # "over", halted' = halted
      PROVE  VInv'
  <2>1. CASE UNCHANGED citeVars
    BY <1>2, <2>1 DEF VInv, citeVars
  <2>2. CASE citationLate' = finalized
    BY <1>2, <2>2 DEF VInv
  <2> QED
    BY <1>2, <2>1, <2>2 DEF StartCitation
<1>3. CASE PassFilter
  BY <1>2, <1>3 DEF PassFilter, Runs
<1>4. CASE BlockAnswer
  BY <1>2, <1>4 DEF BlockAnswer, Runs
<1>5. CASE RejectAnswer \/ SwallowCancel
  BY <1>5 DEF VInv, RejectAnswer, SwallowCancel, CancelCitation, Runs
<1>6. CASE RaiseError \/ FinishAnswer
  <2>1. Finalize /\ ansStep' = "over" /\ halted' = halted
    BY <1>6 DEF RaiseError, FinishAnswer, EndTurn
  <2> QED
    BY <2>1, FinalizeLeavesLate DEF VInv
<1>7. CASE DeliverEvent
  <2>1. CASE UNCHANGED <<ansStep, ansEnd, finalized, citeVars>>
    BY <1>7, <2>1 DEF VInv, citeVars, DeliverEvent
  <2>2. CASE EndTurn("stopped") /\ CancelCitation /\ finalized' = TRUE
    BY <1>7, <2>2 DEF VInv, CancelCitation, EndTurn, DeliverEvent
  <2> QED
    BY <1>7, <2>1, <2>2 DEF DeliverEvent
<1>8. CASE EndCitation
  BY <1>8 DEF VInv, EndCitation
<1>9. CASE Halt
  <2>1. CASE halted' = "stop" /\ CancelCitation
    BY <1>9, <2>1 DEF VInv, Halt, CancelCitation
  <2>2. CASE halted = "no" /\ UNCHANGED <<finalized, citeVars>>
    BY <1>9, <2>2 DEF VInv, Halt, citeVars
  <2> QED
    BY <1>9, <2>1, <2>2 DEF Halt
<1>10. CASE LoseClient
  <2>1. ansStep' = "over" /\ halted' = halted
    BY <1>10 DEF LoseClient, EndTurn
  <2>2. CASE Finalize
    BY <2>1, <2>2, FinalizeLeavesLate DEF VInv
  <2>3. CASE hungUp' = TRUE /\ UNCHANGED <<finalized, citeVars>>
    BY <2>1, <2>3 DEF VInv, citeVars
  <2> QED
    BY <1>10, <2>2, <2>3 DEF LoseClient
<1>11. CASE UNCHANGED ansVars
  BY <1>11 DEF VInv, ansVars
<1> QED
  BY <1>1, <1>3, <1>4, <1>5, <1>6, <1>7, <1>8, <1>9, <1>10, <1>11 DEF AnsNext

\* A citation check survives its turn only where the client closed the stream,
\* or where a stop had used up finalize() before the check was started.
THEOREM VerificationEnds == AnsSpec => []NoVerificationLeftRunning
<1>1. VInv => NoVerificationLeftRunning
  BY DEF VInv, NoVerificationLeftRunning
<1> QED
  BY <1>1, VInitInv, VStep, PTL DEF AnsSpec

-----------------------------------------------------------------------------
(* The agents. *)

Splitting == {"decompose", "validate", "visit", "review"}
Running == {"layer", "gather", "aggregate"}

Dep(i) == subPlans.dependsOn[i]
Planned == Layered(Len(layers))

WellFormed ==
    /\ subPlans.ids # {} /\ ~subPlans.malformed
    /\ \A i \in subPlans.ids : Dep(i) \subseteq subPlans.ids

\* Some sub-plan of any lot of them waits for none of the lot.
Founded(S) == \A U \in SUBSET S : U # {} => \E i \in U : Dep(i) \cap U = {}

\* Until the sub-plans are accepted no worker has run.
NothingRanYet ==
    /\ supStep \in Splitting \cup {"layering"} =>
           worker = [p \in SubPlanIds |-> "none"] /\ layerNo = 0
    /\ supStep \in Splitting =>
           reviewRetries <= MaxReviewRetries /\ layers = <<>>
    /\ supStep # "visit" => visited = {}
    /\ subPlans.unregistered \subseteq subPlans.ids

\* What the validator has visited waits for nothing else, and was visited in
\* an order, so that it is founded.
Visiting ==
    supStep = "visit" =>
        /\ WellFormed
        /\ visited \subseteq subPlans.ids
        /\ planQueue \subseteq subPlans.ids \ visited
        /\ \A i \in visited \cup planQueue : Dep(i) \subseteq visited
        /\ \A i \in subPlans.ids : inDegree[i] = Cardinality(Dep(i) \ visited)
        /\ Founded(visited)

Accepted ==
    supStep \in Running \cup {"review", "layering"} =>
        WellFormed /\ Founded(subPlans.ids)

\* What waits for no more than the layers so far is in them, or in the queue.
Layering ==
    supStep = "layering" =>
        /\ planQueue \subseteq subPlans.ids \ Planned
        /\ \A i \in planQueue : Dep(i) \subseteq Planned
        /\ \A i \in subPlans.ids :
              /\ inDegree[i] = Cardinality(Dep(i) \ Planned)
              /\ Dep(i) \subseteq Planned => i \in Planned \cup planQueue

\* A layer waits for the layers before it only.
LayersInOrder ==
    \A n \in DOMAIN layers :
        /\ layers[n] \subseteq subPlans.ids \ Layered(n - 1)
        /\ \A i \in layers[n] : Dep(i) \subseteq Layered(n - 1)

\* The workers of the layers begun have begun, those of earlier ones reported.
RunsByLayer ==
    supStep \in Running =>
        /\ Planned = subPlans.ids
        /\ layerNo \in 0 .. Len(layers)
        /\ \A p \in subPlans.ids :
              /\ worker[p] # "raised"
              /\ worker[p] # "none" <=> p \in Layered(layerNo)
              /\ supStep # "gather" => worker[p] # "running"
        /\ supStep = "layer" => layerNo < Len(layers)
        /\ supStep = "aggregate" => layerNo = Len(layers)

\* A question split in vain is answered in its single mode, without workers;
\* a worker without executor reports nothing but the cancellation.
Outcomes ==
    /\ supStep # "over" => outcome = "none"
    /\ outcome # "cycle"
    /\ (supStep = "aggregate" \/ outcome \in {"answered", "apology"}) =>
           subPlans.ids = Having("done") \cup Having("error")
    /\ outcome \in {"answered", "apology"} => subPlans.unregistered = {}
    /\ outcome = "failed" => subPlans.unregistered \cap Having("raised") # {}
    /\ \A p \in subPlans.unregistered :
           worker[p] # "done" /\ (worker[p] = "error" => supCancelled)

InOrder ==
    \A p \in subPlans.ids : worker[p] # "none" =>
        Dep(p) \subseteq Having("done") \cup Having("error")

\* The copies of the first layer start from zero.
Charges ==
    /\ totalTokens >= spent
    /\ layerNo = 0 => totalTokens = 0 /\ \A p \in SubPlanIds : worker[p] = "none"
    /\ layerNo <= 1 => totalTokens = spent /\ base = 0

AInv ==
    /\ AgentTypeOK
    /\ NothingRanYet
    /\ Visiting
    /\ Accepted
    /\ Layering
    /\ LayersInOrder
    /\ RunsByLayer
    /\ Outcomes
    /\ InOrder
    /\ Charges

-----------------------------------------------------------------------------
(* Layers, and counting what a sub-plan waits for. *)

LEMMA LayeredFacts ==
    ASSUME layers \in Seq(SUBSET SubPlanIds)
    PROVE  /\ Layered(0) = {}
           /\ \A n \in Nat : Layered(n) \subseteq Planned
           /\ \A n \in Nat : n + 1 \in DOMAIN layers =>
                  Layered(n + 1) = Layered(n) \cup layers[n + 1]
<1>1. DOMAIN layers = 1 .. Len(layers) /\ Len(layers) \in Nat
  OBVIOUS
<1>2. Layered(0) = {}
  BY <1>1 DEF Layered
<1>3. \A n \in Nat : Layered(n) \subseteq Planned
  BY <1>1 DEF Layered, Planned
<1>4. ASSUME NEW n \in Nat, n + 1 \in DOMAIN layers
      PROVE  Layered(n + 1) = Layered(n) \cup layers[n + 1]
  <2>1. {k \in DOMAIN layers : k <= n + 1} = {k \in DOMAIN layers : k <= n} \cup {n + 1}
    BY <1>1, <1>4
  <2> QED
    BY <2>1 DEF Layered
<1> QED
  BY <1>2, <1>3, <1>4

LEMMA LayerAdded ==
    ASSUME layers \in Seq(SUBSET SubPlanIds), NEW Q \in SUBSET SubPlanIds,
           layers' = Append(layers, Q)
    PROVE  /\ layers' \in Seq(SUBSET SubPlanIds)
           /\ \A n \in Nat : n <= Len(layers) => Layered(n)' = Layered(n)
           /\ Planned' = Planned \cup Q
           /\ DOMAIN layers' = DOMAIN layers \cup {Len(layers) + 1}
           /\ layers'[Len(layers) + 1] = Q
           /\ \A n \in DOMAIN layers : layers'[n] = layers[n] /\ n - 1 \in Nat /\ n <= Len(layers)
<1>1. /\ layers' \in Seq(SUBSET SubPlanIds) /\ Len(layers') = Len(layers) + 1
      /\ Len(layers) \in Nat /\ DOMAIN layers = 1 .. Len(layers)
      /\ DOMAIN layers' = 1 .. Len(layers) + 1
      /\ layers'[Len(layers) + 1] = Q
      /\ \A n \in DOMAIN layers : layers'[n] = layers[n]
  OBVIOUS
<1>2. ASSUME NEW n \in Nat, n <= Len(layers) PROVE Layered(n)' = Layered(n)
  <2>1. {k \in DOMAIN layers : k <= n} = {k \in DOMAIN layers' : k <= n}
    BY <1>1, <1>2
  <2>2. {layers[m] : m \in {k \in DOMAIN layers : k <= n}}
        = {layers'[m] : m \in {k \in DOMAIN layers' : k <= n}}
    BY <1>1, <2>1
  <2> QED
    BY <2>2 DEF Layered
<1>3. Planned' = Planned \cup Q
  <2>1. {k \in DOMAIN layers' : k <= Len(layers')}
        = {k \in DOMAIN layers : k <= Len(layers)} \cup {Len(layers) + 1}
    BY <1>1
  <2>2. \A m \in {k \in DOMAIN layers : k <= Len(layers)} : layers'[m] = layers[m]
    BY <1>1
  <2> QED
    BY <1>1, <2>1, <2>2 DEF Planned, Layered
<1> QED
  BY <1>1, <1>2, <1>3

LEMMA DependenciesFinite ==
    ASSUME subPlans \in Proposals, NEW i \in subPlans.ids, NEW S
    PROVE  IsFiniteSet(Dep(i) \ S) /\ Cardinality(Dep(i) \ S) \in Nat
<1>1. Dep(i) \ S \in SUBSET SubPlanIds
  BY DEF Dep, Proposals
<1> QED
  BY <1>1, FS_Subset, FS_CardinalityType, MultiAgentAssumption DEF MultiAgentAssumption

LEMMA CountLess ==
    ASSUME NEW A, IsFiniteSet(A), NEW Q
    PROVE  /\ IsFiniteSet(A \ Q) /\ Cardinality(A \ Q) = Cardinality(A) - Cardinality(A \cap Q)
           /\ Cardinality(A) = 0 <=> A = {}
           /\ \A i \in A : /\ Cardinality(A \ {i}) = Cardinality(A) - 1
                           /\ Cardinality(A) = 1 => A = {i}
<1>1. ASSUME NEW i \in A
      PROVE  Cardinality(A \ {i}) = Cardinality(A) - 1 /\ (Cardinality(A) = 1 => A = {i})
  <2>1. A \cap {i} = {i}
    OBVIOUS
  <2>2. Cardinality({i}) = 1
    BY FS_Singleton
  <2>3. Cardinality(A \ {i}) = Cardinality(A) - Cardinality(A \cap {i})
    BY FS_Difference
  <2>4. Cardinality(A) = 1 => A = {i}
    BY FS_Singleton
  <2> QED
    BY <2>1, <2>2, <2>3, <2>4
<1> QED
  BY <1>1, FS_Difference, FS_EmptySet

-----------------------------------------------------------------------------
LEMMA NoSubPlansTyped ==
    NoSubPlans \in Proposals /\ NoSubPlans.ids = {} /\ NoSubPlans.unregistered = {}
BY DEF NoSubPlans, Proposals

LEMMA AgentInitInv == AgentInit => AInv
<1> SUFFICES ASSUME AgentInit PROVE AInv
  OBVIOUS
<1>1. AgentTypeOK
  <2>1. 0 \in 0 .. MaxReviewRetries + 1
    BY MultiAgentAssumption DEF MultiAgentAssumption
  <2>2. worker \in [SubPlanIds -> {"none", "running", "done", "error", "raised"}]
        /\ inDegree \in [SubPlanIds -> Int]
    BY DEF AgentInit
  <2>3. {base, layerNo, totalTokens, spent} \subseteq Nat
    BY DEF AgentInit
  <2>4. layers \in Seq(SUBSET SubPlanIds)
    BY DEF AgentInit
  <2> QED
    BY <2>1, <2>2, <2>3, <2>4, NoSubPlansTyped DEF AgentInit, AgentTypeOK
<1>2. subPlans.ids = {} /\ subPlans.unregistered = {} /\ supStep = "decompose"
  BY NoSubPlansTyped DEF AgentInit
<1>3. NothingRanYet /\ Visiting /\ Accepted /\ Layering /\ RunsByLayer /\ LayersInOrder
  BY <1>2, MultiAgentAssumption
     DEF AgentInit, NothingRanYet, Visiting, Accepted, Layering, RunsByLayer, Splitting, Running,
         LayersInOrder, MultiAgentAssumption
<1>4. Outcomes /\ InOrder /\ Charges
  BY <1>2 DEF AgentInit, Outcomes, InOrder, Charges
<1> QED
  BY <1>1, <1>3, <1>4 DEF AInv

\* The steps of the supervisor graph and of the layering run no worker.
LEMMA GraphKeepsRuns ==
    ASSUME AInv, UNCHANGED runVars, subPlans' \in Proposals,
           supStep \in Splitting \/ UNCHANGED subPlans
    PROVE  InOrder' /\ Charges'
<1>1. UNCHANGED <<worker, base, layerNo, totalTokens, spent>>
  BY DEF runVars
<1>2. Charges'
  BY <1>1 DEF AInv, Charges
<1>3. CASE supStep \in Splitting
  <2>1. \A p \in SubPlanIds : worker'[p] = "none"
    BY <1>1, <1>3 DEF AInv, NothingRanYet
  <2>2. subPlans'.ids \subseteq SubPlanIds
    BY DEF Proposals
  <2> QED
    BY <1>2, <2>1, <2>2 DEF InOrder
<1>4. CASE UNCHANGED subPlans
  BY <1>1, <1>2, <1>4 DEF AInv, InOrder, Having, Dep
<1> QED
  BY <1>3, <1>4

\* A step that leaves no sub-plans to be dealt with, or stays before them.
LEMMA GraphEnds ==
    ASSUME AInv, subPlans' \in Proposals, supStep \in Splitting, UNCHANGED runVars,
           UNCHANGED supCancelled, UNCHANGED layers, visited' = {},
           supStep' \in {"decompose", "validate", "over"},
           supStep' # "over" => reviewRetries' <= MaxReviewRetries,
           outcome' = "none" \/ (supStep' = "over" /\ outcome' = "single"),
           subPlans'.unregistered \subseteq subPlans'.ids
    PROVE  /\ NothingRanYet' /\ Visiting' /\ Accepted' /\ Layering'
           /\ LayersInOrder' /\ RunsByLayer' /\ Outcomes'
<1>1. layers = <<>> /\ worker = [p \in SubPlanIds |-> "none"] /\ layerNo = 0
  BY DEF AInv, NothingRanYet, Splitting
<1>2. NothingRanYet' /\ Visiting' /\ Accepted' /\ Layering' /\ RunsByLayer'
  BY <1>1 DEF NothingRanYet, Visiting, Accepted, Layering, RunsByLayer, Splitting, Running, runVars
<1>3. LayersInOrder'
  BY <1>1 DEF LayersInOrder
<1>4. Outcomes'
  BY <1>1 DEF Outcomes, runVars, Proposals
<1> QED
  BY <1>2, <1>3, <1>4

LEMMA DecomposeStep == AInv /\ Decompose => AInv'
<1> SUFFICES ASSUME AInv, Decompose PROVE AInv'
  OBVIOUS
<1>1. /\ subPlans' \in Proposals /\ supStep = "decompose" /\ supStep' = "validate"
      /\ subPlans'.unregistered \subseteq subPlans'.ids
      /\ UNCHANGED <<reviewRetries, outcome, sortVars, runVars, supCancelled>>
  BY NoSubPlansTyped DEF Decompose
<1>2. InOrder' /\ Charges'
  BY <1>1, GraphKeepsRuns DEF Splitting
<1>3. AgentTypeOK'
  BY <1>1 DEF AInv, AgentTypeOK, runVars, sortVars
<1>4. /\ supStep \in Splitting /\ visited' = {} /\ outcome' = "none"
      /\ reviewRetries' <= MaxReviewRetries /\ UNCHANGED layers
  BY <1>1 DEF AInv, NothingRanYet, Outcomes, Splitting, sortVars
<1> QED
  BY <1>1, <1>2, <1>3, <1>4, GraphEnds DEF AInv

\* At first nothing is visited, and what waits for nothing is queued.
LEMMA CountBegins ==
    ASSUME AgentTypeOK, WellFormed, BeginCount
    PROVE  /\ inDegree' \in [SubPlanIds -> Int] /\ planQueue' \subseteq subPlans.ids
           /\ \A i \in subPlans.ids : inDegree'[i] = Cardinality(Dep(i) \ {})
           /\ planQueue' = {i \in subPlans.ids : Dep(i) = {}}
<1>1. subPlans.ids \subseteq SubPlanIds /\ subPlans \in Proposals
  BY DEF AgentTypeOK, Proposals
<1>2. \A i \in subPlans.ids : Dep(i) \ {} = Dep(i) /\ Cardinality(Dep(i) \ {}) \in Nat
  BY <1>1, DependenciesFinite
<1> QED
  BY <1>1, <1>2 DEF BeginCount, Dep

LEMMA ValidateStep == AInv /\ Validate => AInv'
<1> SUFFICES ASSUME AInv, Validate PROVE AInv'
  OBVIOUS
<1> USE DEF Finish
<1>1. /\ supStep = "validate" /\ supStep \in Splitting
      /\ UNCHANGED <<reviewRetries, visited, layers, runVars, supCancelled>>
  BY DEF Validate, Splitting
<1>2. CASE /\ WellFormed /\ supStep' = "visit" /\ BeginCount
           /\ UNCHANGED <<subPlans, outcome>>
  <2>1. AgentTypeOK
    BY DEF AInv
  <2>2. /\ inDegree' \in [SubPlanIds -> Int] /\ planQueue' \subseteq subPlans.ids
        /\ \A i \in subPlans.ids : inDegree'[i] = Cardinality(Dep(i) \ {})
        /\ planQueue' = {i \in subPlans.ids : Dep(i) = {}}
    BY <1>2, <2>1, CountBegins
  <2>3. subPlans' \in Proposals /\ subPlans.ids \subseteq SubPlanIds
    BY <1>2, <2>1 DEF AgentTypeOK, Proposals
  <2>4. AgentTypeOK'
    BY <1>1, <1>2, <2>1, <2>2, <2>3 DEF AgentTypeOK, runVars
  <2>5. InOrder' /\ Charges'
    BY <1>1, <1>2, <2>3, GraphKeepsRuns
  <2>6. visited = {} /\ layers = <<>>
    BY <1>1 DEF AInv, NothingRanYet
  <2>7. Visiting'
    BY <1>1, <1>2, <2>2, <2>6 DEF Visiting, WellFormed, Founded, Dep
  <2>8. NothingRanYet' /\ Accepted' /\ Layering' /\ RunsByLayer'
    BY <1>1, <1>2 DEF AInv, NothingRanYet, Accepted, Layering, RunsByLayer, Splitting, Running, runVars
  <2>9. LayersInOrder'
    BY <1>1, <2>6 DEF LayersInOrder
  <2>10. Outcomes'
    BY <1>1, <1>2 DEF AInv, Outcomes, Having, runVars
  <2> QED
    BY <2>4, <2>5, <2>7, <2>8, <2>9, <2>10 DEF AInv
<1>3. CASE /\ Finish("single") /\ subPlans' = NoSubPlans
           /\ UNCHANGED <<inDegree, planQueue>>
  <2>1. subPlans' \in Proposals /\ subPlans'.unregistered \subseteq subPlans'.ids
    BY <1>3, NoSubPlansTyped
  <2>2. AgentTypeOK'
    BY <1>1, <1>3, <2>1 DEF AInv, AgentTypeOK, runVars
  <2>3. InOrder' /\ Charges'
    BY <1>1, <1>3, <2>1, GraphKeepsRuns
  <2>4. visited' = {}
    BY <1>1 DEF AInv, NothingRanYet
  <2> QED
    BY <1>1, <1>3, <2>1, <2>2, <2>3, <2>4, GraphEnds DEF AInv
<1> QED
  BY <1>2, <1>3 DEF Validate, WellFormed, Dep

\* Counting down is taking out what is visited, and the order of the visits
\* founds what was visited.
LEMMA VisitStep == ASSUME NEW i \in SubPlanIds PROVE AInv /\ VisitSubPlan(i) => AInv'
<1> SUFFICES ASSUME AInv, VisitSubPlan(i) PROVE AInv'
  OBVIOUS
<1>1. /\ supStep = "visit" /\ i \in planQueue /\ visited' = visited \cup {i}
      /\ inDegree' = [j \in SubPlanIds |->
            IF i \in Dep(j) THEN inDegree[j] - 1 ELSE inDegree[j]]
      /\ planQueue' = (planQueue \ {i}) \cup Freed(i)
      /\ UNCHANGED <<supStep, subPlans, reviewRetries, outcome, layers, supCancelled>>
      /\ UNCHANGED runVars
  BY DEF VisitSubPlan, supVars, Dep
<1>2. AgentTypeOK /\ subPlans \in Proposals /\ subPlans.ids \subseteq SubPlanIds
  BY DEF AInv, AgentTypeOK, Proposals
<1>3. /\ WellFormed /\ visited \subseteq subPlans.ids
      /\ planQueue \subseteq subPlans.ids \ visited
      /\ \A k \in visited \cup planQueue : Dep(k) \subseteq visited
      /\ \A k \in subPlans.ids : inDegree[k] = Cardinality(Dep(k) \ visited)
      /\ Founded(visited)
  BY <1>1 DEF AInv, Visiting
<1>4. i \in subPlans.ids /\ i \notin visited /\ Dep(i) \subseteq visited
  BY <1>1, <1>3
<1>5. AgentTypeOK'
  <2>1. inDegree' \in [SubPlanIds -> Int]
    BY <1>1, <1>2 DEF AgentTypeOK
  <2>2. planQueue' \subseteq SubPlanIds /\ visited' \subseteq SubPlanIds
    BY <1>1, <1>2 DEF AgentTypeOK, Freed
  <2> QED
    BY <1>1, <1>2, <2>1, <2>2 DEF AgentTypeOK, runVars
<1>6. ASSUME NEW j \in subPlans.ids
      PROVE  /\ inDegree'[j] = Cardinality(Dep(j) \ (visited \cup {i}))
             /\ j \in Freed(i) => Dep(j) \subseteq visited \cup {i} /\ j \notin visited \cup {i}
  <2> DEFINE A == Dep(j) \ visited
  <2>1. IsFiniteSet(A) /\ Cardinality(A) \in Nat
    BY <1>2, DependenciesFinite
  <2>2. inDegree[j] = Cardinality(A) /\ j \in SubPlanIds
    BY <1>2, <1>3
  <2>3. Dep(j) \ (visited \cup {i}) = A \ {i}
    OBVIOUS
  <2> HIDE DEF A
  <2>4. CASE i \in Dep(j)
    <3>1. i \in A
      BY <1>4, <2>4 DEF A
    <3>2. Cardinality(A \ {i}) = Cardinality(A) - 1 /\ (Cardinality(A) = 1 => A = {i})
      BY <2>1, <3>1, CountLess
    <3>3. inDegree'[j] = Cardinality(A \ {i})
      BY <1>1, <2>2, <2>4, <3>2
    <3>4. j \notin visited \cup {i}
      BY <1>3, <1>4, <2>4
    <3>5. j \in Freed(i) => Dep(j) \subseteq visited \cup {i}
      BY <2>2, <3>2 DEF Freed, A
    <3> QED
      BY <2>3, <3>3, <3>4, <3>5
  <2>5. CASE i \notin Dep(j)
    <3>1. A \ {i} = A
      BY <2>5 DEF A
    <3>2. inDegree'[j] = inDegree[j] /\ j \notin Freed(i)
      BY <1>1, <2>2, <2>5 DEF Freed, Dep
    <3> QED
      BY <2>2, <2>3, <3>1, <3>2
  <2> QED
    BY <2>4, <2>5
<1>7. Freed(i) \subseteq subPlans.ids
  BY DEF Freed
<1>8. Founded(visited \cup {i})
  <2> SUFFICES ASSUME NEW U \in SUBSET (visited \cup {i}), U # {}
               PROVE  \E k \in U : Dep(k) \cap U = {}
    BY DEF Founded
  <2>1. CASE U \ {i} = {}
    BY <1>4, <2>1
  <2>2. CASE U \ {i} # {}
    <3>1. PICK k \in U \ {i} : Dep(k) \cap (U \ {i}) = {}
      BY <1>3, <2>2 DEF Founded
    <3>2. i \notin Dep(k)
      BY <1>3, <1>4, <3>1
    <3> QED
      BY <3>1, <3>2
  <2> QED
    BY <2>1, <2>2
<1>9. Visiting'
  <2>1. WellFormed' /\ Founded(visited)' /\ visited' \subseteq subPlans'.ids
    BY <1>1, <1>3, <1>4, <1>8 DEF WellFormed, Founded, Dep
  <2>2. planQueue' \subseteq subPlans'.ids \ visited'
    BY <1>1, <1>3, <1>6, <1>7
  <2>3. \A k \in visited' \cup planQueue' : Dep(k) \subseteq visited'
    BY <1>1, <1>3, <1>4, <1>6, <1>7
  <2>4. \A k \in subPlans'.ids : inDegree'[k] = Cardinality(Dep(k) \ visited')
    BY <1>1, <1>6
  <2>5. \A k : Dep(k)' = Dep(k)
    BY <1>1 DEF Dep
  <2> QED
    BY <2>1, <2>2, <2>3, <2>4, <2>5 DEF Visiting
<1>10. NothingRanYet' /\ Accepted' /\ Layering' /\ RunsByLayer'
  BY <1>1 DEF AInv, NothingRanYet, Accepted, Layering, RunsByLayer, Splitting, Running, runVars
<1>11. LayersInOrder' /\ Outcomes'
  <2>1. layers = <<>>
    BY <1>1 DEF AInv, NothingRanYet, Splitting
  <2> QED
    BY <1>1, <2>1 DEF AInv, LayersInOrder, Outcomes, Having, runVars
<1>12. InOrder' /\ Charges'
  BY <1>1, <1>2, GraphKeepsRuns
<1> QED
  BY <1>5, <1>9, <1>10, <1>11, <1>12 DEF AInv

\* Accepted is what was visited, all of it.
LEMMA EndValidationStep == AInv /\ EndValidation => AInv'
<1> SUFFICES ASSUME AInv, EndValidation PROVE AInv'
  OBVIOUS
<1> USE DEF Finish
<1>1. /\ supStep = "visit" /\ supStep \in Splitting /\ visited' = {}
      /\ inDegree' = [p \in SubPlanIds |-> 0]
      /\ UNCHANGED <<reviewRetries, planQueue, layers, runVars, supCancelled>>
  BY DEF EndValidation, Splitting
<1>2. AgentTypeOK /\ subPlans \in Proposals
  BY DEF AInv, AgentTypeOK
<1>3. CASE visited = subPlans.ids /\ supStep' = "review" /\ UNCHANGED <<subPlans, outcome>>
  <2>1. AgentTypeOK'
    BY <1>1, <1>2, <1>3 DEF AgentTypeOK, runVars
  <2>2. Accepted'
    BY <1>1, <1>3 DEF AInv, Visiting, Accepted, WellFormed, Founded, Dep
  <2>3. NothingRanYet' /\ Visiting' /\ Layering' /\ RunsByLayer'
    BY <1>1, <1>3 DEF AInv, NothingRanYet, Visiting, Layering, RunsByLayer, Splitting, Running, runVars
  <2>4. LayersInOrder' /\ Outcomes'
    <3>1. layers = <<>>
      BY <1>1 DEF AInv, NothingRanYet, Splitting
    <3> QED
      BY <1>1, <1>3, <3>1 DEF AInv, LayersInOrder, Outcomes, Having, runVars
  <2>5. InOrder' /\ Charges'
    BY <1>1, <1>2, <1>3, GraphKeepsRuns
  <2> QED
    BY <2>1, <2>2, <2>3, <2>4, <2>5 DEF AInv
<1>4. CASE Finish("single") /\ subPlans' = NoSubPlans
  <2>1. subPlans' \in Proposals /\ subPlans'.unregistered \subseteq subPlans'.ids
    BY <1>4, NoSubPlansTyped
  <2>2. AgentTypeOK'
    BY <1>1, <1>2, <1>4, <2>1 DEF AgentTypeOK, runVars
  <2>3. InOrder' /\ Charges'
    BY <1>1, <1>4, <2>1, GraphKeepsRuns
  <2> QED
    BY <1>1, <1>4, <2>1, <2>2, <2>3, GraphEnds DEF AInv
<1> QED
  BY <1>3, <1>4 DEF EndValidation

LEMMA ApproveStep == AInv /\ Approve => AInv'
<1> SUFFICES ASSUME AInv, Approve PROVE AInv'
  OBVIOUS
<1>1. /\ supStep = "review" /\ supStep' = "layering" /\ BeginCount
      /\ UNCHANGED <<subPlans, reviewRetries, outcome, visited, layers, supCancelled>>
      /\ UNCHANGED runVars
  BY DEF Approve
<1>2. AgentTypeOK /\ subPlans \in Proposals /\ subPlans.ids \subseteq SubPlanIds
  BY DEF AInv, AgentTypeOK, Proposals
<1>3. WellFormed /\ Founded(subPlans.ids) /\ layers = <<>> /\ visited = {}
  BY <1>1 DEF AInv, Accepted, NothingRanYet, Splitting
<1>4. /\ inDegree' \in [SubPlanIds -> Int] /\ planQueue' \subseteq subPlans.ids
      /\ \A i \in subPlans.ids : inDegree'[i] = Cardinality(Dep(i) \ {})
      /\ planQueue' = {i \in subPlans.ids : Dep(i) = {}}
  BY <1>1, <1>2, <1>3, CountBegins
<1>5. Planned' = {} /\ \A i : Dep(i)' = Dep(i)
  BY <1>1, <1>3 DEF Planned, Layered, Dep
<1>6. AgentTypeOK'
  BY <1>1, <1>2, <1>4 DEF AgentTypeOK, runVars
<1>7. Layering'
  BY <1>1, <1>4, <1>5 DEF Layering
<1>8. Accepted'
  BY <1>1, <1>3 DEF Accepted, WellFormed, Founded, Dep
<1>9. NothingRanYet' /\ Visiting' /\ RunsByLayer'
  BY <1>1, <1>3 DEF AInv, NothingRanYet, Visiting, RunsByLayer, Splitting, Running, runVars
<1>10. LayersInOrder' /\ Outcomes'
  BY <1>1, <1>3 DEF AInv, LayersInOrder, Outcomes, Having, runVars
<1>11. InOrder' /\ Charges'
  BY <1>1, <1>2, GraphKeepsRuns
<1> QED
  BY <1>6, <1>7, <1>8, <1>9, <1>10, <1>11 DEF AInv

LEMMA RejectStep == AInv /\ Reject => AInv'
<1> SUFFICES ASSUME AInv, Reject PROVE AInv'
  OBVIOUS
<1> USE DEF Finish
<1>1. /\ supStep = "review" /\ supStep \in Splitting /\ supStep' \in {"decompose", "over"}
      /\ reviewRetries' = reviewRetries + 1 /\ UNCHANGED <<sortVars, runVars>>
      /\ UNCHANGED <<subPlans, supCancelled>>
      /\ supStep' = "decompose" => outcome' = outcome /\ reviewRetries' <= MaxReviewRetries
      /\ supStep' = "over" => outcome' = "single"
  BY DEF Reject, Splitting
<1>2. AgentTypeOK /\ subPlans \in Proposals /\ visited = {} /\ outcome = "none"
      /\ reviewRetries <= MaxReviewRetries /\ subPlans.unregistered \subseteq subPlans.ids
  BY <1>1 DEF AInv, AgentTypeOK, NothingRanYet, Outcomes
<1>3. reviewRetries' \in 0 .. MaxReviewRetries + 1
  BY <1>1, <1>2, MultiAgentAssumption DEF AgentTypeOK, MultiAgentAssumption
<1>4. AgentTypeOK'
  BY <1>1, <1>2, <1>3 DEF AgentTypeOK, runVars, sortVars
<1>5. InOrder' /\ Charges'
  BY <1>1, <1>2, GraphKeepsRuns
<1>6. UNCHANGED layers /\ visited' = {}
  BY <1>1, <1>2 DEF sortVars
<1> QED
  BY <1>1, <1>2, <1>4, <1>5, <1>6, GraphEnds DEF AInv

-----------------------------------------------------------------------------
(* The executor. *)

LEMMA AddLayerStep == AInv /\ AddLayer => AInv'
<1> SUFFICES ASSUME AInv, AddLayer PROVE AInv'
  OBVIOUS
<1>1. /\ supStep = "layering" /\ planQueue # {} /\ layers' = Append(layers, planQueue)
      /\ inDegree' = [j \in SubPlanIds |-> inDegree[j] - Cardinality(Dep(j) \cap planQueue)]
      /\ planQueue' = {j \in subPlans.ids : inDegree'[j] = 0 /\ Dep(j) \cap planQueue # {}}
      /\ UNCHANGED <<supStep, subPlans, reviewRetries, outcome, visited, supCancelled>>
      /\ UNCHANGED runVars
  BY DEF AddLayer, supVars, Dep
<1>2. AgentTypeOK /\ subPlans \in Proposals /\ subPlans.ids \subseteq SubPlanIds
      /\ layers \in Seq(SUBSET SubPlanIds) /\ Len(layers) \in Nat
      /\ DOMAIN layers = 1 .. Len(layers)
  BY DEF AInv, AgentTypeOK, Proposals
<1>3. /\ planQueue \subseteq subPlans.ids \ Planned
      /\ \A i \in planQueue : Dep(i) \subseteq Planned
      /\ \A i \in subPlans.ids :
            /\ inDegree[i] = Cardinality(Dep(i) \ Planned)
            /\ Dep(i) \subseteq Planned => i \in Planned \cup planQueue
  BY <1>1 DEF AInv, Layering
<1>4. /\ layers' \in Seq(SUBSET SubPlanIds)
      /\ \A n \in Nat : n <= Len(layers) => Layered(n)' = Layered(n)
      /\ Planned' = Planned \cup planQueue
      /\ DOMAIN layers' = DOMAIN layers \cup {Len(layers) + 1}
      /\ layers'[Len(layers) + 1] = planQueue
      /\ \A n \in DOMAIN layers : layers'[n] = layers[n] /\ n - 1 \in Nat /\ n <= Len(layers)
  <2>1. planQueue \in SUBSET SubPlanIds
    BY <1>2 DEF AgentTypeOK
  <2> QED
    BY <1>1, <1>2, <2>1, LayerAdded
<1>5. \A i : Dep(i)' = Dep(i)
  BY <1>1 DEF Dep
<1>6. \A i \in Planned : Dep(i) \subseteq Planned
  <2> SUFFICES ASSUME NEW i \in Planned PROVE Dep(i) \subseteq Planned
    OBVIOUS
  <2>1. PICK n \in DOMAIN layers : i \in layers[n]
    BY DEF Planned, Layered
  <2>2. Dep(i) \subseteq Layered(n - 1) /\ n - 1 \in Nat
    BY <1>2, <2>1 DEF AInv, LayersInOrder
  <2> QED
    BY <1>2, <2>2, LayeredFacts
<1>7. ASSUME NEW j \in subPlans.ids
      PROVE  /\ inDegree'[j] \in Nat
             /\ inDegree'[j] = Cardinality(Dep(j) \ Planned')
             /\ inDegree'[j] = 0 <=> Dep(j) \subseteq Planned'
  <2> DEFINE A == Dep(j) \ Planned
  <2>1. IsFiniteSet(A) /\ Cardinality(A) \in Nat
    BY <1>2, DependenciesFinite
  <2>2. inDegree[j] = Cardinality(A) /\ j \in SubPlanIds
    BY <1>2, <1>3
  <2>3. Dep(j) \ Planned' = A \ planQueue /\ Dep(j) \cap planQueue = A \cap planQueue
    BY <1>3, <1>4
  <2>4. IsFiniteSet(A \ planQueue) /\ Cardinality(A \ planQueue) \in Nat
    BY <1>2, <2>3, DependenciesFinite
  <2> HIDE DEF A
  <2>5. Cardinality(A \ planQueue) = Cardinality(A) - Cardinality(A \cap planQueue)
    BY <2>1, CountLess
  <2>6. inDegree'[j] = Cardinality(A \ planQueue)
    BY <1>1, <2>2, <2>3, <2>5
  <2>7. Cardinality(A \ planQueue) = 0 <=> A \ planQueue = {}
    BY <2>4, CountLess
  <2>8. A \ planQueue = {} <=> Dep(j) \subseteq Planned'
    BY <2>3
  <2> QED
    BY <2>3, <2>4, <2>6, <2>7, <2>8
<1>8. Layering'
  <2>1. planQueue' \subseteq subPlans'.ids \ Planned'
    <3> SUFFICES ASSUME NEW j \in planQueue' PROVE j \in subPlans.ids /\ j \notin Planned'
      BY <1>1
    <3>1. j \in subPlans.ids /\ Dep(j) \cap planQueue # {}
      BY <1>1
    <3> QED
      BY <1>3, <1>4, <1>6, <3>1
  <2>2. \A i \in planQueue' : Dep(i) \subseteq Planned'
    BY <1>1, <1>7
  <2>3. ASSUME NEW i \in subPlans.ids, Dep(i) \subseteq Planned'
        PROVE  i \in Planned' \cup planQueue'
    <3>1. CASE Dep(i) \cap planQueue = {}
      BY <1>3, <1>4, <2>3, <3>1
    <3>2. CASE Dep(i) \cap planQueue # {}
      BY <1>1, <1>7, <2>3, <3>2
    <3> QED
      BY <3>1, <3>2
  <2>4. \A i \in subPlans'.ids : inDegree'[i] = Cardinality(Dep(i) \ Planned')
    BY <1>1, <1>7
  <2> QED
    BY <1>1, <1>5, <2>1, <2>2, <2>3, <2>4 DEF Layering
<1>9. LayersInOrder'
  <2> SUFFICES ASSUME NEW n \in DOMAIN layers'
               PROVE  /\ layers'[n] \subseteq subPlans.ids \ Layered(n - 1)'
                      /\ \A i \in layers'[n] : Dep(i) \subseteq Layered(n - 1)'
    BY <1>1, <1>5 DEF LayersInOrder
  <2>1. CASE n \in DOMAIN layers
    <3>1. Layered(n - 1)' = Layered(n - 1)
      BY <1>2, <1>4, <2>1
    <3> QED
      BY <1>4, <2>1, <3>1 DEF AInv, LayersInOrder
  <2>2. CASE n = Len(layers) + 1
    <3>1. Layered(n - 1)' = Planned
      BY <1>2, <1>4, <2>2 DEF Planned
    <3> QED
      BY <1>3, <1>4, <2>2, <3>1
  <2> QED
    BY <1>4, <2>1, <2>2
<1>10. AgentTypeOK'
  <2>1. inDegree' \in [SubPlanIds -> Int]
    <3>1. \A j \in SubPlanIds : inDegree[j] \in Int
                                /\ Cardinality(Dep(j) \cap planQueue) \in Nat
      <4> SUFFICES ASSUME NEW j \in SubPlanIds PROVE Cardinality(Dep(j) \cap planQueue) \in Nat
        BY <1>2 DEF AgentTypeOK
      <4>1. Dep(j) \cap planQueue \in SUBSET SubPlanIds
        BY <1>2 DEF AgentTypeOK
      <4> QED
        BY <4>1, FS_Subset, FS_CardinalityType, MultiAgentAssumption DEF MultiAgentAssumption
    <3> QED
      BY <1>1, <3>1
  <2>2. planQueue' \subseteq SubPlanIds
    BY <1>1, <1>2
  <2> QED
    BY <1>1, <1>2, <1>4, <2>1, <2>2 DEF AgentTypeOK, runVars
<1>11. NothingRanYet' /\ Visiting' /\ Accepted' /\ RunsByLayer'
  <2>1. Accepted'
    BY <1>1 DEF AInv, Accepted, WellFormed, Founded, Dep
  <2> QED
    BY <1>1, <2>1 DEF AInv, NothingRanYet, Visiting, RunsByLayer, Splitting, Running, runVars
<1>12. Outcomes'
  BY <1>1 DEF AInv, Outcomes, Having, runVars
<1>13. InOrder' /\ Charges'
  BY <1>1, <1>2, GraphKeepsRuns
<1> QED
  BY <1>8, <1>9, <1>10, <1>11, <1>12, <1>13 DEF AInv

\* Of what was accepted no cycle is left over: some sub-plan without a layer
\* would wait for none of the others, and be queued.
LEMMA EndLayeringStep == AInv /\ EndLayering => AInv'
<1> SUFFICES ASSUME AInv, EndLayering PROVE AInv'
  OBVIOUS
<1>1. /\ supStep = "layering" /\ planQueue = {}
      /\ UNCHANGED <<subPlans, reviewRetries, supCancelled>> /\ UNCHANGED sortVars
      /\ UNCHANGED runVars
  BY DEF EndLayering
<1>2. AgentTypeOK /\ layers \in Seq(SUBSET SubPlanIds) /\ Len(layers) \in Nat
      /\ subPlans \in Proposals
  BY DEF AInv, AgentTypeOK
<1>3. WellFormed /\ Founded(subPlans.ids)
  BY <1>1 DEF AInv, Accepted
<1>4. Planned \subseteq subPlans.ids
  BY DEF AInv, LayersInOrder, Planned, Layered
<1>5. Planned = subPlans.ids
  <2> SUFFICES ASSUME subPlans.ids \ Planned # {} PROVE FALSE
    BY <1>4
  <2>1. PICK i \in subPlans.ids \ Planned : Dep(i) \cap (subPlans.ids \ Planned) = {}
    BY <1>3 DEF Founded
  <2>2. Dep(i) \subseteq Planned
    BY <1>3, <2>1 DEF WellFormed
  <2> QED
    BY <1>1, <2>1, <2>2 DEF AInv, Layering
<1>6. supStep' = "layer" /\ UNCHANGED outcome
  BY <1>5 DEF EndLayering, Planned
<1>7. 0 < Len(layers)
  <2>1. Len(layers) = 0 => Planned = {}
    BY <1>2, LayeredFacts DEF Planned
  <2> QED
    BY <1>2, <1>3, <1>5, <2>1 DEF WellFormed
<1>8. AgentTypeOK'
  BY <1>1, <1>2, <1>6 DEF AgentTypeOK, runVars, sortVars
<1>9. NothingRanYet' /\ Visiting' /\ Layering'
  BY <1>1, <1>6 DEF AInv, NothingRanYet, Visiting, Layering, Splitting, sortVars
<1>10. Accepted' /\ LayersInOrder'
  BY <1>1, <1>6 DEF AInv, Accepted, LayersInOrder, WellFormed, Founded, Dep, Layered,
                    Running, sortVars
<1>11. RunsByLayer'
  <2>1. worker = [p \in SubPlanIds |-> "none"] /\ layerNo = 0 /\ Layered(0) = {}
        /\ subPlans.ids \subseteq SubPlanIds
    BY <1>1, <1>2, LayeredFacts DEF AInv, NothingRanYet, Proposals
  <2>2. \A n : Layered(n)' = Layered(n)
    BY <1>1 DEF Layered, sortVars
  <2>3. Planned' = subPlans'.ids
    BY <1>1, <1>5 DEF Planned, Layered, sortVars
  <2> QED
    BY <1>1, <1>2, <1>6, <1>7, <2>1, <2>2, <2>3 DEF RunsByLayer, runVars, sortVars
<1>12. Outcomes'
  BY <1>1, <1>6 DEF AInv, Outcomes, Having, runVars
<1>13. InOrder' /\ Charges'
  BY <1>1, <1>2, <1>6, GraphKeepsRuns
<1> QED
  BY <1>8, <1>9, <1>10, <1>11, <1>12, <1>13 DEF AInv

\* What is founded and in layers stays so.
LEMMA SortKept ==
    ASSUME AInv, UNCHANGED <<subPlans, reviewRetries>>, UNCHANGED sortVars,
           supStep \in Running \cup {"over"}, supStep' \in Running \cup {"over"},
           supStep = "over" => supStep' = "over"
    PROVE  /\ Visiting' /\ Accepted' /\ Layering' /\ LayersInOrder' /\ NothingRanYet'
           /\ \A n : Layered(n)' = Layered(n) /\ Dep(n)' = Dep(n)
           /\ Planned' = Planned
BY DEF AInv, Visiting, Accepted, Layering, LayersInOrder, NothingRanYet, Running, Splitting,
       sortVars, WellFormed, Founded, Dep, Layered, Planned

\* A layer waits for workers of earlier layers, which have all reported.
LEMMA RunLayerStep == AInv /\ RunLayer => AInv'
<1> SUFFICES ASSUME AInv, RunLayer PROVE AInv'
  OBVIOUS
<1> DEFINE next == layers[layerNo + 1]
<1>1. /\ supStep = "layer" /\ supStep' = "gather" /\ ~supCancelled
      /\ worker' = [p \in SubPlanIds |-> IF p \in next THEN "running" ELSE worker[p]]
      /\ base' = totalTokens
      /\ layerNo' = layerNo + 1
      /\ UNCHANGED <<subPlans, reviewRetries, outcome, totalTokens, spent, supCancelled>>
      /\ UNCHANGED sortVars
  BY DEF RunLayer
<1>2. AgentTypeOK /\ layers \in Seq(SUBSET SubPlanIds) /\ Len(layers) \in Nat /\ layerNo \in Nat
      /\ DOMAIN layers = 1 .. Len(layers) /\ subPlans.ids \subseteq SubPlanIds
  BY DEF AInv, AgentTypeOK, Proposals
<1>3. /\ Planned = subPlans.ids /\ layerNo < Len(layers)
      /\ \A p \in subPlans.ids :
            /\ worker[p] # "raised" /\ worker[p] # "running"
            /\ worker[p] # "none" <=> p \in Layered(layerNo)
  BY <1>1 DEF AInv, RunsByLayer, Running
<1>4. layerNo + 1 \in DOMAIN layers
  BY <1>2, <1>3
<1>5. /\ next \subseteq subPlans.ids \ Layered(layerNo)
      /\ \A i \in next : Dep(i) \subseteq Layered(layerNo)
      /\ Layered(layerNo + 1) = Layered(layerNo) \cup next
      /\ Layered(layerNo) \subseteq Planned
  <2>1. (layerNo + 1) - 1 = layerNo
    BY <1>2
  <2> QED
    BY <1>2, <1>4, <2>1, LayeredFacts DEF AInv, LayersInOrder
<1> HIDE DEF next
<1>6. /\ Visiting' /\ Accepted' /\ Layering' /\ LayersInOrder' /\ NothingRanYet'
      /\ \A n : Layered(n)' = Layered(n) /\ Dep(n)' = Dep(n)
      /\ Planned' = Planned
  BY <1>1, SortKept DEF Running
<1>7. AgentTypeOK'
  BY <1>1, <1>2 DEF AgentTypeOK, sortVars
<1>8. \A p \in subPlans.ids : worker'[p] = IF p \in next THEN "running" ELSE worker[p]
  BY <1>1, <1>2
<1>9. Having("done")' = Having("done") /\ Having("error")' = Having("error")
  BY <1>1, <1>3, <1>5, <1>8 DEF Having
<1>10. RunsByLayer'
  <2>1. layerNo' \in 0 .. Len(layers')
    BY <1>1, <1>2, <1>3 DEF sortVars
  <2>2. ASSUME NEW p \in subPlans.ids
        PROVE  worker'[p] # "raised" /\ (worker'[p] # "none" <=> p \in Layered(layerNo) \cup next)
    BY <1>3, <1>8
  <2>3. (Layered(layerNo))' = Layered(layerNo) \cup next
    BY <1>1, <1>5 DEF Layered, sortVars
  <2> QED
    BY <1>1, <1>3, <1>6, <2>1, <2>2, <2>3 DEF RunsByLayer
<1>11. Outcomes'
  <2>1. \A p \in subPlans.unregistered : worker'[p] \in {"running", worker[p]}
    BY <1>8 DEF AInv, NothingRanYet
  <2> QED
    BY <1>1, <1>9, <2>1 DEF AInv, Outcomes
<1>12. InOrder'
  <2> SUFFICES ASSUME NEW p \in subPlans.ids, worker'[p] # "none"
               PROVE  Dep(p) \subseteq Having("done") \cup Having("error")
    BY <1>1, <1>6, <1>9 DEF InOrder
  <2>1. CASE p \in next
    <3>1. \A i \in Layered(layerNo) : i \in Having("done") \cup Having("error")
      BY <1>2, <1>3, <1>5 DEF Having, AgentTypeOK
    <3> QED
      BY <1>5, <2>1, <3>1
  <2>2. CASE p \notin next
    BY <1>8, <2>2 DEF AInv, InOrder
  <2> QED
    BY <2>1, <2>2
<1>13. Charges'
  BY <1>1, <1>2 DEF AInv, AgentTypeOK, Charges
<1> QED
  BY <1>6, <1>7, <1>10, <1>11, <1>12, <1>13 DEF AInv

\* One worker ends: those that have reported stay so.
LEMMA WorkerEnds ==
    ASSUME AInv, NEW p \in SubPlanIds, NEW st \in {"done", "error", "raised"}, Works(p),
           worker' = [worker EXCEPT ![p] = st],
           UNCHANGED <<subPlans, reviewRetries, base, layerNo, supCancelled>>,
           UNCHANGED sortVars, supStep' \in {supStep, "over"},
           st = "raised" => supStep' = "over"
    PROVE  /\ Visiting' /\ Accepted' /\ Layering' /\ LayersInOrder' /\ NothingRanYet'
           /\ RunsByLayer' /\ InOrder'
           /\ \A q \in SubPlanIds : worker'[q] = IF q = p THEN st ELSE worker[q]
           /\ Having("done") \cup Having("error") \subseteq (Having("done") \cup Having("error"))'
           /\ Having("raised") \subseteq Having("raised")'
<1>1. supStep \in {"gather", "over"} /\ worker[p] = "running" /\ AgentTypeOK
      /\ subPlans.ids \subseteq SubPlanIds
  BY DEF Works, AInv, AgentTypeOK, Proposals
<1>2. /\ Visiting' /\ Accepted' /\ Layering' /\ LayersInOrder' /\ NothingRanYet'
      /\ \A n : Layered(n)' = Layered(n) /\ Dep(n)' = Dep(n)
      /\ Planned' = Planned
  BY <1>1, SortKept DEF Running
<1>3. \A q \in SubPlanIds : worker'[q] = IF q = p THEN st ELSE worker[q]
  BY <1>1 DEF AgentTypeOK
<1>4. /\ Having("done") \cup Having("error") \subseteq (Having("done") \cup Having("error"))'
      /\ Having("raised") \subseteq Having("raised")'
  BY <1>1, <1>3 DEF Having
<1>5. RunsByLayer'
  <2> SUFFICES ASSUME supStep' = "gather" PROVE RunsByLayer'
    BY <1>1 DEF RunsByLayer, Running
  <2>1. supStep = "gather" /\ st # "raised"
    BY <1>1
  <2>2. (Layered(layerNo))' = Layered(layerNo)
    BY DEF Layered, sortVars
  <2> QED
    BY <1>1, <1>2, <1>3, <2>1, <2>2 DEF AInv, RunsByLayer, Running, sortVars
<1>6. InOrder'
  <2> SUFFICES ASSUME NEW q \in subPlans.ids, worker'[q] # "none"
               PROVE  Dep(q) \subseteq (Having("done") \cup Having("error"))'
    BY <1>2 DEF InOrder
  <2>1. worker[q] # "none"
    BY <1>1, <1>3
  <2> QED
    BY <1>4, <2>1 DEF AInv, InOrder
<1> QED
  BY <1>2, <1>3, <1>4, <1>5, <1>6

\* Each worker adds its own tokens, and those of the layers before.
LEMMA FinishWorkerStep == ASSUME NEW p \in SubPlanIds PROVE AInv /\ FinishWorker(p) => AInv'
<1> SUFFICES ASSUME AInv, FinishWorker(p) PROVE AInv'
  OBVIOUS
<1>1. /\ Works(p)
      /\ UNCHANGED <<supStep, subPlans, reviewRetries, outcome, base, layerNo, supCancelled>>
      /\ UNCHANGED sortVars
  BY DEF FinishWorker, supVars
<1>2. PICK st \in {"done", "error"} :
          /\ worker' = [worker EXCEPT ![p] = st]
          /\ st = "done" => p \notin subPlans.unregistered
          /\ st = "error" => (p \in subPlans.unregistered => supCancelled)
  BY DEF FinishWorker
<1>3. AgentTypeOK /\ worker[p] = "running" /\ supStep \in {"gather", "over"}
      /\ subPlans.ids \subseteq SubPlanIds /\ subPlans.unregistered \subseteq subPlans.ids
  BY <1>1 DEF AInv, AgentTypeOK, Proposals, Works, NothingRanYet
<1>4. /\ Visiting' /\ Accepted' /\ Layering' /\ LayersInOrder' /\ NothingRanYet'
      /\ RunsByLayer' /\ InOrder'
      /\ \A q \in SubPlanIds : worker'[q] = IF q = p THEN st ELSE worker[q]
      /\ Having("done") \cup Having("error") \subseteq (Having("done") \cup Having("error"))'
      /\ Having("raised") \subseteq Having("raised")'
  <2>1. /\ st \in {"done", "error", "raised"} /\ supStep' \in {supStep, "over"}
        /\ st = "raised" => supStep' = "over"
        /\ UNCHANGED <<subPlans, reviewRetries, base, layerNo, supCancelled>>
    BY <1>1, <1>2
  <2> QED
    BY <1>1, <1>2, <2>1, WorkerEnds
<1>5. \E n \in Nat, b \in {0, base} : totalTokens' = totalTokens + b + n /\ spent' = spent + n
  <2>1. base \in Nat /\ totalTokens \in Nat /\ spent \in Nat
    BY <1>3 DEF AgentTypeOK
  <2>2. CASE UNCHANGED <<totalTokens, spent>>
    <3>1. totalTokens' = totalTokens + 0 + 0 /\ spent' = spent + 0
      BY <2>1, <2>2
    <3> QED
      BY <3>1
  <2>3. CASE \E n \in 0 .. MaxTokens : totalTokens' = totalTokens + base + n /\ spent' = spent + n
    <3>1. 0 .. MaxTokens \subseteq Nat
      BY MultiAgentAssumption DEF MultiAgentAssumption
    <3> QED
      BY <2>3, <3>1
  <2> QED
    BY <2>2, <2>3 DEF FinishWorker
<1>6. AgentTypeOK'
  <2>1. worker' \in [SubPlanIds -> {"none", "running", "done", "error", "raised"}]
    BY <1>2, <1>3 DEF AgentTypeOK
  <2> QED
    BY <1>1, <1>3, <1>5, <2>1 DEF AgentTypeOK, sortVars
<1>7. Outcomes'
  <2>1. (Having("done") \cup Having("error"))' \subseteq subPlans.ids
    BY <1>1 DEF Having
  <2>2. \A q \in subPlans.unregistered : worker'[q] # "done" /\ (worker'[q] = "error" => supCancelled)
    BY <1>2, <1>3, <1>4 DEF AInv, Outcomes
  <2> QED
    BY <1>1, <1>3, <1>4, <2>1, <2>2 DEF AInv, Outcomes
<1>8. Charges'
  <2>1. base \in Nat /\ totalTokens \in Nat /\ spent \in Nat /\ layerNo \in Nat
        /\ layerNo > 0
    BY <1>3 DEF AInv, AgentTypeOK, Charges
  <2> QED
    BY <1>1, <1>5, <2>1 DEF AInv, Charges
<1> QED
  BY <1>4, <1>6, <1>7, <1>8 DEF AInv

LEMMA RaiseStep == ASSUME NEW p \in SubPlanIds PROVE AInv /\ RaiseUnregistered(p) => AInv'
<1> SUFFICES ASSUME AInv, RaiseUnregistered(p) PROVE AInv'
  OBVIOUS
<1>1. /\ Works(p) /\ p \in subPlans.unregistered /\ worker' = [worker EXCEPT ![p] = "raised"]
      /\ UNCHANGED <<subPlans, reviewRetries, base, layerNo, totalTokens, spent, supCancelled>>
      /\ UNCHANGED sortVars
      /\ \/ supStep = "gather" /\ supStep' = "over" /\ outcome' = "failed"
         \/ supStep = "over" /\ supStep' = "over" /\ UNCHANGED outcome
  BY DEF RaiseUnregistered, Finish, Works
<1>2. AgentTypeOK /\ worker[p] = "running"
      /\ subPlans.ids \subseteq SubPlanIds /\ subPlans.unregistered \subseteq subPlans.ids
  BY <1>1 DEF AInv, AgentTypeOK, Proposals, Works, NothingRanYet
<1>3. /\ Visiting' /\ Accepted' /\ Layering' /\ LayersInOrder' /\ NothingRanYet'
      /\ RunsByLayer' /\ InOrder'
      /\ \A q \in SubPlanIds : worker'[q] = IF q = p THEN "raised" ELSE worker[q]
      /\ Having("done") \cup Having("error") \subseteq (Having("done") \cup Having("error"))'
      /\ Having("raised") \subseteq Having("raised")'
  BY <1>1, WorkerEnds
<1>4. AgentTypeOK'
  <2>1. worker' \in [SubPlanIds -> {"none", "running", "done", "error", "raised"}]
    BY <1>1, <1>2 DEF AgentTypeOK
  <2> QED
    BY <1>1, <1>2, <2>1 DEF AgentTypeOK, sortVars
<1>5. Outcomes'
  <2>1. p \in Having("raised")'
    BY <1>1, <1>2, <1>3 DEF Having
  <2>2. (Having("done") \cup Having("error"))' \subseteq subPlans.ids
    BY <1>1 DEF Having
  <2>3. \A q \in subPlans.unregistered : worker'[q] # "done" /\ (worker'[q] = "error" => supCancelled)
    BY <1>2, <1>3 DEF AInv, Outcomes
  <2> QED
    BY <1>1, <1>3, <2>1, <2>2, <2>3 DEF AInv, Outcomes
<1>6. Charges'
  BY <1>1, <1>2 DEF AInv, Charges
<1> QED
  BY <1>3, <1>4, <1>5, <1>6 DEF AInv

LEMMA GatherLayerStep == AInv /\ GatherLayer => AInv'
<1> SUFFICES ASSUME AInv, GatherLayer PROVE AInv'
  OBVIOUS
<1>1. /\ supStep = "gather" /\ Having("running") = {} /\ base' = 0
      /\ supStep' = IF layerNo = Len(layers) THEN "aggregate" ELSE "layer"
      /\ UNCHANGED <<subPlans, reviewRetries, outcome, worker, layerNo,
                     totalTokens, spent, supCancelled>>
      /\ UNCHANGED sortVars
  BY DEF GatherLayer
<1>2. AgentTypeOK /\ subPlans.ids \subseteq SubPlanIds
  BY DEF AInv, AgentTypeOK, Proposals
<1>3. /\ Visiting' /\ Accepted' /\ Layering' /\ LayersInOrder' /\ NothingRanYet'
      /\ \A n : Layered(n)' = Layered(n) /\ Dep(n)' = Dep(n)
      /\ Planned' = Planned
  BY <1>1, SortKept DEF Running
<1>4. AgentTypeOK'
  BY <1>1, <1>2 DEF AgentTypeOK, sortVars
<1>5. /\ Planned = subPlans.ids /\ layerNo \in 0 .. Len(layers) /\ Len(layers) \in Nat
      /\ \A p \in subPlans.ids :
            /\ worker[p] # "raised" /\ worker[p] # "running"
            /\ worker[p] # "none" <=> p \in Layered(layerNo)
  BY <1>1, <1>2 DEF AInv, RunsByLayer, Running, Having, AgentTypeOK
<1>6. RunsByLayer'
  <2>1. (Layered(layerNo))' = Layered(layerNo)
    BY <1>1 DEF Layered, sortVars
  <2> QED
    BY <1>1, <1>3, <1>5, <2>1 DEF RunsByLayer, sortVars
<1>7. Outcomes'
  <2>1. layerNo = Len(layers) => subPlans.ids = Having("done") \cup Having("error")
    BY <1>2, <1>5 DEF Having, AgentTypeOK, Planned
  <2> QED
    BY <1>1, <2>1 DEF AInv, Outcomes, Having
<1>8. InOrder' /\ Charges'
  BY <1>1, <1>3 DEF AInv, InOrder, Charges, Having
<1> QED
  BY <1>3, <1>4, <1>6, <1>7, <1>8 DEF AInv

LEMMA EndStep == AInv /\ (AbandonPlan \/ Aggregate) => AInv'
<1> SUFFICES ASSUME AInv, AbandonPlan \/ Aggregate PROVE AInv'
  OBVIOUS
<1>1. /\ UNCHANGED <<subPlans, reviewRetries, supCancelled>> /\ UNCHANGED sortVars
      /\ UNCHANGED runVars /\ supStep' = "over" /\ supStep \in {"layer", "aggregate"}
      /\ \/ outcome' = "cancelled"
         \/ outcome' \in {"answered", "apology"} /\ supStep = "aggregate" /\ ~supCancelled
  BY DEF AbandonPlan, Aggregate, Finish
<1>2. AgentTypeOK /\ subPlans \in Proposals /\ subPlans.unregistered \subseteq subPlans.ids
  BY DEF AInv, AgentTypeOK, NothingRanYet
<1>3. Visiting' /\ Accepted' /\ Layering' /\ LayersInOrder' /\ NothingRanYet'
  BY <1>1, SortKept DEF Running
<1>4. AgentTypeOK'
  BY <1>1, <1>2 DEF AgentTypeOK, runVars, sortVars
<1>5. RunsByLayer'
  BY <1>1 DEF RunsByLayer, Running
<1>6. InOrder' /\ Charges'
  BY <1>1, <1>2, GraphKeepsRuns
<1>7. Outcomes'
  <2>1. supStep = "aggregate" /\ ~supCancelled => subPlans.unregistered = {}
    BY <1>2 DEF AInv, Outcomes, Having
  <2> QED
    BY <1>1, <2>1 DEF AInv, Outcomes, Having, runVars
<1> QED
  BY <1>3, <1>4, <1>5, <1>6, <1>7 DEF AInv

LEMMA RestStep == AInv /\ (CancelPlan \/ UNCHANGED agentVars) => AInv'
<1> SUFFICES ASSUME AInv, CancelPlan \/ UNCHANGED agentVars PROVE AInv'
  OBVIOUS
<1>1. /\ UNCHANGED <<supStep, subPlans, reviewRetries, outcome>> /\ UNCHANGED sortVars
      /\ UNCHANGED runVars /\ supCancelled' \in {supCancelled, TRUE}
  BY DEF CancelPlan, agentVars, supVars
<1>2. AgentTypeOK /\ subPlans \in Proposals
  BY DEF AInv, AgentTypeOK
<1>3. AgentTypeOK'
  BY <1>1, <1>2 DEF AgentTypeOK, runVars, sortVars
<1>4. InOrder' /\ Charges'
  BY <1>1, <1>2, GraphKeepsRuns
<1>5. Visiting' /\ Accepted' /\ NothingRanYet'
  BY <1>1 DEF AInv, Visiting, Accepted, NothingRanYet, WellFormed, Founded, Dep, sortVars, runVars
<1>6. Layering' /\ LayersInOrder' /\ RunsByLayer'
  BY <1>1 DEF AInv, Layering, LayersInOrder, RunsByLayer, Planned, Layered, Dep, sortVars, runVars
<1>7. Outcomes'
  BY <1>1, <1>2 DEF AInv, Outcomes, Having, runVars, AgentTypeOK
<1> QED
  BY <1>3, <1>4, <1>5, <1>6, <1>7 DEF AInv

THEOREM AInvInvariant == AgentSpec => []AInv
<1>1. AInv /\ [AgentNext]_agentVars => AInv'
  BY DecomposeStep, ValidateStep, VisitStep, EndValidationStep, ApproveStep, RejectStep,
     AddLayerStep, EndLayeringStep, RunLayerStep, FinishWorkerStep, RaiseStep, GatherLayerStep,
     EndStep, RestStep DEF AgentNext
<1> QED
  BY <1>1, AgentInitInv, PTL DEF AgentSpec

\* Every variable keeps its type.
THEOREM AgentTypeCorrect == AgentSpec => []AgentTypeOK
<1>1. AInv => AgentTypeOK
  BY DEF AInv
<1> QED
  BY <1>1, AInvInvariant, PTL

\* What the validator's count accepts, the executor's own count can lay out:
\* no accepted split ends in the apology for a cycle, workers run in the order
\* of the dependencies, an answer waits for all of them, and only a worker in
\* a mode without executor fails the turn.
THEOREM PlansRunWhole == AgentSpec => []AcceptedPlanRunsWhole
<1>1. AInv => AcceptedPlanRunsWhole
  BY DEF AInv, Outcomes, InOrder, AcceptedPlanRunsWhole, Dep
<1> QED
  BY <1>1, AInvInvariant, PTL

\* No token of a worker that succeeded is lost to another worker's copy, and
\* with one layer none is counted twice.
THEOREM TokensAreCharged == AgentSpec => []TokensCharged
<1>1. AInv => TokensCharged
  BY DEF AInv, Charges, TokensCharged
<1> QED
  BY <1>1, AInvInvariant, PTL
===============================================================================
