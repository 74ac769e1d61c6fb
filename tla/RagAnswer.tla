------------------------------ MODULE RagAnswer ------------------------------
(* The answer of one turn over retrieved evidence: the generator that       *)
(* drafts, filters, reviews and regenerates it (executors/rag.py, over      *)
(* rag_stream.py), and the loop that passes its events to the client and    *)
(* collects the text the turn stores (chat/service_executor.py), with the   *)
(* citation check that runs beside the review and is reused in the tail.    *)
(* The generator stands still while an event it yielded is handled; a stop, *)
(* a lost lease, the end of the client and the citation check come between  *)
(* any two steps.                                                           *)
(*                                                                          *)
(* A piece of text is the number of the draft it belongs to, or Blocked,    *)
(* NoEvidence or Note for the texts of the program itself.                  *)
EXTENDS Integers, Sequences, SequencesExt

CONSTANTS MaxChunks,    \* bound: pieces of one draft
          MaxReviews,   \* settings.rag.quality_max_retries
          Blocked, NoEvidence, Note

ASSUME AnswerAssumption ==
    /\ MaxChunks \in Nat /\ MaxReviews \in Nat
    /\ Blocked \notin Nat /\ NoEvidence \notin Nat /\ Note \notin Nat

Texts == 0 .. MaxReviews \cup {Blocked, NoEvidence, Note}
Events == [type : {"text", "clear", "review", "result"}, text : {Note}]
          \cup [type : {"text", "error"}, text : Texts]
Steps == {"retrieve", "draft", "filter", "review", "redraft", "tail",
          "verify", "await", "serial", "over"}

VARIABLES
    ansStep,     \* where the generator, then the tail, stands
    ansEvents,   \* events yielded one after the other, not yet handled
    answerBuffer, \* task.answer_buffer
    fullAnswer,  \* state.full_answer, which the turn stores
    reviewRound, \* plan.review_round
    safeDrafts,  \* history: drafts the output filter let pass
    ansFailed,   \* state.turn_failed
    ansEnd,      \* "open", or how the turn ended
    halted,      \* "no", "stop" (task.cancelled) or "lease" (no longer owned)
    finalized,   \* task.finalized
    citation,    \* the task of the citation check
    citationBase, \* history: the answer it checks
    citationRef, \* task._citation_task refers to it
    citationLate, \* history: it was started after the task was finalized
    hungUp       \* history: the client closed the stream

ansVars == <<ansStep, ansEvents, answerBuffer, fullAnswer, reviewRound,
             safeDrafts, ansFailed, ansEnd, halted, finalized, citation,
             citationBase, citationRef, citationLate, hungUp>>
citeVars == <<citation, citationBase, citationRef, citationLate>>

AnsInit ==
    /\ ansStep = "retrieve" /\ ansEvents = <<>>
    /\ answerBuffer = <<>> /\ fullAnswer = <<>>
    /\ reviewRound = 0 /\ safeDrafts = {}
    /\ ansFailed = FALSE /\ ansEnd = "open" /\ halted = "no"
    /\ finalized = FALSE /\ hungUp = FALSE
    /\ citation = "none" /\ citationBase = <<>> /\ citationRef = FALSE
    /\ citationLate = FALSE

Event(type) == [type |-> type, text |-> Note]
Emit(type, text) == [type |-> type, text |-> text]

\* Mutant: the reference is dropped, the task is not cancelled.
MutCancelCitation ==
    citationRef' = FALSE /\ UNCHANGED <<citation, citationBase, citationLate>>

\* cancel_background_tasks, and the cancellation before a regeneration.
CancelCitation ==
    /\ citation' = IF citation = "running" THEN "cancelled" ELSE citation
    /\ citationRef' = FALSE
    /\ UNCHANGED <<citationBase, citationLate>>

\* finalize() works once: the first call cancels, a later one does nothing.
Finalize ==
    /\ finalized' = TRUE
    /\ IF finalized THEN UNCHANGED citeVars ELSE CancelCitation

EndTurn(how) == ansStep' = "over" /\ ansEnd' = how /\ ansEvents' = <<>>

\* The generator runs between two events.
Runs(step) == ansStep = step /\ ansEvents = <<>>

-----------------------------------------------------------------------------
(* The generator. *)

\* Without evidence the executor answers so and returns.
RetrieveEvidence ==
    /\ Runs("retrieve")
    /\ \/ ansStep' = "draft" /\ UNCHANGED ansEvents
       \/ ansStep' = "tail" /\ ansEvents' = <<Emit("text", NoEvidence)>>
    /\ UNCHANGED <<answerBuffer, fullAnswer, reviewRound, safeDrafts, ansFailed,
                   ansEnd, halted, finalized, citeVars, hungUp>>

\* stream_llm_with_tools, of one call of the model or two; the piece is
\* buffered before it is yielded.
StreamChunk ==
    /\ Runs("draft") /\ Len(answerBuffer) < MaxChunks
    /\ answerBuffer' = Append(answerBuffer, reviewRound)
    /\ ansEvents' = <<Emit("text", reviewRound)>>
    /\ UNCHANGED <<ansStep, fullAnswer, reviewRound, safeDrafts, ansFailed,
                   ansEnd, halted, finalized, citeVars, hungUp>>

EndDraft ==
    /\ Runs("draft")
    /\ ansStep' = "filter"
    /\ UNCHANGED <<ansEvents, answerBuffer, fullAnswer, reviewRound, safeDrafts,
                   ansFailed, ansEnd, halted, finalized, citeVars, hungUp>>

\* _start_citation_task, after the first draft only, when the answer cites.
StartCitation(answer) ==
    IF reviewRound # 0 THEN UNCHANGED citeVars
    ELSE \/ /\ citation' = "running" /\ citationBase' = answer
            /\ citationRef' = TRUE /\ citationLate' = finalized
         \/ UNCHANGED citeVars

\* The whole draft passes the output filter; a short first draft is not
\* reviewed.
PassFilter ==
    /\ Runs("filter")
    /\ safeDrafts' = safeDrafts \cup {reviewRound}
    /\ StartCitation(answerBuffer)
    /\ ansStep' \in IF reviewRound = 0 THEN {"review", "tail"} ELSE {"review"}
    /\ UNCHANGED <<ansEvents, answerBuffer, fullAnswer, reviewRound, ansFailed,
                   ansEnd, halted, finalized, hungUp>>

\* Or it does not: what was sent is cleared, and the turn fails.
BlockAnswer ==
    /\ Runs("filter")
    /\ answerBuffer' = <<Blocked>>
    /\ ansEvents' =
           IF reviewRound = 0 THEN <<Event("clear"), Emit("error", Blocked)>>
           ELSE <<Event("clear"), Emit("error", Blocked), Event("result")>>
    /\ StartCitation(<<Blocked>>)
    /\ ansStep' = "tail"
    /\ UNCHANGED <<fullAnswer, reviewRound, safeDrafts, ansFailed, ansEnd,
                   halted, finalized, hungUp>>

\* AnswerQualityChecker.check is content, unknown, or out of rounds.
AcceptAnswer ==
    /\ Runs("review")
    /\ ansEvents' = <<Event("result")>>
    /\ ansStep' = "tail"
    /\ UNCHANGED <<answerBuffer, fullAnswer, reviewRound, safeDrafts, ansFailed,
                   ansEnd, halted, finalized, citeVars, hungUp>>

RejectAnswer ==
    /\ Runs("review") /\ reviewRound < MaxReviews
    /\ reviewRound' = reviewRound + 1
    /\ CancelCitation
    /\ ansEvents' = <<Event("review"), Event("clear")>>
    /\ ansStep' = "redraft"
    /\ UNCHANGED <<answerBuffer, fullAnswer, safeDrafts, ansFailed, ansEnd,
                   halted, finalized, hungUp>>

BeginRedraft ==
    /\ Runs("redraft")
    /\ answerBuffer' = <<>>
    /\ ansStep' = "draft"
    /\ UNCHANGED <<ansEvents, fullAnswer, reviewRound, safeDrafts, ansFailed,
                   ansEnd, halted, finalized, citeVars, hungUp>>

\* An exception of the retrieval, the model or the tail, or no event within
\* the chunk timeout: handle_error_stream finalizes the task, unless a stop
\* has; what was collected stays.
RaiseError ==
    /\ ansEvents = <<>>
    /\ ansStep \notin {"await", "over"}
    /\ EndTurn("failed") /\ ansFailed' = TRUE
    /\ Finalize
    /\ UNCHANGED <<answerBuffer, fullAnswer, reviewRound, safeDrafts, halted,
                   hungUp>>

-----------------------------------------------------------------------------
(* The loop of service_executor. *)

\* Mutant: a cleared or rejected draft stays in the answer.
MutHandleEvent(e) ==
    /\ fullAnswer' = CASE e.type = "text" -> Append(fullAnswer, e.text)
                       [] e.type = "error" -> <<e.text>>
                       [] OTHER -> fullAnswer
    /\ ansFailed' = (ansFailed \/ e.type = "error")

HandleEvent(e) ==
    /\ fullAnswer' = CASE e.type = "text" -> Append(fullAnswer, e.text)
                       [] e.type \in {"clear", "review"} -> <<>>
                       [] e.type = "error" -> <<e.text>>
                       [] OTHER -> fullAnswer
    /\ ansFailed' = (ansFailed \/ e.type = "error")

\* An event is dropped once the task is cancelled, and may be after the
\* lease was lost, which is looked up every few seconds only.  This end of
\* the turn cancels the check itself, before it finalizes the task.
DeliverEvent ==
    /\ ansEvents # <<>>
    /\ \/ /\ halted # "stop"
          /\ HandleEvent(Head(ansEvents))
          /\ ansEvents' = Tail(ansEvents)
          /\ UNCHANGED <<ansStep, ansEnd, finalized, citeVars>>
       \/ /\ halted # "no"
          /\ EndTurn("stopped")
          /\ CancelCitation /\ finalized' = TRUE
          /\ UNCHANGED <<fullAnswer, ansFailed>>
    /\ UNCHANGED <<answerBuffer, reviewRound, safeDrafts, halted, hungUp>>

\* After the loop: references and recommendations, then verification, when
\* there is an answer that cites.  Nothing looks at the cancellation again.
BeginTail ==
    /\ Runs("tail")
    /\ IF citationRef /\ citation # "cancelled" /\ fullAnswer # <<>>
       THEN ansStep' \in {"verify", "await"} ELSE ansStep' = "verify"
    /\ UNCHANGED <<ansEvents, answerBuffer, fullAnswer, reviewRound, safeDrafts,
                   ansFailed, ansEnd, halted, finalized, citeVars, hungUp>>

\* The result of the citation check is reused when it is about this answer.
Reusable(result, base) == result = "done" /\ base = fullAnswer

AwaitCitation ==
    /\ Runs("await") /\ citation # "running"
    /\ ansStep' = IF Reusable(citation, citationBase) THEN "verify" ELSE "serial"
    /\ UNCHANGED <<ansEvents, answerBuffer, fullAnswer, reviewRound, safeDrafts,
                   ansFailed, ansEnd, halted, finalized, citeVars, hungUp>>

\* The timeout, or the client's end, cancels the coroutine while it awaits
\* the citation check: the check is cancelled with it, and the tail catches
\* CancelledError and goes on.
SwallowCancel ==
    /\ Runs("await") /\ citation = "running"
    /\ citation' = "cancelled"
    /\ ansStep' = "serial"
    /\ UNCHANGED <<ansEvents, answerBuffer, fullAnswer, reviewRound, safeDrafts,
                   ansFailed, ansEnd, halted, finalized, citationBase,
                   citationRef, citationLate, hungUp>>

\* The verdict: it may add a note to the answer; then task.finalize(), DONE.
FinishAnswer ==
    /\ ansStep \in {"verify", "serial"} /\ ansEvents = <<>>
    /\ \/ UNCHANGED fullAnswer
       \/ fullAnswer # <<>> /\ fullAnswer' = Append(fullAnswer, Note)
    /\ EndTurn(IF ansFailed THEN "failed" ELSE "completed")
    /\ Finalize
    /\ UNCHANGED <<answerBuffer, reviewRound, safeDrafts, ansFailed, halted,
                   hungUp>>

-----------------------------------------------------------------------------
(* What comes from outside. *)

\* The citation check ends, with a verdict or an exception.
EndCitation ==
    /\ citation = "running"
    /\ citation' \in {"done", "error"}
    /\ UNCHANGED <<ansStep, ansEvents, answerBuffer, fullAnswer, reviewRound,
                   safeDrafts, ansFailed, ansEnd, halted, finalized,
                   citationBase, citationRef, citationLate, hungUp>>

\* stop_session finalizes and cancels the task; its broadcast to another
\* worker, or a reset of the session, cancels only; or the lease is lost.
Halt ==
    /\ ansStep # "over"
    /\ \/ /\ halted' = "stop" /\ CancelCitation
          /\ finalized' \in {finalized, TRUE}
       \/ /\ halted = "no" /\ halted' = "lease"
          /\ UNCHANGED <<finalized, citeVars>>
    /\ UNCHANGED <<ansStep, ansEvents, answerBuffer, fullAnswer, reviewRound,
                   safeDrafts, ansFailed, ansEnd, hungUp>>

\* The request is cancelled (handle_cancelled_stream finalizes the task, if
\* no stop has), or the stream is closed while an event is on its way
\* (GeneratorExit, after which nothing is finalized).
LoseClient ==
    /\ ansStep \notin {"over", "await"}
    /\ EndTurn("stopped")
    /\ \/ Finalize /\ UNCHANGED hungUp
       \/ /\ ansEvents # <<>> /\ hungUp' = TRUE
          /\ UNCHANGED <<finalized, citeVars>>
    /\ UNCHANGED <<answerBuffer, fullAnswer, reviewRound, safeDrafts, ansFailed,
                   halted>>

AnsNext ==
    \/ RetrieveEvidence \/ StreamChunk \/ EndDraft \/ PassFilter \/ BlockAnswer
    \/ AcceptAnswer \/ RejectAnswer \/ BeginRedraft \/ RaiseError
    \/ DeliverEvent \/ BeginTail \/ AwaitCitation \/ SwallowCancel
    \/ FinishAnswer \/ EndCitation \/ Halt \/ LoseClient

AnsSpec == AnsInit /\ [][AnsNext]_ansVars

-----------------------------------------------------------------------------
AnsTypeOK ==
    /\ ansStep \in Steps /\ ansEvents \in Seq(Events)
    /\ answerBuffer \in Seq(Texts) /\ fullAnswer \in Seq(Texts)
    /\ reviewRound \in 0 .. MaxReviews /\ safeDrafts \subseteq 0 .. MaxReviews
    /\ ansFailed \in BOOLEAN /\ hungUp \in BOOLEAN
    /\ ansEnd \in {"open", "completed", "failed", "stopped"}
    /\ halted \in {"no", "stop", "lease"}
    /\ citation \in {"none", "running", "done", "error", "cancelled"}
    /\ citationBase \in Seq(Texts) /\ citationRef \in BOOLEAN
    /\ citationLate \in BOOLEAN /\ finalized \in BOOLEAN

\* A turn that ends as completed stores one draft, whole and as the executor
\* holds it, which passed the output filter, or that there is no evidence,
\* and the note of the verification at most; no piece of a draft that was
\* reviewed away or blocked is left in it, whatever was yielded, cleared and
\* regenerated before.
StoresOneSafeDraft ==
    ansEnd = "completed" =>
        \E answer \in {<<NoEvidence>>, answerBuffer} :
            /\ fullAnswer \in {answer, Append(answer, Note)}
            /\ answer = <<NoEvidence>> => answerBuffer = <<>>
            /\ answer # <<NoEvidence>> =>
                   \E d \in safeDrafts : ToSet(answer) \subseteq {d}

\* Once the turn is over no citation check runs on, however the turn ended,
\* with two exceptions.  The client closed the stream between two events; or
\* the check was started after a stop had finalized the task, which uses up
\* the one finalize(), so that the end of the turn cancels nothing.
NoVerificationLeftRunning ==
    ansStep = "over" /\ citation = "running" =>
        hungUp \/ (citationLate /\ halted = "stop")
=============================================================================
