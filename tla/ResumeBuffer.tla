----------------------------- MODULE ResumeBuffer -----------------------------
(* What a client sees of its question when the connection breaks            *)
(* (api/chat_stream.py with the retry loop of frontend chat-stream.ts).     *)
(* The server copies every event of a stream to one Redis list of the       *)
(* conversation before it sends it.  A client that lost its connection asks *)
(* again with the number of events it has seen; the server sends what the   *)
(* list holds behind that number, and unless this ends with DONE it starts  *)
(* the question over, in a stream that finds the conversation busy as long  *)
(* as the one of the lost connection lives.                                 *)
(*                                                                          *)
(* The client asks one question after the other.  RPUSH, LTRIM and EXPIRE   *)
(* of one event are one step; an event is its stream and its place there.   *)
EXTENDS Integers, Sequences, SequencesExt, FiniteSets

CONSTANTS MaxStreams,   \* bound: streams begun
          MaxEvents,    \* bound: events of a stream
          MaxBuffer,    \* _BUFFER_MAX_EVENTS
          MaxBreaks     \* MAX_RETRIES of the client

ASSUME ResumeAssumption ==
    /\ MaxStreams \in Nat /\ MaxEvents \in Nat \ {0}
    /\ MaxBuffer \in Nat \ {0} /\ MaxBreaks \in Nat

StreamIds == 1 .. MaxStreams
SseEvents == [stream : StreamIds, place : 1 .. MaxEvents + 2,
              type : {"text", "error", "done"}]

VARIABLES
    sseBuffer,   \* the list pipeline_rag:sse:buf:{conversation_id}
    streams,     \* streams begun so far
    streamState, \* [StreamIds -> "none", "open", "busy" or "over"]
    sent,        \* [StreamIds -> events made so far]
    pastError,   \* [StreamIds -> an error event was made]
    client,      \* "idle", "asking", "reading", "broken"
    breaks,      \* attempt
    reads,       \* the stream the client is connected to; 0 while replaying
    sawEnd,      \* sawDone or sawError
    wire,        \* events on their way to the client
    shown,       \* events handled for this question; consumed is its length
    own          \* history: the list held what this question's streams made,
                 \* nothing else and nothing less, each of them began when the
                 \* client had been sent all of it, and no other one wrote
                 \* while the client was connected to it

streamVars == <<streams, streamState, sent, pastError>>
clientVars == <<client, breaks, reads, sawEnd, wire, shown>>
resVars == <<sseBuffer, streamVars, clientVars, own>>

ResInit ==
    /\ sseBuffer = <<>> /\ streams = 0
    /\ streamState = [s \in StreamIds |-> "none"]
    /\ sent = [s \in StreamIds |-> 0]
    /\ pastError = [s \in StreamIds |-> FALSE]
    /\ client = "idle" /\ breaks = 0 /\ reads = 0 /\ sawEnd = FALSE
    /\ wire = <<>> /\ shown = <<>> /\ own = TRUE

-----------------------------------------------------------------------------
(* The client. *)

AskQuestion ==
    /\ client = "idle" /\ streams < MaxStreams
    /\ client' = "asking"
    /\ shown' = <<>> /\ breaks' = 0 /\ sawEnd' = FALSE
    /\ own' = (sseBuffer = <<>> /\ \A s \in StreamIds :
                   streamState[s] \in {"none", "over"})
    /\ UNCHANGED <<sseBuffer, streamVars, reads, wire>>

ReadEvent ==
    /\ client \in {"asking", "reading"} /\ wire # <<>>
    /\ shown' = Append(shown, Head(wire))
    /\ wire' = Tail(wire)
    /\ sawEnd' = (sawEnd \/ Head(wire).type # "text")
    /\ UNCHANGED <<sseBuffer, streamVars, client, breaks, reads, own>>

\* The response ended, or was cut off, after the client had seen DONE or an
\* error.
FinishReading ==
    /\ client \in {"asking", "reading"} /\ sawEnd
    /\ client' = "idle"
    /\ wire' = <<>> /\ reads' = 0
    /\ UNCHANGED <<sseBuffer, streamVars, breaks, sawEnd, shown, own>>

\* The request failed, or the response was cut off before that: what is on
\* its way is lost, and without a retry left the client gives up.  A failure
\* counts even behind DONE.
BreakConnection ==
    /\ client \in {"asking", "reading"}
    /\ wire' = <<>> /\ reads' = 0
    /\ client' = IF breaks < MaxBreaks THEN "broken" ELSE "idle"
    /\ UNCHANGED <<sseBuffer, streamVars, breaks, sawEnd, shown, own>>

-----------------------------------------------------------------------------
(* The server. *)

\* Mutant: the last event seen is sent again.
MutUnconsumed(resume) ==
    IF resume = 0 THEN <<>> ELSE SubSeq(sseBuffer, resume, Len(sseBuffer))

\* _replay_events: the events behind the place resume; <<>> also for the
\* first request, and when Redis fails.
Unconsumed(resume) ==
    IF resume = 0 THEN <<>> ELSE SubSeq(sseBuffer, resume + 1, Len(sseBuffer))

Reconnect ==
    /\ client = "broken"
    /\ breaks' = breaks + 1
    /\ \/ wire' = Unconsumed(Len(shown)) /\ UNCHANGED own
       \/ wire' = <<>> /\ own' = FALSE
    /\ client' = "asking"
    /\ UNCHANGED <<sseBuffer, streamVars, reads, sawEnd, shown>>

ContainsDone(events) == \E e \in ToSet(events) : e.type = "done"

\* service.stream() takes the lease of the conversation, or does not get it.
BeginStream ==
    /\ client = "asking" /\ streams < MaxStreams
    /\ ~ContainsDone(wire)
    /\ streams' = streams + 1
    /\ streamState' = [streamState EXCEPT ![streams + 1] =
           IF \E s \in StreamIds : streamState[s] = "open" THEN "busy" ELSE "open"]
    /\ client' = "reading" /\ reads' = streams + 1
    /\ own' = (own /\ Len(sseBuffer) = Len(shown) + Len(wire))
    /\ UNCHANGED <<sseBuffer, sent, pastError, breaks, sawEnd, wire, shown>>

\* Once the replayed events hold DONE the response ends.
EndReplay ==
    /\ client = "asking" /\ ContainsDone(wire)
    /\ client' = "reading"
    /\ UNCHANGED <<sseBuffer, streamVars, breaks, reads, sawEnd, wire, shown, own>>

\* Mutant: the list is trimmed one event late.
MutKeepLast(s) ==
    IF Len(s) > MaxBuffer + 1 THEN SubSeq(s, Len(s) - MaxBuffer, Len(s)) ELSE s

\* _append_event, which may fail, then the event is sent; to a connection
\* that is lost it is appended only.
KeepLast(s) == IF Len(s) > MaxBuffer THEN SubSeq(s, Len(s) - MaxBuffer + 1, Len(s))
               ELSE s
AppendAndSend(s, type) ==
    LET e == [stream |-> s, place |-> sent[s] + 1, type |-> type] IN
    /\ sent' = [sent EXCEPT ![s] = @ + 1]
    /\ \/ /\ sseBuffer' = KeepLast(Append(sseBuffer, e))
          /\ own' = (own /\ Len(sseBuffer) < MaxBuffer /\ reads \in {0, s})
       \/ UNCHANGED sseBuffer /\ own' = FALSE
    /\ wire' = IF reads = s THEN Append(wire, e) ELSE wire

SendText(s) ==
    /\ streamState[s] = "open" /\ sent[s] < MaxEvents
    /\ AppendAndSend(s, "text")
    /\ UNCHANGED <<streams, streamState, pastError, client, breaks, reads, sawEnd, shown>>

\* An open stream may fail; a busy one says so at once.
SendError(s) ==
    /\ streamState[s] \in {"open", "busy"} /\ ~pastError[s]
    /\ AppendAndSend(s, "error")
    /\ pastError' = [pastError EXCEPT ![s] = TRUE]
    /\ UNCHANGED <<streams, streamState, client, breaks, reads, sawEnd, shown>>

SendDone(s) ==
    /\ streamState[s] = "open" \/ (streamState[s] = "busy" /\ pastError[s])
    /\ AppendAndSend(s, "done")
    /\ streamState' = [streamState EXCEPT ![s] = "over"]
    /\ UNCHANGED <<streams, pastError, client, breaks, reads, sawEnd, shown>>

\* The server notices that the connection is gone, and the stream is closed.
CloseStream(s) ==
    /\ streamState[s] \in {"open", "busy"} /\ reads # s
    /\ streamState' = [streamState EXCEPT ![s] = "over"]
    /\ UNCHANGED <<sseBuffer, streams, sent, pastError, clientVars, own>>

\* Nothing was appended for _BUFFER_TTL_S.
ExpireBuffer ==
    /\ sseBuffer # <<>>
    /\ sseBuffer' = <<>> /\ own' = FALSE
    /\ UNCHANGED <<streamVars, clientVars>>

ResNext ==
    \/ AskQuestion \/ ReadEvent \/ FinishReading \/ BreakConnection \/ Reconnect
    \/ BeginStream \/ EndReplay \/ ExpireBuffer
    \/ \E s \in StreamIds :
          SendText(s) \/ SendError(s) \/ SendDone(s) \/ CloseStream(s)

ResSpec == ResInit /\ [][ResNext]_resVars

-----------------------------------------------------------------------------
ResTypeOK ==
    /\ sseBuffer \in Seq(SseEvents) /\ Len(sseBuffer) <= MaxBuffer
    /\ streams \in 0 .. MaxStreams
    /\ streamState \in [StreamIds -> {"none", "open", "busy", "over"}]
    /\ sent \in [StreamIds -> 0 .. MaxEvents + 2]
    /\ pastError \in [StreamIds -> BOOLEAN]
    /\ client \in {"idle", "asking", "reading", "broken"}
    /\ breaks \in 0 .. MaxBreaks /\ reads \in 0 .. MaxStreams /\ sawEnd \in BOOLEAN
    /\ wire \in Seq(SseEvents) /\ shown \in Seq(SseEvents)
    /\ own \in BOOLEAN

\* How many of the first n events are of stream s.
CountOf(s, events, n) == Cardinality({k \in 1 .. n : events[k].stream = s})

\* However often the connection breaks, what the client shows of a stream
\* has no gap and no repetition, when the list held nothing but this
\* question (none of the last minutes before it, no event trimmed, expired
\* or not written), no stream wrote on behind a replay, and none that the
\* client had lost wrote while it was connected to a later one: the events
\* the client counts are then not the first ones of the list.
ShownWithoutGapOrRepeat ==
    own => \A i \in DOMAIN shown :
              shown[i].place = CountOf(shown[i].stream, shown, i)
=============================================================================
