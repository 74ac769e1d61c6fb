---------------------------- MODULE SessionTitle ----------------------------
(* The title of a conversation: the first question at first, cut to 50      *)
(* characters (find_or_create_session), later what the user calls it        *)
(* (rename_session) or what the model makes of the conversation (the task   *)
(* chat.generate_session_title).  The finalization of a turn and the task   *)
(* itself both ask whether the title still is the question of that turn,    *)
(* and the task writes the answer of the model some seconds after it asked. *)
EXTENDS Integers

CONSTANTS Short, Long,   \* questions within and beyond the 50 characters
          Cut,           \* [Long -> titles]: their first 50 characters
          Names,         \* what a user or the model may call it
          Workers,
          MaxWrites,     \* bound: changes of the title
          NoTitle

ASSUME TitleAssumption ==
    /\ MaxWrites \in Nat
    /\ \A q \in Long : Cut[q] \notin Long \cup {NoTitle}
    /\ NoTitle \notin Short \cup Long \cup Names
    /\ Names \cap (Short \cup Long) = {}

Questions == Short \cup Long
TitleOf(q) == IF q \in Long THEN Cut[q] ELSE q
Titles == Short \cup {Cut[q] : q \in Long} \cup Names \cup {NoTitle}

VARIABLES
    title,      \* ConversationSession.title, or NoTitle before the first turn
    givenBy,    \* history: "nobody", "question", "user" or "model"
    written,    \* history: how often the title was written
    titleQueue, \* questions of the queued tasks
    asking,     \* [Workers -> Questions \cup {NoTitle}]: tasks in the model call
    askedAt     \* history: [Workers -> Nat], written when the task read the title

titleVars == <<title, givenBy, written, titleQueue, asking, askedAt>>

TitleInit ==
    /\ title = NoTitle /\ givenBy = "nobody" /\ written = 0
    /\ titleQueue = {}
    /\ asking = [w \in Workers |-> NoTitle]
    /\ askedAt = [w \in Workers |-> 0]

WriteTitle(new, by) ==
    /\ title' = new /\ givenBy' = by
    /\ written' = written + 1

BeginSession ==
    /\ title = NoTitle
    /\ \E q \in Questions : WriteTitle(TitleOf(q), "question")
    /\ UNCHANGED <<titleQueue, asking, askedAt>>

\* The end of finalize_stream: the turn asked q and has an answer; the
\* dispatch may fail.
FinishTurn ==
    /\ title # NoTitle
    /\ \E q \in Questions :
          /\ title = q
          /\ titleQueue' = titleQueue \cup {q}
    /\ UNCHANGED <<title, givenBy, written, asking, askedAt>>

RenameSession ==
    /\ title # NoTitle /\ written < MaxWrites
    /\ \E new \in Names \cup Short : WriteTitle(new, "user")
    /\ UNCHANGED <<titleQueue, asking, askedAt>>

\* Mutant: the task does not look at the title before it asks the model.
MutAskForTitle(w) ==
    /\ asking[w] = NoTitle
    /\ \E q \in titleQueue :
          /\ titleQueue' = titleQueue \ {q}
          /\ asking' = [asking EXCEPT ![w] = q]
          /\ askedAt' = [askedAt EXCEPT ![w] = written]
    /\ UNCHANGED <<title, givenBy, written>>

\* task_generate_session_title up to the call of the model.
AskForTitle(w) ==
    /\ asking[w] = NoTitle
    /\ \E q \in titleQueue :
          /\ titleQueue' = titleQueue \ {q}
          /\ IF title = q
             THEN /\ asking' = [asking EXCEPT ![w] = q]
                  /\ askedAt' = [askedAt EXCEPT ![w] = written]
             ELSE UNCHANGED <<asking, askedAt>>
    /\ UNCHANGED <<title, givenBy, written>>

\* The model answered, with an empty title or an error in the second case.
TakeTitle(w) ==
    /\ asking[w] # NoTitle
    /\ \/ written < MaxWrites /\ \E new \in Names : WriteTitle(new, "model")
       \/ UNCHANGED <<title, givenBy, written>>
    /\ asking' = [asking EXCEPT ![w] = NoTitle]
    /\ askedAt' = [askedAt EXCEPT ![w] = 0]
    /\ UNCHANGED titleQueue

TitleNext ==
    \/ BeginSession \/ FinishTurn \/ RenameSession
    \/ \E w \in Workers : AskForTitle(w) \/ TakeTitle(w)

TitleSpec == TitleInit /\ [][TitleNext]_titleVars

-----------------------------------------------------------------------------
TitleTypeOK ==
    /\ title \in Titles
    /\ givenBy \in {"nobody", "question", "user", "model"}
    /\ written \in 0 .. MaxWrites + 1
    /\ titleQueue \subseteq Questions
    /\ asking \in [Workers -> Questions \cup {NoTitle}]
    /\ askedAt \in [Workers -> Nat]

\* A name the user chose is lost to the model only when the user chose it
\* while a task was waiting for the model, or when it is word for word a
\* question; a task that starts after the rename drops itself.  (The task's
\* own test, "the title still is the question", is made before the model is
\* called and not repeated in the UPDATE.)
RenameLostOnlyInTheCall ==
    [][givenBy = "user" /\ title \in Names /\ givenBy' = "model"
       => \E w \in Workers : asking[w] # NoTitle /\ askedAt[w] < written]_titleVars
=============================================================================
