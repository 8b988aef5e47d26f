------------------------------ MODULE Conversation ------------------------------
(***************************************************************************)
(* Reading back a conversation: the discussion of an incident's team and the  *)
(* conversation with the assistant are delivered the newest messages first,   *)
(* a page at a time, each older page being asked for `before` the oldest      *)
(* message that is already shown, while others write.                        *)
(*                                                                         *)
(* A message is dated by the process that stores it, before it is stored, so  *)
(* messages may appear in an order that is not the one of their dates, and    *)
(* two of them may have the same date.  Identifiers are drawn at random.     *)
(***************************************************************************)
EXTENDS Naturals, FiniteSets

CONSTANTS Writers,      \* the requests that store messages
          People,       \* those who write
          Ids,          \* identifiers, in their order
          MaxDate,      \* the last date of the model (a bound of the model)
          Limits,       \* the page sizes clients ask for
          MaxLimit,     \* the largest page
          NoMessage     \* nothing

ASSUME IdsAssumption == Ids \subseteq Nat
ASSUME LimitsAssumption == Limits \subseteq Nat /\ MaxLimit \in Nat \ {0} /\ MaxDate \in Nat

VARIABLES clock,        \* the date
          sent,         \* history: every message there has been
          messages,     \* those that are stored
          storing,      \* the dated message each request is about to store
          phase,        \* where the reader is
          cursor,       \* the message that the next page comes before
          shown,        \* what the reader has been given
          repeated,     \* history: the reader was given something twice
          owed          \* history: what was there at the first page and still is

readerVars == <<phase, cursor, shown, repeated, owed>>
writerVars == <<clock, sent, messages, storing>>
convVars == <<writerVars, readerVars>>

Message == [at : 0 .. MaxDate, id : Ids, by : People]
ASSUME NoMessageAssumption == NoMessage \notin Message

\* The order of the pages: by date, then by identifier.
Older(m, n) == m.at < n.at \/ (m.at = n.at /\ m.id < n.id)

ConvInit == /\ clock = 0 /\ sent = {} /\ messages = {} /\ storing = [t \in Writers |-> NoMessage]
            /\ phase = "closed" /\ cursor = NoMessage
            /\ shown = {} /\ repeated = FALSE /\ owed = {}

-----------------------------------------------------------------------------
(* Writing.                                                                *)

Send(t, id, p) ==
    /\ storing[t] = NoMessage /\ \A m \in sent : m.id # id
    /\ LET m == [at |-> clock, id |-> id, by |-> p]
       IN  storing' = [storing EXCEPT ![t] = m] /\ sent' = sent \cup {m}
    /\ UNCHANGED <<clock, messages, readerVars>>
Store(t) ==
    /\ storing[t] # NoMessage
    /\ messages' = messages \cup {storing[t]}
    /\ storing' = [storing EXCEPT ![t] = NoMessage]
    /\ UNCHANGED <<clock, sent, readerVars>>
WriterDies(t) ==
    /\ storing[t] # NoMessage /\ storing' = [storing EXCEPT ![t] = NoMessage]
    /\ UNCHANGED <<clock, sent, messages, readerVars>>
\* A deleted collaboration or account takes the messages of its user away.
Erase(p) ==
    /\ messages' = {m \in messages : m.by # p}
    /\ owed' = owed \cap messages'
    /\ UNCHANGED <<clock, sent, storing, phase, cursor, shown, repeated>>
Tick == /\ clock < MaxDate /\ clock' = clock + 1
        /\ UNCHANGED <<sent, messages, storing, readerVars>>

-----------------------------------------------------------------------------
(* Reading.                                                                *)

\* "limit = max(1, min(limit, 100))".
Clamped(limit) == IF limit < 1 THEN 1 ELSE IF limit > MaxLimit THEN MaxLimit ELSE limit
Newest(S, n) == {m \in S : Cardinality({o \in S : Older(m, o)}) < n}
OldestOf(m, S) == m \in S /\ \A o \in S : o = m \/ Older(m, o)

\* What comes before the cursor.
\* Faulty variant: only what has an earlier date.
BeforeDate == {m \in messages : m.at < cursor.at}
Before == {m \in messages : Older(m, cursor)}

\* The rows of a page among S, and what the client asks for next: one row more than
\* the page tells whether there is another page, and its oldest row is the cursor.
Deliver(S, n) ==
    LET page == Newest(S, n) IN
    /\ shown' = shown \cup page
    /\ repeated' = (repeated \/ page \cap shown # {})
    /\ IF Cardinality(S) > n
       THEN /\ phase' = "more"
            /\ \E c \in page : OldestOf(c, page) /\ cursor' = c
       ELSE phase' = "done" /\ cursor' = NoMessage
    /\ UNCHANGED writerVars

Open(limit) ==
    phase = "closed" /\ Deliver(messages, Clamped(limit)) /\ owed' = messages
\* Without a limit, everything.
OpenWhole ==
    /\ phase = "closed" /\ phase' = "done" /\ shown' = messages /\ owed' = messages
    /\ UNCHANGED <<writerVars, cursor, repeated>>
\* An unknown `before` is answered with 400, and the reader goes no further.
FindCursor ==
    /\ phase = "more" /\ phase' = IF cursor \in messages THEN "found" ELSE "lost"
    /\ UNCHANGED <<writerVars, cursor, shown, repeated, owed>>
OpenOlder(limit) ==
    /\ phase = "found" /\ UNCHANGED owed
    /\ Deliver(Before, Clamped(limit))
\* The reader leaves, is not let in any more, or starts again.
Close == /\ phase # "closed" /\ phase' = "closed" /\ cursor' = NoMessage
         /\ shown' = {} /\ owed' = {} /\ UNCHANGED <<writerVars, repeated>>

Writing == \/ \E t \in Writers : Store(t) \/ WriterDies(t) \/ \E id \in Ids, p \in People : Send(t, id, p)
           \/ \E p \in People : Erase(p)
           \/ Tick
Reading == \/ \E limit \in Limits : Open(limit) \/ OpenOlder(limit)
           \/ OpenWhole \/ FindCursor \/ Close
ConvNext == Writing \/ Reading
ConvSpec == ConvInit /\ [][ConvNext]_convVars

-----------------------------------------------------------------------------
(* Properties.                                                             *)

\* Scrolling back to the beginning gives every message that was there when the
\* conversation was opened, and nothing twice: whatever is written or erased between
\* two pages, in whatever order messages of the same date are stored, and whatever
\* page sizes are asked for.
HistoryWhole == ~repeated /\ (phase = "done" => owed \subseteq shown)
=============================================================================
