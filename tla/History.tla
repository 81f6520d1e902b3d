------------------------------- MODULE History -------------------------------
(***************************************************************************)
(* Reading the history of a chat page by page, newest first                *)
(* (GetChatMessages of internal/chat/service.go), while messages are sent  *)
(* to it.  A page ends where its oldest message is; the next one asks for  *)
(* what was created strictly before that message.  One reader and one      *)
(* chat; rows are only added, a deleted message keeps its row.             *)
(***************************************************************************)
EXTENDS Naturals, FiniteSets, FiniteSetsExt

CONSTANTS Message,    \* message ids
          Limit,      \* messages of a page
          MaxTime,    \* bound of the clock
          MaxFailed,  \* bound of the failed lookups
          NoMessage

ASSUME HistoryAssumption ==
    /\ Limit \in Nat \ {0}
    /\ MaxTime \in Nat
    /\ MaxFailed \in Nat
    /\ NoMessage \notin Message

VARIABLES stored,    \* table messages
          at,        \* created_at: 0 until the sender took the timestamp
          clock,
          reader,    \* where the reader is: see Place
          cursor,    \* the message before which the next page ends
          bound,     \* beforeTimeMs: 0 when there is none
          times,     \* how often each message was returned
          atStart,   \* what was stored when the first page was asked for
          failed,    \* lookups of a cursor that failed so far
          cut        \* history: the last page broke off, and nobody noticed

reading == <<reader, cursor, bound, times, atStart, failed, cut>>
historyVars == <<stored, at, clock, reading>>

Place == {"closed", "lookup", "fetch", "done"}

HistoryTypeOK ==
    /\ stored \in SUBSET Message
    /\ at \in [Message -> Nat]
    /\ clock \in Nat
    /\ reader \in Place
    /\ cursor \in Message \cup {NoMessage}
    /\ bound \in Nat
    /\ times \in [Message -> Nat]
    /\ atStart \in SUBSET Message
    /\ failed \in Nat
    /\ cut \in BOOLEAN

HistoryInit ==
    /\ stored = {}
    /\ at = [m \in Message |-> 0]
    /\ clock = 1
    /\ reader = "closed"
    /\ cursor = NoMessage
    /\ bound = 0
    /\ times = [m \in Message |-> 0]
    /\ atStart = {}
    /\ failed = 0
    /\ cut = FALSE

-----------------------------------------------------------------------------
Tick ==
    /\ clock < MaxTime
    /\ clock' = clock + 1
    /\ UNCHANGED <<stored, at, reading>>

\* A sender takes the timestamp first and inserts the row later: rows may
\* appear in another order than that of their timestamps.
Stamp(m) ==
    /\ at[m] = 0
    /\ at' = [at EXCEPT ![m] = clock]
    /\ UNCHANGED <<stored, clock, reading>>

Insert(m) ==
    /\ at[m] > 0
    /\ m \notin stored
    /\ stored' = stored \cup {m}
    /\ UNCHANGED <<at, clock, reading>>

-----------------------------------------------------------------------------
\* The first page has no cursor.
Open ==
    /\ reader = "closed"
    /\ reader' = "fetch"
    /\ bound' = 0
    /\ atStart' = stored
    /\ UNCHANGED <<stored, at, clock, cursor, times, failed, cut>>

Lookup ==
    /\ reader = "lookup"
    /\ bound' = at[cursor]
    /\ reader' = "fetch"
    /\ UNCHANGED <<stored, at, clock, cursor, times, atStart, failed, cut>>

\* The error of the lookup is ignored: the query runs without a bound.
LookupFails ==
    /\ reader = "lookup"
    /\ failed < MaxFailed
    /\ failed' = failed + 1
    /\ bound' = 0
    /\ reader' = "fetch"
    /\ UNCHANGED <<stored, at, clock, cursor, times, atStart, cut>>

\* The rows the query matches.
Matching_Inclusive == {m \in stored : bound > 0 => at[m] <= bound}
Matching == {m \in stored : bound > 0 => at[m] < bound}

\* ORDER BY created_at DESC: the newest, in any order where equal; LIMIT: as
\* many as there are, up to the limit.
Newest_Ascending(page) ==
    /\ page \subseteq Matching
    /\ \A m \in page, k \in Matching \ page : at[m] <= at[k]
Newest(page) ==
    /\ page \subseteq Matching
    /\ \A m \in page, k \in Matching \ page : at[m] >= at[k]
PageSize == Min({Limit, Cardinality(Matching)})

Receive(page) == times' = [m \in Message |-> times[m] + (IF m \in page THEN 1 ELSE 0)]

\* The reader goes on until a page is not full.
Fetch(page) ==
    /\ reader = "fetch"
    /\ Newest(page) /\ Cardinality(page) = PageSize
    /\ Receive(page)
    /\ IF Cardinality(page) < Limit
       THEN reader' = "done" /\ UNCHANGED cursor
       ELSE /\ reader' = "lookup"
            /\ \E m \in page : /\ \A k \in page : at[m] <= at[k]
                               /\ cursor' = m
    /\ UNCHANGED <<stored, at, clock, bound, atStart, failed, cut>>

\* The iteration over the rows ends with an error, which is not looked at
\* (no rows.Err()): what had been read is returned as if it were all there
\* is, and the reader takes the short page for the last one.
FetchCut(page) ==
    /\ reader = "fetch"
    /\ Newest(page) /\ Cardinality(page) < PageSize
    /\ Receive(page)
    /\ reader' = "done"
    /\ cut' = TRUE
    /\ UNCHANGED <<stored, at, clock, cursor, bound, atStart, failed>>

HistoryNext ==
    \/ Tick
    \/ \E m \in Message : Stamp(m) \/ Insert(m)
    \/ Open \/ Lookup \/ LookupFails
    \/ \E page \in SUBSET stored : Fetch(page) \/ FetchCut(page)

HistorySpec == HistoryInit /\ [][HistoryNext]_historyVars

-----------------------------------------------------------------------------
\* No message is on two pages, whatever is sent between them, as long as
\* every lookup of a cursor succeeded.
NoRepeat == failed = 0 => \A m \in Message : times[m] <= 1

\* "Paginated chat history" (README.md:72), as far as it goes.  Of what was
\* stored when the reader began, it has at all times the newest part, whatever
\* is stored meanwhile and whichever lookups fail: a message it does not have
\* either has the timestamp of one it has (a page that ends between two equal
\* timestamps leaves the second one out for good) or is older than all it has.
\* The latter is over when it comes to the end, unless its last page broke off.
NoGaps ==
    \A m \in atStart : times[m] = 0 =>
        \/ \E k \in stored \ {m} : at[k] = at[m] /\ times[k] > 0
        \/ /\ reader # "done" \/ cut
           /\ \A k \in Message : times[k] > 0 => at[m] < at[k]
=============================================================================
