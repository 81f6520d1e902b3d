------------------------------ MODULE ConnPool ------------------------------
(***************************************************************************)
(* The connections of the database (internal/database/database.go opens    *)
(* the pool of database/sql with a maximum) and the handlers that use it.  *)
(* Most of them hold one connection at a time.  GetUserChats of            *)
(* internal/chat/service.go and GetFolders of internal/folder/service.go   *)
(* run queries while the rows of another query are open: they hold one     *)
(* connection and wait for a second.  No query has a context: a handler    *)
(* waits for a connection for as long as it takes.                         *)
(***************************************************************************)
EXTENDS Naturals, FiniteSets

CONSTANTS Worker,   \* goroutines, one call at a time
          Lister,   \* those that run GetUserChats or GetFolders
          Conn,     \* the connections: DB_MAX_READERS + 1 of them
          MaxRows,  \* bound of the rows of a list
          NoConn

ASSUME PoolAssumption ==
    /\ IsFiniteSet(Worker) /\ Lister \subseteq Worker
    /\ IsFiniteSet(Conn) /\ Conn # {}
    /\ MaxRows \in Nat
    /\ NoConn \notin Conn

VARIABLES stage,    \* where each worker is
          outer,    \* the connection of its statement, or of its open rows
          inner,    \* the connection of its nested query
          left      \* the rows it has still to read

poolVars == <<stage, outer, inner, left>>

PoolStage == {"idle", "query", "rows", "nested query", "nested"}
Waits(w) == stage[w] \in {"query", "nested query"}
Free(c)  == \A w \in Worker : outer[w] # c /\ inner[w] # c

PoolTypeOK ==
    /\ stage \in [Worker -> PoolStage]
    /\ outer \in [Worker -> Conn \cup {NoConn}]
    /\ inner \in [Worker -> Conn \cup {NoConn}]
    /\ left \in [Worker -> 0..MaxRows]

PoolInit ==
    /\ stage = [w \in Worker |-> "idle"]
    /\ outer = [w \in Worker |-> NoConn]
    /\ inner = [w \in Worker |-> NoConn]
    /\ left = [w \in Worker |-> 0]

-----------------------------------------------------------------------------
\* A request comes in; its handler asks for a connection.
Call(w) ==
    /\ stage[w] = "idle"
    /\ stage' = [stage EXCEPT ![w] = "query"]
    /\ UNCHANGED <<outer, inner, left>>

Query(w, c) ==
    /\ stage[w] = "query"
    /\ Free(c)
    /\ outer' = [outer EXCEPT ![w] = c]
    /\ stage' = [stage EXCEPT ![w] = "rows"]
    /\ \E n \in (IF w \in Lister THEN 0..MaxRows ELSE {0}) : left' = [left EXCEPT ![w] = n]
    /\ UNCHANGED inner

\* A row of the list needs queries of its own, one after the other; one
\* stands for them.
NextRow(w) ==
    /\ stage[w] = "rows"
    /\ left[w] > 0
    /\ left' = [left EXCEPT ![w] = @ - 1]
    /\ stage' = [stage EXCEPT ![w] = "nested query"]
    /\ UNCHANGED <<outer, inner>>

NestedQuery(w, c) ==
    /\ stage[w] = "nested query"
    /\ Free(c)
    /\ inner' = [inner EXCEPT ![w] = c]
    /\ stage' = [stage EXCEPT ![w] = "nested"]
    /\ UNCHANGED <<outer, left>>

\* The rows of the nested query are not closed.
NestedDone_KeepsRows(w) ==
    /\ stage[w] = "nested"
    /\ stage' = [stage EXCEPT ![w] = "rows"]
    /\ UNCHANGED <<outer, inner, left>>
NestedDone(w) ==
    /\ stage[w] = "nested"
    /\ inner' = [inner EXCEPT ![w] = NoConn]
    /\ stage' = [stage EXCEPT ![w] = "rows"]
    /\ UNCHANGED <<outer, left>>

\* The statement is done, or the rows are closed: after the last one, or
\* early because of an error.
Done_KeepsRows(w) ==
    /\ stage[w] = "rows"
    /\ stage' = [stage EXCEPT ![w] = "idle"]
    /\ left' = [left EXCEPT ![w] = 0]
    /\ UNCHANGED <<outer, inner>>
Done(w) ==
    /\ stage[w] = "rows"
    /\ outer' = [outer EXCEPT ![w] = NoConn]
    /\ stage' = [stage EXCEPT ![w] = "idle"]
    /\ left' = [left EXCEPT ![w] = 0]
    /\ UNCHANGED inner

Work(w)  == NextRow(w) \/ NestedDone(w) \/ Done(w)
Enter(w) == \E c \in Conn : Query(w, c) \/ NestedQuery(w, c)

PoolNext == \E w \in Worker : Call(w) \/ Enter(w) \/ Work(w)

PoolSpec == PoolInit /\ [][PoolNext]_poolVars

\* A handler that does not wait goes on.  database/sql gives a returned
\* connection to one of those that wait, chosen at random: nobody is passed
\* over for ever.
PoolFairSpec == PoolSpec /\ \A w \in Worker : WF_poolVars(Work(w)) /\ SF_poolVars(Enter(w))

-----------------------------------------------------------------------------
\* The pool is exhausted: every connection has the open rows of a list whose
\* handler waits for another one.  Nothing bounds how many lists are read at
\* once, so a server gets there with as many of them as it has connections,
\* and stays there: no query has a context that would end the wait.
Exhausted == \A c \in Conn : \E w \in Worker : stage[w] = "nested query" /\ outer[w] = c

\* There is no other way to be stuck.  Whenever there is work to do, some
\* handler can go on, or lists hold all connections among themselves: no
\* connection is lost to a handler that has returned or waits for its first.
NeverStuck ==
    (\E w \in Worker : stage[w] # "idle")
        => \/ \E w \in Worker : stage[w] # "idle" /\ (~Waits(w) \/ \E c \in Conn : Free(c))
           \/ Exhausted

\* Once exhausted, the pool serves nobody any more.
StaysExhausted == [][Exhausted => Exhausted']_poolVars

\* Every request is answered ("concurrent reader connection pooling",
\* README.md:10), whoever else waits, unless the pool gets exhausted.
EveryCallReturns == \A w \in Worker : stage[w] = "query" ~> stage[w] = "idle" \/ Exhausted
=============================================================================
