----------------------------- MODULE Membership -----------------------------
(***************************************************************************)
(* The request service and the group service over the same chat tables:    *)
(* who comes to be in a chat with whom.                                    *)
(***************************************************************************)
EXTENDS Requests, Groups

vars == <<kind, role, call, status, blocks, missed>>

TypeOK == TablesTypeOK /\ RequestsTypeOK

Init == TablesInit /\ RequestsInit

\* A statement or a transaction fails: the handler returns an error and the
\* tables stay as they were.
Abort(w) ==
    /\ ~At(w, "idle")
    /\ Return(w)
    /\ UNCHANGED <<kind, role, status, blocks, missed>>

Next ==
    \E w \in Worker :
        \/ RequestsNext(w)
        \/ GroupsNext(w) /\ UNCHANGED <<status, blocks, missed>>
        \/ Abort(w)

Spec == Init /\ [][Next]_vars

-----------------------------------------------------------------------------
\* A direct chat is closed: it begins with the two parties of a request and
\* nobody ever joins it, although AddMember never looks at the type of the
\* chat: no direct chat has an owner, who alone could add.
DirectChatClosed ==
    [][\A c \in Chat :
        /\ kind[c] = "direct" => Members(c)' \subseteq Members(c)
        /\ kind[c] = "none" /\ kind'[c] = "direct" => \E p \in Pair : Members(c)' = {p[1], p[2]}]_vars

\* Nobody is being added to the chat by a call that has passed its check.
NoAddInFlight(c) == \A w \in Worker : At(w, "add.insert") => call[w].chat # c
Ownerless(c) == kind[c] = "group" /\ \A u \in User : role[c][u] # "owner"

\* A group whose owner has left is never managed again: no role is ever
\* granted but at creation, so that nobody can be added, and no check passes
\* (RemoveMember lets the owner leave).
OwnerlessIsFinal ==
    [][\A c \in Chat : Ownerless(c) /\ NoAddInFlight(c) =>
        /\ Ownerless(c)'
        /\ NoAddInFlight(c)'
        /\ Members(c)' \subseteq Members(c)]_vars

NoRequestInFlight(p) == \A w \in Worker : At(w, "request.upsert") => Sent(w) # p

\* "cannot send message request to this user" (request/service.go:150), as
\* far as it goes: once there is a block and the calls that were checked
\* before it are over, the pair never gets a new pending request, unless a
\* lookup of its blocks fails.
BlockStopsRequests ==
    [][\A p \in Pair : Blocked(p) /\ NoRequestInFlight(p) =>
        \/ p \in missed'
        \/ /\ Blocked(p)'
           /\ NoRequestInFlight(p)'
           /\ status'[p] = "pending" => status[p] = "pending"]_vars

\* A request that says "blocked" has its block ("Decline request / block",
\* README.md:70), whatever became of the requests in between, unless the
\* insert of the block failed.
BlockedHasBlock ==
    \A p \in Pair : status[p] = "blocked" => <<p[2], p[1]>> \in blocks \/ p \in missed

\* Nobody is accepting the request by a call that has read it.
NoAcceptInFlight(p) == \A w \in Worker : At(w, "accept.commit") => Received(w) # p

\* A direct chat between the two of pair p is made by this step.
NewDirectChat(p) ==
    \E c \in Chat : kind[c] = "none" /\ kind'[c] = "direct" /\ Members(c)' = {p[1], p[2]}

\* "request already processed" (request/service.go:76), as far as it goes:
\* from a request that has been answered, once the calls that read it before
\* are over, comes no chat until it is sent again.
AnsweredIsFinal ==
    [][\A p \in Pair :
        /\ status[p] # "pending" /\ NoAcceptInFlight(p) => NoAcceptInFlight(p)'
        /\ NewDirectChat(p) => \E q \in {p, <<p[2], p[1]>>} : ~NoAcceptInFlight(q)]_vars

\* The same, to the letter: a chat is created for a request that is pending
\* at that moment, which it then no longer is.
AcceptsPending ==
    [][\A c \in Chat : kind[c] = "none" /\ kind'[c] = "direct" =>
        \E p \in Pair :
            /\ Members(c)' = {p[1], p[2]}
            /\ status[p] = "pending"
            /\ status'[p] = "accepted"]_vars
=============================================================================
