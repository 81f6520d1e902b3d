------------------------------ MODULE Contacts ------------------------------
(***************************************************************************)
(* Contacts (internal/contact/service.go).  AddContact inserts unless the  *)
(* pair is there, reads the profile and answers with the id it made up.    *)
(* GetContacts only reads.                                                 *)
(***************************************************************************)
EXTENDS Handlers

CONSTANT Id           \* ids of contacts; a fresh one for each AddContact

ASSUME ContactsAssumption == Nothing \notin Id

VARIABLES contact,    \* table contacts: the id of the row of a pair
          answered,   \* history: owner, contact and id of each answer to an AddContact
          void        \* history: ids whose insert was ignored or whose row was removed

contactTables == <<contact, answered, void>>

ContactsTypeOK ==
    /\ contact \in [User -> [User -> Id \cup {Nothing}]]
    /\ answered \in SUBSET (User \X User \X Id)
    /\ void \in SUBSET Id

ContactsInit ==
    /\ contact = [o \in User |-> [u \in User |-> Nothing]]
    /\ answered = {}
    /\ void = {}

Fresh(id) ==
    /\ id \notin void
    /\ \A o, u \in User : contact[o][u] # id

-----------------------------------------------------------------------------
AddContactInsert_Replaces(w, u, id) ==
    /\ At(w, "idle")
    /\ Fresh(id)
    /\ contact' = [contact EXCEPT ![UserOf[w]][u] = id]
    /\ Begin(w, "contact.answer", u, id)
    /\ UNCHANGED <<answered, void>>
\* INSERT OR IGNORE
AddContactInsert(w, u, id) ==
    /\ At(w, "idle")
    /\ Fresh(id)
    /\ IF contact[UserOf[w]][u] = Nothing
       THEN contact' = [contact EXCEPT ![UserOf[w]][u] = id] /\ UNCHANGED void
       ELSE void' = void \cup {id} /\ UNCHANGED contact
    /\ Begin(w, "contact.answer", u, id)
    /\ UNCHANGED answered

\* The profile is read, an error of it ignored, and the call answered.
AddContactAnswer(w) ==
    /\ At(w, "contact.answer")
    /\ answered' = answered \cup {<<UserOf[w], call[w].on, call[w].arg>>}
    /\ Return(w)
    /\ UNCHANGED <<contact, void>>

\* DELETE by the contact or by the id of the row, whichever key is.
RemoveContact(w, key) ==
    LET own     == contact[UserOf[w]]
        removed == {u \in User : own[u] # Nothing /\ key \in {u, own[u]}} IN
    /\ At(w, "idle")
    /\ contact' = [contact EXCEPT ![UserOf[w]] =
                     [u \in User |-> IF u \in removed THEN Nothing ELSE own[u]]]
    /\ void' = void \cup {own[u] : u \in removed}
    /\ UNCHANGED <<call, answered>>

ContactsNext(w) ==
    \/ \E u \in User, id \in Id : AddContactInsert(w, u, id)
    \/ AddContactAnswer(w)
    \/ \E key \in User \cup Id : RemoveContact(w, key)
=============================================================================
