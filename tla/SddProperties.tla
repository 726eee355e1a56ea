--------------------------- MODULE SddProperties ----------------------------
(***************************************************************************)
(* What customer-sdd owes its clients, stated over SddService.             *)
(***************************************************************************)
EXTENDS SddService

-----------------------------------------------------------------------------
(* Safety: states.                                                         *)

\* No two customer rows, DELETED ones included, have the same e-mail or the
\* same identification (RN-001, Q-001), although the use cases look for
\* duplicates and write in different statements.
UniqueKeys ==
    \A c, d \in Customers : \A k \in Keys :
        c # d /\ customers[c] # None /\ customers[d] # None
            => customers[c][k] # customers[d][k]

\* RN-003 for the addresses no UpdateAddress brought back to life: concurrent
\* creations never take a customer over the limit.
AddressLimit ==
    \A c \in Customers : Cardinality(ActiveOf(c) \ revived) <= MaxAddresses

\* RN-004 with the same exception: an ACTIVE address has a customer that is
\* not DELETED, whatever was in flight when the customer was deleted.
NoOrphans ==
    \A a \in Addresses :
        VisibleAddress(a) /\ a \notin revived => VisibleCustomer(addresses[a].owner)

\* flask_app.py commits after every response: a request that answers with an
\* error has no uncommitted version left that this commit would publish.
RejectedLeaveNothing ==
    \A r \in Requests :
        pc[r] = "respond" /\ code[r] # "OK"
            => newCustomers[r] = NoCustomers /\ newAddresses[r] = NoAddresses

\* The order in which the use cases lock rows (customer before its addresses,
\* at most one address otherwise) excludes a deadlock on row locks: one needs
\* the wait for a unique index.
NoRowDeadlock ==
    ~\E S \in SUBSET Requests :
        S # {} /\ \A r \in S : \E q \in S : RowWait(r, q)

\* A DeleteAddress that answers 200 has the address marked DELETED in its
\* transaction, unless a stale UpdateAddress brought it back between the two
\* reads of the deletion.  That is as much as the answer can say: the commit is
\* still to come, and a teardown whose commit fails takes the deletion back.
AckedDeletionHolds ==
    \A r \in Requests :
        pc[r] = "respond" /\ code[r] = "OK" /\ req[r].op = "DeleteAddress"
            => \/ Deletes(r, req[r].address)
               \/ req[r].address \in revived

-----------------------------------------------------------------------------
(* Safety: steps.                                                          *)

AppearsCustomer(c) == customers[c] = None /\ customers'[c] # None
AppearsAddress(a)  == addresses[a] = None /\ addresses'[a] # None

\* A customer becomes visible together with all the addresses of its request,
\* at most MaxAddresses, and an address only under an existing customer.
CreatedWhole ==
    [][/\ \A c \in Customers : AppearsCustomer(c) =>
            \E r \in Requests :
                /\ req[r].op = "CreateCustomer" /\ req[r].customer = c
                /\ Cardinality(req[r].fresh) <= MaxAddresses
                /\ \A a \in req[r].fresh :
                       addresses'[a] = [owner |-> c, status |-> "ACTIVE"]
       /\ \A a \in Addresses : AppearsAddress(a) => customers'[addresses'[a].owner] # None
      ]_vars

\* plan.md 1.1: deletions are logical: no row ever disappears, and no address
\* changes hands.
RowsPersist ==
    [][/\ \A c \in Customers : customers[c] # None => customers'[c] # None
       /\ \A a \in Addresses : addresses[a] # None =>
            addresses'[a] # None /\ addresses'[a].owner = addresses[a].owner
      ]_vars

-----------------------------------------------------------------------------
(* What the documents claim and the code does not keep (the violation runs). *)

\* spec.md RN-003, plan.md 1.4: a customer never has more than the limit of
\* active addresses.
DocAddressLimit ==
    \A c \in Customers : Cardinality(ActiveOf(c)) <= MaxAddresses

\* delete_customer.py: no address is left ACTIVE under a deleted customer.
DocNoOrphans ==
    \A a \in Addresses : VisibleAddress(a) => VisibleCustomer(addresses[a].owner)

\* plan.md 1.1: a deleted entity behaves as not found for new operations: what
\* a deletion hid no later lookup finds.
DocDeletedIsFinal ==
    [][\A c \in Customers :
          customers[c] # None /\ ~VisibleCustomer(c) => ~VisibleCustomer(c)']_vars

\* plan.md 2.1: entity_status is the status of the entity after the operation,
\* ACTIVE after an update and DELETED after a deletion.
DocEntityStatus ==
    [][\A r \in Requests :
          pc[r] = "respond" /\ pc'[r] = "idle" /\ code[r] = "OK"
             => /\ req[r].op = "UpdateCustomer" =>
                      customers'[req[r].customer].status = "ACTIVE"
                /\ req[r].op = "DeleteCustomer" =>
                      customers'[req[r].customer].status = "DELETED"]_vars

-----------------------------------------------------------------------------
(* Liveness.  A server thread keeps executing the statements of its request *)
(* (weak fairness), and PostgreSQL queues the transactions that wait for a  *)
(* row or an index entry, so a statement that becomes possible again and    *)
(* again is executed (strong fairness).  The database need not fail.        *)

Fairness == \A r \in Requests : SF_vars(Statement(r)) /\ WF_vars(Teardown(r))

FairSpec == Spec /\ Fairness

\* Every request is answered and its transaction ended: row locks, the waits
\* for unique keys and the deadlocks they can cause never hold one up for ever.
EveryRequestEnds == \A r \in Requests : pc[r] # "idle" ~> pc[r] = "idle"
=============================================================================
