------------------------------ MODULE SddStore ------------------------------
(***************************************************************************)
(* The two tables of customer-sdd and the PostgreSQL transactions in which *)
(* the service touches them, at READ COMMITTED (the driver's default: the  *)
(* service never sets another level).  Every request owns one session and  *)
(* therefore at most one transaction, so transactions are indexed by the   *)
(* request that runs them.                                                 *)
(*                                                                         *)
(* The texts of a row (name, age, street, ...) are dropped: no property    *)
(* tells two of them apart.  What remains is the logical status, the two   *)
(* UNIQUE columns and the owner of an address.                             *)
(***************************************************************************)
EXTENDS Integers, FiniteSets

CONSTANTS
    Customers,      \* customer ids (uuid4) that may ever be handed out
    Addresses,      \* address ids (uuid4) that may ever be handed out
    Emails,         \* normalised e-mail addresses
    Idents,         \* normalised identifications
    Requests,       \* the request threads that may be in flight at once
    None,           \* no row, no version, no value
    SeedCustomers,  \* rows committed before the behaviour starts
    SeedAddresses

Status == {"ACTIVE", "DELETED"}
Keys   == {"email", "ident"}       \* ux_customers_email, ux_customers_identification

CustomerRow == [status : Status, email : Emails, ident : Idents]
AddressRow  == [owner : Customers, status : Status]

ASSUME RowsAssumption ==
    /\ None \notin CustomerRow \cup AddressRow
    /\ None \notin Customers \cup Addresses
    /\ IsFiniteSet(Addresses)

\* The database starts with rows the service can have committed.
ASSUME SeedAssumption ==
    /\ SeedCustomers \in [Customers -> CustomerRow \cup {None}]
    /\ SeedAddresses \in [Addresses -> AddressRow \cup {None}]
    /\ \A c, d \in Customers :
           c # d /\ SeedCustomers[c] # None /\ SeedCustomers[d] # None
              => \A k \in Keys : SeedCustomers[c][k] # SeedCustomers[d][k]
    /\ \A a \in Addresses : SeedAddresses[a] # None =>
           /\ SeedCustomers[SeedAddresses[a].owner] # None
           /\ SeedAddresses[a].status = "ACTIVE" =>
                  SeedCustomers[SeedAddresses[a].owner].status = "ACTIVE"

VARIABLES
    customers,        \* newest committed version of every customer row
    addresses,        \* newest committed version of every address row
    newCustomers,     \* per transaction: its uncommitted customer versions
    newAddresses,     \* per transaction: its uncommitted address versions
    lockedCustomers,  \* per transaction: customer rows it has locked
    indexed           \* per transaction: unique indexes holding its new key

storeVars == <<customers, addresses, newCustomers, newAddresses,
               lockedCustomers, indexed>>
txVars    == <<newCustomers, newAddresses, lockedCustomers, indexed>>

NoCustomers == [c \in Customers |-> None]
NoAddresses == [a \in Addresses |-> None]

StoreTypeOK ==
    /\ customers \in [Customers -> CustomerRow \cup {None}]
    /\ addresses \in [Addresses -> AddressRow \cup {None}]
    /\ newCustomers \in [Requests -> [Customers -> CustomerRow \cup {None}]]
    /\ newAddresses \in [Requests -> [Addresses -> AddressRow \cup {None}]]
    /\ lockedCustomers \in [Requests -> SUBSET Customers]
    /\ indexed \in [Requests -> SUBSET Keys]

StoreInit ==
    /\ customers = SeedCustomers
    /\ addresses = SeedAddresses
    /\ newCustomers = [r \in Requests |-> NoCustomers]
    /\ newAddresses = [r \in Requests |-> NoAddresses]
    /\ lockedCustomers = [r \in Requests |-> {}]
    /\ indexed = [r \in Requests |-> {}]

-----------------------------------------------------------------------------
(* What a statement sees: the newest committed versions, read afresh by    *)
(* every statement.                                                        *)

VisibleCustomer(c) == customers[c] # None /\ customers[c].status # "DELETED"

VisibleAddress(a) == addresses[a] # None /\ addresses[a].status # "DELETED"

MutOwnedBy(c) == {a \in Addresses : addresses[a] # None /\ addresses[a].owner = c}

ActiveOf(c) == {a \in Addresses : VisibleAddress(a) /\ addresses[a].owner = c}

HasKey(row, k, v) == row # None /\ row[k] = v

-----------------------------------------------------------------------------
(* Row locks: held until the transaction ends, taken by UPDATE and by      *)
(* SELECT ... FOR UPDATE.  An address row is locked exactly by the         *)
(* transaction that has an uncommitted version of it.                      *)

CustomerLockFree(r, c) == \A q \in Requests \ {r} : c \notin lockedCustomers[q]

AddressLockFree(r, a) == \A q \in Requests \ {r} : newAddresses[q][a] = None

-----------------------------------------------------------------------------
(* The UNIQUE indexes.  They know nothing of the logical status: a DELETED *)
(* row keeps its key.  A committed row whose key an open transaction is    *)
(* changing, or a key an open transaction has just indexed, makes the      *)
(* writer wait for that transaction.                                       *)

KeyBusy(r, q, c, k, v) ==
    \E d \in Customers \ {c} :
        /\ newCustomers[q][d] # None
        /\ \/ HasKey(customers[d], k, v)
           \/ k \in indexed[q] /\ HasKey(newCustomers[q][d], k, v)

KeyFree(r, c, k, v) == \A q \in Requests \ {r} : ~KeyBusy(r, q, c, k, v)

MutNeverTaken(c, k, v) == FALSE

KeyTaken(c, k, v) == \E d \in Customers \ {c} : HasKey(customers[d], k, v)

-----------------------------------------------------------------------------
(* Writes of one transaction, and its end.                                 *)

WriteCustomer(r, c, row) ==
    /\ newCustomers' = [newCustomers EXCEPT ![r][c] = row]
    /\ lockedCustomers' = [lockedCustomers EXCEPT ![r] = @ \cup {c}]

WriteAddress(r, a, row) ==
    newAddresses' = [newAddresses EXCEPT ![r][a] = row]

MutLeakLocks(r) ==
    /\ newCustomers' = [newCustomers EXCEPT ![r] = NoCustomers]
    /\ newAddresses' = [newAddresses EXCEPT ![r] = NoAddresses]
    /\ indexed' = [indexed EXCEPT ![r] = {}]
    /\ UNCHANGED lockedCustomers

EndTransaction(r) ==
    /\ newCustomers' = [newCustomers EXCEPT ![r] = NoCustomers]
    /\ newAddresses' = [newAddresses EXCEPT ![r] = NoAddresses]
    /\ lockedCustomers' = [lockedCustomers EXCEPT ![r] = {}]
    /\ indexed' = [indexed EXCEPT ![r] = {}]

MutNoRollback(r) == UNCHANGED storeVars

Rollback(r) == EndTransaction(r) /\ UNCHANGED <<customers, addresses>>

CommittedCustomer(r, c) ==
    IF newCustomers[r][c] # None THEN newCustomers[r][c] ELSE customers[c]

MutPhysicalDelete(r, a) ==
    IF newAddresses[r][a] = None THEN addresses[a]
    ELSE IF newAddresses[r][a].status = "DELETED" THEN None ELSE newAddresses[r][a]

CommittedAddress(r, a) ==
    IF newAddresses[r][a] # None THEN newAddresses[r][a] ELSE addresses[a]

Commit(r) ==
    /\ customers' = [c \in Customers |-> CommittedCustomer(r, c)]
    /\ addresses' = [a \in Addresses |-> CommittedAddress(r, a)]
    /\ EndTransaction(r)
=============================================================================
