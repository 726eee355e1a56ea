# TLA+ verification of the customer services

The repository holds three independent Flask services over PostgreSQL, all of
them an API of customers and their addresses: `customer-sdd`, `customer-hybrid`
and `customer-subagent`. Each has a model of its own here. `customer-sdd`, the
largest one, has transactions of several statements, explicit row locks and
unique constraints; the other two commit every statement that writes.

## Inventory

### customer-sdd

| Part | State | Operations | Correct when |
|---|---|---|---|
| use cases (`application/`) | the objects of one request | create, get, list, update, delete a customer; create, list, update, delete an address | limit of five active addresses (RN-003), no active address without a customer (RN-004, RN-005), unique e-mail and identification (RN-001), one result per request (RN-006) |
| repositories (`infrastructure/persistence/`) | the rows, through one SQLAlchemy session per request | lookups that ignore DELETED rows, insert, re-read and UPDATE of the dirty columns, cascade of a deletion, count under `FOR UPDATE` | unique violations become 409, deletions are logical |
| transaction lifecycle (`flask_app.py`, `db.py`) | the session of the thread | begin with the first statement, commit in the app-context teardown, rollback, release | an error response publishes nothing; locks are always released |
| HTTP layer (`infrastructure/http/`) | none | match the route, parse ids and bodies, collect errors, map codes to a status, build the envelope | an answer names every wrong field, has one status, and its own operation |
| value objects and entities (`domain/`) | none | validate, normalise, mark deleted | what they accept the columns accept, lengths and characters nobody can send apart; equal e-mails are stored equally |
| listing (`list_customers.py`, `list_paginated`) | none | normalise the page, count, select | total and page agree up to concurrent changes |
| start-up, logging, configuration | none | - | - |

The parts interact by calls inside one request thread. Requests interact only
through the database: rows, row locks, and the two unique indexes. What is hard
is what happens between two statements of a request: another request commits, a
lock or an index entry makes the request wait, the deadlock detector ends it, a
statement fails, or the commit after the response fails.

### customer-hybrid

| Part | State | Operations | Correct when |
|---|---|---|---|
| services (`application/services/`) | the objects of one request | create, get, list, update, delete a customer; create, get, list, patch, put, delete an address | no address without its customer; at most five addresses, as far as a check without a lock can; PATCH keeps the columns it does not name |
| repositories (`infrastructure/persistence/`) | the rows | one SELECT, or one write and its commit, per method; `upsert` has two | answers tell what was committed; only requests that name the owner change an address |
| web layer and DTOs | none | parse ids, validate bodies, map exceptions | - |

Deletions are physical and the foreign key cascades.

### customer-subagent

| Part | State | Operations | Correct when |
|---|---|---|---|
| use cases and entities | the objects of one request | the ten operations on customers and addresses | a deletion lasts, unless a request was in flight during it |
| repositories | the rows | SELECT; or a second SELECT of the row, then an INSERT or UPDATE with its commit, then a read of the expired model | e-mails are unique, deleted rows included; addresses are isolated by customer |
| web layer | none | parse, map exceptions | answers tell what was committed |

Deletions set `deleted_at`; deleting a customer leaves its addresses alone,
which are then reached only through a customer that is not found.

## Modules

| Module | Contents |
|---|---|
| `SddStore` | the tables `customers` and `addresses`, the uncommitted versions, row locks and index entries of each transaction, commit and rollback |
| `SddService` | the requests over `SddStore`: one action per SQL statement of the use cases, reception, teardown, failures, deadlock victims; EXTENDS `SddStore` |
| `SddProperties` | what the service owes its clients, and what its documents claim |
| `SddInvariants` | the inductive strengthening of the properties |
| `SddProofs`, `SddAddressProofs` | theorems for every value of the constants |
| `Registry` | the abstract specification of customer-sdd: a register of customers and addresses, in which a request is answered first and acts in one step afterwards |
| `SddRefinement` | the mapping under which `SddService` implements `Registry`, and what each open transaction has prepared |
| `SddRefinementProofs` | the proof that it does |
| `SddFields` | customer-sdd: pure operators, what parsers and value objects make of a body and what the columns accept |
| `SddHttp` | customer-sdd: routes, parsing, use case, listing and envelope of every answer; EXTENDS `SddFields` |
| `SddHttpProperties` | what the answers owe their clients, and its inductive strengthening |
| `SddFieldsProofs` | what the helpers on sequences return, and what the parsers make of every body |
| `SddHttpProofs` | theorems for every value of the constants |
| `Hybrid` | customer-hybrid: tables and requests, one action per statement |
| `HybridProperties` | its properties and their inductive strengthening |
| `HybridProofs` | theorems for every value of the constants |
| `Directory` | the abstract specification of customer-hybrid: customers, and addresses that belong to them, changed by a request at most once and in one step |
| `HybridRefinement` | the mapping under which `Hybrid` implements `Directory` |
| `HybridRefinementProofs` | the proof that it does |
| `Subagent` | customer-subagent: tables and requests, one action per statement |
| `SubagentProperties` | its properties and their inductive strengthening |
| `SubagentProofs` | theorems for every value of the constants |
| `MCSdd`, `MCSddHttp`, `MCHybrid`, `MCSubagent` | small instances for TLC |

The three services share neither a database nor code, so no module composes
them; `SddService` composes the store and the requests of the first. `SddHttp` and
`SddService` describe the same requests at two grains: `SddService` has every
statement and no text, `SddHttp` has the texts and the answers, and takes the
outcomes of the use cases on addresses as given by `SddService`.

### How the state corresponds to the code: customer-sdd

`customers` and `addresses` hold the newest committed version of every row
(`None`: no row). A row keeps its status, the two UNIQUE columns and the owner
of an address; the texts and the timestamps are dropped, since no property
tells two of them apart. A request `r` owns at most one transaction, so
`newCustomers[r]`, `newAddresses[r]`, `lockedCustomers[r]` and `indexed[r]` are
what that transaction wrote, locked and entered in the unique indexes.

`pc[r]` is the next SQL statement of the request, `req[r]` what the client
asked for together with the ids `uuid4` is going to generate, `entity[r]` the
domain object the use case read and changed, `loaded[r]` the row that
`update()` re-read, `todo[r]` the addresses still to insert or to mark DELETED,
`code[r]` the first error code. Two variables serve the check only: `failures`
counts database failures (bounded by `MaxFailures`), and `revived` remembers
the addresses that an overlapping UpdateAddress made ACTIVE again, so that the
properties below state exactly what the rest of the code keeps.

### What a step is: customer-sdd

The unit is the SQL statement. At READ COMMITTED (the service never sets
another level) each statement sees what is committed when it starts, and the
Python code between two statements touches only objects of its own request.

- The session holds its models weakly and `autoflush` is off: `get_by_id`
  converts the model to a domain object and lets it go, so `update()` reads the
  row again (`Reload`). It then assigns every attribute, but the ORM writes the
  columns that differ from what was re-read; the others keep the newest
  committed value (`Merged`).
- `UPDATE` and `SELECT ... FOR UPDATE` wait for the holder of the row
  (`CustomerLockFree`, `AddressLockFree`). `FOR UPDATE` evaluates its condition
  again on the version it waited for (`LockCustomer`).
- A row that is written enters its e-mail and then its identification in the
  unique indexes (`EnterIndex`). It waits while another open transaction is
  adding or removing the same key, and fails when a committed row has it
  (`DuplicateKey`), DELETED rows included. The repository rolls back and the
  error handlers answer 409.
- The deadlock detector may abort any member of a cycle of waits
  (`DeadlockVictim`, 500), and any statement or the final commit may fail
  (`StatementFails`, `TeardownFails`).
- A request that does not parse is answered before the use case
  (`Receive` with `parsed` false). The parsers call the same `validate()`
  methods as the use cases, so validation inside a use case that was reached
  finds nothing.

PostgreSQL is external code: its locks, indexes and commit are modelled from how
the repositories use them.

### What a request promises: customer-sdd

`Registry` says the same without statements, locks and versions: the two tables,
and for each request what it asked, what it has `noticed`, its `verdict`. A
request of this service acts after it was answered, when the teardown commits. So
`Registry` answers in one step (`Succeed`, `Refuse`, `Fail`) and changes the
tables in a later one (`Publish`), at which all that may have happened in between
shows. Between arrival and answer a request may notice that its customer or address
is there, that another customer has its e-mail, and which columns are as wanted already.

- A refusal must be justified by the register at the moment it is told, or by a
  rival noticed before (`Justified`), and publishes nothing (`Leave`).
- A success publishes all that was asked for, in one step, except columns
  noticed to be as wanted, which keep whatever they have become (`Replaced`, `Mark`).
- A new address finds its customer there, and room, when it is published (`MoveIn`).
- No change gives two customers the same key (`KeysDiffer`).

`SddRefinement` maps the tables onto themselves, codes onto verdicts, and
the point of a request and its re-read row onto what it has noticed. Writing this down
shows where the service promises less than one would like:

- a success may be lost when the commit fails (`Lose`);
- the columns that were left alone: an UpdateCustomer can succeed and leave the customer
  DELETED;
- a change is published on a register that may have changed: the customer of an `Edit`
  and the address of a `Mark` need not be there any more, and come back;
- a deletion of a customer writes back keys it read earlier, and misses addresses that
  were restored (`Remove`).

### The HTTP boundary: customer-sdd

`SddHttp` follows a request from its request line to its envelope.

- A JSON value is a record with its kind: absent, null, boolean, integer, text,
  list, object or anything else. A text is a word, padded with white space or
  not, in upper case or not. `Strip` and `Lower` are the conversions of the value
  objects; `EmailWords` are the words the e-mail pattern matches, `LongWords` those
  longer than a column, and `UnsendableWords` those with U+0000 or half of a surrogate
  pair: JSON and the value objects let them pass, the driver or PostgreSQL refuses
  them as a parameter (`Sendable`). An age is an integer, compared with 0 and 120.
- A route is the tuple of its method and its number of segments (`Routes`),
  with the operation and the entity that the use case writes into its result. What
  an exception handler writes is inferred from the request line
  (`InferOperation`, `InferEntity`), as in the code: the entity from the substring
  `/addresses`, that is from a segment that begins with the word (`AddressSegments`).
- `get_json(silent=True)` makes `None` of malformed JSON, which the parser rejects. A
  body nested deeper than the interpreter recurses (kind `nested`) raises past it and
  reaches the catch-all handler (`Unreadable`).
- `FieldErrors`, `EmbeddedErrors` and `BodyErrors` are the parsers: errors in the
  order of the fields, with the path to each. `CreationErrors` is the second
  validation, inside `CreateCustomer`, where the limit of addresses comes first.
- `CustomerFits`, `EmbeddedFit` and `AddressFits` are what a flush accepts, `KeysSendable`
  what the two lookups can send. Whatever fails is answered by the catch-all handler
  (`Unexpected`), at the statement where it fails: the lookups first, then the customer, then
  the unique indexes, and last the embedded addresses of a creation.
- `EnsureUnique` makes the two lookups in one step, and `WriteCustomer` the
  re-read, the UPDATE and its commit: what can happen between those statements is
  the subject of `SddService`. A request on an address is one step, ending in
  any code its use case has (`Rejections`).
- `uuid4` and `created_at` grow together: a creation draws the next of `Ids`.
  The listing counts in one step and selects in another; `churn`, a
  history field, counts the customers that came or went between them.

`customers` keeps the status, the e-mail and the identification as they are
stored. `Sends[r]` is what the client of thread `r` may send: in the run one
client sends everything that can be wrong, the other one changes customers.

### customer-hybrid

`customers` and `addresses` are the committed tables. An address keeps its
owner and its columns, because PATCH and PUT differ in which columns they
write; a customer keeps none. `req[r]` is the request with the uuid that `uuid4` will
generate for it: such an id is in no row and in no other request, and no client
names it before it was answered. `entity[r]` is the domain `Address` of a PATCH.

Every repository method writes with one statement and commits before it
returns, so a statement and its commit are one step: another transaction either
waits for that commit (row locks, the key share lock of the foreign key, the
primary key index) or sees what was there before. Reads are steps of their own.

- `InsertAddress` covers POST and the INSERT of `upsert`. An existing primary
  key and a missing customer raise the same `IntegrityError`, answered
  `USER_NOT_FOUND`.
- After its INSERT `upsert` converts the model, which the commit expired: the
  row is read again (`Refresh`), and when it is gone the answer is 503.
- The UPDATE of `update_partial` returns the id and answers 404 when nothing
  matched; the UPDATE of `upsert` does not look.
- `DeleteCustomer` removes the addresses with the customer.
- Any statement may fail (`StatementFails`): rollback and 503, except that the
  listing of customers raises an exception without a handler. Bodies that do not
  validate have no handler either (`UNHANDLED`).

`Directory` says the same without statements: `registered` customers, the
`home` of an address, and for each request what it asked, whether it has acted
and how it ends. `HybridRefinement` maps the tables onto them, `wrote` onto
`acted`, and the codes onto success, refusal and failure. Writing down what a
service of this kind promises shows where this one promises less:

- a PUT whose address was deleted after its SELECT is answered 200 although its
  UPDATE matches nothing (`Overtaken`: as if the deletion had come second);
- a PUT may have inserted its row and be told that the service failed
  (`Fail`), since the inserted row is read back;
- additions of addresses are refused for reasons that the directory
  does not show: the limit, and a duplicate key reported as a missing customer.

### customer-subagent

A row keeps the e-mail, the owner and whether `deleted_at` is set. A request
reads (`GetCustomer`, `GetAddress`), modifies its domain object (`entity[r]`),
reads the row again (`Reload` into `loaded[r]`: the first model is referenced no
longer, and the identity map is weak), and writes the columns that differ from
that second read (`Column`); the others keep what is committed. The write and
its commit are one step for the reason above; then the expired model is read for
the answer (`Refresh`), which may fail after the commit. Two updates that
exchange e-mails can wait for each other's index entry: PostgreSQL ends one of
them, which is a case of `StatementFails`. `overlapped[r]`, a history variable,
holds the rows whose deletion committed while `r` was in flight.

## Runs

| Run | Bounds | Question |
|---|---|---|
| `sdd_customers` | 2 threads, 2 customers, 2 address ids, 2 e-mails, 2 identifications, limit 2, an empty database | creation, update, deletion and reading of customers, two creations at once included: `TypeOK`, `UniqueKeys`, `RejectedLeaveNothing`, `CreatedWhole`, and the refinement of `Registry`, `ActsAtCommit` |
| `sdd_addresses` | 3 threads, 1 customer, 2 address ids, limit 1, one failure, no address at first | creation, update and deletion of addresses against a deletion of their customer: `AddressLimit`, `NoOrphans`, `NoRowDeadlock`, `AckedDeletionHolds`, `RowsPersist`, and `ActsAtCommit` with a commit that may fail |
| `sdd_liveness` | 2 threads, 2 customers, 1 address | `EveryRequestEnds` under fairness, index deadlocks included |
| `sdd_limit` | 2 threads | RN-003 as documented is violated |
| `sdd_orphan` | 2 threads | the absence of orphans as documented is violated |
| `sdd_revived` | 2 threads | a deleted customer is found again |
| `sdd_status` | 2 threads | `entity_status` differs from the row |
| `sdd_http` | 2 threads, 3 customer ids, 2 fields of an address, limit 1, default page 2, largest page 3, largest OFFSET 15 | everything a client may get wrong, while another client changes customers: `TypeOK`, `EveryBadFieldNamed`, `OneStatusPerAnswer`, `EnvelopeNamesOperation`, `ServerErrorsExplained`, `EmailsDifferInSubstance`, `PageAgreesWithTotal` |
| `hybrid_safety` | 2 threads, 2 customers, 3 address ids, 1 column of 2 values, limit 1, one failure | all eleven operations at once: `TypeOK`, `NoOrphans`, `BoundedOvershoot`, `AnswerTellsEffect`, `OnlyOwnerTouches`, and the refinement of `Directory`, `ActsAtOnce` |
| `hybrid_lost` | 2 threads, 2 columns | PATCH as documented is violated by a lost update |
| `subagent_safety` | 2 threads, 2 customers, 1 address, 2 e-mails, one failure | all ten operations at once: `TypeOK`, `UniqueEmails`, `AnswerTellsEffect`, `Isolation`, `DeletionsAreSeen` |
| `subagent_deleted` | 2 threads, 1 customer | a customer whose deletion is answered 200 is active |

In PROJECT.json a run has the name of its cfg, without `sdd_` and `_safety`.

Two threads exhibit every race between two requests; the address run has three
because its worst cases need a deletion, a creation and an update at once, or two
creations and a deletion. The limit of five is a constant, 1 or 2 in the runs: what
matters is a customer with one place left and two requests for it. Both runs start
without the rows they are about, so that all ids are fresh: in `sdd_addresses` two
creations are in flight for the only place (without the lock of `LockCustomer` both
count before either inserts), and in `sdd_customers` two creations race for a key,
or one for the key of an active or a deleted row. `NoRowDeadlock` is checked where
row locks meet: the cascade locks a customer and then its addresses, next to
requests that lock one address; a version of `UpdateAddressRow` that goes on to
lock the customer fails there. Two values of each key are enough for a duplicate
and for an exchange of keys between two customers, which is the only way to wait
in a circle. In `sdd_http` the bodies are a good one and one with a fault in every
field, each with every single field changed: a wrong field in the company of good
ones and of other wrong ones; and one with an address too many. The first two
fields of an address stand for five, which are checked alike. Pages of 1 to 3 over
at most 3 customers end before, at and after the
last one, and page 9 of size 3 is beyond the largest OFFSET. One failure can hit
any statement or commit. The runs check deadlock, so a state in which every request waits for another is an
error. `SYMMETRY` is used in the safety runs only.

Fairness (`FairSpec`): a request thread that can execute its next statement
does so, and PostgreSQL queues the transactions that wait for a row or an index
entry, so a statement that becomes possible again and again is executed (strong
fairness of `Statement`); the teardown always runs (weak fairness). Arrivals
and failures are not fair. The other two services hold no locks between
statements, so nothing in them waits and liveness would restate that threads run.

### What the violations show

The service locks the customer row when it creates an address, and only then.
`UpdateAddress` and `UpdateCustomer` read in one statement and write in
another without a lock, and `update()` writes back the status of the first
read. Overlapping a deletion they undo it, unless the deletion committed after
the re-read, when the row stays DELETED and the response says ACTIVE. The
properties of the passing runs exclude exactly the addresses revived in this
way, and hold.

customer-hybrid merges a PATCH in memory and writes all five columns, so two
patches of different columns lose one (`hybrid_lost`). Its limit check is
documented as best effort in the code; what remains true is `BoundedOvershoot`.

customer-subagent repeats the race of `sdd_revived`: the second read of `update`
ignores `deleted_at`, and the mapper assigns the value of the first read
(`subagent_deleted`). `DeletionsAreSeen` says that nothing else undoes a
deletion.

## Proofs

`SddProofs` proves `StructureInv` inductive: types, what each program point
implies about the request and its variables, ids being created that occur in
no row and in one request, and what a transaction may have written or locked at
each point. That is the strengthening the properties need: `RejectedLeaveNothing`
depends on every path to an error code being before the first write or through a
rollback. From it follow `TypeCorrect` and `ErrorsCommitNothing`. That no two open
transactions hold the same row is part of it too, but is no result about the service: it
is what PostgreSQL's row locks guarantee, and the later proofs rest on it.

`SddProofs` also proves `KeysInv` inductive on top of it: a transaction has
entered its key in the indexes it passed and in both before its response
exists, and an indexed key has no rival among the committed rows (`Unrivalled`)
nor among the keys indexed by other open transactions (`NoRivals`). A commit
then publishes keys nobody else has, which is `KeysUnique`.

The assumptions are those in the modules: `None` is not a row or an id, the
addresses are a finite set, the initial database satisfies the constraints of the
schema, and the bounds are numbers. The proofs hold for any number of rows,
threads and failures.

`HybridProofs` proves `HybridInv` inductive: types; each request at a point of
its own operation (`RequestInv`); no orphans; what has been written at each
point (`WroteInv`, `RefreshInv`); and `LimitInv`. `BoundedOvershoot` alone is not
inductive, since an INSERT adds an address that was checked for long before.
`LimitInv` bounds the addresses a customer owns together with those that requests
past their check may still insert (`Targets`): the check happens when fewer than
the limit are owned, and at most one address per thread is pending. `OnlyOwnerTouches` follows from
the guards of the writing steps under `RequestInv`.

`SddAddressProofs` proves `AddressInv` inductive together with `StructureInv`.
`NoOrphans` and `AddressLimit` speak of committed rows, and depend on what
the open transactions are going to commit. `AddressInv` therefore adds the role of every request
(`RoleOK`): a creation publishes what it said itself, under a customer that it
keeps locked and that has room (`CreationOK`); an update does not hide a
customer (`UpdateOK`); a cascade has still to mark, or has marked, every active
address that no update revived (`CascadeOK`); a deletion that finds its address
deleted was overtaken (`DeletionOK`); owners stay (`OwnerOK`). The heart is `CommitAside`,
that a commit leaves the other roles as they are: what a role says is about a
customer its request has locked, or can only become weaker. The rest follows: `AddressesHoused`,
`LimitKept` and `DeletionsHold` are conjuncts, `RowsStay` and `CreationsWhole`
need what a commit publishes (`Published`), and `RowWaitsEnd` that a request
which waits for a row while another one waits for its rows is a cascade, and that
two cascades share no address.

`SddRefinementProofs` proves that `SddService` implements `Registry`
(`ServiceImplementsRegistry`), in both parts: initial states map to initial states,
and every statement is `Notice`, `Compare`, `Succeed`, `Refuse`, `Fail` or unseen
(`StatementRegister`, over one lemma for each kind of statement), every commit
`Publish` or `Leave` (`SuccessPublishes`, `RefusedLeaves`), a commit that fails `Lose`.
A commit can only be judged by what its transaction has prepared, so the proof needs, besides
`StructureInv`, `KeysInv` and `AddressInv`, a fourth part of the invariant:
`DraftInv` says that each column of a version not yet committed is as its request wants it, or as
the newest row has it because the re-read row already was as wanted (`ColumnOK`); that what
has to be written is written when the answer is `OK`; and that the restored
addresses are visible. The hard part is that other requests' commits keep
it (`CommitDrafts`): the row is locked from the moment a draft of it exists. TLC has checked
`DraftInv` on the instances of `sdd_customers` and `sdd_addresses` as well. `None` is assumed
not to be a request (`QuestionAssumption`).

`HybridRefinementProofs` proves that `Hybrid` implements `Directory`
(`Implements`), in both parts: initial states map to initial states, and each
statement is `Act`, `Succeed`, `Refuse`, `Fail` or unseen. It uses `HybridInv`
(an address has its customer; who has written, and where) and one fact more,
`FreshInv`: a customer about to be inserted is not registered and is nobody
else's. There is one lemma per group of statements, over lemmas that say when a statement
is each of those actions (`ActsIf`, `RefusesIf`, `SucceedsIf`, `UnseenIf`).

`SubagentProofs` proves `SubagentInv` inductive: each request at a point of its
own operation (`RequestInv`); rows a request has found are still there, with the
same owner (`RowsInv`); the id of an address about to be inserted is nobody else's (`FreshInv`);
a row a request found is active, or its deletion is in `overlapped` (`SeenInv`, the
reason for `DeletionsAreSeen`); and what has been written at each point
(`AnswerInv`). `EmailsUnique` follows because the unique index looks at every row,
deleted ones included. `Isolation` and `DeletionsAreSeen` are action properties that hold of every
step from a state of `SubagentInv`.

`SddFieldsProofs` proves what the parsers compute for every body. The model
collects errors with `Keep` (the members of a sequence that are in a set) and
`FlattenSeq`; the library defines the latter by a recursive function, and its theorems on
induction take an operator as a parameter, which the provers cannot instantiate.
The induction is therefore made by hand: a set of good positions
that contains 1 and with every position the next one contains all of them
(`PrefixInduction`, from the well-foundedness of the numbers). So the
recursive function exists and has its values (`FlattensExists`), and joining keeps every item of
every sequence in order (`FlattenSeqInOrder`, `KeepInOrder`). `NamesOnce(errors, wrong)`
then says that errors name each path of a set once and no other; it holds for the
fields of one object (`FieldErrorsNameFields`), for every item of a list and for the
list (`EmbeddedErrorsNameItems`), since paths with different positions differ, and for the
whole body (`BodyErrorsNameFields`). What is wrong with a value is stated apart
from the value objects (`Acceptable`, from the functional specification);
`SoundIsAcceptable` shows that trimming, lower case and ranges come to the same.

`SddHttpProofs` proves `HttpInv` inductive. The properties speak of answers, and an
answer depends on what its request passed on its way: `RequestInv` keeps that a request
at a statement belongs to the route of that statement (`RoutesAt`) and that its parsers
found nothing (`Parsed`), from which a statement that fails on its data must have
a text that is too long or cannot be sent, or an immense offset, unless the body was never read
(`RefusedBodyExplained`, hence `ServerErrorsExplained`). `RowInv` keeps that
rows, and the customers read from them, are stored as normalising leaves them, which turns the
byte-wise unique index into `EmailsDifferInSubstance`. `CountInv` keeps that the total of a listing
differs from the number of active customers by no more than `churn`, for which a
write must change that number by at most one (`CountAfter`). `AnswerInv` keeps that answers are sound
(`SoundAnswer`); there is one lemma for each way of making an answer (`UnroutedAnswer`,
`ParseErrorAnswer`, `RefusedAnswer`, `UseCaseAnswer`, `RaisedAnswer`, `UnexpectedAnswer`,
`OkAnswer`, `PageAnswer`). Every step except a successful write changes one request only
(`Moved`). The six properties are then conjuncts of `HttpInv`, or of `SoundAnswer`. TLC
has checked the conjuncts of `HttpInv` on the instance of `sdd_http` as well.

The assumptions are about what surrounds the service: clients send requests that Flask and `json.loads` can
make of bytes (`WellFormed`), `addresses` is a segment that begins with the word addresses and
`customers` is none, the fields of an address are different and none is a field of a customer, the ids are different, the page sizes are ordered, and `None`
is neither a row nor an answer.

With these, every safety property that a passing run checks, and both refinements, are proved for any number of
rows, threads and failures, any bodies, fields, limits and pages. Only
model-checked: `EveryRequestEnds`, since liveness under fairness is out of the
prover's reach, and the violations, which need an instance.

## Plan

What remains is breadth: the shapes of the JSON answers of the two smaller services,
and the field validation of customer-hybrid and customer-subagent, which are abstracted to
whether a body passes.

## Not modelled

Start-up, logging and configuration (no state of the services); the texts of
rows and messages, except the columns of an address in customer-hybrid and the
keys of a customer in `SddHttp`; timestamps, of which `SddHttp` keeps the order of
`created_at`; migrations other than the schema they create; the field validation of
customer-hybrid (pydantic) and of customer-subagent, which is abstracted to whether a
body passes, at the point where it runs.

Two hazards are listed without a property, because there is nothing the code
promises: an age and an id beyond the range of an integer column
in the two smaller services, which end as a failed statement (`StatementFails`).

Two disagreements of customer-sdd with its own documents were met without giving
them a run. `error_handlers.py:68` says that errors of one category carry a single
`ERR-00X`; a duplicate of both keys is answered with `ERR-002` and `ERR-008` together,
under the one status of both. And the handlers take an id that begins with the word
`addresses`, or is the word `customers`, for a segment of the route: `GET
/customers/addresses` is answered 400 as a `list` of an `address`, and `GET
/customers/addresses1` as a `read` of an `address`, which is why
`EnvelopeNamesOperation` leaves such ids (`Misleading`) out; no uuid is one.

`ServerErrorsExplained` describes, it does not excuse: each of its reasons is a request that a
stricter boundary would answer 400 (lengths, U+0000, surrogates, nesting, page numbers), and no
document of the repository promises that it does.
