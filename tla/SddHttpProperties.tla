-------------------------- MODULE SddHttpProperties --------------------------
(***************************************************************************)
(* What the answers of customer-sdd owe their clients, stated over SddHttp *)
(***************************************************************************)
EXTENDS SddHttp

Answered(r) == pc[r] = "respond"

Routed(q) == Matching(q) # {}

-----------------------------------------------------------------------------
(* specs/customers/plan.md, 2.5: all invalid fields in one answer.         *)

\* A value that the rules of the functional specification let through.
Acceptable(field, v) ==
    CASE field = "age"   -> v.kind = "integer" /\ v.value \in 0..120
      [] field = "email" -> v.kind = "text" /\ v.word \in EmailWords
      [] OTHER           -> v.kind = "text" /\ v.word # Blank

WrongFields(fields, object, prefix) ==
    {Append(prefix, k) : k \in {l \in ToSet(fields) : ~Acceptable(l, object[l])}}

WrongItem(items, i) ==
    IF items[i].kind = "object" THEN WrongFields(AddressFields, items[i], <<"addresses", i - 1>>)
    ELSE {<<"addresses", i - 1>>}

WrongItems(addresses) ==
    IF addresses.kind = "list"
    THEN UNION {WrongItem(addresses.items, i) : i \in DOMAIN addresses.items}
    ELSE IF addresses.kind \in {"absent", "null"} THEN {} ELSE {<<"addresses">>}

\* The paths of everything that is wrong with a body.
Wrong(operation, body) ==
    CASE operation = "CreateCustomer" ->
            WrongFields(CustomerFields, body, <<>>) \cup WrongItems(body.addresses)
      [] operation = "UpdateCustomer" -> WrongFields(CustomerFields, body, <<>>)
      [] OTHER                        -> WrongFields(AddressFields, body, <<>>)

NamesWrongFields(q, a) ==
    Routed(q) /\ IdErrors(q.path) = <<>> /\ RouteOf(q).name \in WithBody /\ q.body.kind = "object" =>
        LET wrong == Wrong(RouteOf(q).name, q.body)
        IN IF wrong = {} THEN a.status # 400
           ELSE /\ a.status = 400
                /\ {a.errors[i].field : i \in DOMAIN a.errors} = wrong
                /\ Len(a.errors) = Cardinality(wrong)

\* A request with good ids and a JSON object is answered 400 exactly when some
\* field is wrong, and then its errors name every wrong field once, those of the
\* embedded addresses with their position, and nothing else.
EveryBadFieldNamed ==
    \A r \in Requests : Answered(r) => NamesWrongFields(req[r], answer[r])

-----------------------------------------------------------------------------
(* The envelope.                                                           *)

HasOneStatus(q, a) ==
    IF a.errors = None THEN a.success /\ a.status \in {200, 201}
    ELSE /\ ~a.success
         /\ a.errors = <<>> <=> ~Routed(q)
         /\ a.errors = <<>> => a.status \in {404, 405}
         /\ \A i \in DOMAIN a.errors : StatusForCode(a.errors[i].code) = a.status

\* The status is taken from the first error only, and errors are collected by
\* the parsers, the use cases and the exception handlers: still all errors of an
\* answer belong to its status, and it is a success without errors otherwise;
\* only Flask's own 404 and 405 carry an empty list.
OneStatusPerAnswer ==
    \A r \in Requests : Answered(r) => HasOneStatus(req[r], answer[r])

\* Ids that read like a segment of another route.  No uuid is one.
Misleading == AddressSegments \cup Collections

NamesOperation(q, a) ==
    Routed(q) /\ (Len(q.path) > 1 => q.path[2] \notin Misleading) =>
        /\ a.operation = RouteOf(q).operation
        /\ a.entity = RouteOf(q).entity

\* The handlers infer operation and entity from the method and the path, the use
\* cases know them: the envelope of a route names the same ones whichever
\* of them wrote it.  (An id that is the word customers, or begins with the word
\* addresses, misleads the handlers.)
EnvelopeNamesOperation ==
    \A r \in Requests : Answered(r) => NamesOperation(req[r], answer[r])

\* A text of the object is longer than its column, or cannot be sent.
Unstorable(object, fields) ==
    \E k \in ToSet(fields) \ {"age"} : object[k].word \in LongWords \cup UnsendableWords

ExplainsServerError(q, a) ==
    a.status = 500 =>
        \/ RouteOf(q).name = "ListCustomers" /\ Offset(q) > MaxBigint
        \/ RouteOf(q).name \in WithBody /\ q.body.kind = "nested"
        \/ /\ RouteOf(q).name \in {"CreateCustomer", "UpdateCustomer"}
           /\ Unstorable(q.body, CustomerFields)
        \/ /\ RouteOf(q).name \in {"CreateAddress", "UpdateAddress"}
           /\ Unstorable(q.body, AddressFields)
        \/ /\ RouteOf(q).name = "CreateCustomer"
           /\ \E i \in DOMAIN Embedded(q.body) : Unstorable(Embedded(q.body)[i], AddressFields)

\* The value objects accept nothing that a CHECK constraint or a type of the
\* tables refuses: when the database works, a 500 is due to what nobody checks: a
\* text longer than its column, a text with U+0000 or half a surrogate pair, a body
\* nested too deeply to be read, or a page beyond every OFFSET.
ServerErrorsExplained ==
    \A r \in Requests : Answered(r) => ExplainsServerError(req[r], answer[r])

-----------------------------------------------------------------------------
(* What is stored.                                                         *)

\* The UNIQUE index compares e-mails byte by byte; because every writer
\* normalises, no two customers have e-mails that differ in case or white space.
EmailsDifferInSubstance ==
    \A c, d \in Customers : c # d /\ customers[c] # None /\ customers[d] # None =>
        customers[c].email.word # customers[d].email.word

-----------------------------------------------------------------------------
(* The listing.                                                            *)

Distance(m, n) == IF m < n THEN n - m ELSE m - n

PromisedItems(q, total) ==
    LET skipped == (Page(q) - 1) * PageSize(q)
    IN Shorter(IF total > skipped THEN total - skipped ELSE 0, PageSize(q))

PageFits(q, page) ==
    /\ PageSize(q) \in 1..MaxPageSize
    /\ Len(page.items) <= PageSize(q)
    /\ \A i, j \in DOMAIN page.items : \A m, n \in DOMAIN Ids :
          i < j /\ page.items[i] = Ids[m] /\ page.items[j] = Ids[n] => m < n
    /\ Distance(Len(page.items), PromisedItems(q, page.total)) <= page.churn

\* A page never exceeds its size, repeats nobody and keeps the order of creation;
\* and the number of its items is the one total promises, up to the customers
\* that came or went between the two statements.
PageAgreesWithTotal ==
    \A r \in Requests :
        Answered(r) /\ answer[r].page # None => PageFits(req[r], answer[r].page)

-----------------------------------------------------------------------------
(* Why they hold: the inductive strengthening.                               *)

\* What the parser let through.
Parsed(q) ==
    /\ Routed(q) /\ ParseErrors(q) = <<>>
    /\ RouteOf(q).name \in WithBody => q.body.kind = "object" /\ Wrong(RouteOf(q).name, q.body) = {}

\* The routes of the requests that wait at a statement.
RoutesAt(p) ==
    CASE p = "find"    -> {"GetCustomer", "UpdateCustomer", "DeleteCustomer"}
      [] p = "unique"  -> {"CreateCustomer", "UpdateCustomer"}
      [] p = "write"   -> {"CreateCustomer", "UpdateCustomer", "DeleteCustomer"}
      [] p \in {"count", "select"} -> {"ListCustomers"}
      [] p = "address" -> {"CreateAddress", "ListAddresses", "UpdateAddress", "DeleteAddress"}
      [] OTHER         -> {}

\* A request that its parser has let through, at a statement of its use case.
InUseCase(q, p) ==
    /\ Parsed(q) /\ IdErrors(q.path) = <<>>
    /\ RouteOf(q).name \in RoutesAt(p)
    /\ RouteOf(q).name = "CreateCustomer" => q.id \in Customers

\* Everything above that is about one answer.
SoundAnswer(q, a) ==
    /\ a \in Responses /\ a # None
    /\ HasOneStatus(q, a) /\ NamesOperation(q, a)
    /\ ExplainsServerError(q, a) /\ NamesWrongFields(q, a)
    /\ a.page # None => PageFits(q, a.page)

\* A text as it is stored: what normalising again would not change.
Stored(field, t) == ValidText(field, t) /\ ~t.padded /\ (field = "email" => ~t.upper)

StoredRow(row) == Stored("email", row.email) /\ Stored("identification", row.ident)

\* A request is one that its client sent; at a statement it is in that use case.
RequestInv ==
    \A r \in Requests : pc[r] # "idle" =>
        WellFormed(req[r]) /\ (pc[r] # "respond" => InUseCase(req[r], pc[r]))

\* Rows, and the customers read from them, are stored as every writer
\* normalises; a deletion writes what it has found.
RowInv ==
    /\ \A c \in Customers : customers[c] # None => StoredRow(customers[c])
    /\ \A r \in Requests : entity[r] # None => StoredRow(entity[r])
    /\ \A r \in Requests :
          pc[r] = "write" /\ RouteOf(req[r]).name = "DeleteCustomer" => entity[r] # None

\* Answers are sound from the step that makes them.
AnswerInv == \A r \in Requests : pc[r] = "respond" => SoundAnswer(req[r], answer[r])

\* Between the two statements the total is off by the rows that came or went.
CountInv ==
    \A r \in Requests : pc[r] = "select" =>
        Distance(listing[r].total, Len(ActiveIds)) <= listing[r].churn

HttpInv == TypeOK /\ RequestInv /\ RowInv /\ EmailsDifferInSubstance /\ AnswerInv /\ CountInv
=============================================================================
