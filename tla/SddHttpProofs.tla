--------------------------- MODULE SddHttpProofs ----------------------------
(***************************************************************************)
(* Proofs, for every value of the constants, of the properties of SddHttp. *)
(***************************************************************************)
EXTENDS SddFieldsProofs

-----------------------------------------------------------------------------
(* Requests and their bodies.                                              *)

\* The route of a request is in the table, and the request has its shape.
LEMMA RouteFacts ==
    ASSUME NEW q, Routed(q)
    PROVE  /\ RouteOf(q) \in Routes
           /\ RouteOf(q).method = q.method /\ RouteOf(q).segments = Len(q.path)
           /\ q.path[1] = "customers" /\ (Len(q.path) > 2 => q.path[3] = "addresses")
<1>1. RouteOf(q) \in Matching(q)
  BY DEF Routed, RouteOf
<1> QED
  BY <1>1 DEF Matching, OnPath

\* What the proofs use of the table of routes.
LEMMA RouteTable ==
    ASSUME NEW t \in Routes
    PROVE  /\ t.name \in WithBody <=> t.method \in {"POST", "PUT"}
           /\ t.name \in {"CreateCustomer", "UpdateCustomer"} <=>
                 (t.name \in WithBody /\ t.entity = "customer")
           /\ t.name \in {"CreateAddress", "UpdateAddress"} <=>
                 (t.name \in WithBody /\ t.entity = "address")
           /\ t.name \in {"CreateCustomer", "ListCustomers"} <=> t.segments = 1
           /\ t.name \in {"GetCustomer", "UpdateCustomer", "DeleteCustomer"} <=> t.segments = 2
           /\ t.entity = "address" <=> t.segments \in {3, 4}
           /\ t.segments \in 1..4
           /\ t.entity \in {"customer", "address"}
           /\ t.success \in {200, 201}
           /\ t.operation \in {"create", "list", "read", "update", "delete"}
           /\ t.method = "POST" => t.operation = "create"
           /\ t.method = "PUT" => t.operation = "update"
           /\ t.method = "DELETE" => t.operation = "delete"
           /\ t.method \in {"POST", "PUT", "DELETE", "GET"}
           /\ t.method = "GET" => t.operation = IF t.segments = 2 THEN "read" ELSE "list"
           /\ t.method = "GET" => t.segments \in 1..3
  BY DEF Routes, Route, WithBody

\* The parser of a body names everything that is wrong with it, once, and
\* nothing else.
THEOREM BodyErrorsNameFields ==
    ASSUME NEW q, WellFormed(q), Routed(q), RouteOf(q).name \in WithBody, q.body.kind = "object"
    PROVE  NamesOnce(BodyErrors(RouteOf(q).name, q.body), Wrong(RouteOf(q).name, q.body))
<1>1. RouteOf(q) \in Routes
  BY RouteFacts
<1>2. PICK op : op = RouteOf(q).name
  OBVIOUS
<1>3. op \in {"CreateCustomer", "UpdateCustomer", "CreateAddress", "UpdateAddress"}
  BY <1>2 DEF WithBody
<1>4. op \in {"CreateCustomer", "UpdateCustomer"} => IsObject(q.body, CustomerFields)
  BY <1>1, <1>2, RouteTable DEF WellFormed, Routed
<1>5. op \in {"CreateAddress", "UpdateAddress"} => IsObject(q.body, AddressFields)
  BY <1>1, <1>2, RouteTable DEF WellFormed, Routed
<1>6. op = "CreateCustomer" /\ q.body.addresses.kind = "list" => IsList(q.body.addresses)
  BY <1>2 DEF WellFormed, Routed
<1>7. CASE op = "CreateCustomer"
  <2>1. PICK v : v = WrongFields(CustomerFields, q.body, <<>>)
    OBVIOUS
  <2>2. PICK w : w = WrongItems(q.body.addresses)
    OBVIOUS
  <2>3. NamesOnce(FieldErrors(CustomerFields, q.body, <<>>), v)
    BY <1>4, <1>7, <2>1, CustomerErrorsNameFields
  <2>4. NamesOnce(EmbeddedErrors(q.body.addresses), w)
    BY <1>6, <1>7, <2>2, EmbeddedErrorsNameItems
  <2>5. \A x \in v : \E k \in {"name", "identification", "age", "email"} : x = <<k>>
    BY <1>4, <1>7, <2>1, CustomerErrorsNameFields
  <2>6. \A x \in w : \/ x = <<"addresses">>
                     \/ \E n : x = <<"addresses", n>>
                     \/ \E n, k : x = <<"addresses", n, k>>
    BY <1>6, <1>7, <2>2, EmbeddedErrorsNameItems
  <2>7. v \cap w = {}
    <3>1. ASSUME NEW x, x \in v, x \in w PROVE FALSE
      <4>1. PICK k \in {"name", "identification", "age", "email"} : x = <<k>>
        BY <2>5, <3>1
      <4>2. x[1] = k /\ x[1] # "addresses"
        BY <4>1
      <4>3. x[1] = "addresses"
        BY <2>6, <3>1
      <4> QED
        BY <4>2, <4>3
    <3> QED
      BY <3>1
  <2>8. NamesOnce(FieldErrors(CustomerFields, q.body, <<>>) \o EmbeddedErrors(q.body.addresses), v \cup w)
    BY <2>3, <2>4, <2>7, NamesOnceConcat
  <2> QED
    BY <1>2, <1>7, <2>1, <2>2, <2>8 DEF BodyErrors, Wrong
<1>8. CASE op = "UpdateCustomer"
  BY <1>2, <1>4, <1>8, CustomerErrorsNameFields DEF BodyErrors, Wrong
<1>9. CASE op \in {"CreateAddress", "UpdateAddress"}
  BY <1>2, <1>5, <1>9, AddressErrorsNameFields DEF BodyErrors, Wrong
<1> QED
  BY <1>3, <1>7, <1>8, <1>9

\* A request without parse errors is one that its parser let through.
LEMMA ParsedBody ==
    ASSUME NEW q, WellFormed(q), Routed(q), ParseErrors(q) = <<>>
    PROVE  Parsed(q) /\ IdErrors(q.path) = <<>>
<1>1. IdErrors(q.path) = <<>>
  BY DEF ParseErrors
<1>2. CASE RouteOf(q).name \in WithBody
  <2>1. BodyErrors(RouteOf(q).name, q.body) = <<>>
    BY <1>1, <1>2 DEF ParseErrors
  <2>2. q.body.kind = "object"
    BY <2>1 DEF BodyErrors
  <2>3. Wrong(RouteOf(q).name, q.body) = {}
    BY <1>2, <2>1, <2>2, BodyErrorsNameFields, NamesOnceCount
  <2> QED
    BY <1>1, <2>2, <2>3 DEF Parsed
<1> QED
  BY <1>1, <1>2 DEF Parsed

\* Without wrong fields every field is acceptable.
LEMMA NothingWrong ==
    ASSUME NEW fields, NEW object, NEW prefix, WrongFields(fields, object, prefix) = {}
    PROVE  \A k \in ToSet(fields) : Acceptable(k, object[k])
  BY DEF WrongFields

\* The texts and the age of a customer that was let through.
LEMMA ParsedCustomer ==
    ASSUME NEW q, WellFormed(q), Parsed(q), RouteOf(q).name \in {"CreateCustomer", "UpdateCustomer"}
    PROVE  /\ \A k \in {"name", "identification", "email"} :
                /\ q.body[k] \in Texts /\ ValidText(k, q.body[k]) /\ Acceptable(k, q.body[k])
           /\ q.body.age.value \in 0..120
           /\ RouteOf(q).name = "CreateCustomer" =>
                /\ \A i \in DOMAIN Embedded(q.body) :
                       /\ IsObject(Embedded(q.body)[i], AddressFields)
                       /\ \A k \in ToSet(AddressFields) : Acceptable(k, Embedded(q.body)[i][k])
<1>1. RouteOf(q) \in Routes
  BY RouteFacts DEF Parsed
<1>2. RouteOf(q).name \in WithBody
  BY <1>1, RouteTable
<1>3. IsObject(q.body, CustomerFields)
  BY <1>1, <1>2, RouteTable DEF WellFormed, Parsed, Routed
<1>4. WrongFields(CustomerFields, q.body, <<>>) = {}
  BY <1>2 DEF Parsed, Wrong
<1>5. \A k \in {"name", "identification", "age", "email"} : Acceptable(k, q.body[k]) /\ IsValue(q.body[k])
  BY <1>3, <1>4, NothingWrong, CustomerFieldsFacts DEF IsObject
<1>6. ASSUME NEW k \in {"name", "identification", "email"}
      PROVE  q.body[k] \in Texts /\ ValidText(k, q.body[k]) /\ Acceptable(k, q.body[k])
  <2>1. k # "age" /\ Acceptable(k, q.body[k]) /\ IsValue(q.body[k])
    BY <1>5
  <2>2. q.body[k].kind = "text"
    BY <2>1 DEF Acceptable
  <2>3. q.body[k] \in Texts
    BY <2>1, <2>2 DEF IsValue
  <2>4. Content(k, q.body[k])
    BY <2>1, SoundIsAcceptable
  <2> QED
    BY <2>1, <2>3, <2>4 DEF Content
<1>7. q.body.age.value \in 0..120
  <2>1. Acceptable("age", q.body["age"])
    BY <1>5
  <2> QED
    BY <2>1 DEF Acceptable
<1>8. ASSUME RouteOf(q).name = "CreateCustomer", NEW i \in DOMAIN Embedded(q.body)
      PROVE  /\ IsObject(Embedded(q.body)[i], AddressFields)
             /\ \A k \in ToSet(AddressFields) : Acceptable(k, Embedded(q.body)[i][k])
  <2>1. CASE q.body.addresses.kind # "list"
    <3>1. Embedded(q.body) = <<>>
      BY <2>1 DEF Embedded
    <3> QED
      BY <1>8, <3>1
  <2>2. CASE q.body.addresses.kind = "list"
    <3>1. PICK v : v = q.body.addresses
      OBVIOUS
    <3>2. IsList(v) /\ Embedded(q.body) = v.items
      BY <1>2, <1>8, <2>2, <3>1 DEF WellFormed, Parsed, Routed, Embedded
    <3>3. WrongItems(v) = {}
      BY <1>2, <1>8, <3>1 DEF Parsed, Wrong
    <3>4. WrongItem(v.items, i) = {}
      BY <1>8, <2>2, <3>1, <3>2, <3>3 DEF WrongItems
    <3>5. v.items[i].kind = "object" /\ WrongFields(AddressFields, v.items[i], <<"addresses", i - 1>>) = {}
      BY <3>4 DEF WrongItem
    <3>6. IsObject(v.items[i], AddressFields)
      BY <1>8, <3>2, <3>5 DEF IsList
    <3> QED
      BY <3>2, <3>5, <3>6, NothingWrong
  <2> QED
    BY <2>1, <2>2
<1> QED
  BY <1>6, <1>7, <1>8

\* The fields of an address that was let through.
LEMMA ParsedAddress ==
    ASSUME NEW q, WellFormed(q), Parsed(q), RouteOf(q).name \in {"CreateAddress", "UpdateAddress"}
    PROVE  /\ IsObject(q.body, AddressFields)
           /\ \A k \in ToSet(AddressFields) : Acceptable(k, q.body[k])
<1>1. RouteOf(q) \in Routes
  BY RouteFacts DEF Parsed
<1>2. RouteOf(q).name \in WithBody
  BY <1>1, RouteTable
<1>3. IsObject(q.body, AddressFields)
  BY <1>1, <1>2, RouteTable DEF WellFormed, Parsed, Routed
<1>4. WrongFields(AddressFields, q.body, <<>>) = {}
  BY <1>2 DEF Parsed, Wrong
<1> QED
  BY <1>3, <1>4, NothingWrong

\* A text that the value objects accept and that is not stored is too long for its
\* column, or no parameter can carry it.
LEMMA RefusedTextUnstorable ==
    ASSUME NEW field, field # "age", NEW v, IsValue(v), Acceptable(field, v), ~TextFits(field, v)
    PROVE  v.word \in LongWords \cup UnsendableWords
<1>1. v.kind = "text"
  BY DEF Acceptable
<1>2. v \in Texts
  BY <1>1 DEF IsValue
<1>3. Normal(field, v).word = v.word
  BY <1>2 DEF Texts, Normal, Strip, Lower
<1>4. v.word # Blank
  BY WordsAssumption DEF Acceptable
<1> QED
  BY <1>3, <1>4 DEF TextFits, Sendable

\* An address that the value objects accept and that is not stored has such a text.
LEMMA RefusedAddressUnstorable ==
    ASSUME NEW object, IsObject(object, AddressFields),
           \A k \in ToSet(AddressFields) : Acceptable(k, object[k]), ~AddressFits(object)
    PROVE  Unstorable(object, AddressFields)
<1>1. PICK i \in DOMAIN AddressFields : ~TextFits(AddressFields[i], object[AddressFields[i]])
  BY DEF AddressFits
<1>2. PICK k : k = AddressFields[i]
  OBVIOUS
<1>3. k \in ToSet(AddressFields)
  BY <1>2 DEF ToSet
<1>4. k # "age"
  BY <1>3, AddressFieldsAssumption, CustomerFieldsFacts
<1>5. IsValue(object[k]) /\ Acceptable(k, object[k]) /\ ~TextFits(k, object[k])
  BY <1>1, <1>2, <1>3 DEF IsObject
<1>6. object[k].word \in LongWords \cup UnsendableWords
  BY <1>4, <1>5, RefusedTextUnstorable
<1> QED
  BY <1>3, <1>4, <1>6 DEF Unstorable

\* A key that the lookups cannot send is one that the parser let through.
LEMMA UnsendableKey ==
    ASSUME NEW q, WellFormed(q), Parsed(q), RouteOf(q).name \in {"CreateCustomer", "UpdateCustomer"},
           ~KeysSendable(q)
    PROVE  Unstorable(q.body, CustomerFields)
<1>1. PICK k \in {"identification", "email"} : ~Sendable(k, q.body[k])
  BY DEF KeysSendable
<1>2. /\ q.body[k] \in Texts /\ Acceptable(k, q.body[k]) /\ k # "age" /\ k \in ToSet(CustomerFields)
      /\ ~TextFits(k, q.body[k])
  BY <1>1, ParsedCustomer, CustomerFieldsFacts DEF TextFits
<1>3. q.body[k].word \in LongWords \cup UnsendableWords
  BY <1>2, RefusedTextUnstorable DEF IsValue, Texts
<1> QED
  BY <1>2, <1>3 DEF Unstorable

\* A customer that its parser let through and the flush refuses has a text that is
\* longer than its column or cannot be sent: no type and no CHECK constraint can be
\* the reason.
LEMMA RefusedCustomerUnstorable ==
    ASSUME NEW q, WellFormed(q), Parsed(q), RouteOf(q).name \in {"CreateCustomer", "UpdateCustomer"},
           ~CustomerFits(q.body)
    PROVE  Unstorable(q.body, CustomerFields)
<1>1. \E k \in {"name", "identification", "email"} : ~TextFits(k, q.body[k])
  BY ParsedCustomer DEF CustomerFits
<1>2. PICK k \in {"name", "identification", "email"} : ~TextFits(k, q.body[k])
  BY <1>1
<1>3. q.body[k] \in Texts /\ Acceptable(k, q.body[k]) /\ k # "age" /\ k \in ToSet(CustomerFields)
  BY ParsedCustomer, CustomerFieldsFacts
<1>4. IsValue(q.body[k])
  BY <1>3 DEF IsValue, Texts
<1>5. q.body[k].word \in LongWords \cup UnsendableWords
  BY <1>2, <1>3, <1>4, RefusedTextUnstorable
<1> QED
  BY <1>3, <1>5 DEF Unstorable

\* Whatever of a request breaks a statement or its decoding.
Breaks(q) ==
    \/ Unreadable(q)
    \/ /\ RouteOf(q).name = "ListCustomers" /\ Offset(q) > MaxBigint
    \/ /\ RouteOf(q).name \in {"CreateCustomer", "UpdateCustomer"}
       /\ ~KeysSendable(q) \/ ~CustomerFits(q.body)
    \/ /\ RouteOf(q).name = "CreateCustomer" /\ ~EmbeddedFit(q.body)
    \/ /\ RouteOf(q).name \in {"CreateAddress", "UpdateAddress"} /\ ~AddressFits(q.body)

\* A request that breaks although its parser let it through, if it was read at all,
\* has one of the reasons that ServerErrorsExplained names: whatever its fields,
\* nothing that the value objects accept is refused for its type, its sign or a
\* CHECK constraint.
THEOREM RefusedBodyExplained ==
    ASSUME NEW q, WellFormed(q), Parsed(q) \/ Unreadable(q), Breaks(q)
    PROVE  \A a : ExplainsServerError(q, a)
<1>1. CASE Unreadable(q)
  BY <1>1 DEF Unreadable, ExplainsServerError
<1>2. CASE RouteOf(q).name = "ListCustomers" /\ Offset(q) > MaxBigint
  BY <1>2 DEF ExplainsServerError
<1>3. CASE /\ Parsed(q) /\ RouteOf(q).name \in {"CreateCustomer", "UpdateCustomer"}
           /\ ~KeysSendable(q) \/ ~CustomerFits(q.body)
  <2>1. Unstorable(q.body, CustomerFields)
    BY <1>3, UnsendableKey, RefusedCustomerUnstorable
  <2> QED
    BY <1>3, <2>1 DEF ExplainsServerError
<1>4. CASE Parsed(q) /\ RouteOf(q).name = "CreateCustomer" /\ ~EmbeddedFit(q.body)
  <2>1. PICK i \in DOMAIN Embedded(q.body) : ~AddressFits(Embedded(q.body)[i])
    BY <1>4 DEF EmbeddedFit
  <2>2. Unstorable(Embedded(q.body)[i], AddressFields)
    BY <1>4, <2>1, ParsedCustomer, RefusedAddressUnstorable
  <2> QED
    BY <1>4, <2>2 DEF ExplainsServerError
<1>5. CASE /\ Parsed(q) /\ RouteOf(q).name \in {"CreateAddress", "UpdateAddress"}
           /\ ~AddressFits(q.body)
  <2>1. Unstorable(q.body, AddressFields)
    BY <1>5, ParsedAddress, RefusedAddressUnstorable
  <2> QED
    BY <1>5, <2>1 DEF ExplainsServerError
<1> QED
  BY <1>1, <1>2, <1>3, <1>4, <1>5 DEF Breaks

-----------------------------------------------------------------------------
(* Answers.                                                                *)

\* The paths that the use cases and the handlers write.
LEMMA PathFacts ==
    /\ <<>> \in Paths
    /\ \A k \in {"email", "identification", "addresses", "customer_id", "address_id"} : <<k>> \in Paths
<1>1. <<>> \in Seq(FieldNames)
  BY EmptySeq
<1>2. \A k \in {"email", "identification", "addresses", "customer_id", "address_id"} : k \in FieldNames
  BY CustomerFieldsFacts DEF FieldNames
<1>3. \A k \in FieldNames : <<k>> \in Seq(FieldNames)
  OBVIOUS
<1> QED
  BY <1>1, <1>2, <1>3 DEF Paths

\* A list with one error.
LEMMA OneError ==
    ASSUME NEW code \in Codes, NEW path \in Paths
    PROVE  /\ <<Error(code, path)>> \in Seq(Errors) /\ <<Error(code, path)>> # <<>>
           /\ DOMAIN <<Error(code, path)>> = {1}
           /\ <<Error(code, path)>>[1].code = code
  BY DEF Error, Errors

\* Outside of the ids that mislead them the handlers infer the operation and the
\* entity of the route.
LEMMA Inferred ==
    ASSUME NEW q, Routed(q), Len(q.path) > 1 => q.path[2] \notin Misleading
    PROVE  InferOperation(q) = RouteOf(q).operation /\ InferEntity(q) = RouteOf(q).entity
<1>1. PICK t : t = RouteOf(q)
  OBVIOUS
<1>2. /\ t \in Routes /\ t.method = q.method /\ t.segments = Len(q.path)
      /\ q.path[1] = "customers" /\ (Len(q.path) > 2 => q.path[3] = "addresses")
  BY <1>1, RouteFacts
<1>3. /\ Len(q.path) \in 1..4
      /\ t.entity \in {"customer", "address"}
      /\ t.entity = "address" <=> Len(q.path) \in {3, 4}
  <2>1. /\ t.segments \in 1..4 /\ t.entity \in {"customer", "address"}
        /\ t.entity = "address" <=> t.segments \in {3, 4}
    BY <1>2, RouteTable
  <2> QED
    BY <1>2, <2>1
<1>4. /\ Len(q.path) > 1 => q.path[2] \notin AddressSegments \cup Collections
      /\ q.path[1] \notin AddressSegments
      /\ Len(q.path) > 2 => q.path[3] \in AddressSegments
  BY <1>2, HttpAssumption DEF Misleading
<1>5. InferEntity(q) = IF Len(q.path) \in {3, 4} THEN "address" ELSE "customer"
  BY <1>3, <1>4 DEF InferEntity
<1>6. InferEntity(q) = t.entity
  BY <1>3, <1>5
<1>7. CASE q.method = "POST" \/ q.method = "PUT" \/ q.method = "DELETE"
  <2>1. /\ q.method = "POST" => t.operation = "create"
        /\ q.method = "PUT" => t.operation = "update"
        /\ q.method = "DELETE" => t.operation = "delete"
    BY <1>2, RouteTable
  <2>2. InferOperation(q) = t.operation
    BY <1>7, <2>1 DEF InferOperation
  <2> QED
    BY <1>1, <1>6, <2>2
<1>8. CASE q.method # "POST" /\ q.method # "PUT" /\ q.method # "DELETE"
  <2>1. t.method = "GET"
    BY <1>2, <1>8, RouteTable
  <2>2. Len(q.path) \in 1..3 /\ t.operation = IF Len(q.path) = 2 THEN "read" ELSE "list"
    <3>1. t.segments \in 1..3 /\ t.operation = IF t.segments = 2 THEN "read" ELSE "list"
      BY <1>2, <2>1, RouteTable
    <3> QED
      BY <1>2, <3>1
  <2>3. q.path[Len(q.path)] \in Collections <=> Len(q.path) # 2
    <3>1. CASE Len(q.path) = 1
      BY <1>2, <3>1 DEF Collections
    <3>2. CASE Len(q.path) = 2
      BY <1>4, <3>2
    <3>3. CASE Len(q.path) = 3
      BY <1>2, <3>3 DEF Collections
    <3> QED
      BY <2>2, <3>1, <3>2, <3>3
  <2>4. InferOperation(q) = t.operation
    BY <1>8, <2>2, <2>3 DEF InferOperation
  <2> QED
    BY <1>1, <1>6, <2>4
<1> QED
  BY <1>7, <1>8

\* What the handlers infer is always an operation and an entity.
LEMMA InferredTypes ==
    ASSUME NEW q
    PROVE  /\ InferOperation(q) \in {"create", "list", "read", "update", "delete"}
           /\ InferEntity(q) \in {"customer", "address"}
  BY DEF InferOperation, InferEntity

\* An envelope with a list of errors, whoever writes it.
LEMMA ErrorEnvelope ==
    ASSUME NEW errors \in Seq(Errors), NEW status \in {400, 404, 405, 409, 500},
           NEW op \in {"create", "list", "read", "update", "delete"}, NEW about \in {"customer", "address"},
           NEW a, a = Response(status, op, about, errors, None)
    PROVE  /\ a \in Responses /\ a # None /\ ~a.success
           /\ a.errors = errors /\ errors # None /\ a.page = None
           /\ a.status = status /\ a.operation = op /\ a.entity = about
<1>1. errors # None
  BY HttpAssumption
<1>2. a = Response(status, op, about, errors, None)
  OBVIOUS
<1>3. a \in Responses
  BY <1>1, <1>2 DEF Response, Responses
<1>4. a # None
  BY <1>3, HttpAssumption
<1>5. a.errors = errors /\ a.page = None /\ a.status = status /\ a.operation = op /\ a.entity = about
  BY <1>2 DEF Response
<1>6. ~a.success
  <2>1. a.success = (errors = None)
    BY ONLY <1>2 DEF Response
  <2> QED
    BY ONLY <1>1, <2>1
<1> QED
  BY <1>1, <1>2, <1>3, <1>4, <1>5, <1>6

\* Flask's own 404 and 405 are sound answers.
LEMMA UnroutedAnswer ==
    ASSUME NEW q, ~Routed(q)
    PROVE  SoundAnswer(q, NotRouted(q))
<1>1. PICK a : a = NotRouted(q)
  OBVIOUS
<1>2. <<>> \in Seq(Errors)
  BY EmptySeq
<1>3. PICK status \in {404, 405} : a = Response(status, InferOperation(q), InferEntity(q), <<>>, None)
  BY <1>1 DEF NotRouted
<1>4. /\ a \in Responses /\ a # None /\ ~a.success
      /\ a.errors = <<>> /\ <<>> # None /\ a.page = None /\ a.status = status
  <2>1. PICK op, about : op = InferOperation(q) /\ about = InferEntity(q)
    OBVIOUS
  <2>2. /\ op \in {"create", "list", "read", "update", "delete"}
        /\ about \in {"customer", "address"}
    BY <2>1, InferredTypes
  <2>3. a = Response(status, op, about, <<>>, None) /\ status \in {400, 404, 405, 409, 500}
    BY <1>3, <2>1
  <2>4. PICK errors : errors = <<>>
    OBVIOUS
  <2>5. errors \in Seq(Errors) /\ a = Response(status, op, about, errors, None)
    BY <1>2, <2>3, <2>4
  <2>6. /\ a \in Responses /\ a # None /\ ~a.success
        /\ a.errors = errors /\ errors # None /\ a.page = None /\ a.status = status
    BY <2>2, <2>3, <2>5, ErrorEnvelope
  <2> QED
    BY <2>4, <2>6
<1>5. HasOneStatus(q, a)
  BY <1>4, EmptySeq DEF HasOneStatus
<1>6. NamesOperation(q, a) /\ ExplainsServerError(q, a) /\ NamesWrongFields(q, a)
  BY <1>4 DEF NamesOperation, ExplainsServerError, NamesWrongFields
<1> QED
  BY <1>1, <1>4, <1>5, <1>6 DEF SoundAnswer

\* The answer to a request that its parser has let through, or never got to read,
\* and that fails.
LEMMA FailedAnswer ==
    ASSUME NEW q, Routed(q), Parsed(q) \/ Unreadable(q),
           NEW errors \in Seq(Errors), errors # <<>>, NEW status \in {404, 409, 500},
           \A i \in DOMAIN errors : StatusForCode(errors[i].code) = status,
           NEW op \in {"create", "list", "read", "update", "delete"}, NEW about \in {"customer", "address"},
           (Len(q.path) > 1 => q.path[2] \notin Misleading) =>
               op = RouteOf(q).operation /\ about = RouteOf(q).entity,
           ExplainsServerError(q, Response(status, op, about, errors, None))
    PROVE  SoundAnswer(q, Response(StatusFor(errors), op, about, errors, None))
<1>1. 1 \in DOMAIN errors
  BY EmptySeq
<1>2. StatusFor(errors) = status
  BY <1>1 DEF StatusFor
<1>3. PICK a : a = Response(status, op, about, errors, None)
  OBVIOUS
<1>4. /\ a \in Responses /\ a # None /\ ~a.success
      /\ a.errors = errors /\ errors # None /\ a.page = None
      /\ a.status = status /\ a.operation = op /\ a.entity = about
  BY <1>3, ErrorEnvelope
<1>5. HasOneStatus(q, a)
  BY <1>4 DEF HasOneStatus
<1>6. NamesOperation(q, a)
  BY <1>4 DEF NamesOperation
<1>7. NamesWrongFields(q, a)
  BY <1>4 DEF NamesWrongFields, Parsed, Unreadable
<1>8. ExplainsServerError(q, a)
  BY <1>3
<1> QED
  BY <1>2, <1>3, <1>4, <1>5, <1>6, <1>7, <1>8 DEF SoundAnswer

\* The answer of the handler of RequestParsingError.
LEMMA RejectedAnswer ==
    ASSUME NEW q, Routed(q), NEW errors \in Seq(Errors), errors # <<>>,
           \A i \in DOMAIN errors : StatusForCode(errors[i].code) = 400,
           /\ IdErrors(q.path) = <<>> /\ RouteOf(q).name \in WithBody /\ q.body.kind = "object" =>
                NamesOnce(errors, Wrong(RouteOf(q).name, q.body))
    PROVE  SoundAnswer(q, Raised(q, InferEntity(q), errors))
<1>1. 1 \in DOMAIN errors
  BY EmptySeq
<1>2. StatusFor(errors) = 400
  BY <1>1 DEF StatusFor
<1>3. PICK a : a = Raised(q, InferEntity(q), errors)
  OBVIOUS
<1>4. a = Response(400, InferOperation(q), InferEntity(q), errors, None)
  BY <1>2, <1>3 DEF Raised
<1>5. /\ a \in Responses /\ a # None /\ ~a.success
      /\ a.errors = errors /\ errors # None /\ a.page = None
      /\ a.status = 400 /\ a.operation = InferOperation(q) /\ a.entity = InferEntity(q)
  <2>1. PICK op, about : op = InferOperation(q) /\ about = InferEntity(q)
    OBVIOUS
  <2>2. /\ op \in {"create", "list", "read", "update", "delete"}
        /\ about \in {"customer", "address"}
    BY <2>1, InferredTypes
  <2>3. a = Response(400, op, about, errors, None)
    BY <1>4, <2>1
  <2>4. /\ a \in Responses /\ a # None /\ ~a.success
        /\ a.errors = errors /\ errors # None /\ a.page = None
        /\ a.status = 400 /\ a.operation = op /\ a.entity = about
    BY <2>2, <2>3, ErrorEnvelope
  <2> QED
    BY <2>1, <2>4
<1>6. HasOneStatus(q, a)
  BY <1>5 DEF HasOneStatus
<1>7. NamesOperation(q, a)
  BY <1>5, Inferred DEF NamesOperation
<1>8. ExplainsServerError(q, a)
  BY <1>5 DEF ExplainsServerError
<1>9. NamesWrongFields(q, a)
  <2>1. SUFFICES ASSUME IdErrors(q.path) = <<>>, RouteOf(q).name \in WithBody, q.body.kind = "object"
                 PROVE  LET wrong == Wrong(RouteOf(q).name, q.body)
                        IN IF wrong = {} THEN a.status # 400
                           ELSE /\ a.status = 400
                                /\ {a.errors[i].field : i \in DOMAIN a.errors} = wrong
                                /\ Len(a.errors) = Cardinality(wrong)
    BY DEF NamesWrongFields
  <2>2. PICK wrong : wrong = Wrong(RouteOf(q).name, q.body)
    OBVIOUS
  <2>3. NamesOnce(errors, wrong)
    BY <2>1, <2>2
  <2>4. /\ {errors[i].field : i \in DOMAIN errors} = wrong
        /\ Len(errors) = Cardinality(wrong) /\ wrong # {}
    BY <2>3, NamesOnceCount
  <2> QED
    BY <1>5, <2>2, <2>4
<1> QED
  BY <1>3, <1>5, <1>6, <1>7, <1>8, <1>9 DEF SoundAnswer

\* Every rejection by a parser is a sound answer.
LEMMA ParseErrorAnswer ==
    ASSUME NEW q, WellFormed(q), Routed(q), ParseErrors(q) # <<>>
    PROVE  SoundAnswer(q, Raised(q, InferEntity(q), ParseErrors(q)))
<1>1. PICK e : e = ParseErrors(q)
  OBVIOUS
<1>2. ASSUME NEW path \in Paths, e = <<Error("ERR-001", path)>>,
             IdErrors(q.path) # <<>> \/ (RouteOf(q).name \in WithBody => q.body.kind # "object")
      PROVE  SoundAnswer(q, Raised(q, InferEntity(q), e))
  <2>1. "ERR-001" \in Codes /\ StatusForCode("ERR-001") = 400
    BY DEF Codes, StatusForCode
  <2>2. e \in Seq(Errors) /\ e # <<>> /\ DOMAIN e = {1} /\ e[1].code = "ERR-001"
    BY <1>2, <2>1, OneError
  <2>3. \A i \in DOMAIN e : StatusForCode(e[i].code) = 400
    BY <2>1, <2>2
  <2>4. IdErrors(q.path) = <<>> /\ RouteOf(q).name \in WithBody /\ q.body.kind = "object" =>
            NamesOnce(e, Wrong(RouteOf(q).name, q.body))
    BY <1>2
  <2> QED
    BY <2>2, <2>3, <2>4, RejectedAnswer
<1>3. CASE IdErrors(q.path) # <<>>
  <2>1. e = <<Error("ERR-001", <<"customer_id">>)>> \/ e = <<Error("ERR-001", <<"address_id">>)>>
    BY <1>1, <1>3 DEF ParseErrors, IdErrors
  <2> QED
    BY <1>1, <1>2, <1>3, <2>1, PathFacts
<1>4. CASE IdErrors(q.path) = <<>>
  <2>1. RouteOf(q).name \in WithBody /\ e = BodyErrors(RouteOf(q).name, q.body)
    BY <1>1, <1>4 DEF ParseErrors
  <2>2. CASE q.body.kind # "object"
    <3>1. e = <<Error("ERR-001", <<>>)>>
      BY <2>1, <2>2 DEF BodyErrors
    <3> QED
      BY <1>1, <1>2, <2>2, <3>1, PathFacts
  <2>3. CASE q.body.kind = "object"
    <3>1. NamesOnce(e, Wrong(RouteOf(q).name, q.body))
      BY <2>1, <2>3, BodyErrorsNameFields
    <3>2. e \in Seq(Errors) /\ \A i \in DOMAIN e : e[i].code \in InvalidCodes
      BY <3>1 DEF NamesOnce
    <3>3. \A code \in InvalidCodes : StatusForCode(code) = 400
      BY DEF InvalidCodes, StatusForCode
    <3> QED
      BY <1>1, <3>1, <3>2, <3>3, RejectedAnswer
  <2> QED
    BY <2>2, <2>3
<1> QED
  BY <1>3, <1>4

\* An answer with one error is sound when the status is the error's.
LEMMA OneErrorAnswer ==
    ASSUME NEW q, Routed(q), Parsed(q) \/ Unreadable(q),
           NEW code \in Codes, NEW path \in Paths, StatusForCode(code) \in {404, 409, 500},
           NEW op \in {"create", "list", "read", "update", "delete"}, NEW about \in {"customer", "address"},
           (Len(q.path) > 1 => q.path[2] \notin Misleading) =>
               op = RouteOf(q).operation /\ about = RouteOf(q).entity,
           ExplainsServerError(q, Response(StatusForCode(code), op, about, <<Error(code, path)>>, None))
    PROVE  SoundAnswer(q, Response(StatusFor(<<Error(code, path)>>), op, about, <<Error(code, path)>>, None))
<1>1. PICK errors : errors = <<Error(code, path)>>
  OBVIOUS
<1>2. /\ errors \in Seq(Errors) /\ errors # <<>>
      /\ DOMAIN errors = {1} /\ errors[1].code = code
  BY <1>1, OneError
<1>3. PICK status : status = StatusForCode(code)
  OBVIOUS
<1>4. \A i \in DOMAIN errors : StatusForCode(errors[i].code) = status
  BY <1>2, <1>3
<1>5. ExplainsServerError(q, Response(status, op, about, errors, None)) /\ status \in {404, 409, 500}
  BY <1>1, <1>3
<1>6. SoundAnswer(q, Response(StatusFor(errors), op, about, errors, None))
  BY <1>2, <1>4, <1>5, FailedAnswer
<1> QED
  BY <1>1, <1>6

\* What a use case writes into its envelope is an operation and an entity.
LEMMA RouteTypes ==
    ASSUME NEW q, Routed(q)
    PROVE  /\ RouteOf(q).operation \in {"create", "list", "read", "update", "delete"}
           /\ RouteOf(q).entity \in {"customer", "address"}
           /\ RouteOf(q).success \in {200, 201}
  BY RouteFacts, RouteTable

\* An answer that is no 500 has nothing to explain.
LEMMA NoServerError ==
    ASSUME NEW q, NEW status, status # 500, NEW op, NEW about, NEW errors, NEW page
    PROVE  ExplainsServerError(q, Response(status, op, about, errors, page))
  BY DEF ExplainsServerError, Response

\* A rejection by a use case.
LEMMA RefusedAnswer ==
    ASSUME NEW q, Parsed(q), IdErrors(q.path) = <<>>,
           NEW code \in {"ERR-003", "ERR-004", "ERR-005", "ERR-006"}
    PROVE  SoundAnswer(q, Failed(q, <<Error(code, <<>>)>>))
<1>1. code \in Codes /\ StatusForCode(code) \in {404, 409}
  BY DEF Codes, StatusForCode
<1>2. PICK path : path = <<>> /\ path \in Paths
  BY PathFacts
<1>3. PICK op, about : op = RouteOf(q).operation /\ about = RouteOf(q).entity
  OBVIOUS
<1>4. op \in {"create", "list", "read", "update", "delete"} /\ about \in {"customer", "address"}
  BY <1>3, RouteTypes DEF Parsed
<1>5. ExplainsServerError(q, Response(StatusForCode(code), op, about, <<Error(code, path)>>, None))
  <2>1. StatusForCode(code) # 500
    BY <1>1
  <2> QED
    BY <2>1, NoServerError
<1>6. SoundAnswer(q, Response(StatusFor(<<Error(code, path)>>), op, about, <<Error(code, path)>>, None))
  BY <1>1, <1>2, <1>3, <1>4, <1>5, OneErrorAnswer DEF Parsed
<1> QED
  BY <1>2, <1>3, <1>6 DEF Failed

\* A unique index refuses a write: the handler of DuplicateResourceError.
LEMMA RaisedAnswer ==
    ASSUME NEW q, Parsed(q), IdErrors(q.path) = <<>>, RouteOf(q).entity = "customer",
           NEW code \in {"ERR-002", "ERR-008"}, NEW path \in Paths
    PROVE  SoundAnswer(q, Raised(q, "customer", <<Error(code, path)>>))
<1>1. code \in Codes /\ StatusForCode(code) = 409
  BY DEF Codes, StatusForCode
<1>2. PICK op : op = InferOperation(q)
  OBVIOUS
<1>3. op \in {"create", "list", "read", "update", "delete"}
  BY <1>2, InferredTypes
<1>4. (Len(q.path) > 1 => q.path[2] \notin Misleading) =>
          op = RouteOf(q).operation /\ "customer" = RouteOf(q).entity
  BY <1>2, Inferred DEF Parsed
<1>5. ExplainsServerError(q, Response(StatusForCode(code), op, "customer", <<Error(code, path)>>, None))
  <2>1. StatusForCode(code) # 500
    BY <1>1
  <2> QED
    BY <2>1, NoServerError
<1>6. SoundAnswer(q, Response(StatusFor(<<Error(code, path)>>), op, "customer", <<Error(code, path)>>, None))
  BY <1>1, <1>3, <1>4, <1>5, OneErrorAnswer DEF Parsed
<1> QED
  BY <1>2, <1>6 DEF Raised

\* The handler of everything else.
LEMMA UnexpectedAnswer ==
    ASSUME NEW q, WellFormed(q), Routed(q), Parsed(q) \/ Unreadable(q), Breaks(q)
    PROVE  SoundAnswer(q, Unexpected(q))
<1>1. "ERR-007" \in Codes /\ StatusForCode("ERR-007") = 500
  BY DEF Codes, StatusForCode
<1>2. PICK path : path = <<>> /\ path \in Paths
  BY PathFacts
<1>3. PICK op, about : op = InferOperation(q) /\ about = InferEntity(q)
  OBVIOUS
<1>4. op \in {"create", "list", "read", "update", "delete"} /\ about \in {"customer", "address"}
  BY <1>3, InferredTypes
<1>5. (Len(q.path) > 1 => q.path[2] \notin Misleading) =>
          op = RouteOf(q).operation /\ about = RouteOf(q).entity
  BY <1>3, Inferred
<1>6. \A a : ExplainsServerError(q, a)
  BY RefusedBodyExplained
<1>7. SoundAnswer(q, Response(StatusFor(<<Error("ERR-007", path)>>), op, about,
                              <<Error("ERR-007", path)>>, None))
  <2>1. PICK code : code = "ERR-007" /\ code \in Codes /\ StatusForCode(code) \in {404, 409, 500}
    BY <1>1
  <2>2. ExplainsServerError(q, Response(StatusForCode(code), op, about, <<Error(code, path)>>, None))
    BY <1>6
  <2>3. SoundAnswer(q, Response(StatusFor(<<Error(code, path)>>), op, about, <<Error(code, path)>>, None))
    BY <1>2, <1>4, <1>5, <2>1, <2>2, OneErrorAnswer
  <2> QED
    BY <2>1, <2>3
<1> QED
  BY <1>2, <1>3, <1>7 DEF Unexpected, Raised

\* The result of a use case.
LEMMA OkAnswer ==
    ASSUME NEW q, Parsed(q), NEW page,
           page = None \/ (PageFits(q, page) /\
               page \in [items : Seq(Customers), total : Nat, churn : Nat])
    PROVE  SoundAnswer(q, Ok(q, page))
<1>1. PICK t : t = RouteOf(q)
  OBVIOUS
<1>2. /\ t.operation \in {"create", "list", "read", "update", "delete"}
      /\ t.entity \in {"customer", "address"} /\ t.success \in {200, 201}
  BY <1>1, RouteTypes DEF Parsed
<1>3. PICK a : a = Response(t.success, t.operation, t.entity, None, page)
  OBVIOUS
<1>4. /\ a.errors = None /\ a.page = page /\ a.status = t.success
      /\ a.operation = t.operation /\ a.entity = t.entity /\ a.success
  BY <1>3 DEF Response
<1>5. a \in Responses
  BY <1>2, <1>3 DEF Response, Responses
<1>6. a # None
  BY <1>5, HttpAssumption
<1>7. HasOneStatus(q, a)
  BY <1>2, <1>4 DEF HasOneStatus
<1>8. NamesOperation(q, a)
  BY <1>1, <1>4 DEF NamesOperation
<1>9. ExplainsServerError(q, a)
  BY <1>2, <1>4 DEF ExplainsServerError
<1>10. NamesWrongFields(q, a)
  BY <1>2, <1>4 DEF NamesWrongFields, Parsed
<1>11. a.page # None => PageFits(q, a.page)
  BY <1>4
<1>12. SoundAnswer(q, a)
  BY <1>5, <1>6, <1>7, <1>8, <1>9, <1>10, <1>11 DEF SoundAnswer
<1> QED
  BY <1>1, <1>3, <1>12 DEF Ok

-----------------------------------------------------------------------------
(* Requests in their use cases, and the listing.                           *)

\* The id that a creation gets changes nothing that was parsed.
LEMMA WithId ==
    ASSUME NEW q, WellFormed(q), Parsed(q), IdErrors(q.path) = <<>>, NEW c,
           NEW p, p = [q EXCEPT !.id = c]
    PROVE  /\ WellFormed(p) /\ Parsed(p) /\ IdErrors(p.path) = <<>>
           /\ RouteOf(p) = RouteOf(q) /\ p.id = c
<1>1. q = [method |-> q.method, path |-> q.path, body |-> q.body,
           page |-> q.page, size |-> q.size, id |-> q.id]
  BY DEF WellFormed
<1>2. /\ p = [method |-> p.method, path |-> p.path, body |-> p.body,
              page |-> p.page, size |-> p.size, id |-> p.id]
      /\ p.method = q.method /\ p.path = q.path /\ p.body = q.body
      /\ p.page = q.page /\ p.size = q.size /\ p.id = c
  <2>1. p = [q EXCEPT !.id = c]
    OBVIOUS
  <2> QED
    BY ONLY <1>1, <2>1
<1>3. Matching(p) = Matching(q)
  BY <1>2 DEF Matching
<1>4. RouteOf(p) = RouteOf(q)
  BY <1>3 DEF RouteOf
<1>5. WellFormed(p)
  BY <1>2, <1>3, <1>4 DEF WellFormed
<1>6. Parsed(p)
  BY <1>2, <1>3, <1>4 DEF Parsed, ParseErrors, Routed
<1> QED
  BY <1>2, <1>4, <1>5, <1>6

\* Every statement works on a customer that exists among the ids.
LEMMA NamedFacts ==
    ASSUME NEW q, NEW p, InUseCase(q, p), p \in {"find", "unique", "write"}
    PROVE  /\ Named(q) \in Customers /\ RouteOf(q).entity = "customer"
           /\ RouteOf(q).name \in WithBody <=> RouteOf(q).name \in {"CreateCustomer", "UpdateCustomer"}
<1>1. PICK t : t = RouteOf(q)
  OBVIOUS
<1>2. t \in Routes /\ t.segments = Len(q.path)
  BY <1>1, RouteFacts DEF InUseCase, Parsed
<1>3. t.name \in {"CreateCustomer", "GetCustomer", "UpdateCustomer", "DeleteCustomer"}
  BY <1>1 DEF InUseCase, RoutesAt
<1>4. t.entity = "customer" /\ (t.name \in WithBody <=> t.name \in {"CreateCustomer", "UpdateCustomer"})
  BY <1>2, <1>3 DEF Routes, Route, WithBody
<1>5. CASE t.name = "CreateCustomer"
  BY <1>1, <1>4, <1>5 DEF InUseCase, Named
<1>6. CASE t.name # "CreateCustomer"
  <2>1. Len(q.path) = 2
    BY <1>2, <1>3, <1>6, RouteTable
  <2>2. q.path[2] \in Customers
    BY <2>1 DEF InUseCase, IdErrors
  <2> QED
    BY <1>1, <1>4, <1>6, <2>2 DEF Named
<1> QED
  BY <1>5, <1>6

\* A request starts at a statement of its own route.
LEMMA EntryFacts ==
    ASSUME NEW q, NEW c, WellFormed(q), Parsed(q), IdErrors(q.path) = <<>>,
           RouteOf(q).name = "CreateCustomer" => q.id \in Customers
    PROVE  /\ Entry(RouteOf(q).name) \in Points \ {"idle", "select", "write", "respond"}
           /\ InUseCase(q, Entry(RouteOf(q).name))
<1>1. RouteOf(q) \in Routes
  BY RouteFacts DEF Parsed
<1>2. PICK name : name = RouteOf(q).name
  OBVIOUS
<1>3. name \in {"CreateCustomer", "ListCustomers", "GetCustomer", "UpdateCustomer", "DeleteCustomer",
                "CreateAddress", "ListAddresses", "UpdateAddress", "DeleteAddress"}
  BY <1>1, <1>2 DEF Routes, Route
<1>4. name \in RoutesAt(Entry(name)) /\ Entry(name) \in Points \ {"idle", "select", "write", "respond"}
  BY <1>3 DEF RoutesAt, Entry, Points
<1> QED
  BY <1>2, <1>4 DEF InUseCase

-----------------------------------------------------------------------------
\* A set of positions that is not empty has a last one.
LEMMA LargestElement ==
    ASSUME NEW n \in Nat, NEW S \in SUBSET (1..n), S # {}
    PROVE  \E i \in S : \A j \in S : j <= i
<1>1. PICK T : T = {n - i : i \in S}
  OBVIOUS
<1>2. T \in SUBSET Nat /\ T # {}
  <2>1. \A i \in S : n - i \in Nat
    OBVIOUS
  <2>2. \A i \in S : n - i \in T
    BY <1>1
  <2>3. \A k \in T : \E i \in S : k = n - i
    BY <1>1
  <2> QED
    BY <2>1, <2>2, <2>3
<1>3. PICK m \in T : \A k \in T : m <= k
  BY <1>2, SmallestElement
<1>4. PICK i \in S : m = n - i
  BY <1>1, <1>3
<1>5. \A j \in S : n - i <= n - j
  BY <1>1, <1>3, <1>4
<1> QED
  BY <1>4, <1>5

\* The ids are different from each other.
LEMMA IdsFacts ==
    /\ Ids \in Seq(Customers) /\ Len(Ids) \in Nat /\ DOMAIN Ids = 1..Len(Ids)
    /\ \A i \in DOMAIN Ids : Ids[i] \in Customers
    /\ \A i, j \in DOMAIN Ids : i # j => Ids[i] # Ids[j]
<1>1. Ids \in Seq(Customers)
  BY HttpAssumption DEF Customers
<1> QED
  BY <1>1, HttpAssumption DEF Customers, ToSet, IsInjective

\* There is an id left for the creation that is received.
LEMMA NextId ==
    ASSUME LastUsed < Len(Ids)
    PROVE  Ids[LastUsed + 1] \in Customers
<1>1. PICK used : used = {i \in DOMAIN Ids : \/ customers[Ids[i]] # None
                                             \/ \E r \in Requests : /\ req[r] # NoRequest
                                                                    /\ req[r].id = Ids[i]}
  OBVIOUS
<1>2. used \in SUBSET (1..Len(Ids))
  BY <1>1, IdsFacts
<1>3. LastUsed = IF used = {} THEN 0 ELSE CHOOSE i \in used : \A j \in used : j <= i
  BY <1>1 DEF LastUsed
<1>4. LastUsed \in 0..Len(Ids)
  <2>1. CASE used = {}
    BY <1>3, <2>1, IdsFacts
  <2>2. CASE used # {}
    <3>1. LastUsed \in used
      BY <1>2, <1>3, <2>2, IdsFacts, LargestElement
    <3> QED
      BY <1>2, <3>1, IdsFacts
  <2> QED
    BY <2>1, <2>2
<1>5. LastUsed + 1 \in DOMAIN Ids
  BY <1>4, IdsFacts
<1> QED
  BY <1>5, IdsFacts

-----------------------------------------------------------------------------
\* Whatever a client asks for, the page has a size and an offset.
LEMMA PageNumbers ==
    ASSUME NEW q, WellFormed(q)
    PROVE  /\ PageSize(q) \in 1..MaxPageSize /\ PageSize(q) \in Nat
           /\ Offset(q) \in Nat
<1>1. Given(q.size) # None => Given(q.size) \in Int
  BY DEF WellFormed, IsValue, Given
<1>2. Given(q.page) # None => Given(q.page) \in Int
  BY DEF WellFormed, IsValue, Given
<1>3. PageSize(q) \in 1..MaxPageSize
  BY <1>1, HttpAssumption DEF PageSize
<1>4. Page(q) - 1 \in Nat
  BY <1>2 DEF Page
<1>5. PageSize(q) \in Nat
  BY <1>3, HttpAssumption
<1>6. PICK m, n : m = Page(q) - 1 /\ n = PageSize(q)
  OBVIOUS
<1>7. m * n \in Nat
  BY <1>4, <1>5, <1>6
<1> QED
  BY <1>3, <1>5, <1>6, <1>7 DEF Offset

ActiveCustomers == {c \in Customers : Active(c)}

\* Selecting from the ids keeps their order and loses nobody.
LEMMA KeptIds ==
    ASSUME NEW S \in SUBSET Customers
    PROVE  /\ Keep(Ids, S) \in Seq(Customers) /\ Len(Keep(Ids, S)) \in Nat
           /\ \A i, j \in DOMAIN Keep(Ids, S) : i < j =>
                 \E m, n \in DOMAIN Ids : m < n /\ Keep(Ids, S)[i] = Ids[m] /\ Keep(Ids, S)[j] = Ids[n]
           /\ IsFiniteSet(S) /\ Cardinality(S) = Len(Keep(Ids, S))
<1>1. PICK items : items = Keep(Ids, S)
  OBVIOUS
<1>2. /\ items \in Seq(Customers)
      /\ \A i \in DOMAIN items : items[i] \in S \cap ToSet(Ids)
      /\ \A m \in DOMAIN Ids : Ids[m] \in S => \E i \in DOMAIN items : items[i] = Ids[m]
      /\ \A i, j \in DOMAIN items : i < j =>
             \E m, n \in DOMAIN Ids : m < n /\ items[i] = Ids[m] /\ items[j] = Ids[n]
  <2>1. PICK s : s = Ids /\ s \in Seq(Customers)
    BY IdsFacts
  <2>2. items = Keep(s, S)
    BY <1>1, <2>1
  <2>3. /\ items \in Seq(Customers)
        /\ \A i \in DOMAIN items : items[i] \in S \cap ToSet(s)
        /\ \A m \in DOMAIN s : s[m] \in S => \E i \in DOMAIN items : items[i] = s[m]
        /\ \A i, j \in DOMAIN items : i < j =>
               \E m, n \in DOMAIN s : m < n /\ items[i] = s[m] /\ items[j] = s[n]
    BY <2>1, <2>2, KeepInOrder
  <2> QED
    BY <2>1, <2>3
<1>3. Len(items) \in Nat /\ DOMAIN items = 1..Len(items)
  BY <1>2
<1>4. \A i, j \in DOMAIN items : i < j => items[i] # items[j]
  <2>1. TAKE i, j \in DOMAIN items
  <2>2. HAVE i < j
  <2>3. PICK m, n \in DOMAIN Ids : m < n /\ items[i] = Ids[m] /\ items[j] = Ids[n]
    BY <1>2, <2>2
  <2>4. m # n
    BY <2>3, IdsFacts
  <2> QED
    BY <2>3, <2>4, IdsFacts
<1>5. \A i, j \in DOMAIN items : i # j => items[i] # items[j]
  <2>1. TAKE i, j \in DOMAIN items
  <2>2. HAVE i # j
  <2>3. i < j \/ j < i
    BY <1>3, <2>2
  <2> QED
    BY <1>4, <2>3
<1>6. ToSet(items) = S
  <2>1. ASSUME NEW c \in S PROVE c \in ToSet(items)
    <3>1. PICK m \in DOMAIN Ids : Ids[m] = c
      BY <2>1 DEF Customers, ToSet
    <3> QED
      BY <1>2, <3>1 DEF ToSet
  <2> QED
    BY <1>2, <2>1 DEF ToSet
<1>7. IsFiniteSet(S) /\ Cardinality(S) = Len(items)
  BY <1>2, <1>5, <1>6, CountDistinct
<1> QED
  BY <1>1, <1>2, <1>3, <1>7

\* The listing's rows are in the order of creation.
LEMMA ActiveIdsFacts ==
    /\ ActiveIds \in Seq(Customers) /\ Len(ActiveIds) \in Nat
    /\ \A i, j \in DOMAIN ActiveIds : i < j =>
           \E m, n \in DOMAIN Ids : m < n /\ ActiveIds[i] = Ids[m] /\ ActiveIds[j] = Ids[n]
<1>1. PICK S : S = ActiveCustomers /\ S \in SUBSET Customers
  BY DEF ActiveCustomers
<1>2. ActiveIds = Keep(Ids, S)
  BY <1>1 DEF ActiveIds, ActiveCustomers
<1> QED
  BY <1>1, <1>2, KeptIds

\* How many items a page has.
LEMMA SliceLength ==
    ASSUME NEW n \in Nat, NEW o \in Nat, NEW k \in Nat, NEW len,
           len = IF o + 1 <= Shorter(o + k, n) THEN Shorter(o + k, n) - (o + 1) + 1 ELSE 0
    PROVE  len = Shorter(IF n > o THEN n - o ELSE 0, k) /\ len <= k
  BY DEF Shorter

\* Where they are in the whole listing.
LEMMA SliceIndex ==
    ASSUME NEW n \in Nat, NEW o \in Nat, NEW hi \in Nat, hi <= n, NEW lo, lo = o + 1,
           NEW len, len = IF lo <= hi THEN hi - lo + 1 ELSE 0, NEW i \in 1..len
    PROVE  i \in 1 .. hi - lo + 1 /\ lo + i - 1 = o + i /\ o + i \in 1..n
  OBVIOUS

\* What a total promises is no further from the truth than the total is.
LEMMA PromiseIsClose ==
    ASSUME NEW n \in Nat, NEW t \in Nat, NEW o \in Nat, NEW k \in Nat, NEW d \in Nat, Distance(t, n) <= d
    PROVE  Distance(Shorter(IF n > o THEN n - o ELSE 0, k),
                    Shorter(IF t > o THEN t - o ELSE 0, k)) <= d
  BY DEF Distance, Shorter

\* A page selected when the total was off by at most churn is the one promised,
\* up to churn.
LEMMA PageAnswer ==
    ASSUME NEW q, WellFormed(q), NEW ids \in Seq(Customers), NEW total \in Nat, NEW churn \in Nat,
           \A i, j \in DOMAIN ids : i < j =>
               \E m, n \in DOMAIN Ids : m < n /\ ids[i] = Ids[m] /\ ids[j] = Ids[n],
           Distance(total, Len(ids)) <= churn,
           NEW items, items = SubSeq(ids, Offset(q) + 1, Shorter(Offset(q) + PageSize(q), Len(ids)))
    PROVE  /\ items \in Seq(Customers)
           /\ PageFits(q, [items |-> items, total |-> total, churn |-> churn])
<1>1. PICK o, k, n : o = Offset(q) /\ k = PageSize(q) /\ n = Len(ids)
  OBVIOUS
<1>2. o \in Nat /\ k \in Nat /\ k \in 1..MaxPageSize /\ n \in Nat /\ DOMAIN ids = 1..n
  BY <1>1, PageNumbers
<1>3. PICK hi : hi = Shorter(o + k, n)
  OBVIOUS
<1>4. hi \in Nat /\ hi <= n
  BY <1>2, <1>3 DEF Shorter
<1>5. items = SubSeq(ids, o + 1, hi)
  BY <1>1, <1>3
<1>6. /\ items \in Seq(Customers)
      /\ Len(items) = IF o + 1 <= hi THEN hi - (o + 1) + 1 ELSE 0
      /\ \A i \in 1..Len(items) : items[i] = ids[o + i] /\ o + i \in 1..n
  <2>1. \A i \in o + 1 .. hi : i \in 1..n /\ ids[i] \in Customers
    BY <1>2, <1>4
  <2>2. PICK lo : lo = o + 1
    OBVIOUS
  <2>3. lo \in Int /\ hi \in Int /\ \A i \in lo..hi : ids[i] \in Customers
    BY <1>2, <1>4, <2>1, <2>2
  <2>4. /\ SubSeq(ids, lo, hi) \in Seq(Customers)
        /\ Len(SubSeq(ids, lo, hi)) = IF lo <= hi THEN hi - lo + 1 ELSE 0
        /\ \A i \in 1 .. hi - lo + 1 : SubSeq(ids, lo, hi)[i] = ids[lo + i - 1]
    BY <2>3, SubSeqProperties
  <2>5. items = SubSeq(ids, lo, hi)
    BY <1>5, <2>2
  <2>6. PICK len : len = Len(items) /\ len = IF lo <= hi THEN hi - lo + 1 ELSE 0
    BY <2>4, <2>5
  <2>7. ASSUME NEW i \in 1..len PROVE items[i] = ids[o + i] /\ o + i \in 1..n
    <3>1. i \in 1 .. hi - lo + 1 /\ lo + i - 1 = o + i /\ o + i \in 1..n
      <4>1. len = IF lo <= hi THEN hi - lo + 1 ELSE 0
        BY <2>6
      <4> QED
        BY <1>2, <1>4, <2>2, <2>7, <4>1, SliceIndex
    <3> QED
      BY <2>4, <2>5, <3>1
  <2> QED
    BY <2>2, <2>4, <2>5, <2>6, <2>7
<1>7. Len(items) = Shorter(IF n > o THEN n - o ELSE 0, k) /\ Len(items) <= k
  <2>1. PICK len : len = Len(items)
    OBVIOUS
  <2>2. len = IF o + 1 <= Shorter(o + k, n) THEN Shorter(o + k, n) - (o + 1) + 1 ELSE 0
    BY <1>3, <1>6, <2>1
  <2> QED
    BY <1>2, <2>1, <2>2, SliceLength
<1>8. Len(items) <= k
  BY <1>7
<1>9. PICK page : page = [items |-> items, total |-> total, churn |-> churn]
  OBVIOUS
<1>10. page.items = items /\ page.total = total /\ page.churn = churn
  BY <1>9
<1>11. ASSUME NEW i \in DOMAIN items, NEW j \in DOMAIN items, NEW m \in DOMAIN Ids, NEW p \in DOMAIN Ids,
              i < j, items[i] = Ids[m], items[j] = Ids[p]
       PROVE  m < p
  <2>1. i \in 1..Len(items) /\ j \in 1..Len(items) /\ o + i < o + j
    BY <1>2, <1>6, <1>11
  <2>2. /\ items[i] = ids[o + i] /\ items[j] = ids[o + j]
        /\ o + i \in DOMAIN ids /\ o + j \in DOMAIN ids
    BY <1>2, <1>6, <2>1
  <2>3. PICK u, v \in DOMAIN Ids : u < v /\ ids[o + i] = Ids[u] /\ ids[o + j] = Ids[v]
    BY <2>1, <2>2
  <2>4. m = u /\ p = v
    <3>1. Ids[m] = Ids[u] /\ Ids[p] = Ids[v]
      BY <1>11, <2>2, <2>3
    <3> QED
      BY <2>3, <3>1, IdsFacts
  <2> QED
    BY <2>3, <2>4
<1>12. Distance(Len(items), PromisedItems(q, total)) <= churn
  <2>1. Distance(total, n) <= churn
    BY <1>1
  <2>2. PromisedItems(q, total) = Shorter(IF total > o THEN total - o ELSE 0, k)
    BY <1>1 DEF PromisedItems, Offset
  <2> QED
    BY <1>2, <1>7, <2>1, <2>2, PromiseIsClose
<1>13. PageFits(q, page)
  BY <1>1, <1>2, <1>8, <1>10, <1>11, <1>12 DEF PageFits
<1> QED
  BY <1>6, <1>9, <1>13

-----------------------------------------------------------------------------
\* A write that touches one row changes the count by one at most, and only when
\* the row comes or goes.
LEMMA CountAfter ==
    ASSUME NEW S, NEW T, IsFiniteSet(S), IsFiniteSet(T), NEW c, S \ {c} = T \ {c}
    PROVE  /\ Cardinality(S) \in Nat /\ Cardinality(T) \in Nat
           /\ Distance(Cardinality(S), Cardinality(T)) <= 1
           /\ (c \in S <=> c \in T) => S = T
<1>1. PICK U : U = S \ {c}
  OBVIOUS
<1>2. IsFiniteSet(U) /\ c \notin U
  BY <1>1, FS_Subset
<1>3. Cardinality(U) \in Nat /\ Cardinality(S) \in Nat /\ Cardinality(T) \in Nat
  BY <1>2, FS_CardinalityType
<1>4. IsFiniteSet(U \cup {c}) /\ Cardinality(U \cup {c}) = Cardinality(U) + 1
  BY <1>2, FS_AddElement
<1>5. (S = U \/ S = U \cup {c}) /\ (T = U \/ T = U \cup {c})
  BY <1>1
<1>6. Distance(Cardinality(S), Cardinality(T)) <= 1
  <2>1. PICK u, s, t : u = Cardinality(U) /\ s = Cardinality(S) /\ t = Cardinality(T)
    OBVIOUS
  <2>2. s = u \/ s = u + 1
    BY <1>4, <1>5, <2>1
  <2>3. t = u \/ t = u + 1
    BY <1>4, <1>5, <2>1
  <2> QED
    BY <1>3, <2>1, <2>2, <2>3 DEF Distance
<1> QED
  BY <1>3, <1>6

-----------------------------------------------------------------------------
\* What CreateCustomer or UpdateCustomer finds wrong is answered 409.
LEMMA UseCaseAnswer ==
    ASSUME NEW q, WellFormed(q), InUseCase(q, "unique"), UseCaseErrors(q) # <<>>
    PROVE  SoundAnswer(q, Failed(q, UseCaseErrors(q)))
<1>1. PICK e : e = UseCaseErrors(q)
  OBVIOUS
<1>2. PICK op, about : op = RouteOf(q).operation /\ about = RouteOf(q).entity
  OBVIOUS
<1>3. /\ op \in {"create", "list", "read", "update", "delete"} /\ about \in {"customer", "address"}
      /\ Parsed(q) /\ IdErrors(q.path) = <<>> /\ RouteOf(q).name \in {"CreateCustomer", "UpdateCustomer"}
  BY <1>2, RouteTypes DEF InUseCase, Parsed, RoutesAt
<1>4. /\ e \in Seq(Errors)
      /\ \A i \in DOMAIN e : e[i].code \in {"ERR-002", "ERR-005", "ERR-008"}
  <2>1. /\ <<>> \in Seq(Errors)
        /\ <<Error("ERR-002", <<"email">>)>> \in Seq(Errors)
        /\ <<Error("ERR-008", <<"identification">>)>> \in Seq(Errors)
        /\ <<Error("ERR-005", <<"addresses">>)>> \in Seq(Errors)
    <3>1. <<"email">> \in Paths /\ <<"identification">> \in Paths /\ <<"addresses">> \in Paths
      BY PathFacts
    <3>2. "ERR-002" \in Codes /\ "ERR-005" \in Codes /\ "ERR-008" \in Codes
      BY DEF Codes
    <3> QED
      BY <3>1, <3>2, OneError, EmptySeq
  <2>2. CASE RouteOf(q).name = "CreateCustomer" /\ CreationErrors(q.body) # <<>>
    <3>1. e = CreationErrors(q.body)
      BY <1>1, <2>2 DEF UseCaseErrors, ValidationErrors
    <3>2. FieldErrors(CustomerFields, q.body, <<>>) = <<>> /\ EmbeddedErrors(q.body.addresses) = <<>>
      <4>1. RouteOf(q) \in Routes /\ RouteOf(q).name \in WithBody /\ q.body.kind = "object"
        BY <1>3, <2>2, RouteFacts DEF Parsed, WithBody
      <4>2. RouteOf(q).entity = "customer"
        BY <2>2, <4>1, RouteTable
      <4>3. IsObject(q.body, CustomerFields) /\ (q.body.addresses.kind = "list" => IsList(q.body.addresses))
        BY <1>3, <2>2, <4>1, <4>2 DEF WellFormed, Parsed, Routed
      <4>4. WrongFields(CustomerFields, q.body, <<>>) = {} /\ WrongItems(q.body.addresses) = {}
        BY <1>3, <2>2, <4>1 DEF Parsed, Wrong
      <4>5. PICK v : v = q.body.addresses
        OBVIOUS
      <4>6. NamesOnce(EmbeddedErrors(v), WrongItems(v))
        BY <4>3, <4>5, EmbeddedErrorsNameItems
      <4>7. EmbeddedErrors(v) = <<>>
        BY <4>4, <4>5, <4>6, NamesOnceCount
      <4>8. NamesOnce(FieldErrors(CustomerFields, q.body, <<>>), WrongFields(CustomerFields, q.body, <<>>))
        BY <4>3, CustomerErrorsNameFields
      <4>9. FieldErrors(CustomerFields, q.body, <<>>) = <<>>
        BY <4>4, <4>8, NamesOnceCount
      <4> QED
        BY <4>5, <4>7, <4>9
    <3>3. CreationErrors(q.body) = <<>> \/ CreationErrors(q.body) = <<Error("ERR-005", <<"addresses">>)>>
      <4>1. PICK f, g : f = FieldErrors(CustomerFields, q.body, <<>>) /\ g = EmbeddedErrors(q.body.addresses)
        OBVIOUS
      <4>2. CreationErrors(q.body) = f \o (IF Len(Embedded(q.body)) > MaxAddresses
                                           THEN <<Error("ERR-005", <<"addresses">>)>> ELSE g)
        BY <4>1 DEF CreationErrors
      <4>3. f = <<>> /\ g = <<>>
        BY <3>2, <4>1
      <4>4. PICK x : x = <<Error("ERR-005", <<"addresses">>)>> /\ x \in Seq(Errors)
        BY <2>1
      <4>5. <<>> \o x = x
        BY <4>4
      <4>6. <<>> \o <<>> = <<>>
        OBVIOUS
      <4> QED
        BY <4>2, <4>3, <4>4, <4>5, <4>6
    <3>4. e = <<Error("ERR-005", <<"addresses">>)>>
      BY <2>2, <3>1, <3>3
    <3>5. DOMAIN <<Error("ERR-005", <<"addresses">>)>> = {1}
          /\ <<Error("ERR-005", <<"addresses">>)>>[1].code = "ERR-005"
      BY DEF Error
    <3> QED
      BY <2>1, <3>4, <3>5
  <2>3. CASE ~(RouteOf(q).name = "CreateCustomer" /\ CreationErrors(q.body) # <<>>)
    <3>1. PICK f, g :
             /\ f = <<>> \/ f = <<Error("ERR-002", <<"email">>)>>
             /\ g = <<>> \/ g = <<Error("ERR-008", <<"identification">>)>>
             /\ e = f \o g
      BY <1>1, <2>3 DEF UseCaseErrors, ValidationErrors, Duplicates
    <3>2. f \in Seq(Errors) /\ g \in Seq(Errors)
      BY <2>1, <3>1
    <3>3. /\ \A i \in 1..Len(f) : f[i].code \in {"ERR-002", "ERR-005", "ERR-008"}
          /\ \A i \in 1..Len(g) : g[i].code \in {"ERR-002", "ERR-005", "ERR-008"}
      BY <3>1 DEF Error
    <3>4. e \in Seq(Errors) /\ Len(e) = Len(f) + Len(g)
      BY <3>1, <3>2
    <3>5. \A i \in 1..Len(e) : e[i] = IF i <= Len(f) THEN f[i] ELSE g[i - Len(f)]
      BY <3>1, <3>2
    <3>6. Len(f) \in Nat /\ Len(g) \in Nat
      BY <3>2
    <3>7. ASSUME NEW i \in 1..Len(e) PROVE e[i].code \in {"ERR-002", "ERR-005", "ERR-008"}
      <4>1. CASE i <= Len(f)
        BY <3>3, <3>4, <3>5, <3>6, <3>7, <4>1
      <4>2. CASE ~(i <= Len(f))
        <5>1. i - Len(f) \in 1..Len(g)
          BY <3>4, <3>6, <3>7, <4>2
        <5> QED
          BY <3>3, <3>5, <3>7, <4>2, <5>1
      <4> QED
        BY <4>1, <4>2
    <3> QED
      BY <3>4, <3>7
  <2> QED
    BY <2>2, <2>3
<1>5. \A i \in DOMAIN e : StatusForCode(e[i].code) = 409
  BY <1>4 DEF StatusForCode
<1>6. ExplainsServerError(q, Response(409, op, about, e, None))
  BY NoServerError
<1>7. SoundAnswer(q, Response(StatusFor(e), op, about, e, None))
  BY <1>1, <1>2, <1>3, <1>4, <1>5, <1>6, FailedAnswer DEF Parsed
<1> QED
  BY <1>1, <1>2, <1>7 DEF Failed

-----------------------------------------------------------------------------
(* Steps.                                                                  *)

\* A request of a client is never the mark of an idle thread.
LEMMA WellFormedIsRequest ==
    ASSUME NEW q, WellFormed(q)
    PROVE  q # NoRequest
<1>1. q = [method |-> q.method, path |-> q.path, body |-> q.body,
           page |-> q.page, size |-> q.size, id |-> q.id]
  BY DEF WellFormed
<1>2. "path" \in DOMAIN q
  BY <1>1
<1>3. "path" \notin DOMAIN NoRequest
  BY DEF NoRequest
<1> QED
  BY <1>2, <1>3

\* A function is its own update with the value it has.
LEMMA Kept ==
    ASSUME NEW S, NEW f, f = [s \in S |-> f[s]], NEW r \in S
    PROVE  f = [f EXCEPT ![r] = f[r]]
  OBVIOUS

\* A step that changes the state of one request and no customer.
LEMMA Moved ==
    ASSUME HttpInv, NEW r \in Requests, UNCHANGED customers,
           NEW p \in Points, NEW q, NEW e \in CustomerRow \cup {None},
           NEW l \in Listings \cup {None}, NEW a \in Responses \cup {None},
           pc' = [pc EXCEPT ![r] = p], req' = [req EXCEPT ![r] = q],
           entity' = [entity EXCEPT ![r] = e], listing' = [listing EXCEPT ![r] = l],
           answer' = [answer EXCEPT ![r] = a],
           p = "idle" <=> q = NoRequest,
           p = "select" <=> l # None,
           p = "respond" <=> a # None,
           p # "idle" => WellFormed(q) /\ (p # "respond" => InUseCase(q, p)),
           e # None => StoredRow(e),
           p = "write" /\ RouteOf(q).name = "DeleteCustomer" => e # None,
           p = "respond" => SoundAnswer(q, a),
           p = "select" => Distance(l.total, Len(ActiveIds)) <= l.churn
    PROVE  HttpInv'
<1>1. /\ pc'[r] = p /\ req'[r] = q /\ entity'[r] = e /\ listing'[r] = l /\ answer'[r] = a
      /\ \A s \in Requests : s # r =>
            /\ pc'[s] = pc[s] /\ req'[s] = req[s] /\ entity'[s] = entity[s]
            /\ listing'[s] = listing[s] /\ answer'[s] = answer[s]
  BY DEF HttpInv, TypeOK
<1>2. TypeOK'
  <2>1. /\ customers' \in [Customers -> CustomerRow \cup {None}]
        /\ \A c \in Customers : customers'[c] # None =>
               /\ ValidText("email", customers'[c].email) /\ ~customers'[c].email.padded
               /\ ValidText("identification", customers'[c].ident) /\ ~customers'[c].ident.padded
    BY DEF HttpInv, TypeOK
  <2>2. pc' \in [Requests -> Points] /\ req' = [s \in Requests |-> req'[s]]
    BY DEF HttpInv, TypeOK
  <2>3. entity' \in [Requests -> CustomerRow \cup {None}]
    BY DEF HttpInv, TypeOK
  <2>4. listing' \in [Requests -> Listings \cup {None}]
    BY DEF HttpInv, TypeOK
  <2>5. answer' \in [Requests -> Responses \cup {None}]
    BY DEF HttpInv, TypeOK
  <2>6. \A s \in Requests : /\ pc'[s] = "idle" <=> req'[s] = NoRequest
                            /\ pc'[s] = "select" <=> listing'[s] # None
                            /\ pc'[s] = "respond" <=> answer'[s] # None
    BY <1>1 DEF HttpInv, TypeOK
  <2> QED
    BY <2>1, <2>2, <2>3, <2>4, <2>5, <2>6 DEF TypeOK
<1>3. RequestInv'
  BY <1>1 DEF HttpInv, RequestInv
<1>4. RowInv'
  BY <1>1 DEF HttpInv, RowInv
<1>5. EmailsDifferInSubstance'
  BY DEF HttpInv, EmailsDifferInSubstance
<1>6. AnswerInv'
  BY <1>1 DEF HttpInv, AnswerInv
<1>7. CountInv'
  <2>1. ActiveIds' = ActiveIds
    BY DEF ActiveIds, Active
  <2> QED
    BY <1>1, <2>1 DEF HttpInv, CountInv
<1> QED
  BY <1>2, <1>3, <1>4, <1>5, <1>6, <1>7 DEF HttpInv

\* What holds for a request at a statement.
LEMMA InAction ==
    ASSUME HttpInv, NEW r \in Requests, pc[r] # "idle", pc[r] # "respond"
    PROVE  /\ WellFormed(req[r]) /\ InUseCase(req[r], pc[r])
           /\ Parsed(req[r]) /\ IdErrors(req[r].path) = <<>>
           /\ RouteOf(req[r]).name \in RoutesAt(pc[r])
           /\ req[r] # NoRequest /\ answer[r] = None
           /\ pc[r] # "select" => listing[r] = None
  BY WellFormedIsRequest DEF HttpInv, TypeOK, RequestInv, InUseCase

\* Every step that ends a request with a sound answer keeps the invariant.
LEMMA Replied ==
    ASSUME HttpInv, NEW r \in Requests, UNCHANGED customers, pc[r] # "idle", pc[r] # "respond",
           NEW a, Reply(r, a), SoundAnswer(req[r], a)
    PROVE  HttpInv'
<1>1. WellFormed(req[r]) /\ req[r] # NoRequest
  BY InAction
<1>2. req = [req EXCEPT ![r] = req[r]]
  BY Kept DEF HttpInv, TypeOK
<1>3. a \in Responses /\ a # None
  BY DEF SoundAnswer
<1>4. PICK q : q = req[r]
  OBVIOUS
<1>5. /\ pc' = [pc EXCEPT ![r] = "respond"] /\ req' = [req EXCEPT ![r] = q]
      /\ entity' = [entity EXCEPT ![r] = None] /\ listing' = [listing EXCEPT ![r] = None]
      /\ answer' = [answer EXCEPT ![r] = a]
  BY <1>2, <1>4 DEF Reply
<1>6. "respond" \in Points
  BY DEF Points
<1> QED
  BY <1>1, <1>3, <1>4, <1>5, <1>6, Moved

\* A request goes on to another statement, with the row it has found.
LEMMA WentOn ==
    ASSUME HttpInv, NEW r \in Requests, UNCHANGED customers, pc[r] \in {"find", "unique"},
           NEW p \in {"unique", "write"}, Goto(r, p), InUseCase(req[r], p),
           NEW e \in CustomerRow \cup {None}, entity' = [entity EXCEPT ![r] = e],
           e # None => StoredRow(e),
           p = "write" /\ RouteOf(req[r]).name = "DeleteCustomer" => e # None,
           UNCHANGED listing
    PROVE  HttpInv'
<1>1. WellFormed(req[r]) /\ req[r] # NoRequest /\ answer[r] = None /\ listing[r] = None
  BY InAction
<1>2. /\ req = [req EXCEPT ![r] = req[r]]
      /\ listing = [listing EXCEPT ![r] = listing[r]] /\ answer = [answer EXCEPT ![r] = answer[r]]
  BY Kept DEF HttpInv, TypeOK
<1>3. PICK q : q = req[r]
  OBVIOUS
<1>4. /\ pc' = [pc EXCEPT ![r] = p] /\ req' = [req EXCEPT ![r] = q]
      /\ listing' = [listing EXCEPT ![r] = None] /\ answer' = [answer EXCEPT ![r] = None]
  BY <1>1, <1>2, <1>3 DEF Goto
<1>5. p \in Points
  BY DEF Points
<1>6. /\ WellFormed(q) /\ InUseCase(q, p) /\ q # NoRequest
      /\ (p = "write" /\ RouteOf(q).name = "DeleteCustomer" => e # None)
  BY <1>1, <1>3
<1> QED
  BY <1>4, <1>5, <1>6, Moved

-----------------------------------------------------------------------------
\* get_by_id.
LEMMA FindKeeps ==
    ASSUME HttpInv, NEW r \in Requests, FindCustomer(r)
    PROVE  HttpInv'
<1>1. pc[r] = "find" /\ UNCHANGED customers
  BY DEF FindCustomer
<1>2. PICK q : q = req[r]
  OBVIOUS
<1>3. /\ Parsed(q) /\ IdErrors(q.path) = <<>> /\ InUseCase(q, "find")
      /\ RouteOf(q).name \in {"GetCustomer", "UpdateCustomer", "DeleteCustomer"}
  BY <1>1, <1>2, InAction DEF RoutesAt
<1>4. PICK c : c = Named(q)
  OBVIOUS
<1>5. c \in Customers
  BY <1>3, <1>4, NamedFacts
<1>6. CASE Reply(r, Failed(q, <<Error("ERR-003", <<>>)>>))
  BY <1>1, <1>2, <1>3, <1>6, RefusedAnswer, Replied
<1>7. CASE Reply(r, Ok(q, None))
  BY <1>1, <1>2, <1>3, <1>7, OkAnswer, Replied
<1>8. CASE /\ Active(c) /\ RouteOf(q).name # "GetCustomer"
           /\ Goto(r, IF RouteOf(q).name = "UpdateCustomer" THEN "unique" ELSE "write")
           /\ entity' = [entity EXCEPT ![r] = customers[c]]
           /\ UNCHANGED listing
  <2>1. PICK p : p = IF RouteOf(q).name = "UpdateCustomer" THEN "unique" ELSE "write"
    OBVIOUS
  <2>2. p \in {"unique", "write"} /\ Goto(r, p)
    BY <1>8, <2>1
  <2>3. InUseCase(req[r], p)
    BY <1>2, <1>3, <1>8, <2>1 DEF InUseCase, RoutesAt
  <2>4. PICK e : e = customers[c]
    OBVIOUS
  <2>5. e \in CustomerRow \cup {None} /\ e # None /\ StoredRow(e)
    BY <1>5, <1>8, <2>4 DEF HttpInv, TypeOK, RowInv, Active
  <2> QED
    BY <1>1, <1>8, <2>2, <2>3, <2>4, <2>5, WentOn
<1> QED
  BY <1>2, <1>4, <1>6, <1>7, <1>8 DEF FindCustomer

\* The uniqueness lookups.
LEMMA EnsureUniqueKeeps ==
    ASSUME HttpInv, NEW r \in Requests, EnsureUnique(r)
    PROVE  HttpInv'
<1>1. pc[r] = "unique" /\ UNCHANGED customers
  BY DEF EnsureUnique
<1>2. PICK q : q = req[r]
  OBVIOUS
<1>3. /\ WellFormed(q) /\ InUseCase(q, "unique")
      /\ RouteOf(q).name \in {"CreateCustomer", "UpdateCustomer"}
  BY <1>1, <1>2, InAction DEF RoutesAt
<1>4. PICK errors : errors = UseCaseErrors(q)
  OBVIOUS
<1>5. CASE errors # <<>> /\ Reply(r, Failed(q, errors))
  BY <1>1, <1>2, <1>3, <1>4, <1>5, UseCaseAnswer, Replied
<1>6. CASE ~KeysSendable(q) /\ Reply(r, Unexpected(q))
  <2>1. Routed(q) /\ Parsed(q) /\ Breaks(q)
    BY <1>3, <1>6 DEF InUseCase, Parsed, Breaks
  <2> QED
    BY <1>1, <1>2, <1>3, <1>6, <2>1, UnexpectedAnswer, Replied
<1>7. CASE Goto(r, "write") /\ UNCHANGED <<entity, listing>>
  <2>1. InUseCase(req[r], "write")
    BY <1>2, <1>3 DEF InUseCase, RoutesAt
  <2>2. PICK e : e = entity[r]
    OBVIOUS
  <2>3. e \in CustomerRow \cup {None} /\ (e # None => StoredRow(e))
    BY <2>2 DEF HttpInv, TypeOK, RowInv
  <2>4. entity = [entity EXCEPT ![r] = entity[r]]
    BY Kept DEF HttpInv, TypeOK
  <2>5. entity' = [entity EXCEPT ![r] = e]
    BY <1>7, <2>2, <2>4
  <2>6. RouteOf(req[r]).name # "DeleteCustomer"
    BY <1>2, <1>3
  <2> QED
    BY <1>1, <1>7, <2>1, <2>3, <2>5, <2>6, WentOn
<1> QED
  BY <1>2, <1>4, <1>5, <1>6, <1>7 DEF EnsureUnique

\* A request on addresses.
LEMMA OnAddressKeeps ==
    ASSUME HttpInv, NEW r \in Requests, OnAddress(r)
    PROVE  HttpInv'
<1>1. pc[r] = "address" /\ UNCHANGED customers
  BY DEF OnAddress
<1>2. PICK q : q = req[r]
  OBVIOUS
<1>3. /\ WellFormed(q) /\ Parsed(q) /\ IdErrors(q.path) = <<>>
      /\ RouteOf(q).name \in {"CreateAddress", "ListAddresses", "UpdateAddress", "DeleteAddress"}
  BY <1>1, <1>2, InAction DEF RoutesAt
<1>4. ASSUME NEW code \in Rejections(RouteOf(q).name), Reply(r, Failed(q, <<Error(code, <<>>)>>))
      PROVE  HttpInv'
  <2>1. code \in {"ERR-003", "ERR-004", "ERR-005", "ERR-006"}
    BY <1>4 DEF Rejections
  <2> QED
    BY <1>1, <1>2, <1>3, <1>4, <2>1, RefusedAnswer, Replied
<1>5. CASE Reply(r, Ok(q, None))
  BY <1>1, <1>2, <1>3, <1>5, OkAnswer, Replied
<1>6. CASE RouteOf(q).name \in WithBody /\ ~AddressFits(q.body) /\ Reply(r, Unexpected(q))
  <2>1. Routed(q) /\ Breaks(q)
    BY <1>3, <1>6 DEF Parsed, Breaks, WithBody
  <2> QED
    BY <1>1, <1>2, <1>3, <1>6, <2>1, UnexpectedAnswer, Replied
<1> QED
  BY <1>2, <1>4, <1>5, <1>6 DEF OnAddress

\* The end of a request.
LEMMA RespondKeeps ==
    ASSUME HttpInv, NEW r \in Requests, Respond(r)
    PROVE  HttpInv'
<1>1. pc[r] = "respond" /\ UNCHANGED <<customers, entity, listing>>
  BY DEF Respond
<1>2. PICK e : e = entity[r]
  OBVIOUS
<1>3. e \in CustomerRow \cup {None} /\ (e # None => StoredRow(e)) /\ listing[r] = None
  BY <1>1, <1>2 DEF HttpInv, TypeOK, RowInv
<1>4. /\ entity = [entity EXCEPT ![r] = entity[r]] /\ listing = [listing EXCEPT ![r] = listing[r]]
  BY Kept DEF HttpInv, TypeOK
<1>5. /\ entity' = [entity EXCEPT ![r] = e] /\ listing' = [listing EXCEPT ![r] = None]
      /\ pc' = [pc EXCEPT ![r] = "idle"] /\ req' = [req EXCEPT ![r] = NoRequest]
      /\ answer' = [answer EXCEPT ![r] = None]
  BY <1>1, <1>2, <1>3, <1>4 DEF Respond
<1>6. "idle" \in Points
  BY DEF Points
<1> QED
  BY <1>1, <1>3, <1>5, <1>6, Moved

\* The listing counts.
LEMMA CountKeeps ==
    ASSUME HttpInv, NEW r \in Requests, CountCustomers(r)
    PROVE  HttpInv'
<1>1. pc[r] = "count" /\ UNCHANGED <<customers, entity>>
  BY DEF CountCustomers
<1>2. PICK q : q = req[r]
  OBVIOUS
<1>3. WellFormed(q) /\ InUseCase(q, "count") /\ q # NoRequest /\ answer[r] = None
  BY <1>1, <1>2, InAction
<1>4. InUseCase(q, "select") /\ RouteOf(q).name # "DeleteCustomer"
  BY <1>3 DEF InUseCase, RoutesAt
<1>5. PICK e, n : e = entity[r] /\ n = Len(ActiveIds)
  OBVIOUS
<1>6. e \in CustomerRow \cup {None} /\ (e # None => StoredRow(e)) /\ n \in Nat
  BY <1>5, ActiveIdsFacts DEF HttpInv, TypeOK, RowInv
<1>7. PICK l : l = [total |-> n, churn |-> 0]
  OBVIOUS
<1>8. l \in Listings /\ l # None /\ l.total = n /\ l.churn = 0
  BY <1>6, <1>7, HttpAssumption DEF Listings
<1>9. Distance(l.total, Len(ActiveIds)) <= l.churn
  BY <1>5, <1>6, <1>8 DEF Distance
<1>10. /\ entity = [entity EXCEPT ![r] = entity[r]] /\ req = [req EXCEPT ![r] = req[r]]
       /\ answer = [answer EXCEPT ![r] = answer[r]]
  BY Kept DEF HttpInv, TypeOK
<1>11. /\ entity' = [entity EXCEPT ![r] = e] /\ listing' = [listing EXCEPT ![r] = l]
       /\ pc' = [pc EXCEPT ![r] = "select"] /\ req' = [req EXCEPT ![r] = q]
       /\ answer' = [answer EXCEPT ![r] = None]
  BY <1>1, <1>2, <1>3, <1>5, <1>7, <1>10 DEF CountCustomers, Goto
<1>12. "select" \in Points
  BY DEF Points
<1> QED
  BY <1>1, <1>3, <1>4, <1>6, <1>8, <1>9, <1>11, <1>12, Moved

\* The listing selects.
LEMMA SelectKeeps ==
    ASSUME HttpInv, NEW r \in Requests, SelectPage(r)
    PROVE  HttpInv'
<1>1. pc[r] = "select" /\ UNCHANGED customers
  BY DEF SelectPage
<1>2. PICK q : q = req[r]
  OBVIOUS
<1>3. /\ WellFormed(q) /\ Parsed(q) /\ IdErrors(q.path) = <<>> /\ RouteOf(q).name = "ListCustomers"
  BY <1>1, <1>2, InAction DEF RoutesAt
<1>4. PICK ids, l : ids = ActiveIds /\ l = listing[r]
  OBVIOUS
<1>5. PICK items : items = SubSeq(ids, Offset(q) + 1, Shorter(Offset(q) + PageSize(q), Len(ids)))
  OBVIOUS
<1>6. l \in Listings /\ Distance(l.total, Len(ids)) <= l.churn
  BY <1>1, <1>4 DEF HttpInv, TypeOK, CountInv
<1>7. PICK total, churn : total = l.total /\ churn = l.churn /\ total \in Nat /\ churn \in Nat
  BY <1>6 DEF Listings
<1>8. PICK page : page = [items |-> items, total |-> total, churn |-> churn]
  OBVIOUS
<1>9. CASE Offset(q) > MaxBigint /\ Reply(r, Unexpected(q))
  <2>1. Routed(q) /\ Breaks(q)
    BY <1>3, <1>9 DEF Parsed, Breaks
  <2> QED
    BY <1>1, <1>2, <1>3, <1>9, <2>1, UnexpectedAnswer, Replied
<1>10. CASE Reply(r, Ok(q, page))
  <2>1. /\ ids \in Seq(Customers)
        /\ \A i, j \in DOMAIN ids : i < j =>
               \E m, n \in DOMAIN Ids : m < n /\ ids[i] = Ids[m] /\ ids[j] = Ids[n]
    BY <1>4, ActiveIdsFacts
  <2>2. items \in Seq(Customers) /\ PageFits(q, page)
    BY <1>3, <1>5, <1>6, <1>7, <1>8, <2>1, PageAnswer
  <2>3. page \in [items : Seq(Customers), total : Nat, churn : Nat]
    BY <1>7, <1>8, <2>2
  <2>4. SoundAnswer(q, Ok(q, page))
    BY <1>3, <2>2, <2>3, OkAnswer
  <2> QED
    BY <1>1, <1>2, <1>10, <2>4, Replied
<1> QED
  BY <1>2, <1>4, <1>5, <1>7, <1>8, <1>9, <1>10 DEF SelectPage

\* What Receive does with a request q, whatever its parser says.
LEMMA Received ==
    ASSUME HttpInv, NEW r \in Requests, pc[r] = "idle", UNCHANGED <<customers, entity, listing>>,
           NEW q, WellFormed(q), req' = [req EXCEPT ![r] = q],
           NEW p \in Points \ {"idle", "select", "write"}, pc' = [pc EXCEPT ![r] = p],
           NEW a \in Responses \cup {None}, answer' = [answer EXCEPT ![r] = a],
           p = "respond" <=> a # None,
           p = "respond" => SoundAnswer(q, a),
           p # "respond" => InUseCase(q, p)
    PROVE  HttpInv'
<1>1. q # NoRequest
  BY WellFormedIsRequest
<1>2. PICK e : e = entity[r]
  OBVIOUS
<1>3. e \in CustomerRow \cup {None} /\ (e # None => StoredRow(e)) /\ listing[r] = None
  BY <1>2 DEF HttpInv, TypeOK, RowInv
<1>4. entity = [entity EXCEPT ![r] = entity[r]] /\ listing = [listing EXCEPT ![r] = listing[r]]
  BY Kept DEF HttpInv, TypeOK
<1>5. entity' = [entity EXCEPT ![r] = e] /\ listing' = [listing EXCEPT ![r] = None]
  BY <1>2, <1>3, <1>4
<1> QED
  BY <1>1, <1>3, <1>5, Moved

\* Reception, with the answers of the parsers and of Flask.
LEMMA ReceiveKeeps ==
    ASSUME HttpInv, NEW r \in Requests, Receive(r)
    PROVE  HttpInv'
<1>1. pc[r] = "idle" /\ UNCHANGED <<customers, entity, listing>> /\ answer[r] = None
  BY DEF Receive, HttpInv, TypeOK
<1>2. PICK q \in Sends[r] :
          \/ /\ Matching(q) = {}
             /\ req' = [req EXCEPT ![r] = q]
             /\ pc' = [pc EXCEPT ![r] = "respond"]
             /\ answer' = [answer EXCEPT ![r] = NotRouted(q)]
          \/ /\ Matching(q) # {} /\ Unreadable(q)
             /\ req' = [req EXCEPT ![r] = q]
             /\ pc' = [pc EXCEPT ![r] = "respond"]
             /\ answer' = [answer EXCEPT ![r] = Unexpected(q)]
          \/ /\ Matching(q) # {} /\ ParseErrors(q) # <<>>
             /\ req' = [req EXCEPT ![r] = q]
             /\ pc' = [pc EXCEPT ![r] = "respond"]
             /\ answer' = [answer EXCEPT ![r] = Raised(q, InferEntity(q), ParseErrors(q))]
          \/ /\ Matching(q) # {} /\ ParseErrors(q) = <<>>
             /\ RouteOf(q).name = "CreateCustomer" => LastUsed < Len(Ids)
             /\ req' = [req EXCEPT ![r] = Arrived(q)]
             /\ pc' = [pc EXCEPT ![r] = Entry(RouteOf(q).name)]
             /\ UNCHANGED answer
  BY DEF Receive
<1>3. WellFormed(q)
  BY SendsAssumption
<1>4. "respond" \in Points \ {"idle", "select", "write"}
  BY DEF Points
<1>5. ASSUME NEW a, SoundAnswer(q, a), req' = [req EXCEPT ![r] = q],
             pc' = [pc EXCEPT ![r] = "respond"], answer' = [answer EXCEPT ![r] = a]
      PROVE  HttpInv'
  <2>1. a \in Responses \cup {None} /\ a # None
    BY <1>5 DEF SoundAnswer
  <2> QED
    BY <1>1, <1>3, <1>4, <1>5, <2>1, Received
<1>6. CASE /\ Matching(q) = {}
           /\ req' = [req EXCEPT ![r] = q]
           /\ pc' = [pc EXCEPT ![r] = "respond"]
           /\ answer' = [answer EXCEPT ![r] = NotRouted(q)]
  <2>1. ~Routed(q)
    BY <1>6 DEF Routed
  <2> QED
    BY <1>5, <1>6, <2>1, UnroutedAnswer
<1>7. CASE /\ Matching(q) # {} /\ ParseErrors(q) # <<>>
           /\ req' = [req EXCEPT ![r] = q]
           /\ pc' = [pc EXCEPT ![r] = "respond"]
           /\ answer' = [answer EXCEPT ![r] = Raised(q, InferEntity(q), ParseErrors(q))]
  <2>1. Routed(q)
    BY <1>7 DEF Routed
  <2> QED
    BY <1>3, <1>5, <1>7, <2>1, ParseErrorAnswer
<1>8. CASE /\ Matching(q) # {} /\ Unreadable(q)
           /\ req' = [req EXCEPT ![r] = q]
           /\ pc' = [pc EXCEPT ![r] = "respond"]
           /\ answer' = [answer EXCEPT ![r] = Unexpected(q)]
  <2>1. Routed(q) /\ Breaks(q)
    BY <1>8 DEF Routed, Breaks
  <2> QED
    BY <1>3, <1>5, <1>8, <2>1, UnexpectedAnswer
<1>9. CASE /\ Matching(q) # {} /\ ParseErrors(q) = <<>>
           /\ RouteOf(q).name = "CreateCustomer" => LastUsed < Len(Ids)
           /\ req' = [req EXCEPT ![r] = Arrived(q)]
           /\ pc' = [pc EXCEPT ![r] = Entry(RouteOf(q).name)]
           /\ UNCHANGED answer
  <2>1. Parsed(q) /\ IdErrors(q.path) = <<>>
    <3>1. Routed(q)
      BY <1>9 DEF Routed
    <3> QED
      BY <1>3, <1>9, <3>1, ParsedBody
  <2>2. PICK b, c : b = Arrived(q) /\ c = Ids[LastUsed + 1]
    OBVIOUS
  <2>3. /\ WellFormed(b) /\ Parsed(b) /\ IdErrors(b.path) = <<>> /\ RouteOf(b) = RouteOf(q)
        /\ RouteOf(b).name = "CreateCustomer" => b.id \in Customers
    <3>1. CASE RouteOf(q).name = "CreateCustomer"
      <4>1. b = [q EXCEPT !.id = c]
        BY <2>2, <3>1 DEF Arrived
      <4>2. c \in Customers
        BY <1>9, <2>2, <3>1, NextId
      <4>3. /\ WellFormed(b) /\ Parsed(b) /\ IdErrors(b.path) = <<>>
            /\ RouteOf(b) = RouteOf(q) /\ b.id = c
        BY <1>3, <2>1, <4>1, WithId
      <4> QED
        BY <4>2, <4>3
    <3>2. CASE RouteOf(q).name # "CreateCustomer"
      BY <1>3, <2>1, <2>2, <3>2 DEF Arrived
    <3> QED
      BY <3>1, <3>2
  <2>4. PICK p : p = Entry(RouteOf(b).name)
    OBVIOUS
  <2>5. p \in Points \ {"idle", "select", "write", "respond"} /\ InUseCase(b, p)
    BY <2>3, <2>4, EntryFacts
  <2>6. answer = [answer EXCEPT ![r] = answer[r]]
    BY Kept DEF HttpInv, TypeOK
  <2>7. /\ req' = [req EXCEPT ![r] = b] /\ pc' = [pc EXCEPT ![r] = p]
        /\ answer' = [answer EXCEPT ![r] = None]
    BY <1>1, <1>9, <2>2, <2>3, <2>4, <2>6
  <2> QED
    BY <1>1, <2>3, <2>5, <2>7, Received
<1> QED
  BY <1>2, <1>6, <1>7, <1>8, <1>9

-----------------------------------------------------------------------------
\* The row that a write stores.
LEMMA WrittenRow ==
    ASSUME HttpInv, NEW r \in Requests, pc[r] = "write"
    PROVE  Written(r) \in CustomerRow /\ Written(r) # None /\ StoredRow(Written(r))
<1>1. PICK q : q = req[r]
  OBVIOUS
<1>2. /\ WellFormed(q) /\ Parsed(q)
      /\ RouteOf(q).name \in {"CreateCustomer", "UpdateCustomer", "DeleteCustomer"}
  BY <1>1, InAction DEF RoutesAt
<1>3. ASSUME NEW row \in CustomerRow PROVE row # None
  BY HttpAssumption
<1>4. CASE RouteOf(q).name = "DeleteCustomer"
  <2>1. PICK e : e = entity[r]
    OBVIOUS
  <2>2. e \in CustomerRow /\ StoredRow(e)
    BY <1>1, <1>4, <2>1 DEF HttpInv, TypeOK, RowInv
  <2>3. PICK row : row = [e EXCEPT !.status = "DELETED"]
    OBVIOUS
  <2>4. row \in CustomerRow /\ row.email = e.email /\ row.ident = e.ident
    BY <2>2, <2>3 DEF CustomerRow
  <2>5. StoredRow(row)
    BY <2>2, <2>4 DEF StoredRow
  <2> QED
    BY <1>1, <1>3, <1>4, <2>1, <2>3, <2>4, <2>5 DEF Written
<1>5. CASE RouteOf(q).name # "DeleteCustomer"
  <2>1. PICK t, u : t = q.body.email /\ u = q.body.identification
    OBVIOUS
  <2>2. /\ t \in Texts /\ ValidText("email", t)
        /\ u \in Texts /\ ValidText("identification", u)
    <3>1. \A k \in {"name", "identification", "email"} : q.body[k] \in Texts /\ ValidText(k, q.body[k])
      BY <1>2, <1>5, ParsedCustomer
    <3> QED
      BY <2>1, <3>1
  <2>3. PICK row : row = [status |-> "ACTIVE", email |-> Normal("email", t),
                          ident |-> Normal("identification", u)]
    OBVIOUS
  <2>4. Normal("email", t) \in Texts /\ Stored("email", Normal("email", t))
    BY <2>2 DEF Normal, Lower, Strip, Texts, Stored, ValidText
  <2>5. Normal("identification", u) \in Texts /\ Stored("identification", Normal("identification", u))
    BY <2>2 DEF Normal, Lower, Strip, Texts, Stored, ValidText
  <2>6. row \in CustomerRow /\ StoredRow(row)
    BY <2>3, <2>4, <2>5 DEF CustomerRow, StoredRow
  <2>7. Written(r) = row
    BY <1>1, <1>5, <2>1, <2>3 DEF Written, Email, Ident
  <2> QED
    BY <1>3, <2>6, <2>7
<1> QED
  BY <1>4, <1>5

\* The write of a row, with its commit.
LEMMA WriteKeeps ==
    ASSUME HttpInv, NEW r \in Requests, WriteCustomer(r)
    PROVE  HttpInv'
<1>1. pc[r] = "write"
  BY DEF WriteCustomer
<1>2. PICK q, c, row : q = req[r] /\ c = Named(q) /\ row = Written(r)
  OBVIOUS
<1>3. /\ WellFormed(q) /\ Parsed(q) /\ IdErrors(q.path) = <<>> /\ InUseCase(q, "write")
      /\ q # NoRequest /\ listing[r] = None
  BY <1>1, <1>2, InAction
<1>4. c \in Customers /\ RouteOf(q).entity = "customer"
  BY <1>2, <1>3, NamedFacts
<1>5. row \in CustomerRow /\ row # None /\ StoredRow(row)
  BY <1>1, <1>2, WrittenRow
<1>6. CASE /\ \/ RouteOf(q).name \in WithBody /\ ~CustomerFits(q.body)
              \/ RouteOf(q).name = "CreateCustomer" /\ ~EmbeddedFit(q.body)
           /\ Reply(r, Unexpected(q)) /\ UNCHANGED customers
  <2>1. RouteOf(q).name \in {"CreateCustomer", "UpdateCustomer", "DeleteCustomer"}
    BY <1>3 DEF InUseCase, RoutesAt
  <2>2. Routed(q) /\ Breaks(q)
    BY <1>3, <1>6, <2>1 DEF Parsed, Breaks, WithBody
  <2> QED
    BY <1>1, <1>2, <1>3, <1>6, <2>2, UnexpectedAnswer, Replied
<1>7. CASE Reply(r, Raised(q, "customer", <<Error("ERR-002", <<"email">>)>>)) /\ UNCHANGED customers
  <2>1. SoundAnswer(q, Raised(q, "customer", <<Error("ERR-002", <<"email">>)>>))
    BY <1>3, <1>4, PathFacts, RaisedAnswer
  <2> QED
    BY <1>1, <1>2, <1>7, <2>1, Replied
<1>8. CASE Reply(r, Raised(q, "customer", <<Error("ERR-008", <<"identification">>)>>)) /\ UNCHANGED customers
  <2>1. SoundAnswer(q, Raised(q, "customer", <<Error("ERR-008", <<"identification">>)>>))
    BY <1>3, <1>4, PathFacts, RaisedAnswer
  <2> QED
    BY <1>1, <1>2, <1>8, <2>1, Replied
<1>9. CASE /\ ~Taken(c, "email", row.email)
           /\ customers' = [customers EXCEPT ![c] = row]
           /\ Notice(c, row)
           /\ pc' = [pc EXCEPT ![r] = "respond"]
           /\ answer' = [answer EXCEPT ![r] = Ok(q, None)]
           /\ entity' = [entity EXCEPT ![r] = None]
           /\ UNCHANGED req
  <2>1. PICK a : a = Ok(q, None)
    OBVIOUS
  <2>2. SoundAnswer(q, a) /\ a \in Responses /\ a # None
    BY <1>3, <2>1, OkAnswer DEF SoundAnswer
  <2>3. /\ pc'[r] = "respond" /\ req'[r] = q /\ entity'[r] = None /\ answer'[r] = a
        /\ \A s \in Requests : s # r =>
              pc'[s] = pc[s] /\ req'[s] = req[s] /\ entity'[s] = entity[s] /\ answer'[s] = answer[s]
    BY <1>2, <1>9, <2>1 DEF HttpInv, TypeOK
  <2>4. customers'[c] = row /\ \A d \in Customers : d # c => customers'[d] = customers[d]
    BY <1>4, <1>9 DEF HttpInv, TypeOK
  <2>5. PICK moves \in BOOLEAN : moves = (Active(c) # (row.status = "ACTIVE"))
    OBVIOUS
  <2>6. listing' = [s \in Requests |-> IF listing[s] # None /\ moves
                                       THEN [listing[s] EXCEPT !.churn = @ + 1] ELSE listing[s]]
    BY <1>9, <2>5 DEF Notice
  <2>7. \A s \in Requests : listing[s] = None => listing'[s] = None
    BY <2>6
  <2>8. ASSUME NEW s \in Requests, listing[s] # None
        PROVE  /\ listing[s] \in Listings /\ listing'[s] \in Listings /\ listing'[s] # None
               /\ listing'[s].total = listing[s].total
               /\ listing'[s].churn = IF moves THEN listing[s].churn + 1 ELSE listing[s].churn
    <3>1. PICK l : /\ l = listing[s] /\ l \in Listings
                      /\ listing'[s] = IF moves THEN [l EXCEPT !.churn = @ + 1] ELSE l
      BY <2>6, <2>8 DEF HttpInv, TypeOK
    <3>2. /\ l.churn \in Nat /\ [l EXCEPT !.churn = @ + 1] \in Listings
          /\ [l EXCEPT !.churn = @ + 1].total = l.total
          /\ [l EXCEPT !.churn = @ + 1].churn = l.churn + 1
      BY <3>1 DEF Listings
    <3> QED
      BY <3>1, <3>2, HttpAssumption
  <2>9. TypeOK'
    <3>1. customers' \in [Customers -> CustomerRow \cup {None}]
      BY <1>5, <1>9 DEF HttpInv, TypeOK
    <3>2. ASSUME NEW d \in Customers, customers'[d] # None
          PROVE  /\ ValidText("email", customers'[d].email) /\ ~customers'[d].email.padded
                 /\ ValidText("identification", customers'[d].ident) /\ ~customers'[d].ident.padded
      <4>1. CASE d = c
        BY <1>5, <2>4, <4>1 DEF StoredRow, Stored
      <4>2. CASE d # c
        BY <2>4, <3>2, <4>2 DEF HttpInv, TypeOK
      <4> QED
        BY <4>1, <4>2
    <3>3. pc' \in [Requests -> Points] /\ req' = [s \in Requests |-> req'[s]]
      BY <1>9 DEF HttpInv, TypeOK, Points
    <3>4. entity' \in [Requests -> CustomerRow \cup {None}]
      BY <1>9 DEF HttpInv, TypeOK
    <3>5. listing' \in [Requests -> Listings \cup {None}]
      BY <2>6, <2>7, <2>8
    <3>6. answer' \in [Requests -> Responses \cup {None}]
      BY <1>9, <2>1, <2>2 DEF HttpInv, TypeOK
    <3>7. ASSUME NEW s \in Requests
          PROVE  /\ pc'[s] = "idle" <=> req'[s] = NoRequest
                 /\ pc'[s] = "select" <=> listing'[s] # None
                 /\ pc'[s] = "respond" <=> answer'[s] # None
      <4>1. CASE s = r
        BY <1>3, <2>2, <2>3, <2>7, <4>1
      <4>2. CASE s # r
        BY <2>3, <2>7, <2>8, <4>2 DEF HttpInv, TypeOK
      <4> QED
        BY <4>1, <4>2
    <3> QED
      BY <3>1, <3>2, <3>3, <3>4, <3>5, <3>6, <3>7 DEF TypeOK
  <2>10. RequestInv'
    BY <1>3, <2>3 DEF HttpInv, RequestInv
  <2>11. RowInv'
    BY <1>5, <2>3, <2>4 DEF HttpInv, RowInv
  <2>12. EmailsDifferInSubstance'
    <3>1. ASSUME NEW d \in Customers, d # c, customers[d] # None
          PROVE  customers[d].email.word # row.email.word
      <4>1. PICK t, u : t = customers[d].email /\ u = row.email
        OBVIOUS
      <4>2. t \in Texts /\ u \in Texts /\ t # u
        BY <1>5, <1>9, <3>1, <4>1 DEF HttpInv, TypeOK, CustomerRow, Taken
      <4>3. Stored("email", t) /\ Stored("email", u)
        BY <1>5, <3>1, <4>1 DEF HttpInv, RowInv, StoredRow
      <4>4. t.word # u.word
        BY <4>2, <4>3 DEF Stored, Texts
      <4> QED
        BY <4>1, <4>4
    <3> QED
      BY <2>4, <3>1 DEF HttpInv, EmailsDifferInSubstance
  <2>13. AnswerInv'
    BY <2>2, <2>3 DEF HttpInv, AnswerInv
  <2>14. CountInv'
    <3>1. PICK S, T : S = ActiveCustomers /\ T = ActiveCustomers'
      OBVIOUS
    <3>2. S \ {c} = T \ {c}
      BY <2>4, <3>1 DEF ActiveCustomers, Active
    <3>3. (c \in S <=> Active(c)) /\ (c \in T <=> row.status = "ACTIVE")
      BY <1>4, <1>5, <2>4, <3>1 DEF ActiveCustomers, Active, CustomerRow
    <3>4. PICK m, n : m = Len(ActiveIds) /\ n = Len(ActiveIds)'
      OBVIOUS
    <3>5. /\ IsFiniteSet(S) /\ Cardinality(S) = m
          /\ IsFiniteSet(T) /\ Cardinality(T) = n
      <4>1. S \in SUBSET Customers /\ T \in SUBSET Customers
        BY <3>1 DEF ActiveCustomers
      <4>2. ActiveIds = Keep(Ids, S) /\ ActiveIds' = Keep(Ids, T)
        BY <3>1 DEF ActiveIds, ActiveCustomers
      <4>3. m = Len(Keep(Ids, S)) /\ n = Len(Keep(Ids, T))
        BY <3>4, <4>2
      <4> QED
        BY <4>1, <4>3, KeptIds
    <3>6. m \in Nat /\ n \in Nat /\ Distance(m, n) <= 1 /\ (~moves => m = n)
      BY <2>5, <3>2, <3>3, <3>5, CountAfter
    <3>7. ASSUME NEW s \in Requests, pc'[s] = "select"
          PROVE  Distance(listing'[s].total, n) <= listing'[s].churn
      <4>1. s # r /\ pc[s] = "select"
        BY <2>3, <3>7
      <4>2. listing[s] # None /\ Distance(listing[s].total, m) <= listing[s].churn
        BY <3>4, <4>1 DEF HttpInv, TypeOK, CountInv
      <4>3. PICK total, churn : total = listing[s].total /\ churn = listing[s].churn
        OBVIOUS
      <4>4. total \in Nat /\ churn \in Nat
        BY <2>8, <4>2, <4>3 DEF Listings
      <4>5. listing'[s].total = total /\ listing'[s].churn = IF moves THEN churn + 1 ELSE churn
        BY <2>8, <4>2, <4>3
      <4>6. Distance(total, n) <= IF moves THEN churn + 1 ELSE churn
        BY <3>6, <4>2, <4>3, <4>4 DEF Distance
      <4> QED
        BY <4>5, <4>6
    <3> QED
      BY <3>4, <3>7 DEF CountInv
  <2> QED
    BY <2>9, <2>10, <2>11, <2>12, <2>13, <2>14 DEF HttpInv
<1> QED
  BY <1>2, <1>6, <1>7, <1>8, <1>9 DEF WriteCustomer

-----------------------------------------------------------------------------
(* Theorems.                                                               *)

\* The inductive invariant: the requests at each statement are those of its
\* routes and have passed their parsers, rows are stored normalised, answers are
\* sound, and a listing's total is off by no more than it knows.
THEOREM HttpCorrect == Spec => []HttpInv
<1>1. Init => HttpInv
  BY DEF Init, HttpInv, TypeOK, RequestInv, RowInv, EmailsDifferInSubstance, AnswerInv, CountInv, Points
<1>2. HttpInv /\ [Next]_vars => HttpInv'
  <2>1. SUFFICES ASSUME HttpInv, [Next]_vars PROVE HttpInv'
    OBVIOUS
  <2>2. CASE UNCHANGED vars
    BY <2>1, <2>2 DEF vars, HttpInv, TypeOK, RequestInv, RowInv, EmailsDifferInSubstance, AnswerInv,
                      CountInv, ActiveIds, Active
  <2>3. CASE Next
    <3>1. PICK r \in Requests :
              \/ Receive(r)        \/ Respond(r)        \/ FindCustomer(r)
              \/ EnsureUnique(r)   \/ WriteCustomer(r)
              \/ CountCustomers(r) \/ SelectPage(r)     \/ OnAddress(r)
      BY <2>3 DEF Next
    <3> QED
      BY <2>1, <3>1, ReceiveKeeps, RespondKeeps, FindKeeps, EnsureUniqueKeeps, WriteKeeps,
         CountKeeps, SelectKeeps, OnAddressKeeps
  <2> QED
    BY <2>1, <2>2, <2>3
<1> QED
  BY <1>1, <1>2, PTL DEF Spec

\* Every variable of SddHttp stays in its type, and what is stored is valid and
\* trimmed.
THEOREM HttpTypes == Spec => []TypeOK
<1>1. HttpInv => TypeOK
  BY DEF HttpInv
<1> QED
  BY <1>1, HttpCorrect, PTL

\* A parsed object is answered 400 exactly when a field is wrong, and then with
\* every wrong field, once, whatever the fields and however many addresses it has.
THEOREM BadFieldsNamed == Spec => []EveryBadFieldNamed
<1>1. HttpInv => EveryBadFieldNamed
  BY DEF HttpInv, AnswerInv, Answered, SoundAnswer, EveryBadFieldNamed
<1> QED
  BY <1>1, HttpCorrect, PTL

\* All errors of an answer belong to its status, although only the first decides
\* it.
THEOREM StatusUnique == Spec => []OneStatusPerAnswer
<1>1. HttpInv => OneStatusPerAnswer
  BY DEF HttpInv, AnswerInv, Answered, SoundAnswer, OneStatusPerAnswer
<1> QED
  BY <1>1, HttpCorrect, PTL

\* Handlers and use cases give a route the same operation and entity.
THEOREM OperationsNamed == Spec => []EnvelopeNamesOperation
<1>1. HttpInv => EnvelopeNamesOperation
  BY DEF HttpInv, AnswerInv, Answered, SoundAnswer, EnvelopeNamesOperation
<1> QED
  BY <1>1, HttpCorrect, PTL

\* With a database that works a 500 has one of four reasons: a text longer than its
\* column, a text that no parameter carries, a body that is not read, an immense page.
THEOREM FailuresExplained == Spec => []ServerErrorsExplained
<1>1. HttpInv => ServerErrorsExplained
  BY DEF HttpInv, AnswerInv, Answered, SoundAnswer, ServerErrorsExplained
<1> QED
  BY <1>1, HttpCorrect, PTL

\* No two customers have e-mails that differ in case or white space only.
THEOREM EmailsDiffer == Spec => []EmailsDifferInSubstance
<1>1. HttpInv => EmailsDifferInSubstance
  BY DEF HttpInv
<1> QED
  BY <1>1, HttpCorrect, PTL

\* The items of a page are as many as its total promises, up to the customers
\* that came or went between the two statements, in the order of their creation.
THEOREM PagesAgree == Spec => []PageAgreesWithTotal
<1>1. HttpInv => PageAgreesWithTotal
  BY DEF HttpInv, AnswerInv, Answered, SoundAnswer, PageAgreesWithTotal
<1> QED
  BY <1>1, HttpCorrect, PTL
=============================================================================
