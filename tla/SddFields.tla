------------------------------ MODULE SddFields ------------------------------
(***************************************************************************)
(* customer-sdd: what the parsers and the value objects make of the body   *)
(* of a request, and what the columns of the tables accept.                *)
(*                                                                         *)
(* A JSON value is a record with its kind, so that a boolean is no integer *)
(* and an absent field is a value too.  A text is a word, with white space *)
(* around it or not, in upper case or not: what trim and lower do, and     *)
(* what tells an e-mail, a blank text, a text too long for its column and  *)
(* a text that cannot reach any column from any other.                     *)
(***************************************************************************)
EXTENDS Integers, Sequences, SequencesExt

CONSTANTS
    Words,          \* what is left of a text without its white space and case
    Blank,          \* nothing
    EmailWords,     \* words that match _EMAIL_PATTERN
    LongWords,      \* words longer than a VARCHAR column
    UnsendableWords,\* words with U+0000 or half a surrogate pair: JSON has them,
                    \* Python's str too, but no parameter of a statement
    AddressFields,  \* sequence of the fields of an address
    MaxAddresses    \* Customer.MAX_ACTIVE_ADDRESSES, 5 in the code

ASSUME WordsAssumption ==
    /\ Blank \notin Words
    /\ EmailWords \subseteq Words /\ LongWords \subseteq Words
    /\ UnsendableWords \subseteq Words
    /\ MaxAddresses \in Nat

Texts == [kind : {"text"}, word : Words \cup {Blank}, padded : BOOLEAN, upper : BOOLEAN]

CustomerFields == <<"name", "identification", "age", "email">>

ASSUME AddressFieldsAssumption ==
    /\ AddressFields \in Seq(ToSet(AddressFields)) /\ IsInjective(AddressFields)
    /\ ToSet(AddressFields) \cap (ToSet(CustomerFields) \cup {"kind", "addresses"}) = {}

\* What a decoded JSON value is, the value of a field that is not there included.
IsValue(v) == (v.kind = "text" => v \in Texts) /\ (v.kind = "integer" => v.value \in Int)

IsObject(v, fields) == \A k \in ToSet(fields) : IsValue(v[k])

IsList(v) ==
    /\ v.items \in Seq(ToSet(v.items))
    /\ \A i \in DOMAIN v.items : v.items[i].kind = "object" => IsObject(v.items[i], AddressFields)

\* The members of a sequence that are in S, in their order.
Keep(seq, S) == FlattenSeq([i \in DOMAIN seq |-> IF seq[i] \in S THEN <<seq[i]>> ELSE <<>>])

-----------------------------------------------------------------------------
(* Value objects.                                                          *)

MutStrip(t) == t

Strip(t) == [t EXCEPT !.padded = FALSE]
Lower(t) == [t EXCEPT !.upper = FALSE]

MutNormal(field, t) == Strip(t)

\* Only the e-mail loses its case.
Normal(field, t) == IF field = "email" THEN Lower(Strip(t)) ELSE Strip(t)

ValidText(field, t) ==
    IF field = "email" THEN Normal(field, t).word \in EmailWords
                       ELSE Normal(field, t).word # Blank

MinAge == 0
MaxAge == 120

MutValidAge(n) == MinAge <= n /\ n <= MaxAge + 1

ValidAge(n) == MinAge <= n /\ n <= MaxAge

CodeOf(field) ==
    CASE field = "name"           -> "VAL-003"
      [] field = "identification" -> "VAL-004"
      [] field = "age"            -> "VAL-005"
      [] field = "email"          -> "VAL-001"
      [] OTHER                    -> "VAL-009"

Error(code, field) == [code |-> code, field |-> field]

-----------------------------------------------------------------------------
(* Parsers.  The field of an error is the path to it: <<"addresses", 0,    *)
(* "city">> is addresses[0].city, and <<>> is None.                        *)

Shaped(field, v) == v.kind = (IF field = "age" THEN "integer" ELSE "text")

Content(field, v) == IF field = "age" THEN ValidAge(v.value) ELSE ValidText(field, v)

BadFields(fields, object) ==
    Keep(fields, {k \in ToSet(fields) : ~(Shaped(k, object[k]) /\ Content(k, object[k]))})

MutFirstOnly(fields, object, prefix) ==
    LET bad == BadFields(fields, object)
    IN IF bad = <<>> THEN <<>> ELSE <<Error(CodeOf(bad[1]), Append(prefix, bad[1]))>>

\* One error for every field that is absent, mistyped or invalid, in order.
FieldErrors(fields, object, prefix) ==
    LET bad == BadFields(fields, object)
    IN [i \in DOMAIN bad |-> Error(CodeOf(bad[i]), Append(prefix, bad[i]))]

ItemErrors(items, i) ==
    LET prefix == <<"addresses", i - 1>> IN
    IF items[i].kind = "object" THEN FieldErrors(AddressFields, items[i], prefix)
    ELSE <<Error("VAL-009", prefix)>>

\* addresses may be missing or null.
EmbeddedErrors(addresses) ==
    CASE addresses.kind \in {"absent", "null"} -> <<>>
      [] addresses.kind = "list" ->
            FlattenSeq([i \in DOMAIN addresses.items |-> ItemErrors(addresses.items, i)])
      [] OTHER -> <<Error("VAL-009", <<"addresses">>)>>

Embedded(body) == IF body.addresses.kind = "list" THEN body.addresses.items ELSE <<>>

BodyErrors(operation, body) ==
    IF body.kind # "object" THEN <<Error("ERR-001", <<>>)>>
    ELSE CASE operation = "CreateCustomer" ->
                  FieldErrors(CustomerFields, body, <<>>) \o EmbeddedErrors(body.addresses)
           [] operation = "UpdateCustomer" -> FieldErrors(CustomerFields, body, <<>>)
           [] OTHER                        -> FieldErrors(AddressFields, body, <<>>)

\* CreateCustomer validates once more what was parsed; it looks at the number
\* of addresses before it looks into them.
CreationErrors(body) ==
    FieldErrors(CustomerFields, body, <<>>)
        \o IF Len(Embedded(body)) > MaxAddresses THEN <<Error("ERR-005", <<"addresses">>)>>
           ELSE EmbeddedErrors(body.addresses)

-----------------------------------------------------------------------------
(* Statements: what the driver sends, and what the columns take of it      *)
(* (VARCHAR lengths and CHECK constraints on the stored value).            *)

Sendable(field, t) == Normal(field, t).word \notin UnsendableWords

TextFits(field, t) ==
    Sendable(field, t) /\ Normal(field, t).word \notin LongWords \cup {Blank}

AddressFits(object) == \A i \in DOMAIN AddressFields :
                          TextFits(AddressFields[i], object[AddressFields[i]])

CustomerFits(body) ==
    /\ \A k \in {"name", "identification", "email"} : TextFits(k, body[k])
    /\ 0 <= body.age.value /\ body.age.value <= 120

EmbeddedFit(body) == \A i \in DOMAIN Embedded(body) : AddressFits(Embedded(body)[i])
=============================================================================
