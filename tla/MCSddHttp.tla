------------------------------ MODULE MCSddHttp ------------------------------
(***************************************************************************)
(* A small instance of SddHttp for TLC: one thread gets everything a       *)
(* client may get wrong, the other one gets requests that change           *)
(* customers.                                                              *)
(***************************************************************************)
EXTENDS SddHttpProperties, TLC

CONSTANTS c1, c2, c3, a1, r1, r2

MCIds == <<c1, c2, c3>>
MCAddressFields == <<"city", "postal_code">>

Text(word)  == [kind |-> "text", word |-> word, padded |-> FALSE, upper |-> FALSE]
Padded(t)   == [t EXCEPT !.padded = TRUE]
Upper(t)    == [t EXCEPT !.upper = TRUE]
Number(n)   == [kind |-> "integer", value |-> n]
Absent      == [kind |-> "absent"]
Null        == [kind |-> "null"]
Other       == [kind |-> "other"]
Nested      == [kind |-> "nested"]
List(items) == [kind |-> "list", items |-> items]

Address(city, code) == [kind |-> "object", city |-> city, postal_code |-> code]
Good == Address(Text("w1"), Text("w2"))

Body(name, ident, age, email, addresses) ==
    [kind |-> "object", name |-> name, identification |-> ident, age |-> age,
     email |-> email, addresses |-> addresses]

Base == Body(Text("w1"), Text("w1"), Number(0), Text("m1"), Absent)

\* A body that differs from another one in one field.
Changed(b) ==
    {[b EXCEPT !.name = v] : v \in {Absent, Other, Text(Blank), Text("long")}}
    \cup {[b EXCEPT !.identification = v] : v \in {Null, Text(Blank), Padded(Text("w1")), Upper(Text("w1"))}}
    \cup {[b EXCEPT !.age = v] : v \in {Absent, [kind |-> "boolean", value |-> 1],
                                        Number(-1), Number(120), Number(121)}}
    \cup {[b EXCEPT !.email = v] : v \in {Other, Text("w1"), Padded(Upper(Text("m1"))), Text("longm")}}
    \cup {[b EXCEPT !.addresses = v] : v \in
             {Null, Other, List(<<>>), List(<<Good>>), List(<<Good, Good>>),
              List(<<Other, Address(Absent, Text(Blank))>>),
              List(<<Good, Address(Text("long"), Other)>>), List(<<Address(Text("w1"), Text("long"))>>)}}

\* Texts that pass every check and cannot be sent: in one key, in the other one,
\* in no key, and in an embedded address.
Unsendable ==
    {[Base EXCEPT !.email = Text("nulm")], [Base EXCEPT !.identification = Text("nul")],
     [Base EXCEPT !.name = Text("nul")],
     [Base EXCEPT !.addresses = List(<<Address(Text("nul"), Text("w1"))>>)]}

\* A body with a fault in every field, and one with nothing wrong but an address
\* too many.
Bad == Body(Text(Blank), Text(Blank), Number(121), Text("w1"), List(<<Other, Good>>))
TooMany == Body(Text("w2"), Upper(Text("w1")), Number(120), Text("m1"), List(<<Good, Good>>))

Bodies == {TooMany} \cup Unsendable \cup Changed(Base) \cup Changed(Bad)

Q(method, path, body, page, size) ==
    [method |-> method, path |-> path, body |-> body, page |-> page, size |-> size, id |-> None]

Plain(method, path) == Q(method, path, Other, Absent, Absent)

Addresses == {Good, Other, Nested, Address(Absent, Text(Blank)), Address(Text("long"), Text("w1")),
              Address(Text("w1"), Text("nul"))}

\* Whatever a client may send.
Anything ==
    {Q("POST", <<"customers">>, b, Absent, Absent) : b \in Bodies \cup {Other, Nested}}
    \cup {Q("PUT", <<"customers", c1>>, b, Absent, Absent) :
             b \in {Other, Nested, [Bad EXCEPT !.addresses = Absent]}
                     \cup {[d EXCEPT !.addresses = Absent] : d \in Unsendable \cup Changed(Base)}}
    \cup {Q("PUT", <<"customers", "malformed">>, b, Absent, Absent) :
             b \in {Base, Other, Nested}}
    \cup {Plain(m, <<"customers", c>>) : m \in {"GET", "DELETE"}, c \in {c1, c2, "malformed", "addresses1"}}
    \cup {Q("GET", <<"customers">>, Other, p, Number(1)) :
             p \in {Absent, Other, Number(-1), Number(2), Number(9)}}
    \cup {Q("GET", <<"customers">>, Other, p, s) :
             p \in {Absent, Number(9)}, s \in {Absent, Other, Number(0), Number(7)}}
    \cup {Q("POST", <<"customers", c, "addresses">>, b, Absent, Absent) :
             c \in {c1, "malformed"}, b \in Addresses}
    \cup {Q("PUT", <<"customers", c1, "addresses", a>>, b, Absent, Absent) :
             a \in {a1, "malformed"}, b \in Addresses}
    \cup {Plain("DELETE", <<"customers", c, "addresses", a>>) :
             c \in {c1, "malformed"}, a \in {a1, "malformed"}}
    \cup {Plain("GET", <<"customers", c, "addresses">>) : c \in {c1, "malformed"}}
    \cup {Plain("PUT", <<"customers">>), Plain("GET", <<"nowhere">>),
          Plain("GET", <<"customers", "addresses">>), Plain("GET", <<"addresses1">>),
          Plain("GET", <<"customers", c1, "addresses", a1>>)}

\* Well-formed requests that change customers.
Changes ==
    {Q("POST", <<"customers">>, Body(Text("w1"), i, Number(120), e, Absent), Absent, Absent) :
         i \in {Text("w1"), Text("w2")}, e \in {Text("m1"), Upper(Text("m2"))}}
    \cup {Q("PUT", <<"customers", c1>>, Body(Text("w1"), Text("w2"), Number(1), e, Absent), Absent, Absent) :
             e \in {Text("m1"), Text("m2")}}
    \cup {Plain("DELETE", <<"customers", c>>) : c \in {c1, c2}}

MCSends == r1 :> Anything @@ r2 :> Changes
=============================================================================
