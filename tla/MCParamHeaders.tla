--------------------------- MODULE MCParamHeaders ---------------------------
(* The tree of all schemas: two nested properties, and a property inside a   *)
(* schema keyword other than "properties". Numbers are in base 3, and the    *)
(* largest safe integer is 121 in it. Calls of four kinds: headers of every  *)
(* form against arguments of every type, integers in every spelling, every   *)
(* schema, and every configuration of a backend's headers.                   *)
EXTENDS ParamHeaders

CONSTANTS root, outer, inner, items, item, A, a, B, headerA, headerB,
          host, session, auth, AUTH, parent, state

MCParent == [n \in {outer, inner, items, item} |->
                CASE n \in {outer, items} -> root
                  [] n = inner -> outer
                  [] n = item -> items]
MCHeaderOf == [t \in {A, a, B} |-> IF t = B THEN headerB ELSE headerA]

\* Every name is spelt as itself; AUTH is a second spelling of auth.
MCSpelling == {host, headerA, session, auth, parent, AUTH, Bad}
MCNameOf   == [s \in MCSpelling |-> IF s = AUTH THEN auth ELSE s]

NothingAdded == [s \in MCSpelling |-> None]

Absents == [n \in Node |-> Absent]

Calls(Schemas, Argument, Backends, Requests) ==
    [modern : {TRUE}, schema : Schemas, args : Argument, backend : Backends, downstream : Requests]

-----------------------------------------------------------------------------
(* Headers of every form against arguments of every type *)

Int1     == Plain("", <<1>>)                        \* 1
IntMinus == Plain("-", <<0, 1>>)                    \* -01
IntMax   == Plain("", <<1, 2, 1>>)                  \* the largest safe integer
IntOver  == Plain("", <<1, 2, 2>>)                  \* one more
IntFrac  == Text("", "", <<1>>, TRUE, <<0>>, 0)     \* 1.0
IntExp   == Text("", "", <<0>>, TRUE, <<1>>, 1)     \* 0.1e1
Half     == Text("", "", <<1>>, TRUE, <<1>>, 0)     \* 1.1
Numbers  == {Int1, IntMinus, IntMax, IntOver, IntFrac, IntExp, Half}

FormValue ==
    {Raw("plain", t) : t \in Numbers \cup {Word("true"), Word("s"), Word(" s")}}
    \cup {Raw("base64", Word(" s")), Raw("base64", Int1), Raw("bad base64", Word("s")),
          Raw("not utf8", Word("s"))}

MCNeedsBase64 == {Word(" s")}

SomeValue == {Raw("plain", Int1), Raw("plain", IntExp), Raw("plain", Half), Raw("plain", Word("true")),
              Raw("base64", Word(" s")), Raw("plain", Word(" s"))}

\* One or two values of one header, and one of another besides.
FormRequests ==
    {<<>>}
    \cup {<<<<headerA, v>>>> : v \in FormValue}
    \cup {<<<<headerA, v>>, <<headerA, w>>>> : v, w \in SomeValue}
    \cup {<<<<headerA, v>>, <<auth, v>>, <<headerB, w>>>> :
            v, w \in SomeValue \ {Raw("plain", IntExp), Raw("plain", Word(" s"))}}

Annotate(outerToken, outerType, innerToken, innerType) ==
    [header |-> [n \in Node |-> CASE n = outer -> outerToken [] n = inner -> innerToken [] OTHER -> None],
     type   |-> [n \in Node |-> CASE n = outer -> outerType [] n = inner -> innerType [] OTHER -> "object"]]

\* Schemas with one and two annotations.
FormSchema ==
    {Annotate(A, type, None, "object") : type \in {"boolean", "integer", "string"}}
    \cup {Annotate(None, "object", A, type) : type \in {"integer", "string"}}
    \cup {Annotate(A, "string", B, "integer")}

LeafValue == {Absent, Body("null", Word("null")), Body("boolean", Word("true")), Body("string", Word(" s")),
              Body("string", Int1)} \cup {Body("number", t) : t \in Numbers \ {IntExp}}

Object == Body("object", Word("object"))

Give(o, i) == [n \in Node |-> CASE n = root -> Object [] n = outer -> o [] n = inner -> i [] OTHER -> Absent]

FormArguments == {Absents} \cup {Give(v, Absent) : v \in LeafValue} \cup {Give(Object, v) : v \in LeafValue}

MCEdits == {Give(Body("string", Word("edited")), Absent)}

\* A configuration that tries to set, pass and remove a parameter.
ParamBackend ==
    [authority |-> None, passthrough |-> <<headerA, auth>>, remove |-> <<headerA>>,
     added |-> [NothingAdded EXCEPT ![headerA] = Raw("plain", Word("s"))]]

FormCalls == Calls(FormSchema, FormArguments, {ParamBackend}, FormRequests)

-----------------------------------------------------------------------------
(* Integers in every spelling, beside the argument they denote or 1 *)

Digits(n) == UNION {[1..k -> 0..(Base - 1)] : k \in 0..n}

Exponents == (-3)..3 \cup {-10, -9, 9, 10}

Spellings == {Text("", s, w, f # <<>>, f, e) : s \in {"", "-"}, w \in Digits(3), f \in Digits(2), e \in Exponents}
             \cup {Text("", "", <<1>>, TRUE, <<>>, 0), Text("", "", <<1>>, FALSE, <<1>>, 0)}

Canonical(v) == IF v = NoInteger THEN Int1
                ELSE Plain(IF v < 0 THEN "-" ELSE "",
                           CHOOSE w \in Digits(3) : w # <<>> /\ Number(w) = IF v < 0 THEN -v ELSE v)

PlainBackend == [ParamBackend EXCEPT !.passthrough = <<>>, !.remove = <<>>, !.added = NothingAdded]

SpellingCalls ==
    UNION {Calls({Annotate(A, "integer", None, "object")}, {Give(Body("number", Canonical(Denoted(t))), Absent)},
                 {PlainBackend}, {<<<<headerA, Raw("plain", t)>>>>}) : t \in Spellings}

-----------------------------------------------------------------------------
(* Every schema over the tree, with calls that have nothing to compare *)

WalkType == {[n \in Node |-> "string"],
             [n \in Node |-> IF n = inner THEN "number" ELSE "boolean"],
             [n \in Node |-> IF n = root THEN "string" ELSE "integer"]}

WalkSchema == [header : [Node -> Token \cup {NotToken, None}], type : WalkType]
WalkCalls  == Calls(WalkSchema, {Absents}, {PlainBackend}, {<<>>})

-----------------------------------------------------------------------------
(* Every configuration of a backend's headers, without a schema *)

V1 == Raw("plain", Int1)
V2 == Raw("plain", Word("s"))

HeaderBackend ==
    [authority   : {V1, Bad, None},
     passthrough : {<<>>, <<auth, host>>, <<headerA, Bad, parent>>, <<session, AUTH, AUTH>>},
     added       : {NothingAdded,
                    [NothingAdded EXCEPT ![auth] = V1, ![AUTH] = V2],
                    [NothingAdded EXCEPT ![auth] = Bad, ![Bad] = V1, ![host] = V2],
                    [NothingAdded EXCEPT ![headerA] = V2, ![parent] = V2, ![session] = V1]},
     remove      : {<<>>, <<host, AUTH>>, <<headerA, Bad, parent>>}]

HeaderRequests ==
    {<<>>,
     <<<<auth, V1>>, <<headerA, V1>>, <<headerA, V2>>>>,
     <<<<host, V2>>, <<auth, V2>>, <<auth, V1>>, <<session, V2>>>>,
     <<<<headerA, V1>>, <<parent, V1>>, <<state, V1>>>>}

HeaderCalls == Calls({NoSchema}, {Absents}, HeaderBackend, HeaderRequests)

-----------------------------------------------------------------------------

\* A caller of an older protocol version is not validated.
OldCalls == {[c EXCEPT !.modern = FALSE] :
                c \in Calls({Annotate(A, "string", B, "integer")}, FormArguments, {ParamBackend}, HeaderRequests)}

MCCall  == UNION {FormCalls, SpellingCalls, WalkCalls, HeaderCalls, OldCalls}
MCValue == [form : {"plain", "base64", "bad base64", "not utf8"}, text : HeaderText]
=============================================================================
