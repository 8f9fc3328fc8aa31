---------------------------- MODULE MCServerName ----------------------------
(***************************************************************************)
(* Hellos for TLC: lists of names and extensions in every order, each with *)
(* every false length, and all short host names.                           *)
(***************************************************************************)
EXTENDS ServerName

Host(name) == [type |-> HOST_NAME, name |-> name]
Other(name) == [type |-> 7, name |-> name]
Names(names) == [type |-> SERVER_NAME, names |-> names]
Opaque == [type |-> 16, body |-> <<0, 1, 0>>]

\* A hello without extensions and without a fault.
Plain ==
    [content |-> HANDSHAKE, message |-> CLIENT_HELLO, session_id |-> <<>>,
     cipher_suites |-> <<19, 1, 19, 2>>, comp_methods |-> <<0>>, extensions |-> <<>>,
     fault |-> "none", missing |-> 0]

\* The hello of the benchmark.
buildClientHelloRecord(hostname) == [Plain EXCEPT !.extensions = <<Names(<<Host(hostname)>>)>>]

\* Bytes within a hello that are a hello of their own to who starts there.
Nested ==
    [buildClientHelloRecord(<<98>>) EXCEPT
        !.extensions = <<[type |-> 16, body |-> Encoding(buildClientHelloRecord(<<97>>))]>> \o @]

\* Lengths whose first byte is not zero.
LongHello == [buildClientHelloRecord(<<97>>) EXCEPT !.cipher_suites = [k \in 1..260 |-> 1]]

NameLists ==
    {<<>>, <<Host(<<97>>)>>, <<Host(<<>>)>>, <<Other(<<0, 0>>)>>, <<Other(<<0>>), Host(<<98, 0>>)>>,
     <<Host(<<97>>), Host(<<98>>)>>}

ExtensionLists ==
    {<<>>, <<Opaque>>}
    \cup {<<Names(n)>> : n \in NameLists}
    \cup {<<Opaque, Names(n)>> : n \in NameLists}
    \cup {<<Names(<<Other(<<5>>)>>), Names(n)>> : n \in NameLists}

Sound ==
    {[Plain EXCEPT !.extensions = e, !.session_id = s, !.comp_methods = c] :
        e \in ExtensionLists, s \in {<<>>, <<1, 1>>}, c \in {<<>>, <<0>>}}

FalseLengths == UNION {{[h EXCEPT !.fault = f] : f \in LengthsOf(h)} : h \in Sound}

CutShort ==
    UNION {{[h EXCEPT !.missing = k] : k \in (1..Len(HelloBody(h))) \ {Len(ExtensionBlock(h))}} :
           h \in {g \in Sound : g.session_id # <<>> /\ g.comp_methods # <<>>}}

NotHellos == {[h EXCEPT !.content = 23] : h \in Sound} \cup {[h EXCEPT !.message = 2] : h \in Sound}

Labels == {<<97>>, <<98>>, <<97, 98>>}
Names1To3 == UNION {[1..n -> Labels] : n \in 1..3}
Rules1To2 == {<<r>> : r \in Names1To3} \cup {<<q, r>> : q, r \in UNION {[1..n -> Labels] : n \in 1..2}}

AllHellos ==
    {LongHello, Nested} \cup Sound \cup FalseLengths \cup CutShort \cup NotHellos
    \cup {buildClientHelloRecord(Text(labels)) : labels \in Names1To3}
=============================================================================
