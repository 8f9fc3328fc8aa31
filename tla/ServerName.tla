----------------------------- MODULE ServerName -----------------------------
(***************************************************************************)
(* From the bytes of a ClientHello, arriving in any pieces, to the rule    *)
(* that blocks the host: tryExtractSni on every prefix of the stream, and  *)
(* matchesRule (src/block_rules.cpp) on the name it finds.                 *)
(*                                                                         *)
(* A hello is what its sender means to say.  Encoding writes it as         *)
(* buildClientHelloRecord of the benchmark does, for any lists of names    *)
(* and extensions, and with at most one length that is not true.           *)
(***************************************************************************)
EXTENDS TlsParser

CONSTANTS
    Hellos,     \* the hellos that are sent
    Hosts,      \* host names, as sequences of labels
    RuleLists   \* lists of domain rules, as sequences of labels

VARIABLES
    hello,   \* what the sender says, with the fault of its encoding
    stream,  \* its bytes, and some that follow the record
    answer,  \* what tryExtractSni says of what has arrived
    len      \* how much of the stream has arrived

vars == <<hello, stream, answer, len>>

-----------------------------------------------------------------------------
(* Encoding.                                                               *)

Byte == 0..255

\* n as a big-endian number of one, two or three bytes.
Weight == <<65536, 256, 1>>
BigEndian(n, width) == [k \in 1..width |-> (n \div Weight[3 - width + k]) % 256]

\* A field with its length before it and the rest of what encloses it behind.
\* A false length reaches one byte past all of that.
Field(width, body, rest, false) ==
    BigEndian(Len(body) + (IF false THEN Len(rest) + 1 ELSE 0), width) \o body \o rest

\* The names of a list, and bytes too few for another one.
NamesFrom(names, fault) ==
    FoldRightDomain(LAMBDA k, rest : <<names[k].type>>
                                     \o Field(2, names[k].name, rest, fault = "name" /\ k = 1),
                    names, <<9, 9>>)

\* An extension's body: a list of names, or bytes nobody looks into.
Body(extension, fault) ==
    IF extension.type = SERVER_NAME
    THEN Field(2, NamesFrom(extension.names, fault), <<>>, fault = "list")
    ELSE extension.body

ExtensionsFrom(extensions, fault) ==
    FoldRightDomain(LAMBDA k, rest : BigEndian(extensions[k].type, 2)
                                     \o Field(2, Body(extensions[k], fault), rest,
                                              fault = "extension" /\ k = 1),
                    extensions, <<9, 9, 9>>)

\* A ClientHello without extensions ends early.
ExtensionBlock(h) ==
    IF h.extensions = <<>> THEN <<>>
    ELSE Field(2, ExtensionsFrom(h.extensions, h.fault), <<>>, h.fault = "extensions")

\* The body of the ClientHello.
HelloBody(h) ==
    LET comp_methods == Field(1, h.comp_methods, ExtensionBlock(h), h.fault = "comp_methods")
        cipher_suites == Field(2, h.cipher_suites, comp_methods, h.fault = "cipher_suites")
    IN  [k \in 1..FIXED_LEN |-> 3] \o Field(1, h.session_id, cipher_suites, h.fault = "session_id")

\* The handshake message; the sender may stop h.missing bytes early.
Message(h) ==
    LET body == HelloBody(h)
    IN  <<h.message>> \o Field(3, SubSeq(body, 1, Len(body) - h.missing), <<>>, h.fault = "message")

\* The record, followed by bytes of the next one.
Encoding(h) ==
    <<h.content, 3, 1>> \o BigEndian(Len(Message(h)), 2) \o Message(h) \o <<0, 0, 0, 0, 0, 0, 0>>

-----------------------------------------------------------------------------
(* What the sender meant.                                                  *)

\* The names of the first server_name extension.
NamesOf(h) ==
    LET k == SelectInSeq(h.extensions, LAMBDA e : e.type = SERVER_NAME)
    IN  IF k = 0 THEN <<>> ELSE h.extensions[k].names

\* Where the first host name is among the names, 0 if there is none.
HostAt(names) == SelectInSeq(names, LAMBDA n : n.type = HOST_NAME)

\* What is to be said of a list of names.
MeantByNames(names) ==
    IF HostAt(names) = 0 THEN Only("NoSni") ELSE Answer("Found", names[HostAt(names)].name)

\* What is to be said of a hello: its first host name, unless a length is false.
Meant(h) ==
    IF h.content # HANDSHAKE \/ h.message # CLIENT_HELLO THEN Only("NotTls")
    ELSE IF h.fault # "none" \/ h.missing > 0 THEN Only("Malformed")
    ELSE MeantByNames(NamesOf(h))

\* The lengths in a hello, each of which may be false.
LengthsOf(h) ==
    {"session_id", "cipher_suites", "comp_methods", "message"}
    \cup (IF h.extensions = <<>> THEN {} ELSE {"extensions", "extension"})
    \cup (IF \E k \in DOMAIN h.extensions : h.extensions[k].type = SERVER_NAME THEN {"list"} ELSE {})
    \cup (IF NamesOf(h) = <<>> THEN {} ELSE {"name"})

NameEntry == [type : Byte, name : Seq(Byte)]

OtherType == {t \in Nat : t < 65536 /\ t # SERVER_NAME}

Extension ==
    [type : {SERVER_NAME}, names : Seq(NameEntry)] \cup [type : OtherType, body : Seq(Byte)]

Hello ==
    [content : Byte, message : Byte, session_id : Seq(Byte), cipher_suites : Seq(Byte),
     comp_methods : Seq(Byte), extensions : Seq(Extension), fault : STRING, missing : Nat]

\* The hellos that can be written.  The lengths, false or not, fit the bytes
\* they have, and one that stops early does not stop where its extensions
\* would begin: that would be a sound hello without them.
Writable ==
    {h \in Hello :
        /\ h.fault \in LengthsOf(h) \cup {"none"}
        /\ HANDSHAKE_HEADER_LEN + Len(HelloBody(h)) < 65536
        /\ Len(h.session_id) < 256 /\ Len(h.comp_methods) < 256
        /\ h.fault \in {"session_id", "comp_methods"} => Len(HelloBody(h)) < 256
        /\ h.missing <= Len(HelloBody(h))
        /\ h.missing = Len(ExtensionBlock(h)) => h.missing = 0}

ASSUME HelloAssumption == Hellos \subseteq Writable

-----------------------------------------------------------------------------
Init ==
    /\ hello \in Hellos
    /\ stream = Encoding(hello)
    /\ len = 0
    /\ answer = tryExtractSni(<<>>)

\* One more byte.  What the engine has buffered after any pieces is one of the
\* prefixes, and tryExtractSni remembers nothing.
Arrive ==
    /\ len < Len(stream)
    /\ len' = len + 1
    /\ answer' = tryExtractSni(SubSeq(stream, 1, len'))
    /\ UNCHANGED <<hello, stream>>

Next == Arrive

Spec == Init /\ [][Next]_vars

-----------------------------------------------------------------------------
\* Where the record ends in the stream.
RecordInStream == RECORD_HEADER_LEN + Len(Message(hello))

(***************************************************************************)
(* "Every length field read from the input ... is walked and               *)
(* bounds-checked before being trusted" (tls_parser.h:23): of a complete   *)
(* record the parser reports the first host name, past other names and     *)
(* extensions, and a length that is one too large for what encloses it, or *)
(* a message that ends anywhere before its last field, is Malformed.       *)
(* Before the record is complete, no answer is given but that it is none.  *)
(***************************************************************************)
SaysWhatWasMeant ==
    answer = IF len >= RecordInStream THEN Meant(hello)
             ELSE IF len >= RECORD_HEADER_LEN /\ hello.content # HANDSHAKE
             THEN Only("NotTls") ELSE Only("Incomplete")

-----------------------------------------------------------------------------
(* Names and rules.                                                        *)

Dot == 46

\* Host names and rules are made of labels that are not empty.
Label == {l \in Seq(Byte) : l # <<>> /\ \A k \in DOMAIN l : l[k] # Dot}
Domain == Seq(Label) \ {<<>>}

ASSUME LabelAssumption == Hosts \subseteq Domain /\ RuleLists \subseteq Seq(Domain)

\* Mutant: the dot in front of the rule is forgotten.
matchesRule_RawSuffix(hostname, rule) == IsSuffix(rule, hostname)

\* The rule itself, or a name that ends in a dot and the rule.
matchesRule(hostname, rule) ==
    LET suffix == <<Dot>> \o rule
    IN  \/ hostname = rule
        \/ Len(hostname) > Len(suffix) /\ IsSuffix(suffix, hostname)

\* Labels joined by dots.
Text(labels) ==
    FoldLeft(LAMBDA text, label : text \o <<Dot>> \o label, Head(labels), Tail(labels))

Rule == INSTANCE BlockRules WITH RuleMatches <- matchesRule, NoName <- <<>>

RulesFrom(list) ==
    FoldLeft(LAMBDA rules, labels : Rule!addBlockedDomain(rules, Text(labels)), Rule!NoRules, list)

\* The first rule of the list that is the name or a parent domain of it.
ByLabels(list, labels) ==
    LET parent == SelectInSeq(list, LAMBDA rule : IsSuffix(rule, labels))
    IN  IF parent = 0 THEN <<>> ELSE Text(list[parent])

(***************************************************************************)
(* "blocks that exact hostname *and* any subdomain of it, but not a        *)
(* hostname that merely shares the suffix" (block_rules.h:14): the         *)
(* comparison of characters is one of whole labels, and the first rule     *)
(* added wins.                                                             *)
(***************************************************************************)
BlockedByLabels ==
    answer.status = "Found" =>
        \A labels \in Hosts : answer.sni = Text(labels) =>
            \A list \in RuleLists :
                Rule!matchBlockedDomain(RulesFrom(list), answer.sni) = ByLabels(list, labels)

-----------------------------------------------------------------------------
(* What the engine model takes for granted.                                *)

Rest(from) == SubSeq(stream, from + 1, Len(stream))

\* What the engine model is told of the stream: where it may be taken for a
\* handshake, how long the record would be, and what it would say.
Described ==
    [from \in {k \in 0..(Len(stream) - RECORD_HEADER_LEN) : stream[k + 1] = HANDSHAKE} |->
        [record_end |-> RecordEnd(Rest(from)), verdict |-> tryExtractSni(Rest(from)).status]]

EngineView == INSTANCE PacketInspection
    WITH Tuples <- {0}, Streams <- [t \in {0} |-> Described], Rules <- Rule!NoRules,
         RuleMatches <- matchesRule, NoName <- <<>>, SeqModulus <- 2, MAX_REASSEMBLY_BYTES <- 65536

(***************************************************************************)
(* The engine model knows of a stream, from wherever it starts to read it, *)
(* only whether it begins like a handshake, how long a record that would   *)
(* be, and one verdict: Incomplete until the record is there, and from     *)
(* then on the same answer whatever arrives behind it, so that trying      *)
(* again on every chunk is harmless.                                       *)
(***************************************************************************)
AsTheEngineAssumes ==
    \A from \in 0..len :
        tryExtractSni(SubSeq(stream, from + 1, len)).status
            = EngineView!tryExtractSni(0, [k \in 1..(len - from) |-> from + k - 1])
=============================================================================
