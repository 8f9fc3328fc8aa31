------------------------------ MODULE TlsParser ------------------------------
(***************************************************************************)
(* tryExtractSni (src/tls_parser.cpp) on the bytes of a stream: the walk   *)
(* through the nested lengths of a ClientHello.                            *)
(*                                                                         *)
(* Positions are counted from the first byte of the stream.  A walk is at  *)
(* a position, or Lost once a length did not fit into what encloses it.    *)
(***************************************************************************)
EXTENDS Integers, SequencesExt

CONSTANT FIXED_LEN  \* client_version and random, 34 bytes in the code

ASSUME TlsAssumption == FIXED_LEN \in Nat

RECORD_HEADER_LEN == 5
HANDSHAKE_HEADER_LEN == 4
HANDSHAKE == 22      \* TLS_CONTENT_TYPE_HANDSHAKE
CLIENT_HELLO == 1    \* TLS_HANDSHAKE_TYPE_CLIENT_HELLO
SERVER_NAME == 0     \* TLS_EXTENSION_SERVER_NAME
HOST_NAME == 0       \* SNI_NAME_TYPE_HOST_NAME

Lost == -1

Answer(status, name) == [status |-> status, sni |-> name]
Only(status) == Answer(status, <<>>)

\* The big-endian number in the width bytes at position pos.
Number(data, pos, width) ==
    FoldLeft(LAMBDA n, byte : 256 * n + byte, 0, SubSeq(data, pos + 1, pos + width))

\* Mutant: what fills its container exactly does not fit.
Past_Strict(pos, count, end) == IF pos = Lost \/ pos + count >= end THEN Lost ELSE pos + count

\* Where `count` bytes at pos end, Lost if that is past `end`.
Past(pos, count, end) == IF pos = Lost \/ pos + count > end THEN Lost ELSE pos + count

\* Where a field ends that starts at pos with its own length in `width` bytes.
Behind(data, pos, width, end) ==
    LET body == Past(pos, width, end)
    IN  IF body = Lost THEN Lost ELSE Past(body, Number(data, pos, width), end)

\* The entries of a server_name list: type(1), length(2), name.
HostName(data, start, list_end) ==
    LET from[pos \in Nat] ==
            IF pos + 3 > list_end THEN Only("NoSni")
            ELSE LET next == Behind(data, pos + 1, 2, list_end)
                 IN  IF next = Lost THEN Only("Malformed")
                     ELSE IF data[pos + 1] = HOST_NAME
                     THEN Answer("Found", SubSeq(data, pos + 4, next))
                     ELSE from[next]
    IN  from[start]

\* The server_name extension that starts with its list at pos.
ServerNameList(data, pos, sni_end) ==
    LET list_end == Behind(data, pos, 2, sni_end)
    IN  IF list_end = Lost THEN Only("Malformed") ELSE HostName(data, pos + 2, list_end)

\* The extensions: type(2), length(2), body.
Extensions(data, start, extensions_end) ==
    LET from[pos \in Nat] ==
            IF pos + 4 > extensions_end THEN Only("NoSni")
            ELSE LET next == Behind(data, pos + 2, 2, extensions_end)
                 IN  IF next = Lost THEN Only("Malformed")
                     ELSE IF Number(data, pos, 2) = SERVER_NAME
                     THEN ServerNameList(data, pos + 4, next)
                     ELSE from[next]
    IN  from[start]

\* The body of the ClientHello at pos.
ClientHello(data, pos, end) ==
    LET session_id == Past(pos, FIXED_LEN, end)
        cipher_suites == Behind(data, session_id, 1, end)
        comp_methods == Behind(data, cipher_suites, 2, end)
        extensions == Behind(data, comp_methods, 1, end)
        extensions_end == Behind(data, extensions, 2, end)
    IN  IF extensions = end THEN Only("NoSni")
        ELSE IF extensions_end = Lost THEN Only("Malformed")
        ELSE Extensions(data, extensions + 2, extensions_end)

\* The handshake message in the record whose body is at pos.
Handshake(data, pos, record_end) ==
    LET hello == Past(pos, HANDSHAKE_HEADER_LEN, record_end)
        hello_end == Behind(data, pos + 1, 3, record_end)
    IN  IF hello = Lost THEN Only("Malformed")
        ELSE IF data[pos + 1] # CLIENT_HELLO THEN Only("NotTls")
        ELSE IF hello_end = Lost THEN Only("Malformed")
        ELSE ClientHello(data, hello, hello_end)

RecordEnd(data) == RECORD_HEADER_LEN + Number(data, 3, 2)

\* Mutant: the record ends where the bytes in hand end.
tryExtractSni_AllInHand(data) ==
    IF Len(data) < RECORD_HEADER_LEN THEN Only("Incomplete")
    ELSE IF data[1] # HANDSHAKE THEN Only("NotTls")
    ELSE IF Len(data) < RecordEnd(data) THEN Only("Incomplete")
    ELSE Handshake(data, RECORD_HEADER_LEN, Len(data))

tryExtractSni(data) ==
    IF Len(data) < RECORD_HEADER_LEN THEN Only("Incomplete")
    ELSE IF data[1] # HANDSHAKE THEN Only("NotTls")
    ELSE IF Len(data) < RecordEnd(data) THEN Only("Incomplete")
    ELSE Handshake(data, RECORD_HEADER_LEN, RecordEnd(data))
=============================================================================
