----------------------------- MODULE PcapReader -----------------------------
(***************************************************************************)
(* PcapReader (src/pcap_reader.cpp) as operators on the value of a reader. *)
(*                                                                         *)
(* A file is what its writer put into it, and how much of that is there:   *)
(*   present   it can be opened                                            *)
(*   magic     "native" if the writer's byte order is this host's,         *)
(*             "swapped" if it is the other one, "unknown" otherwise       *)
(*   snaplen   as the writer meant it                                      *)
(*   frames    the frames of its records; f.len bytes of f follow a header *)
(*   length    its bytes; fewer than it should have if it was cut short    *)
(***************************************************************************)
EXTENDS Integers, Sequences

GLOBAL_HEADER_LEN == 24
PACKET_HEADER_LEN == 16

\* A word has two digits here instead of four bytes.
Digit == 16
Words == 0..(Digit * Digit - 1)

\* swap32
swap32(v) == Digit * (v % Digit) + v \div Digit

\* What this host reads where the writer put v.
Raw(file, v) == IF file.magic = "swapped" THEN swap32(v) ELSE v

\* A field as the reader takes it.
Word(swapped, raw) == IF swapped THEN swap32(raw) ELSE raw

\* A reader whose file is not open.
Closed == [is_open |-> FALSE, swapped |-> FALSE, snaplen |-> 0, at |-> 0, records |-> 0]

\* open: a missing file, a short header and an unknown magic number fail alike.
open(file) ==
    IF file.present /\ file.length >= GLOBAL_HEADER_LEN /\ file.magic \in {"native", "swapped"}
    THEN [is_open |-> TRUE, swapped |-> file.magic = "swapped",
          snaplen |-> Word(file.magic = "swapped", Raw(file, file.snaplen)),
          at |-> GLOBAL_HEADER_LEN, records |-> 0]
    ELSE Closed

\* The next record's frame, and its length as the reader takes it.
NextFrame(reader, file) == file.frames[reader.records + 1]
InclLen(reader, file) == Word(reader.swapped, Raw(file, NextFrame(reader, file).len))

\* The header of the next record is there.
HeaderThere(reader, file) ==
    /\ reader.is_open
    /\ reader.records < Len(file.frames)
    /\ reader.at + PACKET_HEADER_LEN <= file.length

\* Mutant: a body that was cut short is taken for a packet.
readNextPacket_ShortBody(reader, file) ==
    /\ HeaderThere(reader, file)
    /\ reader.snaplen # 0 => InclLen(reader, file) <= reader.snaplen

\* What readNextPacket returns.  After FALSE the callers read no more.
readNextPacket(reader, file) ==
    /\ HeaderThere(reader, file)
    /\ reader.snaplen # 0 => InclLen(reader, file) <= reader.snaplen
    /\ reader.at + PACKET_HEADER_LEN + InclLen(reader, file) <= file.length

\* The reader behind a record it has read.
Advanced(reader, file) ==
    [reader EXCEPT !.at = @ + PACKET_HEADER_LEN + InclLen(reader, file), !.records = @ + 1]
=============================================================================
