--------------------------- MODULE BgpMessageStream ---------------------------
(***************************************************************************)
(* A BGP connection's byte stream in one direction.  The writer is         *)
(* BgpMessage::write of crates/bgp-pkt/src/wire/serializer/mod.rs: it      *)
(* computes len() (the 19-octet header plus the body), refuses an Open or  *)
(* KeepAlive longer than BGP_MAX_MESSAGE_LENGTH, then writes the all-ones  *)
(* marker, len as a u16 and the type code before the body.  The reader is  *)
(* the frame reader of spec 4.1 and 4.3: at a frame boundary it checks the *)
(* marker, reads the 16-bit length, rejects a length outside 19..4096      *)
(* (Open, KeepAlive) or 19..65535 (the others), waits until that many      *)
(* octets have arrived and hands the message on.                           *)
(*                                                                         *)
(* A message is abstracted to its type and body length; a frame on the    *)
(* wire to its length field, its type and the number of octets it really  *)
(* occupies.  The reader's position is an octet offset: when it is not at *)
(* the start of a frame, the 16 octets it takes for a marker are body      *)
(* octets and the marker check fails.  The reader's failures are stated as *)
(* the states in which it would fail, and checked never to be reached.     *)
(***************************************************************************)
EXTENDS Naturals, Sequences, SequencesExt

CONSTANTS
    BodyLengths,   \* the body lengths messages are drawn from
    MaxMessages    \* how many messages the writer is handed

VARIABLES
    sent,       \* messages write() put on the wire, in order
    refused,    \* messages write() returned an error for
    wire,       \* the frames on the wire, in order
    roff,       \* the reader's octet offset into the stream
    delivered   \* the messages the reader has handed on

vars == <<sent, refused, wire, roff, delivered>>

Types == {"Open", "Update", "Notification", "KeepAlive", "RouteRefresh"}

BGP_MIN_MESSAGE_LENGTH == 19
BGP_MAX_MESSAGE_LENGTH == 4096

\* A KeepAlive has no body; the others carry one of BodyLengths.
Messages == [type : Types \ {"KeepAlive"}, body : BodyLengths]
            \cup [type : {"KeepAlive"}, body : {0}]

\* Fault variants of BgpMessage::len: the header left out, or counted twice.
MessageLenBodyOnly(m) == m.body
MessageLenHeaderTwice(m) == 2 * BGP_MIN_MESSAGE_LENGTH + m.body

\* BgpMessage::len: BASE_LENGTH (the header) plus the body.
MessageLen(m) == BGP_MIN_MESSAGE_LENGTH + m.body

\* BgpMessage::write.  The frame records the u16 length field
\* (len as u16 keeps the low 16 bits) and the octets really written.
Write(m) ==
    LET len == MessageLen(m) IN
    IF m.type \in {"Open", "KeepAlive"} /\ len > BGP_MAX_MESSAGE_LENGTH
    THEN [ok |-> FALSE, frame |-> <<>>]
    ELSE [ok |-> TRUE,
          frame |-> [length |-> len % 65536, type |-> m.type,
                     size |-> 16 + 2 + 1 + m.body]]

\* The longest frame the reader accepts for a type (spec 4.1).
MaxFrameLength(type) ==
    IF type \in {"Open", "KeepAlive"} THEN BGP_MAX_MESSAGE_LENGTH ELSE 65535

\* Octets on the wire, and the offset at which frame i starts.
StreamBytes(frames) == FoldLeft(LAMBDA acc, f : acc + f.size, 0, frames)
FrameStart(i) == StreamBytes(SubSeq(wire, 1, i - 1))

\* The frame whose first octet is at the reader's offset, if any.
FramesAtOffset == {i \in DOMAIN wire : FrameStart(i) = roff}

Init == /\ sent = << >>
        /\ refused = << >>
        /\ wire = << >>
        /\ roff = 0
        /\ delivered = << >>

\* The writer is handed m and write() succeeds.
WriteMessage(m) ==
    /\ Len(sent) + Len(refused) < MaxMessages
    /\ Write(m).ok
    /\ wire' = Append(wire, Write(m).frame)
    /\ sent' = Append(sent, m)
    /\ UNCHANGED <<refused, roff, delivered>>

\* The writer is handed m and write() returns BgpMessageLengthOverflow
\* before writing anything.
WriteOverflow(m) ==
    /\ Len(sent) + Len(refused) < MaxMessages
    /\ ~Write(m).ok
    /\ refused' = Append(refused, m)
    /\ UNCHANGED <<sent, wire, roff, delivered>>

\* The reader at a frame boundary with the whole frame arrived.
ReadFrame ==
    /\ \E i \in FramesAtOffset :
         LET f == wire[i] IN
         /\ f.length >= BGP_MIN_MESSAGE_LENGTH
         /\ f.length <= MaxFrameLength(f.type)
         /\ roff + f.length <= StreamBytes(wire)
         /\ delivered' = Append(delivered,
                                [type |-> f.type, body |-> f.length - BGP_MIN_MESSAGE_LENGTH])
         /\ roff' = roff + f.length
    /\ UNCHANGED <<sent, refused, wire>>

Next == \/ \E m \in Messages : WriteMessage(m) \/ WriteOverflow(m)
        \/ ReadFrame

\* The reader task polls the connection for as long as it is open.
Spec == Init /\ [][Next]_vars /\ WF_vars(ReadFrame)

(***************************************************************************)
(* Properties.                                                             *)
(***************************************************************************)
\* Framing agreement between BgpMessage::write and the frame reader: the
\* reader never fails on what write() produced (wherever it stands with
\* octets left to read, a frame starts whose length field is one it
\* accepts; otherwise it would report ConnectionNotSynchronized or
\* BadMessageLength), and what it hands on is the sequence of messages
\* write() was given, in order.
FramesReadAsWritten ==
    /\ roff < StreamBytes(wire) =>
         \E i \in FramesAtOffset :
            wire[i].length \in BGP_MIN_MESSAGE_LENGTH..MaxFrameLength(wire[i].type)
    /\ Len(delivered) <= Len(sent)
    /\ \A i \in DOMAIN delivered : delivered[i] = sent[i]

\* Every message write() puts on the wire is eventually handed on by the
\* reader: it never waits for octets that were not written.
WrittenMessagesEventuallyRead ==
    \A k \in 1..MaxMessages : (Len(sent) >= k) ~> (Len(delivered) >= k)
================================================================================
