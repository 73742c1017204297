--------------------------- MODULE MessageDecoder ---------------------------
(***************************************************************************)
(* The message protocol of unpythonic/net/msg.py: encodemsg, and a         *)
(* MessageDecoder that is fed by a source in chunks of any size.           *)
(*                                                                         *)
(* A byte is one of a few symbols: "S" the sync byte 0xFF, "V" the three   *)
(* bytes v01, "l" and ";" the marks of the length field, the digits, and   *)
(* others that only occur in bodies and in junk.                           *)
(***************************************************************************)
EXTENDS Naturals, Sequences, SequencesExt

CONSTANTS
  Parts,     \* what a stream is made of: bodies of messages, and junk
  MaxParts,  \* bound on their number
  ChunkMax,  \* the most a read of the source returns
  Limit      \* 4096: how much read_header is willing to hold in its search

Digits == <<"0", "1", "2", "3", "4", "5", "6", "7", "8", "9">>
Bytes == ToSet(Digits) \cup {"S", "V", "l", ";", "x"}
DigitValue(d) == (CHOOSE i \in 1..10 : Digits[i] = d) - 1

\* A part is a body to be sent as a message, or bytes that are not a message.
Part == [message : BOOLEAN, bytes : Seq(Bytes)]

\* Junk is not the beginning of a header, and does not make one of what was before.
IsJunk(bytes) ==
  /\ bytes # <<>>
  /\ \A i \in 1..Len(bytes) :
       bytes[i] = "l" => i > 2 /\ <<bytes[i - 2], bytes[i - 1]>> # <<"S", "V">>

MessageDecoderAssumption ==
  /\ Parts \subseteq Part /\ \A p \in Parts : p.message \/ IsJunk(p.bytes)
  /\ ChunkMax \in Nat \ {0} /\ Limit \in Nat /\ MaxParts \in Nat

VARIABLES
  parts,   \* history: what the stream was made of
  source,  \* what the source has yet to yield
  buf,     \* the ReceiveBuffer
  pc,      \* where decodemsg is; "idle" between two calls, "ended" after None
  need,    \* body_len
  out,     \* history: the bodies returned so far
  overrun  \* history: the search for the end of a header was given up, as
           \* Limit bytes or more were held

vars == <<parts, source, buf, pc, need, out, overrun>>

PrefixLen == 3   \* the 5 bytes of "\xffv01l"

------------------------------------------------------------------------------
\* str and int, of numbers of any size
Numeral[n \in Nat] ==
  IF n < 10 THEN <<Digits[n + 1]>> ELSE Append(Numeral[n \div 10], Digits[(n % 10) + 1])

Number(text) ==
  LET value[i \in 0..Len(text)] == IF i = 0 THEN 0 ELSE 10 * value[i - 1] + DigitValue(text[i])
  IN  value[Len(text)]
IsNumber(text) == text # <<>> /\ ToSet(text) \subseteq ToSet(Digits)

\* MUTANT of Header: the terminator is counted with the body
Header_longer(data) == <<"S", "V", "l">> \o Numeral[Len(data) + 1] \o <<";">>

Header(data) == <<"S", "V", "l">> \o Numeral[Len(data)] \o <<";">>
encodemsg(data) == Header(data) \o data

\* What a part is on the wire, and what it is for the receiver.
Encoded(p) == IF p.message THEN encodemsg(p.bytes) ELSE p.bytes
Received(p) == IF p.message THEN <<p.bytes>> ELSE <<>>
Stream(ps) == FlattenSeq([i \in 1..Len(ps) |-> Encoded(ps[i])])
Bodies(ps) == FlattenSeq([i \in 1..Len(ps) |-> Received(ps[i])])

Find(s, b) == SelectInSeq(s, LAMBDA x : x = b)   \* 0 if there is none
From(s, i) == SubSeq(s, i, Len(s))

------------------------------------------------------------------------------
(***************************************************************************)
(* read_more_input: the next chunk, to be appended to what is held; at the *)
(* end of the source the call of decodemsg returns None.                   *)
(***************************************************************************)
ReadMore(held, next) ==
  \/ /\ source # <<>>
     /\ \E n \in 1..(IF Len(source) < ChunkMax THEN Len(source) ELSE ChunkMax) :
          /\ buf' = held \o SubSeq(source, 1, n)
          /\ source' = From(source, n + 1)
     /\ pc' = next
     /\ UNCHANGED <<parts, need, out>>
  \/ /\ source = <<>>
     /\ buf' = held
     /\ pc' = "ended"
     /\ UNCHANGED <<parts, source, need, out>>

\* The user asks for the next message, until there is none.
Decode ==
  /\ pc = "idle"
  /\ pc' = "synchronize"
  /\ UNCHANGED <<parts, source, buf, need, out, overrun>>

\* MUTANT of Synchronize: the junk is dropped together with the sync byte
Synchronize_pastSync ==
  /\ pc = "synchronize" /\ UNCHANGED overrun
  /\ IF Contains(buf, "S")
     THEN /\ buf' = From(buf, Find(buf, "S") + 1)
          /\ pc' = "prefix"
          /\ UNCHANGED <<parts, source, need, out>>
     ELSE ReadMore(<<>>, "synchronize")

Synchronize ==
  /\ pc = "synchronize" /\ UNCHANGED overrun
  /\ IF Contains(buf, "S")
     THEN /\ buf' = From(buf, Find(buf, "S"))
          /\ pc' = "prefix"
          /\ UNCHANGED <<parts, source, need, out>>
     ELSE ReadMore(<<>>, "synchronize")

\* MUTANT of Reject: no byte is skipped
Reject_inPlace ==
  /\ pc' = "synchronize"
  /\ UNCHANGED <<parts, source, buf, need, out>>

\* MessageHeaderParseError: skip a byte and synchronize again.
Reject ==
  /\ pc' = "synchronize"
  /\ buf' = Tail(buf)
  /\ UNCHANGED <<parts, source, need, out>>

\* The first five bytes of the header
ReadPrefix ==
  /\ pc = "prefix" /\ UNCHANGED overrun
  /\ IF Len(buf) < PrefixLen THEN ReadMore(buf, "prefix")
     ELSE IF SubSeq(buf, 1, PrefixLen) # <<"S", "V", "l">> THEN Reject
     ELSE pc' = "search" /\ UNCHANGED <<parts, source, buf, need, out>>

\* An exception other than those of the decoder leaves decodemsg.
Crash == pc' = "crashed" /\ UNCHANGED <<parts, source, buf, need, out>>

\* MUTANT of ReadLength: the terminator stays in the buffer
ReadLength_keepsTerminator ==
  /\ pc \in {"search", "searching"}
  /\ overrun' = (overrun \/ Len(buf) >= Limit)
  /\ IF Len(buf) >= Limit THEN IF pc = "search" THEN Crash ELSE Reject
     ELSE IF ~Contains(buf, ";") THEN ReadMore(buf, "searching")
     ELSE LET j == Find(buf, ";")
              text == SubSeq(buf, PrefixLen + 1, j - 1)
          IN  IF ~IsNumber(text) THEN Crash
              ELSE /\ need' = Number(text)
                   /\ buf' = From(buf, j)
                   /\ pc' = "body"
                   /\ UNCHANGED <<parts, source, out>>

\* The loop that looks for the end of the length field, as long as less than
\* Limit bytes are held.  If it is not entered at all ("search"), j is
\* unbound; if it is left by its condition ("searching"), j is -1.  Text that
\* is not a number makes int() raise ValueError.
ReadLength ==
  /\ pc \in {"search", "searching"}
  /\ overrun' = (overrun \/ Len(buf) >= Limit)
  /\ IF Len(buf) >= Limit THEN IF pc = "search" THEN Crash ELSE Reject
     ELSE IF ~Contains(buf, ";") THEN ReadMore(buf, "searching")
     ELSE LET j == Find(buf, ";")
              text == SubSeq(buf, PrefixLen + 1, j - 1)
          IN  IF ~IsNumber(text) THEN Crash
              ELSE /\ need' = Number(text)
                   /\ buf' = From(buf, j + 1)
                   /\ pc' = "body"
                   /\ UNCHANGED <<parts, source, out>>

\* MUTANT of ReadBody: what follows the body is dropped with it
ReadBody_dropsLeftovers ==
  /\ pc = "body" /\ UNCHANGED overrun
  /\ IF Len(buf) < need THEN ReadMore(buf, "body")
     ELSE /\ out' = Append(out, SubSeq(buf, 1, need))
          /\ buf' = <<>>
          /\ pc' = "idle"
          /\ UNCHANGED <<parts, source, need>>

ReadBody ==
  /\ pc = "body" /\ UNCHANGED overrun
  /\ IF Len(buf) < need THEN ReadMore(buf, "body")
     ELSE /\ out' = Append(out, SubSeq(buf, 1, need))
          /\ buf' = From(buf, need + 1)
          /\ pc' = "idle"
          /\ UNCHANGED <<parts, source, need>>

Init ==
  /\ parts \in BoundedSeq(Parts, MaxParts)
  /\ source = Stream(parts)
  /\ buf = <<>> /\ pc = "idle" /\ need = 0 /\ out = <<>> /\ overrun = FALSE

Next == Decode \/ Synchronize \/ ReadPrefix \/ ReadLength \/ ReadBody

\* The decoder is called until it returns None, and the source does not block
\* for ever.
Spec == Init /\ [][Next]_vars /\ WF_vars(Next)
------------------------------------------------------------------------------
(***************************************************************************)
(* Properties                                                              *)
(***************************************************************************)
TypeOK ==
  /\ parts \in Seq(Parts)
  /\ source \in Seq(Bytes) /\ buf \in Seq(Bytes)
  /\ pc \in {"idle", "synchronize", "prefix", "search", "searching", "body", "ended", "crashed"}
  /\ need \in Nat
  /\ out \in Seq(Seq(Bytes)) /\ overrun \in BOOLEAN

\* Chunks this small never make the search hold Limit bytes.
SmallChunks == \A p \in Parts : p.message => Len(Header(p.bytes)) + ChunkMax <= Limit

\* The properties of the messages hold as long as no search was given up: the
\* next bytes may be taken for a message after that, or the decoder fails.

\* Whatever the chunks, and whatever junk lies between the messages, the
\* decoder returns the bodies that were sent, in order, none twice, none
\* invented (msg.py:251-265).
MessagesInOrder == ~overrun => IsPrefix(out, Bodies(parts))

\* None is returned only after every message (msg.py:80-82).
NoneMeansEnd == pc = "ended" /\ ~overrun => out = Bodies(parts)

\* What is held outside a call, and what the source has yet to yield, is
\* exactly what follows the last message returned: nothing is lost at the
\* seam of two messages (msg.py:9-15).
NothingLostAtTheSeam ==
  pc = "idle" /\ ~overrun =>
     \E k \in 0..Len(parts) :
       /\ buf \o source = Stream(From(parts, k + 1))
       /\ out = Bodies(SubSeq(parts, 1, k))

\* No header that was sent, and no junk, makes decodemsg fail (msg.py:185-187).
NeverCrashes == pc = "crashed" => overrun

\* Decoding always comes to an end, for every finite stream (msg.py:252-265).
DecodingEnds == <>(pc \in {"ended", "crashed"})

\* "The chunks don't have to be of any particular size" (msg.py:107): the
\* messages of a stream are all decoded.
EveryMessageArrives == <>(out = Bodies(parts))
==============================================================================
