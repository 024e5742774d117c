------------------------------ MODULE HttpClient ------------------------------
(***************************************************************************)
(* The HTTP client of fetch and fetch_async (sion.h): Send connects and    *)
(* ReadResponse puts together, from whatever pieces recv returns, a head   *)
(* and a body with a declared length or in chunks.  The peer sends one     *)
(* reply and may close or reset the connection anywhere in it.  A byte is  *)
(* a one-character string; the first line and the fields of the head are   *)
(* one byte.  SSL_read takes the place of recv for https.                  *)
(***************************************************************************)
EXTENDS Integers, Sequences, FiniteSetsExt, SequencesExt

CONSTANTS Replies              \* what the peer may send:
                               \* [head, coding, zeros, chunks]

VARIABLES reply,               \* the reply of this peer
          peer,                \* "absent" refuses, "open", "closed", "reset"
          coming,              \* the bytes that recv has still to return
          source, body,        \* Response::source_, until the head is parsed; body_
          phase                \* "idle", "connect", "head", "body", "done", "thrown"

hvars == <<reply, peer, coming, source, body, phase>>

CR == "\r"
LF == "\n"
Crlf == <<CR, LF>>
HexDigits == <<"0", "1", "2", "3", "4", "5", "6", "7", "8", "9", "a", "b", "c", "d", "e", "f">>

\* A reply on the wire.  "bare" is a head whose first line has no reason phrase.
\* Sizes of chunks may be written with leading zeros.
Content(r) == FlattenSeq(r.chunks)
Hex[n \in Nat] == IF n < 16 THEN <<HexDigits[n + 1]>>
                  ELSE Hex[n \div 16] \o <<HexDigits[(n % 16) + 1]>>
Size(r, n) == [i \in 1..r.zeros |-> "0"] \o Hex[n] \o Crlf
Chunk(r, d) == Size(r, Len(d)) \o d \o Crlf
Wire(r) ==
  <<r.head>> \o Crlf \o Crlf \o
    IF r.coding = "chunked"
    THEN FlattenSeq([i \in 1..Len(r.chunks) |-> Chunk(r, r.chunks[i])]) \o Size(r, 0) \o Crlf
    ELSE Content(r)

\* The code counts bytes in an int.
IntMax == 2147483647

\* A chunk that is not the last one has data; a reply that declares nothing has no
\* body.  "thrown" stands for an exception and is no byte.
ASSUME RepliesAssumption ==
  \A r \in Replies :
    /\ r.head \in {"head", "bare"} /\ r.coding \in {"length", "chunked", "none"}
    /\ r.zeros \in Nat /\ r.chunks \in Seq(Seq(STRING))
    /\ r.coding = "none" => r.chunks = <<>>
    /\ \A d \in Range(r.chunks) :
         "thrown" \notin Range(d) /\ (r.coding = "chunked" => d # <<>>)
    /\ Len(Wire(r)) <= IntMax

\* content_length_ is 0 when the head declares nothing.
Declared(r) == IF r.coding = "length" THEN Len(Content(r)) ELSE 0

Holds(s, i, t) == SubSeq(s, i, i + Len(t) - 1) = t
Found(s, t, i) == {j \in i..(Len(s) - Len(t) + 1) : Holds(s, j, t)}

-----------------------------------------------------------------------------
(* Response.                                                               *)

\* CanParseHeader: everything read so far is searched for the empty line.
CanParseHeader(s) == Found(s, Crlf \o Crlf, 1) # {}

BodyStart(s) == Min(Found(s, Crlf \o Crlf, 1)) + 4

\* std::stoi in base 16: the digits in front, an exception if there is none.
IsHex(c) == Contains(HexDigits, c)
Digit(c) == CHOOSE d \in 0..15 : HexDigits[d + 1] = c
Stoi(s) ==
  LET digits == Min({i \in 1..(Len(s) + 1) : i > Len(s) \/ ~IsHex(s[i])}) - 1
      value[i \in 0..digits] == IF i = 0 THEN 0 ELSE 16 * value[i - 1] + Digit(s[i])
  IN  value[digits]

\* Mutant: the search is not led over the data.
AfterDataShort(s, right, n) == Found(s, Crlf, right + 2)
\* get_next_crlf behind the data of a chunk whose size line ends at "right".
AfterData(s, right, n) == Found(s, Crlf, right + 2 + n)

\* ParseBody: from the size line that begins at i on.  The data of a chunk is
\* taken by its size, also beyond the end of what was read.
Beyond == "??"
ParseBody(s) ==
  LET data[i \in 1..(Len(s) + 1)] ==
        LET ends == Found(s, Crlf, i)
            right == Min(ends)
            size == SubSeq(s, i, right - 1)
            n == Stoi(size)
            taken == [k \in 1..n |-> IF right + 1 + k <= Len(s) THEN s[right + 1 + k] ELSE Beyond]
            after == AfterData(s, right, n)
        IN  IF ends = {} THEN <<>>
            ELSE IF size = <<>> \/ ~IsHex(size[1]) THEN <<"thrown">>
            ELSE IF n = 0 THEN <<>>
            ELSE IF after = {} THEN taken
            ELSE taken \o data[Min(after) + 2]
  IN  IF reply.coding = "chunked" /\ s # <<>> THEN data[1] ELSE s

\* Mutant: only one zero is taken for the last size.
EndedOneZero ==
  IF reply.coding = "chunked"
  THEN Len(body) >= 7 /\ Holds(body, Len(body) - 6, Crlf \o <<"0">> \o Crlf \o Crlf)
  ELSE Len(body) = Declared(reply)

\* check_end: all is there when the body has its length, or when its end looks
\* like the last chunk, \r\n0\r\n\r\n with any number of zeros.
Ended ==
  IF reply.coding = "chunked"
  THEN /\ Len(body) >= 7 /\ Holds(body, Len(body) - 3, Crlf \o Crlf)
       /\ \E i \in 3..(Len(body) - 4) :
            /\ Holds(body, i - 2, Crlf)
            /\ \A j \in i..(Len(body) - 4) : body[j] = "0"
  ELSE Len(body) = Declared(reply)

-----------------------------------------------------------------------------
HInit ==
  /\ reply \in Replies /\ peer \in {"absent", "open"}
  /\ coming = Wire(reply) /\ source = <<>> /\ body = <<>> /\ phase = "connect"

\* The peer closes or resets; what it sent before has been read.
Peer ==
  /\ phase \notin {"idle", "connect"} /\ peer = "open"
  /\ peer' \in {"closed", "reset"}
  /\ UNCHANGED <<reply, coming, source, body, phase>>

\* Send: connect, and send the request.  An exception leaves the socket open.
Connection ==
  /\ phase = "connect"
  /\ phase' = IF peer = "open" THEN "head" ELSE "thrown"
  /\ UNCHANGED <<reply, peer, coming, source, body>>

\* Read: recv returns what has arrived, in any pieces, 0 when the peer has closed,
\* and -1 when it has reset; these two are exceptions.
Arrives(k) == peer = "open" /\ k \in 1..Len(coming) /\ coming' = SubSeq(coming, k + 1, Len(coming))
Piece(k) == SubSeq(coming, 1, k)
ReadFails ==
  /\ peer # "open" /\ (phase = "head" \/ (phase = "body" /\ ~Ended))
  /\ phase' = "thrown"
  /\ UNCHANGED <<reply, peer, coming, source, body>>

\* ParseHeader wants three words in the first line; the rest begins the body.
ParseHeader(s) ==
  /\ source' = <<>>
  /\ IF s[1] = "bare" THEN phase' = "thrown" /\ UNCHANGED body
     ELSE phase' = "body" /\ body' = SubSeq(s, BodyStart(s), Len(s))
ReadHead(k) ==
  /\ phase = "head" /\ Arrives(k)
  /\ LET s == source \o Piece(k)
     IN  IF CanParseHeader(s) THEN ParseHeader(s)
         ELSE source' = s /\ UNCHANGED <<body, phase>>
  /\ UNCHANGED <<reply, peer>>

ReadBody(k) ==
  /\ phase = "body" /\ ~Ended /\ Arrives(k)
  /\ body' = body \o Piece(k)
  /\ UNCHANGED <<reply, peer, source, phase>>

Finish ==
  /\ phase = "body" /\ Ended
  /\ body' = ParseBody(body)
  /\ phase' = IF Contains(ParseBody(body), "thrown") THEN "thrown" ELSE "done"
  /\ UNCHANGED <<reply, peer, coming, source>>

HNext == \/ Peer \/ Connection \/ ReadFails \/ Finish
         \/ \E k \in 1..Len(coming) : ReadHead(k) \/ ReadBody(k)

HSpec == HInit /\ [][HNext]_hvars

-----------------------------------------------------------------------------
(* Properties.                                                             *)

\* A chunk with a line of zeros and an empty one behind it, its frame included.
ZeroLine(d) ==
  LET s == Crlf \o d \o Crlf
  IN  \E i \in Found(s, Crlf, 1), j \in Found(s, Crlf \o Crlf, 1) :
        i + 2 < j /\ \A k \in (i + 2)..(j - 1) : s[k] = "0"

\* The body returned is the one the peer sent, in whatever pieces it came: unless
\* a chunk holds a line of zeros, which check_end may take for the end.
BodyIsWhole ==
  phase = "done" /\ ~(reply.coding = "chunked" /\ \E d \in Range(reply.chunks) : ZeroLine(d)) =>
    body = Content(reply)

\* A chunked reply without data is shorter than the end that check_end looks for.
Recognised(r) == r.coding = "chunked" => r.chunks # <<>>

\* A reply that has come whole is answered: check_end sees at once that it is
\* whole, so the client neither waits for a byte that does not come nor fails
\* because of what the peer does then, however the reply was cut into pieces.
WholeReplyIsAnswered ==
  coming = <<>> /\ reply.head # "bare" /\ Recognised(reply) =>
    phase = "done" \/ (phase = "body" /\ Ended)
=============================================================================
