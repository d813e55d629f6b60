------------------------------ MODULE TlsRing ------------------------------
(***************************************************************************)
(* The TLS load programs: a client and a server on nbio echo one message   *)
(* for ever.  The client of tls_bench decrypts with wrapData, a loop that  *)
(* leaves off at the first Read which does not fill its buffer, and cuts   *)
(* the bytes into messages again; the client of tls compares what it gets  *)
(* with "hello world" and closes the connection if it differs; client_std  *)
(* of tls_bench reads a whole message before it writes the next.  A record *)
(* is the number of bytes it carries.                                      *)
(***************************************************************************)
EXTENDS Naturals, Sequences, SequencesExt

CONSTANTS bufsize,      \* bytes of a message
          BufferLen     \* wrapData's buffer

(* A Read never fills wrapData's buffer, 2048: a message has 64 bytes. *)
ASSUME MessageIsSmall == bufsize \in Nat \ {0} /\ BufferLen \in Nat /\ bufsize < BufferLen

VARIABLES ring,         \* which client: tls_bench, tls or client_std
          version,      \* of TLS: 1.0 or a later one
          link,         \* where the client's goroutine stands
          toEcho,       \* records on the way to the server
          toRing,       \* records on the way to the client
          raw,          \* records appended to the client's tls.Conn, not yet read
          Buffer        \* bytes of an incomplete message: Session.Buffer

ringVars == <<ring, version, link, toEcho, toRing, raw, Buffer>>

Records == Seq(1..bufsize)

(* Records that carry a message, from its byte begin on to its end: where  *)
(* each of them ends is where the next one begins.                         *)
Positions == 0..bufsize
Cuts(cut, records, begin) ==
    /\ cut[0] = begin /\ cut[Len(records)] = bufsize
    /\ \A i \in 1..Len(records) : cut[i] = cut[i - 1] + records[i]
Carry(records, begin) == \E cut \in [0..Len(records) -> Positions] : Cuts(cut, records, begin)

TlsRingTypeOK ==
    /\ ring \in {"tls_bench", "tls", "client_std"} /\ version \in {"1.0", "later"}
    /\ link \in {"dial", "added", "written", "closed"}
    /\ toEcho \in Records /\ toRing \in Records /\ raw \in Records /\ Buffer \in 0..(bufsize - 1)

(* The configs: tls_bench's client has left TLS 1.0 out ("sth wrong with   *)
(* TLS 1.0"), client_std has not, and tls takes what the library prefers.  *)
Versions(client) == IF client = "client_std" THEN {"1.0", "later"} ELSE {"later"}

TlsRingInit ==
    /\ ring \in {"tls_bench", "tls", "client_std"} /\ version \in Versions(ring) /\ link = "dial"
    /\ toEcho = <<>> /\ toRing = <<>> /\ raw = <<>> /\ Buffer = 0

-----------------------------------------------------------------------------
(* A Write of TLS 1.0 makes a record of the first byte and one of the rest,*)
(* a Write of the later versions one record.                               *)
RecordsOf(n) == IF version = "1.0" /\ n > 1 THEN <<1, n - 1>> ELSE <<n>>

(* The goroutine: Dial with its handshake, SetSession and AddConn, *)
RingConnects ==
    /\ link = "dial" /\ link' = "added"
    /\ UNCHANGED <<ring, version, toEcho, toRing, raw, Buffer>>

(* and the first message. *)
RingWrites ==
    /\ link = "added" /\ link' = "written" /\ toEcho' = RecordsOf(bufsize)
    /\ UNCHANGED <<ring, version, toRing, raw, Buffer>>

(* The servers' OnData, wrapped by the library: a record is read and its   *)
(* bytes are written.                                                      *)
RingEcho ==
    /\ toEcho # <<>> /\ link # "closed"
    /\ toEcho' = Tail(toEcho) /\ toRing' = toRing \o RecordsOf(Head(toEcho))
    /\ UNCHANGED <<ring, version, link, raw, Buffer>>

(* OnData of tls_bench: as many messages as the buffer holds, and a rest. *)
TakeMessages(n) == [messages |-> n \div bufsize, rest |-> n % bufsize]

(* wrapData: what has arrived is appended; Read returns the first record,  *)
(* and as that does not fill the buffer the loop returns.  OnData writes   *)
(* every complete message.                                                 *)
wrapData ==
    /\ ring = "tls_bench" /\ link # "closed"
    /\ \E k \in 1..Len(toRing) :
          /\ toRing' = SubSeq(toRing, k + 1, Len(toRing))
          /\ \E all \in {raw \o SubSeq(toRing, 1, k)} :
                /\ raw' = Tail(all)
                /\ \E taken \in {TakeMessages(Buffer + Head(all))} :
                      /\ Buffer' = taken.rest
                      /\ toEcho' = toEcho \o FlattenSeq([m \in 1..taken.messages |-> RecordsOf(bufsize)])
    /\ UNCHANGED <<ring, version, link>>

(* The client of tls: a record that is not the whole message closes. *)
HelloOnData ==
    /\ ring = "tls" /\ link # "closed" /\ toRing # <<>> /\ toRing' = Tail(toRing)
    /\ IF Head(toRing) = bufsize THEN toEcho' = toEcho \o RecordsOf(bufsize) /\ UNCHANGED link
                                 ELSE link' = "closed" /\ UNCHANGED toEcho
    /\ UNCHANGED <<ring, version, raw, Buffer>>

(* client_std: ReadFull, and once the message is whole the next Write. *)
StdReadFull ==
    /\ ring = "client_std" /\ toRing # <<>> /\ toRing' = Tail(toRing)
    /\ IF Buffer + Head(toRing) < bufsize
       THEN Buffer' = Buffer + Head(toRing) /\ UNCHANGED toEcho
       ELSE Buffer' = 0 /\ toEcho' = toEcho \o RecordsOf(bufsize)
    /\ UNCHANGED <<ring, version, link, raw>>

TlsRingNext == RingConnects \/ RingWrites \/ RingEcho \/ wrapData \/ HelloOnData \/ StdReadFull

-----------------------------------------------------------------------------
(* Nothing is lost, made or put in another order: what the client has not  *)
(* read of one message is in its library, on the way to it or on the way   *)
(* to the server.                                                          *)
OneMessageRound == link = "written" => Carry(raw \o toRing \o toEcho, Buffer)

(* wrapData leaves off after one record.  That is enough as long as no     *)
(* message has a second one: no record waits for an event that does not    *)
(* come, and the client of tls is never given a part of its message.       *)
NothingLeftRaw == raw = <<>> /\ link # "closed"

(* The message goes round for ever. *)
RingGoes == toEcho # <<>>
RingComes == toRing # <<>>
=============================================================================
