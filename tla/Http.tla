-------------------------------- MODULE Http --------------------------------
(***************************************************************************)
(* The HTTP client that fetches a firmware image: utils_httpc.c, under the *)
(* fetch channel of the OTA client (ota_fetch.c, IOT_OTA_FetchYield) and   *)
(* over the TCP or TLS transport of the SDK.                               *)
(*                                                                         *)
(* The server's answer is a sequence of tokens, each the length of a byte: *)
(* the beginning and the end of the status line, the end of the header,    *)
(* the bytes of the file (numbered from 1) and, when the body is chunked,  *)
(* the size lines.  Only the bytes the buffers hold and the positions the  *)
(* code computes matter, so the buffers are a few tokens long.  A URL, and *)
(* the request, are sequences of parts.                                    *)
(***************************************************************************)
EXTENDS Integers, SequencesExt

CONSTANTS
  FileLen,       \* tokens of the image
  SECTOR,        \* SPI_FLASH_SEC_SIZE: a download resumes at a sector
  CHUNK_SIZE,    \* HTTP_CLIENT_CHUNK_SIZE
  BufLen,        \* OTA_BUF_LEN, the caller's response_buf_len
  SEND_BUF_SIZE, \* HTTP_CLIENT_SEND_BUF_SIZE
  Urls,          \* of images: text, and the host and the path it means
  Lengths,       \* of the header fields, and of the empty line
  Codes,         \* subset of {"ok", "denied", "page"}: 2xx; 403 and 404; others
  Framings,      \* subset of {"length", "chunked", "other", "absent"}
  PieceLen,      \* tokens the server puts in a chunk
  MaxFaults      \* bound: stalls, broken connections, partial writes

ASSUME HttpAssumption ==
  /\ FileLen \in Nat \ {0} /\ SECTOR \in Nat \ {0} /\ PieceLen \in Nat \ {0}
  /\ MaxFaults \in Nat
  /\ CHUNK_SIZE \in Nat /\ CHUNK_SIZE > 3
  /\ BufLen \in Nat /\ BufLen > CHUNK_SIZE
  /\ Codes \subseteq {"ok", "denied", "page"}
  /\ Framings \subseteq {"length", "chunked", "other", "absent"}
  /\ Lengths \in Seq(Nat) /\ SEND_BUF_SIZE \in Nat
  /\ \A u \in Urls : /\ "://" \in ToSet(u.text)
                     /\ SEND_BUF_SIZE > Len(u.path) + Len(u.host) + 2

CR == -1  LF == -2  Part == -3  Status == -4  End == -5  Junk == -6
SizeLine(n) == -10 - n

VARIABLES
  server,    \* how it answers: code, framing, whether it closes afterwards
  url,       \* of the image
  handle,    \* of the network stack: 0 or 1
  sent,      \* what the server received of the request
  line,      \* the rest of the answer
  closing,   \* the server closes the connection after the answer
  pc,
  http,      \* HTTPClientData: is_more, is_chunked, retrieve_len, content_len
  data,      \* the local buffer of _http_client_recv_response, up to len
  out,       \* the caller's response_buf, up to count
  readLen,   \* bytes of the body, or of the chunk, to be copied
  diff,      \* content_len - retrieve_len at the beginning of the fetch
  late,      \* the timer of this fetch has expired
  got,       \* what the caller wrote to flash
  misused,   \* a transport was called with a handle it had closed
  faults

netVars   == <<handle, sent, line, closing>>
fetchVars == <<http, data, out, readLen, diff, late>>
envVars   == <<server, url>>
vars == <<envVars, netVars, pc, fetchVars, got, misused, faults>>

Drop(s, n) == SubSeq(s, n + 1, Len(s))
Take(s, n) == SubSeq(s, 1, n)
NoData == [is_more |-> FALSE, is_chunked |-> FALSE, retrieve_len |-> 0,
           content_len |-> 0]

Init ==
  /\ server \in [code : Codes, framing : Framings, closes : BOOLEAN]
  /\ url \in Urls
  /\ handle = 0 /\ sent = <<>> /\ line = <<>> /\ closing = FALSE
  /\ pc = "off" /\ http = NoData
  /\ data = <<>> /\ out = <<>> /\ readLen = 0 /\ diff = 0 /\ late = FALSE
  /\ got = <<>> /\ misused = FALSE /\ faults = 0

Faulty(b) == IF b THEN faults < MaxFaults /\ faults' = faults + 1
                  ELSE UNCHANGED faults

-----------------------------------------------------------------------------
(***************************************************************************)
(* The request.                                                            *)
(***************************************************************************)
Positions(text, part, from) == {i \in from .. Len(text) : text[i] = part}

\* Where the host begins, and the path, or where the text ends.
host_ptr(text) == Min(Positions(text, "://", 1)) + 1
path_ptr(text) == Min(Positions(text, "/", host_ptr(text)) \cup {Len(text) + 1})

parse_host(text) == SubSeq(text, host_ptr(text), path_ptr(text) - 1)

\* The path of a URL without one is "/"; a fragment is cut off.
parse_url(text) ==
  LET fragment == Min(Positions(text, "#", host_ptr(text)) \cup {Len(text) + 1})
  IN  [host |-> parse_host(text),
       path |-> IF path_ptr(text) > Len(text) THEN <<"/">>
                ELSE SubSeq(text, path_ptr(text), fragment - 1)]

is_begin_with(text, scheme) == text[1] = scheme

\* qcloud_ofc_connect: port 443 and TLS.
Secure == is_begin_with(url.text, "https")

\* The request line with the host, the header fields, the empty line.
Sections(u) ==
  <<<<"GET">> \o u.path \o <<"Host:">> \o u.host>>
  \o [s \in DOMAIN Lengths |-> [j \in 1 .. Lengths[s] |-> ToString(10 * s + j)]]

\* What the server is to be asked.
Request == FlattenSeq(Sections(url))

\* _http_client_get_info: a section is gathered in the send buffer; a buffer
\* that gets full is written, but then the index is not set back and the rest
\* of the section is not copied.
GetInfo(m, section) ==
  LET room == SEND_BUF_SIZE - m.idx
      n    == Min({room, Len(section)})
      buf  == [i \in 1 .. SEND_BUF_SIZE |->
                 IF i - m.idx \in 1 .. n THEN section[i - m.idx] ELSE m.buf[i]]
  IN  IF n < room
      THEN [m EXCEPT !.buf = buf, !.idx = @ + n]
      ELSE [m EXCEPT !.buf = buf, !.wire = @ \o buf]

Gathered == [u \in Urls |->
  FoldLeft(GetInfo,
           [buf |-> [i \in 1 .. SEND_BUF_SIZE |-> ""], idx |-> 0, wire |-> <<>>],
           Sections(parse_url(u.text)))]

\* What the server sends for the part of the file that begins at from.
BodyFrom(from) == IF server.code = "ok"
                  THEN [i \in 1 .. FileLen - from |-> from + i] ELSE <<Junk>>
LastChunk == <<SizeLine(0), CR, LF, CR, LF>>
Chunks(body) ==
  LET count == (Len(body) + PieceLen - 1) \div PieceLen
      size(k) == Min({PieceLen, Len(body) - PieceLen * k})
      token(k, o) == CASE o = 0 -> SizeLine(size(k))
                       [] o \in {1, size(k) + 3} -> CR
                       [] o \in {2, size(k) + 4} -> LF
                       [] OTHER -> body[PieceLen * k + o - 2]
  IN  [i \in 1 .. Len(body) + 5 * count |->
         token((i - 1) \div (PieceLen + 5), (i - 1) % (PieceLen + 5))]
      \o LastChunk
Answer(from) ==
  <<Part, Status, End>> \o
  (IF server.framing = "chunked" THEN Chunks(BodyFrom(from)) ELSE BodyFrom(from))

Resume == (Len(got) \div SECTOR) * SECTOR

\* It reached the server it was meant for, as it was meant.
Understood(request) ==
  parse_host(url.text) = url.host /\ request = Request

\* dooya_qcloud_ota_deal up to the erase: ofc_Init clears the client and
\* qcloud_http_client_common connects and sends the request, which counts as
\* sent when part of it was written.  A server that cannot read the request
\* closes the connection.
StartDownload ==
  /\ pc = "off"
  /\ got' = Take(got, Resume)
  /\ http' = NoData /\ data' = <<>> /\ out' = <<>> /\ readLen' = 0
  /\ diff' = 0 /\ late' = FALSE
  /\ LET m == Gathered[url] IN
     \E written \in 0 .. m.idx :
       /\ Faulty(written < m.idx)
       /\ sent' = m.wire \o Take(m.buf, written)
       /\ line' = IF Understood(sent') THEN Answer(Resume) ELSE <<>>
       /\ closing' = (server.closes \/ ~Understood(sent'))
       /\ handle' = IF written = 0 THEN 0 ELSE 1
       /\ pc' = IF written = 0 THEN "failed" ELSE "fetch"
  /\ UNCHANGED <<envVars, misused>>

\* The OTA task gives up and the device restarts; flash keeps what was
\* written.
Restart ==
  /\ pc = "failed"
  /\ pc' = "off" /\ handle' = 0
  /\ UNCHANGED <<envVars, sent, line, closing, fetchVars, got, misused, faults>>

-----------------------------------------------------------------------------
(***************************************************************************)
(* Reading.  An outcome of the transport's read: the tokens read, whether  *)
(* the result is "in time", "stalled", "shut" or "broken", and whether it  *)
(* takes a fault to happen.                                                *)
(***************************************************************************)
Outcome(n, rc, fault) == [n |-> n, rc |-> rc, fault |-> fault]
AtMost(max) == Min({max, Len(line)})

\* HAL_TCP_Read waits for max bytes, which may come in the very moment its
\* time is up; with its time used up it reads nothing.  A server may die in the
\* middle of its answer, which ends the stream as well.
TcpReads(max) ==
  IF late /\ max > 0 THEN {Outcome(0, "stalled", FALSE)}
  ELSE (IF max <= Len(line)
        THEN {Outcome(max, "read", FALSE)}
        ELSE {Outcome(n, "stalled", closing \/ n < Len(line)) :
                n \in 0 .. Len(line)}
             \cup (IF closing THEN {Outcome(Len(line), "shut", FALSE)} ELSE {}))
       \cup {Outcome(n, "stalled", TRUE) : n \in 0 .. AtMost(max)}
       \cup {Outcome(n, "shut", TRUE) : n \in 0 .. AtMost(max - 1)}
       \cup {Outcome(0, "broken", TRUE)}

\* HAL_TLS_Read: it tries once more when its time is used up, and it fails at
\* the end of the stream whatever it had read before.
TlsReads(max) ==
  (IF max <= Len(line) THEN {Outcome(max, "read", FALSE)} ELSE {})
  \cup {Outcome(n, "stalled", ~late /\ (closing \/ n < Len(line) \/ n = max)) :
          n \in 0 .. AtMost(max)}
  \cup (IF closing /\ Len(line) < max
        THEN {Outcome(Len(line), "broken", FALSE)} ELSE {})
  \cup {Outcome(0, "broken", TRUE)}

HalRead(max) ==
  IF handle = 0 THEN {Outcome(0, "broken", FALSE)}
  ELSE IF Secure THEN TlsReads(max) ELSE TcpReads(max)

\* The fetch ends with an error: qcloud_http_recv_data closes the connection.
Fail ==
  /\ handle' = 0 /\ pc' = "failed"
  /\ UNCHANGED <<http, data, out, readLen, got>>

\* qcloud_ofc_fetch: the result is the progress of retrieve_len; a negative
\* one is an error with the connection still open.  FetchYield counts and the
\* caller writes that many tokens of the buffer.
Return(h, buf) ==
  LET n == h.content_len - h.retrieve_len - diff
      written == [i \in 1 .. n |-> IF i \in DOMAIN buf THEN buf[i] ELSE Junk]
  IN  /\ http' = h /\ out' = buf
      /\ got' = IF n < 0 THEN got ELSE got \o written
      /\ pc' = IF n < 0 THEN "failed"
               ELSE IF Len(got') >= FileLen THEN "done" ELSE "fetch"
      /\ UNCHANGED <<data, readLen>>

\* Mutant: a server that closed the connection after its last bytes is an
\* error as well.
ReceivedUnlessShut(r) == r.rc # "broken" /\ r.rc # "shut"

\* _http_client_recv: a stall is a success, however much was read, and so is
\* the end of the stream after some bytes, when the connection is closed.
Received(r) == r.rc # "broken" /\ (r.rc = "shut" => r.n > 0)

\* The read itself; what follows it is up to the caller.
Recv(r) ==
  /\ Faulty(r.fault)
  /\ late' = (late \/ r.rc = "stalled")
  /\ line' = Drop(line, r.n)
  /\ misused' = (misused \/ handle = 0)
  /\ UNCHANGED <<envVars, sent, closing, diff>>
Tokens(r) == Take(line, r.n)
HandleAfter(r) == handle' = IF r.rc = "shut" THEN 0 ELSE handle

NoRead == UNCHANGED <<envVars, sent, line, closing, late, diff, misused, faults>>

-----------------------------------------------------------------------------
(***************************************************************************)
(* _http_client_recv_response and _http_client_response_parse.             *)
(***************************************************************************)
Entry(h) == IF h.content_len = -1 /\ ~h.is_chunked THEN "plain" ELSE "top"

\* IOT_OTA_FetchYield begins.
Fetch ==
  /\ pc = "fetch"
  /\ late' = FALSE /\ diff' = http.content_len - http.retrieve_len
  /\ IF handle = 0 THEN pc' = "failed" /\ UNCHANGED <<http, data, out>>
     ELSE /\ out' = <<>> /\ data' = <<>>
          /\ http' = [http EXCEPT !.is_more = TRUE]
          /\ pc' = IF http.is_more THEN Entry(http) ELSE "head"
  /\ UNCHANGED <<envVars, netVars, readLen, got, misused, faults>>

ReadResponse ==
  /\ pc = "head"
  /\ \E r \in HalRead(CHUNK_SIZE - 1) :
       /\ Recv(r)
       /\ IF ~Received(r) THEN Fail
          ELSE IF r.n = 0 THEN HandleAfter(r) /\ Return(http, out)
          ELSE /\ HandleAfter(r) /\ pc' = "parse" /\ data' = Tokens(r)
               /\ UNCHANGED <<http, out, readLen, got>>

ParseStatus ==
  /\ pc = "parse" /\ NoRead
  /\ IF Status \notin ToSet(data) \/ server.code = "denied" THEN Fail
     ELSE /\ data' = Drop(data, 2)
          /\ http' = [http EXCEPT !.content_len = -1, !.is_chunked = FALSE]
          /\ pc' = IF End \in ToSet(data) THEN "frame" ELSE "header"
          /\ UNCHANGED <<handle, out, readLen, got>>

\* One more read is made for the end of the header.
ReadHeader ==
  /\ pc = "header"
  /\ \E r \in HalRead(CHUNK_SIZE - Len(data) - 1) :
       /\ Recv(r)
       /\ IF ~Received(r) \/ End \notin ToSet(Tokens(r)) THEN Fail
          ELSE /\ HandleAfter(r) /\ pc' = "frame" /\ data' = data \o Tokens(r)
               /\ UNCHANGED <<http, out, readLen, got>>

\* Content-Length; Transfer-Encoding, which counts as chunked only where it is
\* the first field; another one; or neither.
Framed(framing) ==
  CASE framing = "length" -> [http EXCEPT !.content_len = Len(BodyFrom(Len(got))),
                                          !.retrieve_len = Len(BodyFrom(Len(got)))]
    [] framing = "chunked" -> [http EXCEPT !.is_chunked = TRUE,
                                           !.content_len = 0, !.retrieve_len = 0]
    [] OTHER -> http

ParseHeader ==
  /\ pc = "frame" /\ NoRead
  /\ IF server.framing = "absent" THEN Fail
     ELSE /\ http' = Framed(server.framing)
          /\ data' = Drop(data, 1)
          /\ pc' = Entry(http')
          /\ UNCHANGED <<handle, out, readLen, got>>

-----------------------------------------------------------------------------
(***************************************************************************)
(* _http_client_retrieve_content.                                          *)
(***************************************************************************)
Room(buf) == BufLen - 1 - Len(buf)

\* A body of unknown length is read until nothing more comes.
Plain ==
  /\ pc = "plain"
  /\ IF Len(data) >= Room(out)
     THEN NoRead /\ UNCHANGED handle /\ Return(http, out \o Take(data, Room(out)))
     ELSE \E r \in HalRead(Min({CHUNK_SIZE - 1, Room(out \o data)})) :
            /\ Recv(r)
            /\ IF ~Received(r) \/ late' THEN Fail
               ELSE /\ HandleAfter(r) /\ out' = out \o data
                    /\ data' = Tokens(r)
                    /\ UNCHANGED <<http, pc, readLen, got>>

\* The size line of a chunk, when a chunk is due.  It is found only if another
\* byte follows it, and it is looked for without regard to the timer.
SizeLineEnds == {i \in 1 .. Len(data) - 2 : data[i] = CR /\ data[i + 1] = LF}
SizeRead == IF data[1] <= SizeLine(0) THEN SizeLine(0) - data[1] ELSE 0
ChunkDue == http.is_chunked /\ http.retrieve_len <= 0

ReadSizeLine ==
  /\ pc = "top" /\ ChunkDue /\ SizeLineEnds = {}
  /\ \E r \in HalRead(CHUNK_SIZE - Len(data) - 1) :
       /\ Recv(r)
       /\ IF ~Received(r) THEN Fail
          ELSE /\ HandleAfter(r) /\ data' = data \o Tokens(r)
               /\ UNCHANGED <<http, pc, out, readLen, got>>

\* The last chunk, of size zero, is reported as an error.
ParseSizeLine ==
  /\ pc = "top" /\ ChunkDue /\ SizeLineEnds # {} /\ NoRead
  /\ IF SizeRead = 0 THEN Fail
     ELSE /\ data' = Drop(data, Min(SizeLineEnds) + 1)
          /\ http' = [http EXCEPT !.retrieve_len = SizeRead,
                                  !.content_len = @ + SizeRead]
          /\ readLen' = SizeRead /\ pc' = "copy"
          /\ UNCHANGED <<handle, out, got>>

Top ==
  /\ pc = "top" /\ ~ChunkDue /\ NoRead
  /\ readLen' = http.retrieve_len /\ pc' = "copy"
  /\ UNCHANGED <<handle, http, data, out, got>>

\* Mutant: what is copied to the full buffer is not counted.
CopyUncounted ==
  /\ pc = "copy" /\ NoRead /\ UNCHANGED handle
  /\ LET n    == Min({Len(data), readLen})
         h    == [http EXCEPT !.retrieve_len = @ - n]
         buf  == out \o Take(data, n)
         left == readLen - Min({Len(data), readLen})
     IN  IF n >= Room(out) THEN Return(http, out \o Take(data, Room(out)))
         ELSE IF left = 0 /\ ~h.is_chunked
         THEN Return([h EXCEPT !.is_more = FALSE], buf)
         ELSE /\ http' = h /\ out' = buf /\ readLen' = left
              /\ data' = IF Len(data) > readLen THEN Drop(data, readLen) ELSE data
              /\ pc' = IF left > 0 THEN "more" ELSE "tail"
              /\ UNCHANGED got

\* The buffer is full (whatever is left in data is lost when the function
\* returns), or the body is complete, or more must be read, or a chunk ends;
\* a chunk that ends with the data leaves len as it is.
Copy ==
  /\ pc = "copy" /\ NoRead /\ UNCHANGED handle
  /\ LET n    == Min({Len(data), readLen, Room(out)})
         h    == [http EXCEPT !.retrieve_len = @ - n]
         buf  == out \o Take(data, n)
         left == readLen - n
     IN  IF n = Room(out) THEN Return(h, buf)
         ELSE IF left = 0 /\ ~h.is_chunked
         THEN Return([h EXCEPT !.is_more = FALSE], buf)
         ELSE /\ http' = h /\ out' = buf /\ readLen' = left
              /\ data' = IF Len(data) > readLen THEN Drop(data, readLen) ELSE data
              /\ pc' = IF left > 0 THEN "more" ELSE "tail"
              /\ UNCHANGED got

\* Mutant: the room left in the caller's buffer is not looked at.
MostToReadNow == Min({CHUNK_SIZE - 1, readLen})

MostToRead == Min({CHUNK_SIZE - 1, Room(out), readLen})

ReadMore ==
  /\ pc = "more"
  /\ \E r \in HalRead(MostToRead) :
       /\ Recv(r)
       /\ IF ~Received(r) \/ late' THEN Fail
          ELSE /\ HandleAfter(r) /\ pc' = "copy" /\ data' = Tokens(r)
               /\ UNCHANGED <<http, out, readLen, got>>

\* The line end after a chunk; the function returns without an error when the
\* time is up.
EndsChunk(d) == Len(d) >= 2 /\ d[1] = CR /\ d[2] = LF
NextChunk(d) == IF ~EndsChunk(d) THEN Fail
                ELSE /\ data' = Drop(d, 2) /\ pc' = "top"
                     /\ UNCHANGED <<http, out, readLen, got>>

ChunkEnd ==
  /\ pc = "tail"
  /\ IF Len(data) >= 2
     THEN NoRead /\ NextChunk(data) /\ (EndsChunk(data) => UNCHANGED handle)
     ELSE \E r \in HalRead(CHUNK_SIZE - Len(data) - 1) :
            /\ Recv(r)
            /\ IF ~Received(r) THEN Fail
               ELSE IF late' THEN HandleAfter(r) /\ Return(http, out)
               ELSE /\ NextChunk(data \o Tokens(r))
                    /\ EndsChunk(data \o Tokens(r)) => HandleAfter(r)

-----------------------------------------------------------------------------
Next ==
  \/ StartDownload \/ Restart
  \/ Fetch \/ ReadResponse \/ ParseStatus \/ ReadHeader \/ ParseHeader
  \/ Plain \/ ReadSizeLine \/ ParseSizeLine \/ Top \/ Copy \/ ReadMore
  \/ ChunkEnd

Spec == Init /\ [][Next]_vars

\* The task runs, and every read ends by its time-out at the latest.
FairSpec == Spec /\ WF_vars(Next)

-----------------------------------------------------------------------------
(***************************************************************************)
(* Properties.                                                             *)
(***************************************************************************)
Plainly == server.code = "ok" /\ server.framing = "length"

\* The variables keep their types, and neither buffer is written past its end.
TypeOK ==
  /\ handle \in {0, 1} /\ faults \in 0 .. MaxFaults
  /\ Len(data) < CHUNK_SIZE /\ Len(out) < BufLen
  /\ http.is_more \in BOOLEAN /\ http.is_chunked \in BOOLEAN
  /\ readLen \in 0 .. FileLen /\ http.retrieve_len \in 0 .. FileLen
  /\ late \in BOOLEAN /\ misused \in BOOLEAN

\* Whatever stalls, breaks and resumes, what the caller wrote to flash is the
\* beginning of the file: no byte is lost where one buffer is filled and the
\* next is begun, none is counted twice, none is stale.
BodyIntact == Plainly => \A i \in DOMAIN got : got[i] = i

\* A file sent with its length is downloaded in the end: each failure leaves
\* the download where it can be resumed.  A TLS server that closes the
\* connection after its answer is left out: see DownloadCompletesTls.
DownloadCompletes == Plainly /\ ~(Secure /\ server.closes) => <>(pc = "done")

-----------------------------------------------------------------------------
(***************************************************************************)
(* Statements that do not hold, for the experiments of the README.         *)
(***************************************************************************)

\* The same of a TLS server that closes the connection: the last bytes of the
\* answer are thrown away with the end of the stream, at every attempt.
DownloadCompletesTls == Plainly => <>(pc = "done")

\* Every fetch ends by its time-out: the size line of a chunk is waited for
\* beyond it.
FetchEnds == late ~> pc \in {"fetch", "failed", "done"}

\* The server gets the request as it was composed, or the beginning of it: not
\* so for one that fills the send buffer.
RequestIntact == IsPrefix(sent, Request)

\* A transport is not called with a handle it has closed.
NoStaleHandle == ~misused

\* An error page is not written to flash.
NoPage == \A i \in DOMAIN got : got[i] # Junk
=============================================================================
