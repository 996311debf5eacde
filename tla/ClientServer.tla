----------------------------- MODULE ClientServer -----------------------------
(***************************************************************************)
(* One client connection, from the client library (mysql_proxy_api.cpp) to *)
(* the thread that serves it (Worker and ParsePacket of                    *)
(* mysql_proxy_server.cpp) and back.                                       *)
(*                                                                         *)
(* TCP hands the bytes on in pieces of any size.  A packet is a sequence   *)
(* of units: the first is its 16-byte header, with the start token and the *)
(* length, the others are its contents.  The client's socket is            *)
(* non-blocking when it has a timeout, and send may then take only a part  *)
(* of a request, which SendRequest does not notice.                        *)
(***************************************************************************)
EXTENDS Integers, Sequences, FiniteSetsExt, SequencesExt

CONSTANTS
  RequestLens,   \* lengths of requests, in units
  ResponseLens,  \* lengths of responses
  MaxRequest,    \* MAX_REQUEST_PACKET_LENGTH
  MaxResponse,   \* MAX_RESPONSE_PACKET_LENGTH
  MaxQueries     \* bound: queries on the connection

VARIABLES
  timed,     \* whether the connection has a timeout
  my,        \* the MYSQL handle, and the locals of the query under way
  toServer, toClient,  \* bytes in flight, in either direction
  worker,    \* the thread that serves the connection: place and reqstr
  asked,     \* history: the length of the last request
  amiss,     \* history: a query was given up or was not sent whole
  mute       \* history: it was handled, and no answer sent

clientVars == <<timed, my, toServer, toClient, worker, asked, amiss, mute>>

Packet(seq, err, len) ==
  [i \in 1 .. len |-> [head |-> i = 1, seq |-> seq, err |-> err, len |-> len]]

-----------------------------------------------------------------------------

(* Bytes are skipped up to a start token, past the header of a packet that *)
(* is too long and not all there, as long as there are more than a header  *)
(* needs.                                                                  *)
Stops(buf, max, k) ==
  \/ k >= Len(buf)
  \/ buf[k].head /\ (k + buf[k].len - 1 <= Len(buf) \/ buf[k].len <= max)
Skip(buf, max) ==
  SubSeq(buf, Min({k \in 1 .. Len(buf) + 1 : Stops(buf, max, k)}), Len(buf))

Whole(buf) == Len(buf) > 1 /\ buf[1].head /\ buf[1].len <= Len(buf)
After(buf) == SubSeq(buf, buf[1].len + 1, Len(buf))

(* The contents are what was sent, not the beginning of one packet and a   *)
(* piece of the next.                                                      *)
Intact(buf) == \A i \in 2 .. buf[1].len : buf[i].seq = buf[1].seq /\ ~ buf[i].head

-----------------------------------------------------------------------------
ClientInit ==
  /\ timed \in BOOLEAN
  /\ my = [pc |-> "closed", seq |-> 0, rspstr |-> << >>, got |-> 0, ret |-> "none"]
  /\ toServer = << >> /\ toClient = << >> /\ worker = [pc |-> "none", reqstr |-> << >>]
  /\ asked = 0 /\ amiss = FALSE /\ mute = FALSE

(* mysql_proxy_connect: connect succeeds before main accepts.              *)
Connect ==
  /\ my.pc = "closed" /\ worker.pc = "none"
  /\ my' = [my EXCEPT !.pc = "ready"] /\ worker' = [worker EXCEPT !.pc = "backlog"]
  /\ UNCHANGED <<timed, toServer, toClient, asked, amiss, mute>>

(* main accepts the connection, now or when accept works again: it closes  *)
(* it because of the traffic, or starts a thread for it.  Errors of        *)
(* pthread_create are positive and main tests for negative ones, so that a *)
(* connection for which it failed stays open and nobody reads it.          *)
Accept ==
  /\ worker.pc = "backlog"
  /\ \E pc \in {"recv", "closed", "unserved"} : worker' = [worker EXCEPT !.pc = pc]
  /\ toServer' = IF worker'.pc = "closed" THEN << >> ELSE toServer
  /\ UNCHANGED <<timed, my, toClient, asked, amiss, mute>>

(* mysql_proxy_real_query.  The sequence number goes up even when nothing  *)
(* is sent.                                                                *)
Query(len, n) ==
  LET seq == my.seq + 1
      whole == n = len \/ worker.pc = "closed"
  IN
  /\ my.pc = "ready" /\ seq <= MaxQueries
  /\ n \in 0 .. len /\ (timed \/ n = len)
  /\ my' = [my EXCEPT !.pc = "wait", !.seq = seq, !.rspstr = << >>, !.ret = "none"]
  /\ toServer' = IF worker.pc = "closed" THEN toServer
                 ELSE toServer \o SubSeq(Packet(seq, FALSE, len), 1, n)
  /\ asked' = len /\ mute' = FALSE /\ amiss' = (amiss \/ ~ whole)
  /\ UNCHANGED <<timed, toClient, worker>>

Done(seq, ret) == [my EXCEPT !.pc = "ready", !.rspstr = << >>, !.got = seq, !.ret = ret]

(* send fails: the query ends with an error at once.                       *)
QueryUnsent(len) ==
  /\ my.pc = "ready" /\ my.seq < MaxQueries /\ worker.pc = "closed"
  /\ my' = [Done(my.got, "error") EXCEPT !.seq = @ + 1]
  /\ asked' = len /\ mute' = FALSE
  /\ UNCHANGED <<timed, toServer, toClient, worker, amiss>>

(* Mutant of Recv: the bytes that have been read can be read again.        *)
RecvPeek(n) ==
  LET buf == Skip(my.rspstr \o SubSeq(toClient, 1, n), MaxResponse) IN
  /\ my.pc = "wait" /\ n \in 1 .. Len(toClient)
  /\ my' = IF ~ Whole(buf) THEN [my EXCEPT !.rspstr = << >>]
           ELSE Done(buf[1].seq, IF buf[1].err THEN "error" ELSE "ok")
  /\ UNCHANGED <<timed, toServer, toClient, worker, asked, amiss, mute>>

(* recv and ParsePacket.  The first packet ends the query, whatever its    *)
(* sequence number, and with the query the rest of rspstr is gone.  What   *)
(* arrives is a response or the rest of one, so that a packet which cannot *)
(* be read does not occur.                                                 *)
Recv(n) ==
  LET buf == Skip(my.rspstr \o SubSeq(toClient, 1, n), MaxResponse) IN
  /\ my.pc = "wait" /\ n \in 1 .. Len(toClient)
  /\ toClient' = SubSeq(toClient, n + 1, Len(toClient))
  /\ my' = IF ~ Whole(buf) THEN [my EXCEPT !.rspstr = buf]
           ELSE Done(buf[1].seq, IF buf[1].err THEN "error" ELSE "ok")
  /\ UNCHANGED <<timed, toServer, worker, asked, amiss, mute>>

(* CR_SERVER_GONE_ERROR, while the answer may still come: the socket stays *)
(* open.  select and recv also return when a signal interrupts them.       *)
GiveUp ==
  /\ my.pc = "wait" /\ my' = Done(my.got, "gone") /\ amiss' = TRUE
  /\ UNCHANGED <<timed, toServer, toClient, worker, asked, mute>>
Timeout == timed /\ GiveUp
Interrupted == GiveUp
PeerClosed ==
  /\ my.pc = "wait" /\ worker.pc = "closed" /\ toClient = << >>
  /\ my' = Done(my.got, "gone")
  /\ UNCHANGED <<timed, toServer, toClient, worker, asked, amiss, mute>>

Close ==
  /\ my.pc = "ready" /\ my' = [my EXCEPT !.pc = "gone"]
  /\ UNCHANGED <<timed, toServer, toClient, worker, asked, amiss, mute>>

-----------------------------------------------------------------------------
(* Worker.                                                                 *)
WorkerRecv(n) ==
  /\ worker.pc = "recv" /\ n \in 1 .. Len(toServer)
  /\ toServer' = SubSeq(toServer, n + 1, Len(toServer))
  /\ worker' = [pc |-> "parse", reqstr |-> worker.reqstr \o SubSeq(toServer, 1, n)]
  /\ UNCHANGED <<timed, my, toClient, asked, amiss, mute>>

(* Mutant of SendResponse: the answer follows the error message.           *)
SendResponseTwice(seq, err, len) ==
  /\ toClient' = IF my.pc = "gone" THEN toClient
                 ELSE toClient \o Packet(seq, TRUE, len) \o Packet(seq, err, len)
  /\ UNCHANGED mute

(* The answer is sent; or there is none, because NewTree, Serialize or     *)
(* send failed, which is only logged.  A send that does not fail takes the *)
(* whole answer, since the server's sockets block.                         *)
SendResponse(seq, err, len) ==
  \/ /\ toClient' = IF my.pc = "gone" THEN toClient ELSE toClient \o Packet(seq, err, len)
     /\ UNCHANGED mute
  \/ mute' = (mute \/ seq = my.seq) /\ UNCHANGED toClient

(* A request is handled and answered, with an error if it was refused or   *)
(* failed.  Contents that were mixed up may be anything, if they can be    *)
(* read at all.                                                            *)
Handle(len) ==
  LET buf == Skip(worker.reqstr, MaxRequest) IN
  /\ worker.pc = "parse" /\ Whole(buf)
  /\ \E err \in BOOLEAN : SendResponse(buf[1].seq, err, len)
  /\ worker' = [worker EXCEPT !.reqstr = After(buf)]
  /\ UNCHANGED <<timed, my, toServer, asked, amiss>>

BadPacket ==
  LET buf == Skip(worker.reqstr, MaxRequest) IN
  /\ worker.pc = "parse" /\ Whole(buf) /\ ~ Intact(buf)
  /\ worker' = [worker EXCEPT !.reqstr = After(buf)]
  /\ UNCHANGED <<timed, my, toServer, toClient, asked, amiss, mute>>

NeedMore ==
  LET buf == Skip(worker.reqstr, MaxRequest) IN
  /\ worker.pc = "parse" /\ ~ Whole(buf)
  /\ worker' = [pc |-> "recv", reqstr |-> buf]
  /\ UNCHANGED <<timed, my, toServer, toClient, asked, amiss, mute>>

(* The client has closed: what is left is not a whole packet.              *)
WorkerEnds ==
  /\ worker.pc = "recv" /\ my.pc = "gone" /\ toServer = << >>
  /\ worker' = [pc |-> "closed", reqstr |-> << >>]
  /\ UNCHANGED <<timed, my, toServer, toClient, asked, amiss, mute>>

(* The process of the thread dies, or its recv fails; bytes in flight may  *)
(* be lost.                                                                *)
WorkerDies ==
  /\ worker.pc \in {"recv", "parse", "unserved"}
  /\ worker' = [pc |-> "closed", reqstr |-> << >>] /\ toServer' = << >>
  /\ \E n \in 0 .. Len(toClient) : toClient' = SubSeq(toClient, 1, n)
  /\ UNCHANGED <<timed, my, asked, amiss, mute>>

Client ==
  \/ \E n \in 1 .. Len(toClient) : Recv(n)
  \/ Timeout \/ PeerClosed
Server ==
  \/ Accept
  \/ \E n \in 1 .. Len(toServer) : WorkerRecv(n)
  \/ \E len \in ResponseLens : Handle(len)
  \/ BadPacket \/ NeedMore \/ WorkerEnds
ClientNext ==
  \/ Connect \/ Close \/ WorkerDies \/ Interrupted
  \/ \E len \in RequestLens : QueryUnsent(len) \/ \E n \in 0 .. len : Query(len, n)
  \/ Client \/ Server

-----------------------------------------------------------------------------
(* A query that succeeds has the rows of its own statement, however the    *)
(* bytes arrive, as long as no query of the connection was given up or     *)
(* sent in part; after that it may get the answer to an earlier one.       *)
OwnAnswer == ~ amiss /\ my.ret = "ok" => my.got = my.seq

(* A query never gets an answer that an earlier one has had, nor one from  *)
(* before it: the answers that are taken are in the order of the requests. *)
AnswersInOrder ==
  [][my.pc = "wait" /\ my'.ret \in {"ok", "error"} =>
       my.got < my'.got /\ my'.got <= my.seq]_clientVars

(* Why the client of a connection without a timeout may wait for ever: the *)
(* statement is longer than the server allows (whether it is answered then *)
(* depends on how its bytes arrive), the server failed to send the answer, *)
(* or it failed to start a thread for the connection.                      *)
Unanswered ==
  asked > MaxRequest \/ mute \/ worker.pc = "unserved"

=============================================================================
