----------------------------- MODULE PghpLogon -----------------------------
(***************************************************************************)
(* The logon dialogue of the GateHouse plugin, PGHPFilter::connect_handler *)
(* of src/libs/gatehouse/pghpplugin.cpp: the proxy connects a session to   *)
(* the local GateHouse server, sends a logon request, and reads what the   *)
(* server sends in at most five pieces, looking for the reply.  TCP cuts   *)
(* the server's text wherever it likes, and data sentences are mixed in.   *)
(*                                                                         *)
(* The server is external: it uses the same library (PghpCodec) to read    *)
(* the request and to write its reply.                                     *)
(***************************************************************************)
EXTENDS PghpCodec

CONSTANTS
  Users,         \* <<name, password>> of the configured remotes, as text
  Replies,       \* the replies the server may send: result, newhost, port
  MaxContent,    \* m_iMaxContent: 512 in the code
  MaxRead,       \* characters of one read: 200 in the code
  MaxMessages,   \* reads before the handler gives up: 5 in the code
  Backlog        \* bound: the server adds text only while this much is unread

VARIABLES
  pc,            \* the handler: "connect", "read" or "done"
  outcome,       \* "none", "ok" (true is returned), or what is thrown
  msg_count,     \* reads done
  request,       \* <<the request sent>>, until the server answers it
  toServer,      \* what the handler has written
  heard,         \* server: <<the request as decoded>>, until it is answered
  reply,         \* server: <<the reply it has sent>>
  unread,        \* what the server has sent and the handler has not read
  closed         \* the server has closed the connection

vars == <<pc, outcome, msg_count, request, toServer, heard, reply, unread, closed>>

serverVars == <<heard, reply, closed>>

-----------------------------------------------------------------------------
LogonRequest(u) ==
  [name |-> u[1], pwd |-> u[2], ver |-> Int32(2), rlog |-> Int32(0), luser |-> <<63>>,
   verstr |-> <<49, 32, 45>>, type |-> Int32(0), retry |-> Int32(2)]

Mail(text) == EncodeSentences(text, MaxContent, -1)

RequestSentences == [u \in Users |-> Mail(EncodeLogonRequest(LogonRequest(u)))]

ReplySentence == [r \in Replies |-> Mail(EncodeLogonReply(r))]

StartSentence == Mail(EncodeStartDataRequest)

\* A sentence that is not a PGHP one, and a PGHP message of another type.
Noise == {<<33, 65, Comma, 49, Star, 53, 69, CR, LF>>,
          Mail(EncodeLogoffRequest([reason |-> Int32(1)]))}

\* write_some takes all of the text, or less.
Written(text) == {text, SubSeq(text, 1, Len(text) \div 2)}

\* PGHPFilter::Decode: a single sentence, and some hexadecimal digits in it.
IsMail(line) ==
  LET prefix == m_clHeader \o <<Comma, 49, Comma, 49, Comma, Comma>>
  IN  /\ Len(line) > Len(prefix)
      /\ IsPrefix(prefix, line)
      /\ IsHex(line[Len(prefix) + 1])

\* std::getline over the buffer, with the line end put back: the rest after the
\* last line feed, cut or empty, is a line too.
Pieces(chunk) ==
  LET cut(ends) ==
        [k \in 1 .. Len(ends) - 1 |-> SubSeq(chunk, ends[k] + 1, ends[k + 1] - 1) \o <<CR, LF>>]
  IN  cut(<<0>> \o SetToSortSeq({i \in DOMAIN chunk : chunk[i] = LF}, <) \o <<Len(chunk) + 1>>)

\* What one line makes of the logon: the reply's result, or nothing.
Answer(line) ==
  LET meaning(r) ==
        IF r = Int32(LOGON_REPLY_OK) THEN "ok"
        ELSE IF \E c \in LogonReplies : r = Int32(c) THEN "refused" ELSE "failed"
      answer(s) ==
        IF ~ s.ok \/ MesgType(Ascii2Byte(s.mail)) # Int32(AISMESGINT_LOGON_REPLY) THEN "none"
        ELSE meaning(DecodeLogonReply(s.mail).result)
  IN  IF IsMail(line) THEN answer(DecodeSentences(line)) ELSE "none"


\* The first line that answers decides.
Verdict(chunk) ==
  LET answers(lines) == SelectSeq([k \in DOMAIN lines |-> Answer(lines[k])], LAMBDA a : a # "none")
      first(seq) == IF seq = <<>> THEN "none" ELSE Head(seq)
  IN  first(answers(Pieces(chunk)))

-----------------------------------------------------------------------------
Init ==
  /\ pc = "connect" /\ outcome = "none" /\ msg_count = 0
  /\ request = <<>> /\ toServer = <<>> /\ heard = <<>> /\ reply = <<>>
  /\ unread = <<>> /\ closed = FALSE

\* A request that write_some cuts is an error; so is a closed connection.
SendLogonRequest ==
  /\ pc = "connect"
  /\ \E u \in Users :
       \E t \in Written(RequestSentences[u]) :
         LET sent == t = RequestSentences[u] /\ ~ closed
         IN  /\ request' = <<LogonRequest(u)>>
             /\ toServer' = IF closed THEN <<>> ELSE t
             /\ pc' = IF sent THEN "read" ELSE "done"
             /\ outcome' = IF sent THEN "none" ELSE "failed"
  /\ UNCHANGED <<msg_count, unread, serverVars>>

\* Fault: a read without an answer is not counted.
Counted_Not == msg_count

Counted == msg_count + 1

GivesUp == Counted = MaxMessages

\* The start request, after a positive reply; whether all of it was sent is not looked at.
StartSent(verdict) ==
  IF verdict = "ok" THEN {toServer \o t : t \in Written(StartSentence)} ELSE {toServer}

\* One turn of the loop.
Read ==
  /\ pc = "read" /\ unread # <<>>
  /\ \E n \in 1 .. (IF Len(unread) < MaxRead THEN Len(unread) ELSE MaxRead) :
       \E verdict \in {Verdict(SubSeq(unread, 1, n))} :
         /\ unread' = SubSeq(unread, n + 1, Len(unread))
         /\ outcome' = IF verdict = "none" /\ GivesUp THEN "failed" ELSE verdict
         /\ pc' = IF outcome' = "none" THEN "read" ELSE "done"
         /\ toServer' \in StartSent(verdict)
  /\ msg_count' = Counted
  /\ UNCHANGED <<request, serverVars>>

\* read_some throws at the end of the stream.
ReadFails ==
  /\ pc = "read" /\ unread = <<>> /\ closed
  /\ pc' = "done" /\ outcome' = "closed"
  /\ UNCHANGED <<msg_count, request, toServer, unread, serverVars>>

-----------------------------------------------------------------------------
(* The server *)

ServerHears ==
  /\ pc = "read" /\ heard = <<>> /\ reply = <<>> /\ ~ closed
  /\ DecodeSentences(toServer).ok
  /\ heard' = <<DecodeLogonRequest(DecodeSentences(toServer).mail)>>
  /\ UNCHANGED <<pc, outcome, msg_count, request, toServer, unread, reply, closed>>

ServerReplies ==
  /\ heard # <<>> /\ ~ closed /\ Len(unread) <= Backlog
  /\ \E r \in Replies : reply' = <<r>> /\ unread' = unread \o ReplySentence[r]
  /\ heard' = <<>> /\ request' = <<>> /\ toServer' = <<>>
  /\ UNCHANGED <<pc, outcome, msg_count, closed>>

ServerSendsData ==
  /\ pc # "done" /\ ~ closed /\ Len(unread) <= Backlog
  /\ \E t \in Noise : unread' = unread \o t
  /\ UNCHANGED <<pc, outcome, msg_count, request, toServer, serverVars>>

ServerCloses ==
  /\ pc # "done" /\ ~ closed /\ closed' = TRUE
  /\ UNCHANGED <<pc, outcome, msg_count, request, toServer, unread, heard, reply>>

-----------------------------------------------------------------------------
(* Properties *)

Outcomes == {"none", "ok", "refused", "failed", "closed"}

\* Type invariant: the handler has an outcome exactly when it is done, and the
\* number of reads stays within the loop.
TypeOK ==
  /\ pc \in {"connect", "read", "done"} /\ outcome \in Outcomes
  /\ (outcome = "none") = (pc # "done")
  /\ msg_count \in 0 .. MaxMessages
  /\ (pc = "read" => msg_count < MaxMessages)
  /\ \A c \in ToSet(unread) \cup ToSet(toServer) : c \in 0 .. 127
  /\ closed \in BOOLEAN

\* Names, passwords and numbers arrive as they were sent, the name in lower case,
\* whatever their lengths and however many sentences the request takes:
\* TclAISMessageLogonRequest::Encode to Decode through TclPGHP2Message.
RequestUnderstood ==
  heard # <<>> /\ request # <<>> => heard[1] = [request[1] EXCEPT !.name = ToLower(@)]

\* The handler returns true only if the server has granted the logon, and reports
\* a refusal only if it has refused: a reply that was cut in two, of which a part
\* decodes to the result 0, OK, is never taken for one (pghpplugin.cpp, 132 to 158).
VerdictIsTheServers ==
  /\ outcome = "ok" => reply # <<>> /\ reply[1].result = Int32(LOGON_REPLY_OK)
  /\ outcome = "refused" => reply # <<>> /\ reply[1].result # Int32(LOGON_REPLY_OK)

\* Data is asked for exactly when the logon was granted: what the handler sends
\* after the request is (the beginning of) one start sentence.
StartFollowsGrant ==
  reply # <<>> => (toServer # <<>>) = (outcome = "ok")

=============================================================================
