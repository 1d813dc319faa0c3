------------------------------- MODULE Walsender -------------------------------
(***************************************************************************)
(* One walsender session (proto.py WalsenderConnection): connect() with    *)
(* its TLS request, authentication and timeouts, the simple queries, the   *)
(* start of a stream and its end, against a PostgreSQL server that speaks  *)
(* the protocol, may refuse, fail or close at any point, and owes no       *)
(* answer during the handshake.                                            *)
(*                                                                         *)
(* While the stream runs two tasks send standby statuses on it: the        *)
(* feedback loop, and the reader where it answers a keepalive.  A lock     *)
(* serializes them, because drain() on a paused transport has room for one *)
(* waiter only.  A status is one unit of the transport's write buffer,     *)
(* which pauses above its high-water mark and resumes at its low one.      *)
(*                                                                         *)
(* A message is its type; a row also has its place: which answer, which    *)
(* row.  "Notice" stands for every type the client skips (NoticeResponse,  *)
(* ParameterStatus, RowDescription, CommandComplete).  Whoever calls       *)
(* leaves the connection by its `async with`, on an error or not.          *)
(* backend_pid is only reported and left out.                              *)
(***************************************************************************)
EXTENDS Integers, Sequences

CONSTANTS
  High, Low,    \* the transport's water marks, in statuses
  MaxCommands,  \* bound of the model: the commands of a session
  MaxRows,      \* bound of the model: the rows of an answer
  InboxBound    \* bound of the model: messages of the server not yet read

ASSUME WalsenderAssumption ==
  /\ {MaxCommands, MaxRows, InboxBound, High} \subseteq Nat \ {0}
  /\ Low \in 0..High - 1

Senders == {"reader", "feedback"}

VARIABLES
  given,     \* connect()'s arguments: ssl, and whether there is a password
  pc,        \* the client's await: "open" (the socket), "ssl" (one byte), "tls" (the
             \* handshake), "auth", "ready" (ReadyForQuery), "query", "start", "stream";
             \* "unwinding" (_feedback_running cancels the loop and awaits it);
             \* "idle" between two calls, "failed": connect() raised, "left": aborted
  sock,      \* the client's socket: "none", "open", "closed"
  tls,       \* WalsenderConnection.tls
  scram,     \* a SCRAM exchange was begun
  command,   \* number of the last command
  answer,    \* of the last command: the rows read, an ErrorResponse read, and how the
             \* call ended ("none" yet, "rows" returned, "error" raised)
  inbox,     \* messages from the server, not yet read
  outbox,    \* messages to the server, not yet read
  srv,       \* the server: "accepted", "plain" (awaits a password), "sasl", "sasl2" (SCRAM's
             \* messages), "let_in", "ready", "busy", "failing", "copy", "copied", "closed"
  serving,   \* number of the last command it took up
  said,      \* history: rows and failure of the server's answer to each command
  sender,    \* each sender: "elsewhere", "waits" for send_lock, "drains", "gone"
  holder,    \* who holds send_lock, if anybody
  waiters,   \* who waits for it, in order
  buffered,  \* the transport's write buffer, in statuses
  paused     \* the transport has called pause_writing

calls == <<tls, scram, command, answer>>
client == <<pc, sock, calls>>
server == <<srv, serving, said>>
sending == <<sender, holder, waiters, buffered, paused>>
vars == <<given, client, inbox, outbox, server, sending>>

AuthTypes == {"Cleartext", "Md5", "Sasl", "SaslPlus", "UnknownAuth"}

Message ==
  [type : AuthTypes \cup {"Yes", "No", "AuthOk", "SaslContinue", "SaslFinal", "KeyData",
     "Ready", "Error", "Notice", "Row", "CopyBoth", "CopyData", "CopyDone", "EOF"},
   row : (0..MaxCommands) \X (0..MaxRows)]

NoAnswer == [rows |-> <<>>, error |-> FALSE, outcome |-> "none"]

Init ==
  /\ given \in [ssl : BOOLEAN, password : BOOLEAN]
  /\ pc = "open"
  /\ sock = "none"
  /\ tls = FALSE
  /\ scram = FALSE
  /\ command = 0
  /\ answer = NoAnswer
  /\ inbox = <<>>
  /\ outbox = <<>>
  /\ srv = "accepted"
  /\ serving = 0
  /\ said = [n \in 0..MaxCommands |-> [rows |-> 0, failed |-> FALSE]]
  /\ sender = [s \in Senders |-> "gone"]
  /\ holder = {}
  /\ waiters = <<>>
  /\ buffered = 0
  /\ paused = FALSE

------------------------------------------------------------------------------
\* Seeded faults.

\* except Exception: a cancellation passes by.
ClosedOnErrors(cause) == cause # "cancelled"

\* The SSL exchange has no timeout of its own.
TimedButSsl == {"open", "auth", "ready"}

\* connect() returns with AuthenticationOk.
ReturnsOnAuthOk == "idle"

\* An ErrorResponse ends a query at once.
EndsOnError(m) == m.type \in {"Ready", "Error"}

\* start_replication waits for CopyBothResponse only.
StartedOnly(m) == m.type = "CopyBoth"

\* The stream ends with an error or the connection.
StreamCutOnly == {"Error", "EOF"}

\* Whatever an answer holds is taken for a row.
KeptAny(m) == TRUE

\* Nobody waits for the lock.
FreeAnyway == TRUE

\* The lock is released behind the drain, not by `async with`.
ReleasedIfSent(s, how) == IF how = "sent" THEN holder \ {s} ELSE holder

------------------------------------------------------------------------------
\* The client: connect().

Connecting == {"open", "ssl", "tls", "auth", "ready"}

\* Whether a failure closes the socket: `except BaseException`.
Closed(cause) == TRUE

ConnectRaises(cause) ==
  /\ pc' = "failed"
  /\ sock' = IF sock = "open" /\ Closed(cause) THEN "closed" ELSE sock
  /\ UNCHANGED <<calls, outbox>>

Sends(type) == outbox' = Append(outbox, type)

\* open_connection returns; with ssl the SSLRequest precedes the startup packet.
Opened ==
  /\ pc = "open"
  /\ sock' = "open"
  /\ pc' = IF given.ssl THEN "ssl" ELSE "auth"
  /\ Sends(IF given.ssl THEN "SslRequest" ELSE "Startup")
  /\ UNCHANGED <<given, calls, inbox, server, sending>>

\* start_tls is done.
TlsDone ==
  /\ pc = "tls"
  /\ tls' = TRUE
  /\ pc' = "auth"
  /\ Sends("Startup")
  /\ UNCHANGED <<given, sock, scram, command, answer, inbox, server, sending>>

\* The phases a timeout covers.
Timed == Connecting

\* connect_timeout passes, however many messages have come meanwhile.
ConnectTimesOut ==
  /\ pc \in Timed
  /\ ConnectRaises("timeout")
  /\ UNCHANGED <<given, inbox, server, sending>>

\* aclose() cancels the caller, or the socket or the TLS handshake fails.
ConnectCut ==
  /\ pc \in Connecting
  /\ \E cause \in {"cancelled", "broken"} : ConnectRaises(cause)
  /\ UNCHANGED <<given, inbox, server, sending>>

\* The one byte that answers the SSLRequest.
ReadSslByte(m) ==
  /\ pc = "ssl"
  /\ IF m.type = "Yes"
       THEN pc' = "tls" /\ UNCHANGED <<sock, calls, outbox>>
       ELSE ConnectRaises("broken")

\* What the client will not answer: passwords in the clear, no password to send,
\* mechanisms it does not speak, messages out of order.
Refused(m) ==
  \/ m.type \in {"UnknownAuth", "SaslPlus"}
  \/ m.type \in {"Cleartext", "Md5"} /\ ~(tls /\ given.password)
  \/ m.type = "Sasl" /\ ~given.password
  \/ m.type \in {"SaslContinue", "SaslFinal"} /\ ~scram

\* After AuthenticationOk the client waits for ReadyForQuery.
AfterAuthOk == "ready"

ReadAuth(m) ==
  /\ pc = "auth"
  /\ IF m.type \in {"Error", "EOF"} \/ Refused(m)
       THEN ConnectRaises("broken")
       ELSE /\ pc' = IF m.type = "AuthOk" THEN AfterAuthOk ELSE pc
            /\ scram' = (scram \/ m.type = "Sasl")
            /\ IF m.type \in {"Cleartext", "Md5", "Sasl", "SaslContinue"}
                 THEN Sends("Password")
                 ELSE UNCHANGED outbox
            /\ UNCHANGED <<sock, tls, command, answer>>

\* ParameterStatus and BackendKeyData up to ReadyForQuery: connect() returns.
ReadPostAuth(m) ==
  /\ pc = "ready"
  /\ IF m.type \in {"Error", "EOF"}
       THEN ConnectRaises("broken")
       ELSE /\ pc' = IF m.type = "Ready" THEN "idle" ELSE pc
            /\ UNCHANGED <<sock, calls, outbox>>

------------------------------------------------------------------------------
\* The client: commands.

\* simple_query_rows or start_replication sends its command.
Calls(call, type) ==
  /\ pc = "idle"
  /\ command < MaxCommands
  /\ pc' = call
  /\ command' = command + 1
  /\ answer' = NoAnswer
  /\ Sends(type)
  /\ UNCHANGED <<given, sock, tls, scram, inbox, server, sending>>

Query == Calls("query", "Query")

StartReplication == Calls("start", "Start")

\* The call raises, and the `async with` it leaves aborts the connection.
Leaves(m) ==
  /\ pc' = "left"
  /\ sock' = "closed"
  /\ answer' = [answer EXCEPT !.error = @ \/ m.type = "Error", !.outcome = "error"]

\* Whether the message ends the answer: only ReadyForQuery does.
Answered(m) == m.type = "Ready"

\* Whether it is kept among the rows; an error is kept too, to be raised at the end.
Kept(m) == m.type = "Row"

ReadAnswer(m) ==
  /\ pc = "query"
  /\ IF m.type = "EOF"
       THEN Leaves(m)
       ELSE LET failed == answer.error \/ m.type = "Error" IN
            /\ answer' = [rows |-> IF Kept(m) THEN Append(answer.rows, m.row) ELSE answer.rows,
                          error |-> failed,
                          outcome |-> IF ~Answered(m) THEN "none"
                                      ELSE IF failed THEN "error" ELSE "rows"]
            /\ pc' = IF Answered(m) THEN "idle" ELSE pc
            /\ UNCHANGED sock
  /\ UNCHANGED <<tls, scram, command, outbox>>

\* What start_replication does not skip.
Started(m) == m.type \in {"CopyBoth", "Error"}

\* What read_stream raises on: CopyDone, CommandComplete and ReadyForQuery are one here.
StreamCut == {"Error", "EOF", "CopyDone"}

\* With the stream the feedback task starts (_feedback_running): from now on there are
\* two senders.
FeedbackStarts == [s \in Senders |-> "elsewhere"]

ReadStart(m) ==
  /\ pc = "start"
  /\ IF m.type = "EOF" \/ (Started(m) /\ m.type = "Error")
       THEN Leaves(m) /\ UNCHANGED sender
       ELSE /\ pc' = IF Started(m) THEN "stream" ELSE pc
            /\ sender' = IF Started(m) THEN FeedbackStarts ELSE sender
            /\ UNCHANGED <<sock, answer>>
  /\ UNCHANGED <<tls, scram, command, outbox, holder, waiters, buffered, paused>>

------------------------------------------------------------------------------
\* The client: statuses.

\* The lock is handed to who waits before it is free for somebody else.
Free == holder = {} /\ waiters = <<>>

\* What a send leaves of the lock.
Released(s, how) == holder \ {s}

\* A sender leaves the lock with an exception: the loop returns, the reader raises.
GivesUp(s) ==
  /\ sender' = [sender EXCEPT ![s] = "gone"]
  /\ holder' = Released(s, "raised")
  /\ pc' = IF s = "reader" THEN "unwinding" ELSE pc

\* With the lock: the status is written, and drain() waits while the transport is
\* paused.  A closed transport takes no bytes, and drain() raises.
WriteAndDrain(s) ==
  IF sock = "open"
    THEN /\ buffered' = buffered + 1
         /\ paused' = (paused \/ buffered' > High)
         /\ IF paused'
              THEN sender' = [sender EXCEPT ![s] = "drains"] /\ holder' = holder \cup {s}
              ELSE sender' = [sender EXCEPT ![s] = "elsewhere"] /\ UNCHANGED holder
         /\ UNCHANGED pc
    ELSE GivesUp(s) /\ UNCHANGED <<buffered, paused>>

\* send_standby_status is called.
Send(s) ==
  /\ sender[s] = "elsewhere"
  /\ IF Free
       THEN WriteAndDrain(s) /\ UNCHANGED waiters
       ELSE /\ sender' = [sender EXCEPT ![s] = "waits"]
            /\ waiters' = Append(waiters, s)
            /\ UNCHANGED <<pc, holder, buffered, paused>>

\* The feedback loop's interval is over.
StatusDue ==
  /\ pc = "stream"
  /\ Send("feedback")
  /\ UNCHANGED <<given, sock, calls, inbox, outbox, server>>

\* The lock was released: the first in line has it.
Acquire(s) ==
  /\ pc = "stream"
  /\ sender[s] = "waits"
  /\ holder = {} /\ Head(waiters) = s
  /\ waiters' = Tail(waiters)
  /\ WriteAndDrain(s)
  /\ UNCHANGED <<given, sock, calls, inbox, outbox, server>>

\* drain() returns, or raises on a connection that was lost.
DrainEnds(s) ==
  /\ pc = "stream"
  /\ sender[s] = "drains"
  /\ IF sock = "open"
       THEN /\ ~paused
            /\ sender' = [sender EXCEPT ![s] = "elsewhere"]
            /\ holder' = Released(s, "sent")
            /\ UNCHANGED pc
       ELSE GivesUp(s)
  /\ UNCHANGED <<given, sock, calls, inbox, outbox, server, waiters, buffered, paused>>

\* CancelledError is raised at whatever await of a send a task is in.
Cancelled(s) ==
  /\ GivesUp(s)
  /\ waiters' = SelectSeq(waiters, LAMBDA w : w # s)
  /\ UNCHANGED <<given, sock, calls, inbox, outbox, server, buffered, paused>>

\* The reader awaits a frame and sends nothing meanwhile; a keepalive may ask for a
\* status, which the reader sends before it reads on.
ReadStream(m) ==
  /\ pc = "stream" /\ sender["reader"] = "elsewhere"
  /\ IF m.type \in StreamCut
       THEN /\ pc' = "unwinding"
            /\ sender' = [sender EXCEPT !["reader"] = "gone"]
            /\ answer' = [answer EXCEPT !.error = @ \/ m.type = "Error", !.outcome = "error"]
            /\ UNCHANGED <<holder, waiters, buffered, paused>>
       ELSE /\ UNCHANGED answer
            /\ \/ UNCHANGED <<pc, sending>>
               \/ m.type = "CopyData" /\ Send("reader")
  /\ UNCHANGED <<sock, tls, scram, command, outbox>>

\* aclose() cancels the supervisor in whatever await of the stream.
StreamCancelled == pc = "stream" /\ Cancelled("reader")

\* The connection is lost, or the probe aborts it: the reader's read raises.
ConnectionLost ==
  /\ pc = "stream"
  /\ sock' = "closed"
  /\ UNCHANGED <<given, pc, calls, inbox, outbox, server, sending>>

ReadRaises ==
  pc = "stream" /\ sock = "closed" /\ sender["reader"] = "elsewhere" /\ Cancelled("reader")

\* _feedback_running's finally.
FeedbackCancelled == pc = "unwinding" /\ sender["feedback"] # "gone" /\ Cancelled("feedback")

\* The loop is awaited, and the `async with` aborts the connection.
Unwound ==
  /\ pc = "unwinding" /\ sender["feedback"] = "gone"
  /\ pc' = "left"
  /\ sock' = "closed"
  /\ UNCHANGED <<given, calls, inbox, outbox, server, sending>>

\* The network takes a status; a server that has gone takes none.
Flush ==
  /\ pc = "stream" /\ sock = "open" /\ srv # "closed" /\ buffered > 0
  /\ buffered' = buffered - 1
  /\ paused' = (paused /\ buffered' > Low)
  /\ UNCHANGED <<given, client, inbox, outbox, server, sender, holder, waiters>>

------------------------------------------------------------------------------
\* The caller is done, or is cancelled in whatever call.
Leave ==
  /\ pc \in {"idle", "query", "start"}
  /\ pc' = "left"
  /\ sock' = "closed"
  /\ UNCHANGED <<given, calls, inbox, outbox, server, sending>>

\* _read_message returns the next message to whoever awaits it.
Read ==
  /\ inbox # <<>>
  /\ inbox' = Tail(inbox)
  /\ LET m == Head(inbox) IN
       \/ (ReadSslByte(m) \/ ReadAuth(m) \/ ReadPostAuth(m) \/ ReadAnswer(m)) /\ UNCHANGED sending
       \/ ReadStart(m) \/ ReadStream(m)
  /\ UNCHANGED <<given, server>>

------------------------------------------------------------------------------
\* The server (external).

\* What it does with a message: <<in which state, which, what it sends, its next state>>.
\* A wrong password is a FATAL error (SrvDies).
Replies ==
  {<<"accepted", "SslRequest", <<byte>>, "accepted">> : byte \in {"Yes", "No"}}
  \cup {<<"accepted", "Startup", <<method>>, "plain">> : method \in {"Cleartext", "Md5", "UnknownAuth"}}
  \cup {<<"accepted", "Startup", <<method>>, "sasl">> : method \in {"Sasl", "SaslPlus"}}
  \cup {<<"accepted", "Startup", <<"AuthOk">>, "let_in">>,
        <<"plain", "Password", <<"AuthOk">>, "let_in">>,
        <<"sasl", "Password", <<"SaslContinue">>, "sasl2">>,
        <<"sasl2", "Password", <<"SaslFinal", "AuthOk">>, "let_in">>,
        <<"ready", "Query", <<>>, "busy">>,
        <<"ready", "Start", <<"CopyBoth">>, "copy">>,
        <<"ready", "Start", <<"Error">>, "failing">>}

\* What it does of itself: a command succeeds or fails, a stream ends.
Moves ==
  {<<"let_in", <<"KeyData", "Ready">>, "ready">>,
   <<"busy", <<"Ready">>, "ready">>,
   <<"busy", <<"Error">>, "failing">>,
   <<"failing", <<"Ready">>, "ready">>,
   <<"copy", <<"CopyDone">>, "copied">>}

ServerSends(types, to) ==
  /\ sock = "open"
  /\ srv' = to
  /\ inbox' = inbox \o [i \in DOMAIN types |-> [type |-> types[i], row |-> <<0, 0>>]]
  /\ UNCHANGED <<given, client, sending>>

SrvReplies ==
  \E r \in Replies :
    /\ srv = r[1]
    /\ outbox # <<>> /\ Head(outbox) = r[2]
    /\ outbox' = Tail(outbox)
    /\ ServerSends(r[3], r[4])
    /\ serving' = IF srv = "ready" THEN serving + 1 ELSE serving
    /\ said' = [said EXCEPT ![serving'].failed = @ \/ srv' = "failing"]

SrvMoves ==
  \E m \in Moves :
    /\ srv = m[1]
    /\ ServerSends(m[2], m[3])
    /\ said' = [said EXCEPT ![serving].failed = @ \/ srv' = "failing"]
    /\ UNCHANGED <<outbox, serving>>

Room == Len(inbox) < InboxBound

SrvRow ==
  /\ sock = "open" /\ srv = "busy" /\ Room
  /\ said[serving].rows < MaxRows
  /\ said' = [said EXCEPT ![serving].rows = @ + 1]
  /\ inbox' = Append(inbox, [type |-> "Row", row |-> <<serving, said'[serving].rows>>])
  /\ UNCHANGED <<given, client, outbox, srv, serving, sending>>

\* A notice at any time once it knows the client; data in a stream.
SrvChatters ==
  /\ srv \notin {"accepted", "closed"} /\ Room
  /\ \E type \in {"Notice"} \cup (IF srv = "copy" THEN {"CopyData"} ELSE {}) :
       ServerSends(<<type>>, srv)
  /\ UNCHANGED <<outbox, serving, said>>

\* A FATAL error, or a connection that is simply closed.
SrvDies ==
  /\ srv # "closed"
  /\ \E last \in {<<"EOF">>, <<"Error", "EOF">>} : ServerSends(last, "closed")
  /\ UNCHANGED <<outbox, serving, said>>

Next ==
  \/ Opened \/ TlsDone \/ ConnectTimesOut \/ ConnectCut
  \/ Read
  \/ Query \/ StartReplication \/ Leave
  \/ StatusDue \/ \E s \in Senders : Acquire(s) \/ DrainEnds(s)
  \/ StreamCancelled \/ ConnectionLost \/ ReadRaises \/ FeedbackCancelled \/ Unwound
  \/ Flush
  \/ SrvReplies \/ SrvMoves \/ SrvRow \/ SrvChatters \/ SrvDies

Spec == Init /\ [][Next]_vars

\* What has arrived is read and the clock runs.  A server that has let the client in
\* answers its commands; before, it owes nothing.  The loop runs whoever can run.  A
\* server takes statuses until it has gone, and then a write that waits finds out.
FairSpec ==
  /\ Spec
  /\ WF_vars(Read)
  /\ WF_vars(ConnectTimesOut)
  /\ WF_vars(srv \in {"ready", "busy", "failing"} /\ (SrvReplies \/ SrvMoves))
  /\ \A s \in Senders : WF_vars(Acquire(s)) /\ WF_vars(DrainEnds(s))
  /\ WF_vars(ReadRaises) /\ WF_vars(FeedbackCancelled) /\ WF_vars(Unwound)
  /\ WF_vars(Flush) /\ WF_vars(srv = "closed" /\ paused /\ ConnectionLost)

------------------------------------------------------------------------------
\* The types of the variables; a row kept is a row.
TypeOK ==
  /\ given \in [ssl : BOOLEAN, password : BOOLEAN]
  /\ {tls, scram} \subseteq BOOLEAN
  /\ pc \in Connecting \cup {"idle", "query", "start", "stream", "unwinding", "failed", "left"}
  /\ sock \in {"none", "open", "closed"}
  /\ command \in 0..MaxCommands
  /\ answer \in [rows : Seq((1..MaxCommands) \X (1..MaxRows)), error : BOOLEAN,
                 outcome : {"none", "rows", "error"}]
  /\ inbox \in Seq(Message)
  /\ outbox \in Seq({"SslRequest", "Startup", "Password", "Query", "Start"})
  /\ srv \in {"accepted", "plain", "sasl", "sasl2", "let_in", "ready", "busy", "failing", "copy",
              "copied", "closed"}
  /\ serving \in 0..MaxCommands
  /\ said \in [0..MaxCommands -> [rows : 0..MaxRows, failed : BOOLEAN]]
  /\ sender \in [Senders -> {"elsewhere", "waits", "drains", "gone"}]
  /\ holder \subseteq Senders
  /\ waiters \in Seq(Senders)
  /\ buffered \in 0..High + 2
  /\ paused \in BOOLEAN

\* No socket is left behind, whatever cuts connect() and wherever ("any failure closes
\* the socket before re-raising", connect).
NoSocketLeaks == pc \in {"failed", "left"} => sock # "open"

\* A query returns the rows of its own answer, all of them, and raises if it failed:
\* the client never takes the tail of one answer for the head of the next.
AnswersMatch ==
  pc = "idle" /\ command > 0 =>
    /\ said[command].failed <=> answer.outcome = "error"
    /\ answer.outcome = "rows" => answer.rows = [i \in 1..said[command].rows |-> <<command, i>>]

\* Between two calls client and server agree: the server waits for a command or has
\* closed, and nothing is unread but notices and its last words.
InSync ==
  pc = "idle" =>
    /\ srv \in {"ready", "closed"}
    /\ \A i \in DOMAIN inbox : inbox[i].type \in {"Notice", "Error", "EOF"}
    /\ srv = "ready" => \A i \in DOMAIN inbox : inbox[i].type = "Notice"

\* connect() ends, however silent or talkative the server is ("every phase is bounded by
\* connect_timeout").
ConnectEnds == pc \in Connecting ~> pc \notin Connecting

\* A command ends, answered, refused or cut off.
CommandsEnd == pc \in {"query", "start"} ~> pc \notin {"query", "start"}

\* "Concurrent drain() on a paused transport trips the single-waiter assert in asyncio's
\* FlowControlMixin" (send_standby_status): two senders never drain at once, also when one
\* of them is cancelled in the middle of it.
OneDrainAtATime ==
  \A s, t \in Senders : sender[s] = "drains" /\ sender[t] = "drains" => s = t

\* Nobody waits for good on a lock or a drain, in whatever order sends, cancellations and
\* the loss of the connection come.
SendsEnd ==
  \A s \in Senders : sender[s] \in {"waits", "drains"} ~> sender[s] \in {"elsewhere", "gone"}

\* The end of a stream is noticed, and with it the session's ("raises on stream end or
\* error", read_stream).
StreamEndIsNoticed == pc = "stream" /\ srv \in {"copied", "closed"} ~> pc = "left"

\* No call on the connection waits for good, from connect() to the end of a stream.
EveryCallEnds == ConnectEnds /\ CommandsEnd /\ SendsEnd /\ StreamEndIsNoticed
==============================================================================
