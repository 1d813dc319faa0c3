---------------------------- MODULE WalsenderProofs -----------------------------
(***************************************************************************)
(* For any number of commands, rows, messages and statuses: of the two     *)
(* tasks that send on a connection one drains at a time; a connection that *)
(* was left, or never came about, holds no open socket; between two calls  *)
(* client and server agree; and a query returns its own answer.            *)
(***************************************************************************)
EXTENDS Walsender, TLAPS

SenderStates == {"elsewhere", "waits", "drains", "gone"}

SenderType == sender \in [Senders -> SenderStates]

\* Who drains holds the lock.
DrainsLocked == \A s \in Senders : sender[s] = "drains" => s \in holder

\* The lock has one holder.
OneHolder == \A s, t \in holder : s = t

LockInv == SenderType /\ DrainsLocked /\ OneHolder

\* What a task does that leaves the lock to itself.
Keeps(s) ==
  \/ UNCHANGED <<sender, holder>>
  \/ /\ sender' = [sender EXCEPT ![s] = "gone"]
     /\ holder' = holder \ {s}
  \/ /\ sender' = [sender EXCEPT ![s] = "elsewhere"]
     /\ holder' \in {holder, holder \ {s}}
     /\ s \in holder' => sender[s] # "drains"
  \/ /\ sender' = [sender EXCEPT ![s] = "waits"]
     /\ UNCHANGED holder
  \/ /\ sender' = [sender EXCEPT ![s] = "drains"]
     /\ holder = {} /\ holder' = {s}

\* The lock and the senders stay consistent when one of them moves.
LEMMA KeepsLock ==
  ASSUME NEW s \in Senders, LockInv, Keeps(s)
  PROVE  LockInv'
<1>1. SenderType'
  BY DEF LockInv, SenderType, Keeps, SenderStates
<1>2. DrainsLocked'
  BY <1>1 DEF LockInv, SenderType, DrainsLocked, Keeps, SenderStates
<1>3. OneHolder'
  BY DEF LockInv, OneHolder, Keeps
<1> QED
  BY <1>1, <1>2, <1>3 DEF LockInv

\* With the lock free, writing and draining is such a move.
LEMMA WriteKeeps ==
  ASSUME NEW s \in Senders, LockInv, holder = {}, WriteAndDrain(s)
  PROVE  Keeps(s)
<1>1. CASE sock = "open"
  <2>1. CASE paused'
    BY <1>1, <2>1 DEF WriteAndDrain, Keeps
  <2>2. CASE ~paused'
    BY <1>1, <2>2 DEF WriteAndDrain, Keeps
  <2> QED
    BY <2>1, <2>2
<1>2. CASE sock # "open"
  BY <1>2 DEF WriteAndDrain, GivesUp, Released, Keeps
<1> QED
  BY <1>1, <1>2

LEMMA SendKeeps ==
  ASSUME NEW s \in Senders, LockInv, Send(s)
  PROVE  Keeps(s)
<1>1. CASE Free
  <2>1. holder = {} /\ WriteAndDrain(s)
    BY <1>1 DEF Send, Free
  <2> QED
    BY <2>1, WriteKeeps
<1>2. CASE ~Free
  BY <1>2 DEF Send, Keeps
<1> QED
  BY <1>1, <1>2

\* Reading touches the lock where a stream begins, ends, or wants a status.
LEMMA ReadLock ==
  ASSUME LockInv, Read
  PROVE  LockInv'
<1> DEFINE m == Head(inbox)
<1>1. CASE UNCHANGED sending
  BY <1>1 DEF sending, LockInv, SenderType, DrainsLocked, OneHolder
<1>2. CASE ReadStart(m)
  <2>1. UNCHANGED holder
    BY <1>2 DEF ReadStart
  <2>2. sender' = sender \/ sender' = [s \in Senders |-> "elsewhere"]
    BY <1>2 DEF ReadStart, FeedbackStarts
  <2> QED
    BY <2>1, <2>2 DEF LockInv, SenderType, DrainsLocked, OneHolder, SenderStates
<1>3. CASE ReadStream(m)
  <2>1. CASE m.type \in StreamCut
    <3>1. /\ sender' = [sender EXCEPT !["reader"] = "gone"]
          /\ UNCHANGED holder
      BY <1>3, <2>1 DEF ReadStream
    <3> QED
      BY <3>1 DEF LockInv, SenderType, DrainsLocked, OneHolder, SenderStates
  <2>2. CASE m.type \notin StreamCut
    <3>1. UNCHANGED sending \/ Send("reader")
      BY <1>3, <2>2 DEF ReadStream, sending
    <3>2. ASSUME Send("reader")
          PROVE  LockInv'
      <4>1. "reader" \in Senders
        BY DEF Senders
      <4> QED
        BY <3>2, <4>1, SendKeeps, KeepsLock
    <3> QED
      BY <1>1, <3>1, <3>2
  <2> QED
    BY <2>1, <2>2
<1> QED
  BY <1>1, <1>2, <1>3 DEF Read

LEMMA StepLock ==
  ASSUME LockInv, [Next]_vars
  PROVE  LockInv'
<1> DEFINE Steady == UNCHANGED sending
<1>0. ASSUME Steady
      PROVE  LockInv'
  BY <1>0 DEF sending, LockInv, SenderType, DrainsLocked, OneHolder
<1>1. CASE Opened \/ TlsDone \/ ConnectTimesOut \/ ConnectCut
  BY <1>0, <1>1 DEF Opened, TlsDone, ConnectTimesOut, ConnectCut
<1>2. CASE Read
  BY <1>2, ReadLock
<1>3. CASE Query \/ StartReplication \/ Leave
  BY <1>0, <1>3 DEF Query, StartReplication, Calls, Leave
<1>4. CASE StatusDue
  <2>1. "feedback" \in Senders /\ Send("feedback")
    BY <1>4 DEF StatusDue, Senders
  <2> QED
    BY <2>1, SendKeeps, KeepsLock
<1>5. CASE \E s \in Senders : Acquire(s)
  <2>1. PICK s \in Senders : Acquire(s)
    BY <1>5
  <2>2. holder = {} /\ WriteAndDrain(s)
    BY <2>1 DEF Acquire
  <2> QED
    BY <2>2, WriteKeeps, KeepsLock
<1>6. CASE \E s \in Senders : DrainEnds(s)
  <2>1. PICK s \in Senders : DrainEnds(s)
    BY <1>6
  <2>2. Keeps(s)
    BY <2>1 DEF DrainEnds, GivesUp, Released, Keeps
  <2> QED
    BY <2>2, KeepsLock
<1>7. CASE StreamCancelled \/ ReadRaises \/ FeedbackCancelled
  <2>1. PICK s \in Senders : Cancelled(s)
    BY <1>7 DEF StreamCancelled, ReadRaises, FeedbackCancelled, Senders
  <2>2. Keeps(s)
    BY <2>1 DEF Cancelled, GivesUp, Released, Keeps
  <2> QED
    BY <2>2, KeepsLock
<1>8. CASE ConnectionLost \/ Unwound
  BY <1>0, <1>8 DEF ConnectionLost, Unwound
<1>9. CASE Flush
  BY <1>9 DEF Flush, LockInv, SenderType, DrainsLocked, OneHolder
<1>10. CASE SrvReplies \/ SrvMoves \/ SrvRow \/ SrvChatters \/ SrvDies
  BY <1>0, <1>10 DEF SrvReplies, SrvMoves, SrvRow, SrvChatters, SrvDies, ServerSends
<1>11. CASE UNCHANGED vars
  BY <1>0, <1>11 DEF vars
<1> QED
  BY <1>1, <1>2, <1>3, <1>4, <1>5, <1>6, <1>7, <1>8, <1>9, <1>10, <1>11 DEF Next

\* Two senders never drain at once, however long the transport is paused and whoever is
\* cancelled meanwhile (send_standby_status).
THEOREM WalsenderOneDrain == Spec => []OneDrainAtATime
<1>1. Init => LockInv
  BY DEF Init, LockInv, SenderType, DrainsLocked, OneHolder, SenderStates
<1>2. LockInv /\ [Next]_vars => LockInv'
  BY StepLock
<1>3. LockInv => OneDrainAtATime
  BY DEF LockInv, DrainsLocked, OneHolder, OneDrainAtATime
<1> QED
  BY <1>1, <1>2, <1>3, PTL DEF Spec

------------------------------------------------------------------------------
\* A socket is opened only by a connect() that is under way, and whatever ends a
\* session closes it.
LEMMA StepSocket ==
  ASSUME NoSocketLeaks, [Next]_vars
  PROVE  NoSocketLeaks'
<1> USE DEF NoSocketLeaks
<1>0. ASSUME UNCHANGED <<pc, sock>>
      PROVE  NoSocketLeaks'
  BY <1>0
<1>1. CASE Opened \/ TlsDone
  BY <1>1 DEF Opened, TlsDone
<1>2. CASE ConnectTimesOut \/ ConnectCut
  BY <1>2 DEF ConnectTimesOut, ConnectCut, ConnectRaises, Closed
<1>3. CASE Read
  <2> DEFINE m == Head(inbox)
  <2>1. CASE ReadSslByte(m) \/ ReadAuth(m) \/ ReadPostAuth(m)
    <3>1. \/ sock' # "open"
          \/ pc' \in {"tls", "ready", "idle", pc} /\ UNCHANGED sock
      BY <2>1 DEF ReadSslByte, ReadAuth, ReadPostAuth, ConnectRaises, Closed, AfterAuthOk
    <3> QED
      BY <3>1
  <2>2. CASE ReadAnswer(m) \/ ReadStart(m)
    <3>1. \/ sock' = "closed"
          \/ pc' \in {"idle", "stream", pc} /\ UNCHANGED sock
      BY <2>2 DEF ReadAnswer, ReadStart, Leaves
    <3> QED
      BY <3>1
  <2>3. CASE ReadStream(m)
    <3>1. pc' \in {"stream", "unwinding"} \/ Send("reader")
      BY <2>3 DEF ReadStream
    <3>2. ASSUME Send("reader")
          PROVE  pc' \in {pc, "unwinding"}
      BY <3>2 DEF Send, WriteAndDrain, GivesUp
    <3> QED
      BY <2>3, <3>1, <3>2 DEF ReadStream
  <2> QED
    BY <1>3, <2>1, <2>2, <2>3 DEF Read
<1>4. CASE Query \/ StartReplication \/ Leave
  BY <1>4 DEF Query, StartReplication, Calls, Leave
<1>5. CASE StatusDue
  BY <1>5 DEF StatusDue, Send, WriteAndDrain, GivesUp
<1>6. CASE \E s \in Senders : Acquire(s) \/ DrainEnds(s)
  BY <1>6 DEF Acquire, DrainEnds, WriteAndDrain, GivesUp
<1>7. CASE StreamCancelled \/ ReadRaises \/ FeedbackCancelled
  BY <1>7 DEF StreamCancelled, ReadRaises, FeedbackCancelled, Cancelled, GivesUp
<1>8. CASE ConnectionLost \/ Unwound
  BY <1>8 DEF ConnectionLost, Unwound
<1>9. CASE Flush
  BY <1>0, <1>9 DEF Flush, client
<1>10. CASE SrvReplies \/ SrvMoves \/ SrvRow \/ SrvChatters \/ SrvDies
  BY <1>0, <1>10 DEF SrvReplies, SrvMoves, SrvRow, SrvChatters, SrvDies, ServerSends, client
<1>11. CASE UNCHANGED vars
  BY <1>0, <1>11 DEF vars, client
<1> QED
  BY <1>1, <1>2, <1>3, <1>4, <1>5, <1>6, <1>7, <1>8, <1>9, <1>10, <1>11 DEF Next

\* Whatever cuts connect() or ends the session, in whichever phase, the socket is closed
\* (connect's `except BaseException`, and abort).
THEOREM WalsenderNoSocketLeaks == Spec => []NoSocketLeaks
<1>1. Init => NoSocketLeaks
  BY DEF Init, NoSocketLeaks
<1>2. NoSocketLeaks /\ [Next]_vars => NoSocketLeaks'
  BY StepSocket
<1> QED
  BY <1>1, <1>2, PTL DEF Spec

------------------------------------------------------------------------------
\* Client and server agree on where they are.  What makes that inductive is the traffic
\* between them: at most one request is under way, and it is owed at most one ReadyForQuery.

MessageType == AuthTypes \cup {"Yes", "No", "AuthOk", "SaslContinue", "SaslFinal", "KeyData",
  "Ready", "Error", "Notice", "Row", "CopyBoth", "CopyData", "CopyDone", "EOF"}

Place == (0..MaxCommands) \X (0..MaxRows)

\* What the client sends.
Requests == {"SslRequest", "Startup", "Password", "Query", "Start"}

\* The server awaits a password; it has let the client in.
Greeting == {"plain", "sasl", "sasl2"}
InSession == {"let_in", "ready", "busy", "failing", "copy", "copied"}

\* The client's calls behind connect().
Calling == {"idle", "query", "start", "stream", "unwinding"}

\* What the client answers with a password message.
Asking == {"Cleartext", "Md5", "Sasl", "SaslContinue"}

Blank == [rows |-> 0, failed |-> FALSE]

IsAt(i, types) == inbox[i].type \in types

WireTypeOK ==
  /\ command \in 0..MaxCommands
  /\ serving \in 0..command
  /\ answer \in [rows : Seq(Place), error : BOOLEAN, outcome : {"none", "rows", "error"}]
  /\ inbox \in Seq(Message)
  /\ outbox \in Seq(Requests)
  /\ said \in [0..MaxCommands -> [rows : 0..MaxRows, failed : BOOLEAN]]

\* The first exchanges, in step.
Greets ==
  /\ pc = "open" => sock = "none" /\ srv = "accepted"
  /\ pc \in {"ssl", "tls"} => srv \in {"accepted", "closed"}
  /\ pc \in Calling => srv \in InSession \cup {"closed"}
  /\ pc \in Connecting \/ srv \in Greeting \cup {"accepted"} => command = 0
  /\ srv \in Greeting => outbox \in {<<>>, <<"Password">>}
  /\ srv = "accepted" =>
       \/ pc \in {"open", "tls"} /\ outbox = <<>> /\ inbox = <<>>
       \/ pc = "ssl" /\ outbox = <<"SslRequest">> /\ inbox = <<>>
       \/ pc = "ssl" /\ outbox = <<>> /\ Len(inbox) = 1 /\ IsAt(1, {"Yes", "No"})
       \/ pc = "auth" /\ outbox = <<"Startup">> /\ inbox = <<>>
       \/ pc = "failed"
  /\ srv \in Greeting \cup InSession \cup {"accepted", "closed"}

\* A password is asked for once, and then the server waits.
AsksOnce ==
  srv # "closed" =>
    \A i \in DOMAIN inbox : IsAt(i, Asking) =>
      /\ srv \in Greeting /\ outbox = <<>>
      /\ \A j \in DOMAIN inbox : IsAt(j, Asking) => j = i

\* In a session one command at most is on its way, to a server that waits for it.
OneAtATime ==
  srv \in InSession =>
    \/ outbox = <<>> /\ serving = command
    \/ /\ outbox \in {<<"Query">>, <<"Start">>} /\ command = serving + 1
       /\ srv = "ready" /\ pc \notin {"auth", "ready", "idle"}

\* Behind a ReadyForQuery nothing comes but notices and the server's last words.
ReadyIsLast ==
  \A i \in DOMAIN inbox : IsAt(i, {"Ready"}) =>
    /\ pc \notin {"open", "ssl", "tls", "idle"}
    /\ srv \in {"ready", "closed"} /\ serving = command
    /\ srv = "ready" => outbox = <<>>
    /\ \A j \in DOMAIN inbox : j > i =>
         IsAt(j, IF srv = "ready" THEN {"Notice"} ELSE {"Notice", "Error", "EOF"})

\* A query that is not taken up yet has nothing to read.
Queries ==
  pc = "query" /\ srv \in InSession =>
    /\ srv \in {"ready", "busy", "failing"}
    /\ outbox # <<>> =>
         /\ outbox = <<"Query">> /\ answer = NoAnswer
         /\ \A i \in DOMAIN inbox : IsAt(i, {"Notice"})

NotBegun == \A n \in serving + 1..MaxCommands : said[n] = Blank

\* The answer to the query is being given, or is complete.
Answering == srv \in {"busy", "failing"} \/ \E i \in DOMAIN inbox : IsAt(i, {"Ready"})

\* The rows read and the rows to be read are the answer's, in its order.
RowsFollow ==
  LET got == Len(answer.rows)
      all == said[command].rows IN
  /\ got <= all
  /\ \A k \in 1..got : answer.rows[k] = <<command, k>>
  /\ \A i \in DOMAIN inbox : IsAt(i, {"Row"}) => \E k \in got + 1..all : inbox[i].row = <<command, k>>
  /\ \A k \in got + 1..all : \E i \in DOMAIN inbox : IsAt(i, {"Row"}) /\ inbox[i].row = <<command, k>>
  /\ \A i, j \in DOMAIN inbox :
       IsAt(i, {"Row"}) /\ IsAt(j, {"Row"}) /\ i < j => inbox[i].row[2] < inbox[j].row[2]

\* A message before the ReadyForQuery belongs to the answer.
Own(i) == \A r \in DOMAIN inbox : IsAt(r, {"Ready"}) => i < r

FailureFollows ==
  said[command].failed <=> answer.error \/ \E i \in DOMAIN inbox : IsAt(i, {"Error"}) /\ Own(i)

AnswerFollows == pc = "query" /\ Answering => RowsFollow /\ FailureFollows

SyncInv ==
  /\ WireTypeOK /\ Greets /\ AsksOnce /\ OneAtATime /\ ReadyIsLast
  /\ Queries /\ NotBegun /\ AnswerFollows /\ InSync /\ AnswersMatch

\* What is left of the inbox, and where it was.
Less(d) ==
  /\ inbox' \in Seq(Message)
  /\ \A i \in DOMAIN inbox' : i + d \in DOMAIN inbox /\ inbox'[i] = inbox[i + d]

LEMMA Untouched ==
  ASSUME WireTypeOK, UNCHANGED inbox
  PROVE  Less(0)
BY DEF WireTypeOK, Less

LEMMA FirstIsRead ==
  ASSUME WireTypeOK, inbox # <<>>, inbox' = Tail(inbox)
  PROVE  /\ Less(1)
         /\ 1 \in DOMAIN inbox /\ Head(inbox) = inbox[1] /\ inbox[1] \in Message
         /\ \A i \in DOMAIN inbox : i \in Nat /\ i >= 1
         /\ \A i \in DOMAIN inbox : i # 1 => i - 1 \in DOMAIN inbox' /\ inbox'[i - 1] = inbox[i]
<1>1. inbox \in Seq(Message)
  BY DEF WireTypeOK
<1>2. /\ Len(inbox) \in Nat /\ Len(inbox) >= 1 /\ DOMAIN inbox = 1..Len(inbox)
      /\ Tail(inbox) \in Seq(Message) /\ DOMAIN Tail(inbox) = 1..(Len(inbox) - 1)
      /\ \A i \in 1..(Len(inbox) - 1) : Tail(inbox)[i] = inbox[i + 1]
      /\ Head(inbox) = inbox[1] /\ inbox[1] \in Message
  BY <1>1
<1> QED
  BY <1>2 DEF Less

\* What is read less changes nothing of what is asked and promised.
LEMMA LessAsks ==
  ASSUME SyncInv, NEW d \in {0, 1}, Less(d), UNCHANGED <<srv, outbox>>
  PROVE  AsksOnce'
<1>1. \A i \in DOMAIN inbox' : i \in Int /\ i + d \in DOMAIN inbox /\ inbox'[i] = inbox[i + d]
  BY DEF Less
<1> SUFFICES ASSUME srv' # "closed", NEW i \in DOMAIN inbox', IsAt(i, Asking)'
             PROVE  /\ srv' \in Greeting /\ outbox' = <<>>
                    /\ \A j \in DOMAIN inbox' : IsAt(j, Asking)' => j = i
  BY DEF AsksOnce
<1>2. IsAt(i + d, Asking) /\ \A j \in DOMAIN inbox' : IsAt(j, Asking)' => IsAt(j + d, Asking)
  BY <1>1 DEF IsAt
<1>3. /\ srv \in Greeting /\ outbox = <<>>
      /\ \A j \in DOMAIN inbox : IsAt(j, Asking) => j = i + d
  BY <1>1, <1>2 DEF SyncInv, AsksOnce
<1> QED
  BY <1>1, <1>2, <1>3

LEMMA LessReady ==
  ASSUME SyncInv, NEW d \in {0, 1}, Less(d), UNCHANGED <<srv, serving, command>>,
         pc' \notin {"open", "ssl", "tls"},
         pc' = "idle" => \A i \in DOMAIN inbox : d < i => ~IsAt(i, {"Ready"}),
         srv = "ready" /\ outbox' # outbox =>
           \A i \in DOMAIN inbox : d < i => ~IsAt(i, {"Ready"})
  PROVE  ReadyIsLast'
<1>1. \A i \in DOMAIN inbox' : i \in Nat \ {0} /\ i + d \in DOMAIN inbox /\ inbox'[i] = inbox[i + d]
  BY DEF Less
<1> SUFFICES ASSUME NEW i \in DOMAIN inbox', IsAt(i, {"Ready"})'
             PROVE  /\ pc' \notin {"open", "ssl", "tls", "idle"}
                    /\ srv' \in {"ready", "closed"} /\ serving' = command'
                    /\ srv' = "ready" => outbox' = <<>>
                    /\ \A j \in DOMAIN inbox' : j > i =>
                         IsAt(j, IF srv = "ready" THEN {"Notice"} ELSE {"Notice", "Error", "EOF"})'
  BY DEF ReadyIsLast
<1>2. IsAt(i + d, {"Ready"}) /\ d < i + d
  BY <1>1 DEF IsAt
<1>3. /\ srv \in {"ready", "closed"} /\ serving = command
      /\ srv = "ready" => outbox = <<>>
      /\ \A j \in DOMAIN inbox : j > i + d =>
           IsAt(j, IF srv = "ready" THEN {"Notice"} ELSE {"Notice", "Error", "EOF"})
  BY <1>1, <1>2 DEF SyncInv, ReadyIsLast
<1>4. ASSUME NEW j \in DOMAIN inbox', j > i
      PROVE  IsAt(j, IF srv = "ready" THEN {"Notice"} ELSE {"Notice", "Error", "EOF"})'
  <2>1. j + d > i + d /\ j + d \in DOMAIN inbox
    BY <1>1, <1>4
  <2> QED
    BY <1>1, <1>3, <2>1 DEF IsAt
<1> QED
  BY <1>1, <1>2, <1>3, <1>4

\* Where a session ends, or its stream is on, nothing is promised any more.
Away == {"start", "stream", "unwinding", "failed", "left"}

LEMMA AwayKeeps ==
  ASSUME SyncInv, NEW d \in {0, 1}, Less(d), WireTypeOK',
         pc' \in Away, pc' \in Calling => pc \in Calling,
         pc' = "left" => pc \in Calling,
         UNCHANGED <<command, outbox, server>>
  PROVE  SyncInv'
<1>1. UNCHANGED <<srv, serving, said>>
  BY DEF server
<1>2. AsksOnce' /\ ReadyIsLast'
  BY <1>1, LessAsks, LessReady DEF Away
<1>3. Greets'
  BY <1>1 DEF SyncInv, Greets, Away, Calling, InSession, Greeting, Connecting
<1>4. OneAtATime' /\ NotBegun'
  BY <1>1 DEF SyncInv, OneAtATime, NotBegun, Away
<1>5. Queries' /\ AnswerFollows' /\ InSync' /\ AnswersMatch'
  BY DEF Queries, AnswerFollows, InSync, AnswersMatch, Away
<1> QED
  BY <1>2, <1>3, <1>4, <1>5 DEF SyncInv

\* What the server sends comes behind what is there.
More(types) ==
  /\ inbox' \in Seq(Message)
  /\ \A i \in DOMAIN inbox : i \in DOMAIN inbox' /\ inbox'[i] = inbox[i]
  /\ \A k \in 1..Len(types) :
       Len(inbox) + k \in DOMAIN inbox' /\ inbox'[Len(inbox) + k].type = types[k]
  /\ \A i \in DOMAIN inbox' :
       i \in DOMAIN inbox \/ \E k \in 1..Len(types) : i = Len(inbox) + k

LEMMA Arrives ==
  ASSUME WireTypeOK, NEW types \in Seq(MessageType), NEW to, ServerSends(types, to)
  PROVE  /\ More(types)
         /\ sock = "open" /\ srv' = to
         /\ UNCHANGED <<pc, sock, command, answer>>
         /\ Len(inbox) \in Nat /\ DOMAIN inbox = 1..Len(inbox)
<1> DEFINE new == [i \in DOMAIN types |-> [type |-> types[i], row |-> <<0, 0>>]]
<1>1. sock = "open" /\ srv' = to /\ inbox' = inbox \o new /\ UNCHANGED <<pc, sock, command, answer>>
  BY DEF ServerSends, client, calls
<1>2. Len(types) \in Nat /\ DOMAIN types = 1..Len(types) /\ \A k \in 1..Len(types) : types[k] \in MessageType
  OBVIOUS
<1>3. <<0, 0>> \in Place
  BY WalsenderAssumption DEF Place
<1>4. \A k \in 1..Len(types) : new[k] \in Message /\ new[k].type = types[k]
  BY <1>2, <1>3 DEF Message, MessageType, Place
<1>5. new \in Seq(Message) /\ Len(new) = Len(types)
  BY <1>2, <1>4
<1>6. inbox \in Seq(Message)
  BY DEF WireTypeOK
<1> HIDE DEF new
<1>7. /\ inbox \o new \in Seq(Message)
      /\ Len(inbox) \in Nat /\ DOMAIN inbox = 1..Len(inbox)
      /\ DOMAIN (inbox \o new) = 1..(Len(inbox) + Len(types))
      /\ \A i \in 1..Len(inbox) : (inbox \o new)[i] = inbox[i]
      /\ \A k \in 1..Len(types) : (inbox \o new)[Len(inbox) + k] = new[k]
  BY <1>2, <1>5, <1>6
<1>8. \A i \in 1..(Len(inbox) + Len(types)) :
        i \in 1..Len(inbox) \/ \E k \in 1..Len(types) : i = Len(inbox) + k
  <2> SUFFICES ASSUME NEW i \in 1..(Len(inbox) + Len(types)), i \notin 1..Len(inbox)
               PROVE  i - Len(inbox) \in 1..Len(types) /\ i = Len(inbox) + (i - Len(inbox))
    OBVIOUS
  <2> QED
    BY <1>2, <1>7
<1>9. More(types)
  BY <1>1, <1>2, <1>4, <1>7, <1>8 DEF More
<1> QED
  BY <1>1, <1>7, <1>9

LEMMA OneWord ==
  ASSUME NEW a \in MessageType
  PROVE  <<a>> \in Seq(MessageType) /\ Len(<<a>>) = 1 /\ <<a>>[1] = a
OBVIOUS

LEMMA TwoWords ==
  ASSUME NEW a \in MessageType, NEW b \in MessageType
  PROVE  <<a, b>> \in Seq(MessageType) /\ Len(<<a, b>>) = 2 /\ <<a, b>>[1] = a /\ <<a, b>>[2] = b
OBVIOUS

\* The history of an answer that does not fail is left alone.
LEMMA SaidStays ==
  ASSUME WireTypeOK, NEW n
  PROVE  [said EXCEPT ![n].failed = @ \/ FALSE] = said
<1> SUFFICES ASSUME n \in DOMAIN said
             PROVE  [said[n] EXCEPT !.failed = @ \/ FALSE] = said[n]
  BY DEF WireTypeOK
<1>1. said[n] \in [rows : 0..MaxRows, failed : BOOLEAN]
  BY DEF WireTypeOK
<1> QED
  BY <1>1

\* A socket that is open belongs to a connect() or a session that is not over.
LEMMA OpenSocket ==
  ASSUME SyncInv, NoSocketLeaks, sock = "open"
  PROVE  pc \notin {"open", "failed", "left"}
BY DEF SyncInv, Greets, NoSocketLeaks

LEMMA OneRequest ==
  ASSUME WireTypeOK, NEW req, outbox = <<req>>, outbox' = Tail(outbox)
  PROVE  outbox' = <<>> /\ Head(outbox) = req
OBVIOUS

\* Until the client is let in each side has said what it has to, and the other not yet.
LEMMA GreetingReplies ==
  ASSUME SyncInv, NoSocketLeaks, SrvReplies, srv \in Greeting \cup {"accepted"}
  PROVE  SyncInv'
<1>1. PICK r \in Replies :
        /\ srv = r[1]
        /\ outbox # <<>> /\ Head(outbox) = r[2]
        /\ outbox' = Tail(outbox)
        /\ ServerSends(r[3], r[4])
        /\ serving' = IF srv = "ready" THEN serving + 1 ELSE serving
        /\ said' = [said EXCEPT ![serving'].failed = @ \/ srv' = "failing"]
  BY DEF SrvReplies
<1> DEFINE types == r[3]
           to == r[4]
<1>2. WireTypeOK
  BY DEF SyncInv
<1>3. /\ types \in Seq(MessageType)
      /\ to \in Greeting \cup {"let_in", "accepted"}
      /\ \A k \in 1..Len(types) : types[k] # "Ready"
      /\ \A k \in 1..Len(types) : types[k] \in Asking => to \in Greeting /\ k = 1 /\ Len(types) = 1
      /\ to = "accepted" => r[2] = "SslRequest" /\ Len(types) = 1 /\ types[1] \in {"Yes", "No"}
      /\ to # "accepted" => r[2] \in {"Startup", "Password"}
  <2>1. \/ \E byte \in {"Yes", "No"} : r = <<"accepted", "SslRequest", <<byte>>, "accepted">>
        \/ \E method \in {"Cleartext", "Md5", "UnknownAuth"} :
             r = <<"accepted", "Startup", <<method>>, "plain">>
        \/ \E method \in {"Sasl", "SaslPlus"} : r = <<"accepted", "Startup", <<method>>, "sasl">>
        \/ r \in {<<"accepted", "Startup", <<"AuthOk">>, "let_in">>,
                  <<"plain", "Password", <<"AuthOk">>, "let_in">>}
        \/ r = <<"sasl", "Password", <<"SaslContinue">>, "sasl2">>
        \/ r = <<"sasl2", "Password", <<"SaslFinal", "AuthOk">>, "let_in">>
        \/ r[1] = "ready"
    BY DEF Replies
  <2>2. r[1] # "ready"
    BY <1>1 DEF Greeting
  <2>3. ASSUME NEW a \in MessageType, types = <<a>>
        PROVE  types \in Seq(MessageType) /\ Len(types) = 1 /\ types[1] = a
    BY <2>3
  <2>4. CASE to = "accepted"
    <3>1. PICK byte \in {"Yes", "No"} : types = <<byte>> /\ r[2] = "SslRequest"
      BY <2>1, <2>2, <2>4
    <3> QED
      BY <2>3, <2>4, <3>1 DEF MessageType, Asking
  <2>5. CASE to \in {"plain", "sasl"}
    <3>1. PICK method \in AuthTypes : types = <<method>> /\ r[2] = "Startup"
      BY <2>1, <2>2, <2>5 DEF AuthTypes
    <3> QED
      BY <2>3, <2>5, <3>1 DEF MessageType, AuthTypes, Greeting
  <2>6. CASE to = "sasl2"
    <3>1. types = <<"SaslContinue">> /\ r[2] = "Password"
      BY <2>1, <2>2, <2>6
    <3> QED
      BY <2>3, <2>6, <3>1 DEF MessageType, Greeting
  <2>7. CASE to = "let_in"
    <3>1. types \in {<<"AuthOk">>, <<"SaslFinal", "AuthOk">>} /\ r[2] \in {"Startup", "Password"}
      BY <2>1, <2>2, <2>7
    <3>2. CASE types = <<"AuthOk">>
      BY <2>3, <2>7, <3>1, <3>2 DEF MessageType, Asking
    <3>3. CASE types = <<"SaslFinal", "AuthOk">>
      <4>1. /\ types \in Seq(MessageType) /\ Len(types) = 2
            /\ types[1] = "SaslFinal" /\ types[2] = "AuthOk"
        BY <3>3 DEF MessageType
      <4> QED
        BY <2>7, <3>1, <4>1 DEF Asking
    <3> QED
      BY <3>1, <3>2, <3>3
  <2> QED
    BY <2>1, <2>2, <2>4, <2>5, <2>6, <2>7
<1> HIDE DEF types, to
<1>4. /\ More(types) /\ sock = "open" /\ srv' = to
      /\ UNCHANGED <<pc, sock, command, answer>>
      /\ Len(inbox) \in Nat /\ DOMAIN inbox = 1..Len(inbox)
  BY <1>1, <1>2, <1>3, Arrives DEF types, to
<1>5. pc \notin {"open", "failed", "left"}
  BY <1>4, OpenSocket
<1>6. command = 0 /\ serving = 0 /\ pc \notin Calling
  BY WalsenderAssumption DEF SyncInv, Greets, WireTypeOK, InSession, Greeting
<1>7. \E req : outbox = <<req>>
  BY <1>1, <1>5 DEF SyncInv, Greets
<1>8. outbox' = <<>> /\ outbox = <<r[2]>>
  BY <1>1, <1>2, <1>7, OneRequest
<1>9. serving' = 0 /\ said' = said
  BY <1>1, <1>2, <1>3, <1>4, <1>6, SaidStays DEF Greeting
<1>10. WireTypeOK'
  BY <1>2, <1>4, <1>8, <1>9 DEF WireTypeOK, More
<1>11. \A i \in DOMAIN inbox' : ~IsAt(i, {"Ready"})'
  <2>1. \A i \in DOMAIN inbox : ~IsAt(i, {"Ready"})
    BY DEF SyncInv, ReadyIsLast, Greeting
  <2> SUFFICES ASSUME NEW i \in DOMAIN inbox'
               PROVE  inbox'[i].type # "Ready"
    BY DEF IsAt
  <2>2. CASE i \in DOMAIN inbox
    BY <1>4, <2>1, <2>2 DEF More, IsAt
  <2>3. ASSUME NEW k \in 1..Len(types), i = Len(inbox) + k
        PROVE  inbox'[i].type # "Ready"
    BY <1>3, <1>4, <2>3 DEF More
  <2> QED
    BY <1>4, <2>2, <2>3 DEF More
<1>12. AsksOnce'
  <2>1. \A i \in DOMAIN inbox : ~IsAt(i, Asking)
    BY <1>8 DEF SyncInv, AsksOnce, Greeting
  <2>2. \A i \in DOMAIN inbox' : IsAt(i, Asking)' => to \in Greeting /\ i = Len(inbox) + 1
    <3> SUFFICES ASSUME NEW i \in DOMAIN inbox', inbox'[i].type \in Asking
                 PROVE  to \in Greeting /\ i = Len(inbox) + 1
      BY DEF IsAt
    <3>1. i \notin DOMAIN inbox
      BY <1>4, <2>1 DEF More, IsAt
    <3>2. PICK k \in 1..Len(types) : i = Len(inbox) + k
      BY <1>4, <3>1 DEF More
    <3>3. types[k] \in Asking
      BY <1>4, <3>2 DEF More
    <3> QED
      BY <1>3, <3>2, <3>3
  <2> QED
    BY <1>4, <1>8, <2>2 DEF AsksOnce
<1>13. Greets'
  <2>1. CASE to = "accepted"
    <3>1. pc = "ssl" /\ inbox = <<>>
      BY <1>3, <1>5, <1>8, <2>1 DEF SyncInv, Greets
    <3>2. Len(inbox') = 1 /\ IsAt(1, {"Yes", "No"})'
      BY <1>3, <1>4, <2>1, <3>1 DEF More, IsAt
    <3> QED
      BY <1>4, <1>6, <1>8, <2>1, <3>1, <3>2 DEF Greets, InSession, Greeting, Calling
  <2>2. CASE to # "accepted"
    <3>1. pc \notin {"ssl", "tls"}
      BY <1>3, <1>5, <1>8, <2>2 DEF SyncInv, Greets, Greeting
    <3> QED
      BY <1>3, <1>4, <1>5, <1>6, <1>8, <2>2, <3>1 DEF Greets, InSession, Greeting, Calling
  <2> QED
    BY <2>1, <2>2
<1>14. OneAtATime' /\ ReadyIsLast' /\ NotBegun'
  BY <1>4, <1>6, <1>8, <1>9, <1>11 DEF SyncInv, OneAtATime, ReadyIsLast, NotBegun
<1>15. Queries' /\ AnswerFollows' /\ InSync' /\ AnswersMatch'
  BY <1>4, <1>6 DEF Queries, AnswerFollows, InSync, AnswersMatch, Calling
<1> QED
  BY <1>10, <1>12, <1>13, <1>14, <1>15 DEF SyncInv

\* What comes new asks for nothing and is no row.
LEMMA MoreAsks ==
  ASSUME SyncInv, NEW types, More(types), Len(inbox) \in Nat,
         \A k \in 1..Len(types) : types[k] \notin Asking,
         \/ UNCHANGED <<srv, outbox>>
         \/ srv \in InSession
         \/ srv' = "closed"
  PROVE  AsksOnce'
<1> SUFFICES ASSUME srv' # "closed", NEW i \in DOMAIN inbox', inbox'[i].type \in Asking
             PROVE  /\ srv' \in Greeting /\ outbox' = <<>>
                    /\ \A j \in DOMAIN inbox' : inbox'[j].type \in Asking => j = i
  BY DEF AsksOnce, IsAt
<1>1. ASSUME NEW j \in DOMAIN inbox', inbox'[j].type \in Asking
      PROVE  j \in DOMAIN inbox /\ IsAt(j, Asking)
  BY <1>1 DEF More, IsAt
<1>2. i \in DOMAIN inbox /\ IsAt(i, Asking)
  BY <1>1
<1>3. srv # "closed" \/ UNCHANGED <<srv, outbox>>
  BY DEF InSession
<1>4. srv # "closed"
  BY <1>3
<1>5. /\ srv \in Greeting /\ outbox = <<>>
      /\ \A j \in DOMAIN inbox : IsAt(j, Asking) => j = i
  BY <1>2, <1>4 DEF SyncInv, AsksOnce
<1>6. UNCHANGED <<srv, outbox>>
  BY <1>5 DEF Greeting, InSession
<1> QED
  BY <1>1, <1>5, <1>6

LEMMA MoreRows ==
  ASSUME RowsFollow, NEW types, More(types), \A k \in 1..Len(types) : types[k] # "Row",
         UNCHANGED <<command, answer>>, said'[command].rows = said[command].rows
  PROVE  RowsFollow'
<1> DEFINE got == Len(answer.rows)
           all == said[command].rows
<1>1. ASSUME NEW i \in DOMAIN inbox', IsAt(i, {"Row"})'
      PROVE  i \in DOMAIN inbox /\ IsAt(i, {"Row"}) /\ inbox'[i] = inbox[i]
  BY <1>1 DEF More, IsAt
<1>2. \A i \in DOMAIN inbox : i \in DOMAIN inbox' /\ inbox'[i] = inbox[i]
  BY DEF More
<1>3. /\ got' = got /\ all' = all /\ command' = command
      /\ got <= all
      /\ \A k \in 1..got : answer.rows[k] = <<command, k>>
  BY DEF RowsFollow
<1>4. \A i \in DOMAIN inbox' : IsAt(i, {"Row"})' => \E k \in got + 1..all : inbox'[i].row = <<command, k>>
  BY <1>1 DEF RowsFollow
<1>5. \A k \in got + 1..all : \E i \in DOMAIN inbox' : IsAt(i, {"Row"})' /\ inbox'[i].row = <<command, k>>
  BY <1>2 DEF RowsFollow, IsAt
<1>6. \A i, j \in DOMAIN inbox' :
        IsAt(i, {"Row"})' /\ IsAt(j, {"Row"})' /\ i < j => inbox'[i].row[2] < inbox'[j].row[2]
  BY <1>1 DEF RowsFollow
<1> QED
  BY <1>3, <1>4, <1>5, <1>6 DEF RowsFollow

\* A command is taken up.
LEMMA CommandReplies ==
  ASSUME SyncInv, NoSocketLeaks, SrvReplies, srv = "ready"
  PROVE  SyncInv'
<1>1. PICK r \in Replies :
        /\ srv = r[1]
        /\ outbox # <<>> /\ Head(outbox) = r[2]
        /\ outbox' = Tail(outbox)
        /\ ServerSends(r[3], r[4])
        /\ serving' = serving + 1
        /\ said' = [said EXCEPT ![serving'].failed = @ \/ srv' = "failing"]
  BY DEF SrvReplies
<1> DEFINE types == r[3]
           to == r[4]
<1>2. WireTypeOK
  BY DEF SyncInv
<1>3. r \in {<<"ready", "Query", <<>>, "busy">>, <<"ready", "Start", <<"CopyBoth">>, "copy">>,
             <<"ready", "Start", <<"Error">>, "failing">>}
  BY <1>1 DEF Replies
<1>4. /\ types \in Seq(MessageType)
      /\ \A k \in 1..Len(types) : types[k] \in {"CopyBoth", "Error"}
  <2>1. CASE types = <<>>
    BY <2>1
  <2>2. ASSUME NEW a \in {"CopyBoth", "Error"}, types = <<a>>
        PROVE  types \in Seq(MessageType) /\ Len(types) = 1 /\ types[1] = a
    BY <2>2 DEF MessageType
  <2>3. types = <<>> \/ \E a \in {"CopyBoth", "Error"} : types = <<a>>
    BY <1>3
  <2> HIDE DEF types
  <2> QED
    BY <2>1, <2>2, <2>3
<1>5. to \in {"busy", "copy", "failing"} /\ (r[2] = "Query" => to = "busy" /\ types = <<>>)
  BY <1>3
<1> HIDE DEF types, to
<1>6. /\ More(types) /\ sock = "open" /\ srv' = to
      /\ UNCHANGED <<pc, sock, command, answer>>
      /\ Len(inbox) \in Nat /\ DOMAIN inbox = 1..Len(inbox)
  BY <1>1, <1>2, <1>4, Arrives DEF types, to
<1>7. /\ outbox \in {<<"Query">>, <<"Start">>} /\ command = serving + 1
      /\ pc \notin {"open", "failed", "left", "ssl", "tls", "auth", "ready", "idle"}
  BY <1>1, <1>6, OpenSocket DEF SyncInv, OneAtATime, InSession, Greets
<1>8. outbox' = <<>> /\ outbox = <<r[2]>>
  BY <1>1, <1>2, <1>7, OneRequest
<1>9. serving' = command /\ command \in 0..MaxCommands
  BY <1>1, <1>2, <1>7 DEF WireTypeOK
<1>10. /\ said' \in [0..MaxCommands -> [rows : 0..MaxRows, failed : BOOLEAN]]
       /\ \A n \in 0..MaxCommands : n # command => said'[n] = said[n]
       /\ to = "busy" => said' = said
  <2>1. said \in [0..MaxCommands -> [rows : 0..MaxRows, failed : BOOLEAN]]
    BY <1>2 DEF WireTypeOK
  <2>2. said' = [said EXCEPT ![command].failed = @ \/ to = "failing"]
    BY <1>1, <1>6, <1>9
  <2>3. CASE to = "busy"
    BY <1>2, <2>1, <2>2, <2>3, SaidStays
  <2>4. CASE to # "busy"
    BY <2>1, <2>2, <2>4
  <2> QED
    BY <2>3, <2>4
<1>11. WireTypeOK'
  BY <1>2, <1>6, <1>8, <1>9, <1>10 DEF WireTypeOK, More
<1>12. \A i \in DOMAIN inbox' : ~IsAt(i, {"Ready"})'
  <2>1. \A i \in DOMAIN inbox : ~IsAt(i, {"Ready"})
    BY <1>1 DEF SyncInv, ReadyIsLast
  <2> QED
    BY <1>4, <1>6, <2>1 DEF More, IsAt
<1>13. AsksOnce'
  BY <1>4, <1>6, MoreAsks DEF Asking, InSession
<1>14. Greets'
  BY <1>5, <1>6, <1>7, <1>8 DEF Greets, InSession, Greeting, Calling, Connecting
<1>15. OneAtATime' /\ ReadyIsLast'
  BY <1>6, <1>8, <1>9, <1>12 DEF OneAtATime, ReadyIsLast
<1>16. NotBegun'
  BY <1>2, <1>7, <1>9, <1>10 DEF SyncInv, NotBegun, WireTypeOK
<1>17. pc = "query" =>
         /\ to = "busy" /\ types = <<>> /\ answer = NoAnswer
         /\ \A i \in DOMAIN inbox : IsAt(i, {"Notice"})
  BY <1>1, <1>5, <1>8 DEF SyncInv, Queries, InSession
<1>18. Queries'
  BY <1>6, <1>8, <1>17 DEF Queries
<1>19. ASSUME pc = "query"
       PROVE  RowsFollow' /\ FailureFollows'
  <2>1. \A i \in DOMAIN inbox' : inbox'[i].type = "Notice"
    BY <1>6, <1>17, <1>19 DEF More, IsAt
  <2>2. said'[command] = Blank
    BY <1>2, <1>7, <1>10, <1>17, <1>19 DEF SyncInv, NotBegun, WireTypeOK
  <2>3. answer'.rows = <<>> /\ answer'.error = FALSE /\ command' = command
    BY <1>6, <1>17, <1>19 DEF NoAnswer
  <2> QED
    BY <2>1, <2>2, <2>3 DEF RowsFollow, FailureFollows, IsAt, Blank
<1>20. AnswerFollows' /\ InSync' /\ AnswersMatch'
  BY <1>6, <1>7, <1>19 DEF AnswerFollows, InSync, AnswersMatch
<1> QED
  BY <1>11, <1>13, <1>14, <1>15, <1>16, <1>18, <1>20 DEF SyncInv

\* The end of an answer, its failure, or the end of what was copied.
LEMMA MovesKeep ==
  ASSUME SyncInv, NoSocketLeaks, SrvMoves
  PROVE  SyncInv'
<1>1. PICK m \in Moves :
        /\ srv = m[1]
        /\ ServerSends(m[2], m[3])
        /\ said' = [said EXCEPT ![serving].failed = @ \/ srv' = "failing"]
        /\ UNCHANGED <<outbox, serving>>
  BY DEF SrvMoves
<1> DEFINE types == m[2]
           to == m[3]
<1>2. WireTypeOK
  BY DEF SyncInv
<1>3. \/ srv = "let_in" /\ types = <<"KeyData", "Ready">> /\ to = "ready"
      \/ srv \in {"busy", "failing"} /\ types = <<"Ready">> /\ to = "ready"
      \/ srv = "busy" /\ types = <<"Error">> /\ to = "failing"
      \/ srv = "copy" /\ types = <<"CopyDone">> /\ to = "copied"
  BY <1>1 DEF Moves
<1>4. /\ types \in Seq(MessageType) /\ Len(types) \in {1, 2}
      /\ \A k \in 1..Len(types) :
           /\ types[k] \in {"KeyData", "Ready", "Error", "CopyDone"}
           /\ types[k] = "Ready" => to = "ready" /\ k = Len(types)
           /\ types[k] = "Error" => to = "failing"
      /\ to = "failing" => Len(types) = 1 /\ types[1] = "Error"
  <2>1. CASE types = <<"KeyData", "Ready">>
    BY <1>3, <2>1, TwoWords DEF MessageType
  <2>2. CASE types = <<"Ready">>
    BY <1>3, <2>2, OneWord DEF MessageType
  <2>3. CASE types = <<"Error">>
    <3>1. to = "failing"
      BY <1>3, <2>3
    <3> QED
      BY <2>3, <3>1, OneWord DEF MessageType
  <2>4. CASE types = <<"CopyDone">>
    <3>1. to = "copied"
      BY <1>3, <2>4
    <3> QED
      BY <2>4, <3>1, OneWord DEF MessageType
  <2> HIDE DEF types, to
  <2> QED
    BY <1>3, <2>1, <2>2, <2>3, <2>4
<1>5. /\ srv \in InSession \ {"ready"} /\ to \in InSession
      /\ to \in {"ready", "failing", "copied"}
      /\ to = "copied" => srv = "copy"
  <2> HIDE DEF types, to
  <2> QED
    BY <1>3 DEF InSession
<1>6. \A k \in 1..Len(types) :
        /\ types[k] \in {"KeyData", "Ready", "Error", "CopyDone"}
        /\ types[k] = "Ready" => to = "ready" /\ k = Len(types)
        /\ types[k] = "Error" => to = "failing"
  BY <1>4
<1> HIDE DEF types, to
<1>7. /\ More(types) /\ sock = "open" /\ srv' = to
      /\ UNCHANGED <<pc, sock, command, answer>>
      /\ Len(inbox) \in Nat /\ DOMAIN inbox = 1..Len(inbox)
  BY <1>1, <1>2, <1>4, Arrives DEF types, to
<1>8. /\ outbox = <<>> /\ serving = command /\ UNCHANGED <<outbox, serving>>
      /\ pc \notin {"open", "failed", "left", "ssl", "tls", "idle"}
      /\ pc = "query" => srv \in {"busy", "failing"}
      /\ pc \in Connecting => command = 0
  BY <1>1, <1>5, <1>7, OpenSocket
  DEF SyncInv, OneAtATime, InSession, Greets, InSync, Queries
<1>9. \A i \in DOMAIN inbox : ~IsAt(i, {"Ready"})
  BY <1>5 DEF SyncInv, ReadyIsLast, InSession
<1>10. /\ said' \in [0..MaxCommands -> [rows : 0..MaxRows, failed : BOOLEAN]]
       /\ \A n \in 0..MaxCommands : n # command => said'[n] = said[n]
       /\ said'[command].rows = said[command].rows
       /\ to # "failing" => said' = said
       /\ to = "failing" => said'[command].failed = TRUE
  <2>1. /\ said \in [0..MaxCommands -> [rows : 0..MaxRows, failed : BOOLEAN]]
        /\ command \in 0..MaxCommands
    BY <1>2 DEF WireTypeOK
  <2>2. said' = [said EXCEPT ![command].failed = @ \/ to = "failing"]
    BY <1>1, <1>7, <1>8
  <2>3. CASE to # "failing"
    <3>1. said' = said
      BY <1>2, <2>2, <2>3, SaidStays
    <3> QED
      BY <2>1, <2>3, <3>1
  <2>4. CASE to = "failing"
    BY <2>1, <2>2, <2>4
  <2> QED
    BY <2>3, <2>4
<1>11. WireTypeOK'
  BY <1>2, <1>7, <1>8, <1>10 DEF WireTypeOK, More
<1>12. \A i \in DOMAIN inbox' : IsAt(i, {"Ready"})' =>
         to = "ready" /\ i = Len(inbox) + Len(types)
  <2> SUFFICES ASSUME NEW i \in DOMAIN inbox', inbox'[i].type = "Ready"
               PROVE  to = "ready" /\ i = Len(inbox) + Len(types)
    BY DEF IsAt
  <2>1. PICK k \in 1..Len(types) : i = Len(inbox) + k
    BY <1>7, <1>9 DEF More, IsAt
  <2>2. types[k] = "Ready"
    BY <1>7, <2>1 DEF More
  <2> QED
    BY <1>6, <2>1, <2>2
<1>13. \A i \in DOMAIN inbox' : i \in Nat /\ i <= Len(inbox) + Len(types)
  BY <1>4, <1>7 DEF More
<1>14. AsksOnce'
  BY <1>5, <1>6, <1>7, MoreAsks DEF Asking
<1>15. Greets'
  BY <1>5, <1>7, <1>8 DEF Greets, InSession, Greeting, Calling
<1>16. OneAtATime' /\ Queries'
  BY <1>5, <1>7, <1>8 DEF OneAtATime, Queries
<1>17. ReadyIsLast'
  <2>1. \A i, j \in DOMAIN inbox' : IsAt(i, {"Ready"})' => ~(j > i)
    BY <1>4, <1>7, <1>12, <1>13
  <2> QED
    BY <1>7, <1>8, <1>12, <2>1 DEF ReadyIsLast
<1>18. NotBegun'
  BY <1>2, <1>8, <1>10 DEF SyncInv, NotBegun, WireTypeOK
<1>19. ASSUME pc = "query"
       PROVE  RowsFollow' /\ FailureFollows'
  <2>1. RowsFollow /\ FailureFollows
    BY <1>8, <1>19 DEF SyncInv, AnswerFollows, Answering
  <2>2. RowsFollow'
    BY <1>6, <1>7, <1>10, <2>1, MoreRows
  <2>3. CASE to = "failing"
    <3>1. \E i \in DOMAIN inbox' : inbox'[i].type = "Error"
      <4>1. 1 \in 1..Len(types) /\ types[1] = "Error"
        BY <1>4, <2>3
      <4>2. \E i \in DOMAIN inbox' : i = Len(inbox) + 1 /\ inbox'[i].type = types[1]
        BY <1>7, <4>1, Zenon DEF More
      <4> QED
        BY <4>1, <4>2
    <3>2. \A i \in DOMAIN inbox' : Own(i)'
      BY <1>12, <2>3 DEF Own
    <3>3. said'[command'].failed = TRUE
      BY <1>7, <1>10, <2>3
    <3>4. \E i \in DOMAIN inbox' : IsAt(i, {"Error"})' /\ Own(i)'
      BY <3>1, <3>2 DEF IsAt
    <3>5. FailureFollows'
      BY <3>3, <3>4 DEF FailureFollows
    <3> QED
      BY <2>2, <3>5
  <2>4. CASE to # "failing"
    <3>1. said' = said /\ answer' = answer /\ command' = command
      BY <1>7, <1>10, <2>4
    <3>2. ASSUME NEW i \in DOMAIN inbox, IsAt(i, {"Error"})
          PROVE  i \in DOMAIN inbox' /\ IsAt(i, {"Error"})' /\ Own(i)'
      <4>1. i \in DOMAIN inbox' /\ inbox'[i] = inbox[i] /\ i <= Len(inbox) /\ i \in Nat
        BY <1>7 DEF More
      <4>2. Own(i)'
        BY <1>4, <1>7, <1>12, <4>1 DEF Own
      <4> QED
        BY <3>2, <4>1, <4>2 DEF IsAt
    <3>3. ASSUME NEW i \in DOMAIN inbox', IsAt(i, {"Error"})'
          PROVE  i \in DOMAIN inbox /\ IsAt(i, {"Error"}) /\ Own(i)
      <4>1. i \in DOMAIN inbox
        BY <1>6, <1>7, <2>4, <3>3 DEF More, IsAt
      <4> QED
        BY <1>7, <1>9, <3>3, <4>1 DEF More, IsAt, Own
    <3> QED
      BY <2>1, <2>2, <3>1, <3>2, <3>3 DEF FailureFollows
  <2> QED
    BY <2>3, <2>4
<1>20. AnswerFollows' /\ InSync' /\ AnswersMatch'
  BY <1>7, <1>8, <1>19 DEF AnswerFollows, InSync, AnswersMatch
<1> QED
  BY <1>11, <1>14, <1>15, <1>16, <1>17, <1>18, <1>20 DEF SyncInv

\* A row of the answer that is being given.
LEMMA RowKeeps ==
  ASSUME SyncInv, NoSocketLeaks, SrvRow
  PROVE  SyncInv'
<1> DEFINE all == said[serving].rows
           row == [type |-> "Row", row |-> <<serving, all + 1>>]
<1>1. WireTypeOK
  BY DEF SyncInv
<1>2. /\ sock = "open" /\ srv = "busy" /\ all < MaxRows
      /\ UNCHANGED <<pc, sock, command, answer, outbox, srv, serving>>
      /\ said' = [said EXCEPT ![serving].rows = @ + 1]
  BY DEF SrvRow, client, calls
<1>3. outbox = <<>> /\ serving = command /\ command \in 0..MaxCommands
  BY <1>1, <1>2 DEF SyncInv, OneAtATime, InSession, WireTypeOK
<1>4. /\ said \in [0..MaxCommands -> [rows : 0..MaxRows, failed : BOOLEAN]]
      /\ all \in 0..MaxRows /\ MaxRows \in Nat
  BY <1>1, <1>3, WalsenderAssumption DEF WireTypeOK
<1>5. /\ said' \in [0..MaxCommands -> [rows : 0..MaxRows, failed : BOOLEAN]]
      /\ \A n \in 0..MaxCommands : n # command => said'[n] = said[n]
      /\ said'[command].rows = all + 1
      /\ said'[command].failed = said[command].failed
  BY <1>2, <1>3, <1>4
<1>6. row \in Message /\ row.type = "Row" /\ row.row = <<command, all + 1>>
  BY <1>2, <1>3, <1>4 DEF Message
<1>7. inbox' = Append(inbox, row)
  BY <1>2, <1>3, <1>5 DEF SrvRow
<1> HIDE DEF row
<1>8. /\ inbox' \in Seq(Message)
      /\ Len(inbox) \in Nat /\ DOMAIN inbox = 1..Len(inbox)
      /\ DOMAIN inbox' = 1..(Len(inbox) + 1)
      /\ \A i \in DOMAIN inbox : inbox'[i] = inbox[i]
      /\ inbox'[Len(inbox) + 1] = row
  BY <1>1, <1>6, <1>7 DEF WireTypeOK
<1>9. \A i \in DOMAIN inbox' :
        \/ i \in DOMAIN inbox /\ inbox'[i] = inbox[i]
        \/ i = Len(inbox) + 1 /\ inbox'[i].type = "Row" /\ inbox'[i].row = <<command, all + 1>>
  BY <1>6, <1>8
<1>10. WireTypeOK'
  BY <1>1, <1>2, <1>5, <1>8 DEF WireTypeOK
<1>11. /\ pc \notin {"open", "failed", "left", "ssl", "tls", "idle"}
       /\ \A i \in DOMAIN inbox : ~IsAt(i, {"Ready"})
  BY <1>2, OpenSocket DEF SyncInv, InSync, ReadyIsLast, Greets
<1>12. \A i \in DOMAIN inbox' : ~IsAt(i, {"Ready"})'
  BY <1>9, <1>11 DEF IsAt
<1>13. AsksOnce'
  BY <1>2, <1>9 DEF SyncInv, AsksOnce, IsAt, Asking, Greeting
<1>14. Greets' /\ OneAtATime' /\ ReadyIsLast' /\ Queries'
  BY <1>2, <1>3, <1>11, <1>12
  DEF SyncInv, Greets, OneAtATime, ReadyIsLast, Queries, InSession, Greeting, Calling
<1>15. NotBegun'
  BY <1>1, <1>2, <1>3, <1>5 DEF SyncInv, NotBegun, WireTypeOK
<1>16. ASSUME pc = "query"
       PROVE  RowsFollow' /\ FailureFollows'
  <2> DEFINE got == Len(answer.rows)
  <2>1. RowsFollow /\ FailureFollows
    BY <1>2, <1>16 DEF SyncInv, AnswerFollows, Answering
  <2>2. got \in Nat /\ got <= all
    BY <1>1, <1>3, <2>1 DEF WireTypeOK, RowsFollow
  <2>3. /\ \A k \in 1..got : answer.rows[k] = <<command, k>>
        /\ \A i \in DOMAIN inbox : IsAt(i, {"Row"}) =>
             \E k \in got + 1..all : inbox[i].row = <<command, k>>
        /\ \A k \in got + 1..all :
             \E i \in DOMAIN inbox : IsAt(i, {"Row"}) /\ inbox[i].row = <<command, k>>
        /\ \A i, j \in DOMAIN inbox :
             IsAt(i, {"Row"}) /\ IsAt(j, {"Row"}) /\ i < j => inbox[i].row[2] < inbox[j].row[2]
    BY <1>3, <2>1 DEF RowsFollow
  <2> HIDE DEF got, all
  <2>4. \A i \in DOMAIN inbox' : IsAt(i, {"Row"})' =>
          \E k \in got + 1..all + 1 : inbox'[i].row = <<command, k>>
    <3> SUFFICES ASSUME NEW i \in DOMAIN inbox', inbox'[i].type = "Row"
                 PROVE  \E k \in got + 1..all + 1 : inbox'[i].row = <<command, k>>
      BY DEF IsAt
    <3>1. CASE i \in DOMAIN inbox /\ inbox'[i] = inbox[i]
      <4>1. PICK k \in got + 1..all : inbox[i].row = <<command, k>>
        BY <2>3, <3>1 DEF IsAt
      <4>2. k \in got + 1..all + 1
        BY <1>4, <2>2, <4>1
      <4> QED
        BY <3>1, <4>1, <4>2
    <3>2. CASE inbox'[i].row = <<command, all + 1>>
      BY <1>4, <2>2, <3>2
    <3> QED
      BY <1>9, <3>1, <3>2
  <2>5. ASSUME NEW k \in got + 1..all + 1
        PROVE  \E i \in DOMAIN inbox' : IsAt(i, {"Row"})' /\ inbox'[i].row = <<command, k>>
    <3>1. CASE k = all + 1
      <4>1. Len(inbox) + 1 \in DOMAIN inbox' /\ inbox'[Len(inbox) + 1] = row
        BY <1>8
      <4> QED
        BY <1>6, <3>1, <4>1 DEF IsAt
    <3>2. CASE k # all + 1
      <4>1. k \in got + 1..all
        BY <1>4, <2>2, <3>2
      <4>2. PICK i \in DOMAIN inbox : IsAt(i, {"Row"}) /\ inbox[i].row = <<command, k>>
        BY <2>3, <4>1
      <4>3. i \in DOMAIN inbox' /\ inbox'[i] = inbox[i]
        BY <1>8
      <4> QED
        BY <4>2, <4>3 DEF IsAt
    <3> QED
      BY <3>1, <3>2
  <2>6. ASSUME NEW i \in DOMAIN inbox', NEW j \in DOMAIN inbox',
               IsAt(i, {"Row"})', IsAt(j, {"Row"})', i < j
        PROVE  inbox'[i].row[2] < inbox'[j].row[2]
    <3>1. i \in DOMAIN inbox /\ inbox'[i] = inbox[i] /\ IsAt(i, {"Row"})
      BY <1>8, <2>6 DEF IsAt
    <3>2. CASE j \in DOMAIN inbox /\ inbox'[j] = inbox[j]
      BY <2>3, <2>6, <3>1, <3>2 DEF IsAt
    <3>3. CASE inbox'[j].row = <<command, all + 1>>
      <4>1. PICK k \in got + 1..all : inbox[i].row = <<command, k>>
        BY <2>3, <3>1
      <4>2. inbox'[i].row[2] = k /\ inbox'[j].row[2] = all + 1 /\ k < all + 1
        BY <1>4, <2>2, <3>1, <3>3, <4>1
      <4> QED
        BY <4>2
    <3> QED
      BY <1>9, <3>2, <3>3
  <2>7. said'[command'].rows = all + 1 /\ answer' = answer /\ command' = command
    BY <1>2, <1>5
  <2>8. RowsFollow'
    BY <1>4, <2>2, <2>3, <2>4, <2>5, <2>6, <2>7 DEF RowsFollow, got
  <2>9. FailureFollows'
    <3>1. said'[command'].failed = said[command].failed /\ answer' = answer
      BY <1>2, <1>5
    <3>2. \A i \in DOMAIN inbox : Own(i) /\ i \in DOMAIN inbox' /\ inbox'[i] = inbox[i]
      BY <1>8, <1>11 DEF Own
    <3>3. \A i \in DOMAIN inbox' : Own(i)' /\ (IsAt(i, {"Error"})' => i \in DOMAIN inbox)
      BY <1>9, <1>12 DEF Own, IsAt
    <3> QED
      BY <2>1, <3>1, <3>2, <3>3 DEF FailureFollows, IsAt
  <2> QED
    BY <2>8, <2>9
<1>17. AnswerFollows' /\ InSync' /\ AnswersMatch'
  BY <1>2, <1>11, <1>16 DEF AnswerFollows, InSync, AnswersMatch
<1> QED
  BY <1>10, <1>13, <1>14, <1>15, <1>17 DEF SyncInv

\* What comes new is no row, and no error of the answer's.
LEMMA MoreAnswer ==
  ASSUME AnswerFollows, NEW types, More(types), Len(inbox) \in Nat, DOMAIN inbox = 1..Len(inbox),
         \A k \in 1..Len(types) :
           /\ types[k] \notin {"Row", "Ready"}
           /\ types[k] = "Error" => \E r \in DOMAIN inbox : IsAt(r, {"Ready"}),
         srv' \in {srv, "closed"},
         UNCHANGED <<pc, command, answer, said>>
  PROVE  AnswerFollows'
<1>1. \A i \in DOMAIN inbox : i \in DOMAIN inbox' /\ inbox'[i] = inbox[i]
  BY DEF More
<1>2. ASSUME NEW i \in DOMAIN inbox', IsAt(i, {"Ready"})'
      PROVE  i \in DOMAIN inbox /\ IsAt(i, {"Ready"})
  BY <1>2 DEF More, IsAt
<1>3. Answering' => Answering
  BY <1>2 DEF Answering
<1>4. ASSUME RowsFollow, FailureFollows
      PROVE  RowsFollow' /\ FailureFollows'
  <2>1. RowsFollow'
    BY <1>4, MoreRows
  <2>2. \A i \in DOMAIN inbox : Own(i)' <=> Own(i)
    BY <1>1, <1>2 DEF Own, IsAt
  <2>3. ASSUME NEW i \in DOMAIN inbox', IsAt(i, {"Error"})', Own(i)'
        PROVE  i \in DOMAIN inbox
    <3> SUFFICES ASSUME i \notin DOMAIN inbox
                 PROVE  FALSE
      OBVIOUS
    <3>1. PICK k \in 1..Len(types) : i = Len(inbox) + k
      BY DEF More
    <3>2. types[k] = "Error"
      BY <2>3, <3>1 DEF More, IsAt
    <3>3. PICK r \in DOMAIN inbox : IsAt(r, {"Ready"})
      BY <3>2
    <3>4. r \in DOMAIN inbox' /\ IsAt(r, {"Ready"})'
      BY <1>1, <3>3 DEF IsAt
    <3>5. i < r
      BY <2>3, <3>4 DEF Own
    <3> QED
      BY <3>1, <3>3, <3>5
  <2>4. FailureFollows'
    BY <1>1, <1>4, <2>2, <2>3 DEF FailureFollows, IsAt
  <2> QED
    BY <2>1, <2>4
<1> QED
  BY <1>3, <1>4 DEF AnswerFollows

\* A notice, or data in a stream.
LEMMA ChatKeeps ==
  ASSUME SyncInv, NoSocketLeaks, SrvChatters
  PROVE  SyncInv'
<1>1. PICK type \in {"Notice"} \cup (IF srv = "copy" THEN {"CopyData"} ELSE {}) :
        ServerSends(<<type>>, srv)
  BY DEF SrvChatters
<1>2. /\ srv \notin {"accepted", "closed"} /\ UNCHANGED <<outbox, serving, said>>
      /\ type \in {"Notice", "CopyData"} /\ (srv # "copy" => type = "Notice")
  BY DEF SrvChatters
<1>3. WireTypeOK
  BY DEF SyncInv
<1> DEFINE types == <<type>>
<1>4. types \in Seq(MessageType) /\ Len(types) = 1 /\ types[1] = type
  BY <1>2, OneWord DEF MessageType
<1> HIDE DEF types
<1>5. /\ More(types) /\ sock = "open" /\ UNCHANGED srv
      /\ UNCHANGED <<pc, sock, command, answer>>
      /\ Len(inbox) \in Nat /\ DOMAIN inbox = 1..Len(inbox)
  BY <1>1, <1>3, <1>4, Arrives DEF types
<1>6. \A k \in 1..Len(types) : types[k] = type
  BY <1>4
<1>7. ASSUME NEW i \in DOMAIN inbox'
      PROVE  (i \in DOMAIN inbox /\ inbox'[i] = inbox[i]) \/ inbox'[i].type = type
  BY <1>5, <1>6 DEF More
<1>8. WireTypeOK'
  BY <1>2, <1>3, <1>5 DEF WireTypeOK, More
<1>9. AsksOnce'
  BY <1>2, <1>5, <1>6, MoreAsks DEF Asking
<1>10. Greets' /\ OneAtATime' /\ NotBegun'
  BY <1>2, <1>5 DEF SyncInv, Greets, OneAtATime, NotBegun
<1>11. ReadyIsLast'
  <2> SUFFICES ASSUME NEW i \in DOMAIN inbox', IsAt(i, {"Ready"})'
               PROVE  /\ pc' \notin {"open", "ssl", "tls", "idle"}
                      /\ srv' \in {"ready", "closed"} /\ serving' = command'
                      /\ srv' = "ready" => outbox' = <<>>
                      /\ \A j \in DOMAIN inbox' : j > i => IsAt(j, {"Notice"})' /\ srv = "ready"
    BY <1>5 DEF ReadyIsLast, IsAt
  <2>1. i \in DOMAIN inbox /\ IsAt(i, {"Ready"})
    BY <1>2, <1>7 DEF IsAt
  <2>2. /\ pc \notin {"open", "ssl", "tls", "idle"}
        /\ srv = "ready" /\ serving = command /\ outbox = <<>>
        /\ \A j \in DOMAIN inbox : j > i => IsAt(j, {"Notice"})
    BY <1>2, <2>1 DEF SyncInv, ReadyIsLast
  <2> QED
    BY <1>2, <1>5, <1>7, <2>2 DEF IsAt
<1>12. Queries'
  BY <1>2, <1>5, <1>7 DEF SyncInv, Queries, IsAt
<1>13. AnswerFollows'
  BY <1>2, <1>5, <1>6, MoreAnswer DEF SyncInv
<1>14. InSync' /\ AnswersMatch'
  BY <1>2, <1>5, <1>7 DEF SyncInv, InSync, AnswersMatch, IsAt
<1> QED
  BY <1>8, <1>9, <1>10, <1>11, <1>12, <1>13, <1>14 DEF SyncInv

\* The server's last words, or none.
LEMMA DiesKeeps ==
  ASSUME SyncInv, NoSocketLeaks, SrvDies
  PROVE  SyncInv'
<1>1. PICK types \in {<<"EOF">>, <<"Error", "EOF">>} : ServerSends(types, "closed")
  BY DEF SrvDies
<1>2. srv # "closed" /\ UNCHANGED <<outbox, serving, said>>
  BY DEF SrvDies
<1>3. WireTypeOK
  BY DEF SyncInv
<1>4. types \in Seq(MessageType) /\ \A k \in 1..Len(types) : types[k] \in {"Error", "EOF"}
  <2>1. CASE types = <<"EOF">>
    BY <2>1, OneWord DEF MessageType
  <2>2. CASE types = <<"Error", "EOF">>
    BY <2>2, TwoWords DEF MessageType
  <2> QED
    BY <2>1, <2>2
<1>5. /\ More(types) /\ sock = "open" /\ srv' = "closed"
      /\ UNCHANGED <<pc, sock, command, answer>>
      /\ Len(inbox) \in Nat /\ DOMAIN inbox = 1..Len(inbox)
  BY <1>1, <1>3, <1>4, Arrives
<1>6. ASSUME NEW i \in DOMAIN inbox'
      PROVE  (i \in DOMAIN inbox /\ inbox'[i] = inbox[i]) \/ inbox'[i].type \in {"Error", "EOF"}
  BY <1>4, <1>5 DEF More
<1>7. WireTypeOK'
  BY <1>2, <1>3, <1>5 DEF WireTypeOK, More
<1>8. AsksOnce' /\ OneAtATime' /\ Queries'
  BY <1>5 DEF AsksOnce, OneAtATime, Queries, InSession
<1>9. Greets' /\ NotBegun'
  BY <1>2, <1>5, OpenSocket DEF SyncInv, Greets, NotBegun, InSession, Greeting
<1>10. ReadyIsLast'
  <2> SUFFICES ASSUME NEW i \in DOMAIN inbox', IsAt(i, {"Ready"})'
               PROVE  /\ pc' \notin {"open", "ssl", "tls", "idle"} /\ serving' = command'
                      /\ \A j \in DOMAIN inbox' : j > i => inbox'[j].type \in {"Notice", "Error", "EOF"}
    BY <1>5 DEF ReadyIsLast, IsAt
  <2>1. i \in DOMAIN inbox /\ IsAt(i, {"Ready"})
    BY <1>6 DEF IsAt
  <2>2. /\ pc \notin {"open", "ssl", "tls", "idle"} /\ serving = command
        /\ \A j \in DOMAIN inbox : j > i => inbox[j].type = "Notice"
    BY <1>2, <2>1 DEF SyncInv, ReadyIsLast, IsAt
  <2> QED
    BY <1>2, <1>5, <1>6, <2>2
<1>11. AnswerFollows'
  <2>1. CASE \E r \in DOMAIN inbox : IsAt(r, {"Ready"})
    BY <1>2, <1>4, <1>5, <2>1, MoreAnswer DEF SyncInv
  <2>2. CASE ~\E r \in DOMAIN inbox : IsAt(r, {"Ready"})
    <3>1. ~Answering'
      BY <1>5, <1>6, <2>2 DEF Answering, IsAt
    <3> QED
      BY <3>1 DEF AnswerFollows
  <2> QED
    BY <2>1, <2>2
<1>12. InSync' /\ AnswersMatch'
  BY <1>2, <1>5, <1>6 DEF SyncInv, InSync, AnswersMatch
<1> QED
  BY <1>7, <1>8, <1>9, <1>10, <1>11, <1>12 DEF SyncInv

LEMMA WireAway ==
  ASSUME WireTypeOK, NEW d \in {0, 1}, Less(d), UNCHANGED <<command, outbox, server>>,
         \/ UNCHANGED answer
         \/ \E error \in BOOLEAN :
              answer' = [rows |-> answer.rows, error |-> error, outcome |-> "error"]
  PROVE  WireTypeOK'
BY DEF WireTypeOK, Less, server

\* The error a session ends with.
LEMMA LeavingIs ==
  ASSUME WireTypeOK, NEW m,
         answer' = [answer EXCEPT !.error = @ \/ m.type = "Error", !.outcome = "error"]
  PROVE  \E error \in BOOLEAN :
           answer' = [rows |-> answer.rows, error |-> error, outcome |-> "error"]
<1>1. answer \in [rows : Seq(Place), error : BOOLEAN, outcome : {"none", "rows", "error"}]
  BY DEF WireTypeOK
<1>2. answer' = [rows |-> answer.rows, error |-> answer.error \/ m.type = "Error", outcome |-> "error"]
  BY <1>1
<1>3. (answer.error \/ m.type = "Error") \in BOOLEAN
  BY Zenon
<1> QED
  BY <1>2, <1>3

\* A step of connect(), or of the end of a session, that reads nothing.
LEMMA FailsKeeps ==
  ASSUME SyncInv, UNCHANGED <<command, answer, inbox, outbox, server>>,
         pc' \in Away, pc' \in Calling \cup {"left"} => pc \in Calling
  PROVE  SyncInv'
<1>1. Less(0) /\ WireTypeOK
  BY Untouched DEF SyncInv
<1>2. WireTypeOK'
  BY <1>1, WireAway
<1> QED
  BY <1>1, <1>2, AwayKeeps

LEMMA OpenedKeeps ==
  ASSUME SyncInv, Opened
  PROVE  SyncInv'
<1>1. /\ pc = "open" /\ sock' = "open"
      /\ pc' = IF given.ssl THEN "ssl" ELSE "auth"
      /\ outbox' = Append(outbox, IF given.ssl THEN "SslRequest" ELSE "Startup")
      /\ UNCHANGED <<command, answer, inbox, srv, serving, said>>
  BY DEF Opened, Sends, calls, server
<1>2. srv = "accepted" /\ outbox = <<>> /\ inbox = <<>> /\ command = 0
  BY <1>1 DEF SyncInv, Greets, Connecting
<1>3. outbox' = <<IF given.ssl THEN "SslRequest" ELSE "Startup">>
  BY <1>1, <1>2
<1>4. WireTypeOK'
  BY <1>1, <1>3 DEF SyncInv, WireTypeOK, Requests
<1>5. Greets'
  BY <1>1, <1>2, <1>3 DEF Greets, Calling, Greeting, InSession
<1> QED
  BY <1>1, <1>2, <1>4, <1>5
  DEF SyncInv, AsksOnce, OneAtATime, ReadyIsLast, Queries, NotBegun, AnswerFollows, InSync,
      AnswersMatch, InSession

LEMMA TlsKeeps ==
  ASSUME SyncInv, TlsDone
  PROVE  SyncInv'
<1>1. /\ pc = "tls" /\ pc' = "auth" /\ outbox' = Append(outbox, "Startup")
      /\ UNCHANGED <<command, answer, inbox, srv, serving, said>>
  BY DEF TlsDone, Sends, server
<1>2. /\ srv \in {"accepted", "closed"} /\ command = 0
      /\ srv = "accepted" => outbox = <<>> /\ inbox = <<>>
      /\ \A i \in DOMAIN inbox : ~IsAt(i, {"Ready"})
  BY <1>1 DEF SyncInv, Greets, ReadyIsLast, Connecting
<1>3. srv = "accepted" => outbox' = <<"Startup">>
  BY <1>1, <1>2
<1>4. WireTypeOK'
  BY <1>1 DEF SyncInv, WireTypeOK, Requests
<1>5. Greets'
  BY <1>1, <1>2, <1>3 DEF Greets, Calling, Greeting, InSession
<1>6. AsksOnce' /\ ReadyIsLast'
  BY <1>1, <1>2 DEF AsksOnce, ReadyIsLast, IsAt
<1> QED
  BY <1>1, <1>2, <1>4, <1>5, <1>6
  DEF SyncInv, OneAtATime, Queries, NotBegun, AnswerFollows, InSync, AnswersMatch, InSession

\* A command is sent, to a server that waits for it or has gone.
LEMMA CallsKeep ==
  ASSUME SyncInv, NEW call \in {"query", "start"}, NEW type, Calls(call, type),
         type = IF call = "query" THEN "Query" ELSE "Start"
  PROVE  SyncInv'
<1>1. /\ pc = "idle" /\ command < MaxCommands /\ pc' = call /\ command' = command + 1
      /\ answer' = NoAnswer /\ outbox' = Append(outbox, type)
      /\ UNCHANGED <<inbox, srv, serving, said>>
  BY DEF Calls, Sends, server
<1>2. /\ srv \in {"ready", "closed"}
      /\ srv = "ready" => \A i \in DOMAIN inbox : IsAt(i, {"Notice"})
      /\ \A i \in DOMAIN inbox : ~IsAt(i, {"Ready"})
  BY <1>1 DEF SyncInv, InSync, ReadyIsLast, IsAt
<1>3. srv = "ready" => outbox = <<>> /\ serving = command
  BY <1>1 DEF SyncInv, OneAtATime, InSession
<1>4. srv = "ready" => outbox' = <<type>>
  BY <1>1, <1>3
<1>5. WireTypeOK'
  <2>1. command' \in 0..MaxCommands /\ serving' \in 0..command'
    BY <1>1, WalsenderAssumption DEF SyncInv, WireTypeOK
  <2>2. NoAnswer \in [rows : Seq(Place), error : BOOLEAN, outcome : {"none", "rows", "error"}]
    BY DEF NoAnswer
  <2>3. outbox' \in Seq(Requests)
    BY <1>1 DEF SyncInv, WireTypeOK, Requests
  <2> QED
    BY <1>1, <2>1, <2>2, <2>3 DEF SyncInv, WireTypeOK
<1>6. Greets'
  BY <1>1, <1>2 DEF Greets, Calling, Greeting, InSession, Connecting
<1>7. AsksOnce'
  BY <1>1, <1>2 DEF AsksOnce, IsAt, Asking
<1>8. OneAtATime'
  BY <1>1, <1>2, <1>3, <1>4 DEF OneAtATime, InSession
<1>9. ReadyIsLast'
  BY <1>1, <1>2 DEF ReadyIsLast, IsAt
<1>10. Queries'
  BY <1>1, <1>2, <1>4 DEF Queries, InSession, IsAt
<1>11. NotBegun'
  BY <1>1 DEF SyncInv, NotBegun
<1>12. AnswerFollows' /\ InSync' /\ AnswersMatch'
  BY <1>1, <1>2 DEF AnswerFollows, Answering, IsAt, InSync, AnswersMatch
<1> QED
  BY <1>5, <1>6, <1>7, <1>8, <1>9, <1>10, <1>11, <1>12 DEF SyncInv

\* connect() reads on.
LEMMA ReadTls ==
  ASSUME SyncInv, inbox # <<>>, inbox' = Tail(inbox), inbox[1].type = "Yes",
         pc = "ssl", pc' = "tls", UNCHANGED <<sock, command, answer, outbox, server>>
  PROVE  SyncInv'
<1>1. Less(1) /\ WireTypeOK
  BY FirstIsRead DEF SyncInv
<1>2. UNCHANGED <<srv, serving, said>>
  BY DEF server
<1>3. /\ srv \in {"accepted", "closed"} /\ command = 0
      /\ \A i \in DOMAIN inbox : ~IsAt(i, {"Ready"})
  BY DEF SyncInv, Greets, ReadyIsLast, Connecting
<1>4. srv = "accepted" => outbox = <<>> /\ inbox' = <<>>
  <2> SUFFICES ASSUME srv = "accepted"
               PROVE  outbox = <<>> /\ inbox' = <<>>
    OBVIOUS
  <2>1. outbox = <<>> /\ Len(inbox) = 1
    BY DEF SyncInv, Greets
  <2> QED
    BY <1>1, <2>1 DEF WireTypeOK
<1>5. WireTypeOK'
  BY <1>1, WireAway
<1>6. Greets'
  BY <1>2, <1>3, <1>4 DEF Greets, Calling, Greeting, InSession
<1>7. AsksOnce'
  BY <1>1, <1>2, LessAsks
<1>8. ReadyIsLast'
  BY <1>1, <1>3 DEF ReadyIsLast, Less, IsAt
<1> QED
  BY <1>2, <1>3, <1>5, <1>6, <1>7, <1>8
  DEF SyncInv, OneAtATime, Queries, NotBegun, AnswerFollows, InSync, AnswersMatch, InSession

LEMMA ReadAuthKeeps ==
  ASSUME SyncInv, inbox # <<>>, inbox' = Tail(inbox),
         pc = "auth", pc' \in {"auth", "ready"},
         IF inbox[1].type \in Asking THEN outbox' = Append(outbox, "Password") ELSE UNCHANGED outbox,
         UNCHANGED <<sock, command, answer, server>>
  PROVE  SyncInv'
<1>1. /\ Less(1) /\ 1 \in DOMAIN inbox /\ WireTypeOK
      /\ \A i \in DOMAIN inbox : i \in Nat /\ i >= 1
  BY FirstIsRead DEF SyncInv
<1>2. UNCHANGED <<srv, serving, said>>
  BY DEF server
<1>3. srv # "accepted" /\ command = 0
  BY DEF SyncInv, Greets, Connecting
<1>4. inbox[1].type \in Asking /\ srv # "closed" =>
        /\ srv \in Greeting /\ outbox' = <<"Password">>
        /\ \A i \in DOMAIN inbox : IsAt(i, Asking) => i = 1
  <2> SUFFICES ASSUME inbox[1].type \in Asking, srv # "closed"
               PROVE  /\ srv \in Greeting /\ outbox' = <<"Password">>
                      /\ \A i \in DOMAIN inbox : IsAt(i, Asking) => i = 1
    OBVIOUS
  <2>1. /\ srv \in Greeting /\ outbox = <<>>
        /\ \A i \in DOMAIN inbox : IsAt(i, Asking) => i = 1
    BY <1>1 DEF SyncInv, AsksOnce, IsAt
  <2> QED
    BY <2>1
<1>5. WireTypeOK'
  <2>1. outbox' \in Seq(Requests)
    <3>1. outbox \in Seq(Requests) /\ "Password" \in Requests
      BY <1>1 DEF WireTypeOK, Requests
    <3>2. outbox' = outbox \/ outbox' = Append(outbox, "Password")
      OBVIOUS
    <3> QED
      BY <3>1, <3>2
  <2> QED
    BY <1>1, <1>2, <2>1 DEF WireTypeOK, Less
<1>6. Greets'
  BY <1>2, <1>3, <1>4 DEF SyncInv, Greets, Calling, Greeting, InSession, Connecting
<1>7. AsksOnce'
  <2>1. CASE inbox[1].type \notin Asking
    BY <1>1, <1>2, <2>1, LessAsks
  <2>2. CASE inbox[1].type \in Asking /\ srv # "closed"
    <3>1. \A i \in DOMAIN inbox' : ~IsAt(i, Asking)'
      BY <1>1, <1>4, <2>2 DEF Less, IsAt
    <3> QED
      BY <3>1 DEF AsksOnce
  <2>3. CASE srv = "closed"
    BY <1>2, <2>3 DEF AsksOnce
  <2> QED
    BY <2>1, <2>2, <2>3
<1>8. OneAtATime'
  BY <1>2, <1>4 DEF SyncInv, OneAtATime, InSession, Greeting
<1>9. ReadyIsLast'
  BY <1>1, <1>2, <1>4, LessReady DEF Greeting
<1> QED
  BY <1>2, <1>5, <1>6, <1>7, <1>8, <1>9
  DEF SyncInv, Queries, NotBegun, AnswerFollows, InSync, AnswersMatch

\* Reading a ReadyForQuery leaves client and server in step.
LEMMA ReadyIsInSync ==
  ASSUME SyncInv, NEW d \in {1}, Less(d), 1 \in DOMAIN inbox, IsAt(1, {"Ready"}),
         \A i \in DOMAIN inbox : i \in Nat /\ i >= 1,
         pc \notin {"idle"}, pc' = "idle", UNCHANGED <<command, outbox, srv, serving, said>>
  PROVE  /\ AsksOnce' /\ Greets' /\ OneAtATime' /\ ReadyIsLast' /\ Queries' /\ NotBegun'
         /\ AnswerFollows' /\ InSync'
         /\ \A i \in DOMAIN inbox : ~IsAt(i, {"Row"}) /\ (IsAt(i, {"Error"}) => ~Own(i))
<1>1. /\ srv \in {"ready", "closed"} /\ serving = command
      /\ srv = "ready" => outbox = <<>>
      /\ \A j \in DOMAIN inbox : j > 1 =>
           IsAt(j, IF srv = "ready" THEN {"Notice"} ELSE {"Notice", "Error", "EOF"})
  BY DEF SyncInv, ReadyIsLast
<1>2. \A i \in DOMAIN inbox' : i + 1 \in DOMAIN inbox /\ i + 1 > 1 /\ inbox'[i] = inbox[i + 1]
  BY DEF Less
<1>3. AsksOnce'
  BY LessAsks
<1>4. ReadyIsLast'
  BY <1>1, <1>2 DEF ReadyIsLast, IsAt
<1>5. Greets' /\ OneAtATime' /\ NotBegun'
  BY <1>1 DEF SyncInv, Greets, OneAtATime, NotBegun, Calling, InSession, Greeting, Connecting
<1>6. Queries' /\ AnswerFollows' /\ InSync'
  BY <1>1, <1>2 DEF Queries, AnswerFollows, InSync, IsAt
<1>7. ASSUME NEW i \in DOMAIN inbox
      PROVE  ~IsAt(i, {"Row"}) /\ (IsAt(i, {"Error"}) => ~Own(i))
  <2>1. CASE i = 1
    BY <2>1 DEF IsAt
  <2>2. CASE i # 1
    <3>1. i > 1
      BY <2>2
    <3>2. ~IsAt(i, {"Row"})
      BY <1>1, <3>1 DEF IsAt
    <3> QED
      BY <3>1, <3>2 DEF Own
  <2> QED
    BY <2>1, <2>2
<1> QED
  BY <1>3, <1>4, <1>5, <1>6, <1>7

LEMMA ReadPostAuthKeeps ==
  ASSUME SyncInv, inbox # <<>>, inbox' = Tail(inbox),
         pc = "ready", pc' = IF inbox[1].type = "Ready" THEN "idle" ELSE "ready",
         UNCHANGED <<sock, command, answer, outbox, server>>
  PROVE  SyncInv'
<1>1. /\ Less(1) /\ 1 \in DOMAIN inbox /\ WireTypeOK
      /\ \A i \in DOMAIN inbox : i \in Nat /\ i >= 1
  BY FirstIsRead DEF SyncInv
<1>2. UNCHANGED <<srv, serving, said>>
  BY DEF server
<1>3. command = 0
  BY DEF SyncInv, Greets, Connecting
<1>4. WireTypeOK'
  BY <1>1, WireAway
<1>5. CASE inbox[1].type = "Ready"
  <2>1. /\ AsksOnce' /\ Greets' /\ OneAtATime' /\ ReadyIsLast' /\ Queries' /\ NotBegun'
        /\ AnswerFollows' /\ InSync'
    BY <1>1, <1>2, <1>5, ReadyIsInSync DEF IsAt
  <2>2. AnswersMatch'
    BY <1>3 DEF AnswersMatch
  <2> QED
    BY <1>4, <2>1, <2>2 DEF SyncInv
<1>6. CASE inbox[1].type # "Ready"
  <2>1. AsksOnce' /\ ReadyIsLast'
    BY <1>1, <1>2, <1>6, LessAsks, LessReady
  <2>2. Greets' /\ OneAtATime' /\ NotBegun'
    BY <1>2, <1>6 DEF SyncInv, Greets, OneAtATime, NotBegun
  <2>3. Queries' /\ AnswerFollows' /\ InSync' /\ AnswersMatch'
    BY <1>6 DEF Queries, AnswerFollows, InSync, AnswersMatch
  <2> QED
    BY <1>4, <2>1, <2>2, <2>3 DEF SyncInv
<1> QED
  BY <1>5, <1>6

\* What is read of an answer is its next message.
LEMMA NextRow ==
  ASSUME WireTypeOK, RowsFollow, inbox # <<>>, inbox' = Tail(inbox), command' = command,
         said' = said,
         answer'.rows = IF IsAt(1, {"Row"}) THEN Append(answer.rows, inbox[1].row) ELSE answer.rows
  PROVE  RowsFollow'
<1> DEFINE got == Len(answer.rows)
           all == said[command].rows
<1>1. /\ Less(1) /\ 1 \in DOMAIN inbox
      /\ \A i \in DOMAIN inbox : i \in Nat /\ i >= 1
      /\ \A i \in DOMAIN inbox : i # 1 => i - 1 \in DOMAIN inbox' /\ inbox'[i - 1] = inbox[i]
  BY FirstIsRead
<1>2. \A i \in DOMAIN inbox' : i \in Nat /\ i + 1 \in DOMAIN inbox /\ inbox'[i] = inbox[i + 1]
  BY <1>1 DEF Less
<1>3. /\ got \in Nat /\ all \in Nat /\ got <= all
      /\ answer.rows \in Seq(Place)
      /\ \A k \in 1..got : answer.rows[k] = <<command, k>>
      /\ \A i \in DOMAIN inbox : IsAt(i, {"Row"}) =>
           \E k \in got + 1..all : inbox[i].row = <<command, k>>
      /\ \A k \in got + 1..all :
           \E i \in DOMAIN inbox : IsAt(i, {"Row"}) /\ inbox[i].row = <<command, k>>
      /\ \A i, j \in DOMAIN inbox :
           IsAt(i, {"Row"}) /\ IsAt(j, {"Row"}) /\ i < j => inbox[i].row[2] < inbox[j].row[2]
  <2>1. all \in 0..MaxRows
    BY DEF WireTypeOK
  <2>2. MaxRows \in Nat /\ answer.rows \in Seq(Place)
    BY WalsenderAssumption DEF WireTypeOK
  <2> QED
    BY <2>1, <2>2 DEF RowsFollow
<1> HIDE DEF got, all
<1>4. \A i, j \in DOMAIN inbox' :
        IsAt(i, {"Row"})' /\ IsAt(j, {"Row"})' /\ i < j => inbox'[i].row[2] < inbox'[j].row[2]
  <2> SUFFICES ASSUME NEW i \in DOMAIN inbox', NEW j \in DOMAIN inbox',
                      inbox'[i].type = "Row", inbox'[j].type = "Row", i < j
               PROVE  inbox'[i].row[2] < inbox'[j].row[2]
    BY DEF IsAt
  <2>1. i + 1 < j + 1
    BY <1>2
  <2> QED
    BY <1>2, <1>3, <2>1 DEF IsAt
<1>5. CASE ~IsAt(1, {"Row"})
  <2>1. \A i \in DOMAIN inbox' : IsAt(i, {"Row"})' =>
          \E k \in got + 1..all : inbox'[i].row = <<command, k>>
    BY <1>2, <1>3 DEF IsAt
  <2>2. \A k \in got + 1..all :
          \E i \in DOMAIN inbox' : IsAt(i, {"Row"})' /\ inbox'[i].row = <<command, k>>
    <3> SUFFICES ASSUME NEW k \in got + 1..all
                 PROVE  \E i \in DOMAIN inbox' : inbox'[i].type = "Row" /\ inbox'[i].row = <<command, k>>
      BY DEF IsAt
    <3>1. PICK i \in DOMAIN inbox : IsAt(i, {"Row"}) /\ inbox[i].row = <<command, k>>
      BY <1>3
    <3>2. i - 1 \in DOMAIN inbox' /\ inbox'[i - 1] = inbox[i]
      BY <1>1, <1>5, <3>1
    <3> QED
      BY <3>1, <3>2 DEF IsAt
  <2>3. answer'.rows = answer.rows
    BY <1>5
  <2> QED
    BY <1>3, <1>4, <2>1, <2>2, <2>3 DEF RowsFollow, got, all
<1>6. CASE IsAt(1, {"Row"})
  <2>1. PICK n \in got + 1..all : inbox[1].row = <<command, n>>
    BY <1>1, <1>3, <1>6
  <2>2. n = got + 1
    <3> SUFFICES ASSUME n # got + 1
                 PROVE  FALSE
      OBVIOUS
    <3>1. got + 1 \in got + 1..all
      BY <1>3, <2>1
    <3>2. PICK i \in DOMAIN inbox : IsAt(i, {"Row"}) /\ inbox[i].row = <<command, got + 1>>
      BY <1>3, <3>1
    <3>3. i # 1
      BY <2>1, <3>2
    <3>4. 1 < i
      BY <1>1, <3>3
    <3>5. inbox[1].row[2] < inbox[i].row[2]
      BY <1>1, <1>3, <1>6, <3>2, <3>4
    <3>6. n < got + 1
      BY <2>1, <3>2, <3>5
    <3> QED
      BY <1>3, <2>1, <3>6
  <2>3. /\ Len(answer'.rows) = got + 1
        /\ \A k \in 1..got : answer'.rows[k] = answer.rows[k]
        /\ answer'.rows[got + 1] = <<command, got + 1>>
    BY <1>3, <1>6, <2>1, <2>2 DEF got
  <2>4. /\ got + 1 <= all
        /\ \A k \in 1..got + 1 : answer'.rows[k] = <<command, k>>
    BY <1>3, <2>1, <2>3
  <2>5. \A i \in DOMAIN inbox' : IsAt(i, {"Row"})' =>
          \E k \in got + 2..all : inbox'[i].row = <<command, k>>
    <3> SUFFICES ASSUME NEW i \in DOMAIN inbox', inbox'[i].type = "Row"
                 PROVE  \E k \in got + 2..all : inbox'[i].row = <<command, k>>
      BY DEF IsAt
    <3>1. i + 1 \in DOMAIN inbox /\ inbox'[i] = inbox[i + 1] /\ IsAt(i + 1, {"Row"}) /\ 1 < i + 1
      BY <1>1, <1>2 DEF IsAt
    <3>2. PICK k \in got + 1..all : inbox[i + 1].row = <<command, k>>
      BY <1>3, <3>1
    <3>3. inbox[1].row[2] < inbox[i + 1].row[2]
      BY <1>1, <1>3, <1>6, <3>1
    <3>4. got + 1 < k
      BY <2>1, <2>2, <3>2, <3>3
    <3>5. k \in got + 2..all
      BY <1>3, <3>2, <3>4
    <3> QED
      BY <3>1, <3>2, <3>5
  <2>6. \A k \in got + 2..all :
          \E i \in DOMAIN inbox' : IsAt(i, {"Row"})' /\ inbox'[i].row = <<command, k>>
    <3> SUFFICES ASSUME NEW k \in got + 2..all
                 PROVE  \E i \in DOMAIN inbox' : inbox'[i].type = "Row" /\ inbox'[i].row = <<command, k>>
      BY DEF IsAt
    <3>1. PICK i \in DOMAIN inbox : IsAt(i, {"Row"}) /\ inbox[i].row = <<command, k>>
      BY <1>3
    <3>2. i # 1
      BY <1>3, <2>1, <2>2, <3>1
    <3>3. i - 1 \in DOMAIN inbox' /\ inbox'[i - 1] = inbox[i]
      BY <1>1, <3>2
    <3> QED
      BY <3>1, <3>3 DEF IsAt
  <2>7. /\ Len(answer'.rows) = got + 1 /\ Len(answer'.rows) + 1 = got + 2
        /\ said'[command'].rows = all /\ command' = command
    BY <1>3, <2>3 DEF all
  <2>8. /\ Len(answer'.rows) <= said'[command'].rows
        /\ \A k \in 1..Len(answer'.rows) : answer'.rows[k] = <<command', k>>
    BY <2>4, <2>7
  <2>9. \A i \in DOMAIN inbox' : IsAt(i, {"Row"})' =>
          \E k \in Len(answer'.rows) + 1..said'[command'].rows : inbox'[i].row = <<command', k>>
    BY <2>5, <2>7
  <2>10. \A k \in Len(answer'.rows) + 1..said'[command'].rows :
           \E i \in DOMAIN inbox' : IsAt(i, {"Row"})' /\ inbox'[i].row = <<command', k>>
    BY <2>6, <2>7
  <2> QED
    BY <1>4, <2>8, <2>9, <2>10 DEF RowsFollow
<1> QED
  BY <1>5, <1>6

\* So is its failure.
LEMMA NextFailure ==
  ASSUME WireTypeOK, FailureFollows, inbox # <<>>, inbox' = Tail(inbox), ~IsAt(1, {"Ready"}),
         command' = command, said' = said,
         answer'.error = (answer.error \/ inbox[1].type = "Error")
  PROVE  FailureFollows'
<1>1. /\ Less(1) /\ 1 \in DOMAIN inbox
      /\ \A i \in DOMAIN inbox : i \in Nat /\ i >= 1
      /\ \A i \in DOMAIN inbox : i # 1 => i - 1 \in DOMAIN inbox' /\ inbox'[i - 1] = inbox[i]
  BY FirstIsRead
<1>2. \A i \in DOMAIN inbox' : i \in Nat /\ i + 1 \in DOMAIN inbox /\ inbox'[i] = inbox[i + 1]
  BY <1>1 DEF Less
<1>3. Own(1)
  BY <1>1 DEF Own, IsAt
<1>4. ASSUME NEW i \in DOMAIN inbox', inbox'[i].type = "Error", Own(i)'
      PROVE  i + 1 \in DOMAIN inbox /\ IsAt(i + 1, {"Error"}) /\ Own(i + 1)
  <2>1. ASSUME NEW r \in DOMAIN inbox, IsAt(r, {"Ready"})
        PROVE  i + 1 < r
    <3>1. r # 1
      BY <2>1
    <3>2. r - 1 \in DOMAIN inbox' /\ inbox'[r - 1].type = "Ready"
      BY <1>1, <2>1, <3>1 DEF IsAt
    <3>3. i < r - 1
      BY <1>4, <3>2 DEF Own, IsAt
    <3> QED
      BY <1>1, <1>2, <3>3
  <2> QED
    BY <1>2, <1>4, <2>1 DEF Own, IsAt
<1>5. ASSUME NEW i \in DOMAIN inbox, i # 1, IsAt(i, {"Error"}), Own(i)
      PROVE  \E j \in DOMAIN inbox' : IsAt(j, {"Error"})' /\ Own(j)'
  <2>1. ASSUME NEW j \in DOMAIN inbox', j = i - 1
        PROVE  Own(j)'
    <3> SUFFICES ASSUME NEW r \in DOMAIN inbox', inbox'[r].type = "Ready"
                 PROVE  j < r
      BY DEF Own, IsAt
    <3>1. i < r + 1
      BY <1>2, <1>5 DEF Own, IsAt
    <3> QED
      BY <1>1, <1>2, <2>1, <3>1
  <2>2. PICK j \in DOMAIN inbox' : j = i - 1 /\ inbox'[j].type = "Error"
    BY <1>1, <1>5 DEF IsAt
  <2> QED
    BY <2>1, <2>2 DEF IsAt
<1>6. (\E i \in DOMAIN inbox : IsAt(i, {"Error"}) /\ Own(i)) <=>
        IsAt(1, {"Error"}) \/ \E i \in DOMAIN inbox' : IsAt(i, {"Error"})' /\ Own(i)'
  BY <1>1, <1>3, <1>4, <1>5 DEF IsAt
<1>7. answer'.error <=> answer.error \/ IsAt(1, {"Error"})
  BY DEF IsAt
<1> QED
  BY <1>6, <1>7 DEF FailureFollows

\* The answer that is complete is the answer that was given.
LEMMA CompleteMatches ==
  ASSUME SyncInv, pc = "query", 1 \in DOMAIN inbox, IsAt(1, {"Ready"}),
         \A i \in DOMAIN inbox : ~IsAt(i, {"Row"}) /\ (IsAt(i, {"Error"}) => ~Own(i)),
         UNCHANGED <<command, said>>,
         answer' = [rows |-> answer.rows, error |-> answer.error,
                    outcome |-> IF answer.error THEN "error" ELSE "rows"]
  PROVE  AnswersMatch'
<1>1. WireTypeOK /\ RowsFollow /\ FailureFollows
  BY DEF SyncInv, AnswerFollows, Answering
<1>2. said[command].failed <=> answer.error
  BY <1>1 DEF FailureFollows
<1>3. /\ Len(answer.rows) \in Nat /\ said[command].rows \in Nat
      /\ answer.rows \in Seq(Place) /\ answer.error \in BOOLEAN
  <2>1. said[command].rows \in 0..MaxRows /\ MaxRows \in Nat
    BY <1>1, WalsenderAssumption DEF WireTypeOK
  <2> QED
    BY <1>1, <2>1 DEF WireTypeOK
<1>4. Len(answer.rows) = said[command].rows
  <2>1. Len(answer.rows) + 1 \notin Len(answer.rows) + 1..said[command].rows
    BY <1>1 DEF RowsFollow
  <2> QED
    BY <1>1, <1>3, <2>1 DEF RowsFollow
<1>5. answer.rows = [i \in 1..said[command].rows |-> <<command, i>>]
  <2>1. \A k \in 1..said[command].rows : answer.rows[k] = <<command, k>>
    BY <1>1, <1>4 DEF RowsFollow
  <2>2. answer.rows = [i \in 1..Len(answer.rows) |-> answer.rows[i]]
    BY <1>3
  <2> QED
    BY <1>4, <2>1, <2>2
<1>6. /\ said'[command'].failed = said[command].failed
      /\ answer'.rows = answer.rows
      /\ answer'.outcome = IF answer.error THEN "error" ELSE "rows"
  OBVIOUS
<1> QED
  BY <1>2, <1>5, <1>6 DEF AnswersMatch

\* simple_query_rows reads on.
LEMMA ReadAnswerKeeps ==
  ASSUME SyncInv, inbox # <<>>, inbox' = Tail(inbox), ReadAnswer(Head(inbox)),
         UNCHANGED server
  PROVE  SyncInv'
<1> DEFINE m == inbox[1]
<1>1. /\ Less(1) /\ 1 \in DOMAIN inbox /\ WireTypeOK /\ m \in Message /\ Head(inbox) = m
      /\ \A i \in DOMAIN inbox : i \in Nat /\ i >= 1
  BY FirstIsRead DEF SyncInv
<1>2. UNCHANGED <<srv, serving, said>>
  BY DEF server
<1>3. pc = "query" /\ UNCHANGED <<command, outbox>>
  BY DEF ReadAnswer
<1>4. CASE m.type = "EOF"
  <2>1. /\ pc' = "left"
        /\ answer' = [answer EXCEPT !.error = @ \/ m.type = "Error", !.outcome = "error"]
    BY <1>1, <1>4 DEF ReadAnswer, Leaves
  <2>2. WireTypeOK'
    BY <1>1, <1>3, <2>1, WireAway, LeavingIs
  <2> QED
    BY <1>1, <1>3, <2>1, <2>2, AwayKeeps DEF Away, Calling
<1>5. CASE m.type # "EOF"
  <2> DEFINE failed == answer.error \/ m.type = "Error"
  <2>1. /\ answer' = [rows |-> IF m.type = "Row" THEN Append(answer.rows, m.row) ELSE answer.rows,
                      error |-> failed,
                      outcome |-> IF m.type # "Ready" THEN "none"
                                  ELSE IF failed THEN "error" ELSE "rows"]
        /\ pc' = IF m.type = "Ready" THEN "idle" ELSE pc
    BY <1>1, <1>5 DEF ReadAnswer, Kept, Answered
  <2>2. answer \in [rows : Seq(Place), error : BOOLEAN, outcome : {"none", "rows", "error"}]
    BY <1>1 DEF WireTypeOK
  <2>3. m.row \in Place
    BY <1>1 DEF Message, Place
  <2>4. failed \in BOOLEAN
    BY Zenon
  <2> HIDE DEF failed
  <2>5. answer' \in [rows : Seq(Place), error : BOOLEAN, outcome : {"none", "rows", "error"}]
    BY <2>1, <2>2, <2>3, <2>4
  <2>6. WireTypeOK'
    BY <1>1, <1>2, <1>3, <2>5 DEF WireTypeOK, Less
  <2>7. CASE m.type = "Ready"
    <3>1. IsAt(1, {"Ready"})
      BY <2>7 DEF IsAt
    <3>2. /\ AsksOnce' /\ Greets' /\ OneAtATime' /\ ReadyIsLast' /\ Queries' /\ NotBegun'
          /\ AnswerFollows' /\ InSync'
          /\ \A i \in DOMAIN inbox : ~IsAt(i, {"Row"}) /\ (IsAt(i, {"Error"}) => ~Own(i))
      BY <1>1, <1>2, <1>3, <2>1, <2>7, <3>1, ReadyIsInSync
    <3>3. failed = answer.error
      BY <2>2, <2>7 DEF failed
    <3>4. answer' = [rows |-> answer.rows, error |-> answer.error,
                     outcome |-> IF answer.error THEN "error" ELSE "rows"]
      BY <2>1, <2>7, <3>3
    <3>5. AnswersMatch'
      BY <1>1, <1>2, <1>3, <3>1, <3>2, <3>4, CompleteMatches
    <3> QED
      BY <2>6, <3>2, <3>5 DEF SyncInv
  <2>8. CASE m.type # "Ready"
    <3>1. pc' = "query"
      BY <1>3, <2>1, <2>8
    <3>2. AsksOnce' /\ ReadyIsLast'
      BY <1>1, <1>2, <1>3, <3>1, LessAsks, LessReady
    <3>3. Greets' /\ OneAtATime' /\ NotBegun'
      BY <1>2, <1>3, <3>1 DEF SyncInv, Greets, OneAtATime, NotBegun, Connecting, Calling
    <3>4. Queries'
      <4> SUFFICES ASSUME srv \in InSession
                   PROVE  /\ srv \in {"ready", "busy", "failing"}
                          /\ outbox # <<>> =>
                               /\ outbox = <<"Query">> /\ answer' = NoAnswer
                               /\ \A i \in DOMAIN inbox' : inbox'[i].type = "Notice"
        BY <1>2, <1>3, <3>1 DEF Queries, IsAt
      <4>1. /\ srv \in {"ready", "busy", "failing"}
            /\ outbox # <<>> => /\ outbox = <<"Query">> /\ answer = NoAnswer
                                /\ \A i \in DOMAIN inbox : inbox[i].type = "Notice"
        BY <1>3 DEF SyncInv, Queries, IsAt
      <4>2. ASSUME outbox # <<>>
            PROVE  answer' = NoAnswer /\ \A i \in DOMAIN inbox' : inbox'[i].type = "Notice"
        <5>1. m.type = "Notice" /\ answer = NoAnswer
          BY <1>1, <4>1, <4>2
        <5>2. failed = FALSE
          BY <5>1 DEF failed, NoAnswer
        <5>3. answer' = NoAnswer
          BY <2>1, <5>1, <5>2 DEF NoAnswer
        <5> QED
          BY <1>1, <4>1, <4>2, <5>3 DEF Less
      <4> QED
        BY <4>1, <4>2
    <3>5. AnswerFollows'
      <4>1. Answering' => Answering
        BY <1>1, <1>2 DEF Answering, Less, IsAt
      <4>2. ASSUME RowsFollow, FailureFollows
            PROVE  RowsFollow' /\ FailureFollows'
        <5>1. answer'.rows = IF IsAt(1, {"Row"}) THEN Append(answer.rows, m.row) ELSE answer.rows
          BY <2>1 DEF IsAt
        <5>2. answer'.error = (answer.error \/ m.type = "Error") /\ ~IsAt(1, {"Ready"})
          BY <2>1, <2>8 DEF IsAt, failed
        <5> QED
          BY <1>1, <1>2, <1>3, <4>2, <5>1, <5>2, NextRow, NextFailure
      <4> QED
        BY <1>3, <4>1, <4>2 DEF SyncInv, AnswerFollows
    <3>6. InSync' /\ AnswersMatch'
      BY <3>1 DEF InSync, AnswersMatch
    <3> QED
      BY <2>6, <3>2, <3>3, <3>4, <3>5, <3>6 DEF SyncInv
  <2> QED
    BY <2>7, <2>8
<1> QED
  BY <1>4, <1>5

\* A message that ends connect() or the session, or is the stream's.
LEMMA ReadAwayKeeps ==
  ASSUME SyncInv, inbox # <<>>, inbox' = Tail(inbox), UNCHANGED <<command, outbox, server>>,
         pc' \in Away, pc' \in Calling \cup {"left"} => pc \in Calling,
         \/ UNCHANGED answer
         \/ answer' = [answer EXCEPT !.error = @ \/ inbox[1].type = "Error", !.outcome = "error"]
  PROVE  SyncInv'
<1>1. Less(1) /\ WireTypeOK
  BY FirstIsRead DEF SyncInv
<1>2. WireTypeOK'
  BY <1>1, WireAway, LeavingIs
<1> QED
  BY <1>1, <1>2, AwayKeeps

LEMMA ReadKeeps ==
  ASSUME SyncInv, Read
  PROVE  SyncInv'
<1> DEFINE m == inbox[1]
<1>1. inbox # <<>> /\ inbox' = Tail(inbox) /\ UNCHANGED server
  BY DEF Read
<1>2. Head(inbox) = m
  BY <1>1, FirstIsRead DEF SyncInv
<1>3. \/ ReadSslByte(m) \/ ReadAuth(m) \/ ReadPostAuth(m) \/ ReadAnswer(m)
      \/ ReadStart(m) \/ ReadStream(m)
  BY <1>2 DEF Read
<1>4. ASSUME pc \in Connecting, NEW cause, ConnectRaises(cause)
      PROVE  SyncInv'
  BY <1>1, <1>4, ReadAwayKeeps DEF ConnectRaises, calls, Away, Calling
<1>5. CASE ReadSslByte(m)
  <2>1. CASE m.type = "Yes"
    BY <1>1, <1>5, <2>1, ReadTls DEF ReadSslByte, calls
  <2>2. CASE m.type # "Yes"
    BY <1>4, <1>5, <2>2 DEF ReadSslByte, Connecting
  <2> QED
    BY <2>1, <2>2
<1>6. CASE ReadAuth(m)
  <2>1. CASE m.type \in {"Error", "EOF"} \/ Refused(m)
    BY <1>4, <1>6, <2>1 DEF ReadAuth, Connecting
  <2>2. CASE ~(m.type \in {"Error", "EOF"} \/ Refused(m))
    BY <1>1, <1>6, <2>2, ReadAuthKeeps DEF ReadAuth, AfterAuthOk, Sends, Asking
  <2> QED
    BY <2>1, <2>2
<1>7. CASE ReadPostAuth(m)
  <2>1. CASE m.type \in {"Error", "EOF"}
    BY <1>4, <1>7, <2>1 DEF ReadPostAuth, Connecting
  <2>2. CASE m.type \notin {"Error", "EOF"}
    BY <1>1, <1>7, <2>2, ReadPostAuthKeeps DEF ReadPostAuth, calls
  <2> QED
    BY <2>1, <2>2
<1>8. CASE ReadAnswer(m)
  BY <1>1, <1>2, <1>8, ReadAnswerKeeps
<1>9. CASE ReadStart(m)
  BY <1>1, <1>9, ReadAwayKeeps DEF ReadStart, Leaves, Away, Calling
<1>10. CASE ReadStream(m)
  <2>1. pc = "stream" /\ pc' \in {"stream", "unwinding"} /\ UNCHANGED <<command, outbox>>
    BY <1>10 DEF ReadStream, Send, WriteAndDrain, GivesUp
  <2>2. \/ UNCHANGED answer
        \/ answer' = [answer EXCEPT !.error = @ \/ m.type = "Error", !.outcome = "error"]
    BY <1>10 DEF ReadStream
  <2> QED
    BY <1>1, <2>1, <2>2, ReadAwayKeeps DEF Away, Calling
<1> QED
  BY <1>3, <1>5, <1>6, <1>7, <1>8, <1>9, <1>10

LEMMA StepSync ==
  ASSUME SyncInv, NoSocketLeaks, [Next]_vars
  PROVE  SyncInv'
<1>0. ASSUME UNCHANGED <<pc, sock, command, answer, inbox, outbox, srv, serving, said>>
      PROVE  SyncInv'
  <2>1. WireTypeOK' /\ Greets' /\ NotBegun'
    BY <1>0 DEF SyncInv, WireTypeOK, Greets, NotBegun, IsAt
  <2>2. AsksOnce' /\ OneAtATime' /\ ReadyIsLast' /\ Queries'
    BY <1>0 DEF SyncInv, AsksOnce, OneAtATime, ReadyIsLast, Queries, IsAt
  <2>3. RowsFollow => RowsFollow'
    BY <1>0 DEF RowsFollow, IsAt
  <2>4. FailureFollows => FailureFollows'
    BY <1>0 DEF FailureFollows, Own, IsAt
  <2>5. AnswerFollows'
    BY <1>0, <2>3, <2>4 DEF SyncInv, AnswerFollows, Answering, IsAt
  <2>6. InSync' /\ AnswersMatch'
    BY <1>0 DEF SyncInv, InSync, AnswersMatch
  <2> QED
    BY <2>1, <2>2, <2>5, <2>6 DEF SyncInv
<1>1. CASE Opened \/ TlsDone
  BY <1>1, OpenedKeeps, TlsKeeps
<1>2. CASE ConnectTimesOut \/ ConnectCut
  BY <1>2, FailsKeeps DEF ConnectTimesOut, ConnectCut, ConnectRaises, calls, Away, Calling
<1>3. CASE Read
  BY <1>3, ReadKeeps
<1>4. CASE Query \/ StartReplication
  BY <1>4, CallsKeep DEF Query, StartReplication
<1>5. CASE Leave \/ Unwound \/ ConnectionLost
  BY <1>5, FailsKeeps DEF Leave, Unwound, ConnectionLost, calls, Away, Calling
<1>6. CASE StatusDue \/ \E s \in Senders : Acquire(s) \/ DrainEnds(s)
  <2>1. pc = "stream" /\ pc' \in {"stream", "unwinding"}
    BY <1>6 DEF StatusDue, Send, Acquire, DrainEnds, WriteAndDrain, GivesUp
  <2>2. UNCHANGED <<command, answer, inbox, outbox, server>>
    BY <1>6 DEF StatusDue, Acquire, DrainEnds, calls
  <2> QED
    BY <2>1, <2>2, FailsKeeps DEF Away, Calling
<1>7. CASE StreamCancelled \/ ReadRaises \/ FeedbackCancelled
  <2>1. pc \in {"stream", "unwinding"} /\ pc' \in {"stream", "unwinding"}
    BY <1>7 DEF StreamCancelled, ReadRaises, FeedbackCancelled, Cancelled, GivesUp
  <2>2. UNCHANGED <<command, answer, inbox, outbox, server>>
    BY <1>7 DEF StreamCancelled, ReadRaises, FeedbackCancelled, Cancelled, calls
  <2> QED
    BY <2>1, <2>2, FailsKeeps DEF Away, Calling
<1>8. CASE Flush
  BY <1>0, <1>8 DEF Flush, client, calls, server
<1>9. CASE SrvReplies
  <2>1. srv \in Greeting \cup {"accepted", "ready"}
    BY <1>9 DEF SrvReplies, Replies, Greeting
  <2> QED
    BY <1>9, <2>1, GreetingReplies, CommandReplies
<1>10. CASE SrvMoves \/ SrvRow \/ SrvChatters \/ SrvDies
  BY <1>10, MovesKeep, RowKeeps, ChatKeeps, DiesKeeps
<1>11. CASE UNCHANGED vars
  BY <1>0, <1>11 DEF vars, client, calls, server
<1> QED
  BY <1>1, <1>2, <1>3, <1>4, <1>5, <1>6, <1>7, <1>8, <1>9, <1>10, <1>11 DEF Next

LEMMA SyncInvariant == Spec => []SyncInv
<1>1. Init => SyncInv
  <2> SUFFICES ASSUME Init
               PROVE  SyncInv
    OBVIOUS
  <2>1. /\ pc = "open" /\ sock = "none" /\ srv = "accepted" /\ command = 0 /\ serving = 0
        /\ answer = NoAnswer /\ inbox = <<>> /\ outbox = <<>>
        /\ said = [n \in 0..MaxCommands |-> Blank]
    BY DEF Init, Blank
  <2>2. WireTypeOK
    BY <2>1, WalsenderAssumption DEF WireTypeOK, NoAnswer, Blank
  <2>3. Greets
    BY <2>1 DEF Greets, Greeting, InSession, Calling
  <2>4. NotBegun
    BY <2>1 DEF NotBegun
  <2> QED
    BY <2>1, <2>2, <2>3, <2>4
    DEF SyncInv, AsksOnce, OneAtATime, ReadyIsLast, Queries, AnswerFollows, InSync, AnswersMatch,
        InSession
<1>2. SyncInv /\ NoSocketLeaks /\ [Next]_vars => SyncInv'
  BY StepSync
<1> QED
  BY <1>1, <1>2, WalsenderNoSocketLeaks, PTL DEF Spec

\* Between two calls client and server agree on where they are: nothing is left unread
\* but notices and the server's last words (ReadyForQuery ends connect() and every query).
THEOREM WalsenderInSync == Spec => []InSync
<1>1. SyncInv => InSync
  BY DEF SyncInv
<1> QED
  BY <1>1, SyncInvariant, PTL

\* A query returns the rows of its own answer, all of them and in their order, and raises
\* exactly if it failed (simple_query_rows).
THEOREM WalsenderAnswersMatch == Spec => []AnswersMatch
<1>1. SyncInv => AnswersMatch
  BY DEF SyncInv
<1> QED
  BY <1>1, SyncInvariant, PTL
==============================================================================
